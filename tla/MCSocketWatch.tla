--------------------------- MODULE MCSocketWatch ----------------------------
(* Constants of the SocketWatch run.                                       *)
EXTENDS SocketWatch, TLC

\* Sockets are only compared.
MCSymmetry == Permutations(Sockets)
=============================================================================
