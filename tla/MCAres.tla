------------------------------- MODULE MCAres --------------------------------
(* Constants of the Ares run.                                              *)
EXTENDS Ares

CONSTANTS name1, name2, address

\* Two names, and an address that is asked for like a name.
MCHosts == {name1, name2, address}
MCLiterals == {address}
=============================================================================
