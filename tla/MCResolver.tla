----------------------------- MODULE MCResolver -----------------------------
(* Constants of the Resolver run.                                          *)
EXTENDS Resolver

\* 0 is a record that expires with the next second, 1 one that is served for a
\* second: with the clock bound these give expiry before and after a re-query.
MCTtls == {0, 1}
=============================================================================
