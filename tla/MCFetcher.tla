----------------------------- MODULE MCFetcher ------------------------------
(* Constants of the Fetcher runs.                                          *)
EXTENDS Fetcher

\* A record is served for one more second, then looked up again.
MCTtls == {0}
=============================================================================
