-------------------------- MODULE MCFetcherServer ---------------------------
(* The FetcherServer run.  Its constants are sets of model values, given in *)
(* the configuration.                                                       *)
EXTENDS FetcherServer
=============================================================================
