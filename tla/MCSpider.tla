------------------------------ MODULE MCSpider -------------------------------
(* Constants of the Spider runs.                                           *)
EXTENDS Spider

CONSTANTS u1, u2

\* Two rows in the second half of the table; the first half is empty, so that
\* scans that find nothing take place as well.
MCUris == {u1, u2}
MCGroups == [u \in MCUris |-> 1]
=============================================================================
