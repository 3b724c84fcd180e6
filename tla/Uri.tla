-------------------------------- MODULE Uri ---------------------------------
(***************************************************************************)
(* base::Uri: what std::regex_match finds in the text after "scheme://".   *)
(* The expression asks for an optional user, with an optional password and *)
(* an "@"; a host; an optional port, path, query and fragment.  It is      *)
(* greedy: a part is there if the rest can match with it, and as long as   *)
(* the rest can match.                                                     *)
(*                                                                         *)
(* A text is a sequence of characters: the separators as they are, "1" for *)
(* a digit, anything else for a letter.                                    *)
(***************************************************************************)
EXTENDS Naturals, Sequences, FiniteSetsExt

Digits == {"1"}

\* The places of s, from i on, where a character of C stands.
At(s, i, C) == {k \in i .. Len(s) : s[k] \in C}

\* The end of the longest text after i without a character of C
Span(s, i, C) == Min({k - 1 : k \in At(s, i + 1, C)} \cup {Len(s)})

-----------------------------------------------------------------------------

\* Where "user@" or "user:password@" may end: a user is free of ":", a password
\* of "@", and neither is empty.
UserEnds(s) ==
  LET colon == Span(s, 0, {":"}) + 1
      ats == At(s, 2, {"@"})
  IN {i \in ats : i < colon} \cup
     {i \in ats : 1 < colon /\ colon + 1 < i /\ i = Span(s, colon, {"@"}) + 1}

\* The path, the query or the fragment begins after j, or nothing does.
Ended(s, j) == j = Len(s) \/ s[j + 1] \in {"/", "?", "#"}

\* The end of ":digits" after j, or j
PortEnd(s, j) ==
  LET longest == Max({k \in j .. Len(s) :
                        \A m \in j + 1 .. k : s[m] \in IF m = j + 1 THEN {":"} ELSE Digits})
  IN IF longest > j + 1 THEN longest ELSE j

\* Where a host that begins after i may end
HostEnds(s, i) ==
  {j \in i + 1 .. Span(s, i, {"/", ":"}) : Ended(s, PortEnd(s, j))}

\* Mutant: the shortest user is preferred, and no user to any.
UserEndShortest(s) == Min({i \in UserEnds(s) \cup {0} : HostEnds(s, i) # {}})

UserEnd(s) == Max({i \in UserEnds(s) \cup {0} : HostEnds(s, i) # {}})

\* regex_match
IsUri(s) == \E i \in UserEnds(s) \cup {0} : HostEnds(s, i) # {}

\* The submatches of a text that matches
Parse(s) ==
  LET i == UserEnd(s)
      colon == Span(s, 0, {":"}) + 1
      j == Max(HostEnds(s, i))
      p == PortEnd(s, j)
      q == Span(s, p, {"?", "#"})
      f == Span(s, q, {"#"})
  IN [username |-> SubSeq(s, 1, Min({colon, i}) - 1),
      password |-> SubSeq(s, colon + 1, i - 1),
      host |-> SubSeq(s, i + 1, j),
      port |-> SubSeq(s, j + 2, p),
      path |-> IF q = p THEN <<"/">> ELSE SubSeq(s, p + 1, q),
      query |-> SubSeq(s, q + 2, f),
      fragment |-> SubSeq(s, f + 2, Len(s))]
=============================================================================
