------------------------------- MODULE Base64 -------------------------------
(***************************************************************************)
(* base64_encode and base64_decode, which regroup bits with boost's        *)
(* transform_width.  A text is a sequence of the numbers 0 .. 63 that its  *)
(* characters stand for, and of Pad for "=".                               *)
(***************************************************************************)
EXTENDS Integers, Sequences, FiniteSetsExt

Octets == 0 .. 255
Pad == -1

\* Element i of s, counted from 0; beyond the end, and for "=", all bits are 0.
Bits(s, i) == IF i < Len(s) /\ s[i + 1] # Pad THEN s[i + 1] ELSE 0

\* Bits 6k .. 6k + 5 of a sequence of octets
Sextet(s, k) ==
  LET i == (6 * k) \div 8
  IN ((Bits(s, i) * 256 + Bits(s, i + 1)) \div 2 ^ (10 - ((6 * k) % 8))) % 64

\* Bits 8k .. 8k + 7 of a text
Octet(t, k) ==
  LET i == (8 * k) \div 6
  IN ((Bits(t, i) * 4096 + Bits(t, i + 1) * 64 + Bits(t, i + 2))
        \div 2 ^ (10 - ((8 * k) % 6))) % 256

\* Mutant: every text is given the same padding.
EncodePadded(s) == [k \in 1 .. (8 * Len(s) + 5) \div 6 |-> Sextet(s, k - 1)] \o <<Pad>>

base64_encode(s) ==
  [k \in 1 .. (8 * Len(s) + 5) \div 6 |-> Sextet(s, k - 1)] \o
  [k \in 1 .. (3 - (Len(s) % 3)) % 3 |-> Pad]

\* One octet is popped for each "=" at the end.
base64_decode(t) ==
  LET end == Max({0} \cup {k \in 1 .. Len(t) : t[k] # Pad})
  IN [k \in 1 .. (6 * Len(t)) \div 8 - (Len(t) - end) |-> Octet(t, k - 1)]
=============================================================================
