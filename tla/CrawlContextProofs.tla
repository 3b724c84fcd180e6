------------------------- MODULE CrawlContextProofs -------------------------
(***************************************************************************)
(* Theorems about CrawlContext, for pages and chunks of any size.          *)
(***************************************************************************)
EXTENDS CrawlContext, SequenceTheorems, WellFoundedInduction, TLAPS

-----------------------------------------------------------------------------
(* Base64: six bits for a character, and back                              *)

\* What is read of octets, in the text or beyond its end, is an octet.
LEMMA BitsAreAnOctet ==
  ASSUME NEW s \in Seq(Octets), NEW i \in Nat PROVE Bits(s, i) \in 0 .. 255
<1>1. CASE i < Len(s)
  <2>1. i + 1 \in 1 .. Len(s)
    BY <1>1, LenProperties
  <2>2. s[i + 1] \in 0 .. 255
    BY <2>1, ElementOfSeq DEF Octets
  <2> QED
    BY <2>2 DEF Bits
<1>2. CASE ~ (i < Len(s))
  BY <1>2 DEF Bits
<1> QED
  BY <1>1, <1>2

\* Three octets, or what is left of them, make four characters.
LEMMA Grouped ==
  ASSUME NEW s \in Seq(Octets), NEW q \in Nat,
         NEW x, NEW y, NEW z,
         Bits(s, 3 * q) = x, Bits(s, 3 * q + 1) = y, Bits(s, 3 * q + 2) = z
  PROVE  /\ x \in 0 .. 255 /\ y \in 0 .. 255 /\ z \in 0 .. 255
         /\ Sextet(s, 4 * q) = x \div 4
         /\ Sextet(s, 4 * q + 1) = (x % 4) * 16 + y \div 16
         /\ Sextet(s, 4 * q + 2) = (y % 16) * 4 + z \div 64
         /\ Sextet(s, 4 * q + 3) = z % 64
<1>1. x \in 0 .. 255 /\ y \in 0 .. 255 /\ z \in 0 .. 255
  BY BitsAreAnOctet
<1>2. PICK w : w \in 0 .. 255 /\ Bits(s, 3 * q + 3) = w
  <2>1. 3 * q + 3 \in Nat
    OBVIOUS
  <2>2. Bits(s, 3 * q + 3) \in 0 .. 255
    BY <2>1, BitsAreAnOctet
  <2> QED
    BY <2>2
<1>3. Sextet(s, 4 * q) = x \div 4
  <2> SUFFICES ASSUME NEW k, k = 4 * q PROVE Sextet(s, k) = x \div 4
    OBVIOUS
  <2>1. (6 * k) \div 8 = 3 * q /\ (6 * k) % 8 = 0
    BY ONLY k = 4 * q, q \in Nat
  <2>2. 2 ^ (10 - ((6 * k) % 8)) = 1024
    <3>1. 2 ^ (10 - 0) = 1024
      OBVIOUS
    <3> QED
      BY ONLY <2>1, <3>1
  <2>3. ASSUME NEW e, 2 ^ (10 - ((6 * k) % 8)) = e
        PROVE  Sextet(s, k) = ((x * 256 + y) \div e) % 64
    <3>1. ASSUME NEW i, i = (6 * k) \div 8
          PROVE  Sextet(s, k) = ((Bits(s, i) * 256 + Bits(s, i + 1)) \div e) % 64
      BY ONLY <2>3, <3>1 DEF Sextet
    <3>2. ASSUME NEW i, i = (6 * k) \div 8 PROVE Bits(s, i) = x /\ Bits(s, i + 1) = y
      BY <1>2, <2>1, <3>2
    <3> QED
      BY ONLY <3>1, <3>2
  <2>4. ((x * 256 + y) \div 1024) % 64 = x \div 4
    BY ONLY <1>1, <1>2
  <2> QED
    BY ONLY <2>2, <2>3, <2>4
<1>4. Sextet(s, 4 * q + 1) = (x % 4) * 16 + y \div 16
  <2> SUFFICES ASSUME NEW k, k = 4 * q + 1 PROVE Sextet(s, k) = (x % 4) * 16 + y \div 16
    OBVIOUS
  <2>1. (6 * k) \div 8 = 3 * q /\ (6 * k) % 8 = 6
    BY ONLY k = 4 * q + 1, q \in Nat
  <2>2. 2 ^ (10 - ((6 * k) % 8)) = 16
    <3>1. 2 ^ (10 - 6) = 16
      OBVIOUS
    <3> QED
      BY ONLY <2>1, <3>1
  <2>3. ASSUME NEW e, 2 ^ (10 - ((6 * k) % 8)) = e
        PROVE  Sextet(s, k) = ((x * 256 + y) \div e) % 64
    <3>1. ASSUME NEW i, i = (6 * k) \div 8
          PROVE  Sextet(s, k) = ((Bits(s, i) * 256 + Bits(s, i + 1)) \div e) % 64
      BY ONLY <2>3, <3>1 DEF Sextet
    <3>2. ASSUME NEW i, i = (6 * k) \div 8 PROVE Bits(s, i) = x /\ Bits(s, i + 1) = y
      BY <1>2, <2>1, <3>2
    <3> QED
      BY ONLY <3>1, <3>2
  <2>4. ((x * 256 + y) \div 16) % 64 = (x % 4) * 16 + y \div 16
    BY ONLY <1>1, <1>2
  <2> QED
    BY ONLY <2>2, <2>3, <2>4
<1>5. Sextet(s, 4 * q + 2) = (y % 16) * 4 + z \div 64
  <2> SUFFICES ASSUME NEW k, k = 4 * q + 2 PROVE Sextet(s, k) = (y % 16) * 4 + z \div 64
    OBVIOUS
  <2>1. (6 * k) \div 8 = 3 * q + 1 /\ (6 * k) % 8 = 4
    BY ONLY k = 4 * q + 2, q \in Nat
  <2>2. 2 ^ (10 - ((6 * k) % 8)) = 64
    <3>1. 2 ^ (10 - 4) = 64
      OBVIOUS
    <3> QED
      BY ONLY <2>1, <3>1
  <2>3. ASSUME NEW e, 2 ^ (10 - ((6 * k) % 8)) = e
        PROVE  Sextet(s, k) = ((y * 256 + z) \div e) % 64
    <3>1. ASSUME NEW i, i = (6 * k) \div 8
          PROVE  Sextet(s, k) = ((Bits(s, i) * 256 + Bits(s, i + 1)) \div e) % 64
      BY ONLY <2>3, <3>1 DEF Sextet
    <3>2. ASSUME NEW i, i = (6 * k) \div 8 PROVE Bits(s, i) = y /\ Bits(s, i + 1) = z
      BY <1>2, <2>1, <3>2
    <3> QED
      BY ONLY <3>1, <3>2
  <2>4. ((y * 256 + z) \div 64) % 64 = (y % 16) * 4 + z \div 64
    BY ONLY <1>1, <1>2
  <2> QED
    BY ONLY <2>2, <2>3, <2>4
<1>6. Sextet(s, 4 * q + 3) = z % 64
  <2> SUFFICES ASSUME NEW k, k = 4 * q + 3 PROVE Sextet(s, k) = z % 64
    OBVIOUS
  <2>1. (6 * k) \div 8 = 3 * q + 2 /\ (6 * k) % 8 = 2
    BY ONLY k = 4 * q + 3, q \in Nat
  <2>2. 2 ^ (10 - ((6 * k) % 8)) = 256
    <3>1. 2 ^ (10 - 2) = 256
      OBVIOUS
    <3> QED
      BY ONLY <2>1, <3>1
  <2>3. ASSUME NEW e, 2 ^ (10 - ((6 * k) % 8)) = e
        PROVE  Sextet(s, k) = ((z * 256 + w) \div e) % 64
    <3>1. ASSUME NEW i, i = (6 * k) \div 8
          PROVE  Sextet(s, k) = ((Bits(s, i) * 256 + Bits(s, i + 1)) \div e) % 64
      BY ONLY <2>3, <3>1 DEF Sextet
    <3>2. ASSUME NEW i, i = (6 * k) \div 8 PROVE Bits(s, i) = z /\ Bits(s, i + 1) = w
      BY <1>2, <2>1, <3>2
    <3> QED
      BY ONLY <3>1, <3>2
  <2>4. ((z * 256 + w) \div 256) % 64 = z % 64
    BY ONLY <1>1, <1>2
  <2> QED
    BY ONLY <2>2, <2>3, <2>4
<1> QED
  BY <1>1, <1>3, <1>4, <1>5, <1>6

\* Octets come in groups of three, characters in groups of four.
LEMMA EveryNat ==
  ASSUME NEW k \in Nat
  PROVE  /\ \E q \in Nat : k = 3 * q \/ k = 3 * q + 1 \/ k = 3 * q + 2
         /\ \E q \in Nat : k = 4 * q \/ k = 4 * q + 1 \/ k = 4 * q + 2 \/ k = 4 * q + 3
<1>1. k \div 3 \in Nat /\ (\/ k = 3 * (k \div 3) \/ k = 3 * (k \div 3) + 1
                           \/ k = 3 * (k \div 3) + 2)
  OBVIOUS
<1>2. k \div 4 \in Nat /\ (\/ k = 4 * (k \div 4) \/ k = 4 * (k \div 4) + 1
                           \/ k = 4 * (k \div 4) + 2 \/ k = 4 * (k \div 4) + 3)
  OBVIOUS
<1> QED
  BY <1>1, <1>2

\* A sextet is a number of six bits, and 0 beyond the octets.
LEMMA SextetBits ==
  ASSUME NEW s \in Seq(Octets), NEW k \in Nat
  PROVE  /\ Sextet(s, k) \in 0 .. 63
         /\ k >= (8 * Len(s) + 5) \div 6 => Sextet(s, k) = 0
<1>1. PICK q \in Nat : k = 4 * q \/ k = 4 * q + 1 \/ k = 4 * q + 2 \/ k = 4 * q + 3
  BY EveryNat
<1>2. PICK x, y, z :
        Bits(s, 3 * q) = x /\ Bits(s, 3 * q + 1) = y /\ Bits(s, 3 * q + 2) = z
  OBVIOUS
<1>3. x \in 0 .. 255 /\ y \in 0 .. 255 /\ z \in 0 .. 255
  BY <1>2, Grouped
<1>4. /\ Sextet(s, 4 * q) = x \div 4
      /\ Sextet(s, 4 * q + 1) = (x % 4) * 16 + y \div 16
      /\ Sextet(s, 4 * q + 2) = (y % 16) * 4 + z \div 64
      /\ Sextet(s, 4 * q + 3) = z % 64
  BY <1>2, Grouped
<1>5. PICK n \in Nat : n = Len(s)
  BY LenProperties
<1>6. /\ 3 * q >= n => x = 0
      /\ 3 * q + 1 >= n => y = 0
      /\ 3 * q + 2 >= n => z = 0
  BY ONLY <1>2, <1>5, q \in Nat DEF Bits
<1>7. /\ x \div 4 \in 0 .. 63
      /\ (x % 4) * 16 + y \div 16 \in 0 .. 63
      /\ (y % 16) * 4 + z \div 64 \in 0 .. 63
      /\ z % 64 \in 0 .. 63
  BY ONLY <1>3
<1>8. Sextet(s, k) \in 0 .. 63
  BY ONLY <1>1, <1>4, <1>7
<1>9. ASSUME k >= (8 * n + 5) \div 6 PROVE Sextet(s, k) = 0
  <2>1. CASE k = 4 * q
    <3>1. 3 * q >= n
      BY ONLY <1>9, <2>1, n \in Nat, q \in Nat
    <3>2. x = 0
      BY ONLY <3>1, <1>6
    <3> QED
      BY ONLY <3>2, <2>1, <1>4
  <2>2. CASE k = 4 * q + 1
    <3>1. 3 * q >= n /\ 3 * q + 1 >= n
      BY ONLY <1>9, <2>2, n \in Nat, q \in Nat
    <3>2. x = 0 /\ y = 0
      BY ONLY <3>1, <1>6
    <3> QED
      BY ONLY <3>2, <2>2, <1>4
  <2>3. CASE k = 4 * q + 2
    <3>1. 3 * q + 1 >= n /\ 3 * q + 2 >= n
      BY ONLY <1>9, <2>3, n \in Nat, q \in Nat
    <3>2. y = 0 /\ z = 0
      BY ONLY <3>1, <1>6
    <3> QED
      BY ONLY <3>2, <2>3, <1>4
  <2>4. CASE k = 4 * q + 3
    <3>1. 3 * q + 2 >= n
      BY ONLY <1>9, <2>4, n \in Nat, q \in Nat
    <3>2. z = 0
      BY ONLY <3>1, <1>6
    <3> QED
      BY ONLY <3>2, <2>4, <1>4
  <2> QED
    BY ONLY <1>1, <2>1, <2>2, <2>3, <2>4
<1> QED
  BY ONLY <1>5, <1>8, <1>9

\* Four characters make the three octets again.
LEMMA Ungrouped ==
  ASSUME NEW s \in Seq(Octets), NEW t, \A i \in Nat : Bits(t, i) = Sextet(s, i),
         NEW k \in Nat
  PROVE  Octet(t, k) = Bits(s, k)
<1>1. PICK q \in Nat : k = 3 * q \/ k = 3 * q + 1 \/ k = 3 * q + 2
  BY EveryNat
<1>2. PICK x, y, z :
        Bits(s, 3 * q) = x /\ Bits(s, 3 * q + 1) = y /\ Bits(s, 3 * q + 2) = z
  OBVIOUS
<1>3. x \in 0 .. 255 /\ y \in 0 .. 255 /\ z \in 0 .. 255
  BY <1>2, Grouped
<1>4. PICK a, b, c, d, f :
        /\ Bits(t, 4 * q) = a /\ Bits(t, 4 * q + 1) = b /\ Bits(t, 4 * q + 2) = c
        /\ Bits(t, 4 * q + 3) = d /\ Bits(t, 4 * q + 4) = f
  OBVIOUS
<1>5. /\ a = Sextet(s, 4 * q) /\ b = Sextet(s, 4 * q + 1) /\ c = Sextet(s, 4 * q + 2)
      /\ d = Sextet(s, 4 * q + 3) /\ f \in 0 .. 63
  <2>1. /\ 4 * q \in Nat /\ 4 * q + 1 \in Nat /\ 4 * q + 2 \in Nat
        /\ 4 * q + 3 \in Nat /\ 4 * q + 4 \in Nat
    OBVIOUS
  <2>2. Sextet(s, 4 * q + 4) \in 0 .. 63
    BY <2>1, SextetBits
  <2> QED
    BY <1>4, <2>1, <2>2
<1>6. /\ a = x \div 4 /\ b = (x % 4) * 16 + y \div 16
      /\ c = (y % 16) * 4 + z \div 64 /\ d = z % 64
  BY <1>2, <1>5, Grouped
<1>7. f \in 0 .. 63
  BY <1>5
<1>8. CASE k = 3 * q
  <2>1. (8 * k) \div 6 = 4 * q /\ (8 * k) % 6 = 0
    BY ONLY <1>8, q \in Nat
  <2>2. 2 ^ (10 - ((8 * k) % 6)) = 1024
    <3>1. 2 ^ (10 - 0) = 1024
      OBVIOUS
    <3> QED
      BY ONLY <2>1, <3>1
  <2>3. ASSUME NEW e, 2 ^ (10 - ((8 * k) % 6)) = e
        PROVE  Octet(t, k) = ((a * 4096 + b * 64 + c) \div e) % 256
    <3>1. ASSUME NEW i, i = (8 * k) \div 6
          PROVE  Octet(t, k) = ((Bits(t, i) * 4096 + Bits(t, i + 1) * 64 + Bits(t, i + 2))
                                  \div e) % 256
      BY ONLY <2>3, <3>1 DEF Octet
    <3>2. ASSUME NEW i, i = (8 * k) \div 6
          PROVE  Bits(t, i) = a /\ Bits(t, i + 1) = b /\ Bits(t, i + 2) = c
      BY <1>4, <2>1, <3>2
    <3> QED
      BY ONLY <3>1, <3>2
  <2>4. ((a * 4096 + b * 64 + c) \div 1024) % 256 = x
    BY ONLY <1>3, <1>6, <1>7
  <2>5. Octet(t, k) = x
    BY ONLY <2>2, <2>3, <2>4
  <2> QED
    BY <1>2, <1>8, <2>5
<1>9. CASE k = 3 * q + 1
  <2>1. (8 * k) \div 6 = 4 * q + 1 /\ (8 * k) % 6 = 2
    BY ONLY <1>9, q \in Nat
  <2>2. 2 ^ (10 - ((8 * k) % 6)) = 256
    <3>1. 2 ^ (10 - 2) = 256
      OBVIOUS
    <3> QED
      BY ONLY <2>1, <3>1
  <2>3. ASSUME NEW e, 2 ^ (10 - ((8 * k) % 6)) = e
        PROVE  Octet(t, k) = ((b * 4096 + c * 64 + d) \div e) % 256
    <3>1. ASSUME NEW i, i = (8 * k) \div 6
          PROVE  Octet(t, k) = ((Bits(t, i) * 4096 + Bits(t, i + 1) * 64 + Bits(t, i + 2))
                                  \div e) % 256
      BY ONLY <2>3, <3>1 DEF Octet
    <3>2. ASSUME NEW i, i = (8 * k) \div 6
          PROVE  Bits(t, i) = b /\ Bits(t, i + 1) = c /\ Bits(t, i + 2) = d
      BY <1>4, <2>1, <3>2
    <3> QED
      BY ONLY <3>1, <3>2
  <2>4. ((b * 4096 + c * 64 + d) \div 256) % 256 = y
    BY ONLY <1>3, <1>6, <1>7
  <2>5. Octet(t, k) = y
    BY ONLY <2>2, <2>3, <2>4
  <2> QED
    BY <1>2, <1>9, <2>5
<1>10. CASE k = 3 * q + 2
  <2>1. (8 * k) \div 6 = 4 * q + 2 /\ (8 * k) % 6 = 4
    BY ONLY <1>10, q \in Nat
  <2>2. 2 ^ (10 - ((8 * k) % 6)) = 64
    <3>1. 2 ^ (10 - 4) = 64
      OBVIOUS
    <3> QED
      BY ONLY <2>1, <3>1
  <2>3. ASSUME NEW e, 2 ^ (10 - ((8 * k) % 6)) = e
        PROVE  Octet(t, k) = ((c * 4096 + d * 64 + f) \div e) % 256
    <3>1. ASSUME NEW i, i = (8 * k) \div 6
          PROVE  Octet(t, k) = ((Bits(t, i) * 4096 + Bits(t, i + 1) * 64 + Bits(t, i + 2))
                                  \div e) % 256
      BY ONLY <2>3, <3>1 DEF Octet
    <3>2. ASSUME NEW i, i = (8 * k) \div 6
          PROVE  Bits(t, i) = c /\ Bits(t, i + 1) = d /\ Bits(t, i + 2) = f
      BY <1>4, <2>1, <3>2
    <3> QED
      BY ONLY <3>1, <3>2
  <2>4. ((c * 4096 + d * 64 + f) \div 64) % 256 = z
    BY ONLY <1>3, <1>6, <1>7
  <2>5. Octet(t, k) = z
    BY ONLY <2>2, <2>3, <2>4
  <2> QED
    BY <1>2, <1>10, <2>5
<1> QED
  BY <1>1, <1>8, <1>9, <1>10

\* "=" stands for no number.
LEMMA PadIsNoNumber == ASSUME NEW x \in 0 .. 255 PROVE x # Pad
BY DEF Pad

\* What is written: a character for each six bits begun, and "=" up to a multiple
\* of four.
LEMMA Encoded ==
  ASSUME NEW s \in Seq(Octets)
  PROVE  \E n, m, t :
           /\ n = Len(s) /\ m = (8 * n + 5) \div 6 /\ t = base64_encode(s)
           /\ n \in Nat /\ m \in Nat /\ Len(t) \in Nat /\ m <= Len(t)
           /\ Len(t) % 4 = 0
           /\ (6 * Len(t)) \div 8 - (Len(t) - m) = n
           /\ \A i \in 1 .. Len(t) : t[i] = IF i <= m THEN Sextet(s, i - 1) ELSE Pad
<1> SUFFICES ASSUME NEW n, NEW m, NEW t,
                    n = Len(s), m = (8 * n + 5) \div 6, t = base64_encode(s)
             PROVE  /\ n \in Nat /\ m \in Nat /\ Len(t) \in Nat /\ m <= Len(t)
                    /\ Len(t) % 4 = 0
                    /\ (6 * Len(t)) \div 8 - (Len(t) - m) = n
                    /\ \A i \in 1 .. Len(t) :
                         t[i] = IF i <= m THEN Sextet(s, i - 1) ELSE Pad
  OBVIOUS
<1>1. n \in Nat
  BY LenProperties
<1>2. m \in Nat
  BY ONLY <1>1, m = (8 * n + 5) \div 6
<1>3. PICK p : p = (3 - (n % 3)) % 3
  OBVIOUS
<1>4. p \in Nat /\ (m + p) % 4 = 0 /\ (6 * (m + p)) \div 8 - p = n
  BY ONLY <1>1, <1>3, m = (8 * n + 5) \div 6
<1>5. PICK chars, pads :
        chars = [k \in 1 .. m |-> Sextet(s, k - 1)] /\ pads = [k \in 1 .. p |-> Pad]
  OBVIOUS
<1>6. t = chars \o pads
  BY <1>3, <1>5 DEF base64_encode
<1>7. \A k \in 1 .. m : Sextet(s, k - 1) \in {Pad} \cup 0 .. 63
  <2> SUFFICES ASSUME NEW k \in 1 .. m PROVE Sextet(s, k - 1) \in {Pad} \cup 0 .. 63
    OBVIOUS
  <2>1. k - 1 \in Nat
    BY <1>2
  <2>2. Sextet(s, k - 1) \in 0 .. 63
    BY <2>1, SextetBits
  <2> QED
    BY <2>2
<1>8. chars \in Seq({Pad} \cup 0 .. 63) /\ Len(chars) = m
  BY ONLY <1>2, <1>5, <1>7
<1>9. pads \in Seq({Pad} \cup 0 .. 63) /\ Len(pads) = p
  BY ONLY <1>4, <1>5
<1>10. /\ Len(t) = Len(chars) + Len(pads)
       /\ \A i \in 1 .. Len(chars) + Len(pads) :
            t[i] = IF i <= Len(chars) THEN chars[i] ELSE pads[i - Len(chars)]
  BY ONLY <1>6, <1>8, <1>9, ConcatProperties
<1>11. Len(t) = m + p
  BY ONLY <1>8, <1>9, <1>10
<1>12. \A i \in 1 .. m + p : t[i] = IF i <= m THEN Sextet(s, i - 1) ELSE Pad
  <2> SUFFICES ASSUME NEW i \in 1 .. m + p
               PROVE  t[i] = IF i <= m THEN Sextet(s, i - 1) ELSE Pad
    OBVIOUS
  <2>1. t[i] = IF i <= m THEN chars[i] ELSE pads[i - m]
    BY <1>8, <1>9, <1>10
  <2>2. CASE i <= m
    <3>1. i \in 1 .. m
      BY <1>2, <1>4, <2>2
    <3> QED
      BY <1>5, <2>1, <2>2, <3>1
  <2>3. CASE ~ (i <= m)
    <3>1. i - m \in 1 .. p
      BY <1>2, <1>4, <2>3
    <3> QED
      BY <1>5, <2>1, <2>3, <3>1
  <2> QED
    BY <2>2, <2>3
<1> QED
  <2>1. m + p \in Nat /\ m <= m + p /\ (m + p) - m = p
    BY ONLY <1>2, <1>4
  <2> QED
    BY <1>1, <1>2, <1>4, <1>11, <1>12, <2>1

\* The client decodes what the server encoded.
LEMMA DecodesWhatWasEncoded ==
  ASSUME NEW s \in Seq(Octets) PROVE base64_decode(base64_encode(s)) = s
<1>1. PICK n, m, t :
        /\ n = Len(s) /\ m = (8 * n + 5) \div 6 /\ t = base64_encode(s)
        /\ n \in Nat /\ m \in Nat /\ Len(t) \in Nat /\ m <= Len(t)
        /\ Len(t) % 4 = 0
        /\ (6 * Len(t)) \div 8 - (Len(t) - m) = n
        /\ \A i \in 1 .. Len(t) : t[i] = IF i <= m THEN Sextet(s, i - 1) ELSE Pad
  BY Encoded
<1>2. /\ n \in Nat /\ m \in Nat /\ Len(t) \in Nat /\ m <= Len(t)
      /\ (6 * Len(t)) \div 8 - (Len(t) - m) = n
      /\ \A i \in 1 .. Len(t) : t[i] = IF i <= m THEN Sextet(s, i - 1) ELSE Pad
  BY ONLY <1>1
<1>3. \A i \in Nat : Bits(t, i) = Sextet(s, i)
  <2> SUFFICES ASSUME NEW i \in Nat PROVE Bits(t, i) = Sextet(s, i)
    OBVIOUS
  <2>1. Sextet(s, i) \in 0 .. 63
    BY SextetBits
  <2>2. CASE i < m
    <3>1. i + 1 \in 1 .. Len(t) /\ i + 1 <= m /\ i + 1 - 1 = i /\ i < Len(t)
      BY ONLY <1>2, <2>2, i \in Nat
    <3>2. t[i + 1] = Sextet(s, i)
      BY ONLY <1>2, <3>1
    <3>3. t[i + 1] # Pad
      BY ONLY <2>1, <3>2, PadIsNoNumber
    <3> QED
      BY ONLY <3>1, <3>2, <3>3 DEF Bits
  <2>3. CASE ~ (i < m)
    <3>1. Bits(t, i) = 0
      BY ONLY <1>2, <2>3, i \in Nat DEF Bits, Pad
    <3>2. i >= (8 * Len(s) + 5) \div 6
      BY ONLY <1>1, <1>2, <2>3, i \in Nat
    <3>3. Sextet(s, i) = 0
      BY <3>2, SextetBits
    <3> QED
      BY <3>1, <3>3
  <2> QED
    BY <2>2, <2>3
<1>4. Max({0} \cup {k \in 1 .. Len(t) : t[k] # Pad}) = m
  <2>1. \A k \in 1 .. Len(t) : t[k] # Pad <=> k <= m
    <3> SUFFICES ASSUME NEW k \in 1 .. Len(t) PROVE t[k] # Pad <=> k <= m
      OBVIOUS
    <3>1. k - 1 \in Nat
      BY <1>2
    <3>2. Sextet(s, k - 1) \in 0 .. 63
      BY <3>1, SextetBits
    <3>3. Sextet(s, k - 1) # Pad
      BY <3>2, PadIsNoNumber
    <3> QED
      BY <1>2, <3>3
  <2>2. {0} \cup {k \in 1 .. Len(t) : t[k] # Pad} = 0 .. m
    BY <1>2, <2>1
  <2>3. Max(0 .. m) = m
    BY <1>2 DEF Max
  <2> QED
    BY <2>2, <2>3
<1>5. base64_decode(t) = [k \in 1 .. n |-> Octet(t, k - 1)]
  BY ONLY <1>2, <1>4 DEF base64_decode
<1>6. \A k \in 1 .. n : Octet(t, k - 1) = s[k]
  <2> SUFFICES ASSUME NEW k \in 1 .. n PROVE Octet(t, k - 1) = s[k]
    OBVIOUS
  <2>1. k - 1 \in Nat /\ k - 1 < n /\ k - 1 + 1 = k
    BY <1>2
  <2>2. Octet(t, k - 1) = Bits(s, k - 1)
    BY <1>3, <2>1, Ungrouped
  <2>3. s[k] \in 0 .. 255
    BY <1>1, ElementOfSeq DEF Octets
  <2>4. s[k] # Pad
    BY <2>3, PadIsNoNumber
  <2>5. Bits(s, k - 1) = s[k]
    BY ONLY <1>1, <2>1, <2>4 DEF Bits
  <2> QED
    BY <2>2, <2>5
<1>7. [k \in 1 .. n |-> Octet(t, k - 1)] = s
  BY <1>1, <1>6
<1> QED
  BY <1>1, <1>5, <1>7

-----------------------------------------------------------------------------
(* The URI: parts that are put together and found again                    *)

\* x stands in the text t behind its a-th character.
Stands(x, t, a) == a + Len(x) <= Len(t) /\ \A k \in 1 .. Len(x) : t[a + k] = x[k]

\* z is x, and y after it.
Glued(z, x, y) ==
  /\ z \in Seq(Characters) /\ x \in Seq(Characters) /\ y \in Seq(Characters)
  /\ Len(z) \in Nat /\ Len(x) \in Nat /\ Len(y) \in Nat
  /\ Len(z) = Len(x) + Len(y)
  /\ Stands(x, z, 0) /\ Stands(y, z, Len(x))

\* Two texts put together stand one behind the other.
LEMMA Joined ==
  ASSUME NEW x \in Seq(Characters), NEW y \in Seq(Characters),
         NEW z, z = x \o y
  PROVE  Glued(z, x, y)
<1>1. /\ x \o y \in Seq(Characters) /\ Len(x \o y) = Len(x) + Len(y)
      /\ Len(x) \in Nat /\ Len(y) \in Nat
      /\ \A i \in 1 .. Len(x) + Len(y) :
           (x \o y)[i] = IF i <= Len(x) THEN x[i] ELSE y[i - Len(x)]
  BY ConcatProperties, LenProperties
<1>2. Stands(x, x \o y, 0)
  BY <1>1 DEF Stands
<1>3. Stands(y, x \o y, Len(x))
  BY <1>1 DEF Stands
<1>4. Glued(x \o y, x, y)
  BY <1>1, <1>2, <1>3 DEF Glued
<1> QED
  BY <1>4, Zenon

\* What stands in a text stands in what is put behind it as well.
LEMMA StandsStill ==
  ASSUME NEW x, NEW y, NEW z, Glued(z, x, y), NEW v \in Seq(Characters), NEW a \in Nat,
         Stands(v, x, a)
  PROVE  Stands(v, z, a)
<1>1. /\ Len(x) \in Nat /\ Len(y) \in Nat /\ Len(z) = Len(x) + Len(y)
      /\ \A k \in 1 .. Len(x) : z[0 + k] = x[k]
      /\ a + Len(v) <= Len(x) /\ \A k \in 1 .. Len(v) : x[a + k] = v[k]
  BY DEF Glued, Stands
<1>2. Len(v) \in Nat
  BY LenProperties
<1>3. ASSUME NEW k \in 1 .. Len(v) PROVE z[a + k] = v[k]
  <2>1. a + k \in 1 .. Len(x) /\ 0 + (a + k) = a + k
    BY <1>1, <1>2
  <2>2. z[0 + (a + k)] = x[a + k]
    BY <1>1, <2>1
  <2> QED
    BY <1>1, <2>1, <2>2
<1>4. a + Len(v) <= Len(z)
  BY <1>1, <1>2
<1> QED
  BY <1>3, <1>4 DEF Stands

\* What Before adds to a text t behind its a-th character
Marked(mark, x, t, a) ==
  x # <<>> => t[a + 1] = mark /\ \A k \in 1 .. Len(x) : t[a + 1 + k] = x[k]

Adds(B, mark, x) ==
  /\ B \in Seq(Characters)
  /\ Len(B) = (IF x = <<>> THEN 0 ELSE 1 + Len(x))
  /\ \A a \in Nat : a + Len(B) = (IF x = <<>> THEN a ELSE a + 1 + Len(x))
  /\ \A t : \A a \in Nat : Stands(B, t, a) => Marked(mark, x, t, a)

\* A part and the mark before it, or nothing at all.
LEMMA BeforeText ==
  ASSUME NEW mark \in Characters, NEW x \in Seq(Characters), NEW B, B = Before(mark, x)
  PROVE  Adds(B, mark, x)
<1>1. CASE x = <<>>
  <2>1. B \in Seq(Characters) /\ Len(B) = 0
    BY <1>1 DEF Before
  <2>2. \A a \in Nat : a + Len(B) = a
    BY <2>1
  <2>3. \A t : \A a \in Nat : Marked(mark, x, t, a)
    BY <1>1 DEF Marked
  <2> QED
    BY <1>1, <2>1, <2>2, <2>3, Zenon DEF Adds
<1>2. CASE x # <<>>
  <2>1. <<mark>> \in Seq(Characters) /\ Len(<<mark>>) = 1 /\ <<mark>>[1] = mark
    BY ONLY mark \in Characters
  <2>2. B = <<mark>> \o x
    BY <1>2 DEF Before
  <2>3. Glued(B, <<mark>>, x)
    BY <2>1, <2>2, Joined, Zenon
  <2>4. /\ B \in Seq(Characters) /\ Len(x) \in Nat /\ Len(B) = 1 + Len(x)
        /\ Stands(<<mark>>, B, 0) /\ Stands(x, B, 1)
    BY <2>1, <2>3 DEF Glued
  <2>5. B[0 + 1] = <<mark>>[1]
    BY <2>1, <2>4 DEF Stands
  <2>6. B[1] = mark
    BY <2>1, <2>5
  <2>7. \A k \in 1 .. Len(x) : B[1 + k] = x[k]
    BY <2>4 DEF Stands
  <2>8. ASSUME NEW t, NEW a \in Nat, Stands(B, t, a) PROVE Marked(mark, x, t, a)
    <3>1. \A k \in 1 .. 1 + Len(x) : t[a + k] = B[k]
      BY <2>4, <2>8 DEF Stands
    <3>2. t[a + 1] = mark
      BY <2>4, <2>6, <3>1
    <3>3. ASSUME NEW k \in 1 .. Len(x) PROVE t[a + 1 + k] = x[k]
      <4>1. 1 + k \in 1 .. 1 + Len(x) /\ a + (1 + k) = a + 1 + k
        BY <2>4
      <4>2. t[a + (1 + k)] = B[1 + k]
        BY <3>1, <4>1
      <4> QED
        BY <2>7, <4>1, <4>2
    <3> QED
      BY <3>2, <3>3 DEF Marked
  <2>9. \A a \in Nat : a + Len(B) = a + 1 + Len(x)
    BY <2>4
  <2> QED
    BY <1>2, <2>4, <2>8, <2>9 DEF Adds
<1> QED
  BY <1>1, <1>2

\* A least element is the minimum.
LEMMA MinIs ==
  ASSUME NEW S, NEW e \in Int, e \in S, \A x \in S : x \in Int /\ e <= x
  PROVE  Min(S) = e
<1>1. \E x \in S : \A y \in S : x <= y
  OBVIOUS
<1>2. Min(S) \in S /\ \A y \in S : Min(S) <= y
  BY <1>1, Zenon DEF Min
<1>3. \A a \in S : (\A y \in S : a <= y) => a = e
  OBVIOUS
<1> QED
  BY <1>2, <1>3, Zenon

\* A greatest element is the maximum.
LEMMA MaxIs ==
  ASSUME NEW S, NEW e \in Int, e \in S, \A x \in S : x \in Int /\ x <= e
  PROVE  Max(S) = e
<1>1. \E x \in S : \A y \in S : x >= y
  OBVIOUS
<1>2. Max(S) \in S /\ \A y \in S : Max(S) >= y
  BY <1>1, Zenon DEF Max
<1>3. \A a \in S : (\A y \in S : a >= y) => a = e
  OBVIOUS
<1> QED
  BY <1>2, <1>3, Zenon

\* Where a span ends
LEMMA SpanEnds ==
  ASSUME NEW s \in Seq(Characters), NEW C, NEW i \in Nat, NEW e \in Nat, i <= e,
         e <= Len(s), \A k \in i + 1 .. e : s[k] \notin C,
         e < Len(s) => s[e + 1] \in C
  PROVE  Span(s, i, C) = e
<1>1. PICK S : S = {k - 1 : k \in At(s, i + 1, C)} \cup {Len(s)}
  OBVIOUS
<1>2. Len(s) \in Nat
  BY LenProperties
<1>3. e \in S
  <2>1. CASE e = Len(s)
    BY <1>1, <2>1
  <2>2. CASE e < Len(s)
    <3>1. e + 1 \in At(s, i + 1, C) /\ (e + 1) - 1 = e
      BY <1>2, <2>2 DEF At
    <3> QED
      BY <1>1, <3>1
  <2> QED
    BY <1>2, <2>1, <2>2
<1>4. \A x \in S : x \in Int /\ e <= x
  <2> SUFFICES ASSUME NEW x \in S PROVE x \in Int /\ e <= x
    OBVIOUS
  <2>1. CASE x = Len(s)
    BY <1>2, <2>1
  <2>2. CASE x # Len(s)
    <3>1. PICK k \in i + 1 .. Len(s) : s[k] \in C /\ x = k - 1
      BY <1>1, <2>2 DEF At
    <3>2. ~ (k <= e)
      BY <1>2, <3>1
    <3> QED
      BY <1>2, <3>1, <3>2
  <2> QED
    BY <2>1, <2>2
<1>5. Min(S) = e
  BY <1>3, <1>4, MinIs
<1> QED
  BY <1>1, <1>5 DEF Span

\* A part is what stands between two places.
LEMMA PartIs ==
  ASSUME NEW s \in Seq(Characters), NEW x \in Seq(Characters), NEW a \in Nat,
         NEW b \in Int, b = a + Len(x), b <= Len(s), \A k \in 1 .. Len(x) : s[a + k] = x[k]
  PROVE  SubSeq(s, a + 1, b) = x
<1>1. Len(x) \in Nat /\ Len(s) \in Nat
  BY LenProperties
<1>2. SubSeq(s, a + 1, b) \in Seq(Characters) /\ Len(SubSeq(s, a + 1, b)) = Len(x)
  BY <1>1
<1>3. \A k \in 1 .. Len(x) : SubSeq(s, a + 1, b)[k] = x[k]
  BY <1>1
<1> QED
  BY <1>1, <1>2, <1>3, SeqEqual

\* Where the parts of a URI stand in its text s: u, h, p, q and f are the ends of
\* user, host, port, path and query.
UserLaid(n, w, s, u) ==
  /\ n = <<>> => u = 0
  /\ n # <<>> =>
       /\ u = IF w = <<>> THEN Len(n) + 1 ELSE Len(n) + 1 + Len(w) + 1
       /\ s[u] = "@"
       /\ \A k \in 1 .. Len(n) : s[k] = n[k]
       /\ Marked(":", w, s, Len(n))

Laid(n, w, H, O, A, Q, F, s, u, h, p, q, f) ==
  /\ s \in Seq(Characters)
  /\ u \in Nat /\ h \in Nat /\ p \in Nat /\ q \in Nat /\ f \in Nat
  /\ UserLaid(n, w, s, u)
  /\ h = u + Len(H) /\ Stands(H, s, u)
  /\ p = (IF O = <<>> THEN h ELSE h + 1 + Len(O)) /\ Marked(":", O, s, h)
  /\ q = p + Len(A) /\ Stands(A, s, p)
  /\ f = (IF Q = <<>> THEN q ELSE q + 1 + Len(Q)) /\ Marked("?", Q, s, q)
  /\ Len(s) = (IF F = <<>> THEN f ELSE f + 1 + Len(F)) /\ Marked("#", F, s, f)

\* The separators of a URI are characters.
LEMMA MarksAreCharacters ==
  ":" \in Characters /\ "/" \in Characters /\ "?" \in Characters /\ "#" \in Characters
  /\ "@" \in Characters
BY DEF Characters

\* A user with or without a password, and its mark, at the beginning.
LEMMA UserStands ==
  ASSUME NEW n \in Seq(Characters), NEW w \in Seq(Characters), w # <<>> => n # <<>>,
         NEW U, U = After(n \o Before(":", w), "@")
  PROVE  /\ U \in Seq(Characters)
         /\ \A t : Stands(U, t, 0) => UserLaid(n, w, t, Len(U))
<1>1. PICK B : B = Before(":", w)
  OBVIOUS
<1>2. PICK V : V = n \o B
  OBVIOUS
<1>3. Adds(B, ":", w)
  BY <1>1, BeforeText, MarksAreCharacters, Zenon
<1>4. /\ B \in Seq(Characters)
      /\ Len(B) = IF w = <<>> THEN 0 ELSE 1 + Len(w)
      /\ \A t : \A a \in Nat : Stands(B, t, a) => Marked(":", w, t, a)
  BY <1>3, Zenon DEF Adds
<1>5. Glued(V, n, B)
  BY <1>2, <1>4, Joined, Zenon
<1>6. /\ V \in Seq(Characters) /\ Len(V) = Len(n) + Len(B)
      /\ Stands(n, V, 0) /\ Stands(B, V, Len(n))
      /\ Len(n) \in Nat /\ Len(B) \in Nat /\ Len(w) \in Nat
  BY <1>5, LenProperties DEF Glued
<1>7. U = After(V, "@")
  BY <1>1, <1>2
<1>8. CASE n = <<>>
  <2>1. w = <<>> /\ Len(n) = 0
    BY <1>8
  <2>2. Len(V) = 0
    BY <1>4, <1>6, <2>1
  <2>3. U = <<>>
    BY <1>6, <1>7, <2>2, EmptySeq DEF After
  <2> QED
    BY <1>8, <2>3 DEF UserLaid
<1>9. CASE n # <<>>
  <2>1. Len(V) > 0
    BY <1>6, <1>9, EmptySeq
  <2>2. PICK c : c = <<"@">>
    OBVIOUS
  <2>3. U = V \o c
    BY <1>7, <2>1, <2>2, EmptySeq DEF After
  <2>4. c \in Seq(Characters) /\ Len(c) = 1 /\ c[1] = "@"
    <3>1. PICK x \in Characters : x = "@"
      BY MarksAreCharacters
    <3>2. <<x>> \in Seq(Characters) /\ Len(<<x>>) = 1 /\ <<x>>[1] = x
      BY ONLY x \in Characters
    <3> QED
      BY <2>2, <3>1, <3>2
  <2>5. Glued(U, V, c)
    BY <1>6, <2>3, <2>4, Joined, Zenon
  <2>6. /\ U \in Seq(Characters) /\ Len(U) = Len(V) + 1
        /\ Stands(c, U, Len(V))
    BY <2>4, <2>5 DEF Glued
  <2>7. Stands(n, U, 0)
    BY <1>6, <2>5, StandsStill, Zenon, 0 \in Nat
  <2>8. Stands(B, U, Len(n))
    BY <1>4, <1>6, <2>5, StandsStill, Zenon
  <2>9. U[Len(V) + 1] = c[1]
    BY <1>6, <2>4, <2>6 DEF Stands
  <2>10. U[Len(U)] = "@" /\ Len(U) \in Nat
    BY <1>6, <2>4, <2>6, <2>9
  <2>11. Len(U) = IF w = <<>> THEN Len(n) + 1 ELSE Len(n) + 1 + Len(w) + 1
    BY <1>4, <1>6, <2>6
  <2>12. ASSUME NEW t, Stands(U, t, 0) PROVE UserLaid(n, w, t, Len(U))
    <3>1. \A k \in 1 .. Len(U) : t[k] = U[k]
      <4>1. \A k \in 1 .. Len(U) : 0 + k = k /\ t[0 + k] = U[k]
        BY <2>12, <2>10 DEF Stands
      <4> QED
        BY <4>1
    <3>2. t[Len(U)] = "@"
      BY <1>6, <2>6, <2>10, <3>1
    <3>3. \A k \in 1 .. Len(n) : t[k] = n[k]
      <4>1. \A k \in 1 .. Len(n) : k \in 1 .. Len(U) /\ 0 + k = k /\ U[0 + k] = n[k]
        BY <1>6, <2>6, <2>7 DEF Stands
      <4> QED
        BY <3>1, <4>1
    <3>4. Stands(B, t, Len(n))
      <4>1. /\ Len(n) + Len(B) <= Len(U)
            /\ \A k \in 1 .. Len(B) : U[Len(n) + k] = B[k]
        BY <2>8 DEF Stands
      <4>2. Len(U) <= Len(t)
        BY <2>10, <2>12 DEF Stands
      <4>3. ASSUME NEW k \in 1 .. Len(B) PROVE t[Len(n) + k] = B[k]
        <5>1. Len(n) + k \in 1 .. Len(U)
          BY <1>6, <2>10, <4>1
        <5> QED
          BY <3>1, <4>1, <5>1
      <4>4. Len(n) + Len(B) <= Len(t)
        <5>1. 0 + Len(U) <= Len(t)
          BY <2>12 DEF Stands
        <5>2. Len(n) + Len(B) <= 0 + Len(U)
          BY <1>6, <2>10, <4>1
        <5> QED
          BY <4>1, <4>2, <1>6, <2>10, <2>12 DEF Stands
      <4> QED
        BY <4>3, <4>4 DEF Stands
    <3>5. Marked(":", w, t, Len(n))
      BY <1>4, <1>6, <3>4, Zenon
    <3> QED
      BY <1>9, <2>11, <3>2, <3>3, <3>5 DEF UserLaid
  <2> QED
    BY <2>6, <2>12
<1> QED
  BY <1>8, <1>9

\* The text of a URI has its parts where they were put.
LEMMA Layout ==
  ASSUME NEW n \in Seq(Characters), NEW w \in Seq(Characters), NEW H \in Seq(Characters),
         NEW O \in Seq(Characters), NEW A \in Seq(Characters),
         NEW Q \in Seq(Characters), NEW F \in Seq(Characters),
         w # <<>> => n # <<>>, NEW s,
         s = After(n \o Before(":", w), "@") \o H \o Before(":", O) \o A
               \o Before("?", Q) \o Before("#", F)
  PROVE  \E u, h, p, q, f : Laid(n, w, H, O, A, Q, F, s, u, h, p, q, f)
<1>1. PICK U, P, R, G :
        /\ U = After(n \o Before(":", w), "@")
        /\ P = Before(":", O) /\ R = Before("?", Q) /\ G = Before("#", F)
  OBVIOUS
<1>2. PICK s1, s2, s3, s4 :
        /\ s1 = U \o H /\ s2 = s1 \o P /\ s3 = s2 \o A /\ s4 = s3 \o R
  OBVIOUS
<1>3. s = s4 \o G
  BY <1>1, <1>2, Zenon
<1>4. /\ U \in Seq(Characters)
      /\ \A t : Stands(U, t, 0) => UserLaid(n, w, t, Len(U))
  BY <1>1, UserStands, Zenon
<1>5. Adds(P, ":", O) /\ Adds(R, "?", Q) /\ Adds(G, "#", F)
  BY <1>1, BeforeText, MarksAreCharacters, Zenon
<1>6. P \in Seq(Characters) /\ R \in Seq(Characters) /\ G \in Seq(Characters)
  BY <1>5 DEF Adds
<1>7. /\ Glued(s1, U, H) /\ Glued(s2, s1, P) /\ Glued(s3, s2, A) /\ Glued(s4, s3, R)
      /\ Glued(s, s4, G)
  <2>1. Glued(s1, U, H)
    BY <1>2, <1>4, Joined, Zenon
  <2>2. Glued(s2, s1, P)
    <3>1. s1 \in Seq(Characters)
      BY <2>1 DEF Glued
    <3> QED
      BY <1>2, <1>6, <3>1, Joined, Zenon
  <2>3. Glued(s3, s2, A)
    <3>1. s2 \in Seq(Characters)
      BY <2>2 DEF Glued
    <3> QED
      BY <1>2, <3>1, Joined, Zenon
  <2>4. Glued(s4, s3, R)
    <3>1. s3 \in Seq(Characters)
      BY <2>3 DEF Glued
    <3> QED
      BY <1>2, <1>6, <3>1, Joined, Zenon
  <2>5. Glued(s, s4, G)
    <3>1. s4 \in Seq(Characters)
      BY <2>4 DEF Glued
    <3> QED
      BY <1>3, <1>6, <3>1, Joined, Zenon
  <2> QED
    BY <2>1, <2>2, <2>3, <2>4, <2>5
<1>8. PICK u, h, p, q, f :
        u = Len(U) /\ h = Len(s1) /\ p = Len(s2) /\ q = Len(s3) /\ f = Len(s4)
  OBVIOUS
<1>9. /\ u \in Nat /\ h \in Nat /\ p \in Nat /\ q \in Nat /\ f \in Nat
      /\ Len(P) \in Nat /\ Len(R) \in Nat /\ Len(G) \in Nat
      /\ h = u + Len(H) /\ p = h + Len(P) /\ q = p + Len(A) /\ f = q + Len(R)
      /\ Len(s) = f + Len(G) /\ s \in Seq(Characters)
  BY <1>7, <1>8 DEF Glued
<1>10. ASSUME NEW v \in Seq(Characters), NEW a \in Nat
      PROVE  /\ Stands(v, s1, a) => Stands(v, s2, a)
             /\ Stands(v, s2, a) => Stands(v, s3, a)
             /\ Stands(v, s3, a) => Stands(v, s4, a)
             /\ Stands(v, s4, a) => Stands(v, s, a)
  BY <1>7, StandsStill, Zenon
<1>11. /\ Stands(U, s1, 0) /\ Stands(H, s1, u) /\ Stands(P, s2, h) /\ Stands(A, s3, p)
      /\ Stands(R, s4, q) /\ Stands(G, s, f)
  BY <1>7, <1>8, Zenon DEF Glued
<1>12. Stands(U, s, 0) /\ Stands(H, s, u)
  BY <1>9, <1>10, <1>11, <1>4, Zenon, 0 \in Nat
<1>13. Stands(P, s, h) /\ Stands(A, s, p) /\ Stands(R, s, q)
  BY <1>9, <1>10, <1>11, <1>6, Zenon
<1>14. UserLaid(n, w, s, u)
  BY <1>8, <1>12, <1>4, Zenon
<1>15. Marked(":", O, s, h) /\ Marked("?", Q, s, q) /\ Marked("#", F, s, f)
  BY <1>9, <1>11, <1>13, <1>5, Zenon DEF Adds
<1>16. /\ p = (IF O = <<>> THEN h ELSE h + 1 + Len(O))
       /\ f = (IF Q = <<>> THEN q ELSE q + 1 + Len(Q))
       /\ Len(s) = (IF F = <<>> THEN f ELSE f + 1 + Len(F))
  BY <1>9, <1>5, Zenon DEF Adds
<1>17. Laid(n, w, H, O, A, Q, F, s, u, h, p, q, f)
  BY <1>9, <1>12, <1>13, <1>14, <1>15, <1>16, Zenon DEF Laid
<1> QED
  BY <1>17, Zenon

\* A set of naturals has its minimum.
LEMMA Least ==
  ASSUME NEW S, S \subseteq Nat, S # {}
  PROVE  Min(S) \in S /\ \A y \in S : Min(S) <= y
<1>1. PICK R : R = OpToRel(<, Nat)
  OBVIOUS
<1>2. IsWellFoundedOn(R, Nat)
  BY <1>1, NatLessThanWellFounded
<1>3. \E x \in S : \A y \in S : ~ (<<y, x>> \in R)
  BY <1>2, WFMin
<1>4. \A x, y \in Nat : x < y => <<x, y>> \in R
  BY <1>1 DEF OpToRel
<1>5. ASSUME NEW x \in S, NEW y \in S, ~ (<<y, x>> \in R) PROVE x <= y
  BY <1>4, <1>5
<1>6. \E x \in S : \A y \in S : x <= y
  BY <1>3, <1>5
<1> QED
  BY <1>6, Zenon DEF Min

\* How far a span goes at least
LEMMA SpanReaches ==
  ASSUME NEW s \in Seq(Characters), NEW C, NEW i \in Nat, NEW e \in Nat,
         e <= Len(s), \A k \in i + 1 .. e : s[k] \notin C
  PROVE  Span(s, i, C) \in Nat /\ (i <= e => e <= Span(s, i, C))
<1>1. PICK S : S = {k - 1 : k \in At(s, i + 1, C)} \cup {Len(s)}
  OBVIOUS
<1>2. Len(s) \in Nat
  BY LenProperties
<1>3. \A x \in S : x \in Nat /\ (i <= e => e <= x)
  <2> SUFFICES ASSUME NEW x \in S PROVE x \in Nat /\ (i <= e => e <= x)
    OBVIOUS
  <2>1. CASE x = Len(s)
    BY <1>2, <2>1
  <2>2. CASE x # Len(s)
    <3>1. PICK k \in i + 1 .. Len(s) : s[k] \in C /\ x = k - 1
      BY <1>1, <2>2 DEF At
    <3>2. i <= e => ~ (k <= e)
      BY <1>2, <3>1
    <3> QED
      BY <1>2, <3>1, <3>2
  <2> QED
    BY <2>1, <2>2
<1>4. S \subseteq Nat /\ S # {}
  BY <1>1, <1>3
<1>5. Min(S) \in S
  BY <1>4, Least
<1>6. Span(s, i, C) = Min(S)
  BY <1>1 DEF Span
<1> QED
  BY <1>3, <1>5, <1>6

\* Nothing stands between two places in the wrong order.
LEMMA NothingIs ==
  ASSUME NEW s \in Seq(Characters), NEW a \in Int, NEW b \in Int, b < a
  PROVE  SubSeq(s, a, b) = <<>>
OBVIOUS

\* A part with its mark is what stands between two places.
LEMMA MarkedIs ==
  ASSUME NEW mark, NEW s \in Seq(Characters), NEW x \in Seq(Characters), NEW a \in Nat,
         NEW b \in Nat, Marked(mark, x, s, a), b <= Len(s),
         b = IF x = <<>> THEN a ELSE a + 1 + Len(x)
  PROVE  SubSeq(s, a + 2, b) = x
<1>1. CASE x = <<>>
  BY <1>1, NothingIs
<1>2. CASE x # <<>>
  <2>1. /\ b = (a + 1) + Len(x) /\ a + 1 \in Nat /\ (a + 1) + 1 = a + 2
        /\ \A k \in 1 .. Len(x) : s[(a + 1) + k] = x[k]
    BY <1>2 DEF Marked
  <2>2. SubSeq(s, (a + 1) + 1, b) = x
    BY <2>1, PartIs
  <2> QED
    BY <2>1, <2>2
<1> QED
  BY <1>1, <1>2

\* What the syntax asks of the parts
Syntax(n, w, H, O, A, Q, F) ==
  /\ n \in Seq(Characters) /\ w \in Seq(Characters) /\ H \in Seq(Characters)
  /\ O \in Seq(Characters) /\ A \in Seq(Characters) /\ Q \in Seq(Characters)
  /\ F \in Seq(Characters)
  /\ w # <<>> => n # <<>>
  /\ Free(n, {":"}) /\ Free(w, {"@"})
  /\ H # <<>> /\ Free(H, {":", "/", "@"})
  /\ \A i \in 1 .. Len(O) : O[i] \in Digits
  /\ A # <<>> => A[1] = "/"
  /\ Free(A, {"?", "#"}) /\ Free(Q, {"#"})

\* No "@" after the host, and a path where there is more to come
Unambiguous(A, Q, F) ==
  /\ A # <<>> \/ (Q = <<>> /\ F = <<>>)
  /\ Free(A, {"@"}) /\ Free(Q, {"@"}) /\ Free(F, {"@"})

\* A text with its parts and their lengths
Found(n, w, H, O, A, Q, F, s, u, h, p, q, f) ==
  /\ Laid(n, w, H, O, A, Q, F, s, u, h, p, q, f)
  /\ Syntax(n, w, H, O, A, Q, F)
  /\ Len(n) \in Nat /\ Len(w) \in Nat /\ Len(H) \in Nat /\ Len(O) \in Nat
  /\ Len(A) \in Nat /\ Len(Q) \in Nat /\ Len(F) \in Nat /\ Len(s) \in Nat
  /\ u < h /\ h <= p /\ p <= q /\ q <= f /\ f <= Len(s)
  /\ n = <<>> => u = 0
  /\ n # <<>> => Len(n) > 0 /\ u > Len(n)
  /\ w # <<>> => Len(w) > 0 /\ u = Len(n) + 1 + Len(w) + 1
  /\ n # <<>> /\ w = <<>> => u = Len(n) + 1
  /\ A # <<>> => Len(A) > 0
  /\ A = <<>> => q = p
  /\ O = <<>> => p = h
  /\ O # <<>> => Len(O) > 0 /\ p = h + 1 + Len(O)
  /\ Q = <<>> => f = q
  /\ Q # <<>> => q < Len(s)
  /\ F = <<>> => Len(s) = f
  /\ F # <<>> => f < Len(s)

\* The places of the parts in order, within the text.
LEMMA Lengths ==
  ASSUME NEW n, NEW w, NEW H, NEW O, NEW A, NEW Q, NEW F, NEW s, NEW u, NEW h, NEW p,
         NEW q, NEW f, Laid(n, w, H, O, A, Q, F, s, u, h, p, q, f),
         Syntax(n, w, H, O, A, Q, F)
  PROVE  Found(n, w, H, O, A, Q, F, s, u, h, p, q, f)
<1>1. /\ Len(n) \in Nat /\ Len(w) \in Nat /\ Len(H) \in Nat /\ Len(O) \in Nat
      /\ Len(A) \in Nat /\ Len(Q) \in Nat /\ Len(F) \in Nat /\ Len(s) \in Nat
  BY LenProperties DEF Laid, Syntax
<1>2. /\ n # <<>> => Len(n) > 0
      /\ w # <<>> => Len(w) > 0
      /\ H # <<>> /\ Len(H) > 0
      /\ O # <<>> => Len(O) > 0
      /\ A # <<>> => Len(A) > 0
      /\ A = <<>> => Len(A) = 0
      /\ w # <<>> => n # <<>>
  BY <1>1, EmptySeq DEF Syntax
<1>3. /\ u \in Nat /\ h \in Nat /\ p \in Nat /\ q \in Nat /\ f \in Nat
      /\ n = <<>> => u = 0
      /\ n # <<>> => u = IF w = <<>> THEN Len(n) + 1 ELSE Len(n) + 1 + Len(w) + 1
      /\ h = u + Len(H)
      /\ p = (IF O = <<>> THEN h ELSE h + 1 + Len(O))
      /\ q = p + Len(A)
      /\ f = (IF Q = <<>> THEN q ELSE q + 1 + Len(Q))
      /\ Len(s) = (IF F = <<>> THEN f ELSE f + 1 + Len(F))
  BY DEF Laid, UserLaid
<1>4. /\ n # <<>> /\ w = <<>> => u = Len(n) + 1
      /\ w # <<>> => u = Len(n) + 1 + Len(w) + 1
  BY ONLY <1>2, <1>3
<1>5. n # <<>> => u > Len(n)
  <2>1. CASE w = <<>>
    BY <1>1, <1>4, <2>1
  <2>2. CASE w # <<>>
    BY <1>1, <1>4, <2>2
  <2> QED
    BY <2>1, <2>2
<1>6. u < h
  BY <1>1, <1>2, <1>3
<1>7. /\ O = <<>> => p = h
      /\ O # <<>> => p = h + 1 + Len(O)
      /\ Q = <<>> => f = q
      /\ Q # <<>> => f = q + 1 + Len(Q)
      /\ F = <<>> => Len(s) = f
      /\ F # <<>> => Len(s) = f + 1 + Len(F)
  BY ONLY <1>3
<1>8. h <= p
  <2>1. CASE O = <<>>
    BY <1>3, <1>7, <2>1
  <2>2. CASE O # <<>>
    BY <1>1, <1>3, <1>7, <2>2
  <2> QED
    BY <2>1, <2>2
<1>9. p <= q /\ (A = <<>> => q = p)
  BY <1>1, <1>2, <1>3
<1>10. q <= f /\ (Q # <<>> => q < f)
  <2>1. CASE Q = <<>>
    BY <1>3, <1>7, <2>1
  <2>2. CASE Q # <<>>
    BY <1>1, <1>3, <1>7, <2>2
  <2> QED
    BY <2>1, <2>2
<1>11. f <= Len(s) /\ (F # <<>> => f < Len(s))
  <2>1. CASE F = <<>>
    BY <1>3, <1>7, <2>1
  <2>2. CASE F # <<>>
    BY <1>1, <1>3, <1>7, <2>2
  <2> QED
    BY <2>1, <2>2
<1>12. Q # <<>> => q < Len(s)
  BY <1>1, <1>3, <1>10, <1>11
<1> QED
  BY <1>1, <1>2, <1>3, <1>4, <1>5, <1>6, <1>7, <1>8, <1>9, <1>10, <1>11, <1>12,
     Zenon DEF Found

\* Every part ends where the next one begins.
LEMMA Separated ==
  ASSUME NEW n, NEW w, NEW H, NEW O, NEW A, NEW Q, NEW F, NEW s, NEW u, NEW h, NEW p,
         NEW q, NEW f, Found(n, w, H, O, A, Q, F, s, u, h, p, q, f)
  PROVE  /\ f < Len(s) => s[f + 1] = "#"
         /\ q < Len(s) => s[q + 1] \in {"?", "#"}
         /\ p < Len(s) => s[p + 1] \in {"/", "?", "#"}
         /\ A # <<>> => s[p + 1] = "/"
<1>1. /\ u \in Nat /\ h \in Nat /\ p \in Nat /\ q \in Nat /\ f \in Nat /\ Len(s) \in Nat
      /\ Marked("?", Q, s, q) /\ Marked("#", F, s, f) /\ Stands(A, s, p)
      /\ A # <<>> => A[1] = "/"
      /\ Len(A) \in Nat /\ (A # <<>> => Len(A) > 0)
      /\ A = <<>> => q = p
      /\ Q = <<>> => f = q
      /\ F = <<>> => Len(s) = f
  BY DEF Found, Laid, Syntax
<1>2. f < Len(s) => s[f + 1] = "#"
  BY <1>1 DEF Marked
<1>3. q < Len(s) => s[q + 1] \in {"?", "#"}
  <2>1. CASE Q = <<>>
    BY <1>1, <1>2, <2>1
  <2>2. CASE Q # <<>>
    BY <1>1, <2>2 DEF Marked
  <2> QED
    BY <2>1, <2>2
<1>4. A # <<>> => s[p + 1] = "/"
  <2> HAVE A # <<>>
  <2>1. 1 \in 1 .. Len(A) /\ A[1] = "/"
    BY <1>1
  <2> QED
    BY <1>1, <2>1 DEF Stands
<1>5. p < Len(s) => s[p + 1] \in {"/", "?", "#"}
  <2>1. CASE A = <<>>
    BY <1>1, <1>3, <2>1
  <2>2. CASE A # <<>>
    BY <1>4, <2>2
  <2> QED
    BY <2>1, <2>2
<1> QED
  BY <1>2, <1>3, <1>4, <1>5

\* The path and the query end where they were meant to.
LEMMA RestFound ==
  ASSUME NEW n, NEW w, NEW H, NEW O, NEW A, NEW Q, NEW F, NEW s, NEW u, NEW h, NEW p,
         NEW q, NEW f, Found(n, w, H, O, A, Q, F, s, u, h, p, q, f)
  PROVE  Span(s, p, {"?", "#"}) = q /\ Span(s, q, {"#"}) = f
<1>1. /\ s \in Seq(Characters) /\ p \in Nat /\ q \in Nat /\ f \in Nat /\ Len(s) \in Nat
      /\ p <= q /\ q <= f /\ f <= Len(s)
      /\ Len(A) \in Nat /\ Len(Q) \in Nat
      /\ q = p + Len(A) /\ f = (IF Q = <<>> THEN q ELSE q + 1 + Len(Q))
      /\ Stands(A, s, p) /\ Marked("?", Q, s, q)
      /\ Free(A, {"?", "#"}) /\ Free(Q, {"#"})
  BY DEF Found, Laid, Syntax
<1>2. /\ f < Len(s) => s[f + 1] = "#"
      /\ q < Len(s) => s[q + 1] \in {"?", "#"}
  BY Separated
<1>3. ASSUME NEW k \in p + 1 .. q PROVE s[k] \notin {"?", "#"}
  <2>1. k - p \in 1 .. Len(A) /\ p + (k - p) = k
    BY <1>1
  <2>2. s[p + (k - p)] = A[k - p]
    BY <1>1, <2>1 DEF Stands
  <2> QED
    BY <1>1, <2>1, <2>2 DEF Free
<1>4. Span(s, p, {"?", "#"}) = q
  <2>1. q <= Len(s)
    BY <1>1
  <2> QED
    BY <1>1, <1>2, <1>3, <2>1, SpanEnds
<1>5. ASSUME NEW k \in q + 1 .. f PROVE s[k] # "#"
  <2>1. CASE Q = <<>>
    BY <1>1, <2>1
  <2>2. CASE Q # <<>>
    <3>1. s[q + 1] = "?" /\ \A i \in 1 .. Len(Q) : s[q + 1 + i] = Q[i]
      BY <1>1, <2>2 DEF Marked
    <3>2. f = q + 1 + Len(Q)
      BY <1>1, <2>2
    <3>3. CASE k = q + 1
      BY <3>1, <3>3
    <3>4. CASE k # q + 1
      <4>1. k - (q + 1) \in 1 .. Len(Q) /\ q + 1 + (k - (q + 1)) = k
        BY <1>1, <3>2, <3>4
      <4>2. s[q + 1 + (k - (q + 1))] = Q[k - (q + 1)]
        BY <3>1, <4>1
      <4> QED
        BY <1>1, <4>1, <4>2 DEF Free
    <3> QED
      BY <3>3, <3>4
  <2> QED
    BY <2>1, <2>2
<1>6. Span(s, q, {"#"}) = f
  <2>1. \A k \in q + 1 .. f : s[k] \notin {"#"}
    BY <1>5
  <2>2. f < Len(s) => s[f + 1] \in {"#"}
    BY <1>2
  <2> QED
    BY <1>1, <2>1, <2>2, SpanEnds
<1> QED
  BY <1>4, <1>6

\* The port ends where it was meant to: no part behind it begins with a digit.
LEMMA PortFound ==
  ASSUME NEW n, NEW w, NEW H, NEW O, NEW A, NEW Q, NEW F, NEW s, NEW u, NEW h, NEW p,
         NEW q, NEW f, Found(n, w, H, O, A, Q, F, s, u, h, p, q, f)
  PROVE  PortEnd(s, h) = p
<1>1. /\ h \in Nat /\ p \in Nat /\ Len(s) \in Nat
      /\ Marked(":", O, s, h) /\ Len(O) \in Nat
      /\ \A i \in 1 .. Len(O) : O[i] \in Digits
      /\ O = <<>> => p = h
      /\ O # <<>> => Len(O) > 0 /\ p = h + 1 + Len(O)
  BY DEF Found, Laid, Syntax
<1>2. h <= p /\ p <= Len(s)
  <2>1. h <= p /\ p <= q /\ q <= f /\ f <= Len(s) /\ q \in Nat /\ f \in Nat
    BY DEF Found, Laid
  <2> QED
    BY <1>1, <2>1
<1>3. p < Len(s) => s[p + 1] \in {"/", "?", "#"}
  BY Separated
<1>4. PICK S : S = {k \in h .. Len(s) :
                      \A m \in h + 1 .. k : s[m] \in IF m = h + 1 THEN {":"} ELSE Digits}
  OBVIOUS
<1>5. \A m \in h + 1 .. p : s[m] \in IF m = h + 1 THEN {":"} ELSE Digits
  <2>1. CASE O = <<>>
    BY <1>1, <2>1
  <2>2. CASE O # <<>>
    <3>1. s[h + 1] = ":" /\ \A i \in 1 .. Len(O) : s[h + 1 + i] = O[i]
      BY <1>1, <2>2 DEF Marked
    <3>2. ASSUME NEW m \in h + 1 .. p, m # h + 1 PROVE s[m] \in Digits
      <4>1. m - (h + 1) \in 1 .. Len(O) /\ h + 1 + (m - (h + 1)) = m
        BY <1>1, <2>2, <3>2
      <4>2. s[h + 1 + (m - (h + 1))] = O[m - (h + 1)]
        BY <3>1, <4>1
      <4> QED
        BY <1>1, <4>1, <4>2
    <3> QED
      BY <3>1, <3>2
  <2> QED
    BY <2>1, <2>2
<1>6. p \in S
  BY <1>1, <1>2, <1>4, <1>5
<1>7. \A x \in S : x \in Int /\ x <= p
  <2> SUFFICES ASSUME NEW x \in S, ~ (x <= p) PROVE FALSE
    BY <1>1, <1>4
  <2>1. /\ x \in h .. Len(s)
        /\ \A m \in h + 1 .. x : s[m] \in IF m = h + 1 THEN {":"} ELSE Digits
    BY <1>4
  <2>2. p + 1 \in h + 1 .. x /\ p < Len(s)
    BY <1>1, <1>2, <2>1
  <2>3. s[p + 1] \in {":"} \cup Digits
    BY <2>1, <2>2
  <2> QED
    BY <1>3, <2>2, <2>3 DEF Digits
<1>8. Max(S) = p
  BY <1>1, <1>6, <1>7, MaxIs
<1>9. PortEnd(s, h) = IF p > h + 1 THEN p ELSE h
  BY <1>4, <1>8 DEF PortEnd
<1>10. CASE O = <<>>
  BY <1>1, <1>9, <1>10
<1>11. CASE O # <<>>
  BY <1>1, <1>9, <1>11
<1> QED
  BY <1>10, <1>11

\* The host may end where it was meant to, and does when the rest is unambiguous.
LEMMA HostFound ==
  ASSUME NEW n, NEW w, NEW H, NEW O, NEW A, NEW Q, NEW F, NEW s, NEW u, NEW h, NEW p,
         NEW q, NEW f, Found(n, w, H, O, A, Q, F, s, u, h, p, q, f)
  PROVE  /\ h \in HostEnds(s, u)
         /\ Unambiguous(A, Q, F) => Max(HostEnds(s, u)) = h
<1>1. /\ s \in Seq(Characters) /\ u \in Nat /\ h \in Nat /\ p \in Nat /\ Len(s) \in Nat
      /\ Len(H) \in Nat /\ h = u + Len(H) /\ Stands(H, s, u)
      /\ Free(H, {":", "/", "@"}) /\ u < h
      /\ Marked(":", O, s, h)
      /\ O = <<>> => p = h
  BY DEF Found, Laid, Syntax
<1>2. h <= p /\ p <= Len(s)
  <2>1. h <= p /\ p <= q /\ q <= f /\ f <= Len(s) /\ q \in Nat /\ f \in Nat
    BY DEF Found, Laid
  <2> QED
    BY <1>1, <2>1
<1>3. \A k \in u + 1 .. h : s[k] \notin {"/", ":"}
  <2> TAKE k \in u + 1 .. h
  <2>1. k - u \in 1 .. Len(H) /\ u + (k - u) = k
    BY <1>1
  <2>2. s[u + (k - u)] = H[k - u]
    BY <1>1, <2>1 DEF Stands
  <2> QED
    BY <1>1, <2>1, <2>2 DEF Free
<1>4. Ended(s, PortEnd(s, h))
  BY <1>1, <1>2, PortFound, Separated DEF Ended
<1>5. /\ Span(s, u, {"/", ":"}) \in Nat /\ h <= Span(s, u, {"/", ":"})
  BY <1>1, <1>2, <1>3, SpanReaches
<1>6. h \in HostEnds(s, u)
  BY <1>1, <1>4, <1>5 DEF HostEnds
<1>7. ASSUME Unambiguous(A, Q, F) PROVE Max(HostEnds(s, u)) = h
  <2>1. h < Len(s) => s[h + 1] \in {"/", ":"}
    <3>1. CASE O # <<>>
      BY <1>1, <3>1 DEF Marked
    <3>2. CASE O = <<>> /\ A # <<>>
      BY <1>1, <3>2, Separated
    <3>3. CASE O = <<>> /\ A = <<>>
      <4>1. Q = <<>> /\ F = <<>>
        BY <1>7, <3>3 DEF Unambiguous
      <4>2. Len(s) = h
        BY <1>1, <3>3, <4>1 DEF Found
      <4> QED
        BY <1>1, <4>2
    <3> QED
      BY <3>1, <3>2, <3>3
  <2>2. Span(s, u, {"/", ":"}) = h
    BY <1>1, <1>2, <1>3, <2>1, SpanEnds
  <2>3. \A x \in HostEnds(s, u) : x \in Int /\ x <= h
    BY <1>1, <2>2 DEF HostEnds
  <2> QED
    BY <1>1, <1>6, <2>3, MaxIs
<1> QED
  BY <1>6, <1>7

\* Where the user ends, and the first ":"
LEMMA UserFound ==
  ASSUME NEW n, NEW w, NEW H, NEW O, NEW A, NEW Q, NEW F, NEW s, NEW u, NEW h, NEW p,
         NEW q, NEW f, Found(n, w, H, O, A, Q, F, s, u, h, p, q, f)
  PROVE  /\ u \in UserEnds(s) \cup {0}
         /\ Span(s, 0, {":"}) \in Nat
         /\ n # <<>> /\ w = <<>> => u <= Span(s, 0, {":"})
         /\ w # <<>> => Span(s, 0, {":"}) = Len(n)
<1>1. /\ s \in Seq(Characters) /\ u \in Nat /\ Len(s) \in Nat /\ 0 \in Nat
      /\ Len(n) \in Nat /\ Len(w) \in Nat
      /\ n = <<>> => u = 0
      /\ n # <<>> =>
           /\ s[u] = "@"
           /\ \A k \in 1 .. Len(n) : s[k] = n[k]
           /\ Marked(":", w, s, Len(n))
           /\ Len(n) > 0 /\ u > Len(n)
      /\ w # <<>> => n # <<>>
      /\ w # <<>> => Len(w) > 0 /\ u = Len(n) + 1 + Len(w) + 1
      /\ n # <<>> /\ w = <<>> => u = Len(n) + 1
      /\ Free(n, {":"}) /\ Free(w, {"@"})
  BY DEF Found, Laid, UserLaid, Syntax
<1>2. u < Len(s)
  <2>1. /\ u < h /\ h <= p /\ p <= q /\ q <= f /\ f <= Len(s)
        /\ h \in Nat /\ p \in Nat /\ q \in Nat /\ f \in Nat
    BY DEF Found, Laid
  <2> QED
    BY <1>1, <2>1
<1>3. Span(s, 0, {":"}) \in Nat
  <2>1. \A k \in 0 + 1 .. 0 : s[k] \notin {":"}
    OBVIOUS
  <2>2. 0 <= Len(s)
    BY <1>1
  <2> QED
    BY <1>1, <2>1, <2>2, SpanReaches
<1>4. n # <<>> => \A k \in 0 + 1 .. Len(n) : s[k] \notin {":"}
  BY <1>1 DEF Free
<1>5. ASSUME n # <<>>, w = <<>> PROVE u <= Span(s, 0, {":"})
  <2>1. \A k \in 0 + 1 .. u : s[k] \notin {":"}
    <3> TAKE k \in 0 + 1 .. u
    <3>1. CASE k = u
      BY <1>1, <1>5, <3>1
    <3>2. CASE k # u
      <4>1. k \in 0 + 1 .. Len(n)
        BY <1>1, <1>5, <3>2
      <4> QED
        BY <1>4, <1>5, <4>1
    <3> QED
      BY <3>1, <3>2
  <2>2. u <= Len(s) /\ 0 <= u
    BY <1>1, <1>2
  <2> QED
    BY <1>1, <2>1, <2>2, SpanReaches
<1>6. ASSUME w # <<>> PROVE Span(s, 0, {":"}) = Len(n)
  <2>1. s[Len(n) + 1] \in {":"}
    BY <1>1, <1>6 DEF Marked
  <2>2. \A k \in 0 + 1 .. Len(n) : s[k] \notin {":"}
    BY <1>1, <1>4, <1>6
  <2>3. Len(n) <= Len(s) /\ 0 <= Len(n)
    BY <1>1, <1>2, <1>6
  <2> QED
    BY <1>1, <2>1, <2>2, <2>3, SpanEnds
<1>7. u \in UserEnds(s) \cup {0}
  <2>1. CASE n = <<>>
    BY <1>1, <2>1
  <2>2. CASE n # <<>> /\ w = <<>>
    <3>1. u \in At(s, 2, {"@"})
      BY <1>1, <1>2, <2>2 DEF At
    <3>2. u < Span(s, 0, {":"}) + 1
      BY <1>1, <1>3, <1>5, <2>2
    <3> QED
      BY <3>1, <3>2 DEF UserEnds
  <2>3. CASE w # <<>>
    <3>1. u \in At(s, 2, {"@"})
      BY <1>1, <1>2, <2>3 DEF At
    <3>2. PICK colon \in Nat : colon = Len(n) + 1
      BY <1>1
    <3>3. Span(s, 0, {":"}) + 1 = colon
      BY <1>6, <2>3, <3>2
    <3>4. 1 < colon /\ colon + 1 < u
      BY <1>1, <2>3, <3>2
    <3>5. Span(s, colon, {"@"}) = u - 1
      <4>1. \A k \in colon + 1 .. u - 1 : s[k] \notin {"@"}
        <5> TAKE k \in colon + 1 .. u - 1
        <5>1. k - colon \in 1 .. Len(w) /\ Len(n) + 1 + (k - colon) = k
          BY <1>1, <2>3, <3>2
        <5>2. s[Len(n) + 1 + (k - colon)] = w[k - colon]
          BY <1>1, <2>3, <5>1 DEF Marked
        <5> QED
          BY <1>1, <5>1, <5>2 DEF Free
      <4>2. u - 1 \in Nat /\ colon <= u - 1 /\ u - 1 <= Len(s)
        BY <1>1, <1>2, <3>4
      <4>3. s[(u - 1) + 1] \in {"@"}
        BY <1>1, <2>3
      <4> QED
        BY <1>1, <4>1, <4>2, <4>3, SpanEnds
    <3>6. u = Span(s, colon, {"@"}) + 1
      BY <1>1, <3>5
    <3> QED
      BY <3>1, <3>3, <3>4, <3>6 DEF UserEnds
  <2> QED
    BY <1>1, <2>1, <2>2, <2>3
<1> QED
  BY <1>3, <1>5, <1>6, <1>7

\* After the user of an unambiguous text there is no "@".
LEMMA UserIs ==
  ASSUME NEW n, NEW w, NEW H, NEW O, NEW A, NEW Q, NEW F, NEW s, NEW u, NEW h, NEW p,
         NEW q, NEW f, Found(n, w, H, O, A, Q, F, s, u, h, p, q, f),
         Unambiguous(A, Q, F)
  PROVE  UserEnd(s) = u
<1>1. /\ s \in Seq(Characters) /\ Len(s) \in Nat
      /\ u \in Nat /\ h \in Nat /\ p \in Nat /\ q \in Nat /\ f \in Nat
      /\ u < h /\ h <= p /\ p <= q /\ q <= f /\ f <= Len(s)
  BY DEF Found, Laid
<1>2. ASSUME NEW k \in u + 1 .. h PROVE s[k] # "@"
  <2>1. h = u + Len(H) /\ Stands(H, s, u) /\ Free(H, {":", "/", "@"}) /\ Len(H) \in Nat
    BY DEF Found, Laid, Syntax
  <2>2. k - u \in 1 .. Len(H) /\ u + (k - u) = k
    BY <1>1, <2>1
  <2>3. s[u + (k - u)] = H[k - u]
    BY <2>1, <2>2 DEF Stands
  <2> QED
    BY <2>1, <2>2, <2>3 DEF Free
<1>3. ASSUME NEW k \in p + 1 .. q PROVE s[k] # "@"
  <2>1. q = p + Len(A) /\ Stands(A, s, p) /\ Free(A, {"@"}) /\ Len(A) \in Nat
    BY DEF Found, Laid, Unambiguous
  <2>2. k - p \in 1 .. Len(A) /\ p + (k - p) = k
    BY <1>1, <2>1
  <2>3. s[p + (k - p)] = A[k - p]
    BY <2>1, <2>2 DEF Stands
  <2> QED
    BY <2>1, <2>2, <2>3 DEF Free
<1>4. ASSUME NEW mark, NEW x, NEW a \in Nat, NEW b \in Nat, Marked(mark, x, s, a),
             mark # "@", Free(x, {"@"}), Len(x) \in Nat,
             b = (IF x = <<>> THEN a ELSE a + 1 + Len(x)), NEW k \in a + 1 .. b
      PROVE  s[k] # "@"
  <2>1. x # <<>>
    BY <1>4
  <2>2. s[a + 1] = mark /\ \A i \in 1 .. Len(x) : s[a + 1 + i] = x[i]
    BY <1>4, <2>1 DEF Marked
  <2>3. b = a + 1 + Len(x)
    BY <1>4, <2>1
  <2>4. CASE k = a + 1
    BY <1>4, <2>2, <2>4
  <2>5. CASE k # a + 1
    <3>1. k - (a + 1) \in 1 .. Len(x) /\ a + 1 + (k - (a + 1)) = k
      BY <1>4, <2>3, <2>5
    <3>2. s[a + 1 + (k - (a + 1))] = x[k - (a + 1)]
      BY <2>2, <3>1
    <3> QED
      BY <1>4, <3>1, <3>2 DEF Free
  <2> QED
    BY <2>4, <2>5
<1>5. ASSUME NEW k \in q + 1 .. f PROVE s[k] # "@"
  <2>1. /\ Marked("?", Q, s, q) /\ Free(Q, {"@"}) /\ Len(Q) \in Nat
        /\ f = (IF Q = <<>> THEN q ELSE q + 1 + Len(Q))
    BY DEF Found, Laid, Unambiguous
  <2> QED
    BY <1>1, <1>4, <2>1
<1>6. ASSUME NEW k \in f + 1 .. Len(s) PROVE s[k] # "@"
  <2>1. /\ Marked("#", F, s, f) /\ Free(F, {"@"}) /\ Len(F) \in Nat
        /\ Len(s) = (IF F = <<>> THEN f ELSE f + 1 + Len(F))
    BY DEF Found, Laid, Unambiguous
  <2> QED
    BY <1>1, <1>4, <2>1
<1>7. ASSUME NEW k \in h + 1 .. p PROVE s[k] # "@"
  <2>1. /\ Marked(":", O, s, h) /\ Len(O) \in Nat
        /\ \A i \in 1 .. Len(O) : O[i] \in Digits
        /\ p = (IF O = <<>> THEN h ELSE h + 1 + Len(O))
    BY DEF Found, Laid, Syntax
  <2>2. Free(O, {"@"})
    BY <2>1 DEF Free, Digits
  <2> QED
    BY <1>1, <1>4, <2>1, <2>2
<1>8. ASSUME NEW k \in u + 1 .. Len(s) PROVE s[k] # "@"
  <2>1. \/ k \in u + 1 .. h \/ k \in h + 1 .. p \/ k \in p + 1 .. q \/ k \in q + 1 .. f
        \/ k \in f + 1 .. Len(s)
    BY <1>1
  <2> QED
    BY <1>2, <1>3, <1>5, <1>6, <1>7, <2>1
<1>9. PICK S : S = {i \in UserEnds(s) \cup {0} : HostEnds(s, i) # {}}
  OBVIOUS
<1>10. u \in S
  BY <1>9, UserFound, HostFound
<1>11. \A x \in S : x \in Int /\ x <= u
  <2> SUFFICES ASSUME NEW x \in UserEnds(s) PROVE x \in Int /\ x <= u
    BY <1>1, <1>9
  <2>1. x \in 2 .. Len(s) /\ s[x] = "@"
    BY DEF UserEnds, At
  <2> QED
    BY <1>1, <1>8, <2>1
<1>12. Max(S) = u
  BY <1>1, <1>10, <1>11, MaxIs
<1> QED
  BY <1>9, <1>12 DEF UserEnd

\* The minimum of two numbers.
LEMMA MinOfTwo ==
  ASSUME NEW a \in Int, NEW b \in Int, a <= b
  PROVE  Min({a, b}) = a /\ Min({b, a}) = a
<1>1. a \in {a, b} /\ \A x \in {a, b} : x \in Int /\ a <= x
  OBVIOUS
<1>2. Min({a, b}) = a
  BY <1>1, MinIs
<1>3. {b, a} = {a, b}
  OBVIOUS
<1> QED
  BY <1>2, <1>3

\* A text with all its parts in place matches, and when it is unambiguous gives the
\* parts back.
LEMMA Parsed ==
  ASSUME NEW n, NEW w, NEW H, NEW O, NEW A, NEW Q, NEW F, NEW s, NEW u, NEW h, NEW p,
         NEW q, NEW f, Found(n, w, H, O, A, Q, F, s, u, h, p, q, f)
  PROVE  /\ IsUri(s)
         /\ Unambiguous(A, Q, F) =>
              Parse(s) = [username |-> n, password |-> w, host |-> H, port |-> O,
                          path |-> IF A = <<>> THEN <<"/">> ELSE A,
                          query |-> Q, fragment |-> F]
<1>1. /\ s \in Seq(Characters) /\ Len(s) \in Nat
      /\ n \in Seq(Characters) /\ w \in Seq(Characters) /\ H \in Seq(Characters)
      /\ O \in Seq(Characters) /\ A \in Seq(Characters) /\ Q \in Seq(Characters)
      /\ F \in Seq(Characters)
      /\ u \in Nat /\ h \in Nat /\ p \in Nat /\ q \in Nat /\ f \in Nat
      /\ h <= p /\ p <= q /\ q <= f /\ f <= Len(s) /\ u < h
  BY DEF Found, Laid, Syntax
<1>2. IsUri(s)
  BY UserFound, HostFound DEF IsUri
<1>3. ASSUME Unambiguous(A, Q, F)
      PROVE  Parse(s) = [username |-> n, password |-> w, host |-> H, port |-> O,
                         path |-> IF A = <<>> THEN <<"/">> ELSE A,
                         query |-> Q, fragment |-> F]
  <2>1. /\ UserEnd(s) = u /\ Max(HostEnds(s, u)) = h /\ PortEnd(s, h) = p
        /\ Span(s, p, {"?", "#"}) = q /\ Span(s, q, {"#"}) = f
    BY <1>3, UserIs, HostFound, PortFound, RestFound
  <2>2. PICK colon \in Nat :
          /\ colon = Span(s, 0, {":"}) + 1
          /\ n # <<>> /\ w = <<>> => u < colon
          /\ w # <<>> => colon = Len(n) + 1
    <3>1. /\ Span(s, 0, {":"}) \in Nat
          /\ n # <<>> /\ w = <<>> => u <= Span(s, 0, {":"})
          /\ w # <<>> => Span(s, 0, {":"}) = Len(n)
      BY UserFound
    <3>2. PICK c : c = Span(s, 0, {":"})
      OBVIOUS
    <3>3. c + 1 \in Nat
      BY <3>1, <3>2
    <3>4. n # <<>> /\ w = <<>> => u < c + 1
      BY <1>1, <3>1, <3>2
    <3>5. w # <<>> => c + 1 = Len(n) + 1
      BY <3>1, <3>2
    <3> QED
      BY <3>2, <3>3, <3>4, <3>5
  <2>3. /\ n = <<>> => u = 0
        /\ n # <<>> => (\A k \in 1 .. Len(n) : s[k] = n[k]) /\ Marked(":", w, s, Len(n))
        /\ w # <<>> => n # <<>>
        /\ w # <<>> => Len(w) > 0 /\ u = Len(n) + 1 + Len(w) + 1
        /\ n # <<>> /\ w = <<>> => u = Len(n) + 1
        /\ Len(n) \in Nat /\ Len(w) \in Nat
    BY DEF Found, Laid, UserLaid, Syntax
  <2>4. SubSeq(s, 1, Min({colon, u}) - 1) = n
    <3>1. CASE n = <<>>
      <4>1. u = 0 /\ 0 <= colon
        BY <2>2, <2>3, <3>1
      <4>2. Min({colon, u}) = 0
        BY <4>1, MinOfTwo
      <4> QED
        BY <1>1, <3>1, <4>2, NothingIs
    <3>2. CASE n # <<>>
      <4>1. Min({colon, u}) = Len(n) + 1
        <5>1. CASE w = <<>>
          <6>1. u \in Int /\ colon \in Int /\ u = Len(n) + 1 /\ u <= colon
            BY <1>1, <2>2, <2>3, <3>2, <5>1
          <6>2. Min({colon, u}) = u
            BY <6>1, MinOfTwo, Zenon
          <6> QED
            BY <6>1, <6>2
        <5>2. CASE w # <<>>
          <6>1. u \in Int /\ colon \in Int /\ colon = Len(n) + 1 /\ colon <= u
            BY <1>1, <2>2, <2>3, <5>2
          <6>2. Min({colon, u}) = colon
            BY <6>1, MinOfTwo, Zenon
          <6> QED
            BY <6>1, <6>2
        <5> QED
          BY <5>1, <5>2
      <4>2. 0 \in Nat /\ Len(n) \in Int /\ Len(n) = 0 + Len(n)
        BY <2>3
      <4>3. \A k \in 1 .. Len(n) : s[0 + k] = n[k]
        BY <2>3, <3>2
      <4>4. Len(n) <= Len(s)
        BY <1>1, <2>3, <3>2
      <4>5. SubSeq(s, 0 + 1, Len(n)) = n
        BY <1>1, <4>2, <4>3, <4>4, PartIs
      <4>6. 0 + 1 = 1 /\ (Len(n) + 1) - 1 = Len(n)
        BY <2>3
      <4> QED
        BY <4>1, <4>5, <4>6
    <3> QED
      BY <3>1, <3>2
  <2>5. SubSeq(s, colon + 1, u - 1) = w
    <3>1. CASE w = <<>>
      <4>1. u - 1 < colon + 1
        BY <1>1, <2>2, <2>3, <3>1
      <4> QED
        BY <1>1, <3>1, <4>1, NothingIs
    <3>2. CASE w # <<>>
      <4>1. colon = Len(n) + 1 /\ u = Len(n) + 1 + Len(w) + 1
        BY <2>2, <2>3, <3>2
      <4>2. u - 1 = colon + Len(w) /\ u - 1 <= Len(s) /\ u - 1 \in Int
        BY <1>1, <2>3, <4>1
      <4>3. \A k \in 1 .. Len(w) : s[colon + k] = w[k]
        BY <2>2, <2>3, <3>2 DEF Marked
      <4> QED
        BY <1>1, <4>2, <4>3, PartIs
    <3> QED
      BY <3>1, <3>2
  <2>6. SubSeq(s, u + 1, h) = H
    <3>1. h = u + Len(H) /\ \A k \in 1 .. Len(H) : s[u + k] = H[k]
      BY DEF Found, Laid, Stands
    <3>2. h <= Len(s)
      BY <1>1
    <3> QED
      BY <1>1, <3>1, <3>2, PartIs
  <2>7. SubSeq(s, h + 2, p) = O
    <3>1. Marked(":", O, s, h) /\ p = IF O = <<>> THEN h ELSE h + 1 + Len(O)
      BY DEF Found, Laid
    <3>2. p <= Len(s)
      BY <1>1
    <3> QED
      BY <1>1, <3>1, <3>2, MarkedIs
  <2>8. (IF q = p THEN <<"/">> ELSE SubSeq(s, p + 1, q))
          = IF A = <<>> THEN <<"/">> ELSE A
    <3>1. /\ q = p + Len(A) /\ \A k \in 1 .. Len(A) : s[p + k] = A[k]
          /\ A # <<>> => Len(A) > 0
          /\ A = <<>> => q = p
      BY DEF Found, Laid, Stands
    <3>2. CASE A = <<>>
      BY <3>1, <3>2
    <3>3. CASE A # <<>>
      <4>1. q # p /\ q <= Len(s)
        BY <1>1, <3>1, <3>3
      <4>2. SubSeq(s, p + 1, q) = A
        BY <1>1, <3>1, <4>1, PartIs
      <4> QED
        BY <3>3, <4>1, <4>2
    <3> QED
      BY <3>2, <3>3
  <2>9. SubSeq(s, q + 2, f) = Q
    <3>1. Marked("?", Q, s, q) /\ f = IF Q = <<>> THEN q ELSE q + 1 + Len(Q)
      BY DEF Found, Laid
    <3> QED
      BY <1>1, <3>1, MarkedIs
  <2>10. SubSeq(s, f + 2, Len(s)) = F
    <3>1. Marked("#", F, s, f) /\ Len(s) = IF F = <<>> THEN f ELSE f + 1 + Len(F)
      BY DEF Found, Laid
    <3>2. Len(s) <= Len(s)
      BY <1>1
    <3> QED
      BY <1>1, <3>1, <3>2, MarkedIs
  <2> QED
    BY <2>1, <2>2, <2>4, <2>5, <2>6, <2>7, <2>8, <2>9, <2>10, Zenon DEF Parse
<1> QED
  BY <1>2, <1>3

\* What Uri finds of what a client meant
Meant(m) ==
  [username |-> m.username, password |-> m.password, host |-> m.host, port |-> m.port,
   path |-> IF m.path = <<>> THEN <<"/">> ELSE m.path,
   query |-> m.query, fragment |-> m.fragment]

\* No later "@", and no "?" or "#" behind the host: what Plain says of the parts.
LEMMA PlainIsUnambiguous ==
  ASSUME NEW m, WellFormed(m), Plain(m) PROVE Unambiguous(m.path, m.query, m.fragment)
<1>1. PICK A, Q, F : A = m.path /\ Q = m.query /\ F = m.fragment
  OBVIOUS
<1>2. A \in Seq(Characters) /\ Q \in Seq(Characters) /\ F \in Seq(Characters)
  BY <1>1 DEF WellFormed
<1>3. PICK x, y : x = A \o Q /\ y = x \o F
  OBVIOUS
<1>4. Glued(x, A, Q)
  BY <1>2, <1>3, Joined, Zenon
<1>5. x \in Seq(Characters)
  BY <1>4 DEF Glued
<1>6. Glued(y, x, F)
  BY <1>2, <1>3, <1>5, Joined, Zenon
<1>7. \A i \in 1 .. Len(y) : y[i] # "@"
  BY <1>1, <1>3 DEF Plain, Contains
<1>8. Stands(A, x, 0) /\ Stands(Q, x, Len(A)) /\ Len(A) \in Nat
  BY <1>4, Zenon DEF Glued
<1>9. Stands(A, y, 0) /\ Stands(Q, y, Len(A)) /\ Stands(F, y, Len(x)) /\ Len(x) \in Nat
  BY <1>2, <1>6, <1>8, StandsStill, Zenon, 0 \in Nat DEF Glued
<1>10. ASSUME NEW v \in Seq(Characters), NEW a \in Nat, Stands(v, y, a)
       PROVE  Free(v, {"@"})
  <2> SUFFICES ASSUME NEW k \in 1 .. Len(v) PROVE v[k] # "@"
    BY DEF Free
  <2>1. Len(v) \in Nat /\ Len(y) \in Nat
    BY <1>6, LenProperties DEF Glued
  <2>2. a + k \in 1 .. Len(y) /\ y[a + k] = v[k]
    BY <1>10, <2>1 DEF Stands
  <2> QED
    BY <1>7, <2>2
<1>11. Free(A, {"@"}) /\ Free(Q, {"@"}) /\ Free(F, {"@"})
  BY <1>2, <1>8, <1>9, <1>10, 0 \in Nat
<1>12. A # <<>> \/ (Q = <<>> /\ F = <<>>)
  <2>1. CASE Q \o F = <<>>
    <3>1. Len(Q \o F) = Len(Q) + Len(F) /\ Len(Q) \in Nat /\ Len(F) \in Nat
      BY <1>2, ConcatProperties, LenProperties
    <3>2. Len(Q \o F) = 0
      BY <2>1
    <3>3. Len(Q) = 0 /\ Len(F) = 0
      BY <3>1, <3>2
    <3> QED
      BY <1>2, <3>3, EmptySeq
  <2>2. CASE Q \o F # <<>>
    BY <1>1, <2>2 DEF Plain
  <2> QED
    BY <2>1, <2>2
<1> QED
  BY <1>1, <1>11, <1>12 DEF Unambiguous

\* The text of every URI matches; and a plain one is taken apart as it was put
\* together.
LEMMA FindsWhatWasMeant ==
  ASSUME NEW m, WellFormed(m)
  PROVE  /\ IsUri(UriText(m))
         /\ Plain(m) => Parse(UriText(m)) = Meant(m)
<1>1. PICK n, w, H, O, A, Q, F :
        /\ n = m.username /\ w = m.password /\ H = m.host /\ O = m.port
        /\ A = m.path /\ Q = m.query /\ F = m.fragment
  OBVIOUS
<1>2. Syntax(n, w, H, O, A, Q, F)
  BY <1>1 DEF WellFormed, Syntax
<1>3. PICK s : s = UriText(m)
  OBVIOUS
<1>4. s = After(n \o Before(":", w), "@") \o H \o Before(":", O) \o A
            \o Before("?", Q) \o Before("#", F)
  BY <1>1, <1>3, Zenon DEF UriText
<1>5. /\ n \in Seq(Characters) /\ w \in Seq(Characters) /\ H \in Seq(Characters)
      /\ O \in Seq(Characters) /\ A \in Seq(Characters) /\ Q \in Seq(Characters)
      /\ F \in Seq(Characters)
      /\ w # <<>> => n # <<>>
  BY <1>2 DEF Syntax
<1>6. PICK u, h, p, q, f : Laid(n, w, H, O, A, Q, F, s, u, h, p, q, f)
  BY <1>4, <1>5, Layout, Zenon
<1>7. Found(n, w, H, O, A, Q, F, s, u, h, p, q, f)
  BY <1>2, <1>6, Lengths, Zenon
<1>8. IsUri(s)
  BY <1>7, Parsed, Zenon
<1>9. Unambiguous(A, Q, F) =>
        Parse(s) = [username |-> n, password |-> w, host |-> H, port |-> O,
                    path |-> IF A = <<>> THEN <<"/">> ELSE A,
                    query |-> Q, fragment |-> F]
  BY <1>7, Parsed
<1>10. Plain(m) => Unambiguous(A, Q, F)
  BY <1>1, PlainIsUnambiguous
<1> QED
  BY <1>1, <1>3, <1>8, <1>9, <1>10, Zenon DEF Meant

-----------------------------------------------------------------------------
(* The invariant                                                           *)

\* TruncatedMeansCut, octet by octet.
BodyIsPrefix ==
  /\ Len(resp_body) <= Len(arrived)
  /\ \A i \in 1 .. Len(resp_body) : resp_body[i] = arrived[i]

BodyIsCutAtLimit ==
  /\ truncated <=> Len(resp_body) < Len(arrived)
  /\ truncated => Len(resp_body) > kMaxBodySize
  /\ Len(resp_body) <= kMaxBodySize + MaxChunk

\* What the client is told is what the context holds, and a transfer that got no
\* response is an error.
AnswerIsKept ==
  /\ pc \in {"done", "reported"} /\ resp_code = 0 => error_message
  /\ pc = "reported" => answer = Answer(base64_encode(resp_body))

\* The URI is what Uri makes of the text, and is refused for what Uri finds there.
UriIsParsed ==
  /\ uri = NoUri \/ uri = ToUri(meant)
  /\ pc = "refused" =>
       ~ (/\ meant.scheme # "HTTP" /\ IsUri(UriText(meant))
          /\ Len(Parse(UriText(meant)).port) <= IntDigits)

IInv == TypeOK /\ BodyIsPrefix /\ BodyIsCutAtLimit /\ AnswerIsKept /\ UriIsParsed

USE CrawlContextAssumption
USE DEF responseVars

\* The context is new.
LEMMA InitIInv == ASSUME Init PROVE IInv
<1>1. resp_body \in Seq(Octets) /\ arrived \in Seq(Octets)
      /\ Len(resp_body) = 0 /\ Len(arrived) = 0
  BY DEF Init
<1>2. DOMAIN uri = UriParts
  BY DEF Init, NoUri
<1>3. resp_headers \in 0 .. MaxRedirs + 1 /\ resp_code \in -1 .. MaxRedirs + 1
  BY DEF Init
<1>4. TypeOK
  BY <1>1, <1>2, <1>3 DEF Init, TypeOK, Answer
<1> QED
  BY <1>1, <1>4 DEF Init, IInv, BodyIsPrefix, BodyIsCutAtLimit, AnswerIsKept,
     UriIsParsed

\* The two parsers give a context all the parts of a URI.
LEMMA UriIsWhole == \A m : DOMAIN ToUri(m) = UriParts
BY DEF ToUri, Parse, UriParts

\* A chunk is appended only while nothing was dropped, and dropped for good:
\* what is kept stays a beginning of what arrived.
LEMMA WriteBodyStep ==
  ASSUME IInv, NEW c \in Chunks, WriteBody(c) PROVE IInv'
<1>1. /\ resp_body \in Seq(Octets) /\ arrived \in Seq(Octets) /\ c \in Seq(Octets)
      /\ Len(c) \in 1 .. MaxChunk
  BY DEF IInv, TypeOK
<1>2. /\ arrived' = arrived \o c /\ arrived' \in Seq(Octets)
      /\ Len(arrived') = Len(arrived) + Len(c)
      /\ \A i \in 1 .. Len(arrived) + Len(c) :
           arrived'[i] = IF i <= Len(arrived) THEN arrived[i] ELSE c[i - Len(arrived)]
  BY <1>1, ConcatProperties DEF WriteBody
<1>3. AnswerIsKept'
  BY DEF WriteBody, AnswerIsKept
<1>4. UriIsParsed'
  BY DEF WriteBody, IInv, UriIsParsed
<1>5. CASE Len(resp_body) > kMaxBodySize
  <2>1. resp_body' = resp_body /\ truncated' = TRUE
    BY <1>5 DEF WriteBody
  <2>2. TypeOK'
    BY <1>2, <2>1 DEF IInv, TypeOK, WriteBody
  <2>3. BodyIsPrefix' /\ BodyIsCutAtLimit'
    BY <1>1, <1>2, <1>5, <2>1 DEF IInv, BodyIsPrefix, BodyIsCutAtLimit
  <2> QED
    BY <1>3, <1>4, <2>2, <2>3 DEF IInv
<1>6. CASE ~ (Len(resp_body) > kMaxBodySize)
  <2>1. /\ resp_body' = resp_body \o c /\ resp_body' \in Seq(Octets)
        /\ Len(resp_body') = Len(resp_body) + Len(c)
        /\ \A i \in 1 .. Len(resp_body) + Len(c) :
             resp_body'[i] = IF i <= Len(resp_body) THEN resp_body[i]
                                                    ELSE c[i - Len(resp_body)]
        /\ truncated' = truncated
    BY <1>1, <1>6, ConcatProperties DEF WriteBody
  <2>2. TypeOK'
    BY <1>2, <2>1 DEF IInv, TypeOK, WriteBody
  <2>3. ~ truncated /\ Len(resp_body) = Len(arrived)
    BY <1>1, <1>6 DEF IInv, BodyIsPrefix, BodyIsCutAtLimit
  <2>4. BodyIsPrefix'
    BY <1>1, <1>2, <2>1, <2>3 DEF IInv, BodyIsPrefix
  <2>5. BodyIsCutAtLimit'
    BY <1>1, <1>2, <1>6, <2>1, <2>3 DEF BodyIsCutAtLimit
  <2> QED
    BY <1>3, <1>4, <2>2, <2>4, <2>5 DEF IInv
<1> QED
  BY <1>5, <1>6

\* Every step of the context keeps the invariant.
LEMMA NextIInv == ASSUME IInv, [Next]_vars PROVE IInv'
<1> USE DEF IInv, TypeOK, BodyIsPrefix, BodyIsCutAtLimit, AnswerIsKept, UriIsParsed
<1>1. CASE FromJson
  <2>1. DOMAIN uri' = UriParts
    BY <1>1, UriIsWhole DEF FromJson
  <2> QED
    BY <1>1, <2>1 DEF FromJson
<1>2. CASE LookupFails
  BY <1>2 DEF LookupFails
<1>3. CASE StartTransfer
  BY <1>3 DEF StartTransfer
<1>4. CASE WriteHeader
  BY <1>4 DEF WriteHeader
<1>5. CASE TransferEnds
  <2>1. error_message' \in BOOLEAN
    BY <1>5, Zenon DEF TransferEnds
  <2>2. resp_code' \in -1 .. MaxRedirs + 1
    BY <1>5 DEF TransferEnds
  <2>3. resp_headers = 0 => error_message'
    BY <1>5, Zenon DEF TransferEnds
  <2>4. resp_code' = resp_headers /\ pc' = "done"
    BY <1>5 DEF TransferEnds
  <2>5. AnswerIsKept'
    BY ONLY <2>3, <2>4 DEF AnswerIsKept
  <2> HIDE DEF AnswerIsKept
  <2> QED
    BY <1>5, <2>1, <2>2, <2>5 DEF TransferEnds
<1>6. CASE ToJson
  BY <1>6 DEF ToJson, Answer
<1>7. CASE UNCHANGED vars
  BY <1>7 DEF vars, Answer
<1> QED
  BY <1>1, <1>2, <1>3, <1>4, <1>5, <1>6, <1>7, WriteBodyStep DEF Next

\* The invariant holds in every reachable state of a context.
THEOREM Invariance == Spec => []IInv
BY InitIInv, NextIInv, PTL DEF Spec

\* A context has all parts of a URI, one code for each response, and octets for
\* a body.
THEOREM TypeCorrect == Spec => []TypeOK
<1>1. IInv => TypeOK
  BY DEF IInv
<1> QED
  BY <1>1, Invariance, PTL

\* What the client is given is a beginning of the page, for any limit and any
\* sizes of the chunks, and it is marked when something is missing.
THEOREM BodyIsFaithful == Spec => []TruncatedMeansCut
<1>1. ASSUME IInv PROVE TruncatedMeansCut
  <2>1. resp_body \in Seq(Octets) /\ arrived \in Seq(Octets)
    BY <1>1 DEF IInv, TypeOK
  <2>2. SubSeq(resp_body, 1, Len(resp_body)) = SubSeq(arrived, 1, Len(resp_body))
    BY <1>1, <2>1 DEF IInv, BodyIsPrefix
  <2> QED
    BY <1>1, <2>1, <2>2 DEF IInv, BodyIsPrefix, BodyIsCutAtLimit, TruncatedMeansCut,
       IsPrefix
<1> QED
  BY <1>1, Invariance, PTL

\* A client that decodes a page gets what the context kept, octet for octet, for
\* any page; and it can tell from the two marks whether this is all that came.
THEOREM PageReachesClient == Spec => []PageArrives
<1>1. ASSUME IInv PROVE PageArrives
  <2> SUFFICES ASSUME pc = "reported"
               PROVE  /\ base64_decode(answer.resp_body) = resp_body
                      /\ Len(answer.resp_body) % 4 = 0
                      /\ ~ answer.truncated => base64_decode(answer.resp_body) = arrived
                      /\ resp_code = 0 => answer.error
    BY DEF PageArrives
  <2>1. resp_body \in Seq(Octets) /\ arrived \in Seq(Octets)
    BY <1>1 DEF IInv, TypeOK
  <2>2. /\ answer.resp_body = base64_encode(resp_body)
        /\ answer.truncated = truncated /\ answer.error = error_message
    BY <1>1 DEF IInv, AnswerIsKept, Answer
  <2>3. base64_decode(answer.resp_body) = resp_body
    BY <2>1, <2>2, DecodesWhatWasEncoded
  <2>4. Len(answer.resp_body) % 4 = 0
    BY <2>1, <2>2, Encoded
  <2>5. ~ truncated => resp_body = arrived
    BY <1>1, <2>1 DEF IInv, BodyIsPrefix, BodyIsCutAtLimit
  <2>6. resp_code = 0 => error_message
    BY <1>1 DEF IInv, AnswerIsKept
  <2> QED
    BY <2>2, <2>3, <2>4, <2>5, <2>6
<1> QED
  BY <1>1, Invariance, PTL

\* Every URI is accepted but for its scheme and its port; and the parts of a plain
\* one are what the client meant, for texts of any length and any letters.
THEOREM UriIsUnderstood == Spec => []ParsesWhatWasMeant
<1>1. ASSUME IInv PROVE ParsesWhatWasMeant
  <2>1. WellFormed(meant)
    BY <1>1 DEF IInv, TypeOK
  <2>2. IsUri(UriText(meant)) /\ (Plain(meant) => Parse(UriText(meant)) = Meant(meant))
    BY <2>1, FindsWhatWasMeant
  <2>3. ASSUME uri # NoUri, Plain(meant)
        PROVE  uri = [username |-> meant.username, password |-> meant.password,
                      host |-> meant.host,
                      port |-> IF meant.port = <<>> THEN DefaultPort(meant.scheme)
                                                    ELSE meant.port,
                      path |-> IF meant.path = <<>> THEN <<"/">> ELSE meant.path,
                      query |-> meant.query, fragment |-> meant.fragment]
    <3>1. uri = IF Meant(meant).port = <<>>
                THEN [Meant(meant) EXCEPT !.port = DefaultPort(meant.scheme)]
                ELSE Meant(meant)
      BY <1>1, <2>2, <2>3 DEF IInv, UriIsParsed, ToUri
    <3> QED
      BY <3>1 DEF Meant
  <2>4. ASSUME meant.scheme # "HTTP",
               Len(IF Plain(meant) THEN meant.port ELSE Parse(UriText(meant)).port)
                 <= IntDigits
        PROVE  pc # "refused"
    <3>1. Plain(meant) => Parse(UriText(meant)).port = meant.port
      BY <2>2 DEF Meant
    <3>2. Len(Parse(UriText(meant)).port) <= IntDigits
      BY <2>4, <3>1
    <3> QED
      BY <1>1, <2>2, <2>4, <3>2 DEF IInv, UriIsParsed
  <2> QED
    BY <2>2, <2>3, <2>4 DEF ParsesWhatWasMeant
<1> QED
  BY <1>1, Invariance, PTL
=============================================================================
