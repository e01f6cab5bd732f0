------------------------------- MODULE Words -------------------------------
(***************************************************************************)
(* Words as numbers and as sets of bits, for the arithmetic of the ISA and *)
(* of the execute stage.                                                   *)
(***************************************************************************)
EXTENDS Machine

CONSTANT WordBits   (* 32 in the source: ByteBase^4 = 2^WordBits *)

WordValues == ByteBase * ByteBase * ByteBase * ByteBase

ASSUME WordBitsAssumption == WordBits \in Nat \ {0} /\ WordValues = 2 ^ WordBits

ToNat(w)  == w[0] + ByteBase * (w[1] + ByteBase * (w[2] + ByteBase * w[3]))
ToWord(n) ==
  LET q1 == n \div ByteBase  q2 == q1 \div ByteBase  q3 == q2 \div ByteBase
  IN  [i \in 0 .. 3 |-> (CASE i = 0 -> n [] i = 1 -> q1 [] i = 2 -> q2 [] i = 3 -> q3) % ByteBase]

(* Modular arithmetic, and the order of two's complement.                  *)
Wrap(n)    == n % WordValues
SignedLess(a, b) ==
  LET negative(n) == 2 * n >= WordValues
  IN  IF negative(a) = negative(b) THEN a < b ELSE negative(a)

(* Bits, and the number of a set of them, taken from the highest on.       *)
BitsOf(n) == {k \in 0 .. WordBits - 1 : (n \div 2 ^ k) % 2 = 1}
OfBits(S) ==
  LET upper[k \in 0 .. WordBits] ==
        IF k = 0 THEN 0 ELSE 2 * upper[k - 1] + (IF WordBits - k \in S THEN 1 ELSE 0)
  IN  upper[WordBits]

(* The bits A moved s places up or down, with room for WordBits of them.   *)
MovedUp(A, s)   == {k \in 0 .. WordBits - 1 : k - s \in A}
MovedDown(A, s) == {k \in 0 .. WordBits - 1 : k + s \in A}
=============================================================================
