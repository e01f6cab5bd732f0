----------------------------- MODULE HciProofs -----------------------------
(***************************************************************************)
(* Proofs about the communication interface between its host and the CPU,  *)
(* for every size of RAM, packet and fifo, all packets, accesses and       *)
(* register values.                                                        *)
(***************************************************************************)
EXTENDS HciHost, SequenceTheorems, TLAPS

-----------------------------------------------------------------------------
(* Sequences: what is at the front of a concatenation, and what is behind. *)
LEMMA HeadOfConcat ==
  ASSUME NEW S, NEW s \in Seq(S), NEW t \in Seq(S), s # <<>>
  PROVE  Head(s \o t) = Head(s) /\ Tail(s \o t) = Tail(s) \o t /\ s \o t # <<>>
<1>1. Len(s) \in Nat \ {0} /\ Len(t) \in Nat
  BY EmptySeq, LenProperties
<1>2. s \o t # <<>>
  BY <1>1, ConcatProperties, EmptySeq
<1>3. Head(s \o t) = Head(s)
  BY <1>1, ConcatProperties
<1>4. Tail(s \o t) = Tail(s) \o t
  <2>1. Tail(s \o t) \in Seq(S) /\ Tail(s) \o t \in Seq(S)
    BY <1>2, ConcatProperties, HeadTailProperties
  <2>2. Len(Tail(s \o t)) = Len(s) + Len(t) - 1 /\ Len(Tail(s) \o t) = Len(s) + Len(t) - 1
    BY <1>1, <1>2, ConcatProperties, HeadTailProperties
  <2>3. \A i \in 1 .. Len(s) + Len(t) - 1 : Tail(s \o t)[i] = (Tail(s) \o t)[i]
    <3> SUFFICES ASSUME NEW i \in 1 .. Len(s) + Len(t) - 1
                 PROVE  Tail(s \o t)[i] = (Tail(s) \o t)[i]
      OBVIOUS
    <3>1. Tail(s \o t)[i] = (s \o t)[i + 1]
      BY <1>1, <1>2, <2>2, ConcatProperties, HeadTailProperties
    <3>2. (s \o t)[i + 1] = IF i + 1 <= Len(s) THEN s[i + 1] ELSE t[i + 1 - Len(s)]
      BY <1>1, ConcatProperties
    <3>3. Len(Tail(s)) = Len(s) - 1 /\ Tail(s) \in Seq(S)
          /\ (i <= Len(s) - 1 => Tail(s)[i] = s[i + 1])
      BY <1>1, HeadTailProperties
    <3>4. (Tail(s) \o t)[i] = IF i <= Len(s) - 1 THEN Tail(s)[i] ELSE t[i - (Len(s) - 1)]
      BY <1>1, <3>3, ConcatProperties
    <3> QED BY <1>1, <3>1, <3>2, <3>3, <3>4
  <2> QED BY <2>1, <2>2, <2>3, SeqEqual
<1> QED BY <1>2, <1>3, <1>4

LEMMA AtFront ==
  ASSUME NEW S, NEW s \in Seq(S), NEW t \in Seq(S)
  PROVE  /\ s \o t \in Seq(S) /\ Len(s \o t) = Len(s) + Len(t)
         /\ \A i \in 1 .. Len(s) : (s \o t)[i] = s[i]
<1>1. Len(s) \in Nat /\ Len(t) \in Nat
  BY LenProperties
<1> QED BY <1>1, ConcatProperties

LEMMA HeadAndTail ==
  ASSUME NEW S, NEW s \in Seq(S), s # <<>>
  PROVE  s = <<Head(s)>> \o Tail(s)
<1>1. Len(s) \in Nat \ {0}
  BY EmptySeq
<1>2. SubSeq(s, 1, Len(s)) = <<s[1]>> \o SubSeq(s, 2, Len(s))
  BY <1>1, SubSeqRecursiveFirst
<1>3. SubSeq(s, 1, Len(s)) = s /\ Tail(s) = SubSeq(s, 2, Len(s)) /\ Head(s) = s[1]
  BY SubSeqFull, TailIsSubSeq
<1> QED BY <1>2, <1>3

LEMMA OneByte ==
  ASSUME NEW S, NEW x \in S
  PROVE  <<x>> \in Seq(S) /\ <<x>> # <<>> /\ Len(<<x>>) = 1 /\ Head(<<x>>) = x /\ Tail(<<x>>) = <<>>
OBVIOUS

LEMMA ByteConcat == \A u, v, w \in Seq(Byte) : (u \o v) \o w = u \o (v \o w)
BY ConcatAssociative

LEMMA AppendConcat ==
  ASSUME NEW S, NEW s \in Seq(S), NEW x \in S, NEW t \in Seq(S)
  PROVE  Append(s, x) \o t = s \o (<<x>> \o t)
BY OneByte, AppendIsConcat, ConcatAssociative

LEMMA Behind ==
  ASSUME NEW S, NEW s \in Seq(S), NEW t \in Seq(S)
  PROVE  SubSeq(s \o t, Len(s) + 1, Len(s \o t)) = t
<1> DEFINE n == Len(s)
           m == Len(t)
           u == SubSeq(s \o t, n + 1, n + m)
<1>1. n \in Nat /\ m \in Nat /\ s \o t \in Seq(S) /\ Len(s \o t) = n + m
  BY ConcatProperties, LenProperties
<1>2. \A i \in n + 1 .. n + m : (s \o t)[i] \in S
  BY <1>1, ElementOfSeq
<1>3. u \in Seq(S) /\ Len(u) = m /\ \A i \in 1 .. m : u[i] = (s \o t)[n + i]
  <2>1. n + 1 \in Int /\ n + m \in Int
    BY <1>1
  <2>2. /\ u \in Seq(S)
        /\ Len(u) = IF n + 1 <= n + m THEN (n + m) - (n + 1) + 1 ELSE 0
        /\ \A i \in 1 .. (n + m) - (n + 1) + 1 : u[i] = (s \o t)[n + 1 + i - 1]
    BY <1>2, <2>1, SubSeqProperties
  <2> QED BY <1>1, <2>2
<1>4. \A i \in 1 .. m : (s \o t)[n + i] = t[i]
  BY <1>1, ConcatProperties
<1>5. u = t
  BY <1>1, <1>3, <1>4, SeqEqual
<1> QED BY <1>1, <1>5

(* A packet's header, put together.                                         *)
LEMMA OneAndTwo ==
  ASSUME NEW S, NEW a \in S, NEW b \in S, NEW c \in S
  PROVE  (<<a>> \o <<>>) \o <<b, c>> = <<a, b, c>> /\ <<a, b, c>> \in Seq(S)
<1>1. <<a>> \in Seq(S) /\ <<b, c>> \in Seq(S) /\ <<a, b, c>> \in Seq(S)
  OBVIOUS
<1>2. <<a>> \o <<>> = <<a>>
  BY <1>1, ConcatEmptySeq
<1>3. /\ <<a>> \o <<b, c>> \in Seq(S) /\ Len(<<a>> \o <<b, c>>) = 3
      /\ \A i \in 1 .. 3 : (<<a>> \o <<b, c>>)[i] = <<a, b, c>>[i]
  <2>1. Len(<<a>>) = 1 /\ Len(<<b, c>>) = 2
    OBVIOUS
  <2>2. /\ <<a>> \o <<b, c>> \in Seq(S) /\ Len(<<a>> \o <<b, c>>) = 1 + 2
        /\ \A i \in 1 .. 1 + 2 : (<<a>> \o <<b, c>>)[i] =
                     IF i <= 1 THEN <<a>>[i] ELSE <<b, c>>[i - 1]
    BY <1>1, <2>1, ConcatProperties
  <2> QED BY <2>2
<1>4. Len(<<a, b, c>>) = 3
  OBVIOUS
<1>5. <<a>> \o <<b, c>> = <<a, b, c>>
  BY <1>1, <1>3, <1>4, SeqEqual
<1> QED BY <1>1, <1>2, <1>5

LEMMA ThreeAfterOne ==
  ASSUME NEW S, NEW a \in S, NEW b \in S, NEW c \in S, NEW d \in S
  PROVE  <<a>> \o <<b, c, d>> = <<a, b, c, d>>
<1>1. <<a>> \in Seq(S) /\ <<b, c, d>> \in Seq(S) /\ <<a, b, c, d>> \in Seq(S)
  OBVIOUS
<1>3. /\ <<a>> \o <<b, c, d>> \in Seq(S) /\ Len(<<a>> \o <<b, c, d>>) = 4
      /\ \A i \in 1 .. 4 : (<<a>> \o <<b, c, d>>)[i] = <<a, b, c, d>>[i]
  <2>1. Len(<<a>>) = 1 /\ Len(<<b, c, d>>) = 3
    OBVIOUS
  <2>2. /\ <<a>> \o <<b, c, d>> \in Seq(S) /\ Len(<<a>> \o <<b, c, d>>) = 1 + 3
        /\ \A i \in 1 .. 1 + 3 : (<<a>> \o <<b, c, d>>)[i] =
                     IF i <= 1 THEN <<a>>[i] ELSE <<b, c, d>>[i - 1]
    BY <1>1, <2>1, ConcatProperties
  <2> QED BY <2>2
<1>4. Len(<<a, b, c, d>>) = 4
  OBVIOUS
<1> QED
  BY <1>1, <1>3, <1>4, SeqEqual

LEMMA TwoAfterFour ==
  ASSUME NEW S, NEW a \in S, NEW b \in S, NEW c \in S, NEW d \in S, NEW e \in S, NEW f \in S
  PROVE  <<a, b, c, d>> \o <<e, f>> = <<a, b, c, d, e, f>> /\ <<a, b, c, d, e, f>> \in Seq(S)
<1>1. <<a, b, c, d>> \in Seq(S) /\ <<e, f>> \in Seq(S) /\ <<a, b, c, d, e, f>> \in Seq(S)
  OBVIOUS
<1>3. /\ <<a, b, c, d>> \o <<e, f>> \in Seq(S) /\ Len(<<a, b, c, d>> \o <<e, f>>) = 6
      /\ \A i \in 1 .. 6 : (<<a, b, c, d>> \o <<e, f>>)[i] = <<a, b, c, d, e, f>>[i]
  <2>1. Len(<<a, b, c, d>>) = 4 /\ Len(<<e, f>>) = 2
    OBVIOUS
  <2>2. /\ <<a, b, c, d>> \o <<e, f>> \in Seq(S) /\ Len(<<a, b, c, d>> \o <<e, f>>) = 4 + 2
        /\ \A i \in 1 .. 4 + 2 : (<<a, b, c, d>> \o <<e, f>>)[i] =
                     IF i <= 4 THEN <<a, b, c, d>>[i] ELSE <<e, f>>[i - 4]
    BY <1>1, <2>1, ConcatProperties
  <2> QED BY <2>2
<1>4. Len(<<a, b, c, d, e, f>>) = 6
  OBVIOUS
<1> QED
  BY <1>1, <1>3, <1>4, SeqEqual

(* What is left of a sequence from its k-th element on.                     *)
LEMMA FromOn ==
  ASSUME NEW S, NEW s \in Seq(S), NEW k \in 0 .. Len(s)
  PROVE  /\ SubSeq(s, k + 1, Len(s)) \in Seq(S)
         /\ Len(SubSeq(s, k + 1, Len(s))) = Len(s) - k
         /\ k < Len(s) => /\ Head(SubSeq(s, k + 1, Len(s))) = s[k + 1]
                          /\ Tail(SubSeq(s, k + 1, Len(s))) = SubSeq(s, k + 2, Len(s))
<1>1. Len(s) \in Nat
  BY LenProperties
<1>2. \A i \in k + 1 .. Len(s) : s[i] \in S
  BY <1>1, ElementOfSeq
<1>3. /\ SubSeq(s, k + 1, Len(s)) \in Seq(S)
      /\ Len(SubSeq(s, k + 1, Len(s))) = IF k + 1 <= Len(s) THEN Len(s) - (k + 1) + 1 ELSE 0
  BY <1>1, <1>2, SubSeqProperties
<1>4. ASSUME k < Len(s)
      PROVE  /\ Head(SubSeq(s, k + 1, Len(s))) = s[k + 1]
             /\ Tail(SubSeq(s, k + 1, Len(s))) = SubSeq(s, k + 2, Len(s))
  <2>1. k + 1 \in 1 .. Len(s) /\ Len(s) \in k + 1 .. Len(s)
    BY <1>1, <1>4
  <2>2. /\ Head(SubSeq(s, k + 1, Len(s))) = s[k + 1]
        /\ Tail(SubSeq(s, k + 1, Len(s))) = SubSeq(s, (k + 1) + 1, Len(s))
    BY <2>1, HeadTailOfSubSeq
  <2>3. (k + 1) + 1 = k + 2
    BY <1>1
  <2> QED BY <2>2, <2>3
<1> QED BY <1>1, <1>3, <1>4

-----------------------------------------------------------------------------
(* Numbers in digits: a quotient and a remainder are those of one number.   *)
LEMMA DivModUnique ==
  ASSUME NEW b \in Nat \ {0}, NEW q \in Nat, NEW r \in 0 .. b - 1
  PROVE  (b * q + r) \div b = q /\ (b * q + r) % b = r
<1> DEFINE n == b * q + r
           d == n \div b
           e == n % b
<1>0. n \in Nat
  OBVIOUS
<1>1. d \in Nat /\ e \in 0 .. b - 1 /\ n = b * d + e
  BY <1>0
<1>2. b * (d - q) = r - e
  BY <1>1
<1> HIDE DEF n, d, e
<1>3. d = q
  <2>1. CASE d > q
    <3>1. d - q >= 1
      BY <1>1, <2>1
    <3>2. b * (d - q) >= b
      BY <1>1, <3>1
    <3> QED BY <1>1, <1>2, <3>2
  <2>2. CASE d < q
    <3>1. d - q <= -1
      BY <1>1, <2>2
    <3>2. b * (d - q) <= -b
      BY <1>1, <3>1
    <3> QED BY <1>1, <1>2, <3>2
  <2> QED BY <1>1, <2>1, <2>2
<1>4. e = r
  BY <1>1, <1>2, <1>3
<1> QED BY <1>3, <1>4 DEF d, e, n

LEMMA DivMod ==
  ASSUME NEW b \in Nat \ {0}, NEW n \in Nat
  PROVE  n \div b \in Nat /\ n % b \in 0 .. b - 1 /\ n = b * (n \div b) + (n % b)
OBVIOUS

LEMMA SmallMod ==
  ASSUME NEW b \in Nat \ {0}, NEW n \in 0 .. b - 1
  PROVE  n % b = n /\ n \div b = 0
<1>1. b * 0 + n = n
  OBVIOUS
<1> QED BY <1>1, DivModUnique

(* A number of two digits to the base b.                                   *)
LEMMA TwoDigits ==
  ASSUME NEW b \in Nat \ {0}, NEW n \in 0 .. b * b - 1
  PROVE  n \div b \in 0 .. b - 1 /\ (n % b) % b = n % b /\ ((n % b) % b) + b * (n \div b) = n
<1> DEFINE q == n \div b
           r == n % b
<1>0. n \in Nat
  <2>1. b * b \in Nat
    OBVIOUS
  <2> QED BY <2>1
<1>1. q \in Nat /\ r \in 0 .. b - 1 /\ n = b * q + r
  BY <1>0, DivMod
<1>2. r % b = r
  BY <1>1, SmallMod
<1>3. q < b
  <2>1. ASSUME q >= b PROVE FALSE
    <3>1. b * q >= b * b
      BY <1>1, <2>1
    <3>2. b * b \in Nat /\ b * q \in Nat
      BY <1>1
    <3> HIDE DEF q, r
    <3> QED BY <1>1, <3>1, <3>2
  <2> QED BY <1>1, <2>1
<1> HIDE DEF q, r
<1>4. (r % b) + b * q = n
  BY <1>1, <1>2
<1> QED BY <1>1, <1>2, <1>3, <1>4 DEF q, r

(* And one of two digits and a bit.                                         *)
LEMMA ThreeDigits ==
  ASSUME NEW b \in Nat \ {0}, NEW n \in 0 .. 2 * b * b - 1
  PROVE  /\ n % b \in 0 .. b - 1 /\ (n \div b) % b \in 0 .. b - 1 /\ n \div (b * b) \in 0 .. 1
         /\ ((n % b) % b) + b * ((n \div b) % b) = n % (b * b)
         /\ n % (b * b) < 2 * b * b
         /\ ((n % (b * b)) % (b * b)) + b * b * ((n \div (b * b)) % 2) = n
<1> DEFINE m == b * b
           q == n \div b
           r == n % b
           s == q % b
           t == q \div b
<1>0. m \in Nat \ {0} /\ n \in Nat /\ n < 2 * m
  <2>1. 2 * b * b = 2 * (b * b)
    OBVIOUS
  <2>2. b * b \in Nat \ {0}
    OBVIOUS
  <2> QED BY <2>1, <2>2
<1>1. q \in Nat /\ r \in 0 .. b - 1 /\ n = b * q + r
  BY <1>0, DivMod
<1>2. t \in Nat /\ s \in 0 .. b - 1 /\ q = b * t + s
  BY <1>1, DivMod
<1>3. r % b = r
  BY <1>1, SmallMod
<1> HIDE DEF q, r, s, t
<1>4. b * q = m * t + b * s
  <2>1. b * (b * t + s) = b * b * t + b * s
    BY <1>2
  <2> QED BY <1>2, <2>1
<1>5. b * s + r \in 0 .. m - 1
  <2>1. b * s <= b * (b - 1)
    BY <1>2
  <2>2. b * (b - 1) = m - b
    OBVIOUS
  <2>3. b * s \in Nat
    BY <1>2
  <2> HIDE DEF m
  <2>4. b * s <= m - b
    BY <2>1, <2>2
  <2> QED BY <1>0, <1>1, <2>3, <2>4
<1>6. n = m * t + (b * s + r)
  <2> DEFINE x == b * q
             y == m * t
             z == b * s
  <2>1. x \in Int /\ y \in Int /\ z \in Int
    BY <1>0, <1>1, <1>2
  <2> HIDE DEF x, y, z
  <2>2. n = x + r /\ x = y + z
    BY <1>1, <1>4 DEF x, y, z
  <2>3. n = y + (z + r)
    BY <1>1, <2>1, <2>2
  <2> QED BY <2>3 DEF y, z
<1> HIDE DEF m
<1>7. n \div m = t /\ n % m = b * s + r
  BY <1>0, <1>2, <1>5, <1>6, DivModUnique
<1>8. t \in 0 .. 1
  <2>1. ASSUME t >= 2 PROVE FALSE
    <3>1. m * t >= m * 2
      BY <1>0, <1>2, <2>1
    <3>2. m * t \in Nat
      BY <1>0, <1>2
    <3> DEFINE y == m * t
               z == b * s + r
    <3>3. y >= 2 * m /\ y \in Nat /\ z \in 0 .. m - 1 /\ n = y + z
      BY <1>0, <1>5, <1>6, <3>1, <3>2
    <3> HIDE DEF y, z
    <3> QED BY <1>0, <3>3
  <2> QED BY <1>2, <2>1
<1>9. t % 2 = t
  BY <1>8
<1>10. (n % m) % m = n % m
  BY <1>0, <1>5, <1>7, SmallMod
<1>11. ((n % m) % m) + m * (t % 2) = n
  <2> DEFINE y == m * t
             z == b * s + r
  <2>1. y \in Int /\ z \in Int /\ n = y + z
    BY <1>0, <1>2, <1>5, <1>6
  <2>2. (n % m) % m = z /\ m * (t % 2) = y
    BY <1>7, <1>9, <1>10
  <2> HIDE DEF y, z
  <2> QED BY <2>1, <2>2
<1>12. n % m < 2 * m
  BY <1>0, <1>5, <1>7
<1>13. (r % b) + b * s = n % m
  <2> DEFINE z == b * s
  <2>1. z \in Int
    BY <1>2
  <2>2. n % m = z + r
    BY <1>7
  <2> HIDE DEF z
  <2>3. (r % b) + z = n % m
    BY <1>1, <1>3, <2>1, <2>2
  <2> QED BY <2>3 DEF z
<1>14. 2 * b * b = 2 * m
  BY DEF m
<1> QED
  BY <1>1, <1>2, <1>7, <1>8, <1>11, <1>12, <1>13, <1>14 DEF m, q, r, s, t

-----------------------------------------------------------------------------
(* The packets, byte by byte.                                               *)
(* The sizes: two digits are a byte each, and a count, also one of twice as *)
(* many clocks, and an address are numbers of 17 bits.                      *)
LEMMA Sizes ==
  /\ Base \in Nat \ {0} /\ RamBytes \in Nat \ {0} /\ ByteBase \in Nat \ {0}
  /\ 0 .. Base - 1 \subseteq Byte /\ 0 .. 11 \subseteq Byte
  /\ CpuAddr = 0 .. 2 * Base * Base - 1
  /\ RamBytes = 2 * Base * Base
<1>1. RamBytes = 2 * Base * Base /\ Base \in Nat \ {0}
  BY HciAssumption
<1> QED
  BY HciAssumption, SizeAssumption, <1>1 DEF Byte, CpuAddr

LEMMA CountDigits ==
  ASSUME NEW n \in 0 .. Base * Base - 1
  PROVE  /\ n % Base \in Byte /\ n \div Base \in Byte /\ n % Base \in CpuAddr
         /\ Wrap17(1 * (((n % Base) % Base) + Base * (n \div Base))) = n
         /\ Wrap17(2 * (((n % Base) % Base) + Base * (n \div Base))) = 2 * n
         /\ n \in CpuAddr /\ 2 * n \in CpuAddr
<1>1. Base * Base \in Nat /\ 2 * Base * Base = 2 * (Base * Base) /\ Base <= Base * Base
  <2>1. Base * Base >= Base * 1
    BY Sizes
  <2> QED BY Sizes, <2>1
<1>2. n \in Nat /\ n < Base * Base
  BY <1>1
<1>3. n \div Base \in 0 .. Base - 1 /\ ((n % Base) % Base) + Base * (n \div Base) = n
  BY Sizes, TwoDigits
<1>4. n % Base \in 0 .. Base - 1
  BY Sizes, <1>2, DivMod
<1> DEFINE b == Base * Base
<1>5. b \in Nat /\ n < b /\ Base <= b /\ RamBytes = 2 * b /\ CpuAddr = 0 .. 2 * b - 1
  BY Sizes, <1>1, <1>2
<1> HIDE DEF b
<1>6. n \in 0 .. RamBytes - 1 /\ 2 * n \in 0 .. RamBytes - 1 /\ n % Base \in 0 .. RamBytes - 1
  BY Sizes, <1>2, <1>4, <1>5
<1>7. n % RamBytes = n /\ (2 * n) % RamBytes = 2 * n
  BY Sizes, <1>6, SmallMod
<1>8. 1 * n = n
  BY <1>2
<1> QED
  BY Sizes, <1>3, <1>4, <1>6, <1>7, <1>8 DEF Wrap17, CpuAddr

LEMMA AddressDigits ==
  ASSUME NEW a \in CpuAddr
  PROVE  /\ a % Base \in Byte /\ (a \div Base) % Base \in Byte /\ a \div (Base * Base) \in Byte
         /\ a % Base \in CpuAddr /\ a % (Base * Base) \in CpuAddr
         /\ Wrap17(((a % Base) % Base) + Base * ((a \div Base) % Base)) = a % (Base * Base)
         /\ ((a % (Base * Base)) % (Base * Base)) + Base * Base * ((a \div (Base * Base)) % 2) = a
<1>1. a \in 0 .. 2 * Base * Base - 1
  BY Sizes
<1>2. /\ a % Base \in 0 .. Base - 1 /\ (a \div Base) % Base \in 0 .. Base - 1
      /\ a \div (Base * Base) \in 0 .. 1
      /\ ((a % Base) % Base) + Base * ((a \div Base) % Base) = a % (Base * Base)
      /\ a % (Base * Base) < 2 * Base * Base
      /\ ((a % (Base * Base)) % (Base * Base)) + Base * Base * ((a \div (Base * Base)) % 2) = a
  BY Sizes, <1>1, ThreeDigits
<1>3. Base * Base \in Nat \ {0} /\ a \in Nat /\ 2 * Base * Base = 2 * (Base * Base) /\ Base <= Base * Base
  <2>1. Base * Base >= Base * 1
    BY Sizes
  <2>2. 2 * Base * Base \in Nat
    BY Sizes
  <2> QED BY Sizes, <1>1, <2>1, <2>2
<1>4. a % (Base * Base) \in Nat
  BY <1>3, DivMod
<1>5. a % (Base * Base) \in 0 .. RamBytes - 1 /\ a % Base \in 0 .. RamBytes - 1
  <2> DEFINE b == Base * Base
             x == a % b
             y == a % Base
  <2>1. b \in Nat /\ Base <= b /\ RamBytes = 2 * b /\ x \in Nat /\ x < 2 * b /\ y \in 0 .. Base - 1
    BY Sizes, <1>2, <1>3, <1>4
  <2> HIDE DEF b, x, y
  <2>2. x \in 0 .. RamBytes - 1 /\ y \in 0 .. RamBytes - 1
    BY Sizes, <2>1
  <2> QED BY <2>2 DEF x, y, b
<1>6. (a % (Base * Base)) % RamBytes = a % (Base * Base)
  BY Sizes, <1>5, SmallMod
<1>7. 0 .. 1 \subseteq Byte
  BY Sizes
<1> QED
  BY Sizes, <1>2, <1>5, <1>6, <1>7 DEF Wrap17, CpuAddr

LEMMA OpcodeOf ==
  ASSUME NEW p, WellFormed(p)
  PROVE  /\ p.op \in {"echo", "reg_rd", "unknown", "brk", "run", "io_in", "query_brk",
                      "query_err", "mem_rd", "mem_wr"}
         /\ Opcode[p.op] \in Byte
<1>1. DOMAIN Opcode = {"echo", "reg_rd", "unknown", "brk", "run", "io_in", "query_brk",
                      "query_err", "mem_rd", "mem_wr", "disable"}
  BY DEF Opcode
<1>2. \A op \in DOMAIN Opcode : Opcode[op] \in 0 .. 11
  BY <1>1 DEF Opcode
<1> QED
  BY <1>1, <1>2, Sizes DEF WellFormed

LEMMA PlainPacket ==
  ASSUME NEW p, WellFormed(p), p.op \notin {"echo", "io_in", "mem_rd", "mem_wr"}
  PROVE  Encode(p) = <<Opcode[p.op]>>
<1>1. p.data = <<>>
  BY EmptySeq DEF WellFormed
<1>2. <<Opcode[p.op]>> \in Seq(Byte)
  BY OpcodeOf, OneByte
<1>3. Encode(p) = ((<<Opcode[p.op]>> \o <<>>) \o <<>>) \o <<>>
  BY <1>1 DEF Encode
<1>4. <<Opcode[p.op]>> \o <<>> = <<Opcode[p.op]>>
  BY <1>2, ConcatEmptySeq
<1> QED
  BY <1>3, <1>4

LEMMA ShortPacket ==
  ASSUME NEW p, WellFormed(p), p.op \in {"echo", "io_in"}
  PROVE  /\ Encode(p) = <<Opcode[p.op], p.n % Base, p.n \div Base>> \o p.data
         /\ <<Opcode[p.op], p.n % Base, p.n \div Base>> \in Seq(Byte)
<1>1. p.n % Base \in Byte /\ p.n \div Base \in Byte /\ Opcode[p.op] \in Byte
  BY CountDigits, OpcodeOf DEF WellFormed
<1>2. /\ (<<Opcode[p.op]>> \o <<>>) \o <<p.n % Base, p.n \div Base>>
         = <<Opcode[p.op], p.n % Base, p.n \div Base>>
      /\ <<Opcode[p.op], p.n % Base, p.n \div Base>> \in Seq(Byte)
  BY <1>1, OneAndTwo
<1>3. Encode(p) = ((<<Opcode[p.op]>> \o <<>>) \o <<p.n % Base, p.n \div Base>>) \o p.data
  BY DEF Encode
<1> QED
  BY <1>1, <1>2, <1>3

LEMMA MemPacket ==
  ASSUME NEW p, WellFormed(p), p.op \in {"mem_rd", "mem_wr"}
  PROVE  LET h == <<Opcode[p.op], p.addr % Base, (p.addr \div Base) % Base,
                    p.addr \div (Base * Base), p.n % Base, p.n \div Base>>
         IN  Encode(p) = h \o p.data /\ h \in Seq(Byte)
<1>1. p.n % Base \in Byte /\ p.n \div Base \in Byte /\ Opcode[p.op] \in Byte
  BY CountDigits, OpcodeOf DEF WellFormed
<1>2. p.addr % Base \in Byte /\ (p.addr \div Base) % Base \in Byte /\ p.addr \div (Base * Base) \in Byte
  BY AddressDigits DEF WellFormed
<1>3. <<Opcode[p.op]>> \o <<p.addr % Base, (p.addr \div Base) % Base, p.addr \div (Base * Base)>>
      = <<Opcode[p.op], p.addr % Base, (p.addr \div Base) % Base, p.addr \div (Base * Base)>>
  BY <1>1, <1>2, ThreeAfterOne
<1>4. LET h == <<Opcode[p.op], p.addr % Base, (p.addr \div Base) % Base,
                 p.addr \div (Base * Base), p.n % Base, p.n \div Base>>
      IN /\ <<Opcode[p.op], p.addr % Base, (p.addr \div Base) % Base, p.addr \div (Base * Base)>>
             \o <<p.n % Base, p.n \div Base>> = h
         /\ h \in Seq(Byte)
  BY <1>1, <1>2, TwoAfterFour
<1>5. Encode(p) = ((<<Opcode[p.op]>> \o <<p.addr % Base, (p.addr \div Base) % Base, p.addr \div (Base * Base)>>)
        \o <<p.n % Base, p.n \div Base>>) \o p.data
  BY DEF Encode
<1> QED
  BY <1>3, <1>4, <1>5

(* The bytes of a packet that are unread when k of them are read.          *)
Unread(p, k) == SubSeq(Encode(p), k + 1, Len(Encode(p)))

LEMMA PacketBytes ==
  ASSUME NEW p, WellFormed(p)
  PROVE  /\ Encode(p) \in Seq(Byte) /\ Encode(p) # <<>> /\ Head(Encode(p)) = Opcode[p.op]
         /\ Tail(Encode(p)) = Unread(p, 1)
         /\ p.op \notin {"echo", "io_in", "mem_rd", "mem_wr"} => Unread(p, 1) = <<>>
<1>1. Opcode[p.op] \in Byte /\ p.data \in Seq(Byte)
  BY OpcodeOf DEF WellFormed
<1>2. /\ Encode(p) \in Seq(Byte) /\ Len(Encode(p)) >= 1 /\ Encode(p)[1] = Opcode[p.op]
      /\ p.op \notin {"echo", "io_in", "mem_rd", "mem_wr"} => Len(Encode(p)) = 1
  <2>1. CASE p.op \notin {"echo", "io_in", "mem_rd", "mem_wr"}
    <3>1. Encode(p) = <<Opcode[p.op]>>
      BY <2>1, PlainPacket
    <3>2. <<Opcode[p.op]>> \in Seq(Byte) /\ Len(<<Opcode[p.op]>>) = 1
          /\ <<Opcode[p.op]>>[1] = Opcode[p.op]
      BY <1>1
    <3> QED BY <3>1, <3>2
  <2>2. CASE p.op \in {"echo", "io_in"}
    <3> DEFINE h == <<Opcode[p.op], p.n % Base, p.n \div Base>>
    <3>1. Encode(p) = h \o p.data /\ h \in Seq(Byte) /\ Len(h) = 3 /\ h[1] = Opcode[p.op]
      BY <2>2, ShortPacket
    <3> HIDE DEF h
    <3>2. Len(p.data) \in Nat /\ 1 \in 1 .. Len(h)
      BY <1>1, <3>1, LenProperties
    <3>3. /\ h \o p.data \in Seq(Byte) /\ Len(h \o p.data) = Len(h) + Len(p.data)
          /\ (h \o p.data)[1] = h[1]
      BY <1>1, <3>1, <3>2, AtFront
    <3>4. Len(h) + Len(p.data) >= 1
      BY <3>1, <3>2
    <3> QED BY <2>2, <3>1, <3>3, <3>4
  <2>3. CASE p.op \in {"mem_rd", "mem_wr"}
    <3> DEFINE h == <<Opcode[p.op], p.addr % Base, (p.addr \div Base) % Base,
                      p.addr \div (Base * Base), p.n % Base, p.n \div Base>>
    <3>1. Encode(p) = h \o p.data /\ h \in Seq(Byte) /\ Len(h) = 6 /\ h[1] = Opcode[p.op]
      BY <2>3, MemPacket
    <3> HIDE DEF h
    <3>2. Len(p.data) \in Nat /\ 1 \in 1 .. Len(h)
      BY <1>1, <3>1, LenProperties
    <3>3. /\ h \o p.data \in Seq(Byte) /\ Len(h \o p.data) = Len(h) + Len(p.data)
          /\ (h \o p.data)[1] = h[1]
      BY <1>1, <3>1, <3>2, AtFront
    <3>4. Len(h) + Len(p.data) >= 1
      BY <3>1, <3>2
    <3> QED BY <2>3, <3>1, <3>3, <3>4
  <2> QED BY <2>1, <2>2, <2>3
<1>3. Encode(p) # <<>>
  BY <1>2, EmptySeq
<1>4. Tail(Encode(p)) = SubSeq(Encode(p), 2, Len(Encode(p)))
  BY <1>2, <1>3, TailIsSubSeq
<1>5. Unread(p, 1) = SubSeq(Encode(p), 2, Len(Encode(p)))
  BY DEF Unread
<1>6. Len(Encode(p)) = 1 => Unread(p, 1) = <<>>
  BY <1>5, SubSeqEmpty
<1> QED BY ONLY <1>2, <1>3, <1>4, <1>5, <1>6

LEMMA ShortBytes ==
  ASSUME NEW p, WellFormed(p), p.op \in {"echo", "io_in"}
  PROVE  /\ \A k \in 1 .. 2 : Unread(p, k) \in Seq(Byte) /\ Unread(p, k) # <<>>
                               /\ Tail(Unread(p, k)) = Unread(p, k + 1)
         /\ Head(Unread(p, 1)) = p.n % Base /\ Head(Unread(p, 2)) = p.n \div Base
         /\ Unread(p, 3) = p.data
<1> DEFINE h == <<Opcode[p.op], p.n % Base, p.n \div Base>>
<1>1. /\ Encode(p) = h \o p.data /\ h \in Seq(Byte) /\ Len(h) = 3
      /\ h[2] = p.n % Base /\ h[3] = p.n \div Base
  BY ShortPacket
<1> HIDE DEF h
<1>2. p.data \in Seq(Byte) /\ Len(p.data) \in Nat
  BY LenProperties DEF WellFormed
<1>3. /\ Encode(p) \in Seq(Byte) /\ Len(Encode(p)) = 3 + Len(p.data)
      /\ Encode(p)[2] = h[2] /\ Encode(p)[3] = h[3]
  <2>1. 2 \in 1 .. Len(h) /\ 3 \in 1 .. Len(h)
    BY <1>1
  <2>2. /\ h \o p.data \in Seq(Byte) /\ Len(h \o p.data) = Len(h) + Len(p.data)
        /\ (h \o p.data)[2] = h[2] /\ (h \o p.data)[3] = h[3]
    BY <1>1, <1>2, <2>1, AtFront
  <2> QED BY <1>1, <2>2
<1>4. Unread(p, 3) = p.data
  BY <1>1, <1>2, Behind DEF Unread
<1>5. \A k \in 1 .. 2 : /\ Unread(p, k) \in Seq(Byte) /\ Unread(p, k) # <<>>
                        /\ Tail(Unread(p, k)) = Unread(p, k + 1)
                        /\ Head(Unread(p, k)) = Encode(p)[k + 1]
  <2> SUFFICES ASSUME NEW k \in 1 .. 2
               PROVE  /\ Unread(p, k) \in Seq(Byte) /\ Unread(p, k) # <<>>
                      /\ Tail(Unread(p, k)) = Unread(p, k + 1)
                      /\ Head(Unread(p, k)) = Encode(p)[k + 1]
    OBVIOUS
  <2>1. k \in 0 .. Len(Encode(p)) /\ k < Len(Encode(p)) /\ (k + 1) + 1 = k + 2
    BY <1>2, <1>3
  <2>2. /\ Unread(p, k) \in Seq(Byte) /\ Len(Unread(p, k)) = Len(Encode(p)) - k
        /\ Head(Unread(p, k)) = Encode(p)[k + 1]
        /\ Tail(Unread(p, k)) = SubSeq(Encode(p), k + 2, Len(Encode(p)))
    BY <1>3, <2>1, FromOn DEF Unread
  <2>3. Unread(p, k) # <<>>
    BY <1>3, <2>1, <2>2, EmptySeq, LenProperties
  <2> QED BY <2>1, <2>2, <2>3 DEF Unread
<1> QED BY <1>1, <1>3, <1>4, <1>5

LEMMA MemBytes ==
  ASSUME NEW p, WellFormed(p), p.op \in {"mem_rd", "mem_wr"}
  PROVE  /\ \A k \in 1 .. 5 : Unread(p, k) \in Seq(Byte) /\ Unread(p, k) # <<>>
                               /\ Tail(Unread(p, k)) = Unread(p, k + 1)
         /\ Head(Unread(p, 1)) = p.addr % Base /\ Head(Unread(p, 2)) = (p.addr \div Base) % Base
         /\ Head(Unread(p, 3)) = p.addr \div (Base * Base)
         /\ Head(Unread(p, 4)) = p.n % Base /\ Head(Unread(p, 5)) = p.n \div Base
         /\ Unread(p, 6) = p.data
<1> DEFINE h == <<Opcode[p.op], p.addr % Base, (p.addr \div Base) % Base,
                  p.addr \div (Base * Base), p.n % Base, p.n \div Base>>
<1>1. /\ Encode(p) = h \o p.data /\ h \in Seq(Byte) /\ Len(h) = 6
      /\ h[2] = p.addr % Base /\ h[3] = (p.addr \div Base) % Base
      /\ h[4] = p.addr \div (Base * Base) /\ h[5] = p.n % Base /\ h[6] = p.n \div Base
  BY MemPacket
<1> HIDE DEF h
<1>2. p.data \in Seq(Byte) /\ Len(p.data) \in Nat
  BY LenProperties DEF WellFormed
<1>3. /\ Encode(p) \in Seq(Byte) /\ Len(Encode(p)) = 6 + Len(p.data)
      /\ Encode(p)[2] = h[2] /\ Encode(p)[3] = h[3] /\ Encode(p)[4] = h[4]
      /\ Encode(p)[5] = h[5] /\ Encode(p)[6] = h[6]
  <2>1. Len(h) = 6
    BY <1>1
  <2>2. 2 \in 1 .. Len(h) /\ 3 \in 1 .. Len(h) /\ 4 \in 1 .. Len(h) /\ 5 \in 1 .. Len(h)
        /\ 6 \in 1 .. Len(h)
    BY ONLY <2>1
  <2>3. /\ h \o p.data \in Seq(Byte) /\ Len(h \o p.data) = Len(h) + Len(p.data)
        /\ \A i \in 1 .. Len(h) : (h \o p.data)[i] = h[i]
    BY <1>1, <1>2, AtFront
  <2>4. Encode(p) = h \o p.data
    BY <1>1
  <2>5. Len(p.data) \in Nat /\ Len(Encode(p)) = 6 + Len(p.data) /\ Encode(p) \in Seq(Byte)
    BY ONLY <1>2, <2>1, <2>3, <2>4
  <2>6. Encode(p)[2] = h[2] /\ Encode(p)[3] = h[3] /\ Encode(p)[4] = h[4]
        /\ Encode(p)[5] = h[5] /\ Encode(p)[6] = h[6]
    BY ONLY <2>2, <2>3, <2>4
  <2> QED BY ONLY <2>5, <2>6
<1>4. Unread(p, 6) = p.data
  BY <1>1, <1>2, Behind DEF Unread
<1>5. \A k \in 1 .. 5 : /\ Unread(p, k) \in Seq(Byte) /\ Unread(p, k) # <<>>
                        /\ Tail(Unread(p, k)) = Unread(p, k + 1)
                        /\ Head(Unread(p, k)) = Encode(p)[k + 1]
  <2> SUFFICES ASSUME NEW k \in 1 .. 5
               PROVE  /\ Unread(p, k) \in Seq(Byte) /\ Unread(p, k) # <<>>
                      /\ Tail(Unread(p, k)) = Unread(p, k + 1)
                      /\ Head(Unread(p, k)) = Encode(p)[k + 1]
    OBVIOUS
  <2>1. k \in 0 .. Len(Encode(p)) /\ k < Len(Encode(p)) /\ (k + 1) + 1 = k + 2
    BY <1>2, <1>3
  <2>2. /\ Unread(p, k) \in Seq(Byte) /\ Len(Unread(p, k)) = Len(Encode(p)) - k
        /\ Head(Unread(p, k)) = Encode(p)[k + 1]
        /\ Tail(Unread(p, k)) = SubSeq(Encode(p), k + 2, Len(Encode(p)))
    BY <1>3, <2>1, FromOn DEF Unread
  <2>3. Unread(p, k) # <<>>
    BY <1>3, <2>1, <2>2, EmptySeq, LenProperties
  <2> QED BY <2>1, <2>2, <2>3 DEF Unread
<1>6. /\ Head(Unread(p, 1)) = Encode(p)[2] /\ Head(Unread(p, 2)) = Encode(p)[3]
      /\ Head(Unread(p, 3)) = Encode(p)[4] /\ Head(Unread(p, 4)) = Encode(p)[5]
      /\ Head(Unread(p, 5)) = Encode(p)[6]
  BY ONLY <1>5
<1> QED BY ONLY <1>1, <1>3, <1>4, <1>5, <1>6

-----------------------------------------------------------------------------
(* What the host knows of the exchange: the bytes it has sent and the      *)
(* machine has not read, the reply bytes and input bytes the machine has   *)
(* still to write to its fifos, and the RAM, the mode and the error as     *)
(* they will be when all is read.                                          *)
View == [rest : Seq(Byte), left : Seq(Byte), more : Seq(Byte),
         image : [CpuAddr -> Byte], running : BOOLEAN, badOp : BOOLEAN]

Uploads(p, old) ==
  IF p.op = "mem_wr"
  THEN [a \in CpuAddr |-> IF Offset(p, a) <= p.n THEN p.data[Offset(p, a)] ELSE old[a]]
  ELSE old

Inputs(p) == IF p.op = "io_in" THEN p.data ELSE <<>>

Mode(p, run) == p.op = "run" \/ (p.op # "brk" /\ run)

ReplyTo(h, p) ==
  CASE p.op = "echo"      -> p.data
    [] p.op = "mem_rd"    -> [i \in 1 .. p.n |-> h.image[(p.addr + i - 1) % RamBytes]]
    [] p.op = "query_brk" -> <<IF h.running THEN 0 ELSE 1>>
    [] p.op = "query_err" -> <<IF h.badOp THEN 2 ELSE 0>>
    [] p.op = "reg_rd"    -> [i \in 1 .. 4 |-> DbgReg[i - 1]]
    [] OTHER              -> <<>>

(* Nothing of the reply is written, and nothing of an earlier one is left. *)
Unanswered == tx.items = <<>> /\ ~wrEn

Asked(h, p) ==
  /\ Unanswered /\ h.left = ReplyTo(h, p) /\ h.more = Inputs(p)
  /\ h.image = Uploads(p, ram)

(* Where the machine is in the exchange.  No packet under way:             *)
Idle(h) ==
  /\ BetweenPackets /\ h.rest = <<>> /\ h.left = <<>> /\ h.more = <<>> /\ h.image = ram
  /\ (h.running <=> state = "disabled") /\ (h.badOp <=> err)

(* a packet sent of which nothing is read;                                 *)
Sent(h, p) ==
  /\ BetweenPackets /\ h.rest = Encode(p) /\ Asked(h, p)
  /\ state = "disabled" => p.op \in {"brk", "query_brk"}
  /\ h.running <=> Mode(p, state = "disabled")
  /\ h.badOp <=> (err \/ p.op = "unknown")

(* its header under way;                                                   *)
ShortAsked(p) ==
  /\ p.op \in {"echo", "io_in"}
  /\ state = IF p.op = "echo" THEN "echo_0" ELSE "io_in_0"
  /\ decodeCnt \in 0 .. 1 /\ (decodeCnt = 1 => executeCnt = p.n % Base)

MemAsked(p) ==
  /\ p.op \in {"mem_rd", "mem_wr"}
  /\ state = IF p.op = "mem_rd" THEN "mem_rd_0" ELSE "mem_wr_0"
  /\ decodeCnt \in 0 .. 4 /\ (decodeCnt = 4 => executeCnt = p.n % Base)
  /\ decodeCnt = 1 => addr = p.addr % Base
  /\ decodeCnt = 2 => addr = p.addr % (Base * Base)
  /\ decodeCnt >= 3 => addr = p.addr

InHeader(h, p) ==
  /\ h.rest = Unread(p, 1 + decodeCnt) /\ Asked(h, p)
  /\ ~h.running /\ (h.badOp <=> err)
  /\ ShortAsked(p) \/ MemAsked(p)

(* or its body.  Ahead(a) is how far the address a is from the next.       *)
Ahead(a) == (a - addr) % RamBytes

EchoBody(h) ==
  /\ state = "echo_1" /\ executeCnt = Len(h.rest) /\ h.rest # <<>>
  /\ h.left = h.rest /\ h.more = <<>> /\ h.image = ram

InputBody(h) ==
  /\ state = "io_in_1" /\ executeCnt = Len(h.rest) /\ h.rest # <<>>
  /\ h.left = <<>> /\ h.more = h.rest /\ h.image = ram

WriteBody(h) ==
  /\ state = "mem_wr_1" /\ executeCnt = Len(h.rest) /\ h.rest # <<>>
  /\ h.left = <<>> /\ h.more = <<>>
  /\ \A a \in CpuAddr :
       h.image[a] = IF Ahead(a) < executeCnt THEN h.rest[Ahead(a) + 1] ELSE ram[a]

ReadBody(h) ==
  /\ state = "mem_rd_1" /\ executeCnt # 0
  /\ h.rest = <<>> /\ h.more = <<>> /\ h.image = ram
  /\ Len(h.left) = (executeCnt + 1) \div 2
  /\ \A i \in 1 .. Len(h.left) : h.left[i] = ram[(addr + i - 1) % RamBytes]
  /\ executeCnt % 2 = 1 => ramQ = addr /\ ~wrEn

RegBody(h) ==
  /\ h.rest = <<>> /\ h.more = <<>> /\ h.image = ram
  /\ \/ state = "reg_rd_0" /\ Len(h.left) = 4 /\ \A i \in 1 .. 4 : h.left[i] = DbgReg[i - 1]
     \/ /\ state = "reg_rd_1" /\ executeCnt \in 1 .. 4 /\ Len(h.left) = executeCnt
        /\ addr = 4 - executeCnt
        /\ \A i \in 1 .. executeCnt : h.left[i] = DbgReg[addr + i - 1]

ErrBody(h) ==
  /\ state = "query_err" /\ h.rest = <<>> /\ h.more = <<>> /\ h.image = ram
  /\ h.left = <<IF err THEN 2 ELSE 0>>

InBody(h) ==
  /\ ~h.running /\ (h.badOp <=> err)
  /\ EchoBody(h) \/ InputBody(h) \/ WriteBody(h) \/ ReadBody(h) \/ RegBody(h) \/ ErrBody(h)

Phase(h) == Idle(h) \/ InBody(h) \/ \E p \in HostPackets : Sent(h, p) \/ InHeader(h, p)

(* The fifos.  A flag may be late, but none of what the machine writes     *)
(* meets a full fifo, and the line holds at most one byte.                 *)
Pending == IF wrEn THEN <<txData>> ELSE <<>>
PendingIn == IF inWrEn THEN <<inData>> ELSE <<>>
Rest == rx.items \o out
Left == SubSeq(owed, Len(tx.items \o Pending) + 1, Len(owed))
More == SubSeq(inputs, Len(ioIn.items \o PendingIn) + 1, Len(inputs))

LineInv ==
  /\ ~rx.full /\ (rx.empty <=> rx.items = <<>>)
  /\ Len(rx.items) <= 1 /\ (rx.items # <<>> => gap >= 1)

ReplyInv ==
  /\ owed = (tx.items \o Pending) \o Left
  /\ Len(tx.items) = TxSlots => tx.full
  /\ tx.items = <<>> => tx.empty
  /\ tx.full => Len(tx.items) >= TxSlots - 1
  /\ wrEn => ~tx.full

InputInv ==
  /\ inputs = (ioIn.items \o PendingIn) \o More
  /\ Len(inputs) <= InSlots
  /\ ioIn.empty <=> ioIn.items = <<>>
  /\ ioIn.full => Len(ioIn.items) = InSlots

(* The machine does not look at tx.full in the state echo_1, and looks a   *)
(* clock too early in reg_rd_1: what is left of the reply has room.        *)
RoomInv ==
  state \in {"echo_1", "reg_rd_0", "reg_rd_1", "query_err"} =>
    /\ Len(tx.items) + Len(Pending) + Len(Left) <= TxSlots
    /\ tx.full => Left = <<>>

(* The CPU uses the port while the line is quiet.                          *)
PortInv ==
  /\ cpu # NoIo => Quiet /\ running
  /\ state = "disabled" => ~inWrEn
  /\ state = "disabled" /\ ~qIoEn /\ wrEn => tx.items = <<>>

(* The host's view is that of one exchange, or that of one whose last byte *)
(* is still in the receive fifo when the next packet is sent.              *)
Current == [rest |-> Rest, left |-> Left, more |-> More,
            image |-> image, running |-> running, badOp |-> badOp]

Overtaken(h, p) ==
  /\ h.rest = rx.items /\ rx.items # <<>> /\ h.left = <<>>
  /\ out = Encode(p) /\ Unanswered /\ Left = ReplyTo(Current, p)
  /\ More = h.more \o Inputs(p)
  /\ image = Uploads(p, h.image)
  /\ h.running => p.op \in {"brk", "query_brk"}
  /\ running <=> Mode(p, h.running)
  /\ badOp <=> (h.badOp \/ p.op = "unknown")

Exchange ==
  \E h \in View : Phase(h) /\ (h = Current \/ \E p \in HostPackets : Overtaken(h, p))

HostInv == TypeOK /\ LineInv /\ ReplyInv /\ InputInv /\ RoomInv /\ PortInv /\ Exchange

-----------------------------------------------------------------------------
(* One clock of the packet machine.  What it takes and writes is at the    *)
(* front of what there is, and it stays in the exchange.                   *)
DataClock ==
  /\ ram' = IF state = "mem_wr_1" /\ Got THEN [ram EXCEPT ![addr] = rdData] ELSE ram
  /\ Active => ramQ' = addr
  /\ Unanswered => tx'.items = <<>>

Fits(h) ==
  /\ Got => h.rest # <<>> /\ rdData = Head(h.rest)
  /\ h.more # <<>> => ~ioIn.full

SendsRight(h) ==
  /\ wrEn' => h.left # <<>> /\ txData' = Head(h.left)
  /\ inWrEn' => h.more # <<>> /\ inData' = Head(h.more)

Moves(h, h2) ==
  /\ h2.rest = IF Got /\ state \in Waiting THEN Tail(h.rest) ELSE h.rest
  /\ h2.left = IF wrEn' THEN Tail(h.left) ELSE h.left
  /\ h2.more = IF inWrEn' THEN Tail(h.more) ELSE h.more
  /\ h2.image = h.image /\ h2.running = h.running /\ h2.badOp = h.badOp

GoesOn(h) == SendsRight(h) /\ \A h2 \in View : Moves(h, h2) => Phase(h2)'

(* The state tells the phase.                                              *)
LEMMA PhaseOfState ==
  ASSUME NEW h, Phase(h)
  PROVE  /\ state = "echo_1" => EchoBody(h)
         /\ state = "io_in_1" => InputBody(h)
         /\ state = "mem_wr_1" => WriteBody(h)
         /\ state = "mem_rd_1" => ReadBody(h)
         /\ state \in {"reg_rd_0", "reg_rd_1"} => RegBody(h)
         /\ state = "query_err" => ErrBody(h)
         /\ state \in Headers => \E p \in HostPackets : InHeader(h, p)
         /\ BetweenPackets => Idle(h) \/ \E p \in HostPackets : Sent(h, p)
         /\ state # "disable"
         /\ ~BetweenPackets => ~h.running /\ (h.badOp <=> err)
<1>1. ASSUME BetweenPackets PROVE ~InBody(h) /\ \A p \in HostPackets : ~InHeader(h, p)
  BY <1>1 DEF BetweenPackets, InBody, EchoBody, InputBody, WriteBody, ReadBody, RegBody, ErrBody,
              InHeader, ShortAsked, MemAsked
<1>2. ASSUME ~BetweenPackets PROVE ~Idle(h) /\ \A p \in HostPackets : ~Sent(h, p)
  BY <1>2 DEF Idle, Sent
<1>3. ASSUME InBody(h)
      PROVE  /\ state \in {"echo_1", "io_in_1", "mem_wr_1", "mem_rd_1", "reg_rd_0", "reg_rd_1", "query_err"}
             /\ ~h.running /\ (h.badOp <=> err)
             /\ state = "echo_1" => EchoBody(h)
             /\ state = "io_in_1" => InputBody(h)
             /\ state = "mem_wr_1" => WriteBody(h)
             /\ state = "mem_rd_1" => ReadBody(h)
             /\ state \in {"reg_rd_0", "reg_rd_1"} => RegBody(h)
             /\ state = "query_err" => ErrBody(h)
  BY <1>3 DEF InBody, EchoBody, InputBody, WriteBody, ReadBody, RegBody, ErrBody
<1>4. ASSUME NEW p \in HostPackets, InHeader(h, p)
      PROVE  state \in Headers /\ ~h.running /\ (h.badOp <=> err)
  BY <1>4 DEF InHeader, ShortAsked, MemAsked, Headers
<1>5. CASE BetweenPackets
  <2>1. Idle(h) \/ \E p \in HostPackets : Sent(h, p)
    BY <1>1, <1>5 DEF Phase
  <2> QED BY <1>5, <2>1 DEF BetweenPackets, Headers
<1>6. CASE ~BetweenPackets
  <2>1. InBody(h) \/ \E p \in HostPackets : InHeader(h, p)
    BY <1>2, <1>6 DEF Phase
  <2>2. CASE InBody(h)
    BY <1>3, <1>6, <2>2 DEF Headers
  <2>3. CASE \E p \in HostPackets : InHeader(h, p)
    BY <1>4, <1>6, <2>3 DEF Headers
  <2> QED BY <2>1, <2>2, <2>3
<1> QED BY <1>5, <1>6

(* A clock in which the machine does nothing.                              *)
LEMMA StandsStill ==
  ASSUME NEW h \in View, NEW h2 \in View, Phase(h), DataClock, UNCHANGED regs, ~wrEn',
         state \in Waiting, ~Got, h2 = h
  PROVE  Phase(h2)'
<1>1. /\ state' = state /\ decodeCnt' = decodeCnt /\ executeCnt' = executeCnt
      /\ addr' = addr /\ err' = err /\ ram' = ram /\ ~wrEn'
  BY DEF regs, DataClock
<1>2. Unanswered => Unanswered'
  BY <1>1 DEF DataClock, Unanswered
<1>3. state # "mem_rd_1" /\ state \notin {"reg_rd_0", "reg_rd_1", "query_err"}
  BY DEF Waiting, Headers
<1>4. ASSUME NEW p \in HostPackets
      PROVE  Asked(h, p) => Asked(h, p)'
  BY <1>1, <1>2 DEF Asked, ReplyTo, Uploads, Offset
<1>5. CASE Idle(h)
  BY <1>1, <1>5 DEF Phase, Idle, BetweenPackets
<1>6. CASE InBody(h)
  BY <1>1, <1>3, <1>6 DEF Phase, InBody, EchoBody, InputBody, WriteBody, ReadBody, RegBody, ErrBody, Ahead
<1>7. ASSUME NEW p \in HostPackets, Sent(h, p)
      PROVE  Phase(h2)'
  <2>1. Sent(h, p)'
    BY <1>1, <1>4, <1>7 DEF Sent, BetweenPackets, Encode
  <2> QED BY <2>1 DEF Phase
<1>8. ASSUME NEW p \in HostPackets, InHeader(h, p)
      PROVE  Phase(h2)'
  <2>1. InHeader(h, p)'
    BY <1>1, <1>4, <1>8 DEF InHeader, ShortAsked, MemAsked, Unread, Encode
  <2> QED BY <2>1 DEF Phase
<1> QED BY <1>5, <1>6, <1>7, <1>8 DEF Phase

LEMMA NoByteStep ==
  ASSUME NEW h \in View, Phase(h), DataClock, Fits(h), NoByte
  PROVE  GoesOn(h)
<1>1. state \in Waiting /\ ~Got /\ ~wrEn' /\ ~inWrEn' /\ UNCHANGED regs
  BY PhaseOfState DEF NoByte, Silent, NoInput
<1>2. SendsRight(h)
  BY <1>1 DEF SendsRight
<1>3. ASSUME NEW h2 \in View, Moves(h, h2) PROVE Phase(h2)'
  <2>1. h2 = h
    BY <1>1, <1>3 DEF Moves, View
  <2> QED BY <1>1, <2>1, StandsStill
<1> QED BY <1>2, <1>3 DEF GoesOn

LEMMA DisabledStep ==
  ASSUME NEW h \in View, Phase(h), DataClock, Fits(h), Disabled
  PROVE  GoesOn(h)
<1>1. state = "disabled" /\ Got /\ BetweenPackets /\ state \in Waiting
  BY DEF Disabled, BetweenPackets, Waiting
<1>2. h.rest # <<>> /\ rdData = Head(h.rest)
  BY <1>1 DEF Fits
<1>3. PICK p \in HostPackets : Sent(h, p)
  BY <1>1, <1>2, PhaseOfState DEF Idle
<1>4. WellFormed(p) /\ p.op \in {"brk", "query_brk"}
  BY <1>1, <1>3, HostAssumption DEF Sent
<1>5. rdData = Opcode[p.op] /\ Tail(h.rest) = <<>>
  BY <1>2, <1>3, <1>4, PacketBytes DEF Sent
<1>6. /\ ram' = ram /\ decodeCnt' = decodeCnt /\ executeCnt' = executeCnt
      /\ addr' = addr /\ err' = err /\ ~inWrEn'
  BY <1>1 DEF DataClock, Disabled, NoInput
<1>7. /\ h.more = <<>> /\ h.image = ram /\ (h.badOp <=> err)
  BY <1>3, <1>4 DEF Sent, Asked, Inputs, Uploads
<1>8. CASE p.op = "brk"
  <2>1. rdData = 3
    BY <1>5, <1>8 DEF Opcode
  <2>2. state' = "decode" /\ ~wrEn'
    BY <2>1 DEF Disabled, Opcode, Silent
  <2>3. h.left = <<>> /\ ~h.running
    BY <1>3, <1>8 DEF Sent, Asked, ReplyTo, Mode
  <2>4. \A h2 \in View : Moves(h, h2) => Idle(h2)'
    BY <1>1, <1>5, <1>6, <1>7, <2>2, <2>3 DEF Moves, Idle, BetweenPackets
  <2> QED BY <1>6, <2>2, <2>4 DEF GoesOn, SendsRight, Phase
<1>9. CASE p.op = "query_brk"
  <2>1. rdData = 7
    BY <1>5, <1>9 DEF Opcode
  <2>2. state' = "disabled" /\ wrEn' = TRUE /\ txData' = 0
    BY <2>1 DEF Disabled, Opcode, Sends
  <2>3. h.running
    BY <1>1, <1>3, <1>9 DEF Sent, Mode
  <2>4. h.left = <<0>>
    BY <1>3, <1>9, <2>3 DEF Sent, Asked, ReplyTo
  <2>5. h.left # <<>> /\ Head(h.left) = 0 /\ Tail(h.left) = <<>>
    BY <2>4
  <2>6. \A h2 \in View : Moves(h, h2) => Idle(h2)'
    BY <1>1, <1>5, <1>6, <1>7, <2>2, <2>3, <2>5 DEF Moves, Idle, BetweenPackets
  <2> QED BY <1>6, <2>2, <2>5, <2>6 DEF GoesOn, SendsRight, Phase
<1> QED BY <1>4, <1>8, <1>9

LEMMA ServedStates ==
  /\ DOMAIN Served = {0, 1, 3, 4, 5, 7, 8, 9, 10, 11}
  /\ Served[0] = "echo_0" /\ Served[1] = "reg_rd_0" /\ Served[3] = "decode"
  /\ Served[4] = "disabled" /\ Served[5] = "io_in_0" /\ Served[7] = "decode"
  /\ Served[8] = "query_err" /\ Served[9] = "mem_rd_0" /\ Served[10] = "mem_wr_0"
<1> DEFINE codes == {Opcode[op] : op \in DOMAIN Opcode \ {"unknown"}}
<1>1. codes = {0, 1, 3, 4, 5, 7, 8, 9, 10, 11}
  <2>1. DOMAIN Opcode \ {"unknown"}
        = {"echo", "reg_rd", "brk", "run", "io_in", "query_brk", "query_err", "mem_rd", "mem_wr", "disable"}
    BY DEF Opcode
  <2>2. codes = {Opcode["echo"], Opcode["reg_rd"], Opcode["brk"], Opcode["run"], Opcode["io_in"],
                 Opcode["query_brk"], Opcode["query_err"], Opcode["mem_rd"], Opcode["mem_wr"],
                 Opcode["disable"]}
    BY <2>1
  <2> QED BY <2>2 DEF Opcode
<1> HIDE DEF codes
<1>2. Served = [b \in codes |->
     CASE b = 0 -> "echo_0" [] b = 5 -> "io_in_0" [] b = 8 -> "query_err" [] b = 9 -> "mem_rd_0"
       [] b = 10 -> "mem_wr_0" [] b = 1 -> "reg_rd_0" [] b = 11 -> "disable"
       [] b = 4 -> "disabled" [] OTHER -> "decode"]
  BY DEF Served, codes, Opcode
<1> QED BY <1>1, <1>2

LEMMA DecodeStep ==
  ASSUME NEW h \in View, Phase(h), DataClock, Fits(h), DecodeOpcode
  PROVE  GoesOn(h)
<1>1. state = "decode" /\ Got /\ BetweenPackets /\ state \in Waiting
  BY DEF DecodeOpcode, BetweenPackets, Waiting
<1>2. h.rest # <<>> /\ rdData = Head(h.rest)
  BY <1>1 DEF Fits
<1>3. PICK p \in HostPackets : Sent(h, p)
  BY <1>1, <1>2, PhaseOfState DEF Idle
<1>4. WellFormed(p)
  BY HostAssumption
<1>5. rdData = Opcode[p.op] /\ Tail(h.rest) = Unread(p, 1)
  BY <1>2, <1>3, <1>4, PacketBytes DEF Sent
<1>6. /\ ram' = ram /\ decodeCnt' = 0 /\ executeCnt' = executeCnt /\ addr' = addr /\ ~inWrEn'
      /\ state' = IF rdData \in DOMAIN Served THEN Served[rdData] ELSE "decode"
      /\ (err' <=> (err \/ rdData \notin DOMAIN Served))
      /\ IF rdData = 7 THEN wrEn' = TRUE /\ txData' = 1 ELSE ~wrEn'
  BY <1>1 DEF DataClock, DecodeOpcode, NoInput, Sends, Silent, Opcode
<1>7. /\ Unanswered /\ h.left = ReplyTo(h, p) /\ h.more = Inputs(p) /\ h.image = Uploads(p, ram)
      /\ (h.running <=> p.op = "run") /\ (h.badOp <=> (err \/ p.op = "unknown"))
  BY <1>1, <1>3 DEF Sent, Asked, Mode
<1>8. tx'.items = <<>>
  BY <1>7 DEF DataClock
<1>9. CASE p.op \in {"unknown", "brk", "run"}
  <2>1. \/ p.op = "unknown" /\ rdData = 2
        \/ p.op = "brk" /\ rdData = 3
        \/ p.op = "run" /\ rdData = 4
    BY <1>5, <1>9 DEF Opcode
  <2>2. /\ state' = IF p.op = "run" THEN "disabled" ELSE "decode"
        /\ (err' <=> (err \/ p.op = "unknown")) /\ ~wrEn'
    BY <1>6, <2>1, ServedStates
  <2>3. h.left = <<>> /\ h.more = <<>> /\ h.image = ram /\ Unread(p, 1) = <<>>
    BY <1>4, <1>7, <1>9, PacketBytes DEF ReplyTo, Inputs, Uploads
  <2>4. \A h2 \in View : Moves(h, h2) => Idle(h2)'
    BY <1>1, <1>5, <1>6, <1>7, <2>2, <2>3 DEF Moves, Idle, BetweenPackets
  <2> QED BY <1>6, <2>2, <2>4 DEF GoesOn, SendsRight, Phase
<1>10. CASE p.op = "query_brk"
  <2>1. rdData = 7
    BY <1>5, <1>10 DEF Opcode
  <2>2. state' = "decode" /\ (err' <=> err) /\ wrEn' = TRUE /\ txData' = 1
    BY <1>6, <2>1, ServedStates
  <2>3. h.left = <<1>> /\ h.more = <<>> /\ h.image = ram /\ Unread(p, 1) = <<>>
    BY <1>4, <1>7, <1>10, PacketBytes DEF ReplyTo, Inputs, Uploads
  <2>4. h.left # <<>> /\ Head(h.left) = 1 /\ Tail(h.left) = <<>>
    BY <2>3
  <2>5. \A h2 \in View : Moves(h, h2) => Idle(h2)'
    BY <1>1, <1>5, <1>6, <1>7, <1>10, <2>2, <2>3, <2>4 DEF Moves, Idle, BetweenPackets
  <2> QED BY <1>6, <2>2, <2>4, <2>5 DEF GoesOn, SendsRight, Phase
<1>11. CASE p.op = "query_err"
  <2>1. rdData = 8
    BY <1>5, <1>11 DEF Opcode
  <2>2. state' = "query_err" /\ (err' <=> err) /\ ~wrEn'
    BY <1>6, <2>1, ServedStates
  <2>3. h.left = <<IF err THEN 2 ELSE 0>> /\ h.more = <<>> /\ h.image = ram /\ Unread(p, 1) = <<>>
    BY <1>4, <1>7, <1>11, PacketBytes DEF ReplyTo, Inputs, Uploads
  <2>4. \A h2 \in View : Moves(h, h2) => InBody(h2)'
    BY <1>1, <1>5, <1>6, <1>7, <1>11, <2>2, <2>3 DEF Moves, InBody, ErrBody
  <2> QED BY <1>6, <2>2, <2>4 DEF GoesOn, SendsRight, Phase
<1>12. CASE p.op = "reg_rd"
  <2>1. rdData = 1
    BY <1>5, <1>12 DEF Opcode
  <2>2. state' = "reg_rd_0" /\ (err' <=> err) /\ ~wrEn'
    BY <1>6, <2>1, ServedStates
  <2>3. /\ h.left = [i \in 1 .. 4 |-> DbgReg[i - 1]] /\ h.more = <<>> /\ h.image = ram
        /\ Unread(p, 1) = <<>>
    BY <1>4, <1>7, <1>12, PacketBytes DEF ReplyTo, Inputs, Uploads
  <2>4. Len(h.left) = 4 /\ \A i \in 1 .. 4 : h.left[i] = DbgReg[i - 1]
    BY <2>3
  <2>5. \A h2 \in View : Moves(h, h2) => InBody(h2)'
    BY <1>1, <1>5, <1>6, <1>7, <1>12, <2>2, <2>3, <2>4 DEF Moves, InBody, RegBody
  <2> QED BY <1>6, <2>2, <2>5 DEF GoesOn, SendsRight, Phase
<1>13. CASE p.op \in {"echo", "io_in", "mem_rd", "mem_wr"}
  <2>1. \/ p.op = "echo" /\ rdData = 0
        \/ p.op = "io_in" /\ rdData = 5
        \/ p.op = "mem_rd" /\ rdData = 9
        \/ p.op = "mem_wr" /\ rdData = 10
    BY <1>5, <1>13 DEF Opcode
  <2>2. /\ state' = CASE p.op = "echo" -> "echo_0" [] p.op = "io_in" -> "io_in_0"
                      [] p.op = "mem_rd" -> "mem_rd_0" [] p.op = "mem_wr" -> "mem_wr_0"
        /\ (err' <=> err) /\ ~wrEn'
    BY <1>6, <2>1, ServedStates
  <2>3. ASSUME NEW h2 \in View, Moves(h, h2) PROVE InHeader(h2, p)'
    <3>1. h2.rest = Unread(p, 1) /\ h2.left = h.left /\ h2.more = h.more /\ h2.image = h.image
          /\ h2.running = h.running /\ h2.badOp = h.badOp
      BY <1>1, <1>5, <1>6, <2>2, <2>3 DEF Moves
    <3>2. ReplyTo(h2, p)' = ReplyTo(h, p) /\ Uploads(p, ram)' = Uploads(p, ram)
      BY <1>6, <3>1 DEF ReplyTo, Uploads, Offset
    <3>3. Asked(h2, p)'
      BY <1>7, <1>8, <2>2, <3>1, <3>2 DEF Asked, Unanswered
    <3>4. Unread(p, 1 + decodeCnt)' = Unread(p, 1)
      BY <1>6 DEF Unread, Encode
    <3>5. (ShortAsked(p) \/ MemAsked(p))'
      BY <1>6, <1>13, <2>2 DEF ShortAsked, MemAsked
    <3> QED BY <1>7, <1>13, <2>2, <3>1, <3>3, <3>4, <3>5 DEF InHeader
  <2> QED BY <1>6, <2>2, <2>3 DEF GoesOn, SendsRight, Phase
<1> QED BY <1>4, <1>9, <1>10, <1>11, <1>12, <1>13, OpcodeOf

(* The two bytes of the count.                                              *)
LEMMA ShortStep ==
  ASSUME NEW h \in View, HciTypeOK, Phase(h), DataClock, Fits(h), NEW op \in {"echo", "io_in"},
         ShortHeader(IF op = "echo" THEN "echo_0" ELSE "io_in_0",
                     IF op = "echo" THEN "echo_1" ELSE "io_in_1")
  PROVE  GoesOn(h)
<1> DEFINE body == IF op = "echo" THEN "echo_1" ELSE "io_in_1"
<1>1. state = (IF op = "echo" THEN "echo_0" ELSE "io_in_0") /\ Got /\ state \in Headers /\ state \in Waiting
  BY DEF ShortHeader, Headers, Waiting
<1>2. h.rest # <<>> /\ rdData = Head(h.rest)
  BY <1>1 DEF Fits
<1>3. PICK p \in HostPackets : InHeader(h, p)
  BY <1>1, PhaseOfState
<1>4. WellFormed(p) /\ ShortAsked(p) /\ p.op = op /\ p.n \in 0 .. Base * Base - 1
  BY <1>1, <1>3, HostAssumption DEF InHeader, ShortAsked, MemAsked, WellFormed
<1>5. /\ ram' = ram /\ addr' = addr /\ (err' <=> err) /\ ~inWrEn' /\ ~wrEn'
      /\ decodeCnt' = (decodeCnt + 1) % 8 /\ CountByte(0, 1, body)
  BY <1>1 DEF DataClock, ShortHeader, NoInput, Silent
<1>6. /\ Unanswered /\ h.left = ReplyTo(h, p) /\ h.more = Inputs(p) /\ h.image = Uploads(p, ram)
      /\ ~h.running /\ (h.badOp <=> err) /\ h.rest = Unread(p, 1 + decodeCnt)
  BY <1>3 DEF InHeader, Asked
<1>7. tx'.items = <<>>
  BY <1>6 DEF DataClock
<1>8. CASE decodeCnt = 0
  <2>1. decodeCnt' = 1 /\ executeCnt' = p.n % Base /\ state' = state
    BY <1>2, <1>4, <1>5, <1>6, <1>8, ShortBytes DEF CountByte
  <2>2. Tail(h.rest) = Unread(p, 2)
    BY <1>4, <1>6, <1>8, ShortBytes
  <2>3. ASSUME NEW h2 \in View, Moves(h, h2) PROVE InHeader(h2, p)'
    <3>1. h2.rest = Unread(p, 2) /\ h2.left = h.left /\ h2.more = h.more /\ h2.image = h.image
          /\ h2.running = h.running /\ h2.badOp = h.badOp
      BY <1>1, <1>5, <2>2, <2>3 DEF Moves
    <3>2. ReplyTo(h2, p)' = ReplyTo(h, p) /\ Uploads(p, ram)' = Uploads(p, ram)
      BY <1>5, <3>1 DEF ReplyTo, Uploads, Offset
    <3>3. Asked(h2, p)'
      BY <1>5, <1>6, <1>7, <3>1, <3>2 DEF Asked, Unanswered
    <3>4. Unread(p, 1 + decodeCnt)' = Unread(p, 2)
      BY <2>1 DEF Unread, Encode
    <3>5. ShortAsked(p)'
      BY <1>4, <2>1 DEF ShortAsked
    <3> QED BY <1>5, <1>6, <3>1, <3>3, <3>4, <3>5 DEF InHeader
  <2> QED BY <1>5, <2>3 DEF GoesOn, SendsRight, Phase
<1>9. CASE decodeCnt = 1
  <2>1. rdData = p.n \div Base /\ Tail(h.rest) = p.data /\ executeCnt = p.n % Base
    BY <1>2, <1>4, <1>6, <1>9, ShortBytes DEF ShortAsked
  <2>2. executeCnt' = Wrap17(1 * ((executeCnt % Base) + Base * rdData))
        /\ state' = IF executeCnt' # 0 THEN body ELSE "decode"
    BY <1>5, <1>9 DEF CountByte
  <2>3. executeCnt' = p.n
    BY <1>4, <2>1, <2>2, CountDigits
  <2>4. p.data \in Seq(Byte) /\ Len(p.data) = p.n /\ (p.data = <<>> <=> p.n = 0)
    BY <1>4, EmptySeq DEF WellFormed
  <2>5. h.image = ram /\ h.left = (IF op = "echo" THEN p.data ELSE <<>>)
        /\ h.more = (IF op = "io_in" THEN p.data ELSE <<>>)
    BY <1>4, <1>6 DEF Uploads, Inputs, ReplyTo
  <2>6. ASSUME NEW h2 \in View, Moves(h, h2) PROVE Phase(h2)'
    <3>1. h2.rest = p.data /\ h2.left = h.left /\ h2.more = h.more /\ h2.image = h.image
          /\ h2.running = h.running /\ h2.badOp = h.badOp
      BY <1>1, <1>5, <2>1, <2>6 DEF Moves
    <3>2. CASE p.n = 0
      <4>1. Idle(h2)'
        BY <1>5, <1>6, <2>2, <2>3, <2>4, <2>5, <3>1, <3>2 DEF Idle, BetweenPackets
      <4> QED BY <4>1 DEF Phase
    <3>3. CASE p.n # 0
      <4>1. (EchoBody(h2) \/ InputBody(h2))'
        BY <1>4, <1>5, <1>6, <2>2, <2>3, <2>4, <2>5, <3>1, <3>3 DEF EchoBody, InputBody
      <4>2. InBody(h2)'
        BY <1>5, <1>6, <3>1, <4>1 DEF InBody
      <4> QED BY <4>2 DEF Phase
    <3> QED BY <3>2, <3>3
  <2> QED BY <1>5, <2>6 DEF GoesOn, SendsRight
<1> QED BY <1>4, <1>8, <1>9 DEF ShortAsked

(* Three bytes of address and two of the count.                             *)
LEMMA MemHeaderStep ==
  ASSUME NEW h \in View, HciTypeOK, Phase(h), DataClock, Fits(h), NEW op \in {"mem_rd", "mem_wr"},
         MemHeader(IF op = "mem_rd" THEN "mem_rd_0" ELSE "mem_wr_0",
                   IF op = "mem_rd" THEN 2 ELSE 1,
                   IF op = "mem_rd" THEN "mem_rd_1" ELSE "mem_wr_1")
  PROVE  GoesOn(h)
<1> DEFINE body == IF op = "mem_rd" THEN "mem_rd_1" ELSE "mem_wr_1"
           width == IF op = "mem_rd" THEN 2 ELSE 1
<1>1. state = (IF op = "mem_rd" THEN "mem_rd_0" ELSE "mem_wr_0") /\ Got /\ state \in Headers /\ state \in Waiting
  BY DEF MemHeader, Headers, Waiting
<1>2. h.rest # <<>> /\ rdData = Head(h.rest)
  BY <1>1 DEF Fits
<1>3. PICK p \in HostPackets : InHeader(h, p)
  BY <1>1, PhaseOfState
<1>4. /\ WellFormed(p) /\ MemAsked(p) /\ p.op = op /\ p.n \in 0 .. Base * Base - 1
      /\ p.addr \in CpuAddr
  BY <1>1, <1>3, HostAssumption DEF InHeader, ShortAsked, MemAsked, WellFormed
<1>5. /\ ram' = ram /\ (err' <=> err) /\ ~inWrEn' /\ ~wrEn'
      /\ decodeCnt' = (decodeCnt + 1) % 8
      /\ IF decodeCnt < 3
         THEN addr' = AddressByte /\ UNCHANGED <<state, executeCnt>>
         ELSE CountByte(3, width, body) /\ UNCHANGED addr
  BY <1>1 DEF DataClock, MemHeader, NoInput, Silent
<1>6. /\ Unanswered /\ h.left = ReplyTo(h, p) /\ h.more = Inputs(p) /\ h.image = Uploads(p, ram)
      /\ ~h.running /\ (h.badOp <=> err) /\ h.rest = Unread(p, 1 + decodeCnt)
  BY <1>3 DEF InHeader, Asked
<1>7. tx'.items = <<>>
  BY <1>6 DEF DataClock
<1>8. decodeCnt \in 0 .. 4
  BY <1>4 DEF MemAsked
<1>9. ASSUME decodeCnt < 4
      PROVE  decodeCnt' = decodeCnt + 1 /\ Tail(h.rest) = Unread(p, 1 + (decodeCnt + 1))
  <2>1. decodeCnt \in 0 .. 3 /\ (decodeCnt + 1) % 8 = decodeCnt + 1 /\ 1 + decodeCnt \in 1 .. 5
        /\ (1 + decodeCnt) + 1 = 1 + (decodeCnt + 1)
    BY <1>8, <1>9
  <2> QED BY <1>4, <1>5, <1>6, <2>1, MemBytes
(* All but the last byte leave the machine in the header.                   *)
<1>10. ASSUME decodeCnt < 4, MemAsked(p)' PROVE GoesOn(h)
  <2>1. ASSUME NEW h2 \in View, Moves(h, h2) PROVE InHeader(h2, p)'
    <3>1. h2.rest = Unread(p, 1 + (decodeCnt + 1)) /\ h2.left = h.left /\ h2.more = h.more
          /\ h2.image = h.image /\ h2.running = h.running /\ h2.badOp = h.badOp
      BY <1>1, <1>5, <1>9, <1>10, <2>1 DEF Moves
    <3>2. ReplyTo(h2, p)' = ReplyTo(h, p) /\ Uploads(p, ram)' = Uploads(p, ram)
      BY <1>5, <3>1 DEF ReplyTo, Uploads, Offset
    <3>3. Asked(h2, p)'
      BY <1>5, <1>6, <1>7, <3>1, <3>2 DEF Asked, Unanswered
    <3>4. Unread(p, 1 + decodeCnt)' = Unread(p, 1 + (decodeCnt + 1))
      BY <1>9, <1>10 DEF Unread, Encode
    <3> QED BY <1>5, <1>6, <1>10, <3>1, <3>3, <3>4 DEF InHeader
  <2> QED BY <1>5, <2>1 DEF GoesOn, SendsRight, Phase
<1>11. CASE decodeCnt = 0
  <2>1. rdData = p.addr % Base
    BY <1>2, <1>4, <1>6, <1>11, MemBytes
  <2>2. addr' = p.addr % Base /\ state' = state /\ decodeCnt' = 1
    BY <1>5, <1>9, <1>11, <2>1 DEF AddressByte
  <2>3. MemAsked(p)'
    BY <1>4, <2>2 DEF MemAsked
  <2> QED BY <1>10, <1>11, <2>3
<1>12. CASE decodeCnt = 1
  <2>1. rdData = (p.addr \div Base) % Base /\ addr = p.addr % Base
    BY <1>2, <1>4, <1>6, <1>12, MemBytes DEF MemAsked
  <2>2. addr' = Wrap17((addr % Base) + Base * rdData) /\ state' = state /\ decodeCnt' = 2
    BY <1>5, <1>9, <1>12 DEF AddressByte
  <2>3. addr' = p.addr % (Base * Base)
    BY <1>4, <2>1, <2>2, AddressDigits
  <2>4. MemAsked(p)'
    BY <1>4, <2>2, <2>3 DEF MemAsked
  <2> QED BY <1>10, <1>12, <2>4
<1>13. CASE decodeCnt = 2
  <2>1. rdData = p.addr \div (Base * Base) /\ addr = p.addr % (Base * Base)
    BY <1>2, <1>4, <1>6, <1>13, MemBytes DEF MemAsked
  <2>2. addr' = (addr % (Base * Base)) + Base * Base * (rdData % 2) /\ state' = state /\ decodeCnt' = 3
    BY <1>5, <1>9, <1>13 DEF AddressByte
  <2>3. addr' = p.addr
    BY <1>4, <2>1, <2>2, AddressDigits
  <2>4. MemAsked(p)'
    BY <1>4, <2>2, <2>3 DEF MemAsked
  <2> QED BY <1>10, <1>13, <2>4
<1>14. CASE decodeCnt = 3
  <2>1. rdData = p.n % Base /\ addr = p.addr
    BY <1>2, <1>4, <1>6, <1>14, MemBytes DEF MemAsked
  <2>2. executeCnt' = p.n % Base /\ addr' = p.addr /\ state' = state /\ decodeCnt' = 4
    BY <1>5, <1>9, <1>14, <2>1 DEF CountByte
  <2>3. MemAsked(p)'
    BY <1>4, <2>2 DEF MemAsked
  <2> QED BY <1>10, <1>14, <2>3
<1>15. CASE decodeCnt = 4
  <2>1. rdData = p.n \div Base /\ Tail(h.rest) = p.data /\ executeCnt = p.n % Base /\ addr = p.addr
    <3>1. h.rest = Unread(p, 5)
      BY <1>4, <1>6, <1>15
    <3>2. Head(Unread(p, 5)) = p.n \div Base /\ Tail(Unread(p, 5)) = Unread(p, 5 + 1)
          /\ Unread(p, 6) = p.data
      BY <1>4, MemBytes DEF MemAsked
    <3>3. executeCnt = p.n % Base /\ addr = p.addr
      BY <1>4, <1>15 DEF MemAsked
    <3> QED BY ONLY <1>2, <3>1, <3>2, <3>3
  <2>2. /\ executeCnt' = Wrap17(width * ((executeCnt % Base) + Base * rdData))
        /\ state' = IF executeCnt' # 0 THEN body ELSE "decode"
        /\ addr' = p.addr
    BY <1>5, <1>15, <2>1 DEF CountByte
  <2>3. executeCnt' = width * p.n
    <3>1. executeCnt' = Wrap17(width * (((p.n % Base) % Base) + Base * (p.n \div Base)))
      BY <2>1, <2>2
    <3>2. 1 * p.n = p.n
      BY <1>4
    <3> QED BY <1>4, <3>1, <3>2, CountDigits
  <2>4. p.data \in Seq(Byte) /\ Len(p.data) = (IF op = "mem_wr" THEN p.n ELSE 0) /\ p.n \in Nat
        /\ (p.data = <<>> <=> (op = "mem_wr" => p.n = 0)) /\ (executeCnt' = 0 <=> p.n = 0)
    BY <1>4, <2>3, EmptySeq DEF WellFormed
  <2>5. h.more = <<>> /\ h.image = Uploads(p, ram)
        /\ h.left = (IF op = "mem_rd" THEN [i \in 1 .. p.n |-> h.image[(p.addr + i - 1) % RamBytes]]
                     ELSE <<>>)
    BY <1>4, <1>6 DEF Inputs, ReplyTo
  <2>6. ASSUME NEW h2 \in View, Moves(h, h2) PROVE Phase(h2)'
    <3>1. h2.rest = p.data /\ h2.left = h.left /\ h2.more = h.more /\ h2.image = h.image
          /\ h2.running = h.running /\ h2.badOp = h.badOp
      BY <1>1, <1>5, <2>1, <2>6 DEF Moves
    <3>2. CASE p.n = 0
      <4>1. h.left = <<>>
        BY <2>5, <3>2
      <4>2. h.image = ram
        <5>1. CASE op = "mem_rd"
          BY <1>4, <2>5, <5>1 DEF Uploads
        <5>2. CASE op = "mem_wr"
          <6>1. \A a \in CpuAddr : ~(Offset(p, a) <= p.n)
            BY <1>4, <3>2, Sizes DEF Offset, CpuAddr
          <6>2. ram \in [CpuAddr -> Byte] /\ h.image \in [CpuAddr -> Byte]
            BY DEF HciTypeOK, RamTypeOK, View
          <6>3. \A a \in CpuAddr : h.image[a] = ram[a]
            BY <1>4, <2>5, <5>2, <6>1 DEF Uploads
          <6> QED BY <6>2, <6>3
        <5> QED BY <5>1, <5>2
      <4>3. Idle(h2)'
        BY <1>5, <1>6, <2>2, <2>4, <2>5, <3>1, <3>2, <4>1, <4>2 DEF Idle, BetweenPackets
      <4> QED BY <4>3 DEF Phase
    <3>3. CASE p.n # 0 /\ op = "mem_rd"
      <4>1. executeCnt' = 2 * p.n /\ state' = "mem_rd_1" /\ addr' = p.addr
        BY <2>2, <2>3, <2>4, <3>3
      <4>2. (executeCnt' + 1) \div 2 = p.n /\ executeCnt' % 2 = 0 /\ executeCnt' # 0
        <5> DEFINE m == executeCnt'
        <5>1. p.n \in Nat \ {0} /\ m = 2 * p.n
          BY <2>4, <3>3, <4>1
        <5> HIDE DEF m
        <5>2. (m + 1) \div 2 = p.n /\ m % 2 = 0 /\ m # 0
          BY ONLY <5>1
        <5> QED BY <5>2 DEF m
      <4>3. h.image = ram /\ Len(h.left) = p.n
            /\ \A i \in 1 .. Len(h.left) : h.left[i] = ram[(p.addr + i - 1) % RamBytes]
        BY <1>4, <2>4, <2>5, <3>3 DEF Uploads
      <4>4. h2.rest = <<>>
        BY <2>4, <3>1, <3>3
      <4>5. ReadBody(h2)'
        <5>1. ram' = ram /\ h2.more = <<>> /\ h2.image = ram /\ h2.left = h.left
          BY <1>5, <2>5, <3>1, <4>3
        <5>2. Len(h2.left) = (executeCnt' + 1) \div 2
          BY <4>2, <4>3, <5>1
        <5>3. \A i \in 1 .. Len(h2.left) : h2.left[i] = ram'[(addr' + i - 1) % RamBytes]
          BY ONLY <4>1, <4>3, <5>1
        <5> QED BY <4>1, <4>2, <4>4, <5>1, <5>2, <5>3 DEF ReadBody
      <4>6. InBody(h2)'
        BY <1>5, <1>6, <3>1, <4>5 DEF InBody
      <4> QED BY <4>6 DEF Phase
    <3>4. CASE p.n # 0 /\ op = "mem_wr"
      <4>1. executeCnt' = p.n /\ state' = "mem_wr_1" /\ addr' = p.addr
        BY <2>2, <2>3, <2>4, <3>4
      <4>2. ASSUME NEW a \in CpuAddr
            PROVE  h.image[a] = IF Ahead(a)' < p.n THEN p.data[Ahead(a)' + 1] ELSE ram[a]
        <5>1. Ahead(a)' = (a - p.addr) % RamBytes /\ Offset(p, a) = ((a - p.addr) % RamBytes) + 1
          BY <4>1 DEF Ahead, Offset
        <5>2. (a - p.addr) % RamBytes \in Nat
          BY <1>4, Sizes DEF CpuAddr
        <5>3. Offset(p, a) <= p.n <=> Ahead(a)' < p.n
          BY <2>4, <5>1, <5>2
        <5>4. h.image[a] = IF Offset(p, a) <= p.n THEN p.data[Offset(p, a)] ELSE ram[a]
          BY <1>4, <2>5, <3>4 DEF Uploads
        <5> QED BY <5>1, <5>3, <5>4
      <4>3. WriteBody(h2)'
        BY <1>5, <2>4, <2>5, <3>1, <3>4, <4>1, <4>2 DEF WriteBody
      <4>4. InBody(h2)'
        BY <1>5, <1>6, <3>1, <4>3 DEF InBody
      <4> QED BY <4>4 DEF Phase
    <3> QED BY <3>2, <3>3, <3>4
  <2> QED BY <1>5, <2>6 DEF GoesOn, SendsRight
<1> QED BY <1>8, <1>11, <1>12, <1>13, <1>14, <1>15

(* A clock of the body that writes a byte of the reply or of the input.    *)
LEMMA Counted ==
  ASSUME HciTypeOK, executeCnt # 0
  PROVE  /\ Wrap17(executeCnt - 1) = executeCnt - 1 /\ executeCnt \in Nat \ {0}
         /\ executeCnt \in CpuAddr
<1>1. executeCnt \in CpuAddr /\ RamBytes \in Nat \ {0}
  BY Sizes DEF HciTypeOK
<1>2. executeCnt - 1 \in 0 .. RamBytes - 1
  BY <1>1 DEF CpuAddr
<1> QED BY <1>1, <1>2, SmallMod DEF Wrap17, CpuAddr

LEMMA EchoStep ==
  ASSUME NEW h \in View, HciTypeOK, Phase(h), DataClock, Fits(h), Echo
  PROVE  GoesOn(h)
<1>1. state = "echo_1" /\ Got /\ state \in Waiting /\ EchoBody(h) /\ ~h.running /\ (h.badOp <=> err)
  BY PhaseOfState DEF Echo, Waiting, BetweenPackets
<1>2. h.rest # <<>> /\ rdData = Head(h.rest) /\ h.left = h.rest /\ executeCnt = Len(h.rest)
      /\ h.more = <<>> /\ h.image = ram /\ h.rest \in Seq(Byte)
  BY <1>1 DEF Fits, EchoBody, View
<1>3. Tail(h.rest) \in Seq(Byte) /\ Len(Tail(h.rest)) = executeCnt - 1 /\ executeCnt # 0
      /\ (Tail(h.rest) = <<>> <=> executeCnt - 1 = 0)
  <2>1. Tail(h.rest) \in Seq(Byte) /\ Len(Tail(h.rest)) = executeCnt - 1 /\ executeCnt # 0
    BY <1>2, HeadTailProperties, EmptySeq
  <2> QED BY <2>1, EmptySeq
<1>4. /\ ram' = ram /\ (err' <=> err) /\ ~inWrEn' /\ wrEn' = TRUE /\ txData' = rdData
      /\ executeCnt' = executeCnt - 1 /\ state' = IF executeCnt' = 0 THEN "decode" ELSE "echo_1"
  BY <1>1, <1>3, Counted DEF DataClock, Echo, NoInput, Sends, CountDown
<1>5. SendsRight(h)
  BY <1>2, <1>4 DEF SendsRight
<1>6. ASSUME NEW h2 \in View, Moves(h, h2) PROVE Phase(h2)'
  <2>1. h2.rest = Tail(h.rest) /\ h2.left = Tail(h.rest) /\ h2.more = <<>> /\ h2.image = ram
        /\ ~h2.running /\ (h2.badOp <=> err)
    BY <1>1, <1>2, <1>4, <1>6 DEF Moves
  <2>2. CASE executeCnt - 1 = 0
    <3>1. Idle(h2)'
      BY <1>3, <1>4, <2>1, <2>2 DEF Idle, BetweenPackets
    <3> QED BY <3>1 DEF Phase
  <2>3. CASE executeCnt - 1 # 0
    <3>1. EchoBody(h2)'
      BY <1>3, <1>4, <2>1, <2>3 DEF EchoBody
    <3>2. InBody(h2)'
      BY <1>4, <2>1, <3>1 DEF InBody
    <3> QED BY <3>2 DEF Phase
  <2> QED BY <2>2, <2>3
<1> QED BY <1>5, <1>6 DEF GoesOn

LEMMA InputStep ==
  ASSUME NEW h \in View, HciTypeOK, Phase(h), DataClock, Fits(h), InputByte
  PROVE  GoesOn(h)
<1>1. state = "io_in_1" /\ Got /\ state \in Waiting /\ InputBody(h) /\ ~h.running /\ (h.badOp <=> err)
  BY PhaseOfState DEF InputByte, Waiting, BetweenPackets
<1>2. h.rest # <<>> /\ rdData = Head(h.rest) /\ h.more = h.rest /\ executeCnt = Len(h.rest)
      /\ h.left = <<>> /\ h.image = ram /\ h.rest \in Seq(Byte) /\ ~ioIn.full
  BY <1>1 DEF Fits, InputBody, View
<1>3. Tail(h.rest) \in Seq(Byte) /\ Len(Tail(h.rest)) = executeCnt - 1 /\ executeCnt # 0
      /\ (Tail(h.rest) = <<>> <=> executeCnt - 1 = 0)
  <2>1. Tail(h.rest) \in Seq(Byte) /\ Len(Tail(h.rest)) = executeCnt - 1 /\ executeCnt # 0
    BY <1>2, HeadTailProperties, EmptySeq
  <2> QED BY <2>1, EmptySeq
<1>4. /\ ram' = ram /\ (err' <=> err) /\ ~wrEn' /\ inWrEn' = TRUE /\ inData' = rdData
      /\ executeCnt' = executeCnt - 1 /\ state' = IF executeCnt' = 0 THEN "decode" ELSE "io_in_1"
  BY <1>1, <1>2, <1>3, Counted DEF DataClock, InputByte, Buffers, Silent, CountDown
<1>5. SendsRight(h)
  BY <1>2, <1>4 DEF SendsRight
<1>6. ASSUME NEW h2 \in View, Moves(h, h2) PROVE Phase(h2)'
  <2>1. h2.rest = Tail(h.rest) /\ h2.more = Tail(h.rest) /\ h2.left = <<>> /\ h2.image = ram
        /\ ~h2.running /\ (h2.badOp <=> err)
    BY <1>1, <1>2, <1>4, <1>6 DEF Moves
  <2>2. CASE executeCnt - 1 = 0
    <3>1. Idle(h2)'
      BY <1>3, <1>4, <2>1, <2>2 DEF Idle, BetweenPackets
    <3> QED BY <3>1 DEF Phase
  <2>3. CASE executeCnt - 1 # 0
    <3>1. InputBody(h2)'
      BY <1>3, <1>4, <2>1, <2>3 DEF InputBody
    <3>2. InBody(h2)'
      BY <1>4, <2>1, <3>1 DEF InBody
    <3> QED BY <3>2 DEF Phase
  <2> QED BY <2>2, <2>3
<1> QED BY <1>5, <1>6 DEF GoesOn

LEMMA QueryErrStep ==
  ASSUME NEW h \in View, HciTypeOK, Phase(h), DataClock, Fits(h), QueryErrCode
  PROVE  GoesOn(h)
<1>1. state = "query_err" /\ state \notin Waiting /\ ErrBody(h) /\ ~h.running /\ (h.badOp <=> err)
  BY PhaseOfState DEF QueryErrCode, Waiting, Headers, BetweenPackets
<1>2. h.rest = <<>> /\ h.more = <<>> /\ h.image = ram /\ h.left = <<IF err THEN 2 ELSE 0>>
      /\ ram' = ram /\ (err' <=> err) /\ ~inWrEn'
  BY <1>1 DEF ErrBody, DataClock, QueryErrCode, NoInput
<1>3. h.left # <<>> /\ Head(h.left) = (IF err THEN 2 ELSE 0) /\ Tail(h.left) = <<>>
  BY <1>2
<1>4. CASE tx.full
  <2>1. state' = state /\ ~wrEn'
    BY <1>4 DEF QueryErrCode, Silent
  <2>2. ASSUME NEW h2 \in View, Moves(h, h2) PROVE Phase(h2)'
    <3>1. ErrBody(h2)' /\ ~h2.running /\ (h2.badOp <=> err')
      BY <1>1, <1>2, <2>1, <2>2 DEF Moves, ErrBody
    <3>2. InBody(h2)'
      BY <3>1 DEF InBody
    <3> QED BY <3>2 DEF Phase
  <2> QED BY <1>2, <2>1, <2>2 DEF GoesOn, SendsRight
<1>5. CASE ~tx.full
  <2>1. state' = "decode" /\ wrEn' = TRUE /\ txData' = IF err THEN 2 ELSE 0
    BY <1>5 DEF QueryErrCode, Sends
  <2>2. ASSUME NEW h2 \in View, Moves(h, h2) PROVE Phase(h2)'
    <3>1. Idle(h2)'
      BY <1>1, <1>2, <1>3, <2>1, <2>2 DEF Moves, Idle, BetweenPackets
    <3> QED BY <3>1 DEF Phase
  <2> QED BY <1>2, <1>3, <2>1, <2>2 DEF GoesOn, SendsRight
<1> QED BY <1>4, <1>5

LEMMA RegStartStep ==
  ASSUME NEW h \in View, HciTypeOK, Phase(h), DataClock, Fits(h), RegReadStart
  PROVE  GoesOn(h)
<1>1. state = "reg_rd_0" /\ state \notin Waiting /\ RegBody(h) /\ ~h.running /\ (h.badOp <=> err)
  BY PhaseOfState DEF RegReadStart, Waiting, Headers, BetweenPackets
<1>2. h.rest = <<>> /\ h.more = <<>> /\ h.image = ram
      /\ Len(h.left) = 4 /\ (\A i \in 1 .. 4 : h.left[i] = DbgReg[i - 1])
      /\ ram' = ram /\ (err' <=> err) /\ ~inWrEn' /\ ~wrEn'
  BY <1>1 DEF RegBody, DataClock, RegReadStart, NoInput, Silent
<1>3. \/ state' = "reg_rd_0"
      \/ state' = "reg_rd_1" /\ executeCnt' = 4 /\ addr' = 0
  BY <1>1 DEF RegReadStart
<1>4. ASSUME NEW h2 \in View, Moves(h, h2) PROVE Phase(h2)'
  <2>1. h2.rest = <<>> /\ h2.more = <<>> /\ h2.image = ram /\ h2.left = h.left
        /\ ~h2.running /\ (h2.badOp <=> err')
    BY <1>1, <1>2, <1>4 DEF Moves
  <2>2. Len(h2.left) = 4 /\ (\A i \in 1 .. 4 : h2.left[i] = DbgReg[i - 1]) /\ h2.image = ram'
    BY <1>2, <2>1
  <2>3. ASSUME state' = "reg_rd_0" PROVE RegBody(h2)'
    BY ONLY <2>1, <2>2, <2>3 DEF RegBody
  <2>4. ASSUME state' = "reg_rd_1" /\ executeCnt' = 4 /\ addr' = 0 PROVE RegBody(h2)'
    <3>1. executeCnt' \in 1 .. 4 /\ Len(h2.left) = executeCnt' /\ addr' = 4 - executeCnt'
          /\ \A i \in 1 .. executeCnt' : h2.left[i] = DbgReg[addr' + i - 1]
      <4>1. \A i \in 1 .. 4 : 0 + i - 1 = i - 1
        OBVIOUS
      <4> QED BY <2>2, <2>4, <4>1
    <3> QED BY ONLY <2>1, <2>2, <2>4, <3>1 DEF RegBody
  <2>5. RegBody(h2)'
    BY <1>3, <2>3, <2>4
  <2>6. InBody(h2)'
    BY <2>1, <2>5 DEF InBody
  <2> QED BY <2>6 DEF Phase
<1> QED BY <1>2, <1>4 DEF GoesOn, SendsRight

LEMMA RegReadStep ==
  ASSUME NEW h \in View, HciTypeOK, Phase(h), DataClock, Fits(h), RegRead
  PROVE  GoesOn(h)
<1>1. state = "reg_rd_1" /\ state \notin Waiting /\ RegBody(h) /\ ~h.running /\ (h.badOp <=> err)
  BY PhaseOfState DEF RegRead, Waiting, Headers, BetweenPackets
<1>2. h.rest = <<>> /\ h.more = <<>> /\ h.image = ram
      /\ executeCnt \in 1 .. 4 /\ Len(h.left) = executeCnt /\ addr = 4 - executeCnt
      /\ (\A i \in 1 .. executeCnt : h.left[i] = DbgReg[addr + i - 1])
      /\ ram' = ram /\ (err' <=> err) /\ ~inWrEn' /\ h.left \in Seq(Byte)
  BY <1>1 DEF RegBody, DataClock, RegRead, NoInput, View
<1>3. CASE tx.full
  <2>1. state' = state /\ executeCnt' = executeCnt /\ addr' = addr /\ ~wrEn'
    BY <1>1, <1>3 DEF RegRead, Silent
  <2>2. ASSUME NEW h2 \in View, Moves(h, h2) PROVE Phase(h2)'
    <3>0. /\ h2.rest = h.rest /\ h2.left = h.left /\ h2.more = h.more /\ h2.image = h.image
          /\ h2.running = h.running /\ h2.badOp = h.badOp
      BY <1>1, <1>2, <2>1, <2>2 DEF Moves
    <3>1. RegBody(h2)' /\ ~h2.running /\ (h2.badOp <=> err')
      BY <1>1, <1>2, <2>1, <3>0 DEF RegBody
    <3>2. InBody(h2)'
      BY <3>1 DEF InBody
    <3> QED BY <3>2 DEF Phase
  <2> QED BY <1>2, <2>1, <2>2 DEF GoesOn, SendsRight
<1>4. CASE ~tx.full
  <2>1. addr \in 0 .. 3 /\ addr + 1 \in CpuAddr /\ Wrap17(addr + 1) = addr + 1 /\ addr % 4 = addr
    <3>1. addr \in 0 .. 3 /\ addr % 4 = addr
      BY <1>2
    <3>2. RamBytes > 4 /\ RamBytes \in Nat \ {0}
      <4>1. Base * Base >= 2 * 2
        BY HciAssumption
      <4>2. RamBytes = 2 * (Base * Base) /\ Base * Base \in Nat
        BY Sizes
      <4> QED BY Sizes, <4>1, <4>2
    <3>3. addr + 1 \in 0 .. RamBytes - 1
      BY <3>1, <3>2
    <3> QED BY <3>1, <3>2, <3>3, SmallMod DEF Wrap17, CpuAddr
  <2>2. /\ wrEn' = TRUE /\ txData' = DbgReg[addr] /\ addr' = addr + 1
        /\ executeCnt' = executeCnt - 1
        /\ state' = IF executeCnt' = 0 THEN "decode" ELSE "reg_rd_1"
    BY <1>2, <1>4, <2>1, Counted DEF RegRead, Sends, CountDown
  <2>3. h.left # <<>> /\ Head(h.left) = DbgReg[addr] /\ Tail(h.left) \in Seq(Byte)
        /\ Len(Tail(h.left)) = executeCnt - 1
        /\ \A i \in 1 .. executeCnt - 1 : Tail(h.left)[i] = DbgReg[(addr + 1) + i - 1]
    <3>1. h.left # <<>>
      BY <1>2
    <3>2. Head(h.left) = h.left[1] /\ Len(Tail(h.left)) = executeCnt - 1 /\ Tail(h.left) \in Seq(Byte)
          /\ \A i \in 1 .. executeCnt - 1 : Tail(h.left)[i] = h.left[i + 1]
      BY <1>2, <3>1, HeadTailProperties
    <3>3. h.left[1] = DbgReg[addr]
      BY <1>2
    <3>4. ASSUME NEW i \in 1 .. executeCnt - 1
          PROVE  h.left[i + 1] = DbgReg[(addr + 1) + i - 1]
      <4>1. i + 1 \in 1 .. executeCnt /\ addr + (i + 1) - 1 = (addr + 1) + i - 1
        BY <1>2, <2>1
      <4> QED BY <1>2, <4>1
    <3> QED BY <3>1, <3>2, <3>3, <3>4
  <2>4. ASSUME NEW h2 \in View, Moves(h, h2) PROVE Phase(h2)'
    <3>1. h2.rest = <<>> /\ h2.more = <<>> /\ h2.image = ram /\ h2.left = Tail(h.left)
          /\ ~h2.running /\ (h2.badOp <=> err')
      BY <1>1, <1>2, <2>2, <2>4 DEF Moves
    <3>2. CASE executeCnt - 1 = 0
      <4>1. Tail(h.left) = <<>>
        BY <2>3, <3>2, EmptySeq
      <4>2. Idle(h2)'
        BY <1>2, <2>2, <3>1, <3>2, <4>1 DEF Idle, BetweenPackets
      <4> QED BY <4>2 DEF Phase
    <3>3. CASE executeCnt - 1 # 0
      <4>1. /\ state' = "reg_rd_1" /\ executeCnt' \in 1 .. 4 /\ Len(h2.left) = executeCnt'
            /\ addr' = 4 - executeCnt'
            /\ \A i \in 1 .. executeCnt' : h2.left[i] = DbgReg[addr' + i - 1]
        BY <1>2, <2>2, <2>3, <3>1, <3>3
      <4>2. RegBody(h2)'
        BY <1>2, <3>1, <4>1 DEF RegBody
      <4>3. InBody(h2)'
        BY <3>1, <4>2 DEF InBody
      <4> QED BY <4>3 DEF Phase
    <3> QED BY <3>2, <3>3
  <2> QED BY <1>2, <2>2, <2>3, <2>4 DEF GoesOn, SendsRight
<1> QED BY <1>3, <1>4

(* A whole turn changes no remainder.                                      *)
LEMMA WholeTurn ==
  ASSUME NEW b \in Nat \ {0}, NEW n \in Nat
  PROVE  n % b = (n + b) % b
<1> DEFINE q == n \div b
           r == n % b
<1>1. q \in Nat /\ r \in 0 .. b - 1 /\ n = b * q + r
  BY DivMod
<1>2. b * (q + 1) = b * q + b
  BY <1>1
<1>3. n + b = b * (q + 1) + r
  BY <1>1, <1>2
<1> HIDE DEF q, r
<1>4. (b * (q + 1) + r) % b = r
  BY <1>1, DivModUnique
<1> QED BY <1>3, <1>4 DEF r

(* Addresses wrap around.                                                  *)
LEMMA WrapTwice ==
  ASSUME NEW a \in CpuAddr, NEW i \in Nat \ {0}
  PROVE  (((a + 1) % RamBytes) + i - 1) % RamBytes = (a + (i + 1) - 1) % RamBytes
<1>1. RamBytes \in Nat \ {0} /\ a \in 0 .. RamBytes - 1
  BY Sizes DEF CpuAddr
<1>2. CASE a + 1 < RamBytes
  <2>1. (a + 1) % RamBytes = a + 1
    BY <1>1, <1>2, SmallMod
  <2> QED BY <1>1, <2>1
<1>3. CASE a + 1 = RamBytes
  <2>1. (a + 1) % RamBytes = 0
    BY <1>1, <1>3
  <2>2. (i - 1) % RamBytes = ((i - 1) + RamBytes) % RamBytes
    <3>1. i - 1 \in Nat
      OBVIOUS
    <3> QED BY <1>1, <3>1, WholeTurn
  <2>3. (i - 1) + RamBytes = a + (i + 1) - 1 /\ 0 + i - 1 = i - 1
    BY <1>1, <1>3
  <2> QED BY <2>1, <2>2, <2>3
<1> QED BY <1>1, <1>2, <1>3

LEMMA MemReadWaitStep ==
  ASSUME NEW h \in View, HciTypeOK, Phase(h), DataClock, Fits(h), MemReadWait
  PROVE  GoesOn(h)
<1>1. state = "mem_rd_1" /\ state \notin Waiting /\ ReadBody(h) /\ ~h.running /\ (h.badOp <=> err)
  BY PhaseOfState DEF MemReadWait, Waiting, Headers, BetweenPackets
<1>2. /\ h.rest = <<>> /\ h.more = <<>> /\ h.image = ram
      /\ Len(h.left) = (executeCnt + 1) \div 2 /\ executeCnt # 0 /\ executeCnt % 2 = 0
      /\ \A i \in 1 .. Len(h.left) : h.left[i] = ram[(addr + i - 1) % RamBytes]
  BY <1>1 DEF ReadBody, MemReadWait
<1>3. executeCnt' = executeCnt - 1 /\ executeCnt \in Nat \ {0}
  BY <1>2, Counted DEF MemReadWait
<1>4. executeCnt' # 0 /\ (executeCnt' + 1) \div 2 = (executeCnt + 1) \div 2
  BY <1>2, <1>3
<1>5. /\ state' = "mem_rd_1" /\ addr' = addr /\ ram' = ram /\ ramQ' = addr'
      /\ (err' <=> err) /\ ~wrEn' /\ ~inWrEn'
  BY <1>1 DEF MemReadWait, DataClock, Active, Silent, NoInput
<1>6. ASSUME NEW h2 \in View, Moves(h, h2) PROVE Phase(h2)'
  <2>1. h2.rest = <<>> /\ h2.more = <<>> /\ h2.image = ram' /\ h2.left = h.left
        /\ ~h2.running /\ (h2.badOp <=> err')
    BY <1>1, <1>2, <1>5, <1>6 DEF Moves
  <2>2. /\ Len(h2.left) = (executeCnt' + 1) \div 2
        /\ \A i \in 1 .. Len(h2.left) : h2.left[i] = ram'[(addr' + i - 1) % RamBytes]
    BY <1>2, <1>4, <1>5, <2>1
  <2>3. ReadBody(h2)'
    BY <1>4, <1>5, <2>1, <2>2 DEF ReadBody
  <2>4. InBody(h2)'
    BY <2>1, <2>3 DEF InBody
  <2> QED BY <2>4 DEF Phase
<1> QED BY <1>5, <1>6 DEF GoesOn, SendsRight

LEMMA MemReadStep ==
  ASSUME NEW h \in View, HciTypeOK, Phase(h), DataClock, Fits(h), MemRead
  PROVE  GoesOn(h)
<1>1. state = "mem_rd_1" /\ state \notin Waiting /\ ReadBody(h) /\ ~h.running /\ (h.badOp <=> err)
  BY PhaseOfState DEF MemRead, Waiting, Headers, BetweenPackets
<1>2. /\ h.rest = <<>> /\ h.more = <<>> /\ h.image = ram
      /\ Len(h.left) = (executeCnt + 1) \div 2 /\ executeCnt # 0 /\ executeCnt % 2 = 1
      /\ \A i \in 1 .. Len(h.left) : h.left[i] = ram[(addr + i - 1) % RamBytes]
      /\ ramQ = addr /\ ~wrEn
  BY <1>1 DEF ReadBody, MemRead
<1>3. /\ ram' = ram /\ ramQ' = addr /\ (err' <=> err) /\ ~inWrEn' /\ h.left \in Seq(Byte)
      /\ addr \in CpuAddr
  BY <1>1 DEF DataClock, Active, MemRead, NoInput, View, HciTypeOK
<1>4. CASE tx.full
  <2>1. state' = state /\ executeCnt' = executeCnt /\ addr' = addr /\ ~wrEn'
    BY <1>1, <1>2, <1>4 DEF MemRead, MayReadMem, Silent
  <2>2. ASSUME NEW h2 \in View, Moves(h, h2) PROVE Phase(h2)'
    <3>1. h2.rest = <<>> /\ h2.more = <<>> /\ h2.image = ram' /\ h2.left = h.left
          /\ ~h2.running /\ (h2.badOp <=> err')
      BY <1>1, <1>2, <1>3, <2>1, <2>2 DEF Moves
    <3>2. /\ Len(h2.left) = (executeCnt' + 1) \div 2 /\ state' = "mem_rd_1" /\ executeCnt' # 0
          /\ ramQ' = addr' /\ ~wrEn'
          /\ \A i \in 1 .. Len(h2.left) : h2.left[i] = ram'[(addr' + i - 1) % RamBytes]
      BY <1>1, <1>2, <1>3, <2>1, <3>1
    <3>3. ReadBody(h2)'
      BY <3>1, <3>2 DEF ReadBody
    <3>4. InBody(h2)'
      BY <3>1, <3>3 DEF InBody
    <3> QED BY <3>4 DEF Phase
  <2> QED BY <1>3, <2>1, <2>2 DEF GoesOn, SendsRight
<1>5. CASE ~tx.full
  <2>1. executeCnt \in Nat \ {0} /\ Wrap17(executeCnt - 1) = executeCnt - 1
    BY <1>2, Counted
  <2>2. /\ wrEn' = TRUE /\ txData' = ram[addr] /\ addr' = Wrap17(addr + 1)
        /\ executeCnt' = executeCnt - 1
        /\ state' = IF executeCnt' = 0 THEN "decode" ELSE "mem_rd_1"
    BY <1>2, <1>5, <2>1 DEF MemRead, MayReadMem, Sends, CountDown
  <2>3. Len(h.left) \in Nat \ {0} /\ h.left # <<>> /\ Len(h.left) - 1 = (executeCnt' + 1) \div 2
        /\ (executeCnt' = 0 => Len(h.left) = 1) /\ executeCnt' % 2 = 0
    <3>1. /\ (executeCnt + 1) \div 2 \in Nat \ {0} /\ (executeCnt + 1) \div 2 - 1 = ((executeCnt - 1) + 1) \div 2
          /\ (executeCnt - 1 = 0 => (executeCnt + 1) \div 2 = 1) /\ (executeCnt - 1) % 2 = 0
      BY <1>2, <2>1
    <3> QED BY <1>2, <1>3, <2>2, <3>1
  <2>4. Head(h.left) = h.left[1] /\ Len(Tail(h.left)) = Len(h.left) - 1 /\ Tail(h.left) \in Seq(Byte)
        /\ \A i \in 1 .. Len(h.left) - 1 : Tail(h.left)[i] = h.left[i + 1]
    BY <1>3, <2>3, HeadTailProperties
  <2>5. addr + 1 - 1 = addr /\ addr % RamBytes = addr
    <3>1. addr \in 0 .. RamBytes - 1 /\ RamBytes \in Nat \ {0}
      BY <1>3, Sizes DEF CpuAddr
    <3>2. addr % RamBytes = addr
      BY <3>1, SmallMod
    <3> QED BY <3>1, <3>2
  <2>6. Head(h.left) = ram[addr]
    BY <1>2, <2>3, <2>4, <2>5
  <2>7. ASSUME NEW i \in 1 .. Len(h.left) - 1
        PROVE  Tail(h.left)[i] = ram[(addr' + i - 1) % RamBytes]
    <3>1. i + 1 \in 1 .. Len(h.left) /\ i \in Nat \ {0}
      BY <2>3
    <3>2. (addr' + i - 1) % RamBytes = (addr + (i + 1) - 1) % RamBytes
      BY <1>3, <2>2, <3>1, WrapTwice DEF Wrap17
    <3> QED BY <1>2, <2>4, <3>1, <3>2
  <2>8. ASSUME NEW h2 \in View, Moves(h, h2) PROVE Phase(h2)'
    <3>1. h2.rest = <<>> /\ h2.more = <<>> /\ h2.image = ram' /\ h2.left = Tail(h.left)
          /\ ~h2.running /\ (h2.badOp <=> err')
      BY <1>1, <1>2, <1>3, <2>2, <2>8 DEF Moves
    <3>2. CASE executeCnt' = 0
      <4>1. Len(Tail(h.left)) = 0
        BY <2>3, <2>4, <3>2
      <4>2. Tail(h.left) = <<>>
        BY <2>4, <4>1, EmptySeq
      <4>3. state' = "decode"
        BY <2>2, <3>2
      <4>4. Idle(h2)'
        BY <3>1, <4>2, <4>3 DEF Idle, BetweenPackets
      <4> QED BY <4>4 DEF Phase
    <3>3. CASE executeCnt' # 0
      <4>1. /\ Len(h2.left) = (executeCnt' + 1) \div 2 /\ state' = "mem_rd_1" /\ executeCnt' % 2 = 0
            /\ \A i \in 1 .. Len(h2.left) : h2.left[i] = ram'[(addr' + i - 1) % RamBytes]
        BY <1>3, <2>2, <2>3, <2>4, <2>7, <3>1, <3>3
      <4>2. ReadBody(h2)'
        BY <3>1, <3>3, <4>1 DEF ReadBody
      <4>3. InBody(h2)'
        BY <3>1, <4>2 DEF InBody
      <4> QED BY <4>3 DEF Phase
    <3> QED BY <3>2, <3>3
  <2> QED BY <1>3, <2>2, <2>3, <2>6, <2>8 DEF GoesOn, SendsRight
<1> QED BY <1>4, <1>5

(* How far an address is from the next one to write.                       *)
LEMMA AheadOf ==
  ASSUME NEW a \in CpuAddr, NEW b \in CpuAddr
  PROVE  /\ (a - b) % RamBytes = IF a >= b THEN a - b ELSE a - b + RamBytes
         /\ (a - b) % RamBytes \in CpuAddr
<1>1. RamBytes \in Nat \ {0} /\ a \in 0 .. RamBytes - 1 /\ b \in 0 .. RamBytes - 1
  BY Sizes DEF CpuAddr
<1>2. CASE a >= b
  <2>1. a - b \in 0 .. RamBytes - 1
    BY <1>1, <1>2
  <2> QED BY <1>1, <1>2, <2>1, SmallMod DEF CpuAddr
<1>3. CASE ~(a >= b)
  <2>1. a - b + RamBytes \in 0 .. RamBytes - 1
    BY <1>1, <1>3
  <2>2. (a - b) % RamBytes = a - b + RamBytes
    BY <1>1, <1>3, <2>1
  <2> QED BY <1>3, <2>1, <2>2 DEF CpuAddr
<1> QED BY <1>2, <1>3

LEMMA NextAhead ==
  ASSUME NEW a \in CpuAddr, NEW b \in CpuAddr, a # b
  PROVE  /\ (b + 1) % RamBytes \in CpuAddr
         /\ (a - ((b + 1) % RamBytes)) % RamBytes = ((a - b) % RamBytes) - 1
         /\ (a - b) % RamBytes # 0
<1>1. RamBytes \in Nat \ {0} /\ a \in 0 .. RamBytes - 1 /\ b \in 0 .. RamBytes - 1
  BY Sizes DEF CpuAddr
<1>2. (b + 1) % RamBytes \in CpuAddr
      /\ (b + 1) % RamBytes = IF b + 1 = RamBytes THEN 0 ELSE b + 1
  <2>1. CASE b + 1 = RamBytes
    BY <1>1, <2>1 DEF CpuAddr
  <2>2. CASE b + 1 # RamBytes
    <3>1. b + 1 \in 0 .. RamBytes - 1
      BY <1>1, <2>2
    <3> QED BY <1>1, <2>2, <3>1, SmallMod DEF CpuAddr
  <2> QED BY <2>1, <2>2
<1> DEFINE c == (b + 1) % RamBytes
<1>3. c \in CpuAddr /\ c = IF b + 1 = RamBytes THEN 0 ELSE b + 1
  BY <1>2
<1> HIDE DEF c
<1>4. (a - c) % RamBytes = IF a >= c THEN a - c ELSE a - c + RamBytes
  BY <1>3, AheadOf
<1>5. (a - b) % RamBytes = IF a >= b THEN a - b ELSE a - b + RamBytes
  BY AheadOf
<1>6. (a - c) % RamBytes = ((a - b) % RamBytes) - 1 /\ (a - b) % RamBytes # 0
  BY <1>1, <1>3, <1>4, <1>5
<1> QED BY <1>2, <1>6 DEF c

LEMMA MemWriteStep ==
  ASSUME NEW h \in View, HciTypeOK, Phase(h), DataClock, Fits(h), MemWrite
  PROVE  GoesOn(h)
<1>1. state = "mem_wr_1" /\ Got /\ state \in Waiting /\ WriteBody(h) /\ ~h.running /\ (h.badOp <=> err)
  BY PhaseOfState DEF MemWrite, Waiting, BetweenPackets
<1>2. /\ h.rest # <<>> /\ rdData = Head(h.rest) /\ executeCnt = Len(h.rest)
      /\ h.left = <<>> /\ h.more = <<>> /\ h.rest \in Seq(Byte)
      /\ h.image \in [CpuAddr -> Byte]
  BY <1>1 DEF Fits, WriteBody, View
<1>3. \A a \in CpuAddr :
        h.image[a] = IF Ahead(a) < executeCnt THEN h.rest[Ahead(a) + 1] ELSE ram[a]
  BY <1>1 DEF WriteBody
<1>4. /\ Tail(h.rest) \in Seq(Byte) /\ Len(Tail(h.rest)) = executeCnt - 1 /\ executeCnt # 0
      /\ Head(h.rest) = h.rest[1]
      /\ \A i \in 1 .. executeCnt - 1 : Tail(h.rest)[i] = h.rest[i + 1]
  BY <1>2, HeadTailProperties, EmptySeq
<1>5. Tail(h.rest) = <<>> <=> executeCnt - 1 = 0
  BY <1>4, EmptySeq
<1>6. executeCnt \in Nat \ {0} /\ Wrap17(executeCnt - 1) = executeCnt - 1 /\ executeCnt \in CpuAddr
  BY <1>4, Counted
<1>7. /\ ram' = [ram EXCEPT ![addr] = rdData] /\ (err' <=> err) /\ ~wrEn' /\ ~inWrEn'
      /\ addr' = Wrap17(addr + 1) /\ executeCnt' = executeCnt - 1
      /\ state' = IF executeCnt' = 0 THEN "decode" ELSE "mem_wr_1"
  BY <1>1, <1>6 DEF DataClock, MemWrite, NoInput, Silent, CountDown
<1>8. addr \in CpuAddr /\ ram \in [CpuAddr -> Byte] /\ rdData \in Byte
  <2>1. Head(h.rest) \in Byte
    BY <1>2, HeadTailProperties
  <2> QED BY <1>2, <2>1 DEF HciTypeOK, RamTypeOK
<1>9. ASSUME NEW a \in CpuAddr
      PROVE  h.image[a] = IF Ahead(a)' < executeCnt' THEN Tail(h.rest)[Ahead(a)' + 1] ELSE ram'[a]
  <2>1. CASE a = addr
    <3>1. ram'[a] = rdData
      BY <1>7, <1>8, <2>1
    <3>2. Ahead(a) = 0
      <4>1. Ahead(a) = IF a >= addr THEN a - addr ELSE a - addr + RamBytes
        BY <1>8, AheadOf DEF Ahead
      <4> QED BY <1>8, <2>1, <4>1 DEF CpuAddr
    <3>3. h.image[a] = rdData
      BY <1>2, <1>3, <1>4, <1>6, <3>2
    <3>4. ~(Ahead(a)' < executeCnt')
      <4> DEFINE c == Wrap17(addr + 1)
      <4>1. RamBytes \in Nat \ {0} /\ a \in 0 .. RamBytes - 1
            /\ executeCnt \in 1 .. RamBytes - 1
        BY <1>6, Sizes DEF CpuAddr
      <4>2. c \in CpuAddr /\ c = IF a + 1 = RamBytes THEN 0 ELSE a + 1
        <5>1. CASE a + 1 = RamBytes
          BY <2>1, <4>1, <5>1 DEF Wrap17, CpuAddr
        <5>2. CASE a + 1 # RamBytes
          <6>1. a + 1 \in 0 .. RamBytes - 1
            BY <4>1, <5>2
          <6> QED BY <2>1, <4>1, <5>2, <6>1, SmallMod DEF Wrap17, CpuAddr
        <5> QED BY <5>1, <5>2
      <4> HIDE DEF c
      <4>3. (a - c) % RamBytes = IF a >= c THEN a - c ELSE a - c + RamBytes
        BY <4>2, AheadOf
      <4>4. (a - c) % RamBytes = RamBytes - 1
        BY <4>1, <4>2, <4>3
      <4>5. Ahead(a)' = RamBytes - 1
        BY <1>7, <4>4 DEF Ahead, c
      <4> QED BY <1>7, <4>1, <4>5
    <3> QED BY <3>1, <3>3, <3>4
  <2>2. CASE a # addr
    <3>1. ram'[a] = ram[a]
      BY <1>7, <1>8, <2>2
    <3>2. Ahead(a)' = Ahead(a) - 1 /\ Ahead(a) \in Nat \ {0}
      <4>1. Ahead(a)' = (a - ((addr + 1) % RamBytes)) % RamBytes
        BY <1>7 DEF Ahead, Wrap17
      <4>2. Ahead(a) \in CpuAddr /\ Ahead(a) # 0
        BY <1>8, <2>2, AheadOf, NextAhead DEF Ahead
      <4> QED BY <1>8, <2>2, <4>1, <4>2, NextAhead DEF Ahead, CpuAddr
    <3>3. CASE Ahead(a) < executeCnt
      <4>1. Ahead(a)' < executeCnt' /\ Ahead(a)' + 1 \in 1 .. executeCnt - 1
            /\ Ahead(a)' + 1 + 1 = Ahead(a) + 1
        BY <1>6, <1>7, <3>2, <3>3
      <4> QED BY <1>3, <1>4, <3>3, <4>1
    <3>4. CASE ~(Ahead(a) < executeCnt)
      <4>1. ~(Ahead(a)' < executeCnt')
        BY <1>6, <1>7, <3>2, <3>4
      <4> QED BY <1>3, <3>1, <3>4, <4>1
    <3> QED BY <3>3, <3>4
  <2> QED BY <2>1, <2>2
<1>10. ASSUME NEW h2 \in View, Moves(h, h2) PROVE Phase(h2)'
  <2>1. h2.rest = Tail(h.rest) /\ h2.left = <<>> /\ h2.more = <<>> /\ h2.image = h.image
        /\ ~h2.running /\ (h2.badOp <=> err')
    BY <1>1, <1>2, <1>7, <1>10 DEF Moves
  <2>2. CASE executeCnt' = 0
    <3>1. ASSUME NEW a \in CpuAddr PROVE h.image[a] = ram'[a]
      <4>1. Ahead(a)' \in CpuAddr
        <5>1. addr' \in CpuAddr
          <6>1. RamBytes \in Nat \ {0} /\ addr \in Nat
            BY <1>8, Sizes DEF CpuAddr
          <6> QED BY <1>7, <6>1 DEF Wrap17, CpuAddr
        <5> QED BY <5>1, AheadOf DEF Ahead
      <4>2. ~(Ahead(a)' < 0)
        BY <4>1 DEF CpuAddr
      <4> QED BY <1>9, <2>2, <4>2
    <3>2. ram' \in [CpuAddr -> Byte]
      BY <1>7, <1>8
    <3>3. h.image = ram'
      BY <1>2, <3>1, <3>2
    <3>4. state' = "decode" /\ h2.rest = <<>>
      BY <1>5, <1>7, <2>1, <2>2
    <3>5. Idle(h2)'
      BY <2>1, <3>3, <3>4 DEF Idle, BetweenPackets
    <3> QED BY <3>5 DEF Phase
  <2>3. CASE executeCnt' # 0
    <3>1. state' = "mem_wr_1" /\ executeCnt' = Len(h2.rest) /\ h2.rest # <<>>
      BY <1>4, <1>5, <1>7, <2>1, <2>3
    <3>2. \A a \in CpuAddr :
            h2.image[a] = IF Ahead(a)' < executeCnt' THEN h2.rest[Ahead(a)' + 1] ELSE ram'[a]
      BY <1>9, <2>1
    <3>3. WriteBody(h2)'
      BY <2>1, <3>1, <3>2 DEF WriteBody
    <3>4. InBody(h2)'
      BY <2>1, <3>3 DEF InBody
    <3> QED BY <3>4 DEF Phase
  <2> QED BY <2>2, <2>3
<1> QED BY <1>7, <1>10 DEF GoesOn, SendsRight

(* All the steps of the packet machine.                                    *)
LEMMA PacketStep ==
  ASSUME NEW h \in View, HciTypeOK, Phase(h), DataClock, Fits(h), NEW io, Packets(io)
  PROVE  GoesOn(h)
<1>1. CASE NoByte
  BY <1>1, NoByteStep
<1>2. CASE Disabled
  BY <1>2, DisabledStep
<1>3. CASE DecodeOpcode
  BY <1>3, DecodeStep
<1>4. CASE ShortHeader("echo_0", "echo_1")
  <2> DEFINE op == "echo"
  <2>1. ShortHeader(IF op = "echo" THEN "echo_0" ELSE "io_in_0",
                    IF op = "echo" THEN "echo_1" ELSE "io_in_1")
    BY <1>4
  <2>2. op \in {"echo", "io_in"}
    OBVIOUS
  <2> HIDE DEF op
  <2> QED BY <2>1, <2>2, ShortStep
<1>5. CASE ShortHeader("io_in_0", "io_in_1")
  <2> DEFINE op == "io_in"
  <2>1. ShortHeader(IF op = "echo" THEN "echo_0" ELSE "io_in_0",
                    IF op = "echo" THEN "echo_1" ELSE "io_in_1")
    BY <1>5
  <2>2. op \in {"echo", "io_in"}
    OBVIOUS
  <2> HIDE DEF op
  <2> QED BY <2>1, <2>2, ShortStep
<1>6. CASE MemHeader("mem_rd_0", 2, "mem_rd_1")
  <2> DEFINE op == "mem_rd"
  <2>1. MemHeader(IF op = "mem_rd" THEN "mem_rd_0" ELSE "mem_wr_0", IF op = "mem_rd" THEN 2 ELSE 1,
                  IF op = "mem_rd" THEN "mem_rd_1" ELSE "mem_wr_1")
    BY <1>6
  <2>2. op \in {"mem_rd", "mem_wr"}
    OBVIOUS
  <2> HIDE DEF op
  <2> QED BY <2>1, <2>2, MemHeaderStep
<1>7. CASE MemHeader("mem_wr_0", 1, "mem_wr_1")
  <2> DEFINE op == "mem_wr"
  <2>1. MemHeader(IF op = "mem_rd" THEN "mem_rd_0" ELSE "mem_wr_0", IF op = "mem_rd" THEN 2 ELSE 1,
                  IF op = "mem_rd" THEN "mem_rd_1" ELSE "mem_wr_1")
    BY <1>7
  <2>2. op \in {"mem_rd", "mem_wr"}
    OBVIOUS
  <2> HIDE DEF op
  <2> QED BY <2>1, <2>2, MemHeaderStep
<1>8. CASE Echo \/ InputByte
  BY <1>8, EchoStep, InputStep
<1>9. CASE QueryErrCode \/ RegReadStart \/ RegRead
  BY <1>9, QueryErrStep, RegStartStep, RegReadStep
<1>10. CASE MemReadWait \/ MemRead \/ MemWrite
  BY <1>10, MemReadWaitStep, MemReadStep, MemWriteStep
<1> QED BY <1>1, <1>2, <1>3, <1>4, <1>5, <1>6, <1>7, <1>8, <1>9, <1>10 DEF Packets

(* The states of a reply that the machine sends without a look at the      *)
(* transmit fifo, or with one that comes too early.                        *)
Blind == {"echo_1", "reg_rd_0", "reg_rd_1", "query_err"}

(* When it writes to the transmit fifo, and when it begins such a reply.   *)
LEMMA WritesWhen ==
  ASSUME NEW h \in View, HciTypeOK, Phase(h), Fits(h), NEW io, Packets(io)
  PROVE  /\ wrEn' => \/ Unanswered \/ state \in Blind
                     \/ ~wrEn /\ ~tx.full
         /\ state' = "disabled" => ~inWrEn' /\ (wrEn' => Unanswered)
         /\ state' \in Blind /\ state \notin Blind =>
              ~wrEn' /\ Unanswered /\ Len(h.left) <= TxSlots
<1>1. CASE NoByte
  BY <1>1 DEF NoByte, Silent, NoInput, regs
<1>2. CASE Disabled
  <2>1. state = "disabled" /\ Got /\ BetweenPackets /\ h.rest # <<>>
    BY <1>2 DEF Disabled, BetweenPackets, Fits
  <2>2. Unanswered
    BY <2>1, PhaseOfState DEF Idle, Sent, Asked
  <2>3. state' \in {"decode", "disabled"} /\ ~inWrEn'
    BY <1>2 DEF Disabled, NoInput
  <2> QED BY <2>2, <2>3 DEF Blind
<1>3. CASE DecodeOpcode
  <2>1. state = "decode" /\ Got /\ BetweenPackets /\ h.rest # <<>> /\ rdData = Head(h.rest)
    BY <1>3 DEF DecodeOpcode, BetweenPackets, Fits
  <2>2. PICK p \in HostPackets : Sent(h, p)
    BY <2>1, PhaseOfState DEF Idle
  <2>3. Unanswered /\ h.left = ReplyTo(h, p) /\ WellFormed(p) /\ rdData = Opcode[p.op]
    BY <2>1, <2>2, HostAssumption, PacketBytes DEF Sent, Asked
  <2>4. /\ state' = IF rdData \in DOMAIN Served THEN Served[rdData] ELSE "decode"
        /\ ~inWrEn' /\ (rdData # 7 => ~wrEn')
    BY <1>3 DEF DecodeOpcode, NoInput, Silent, Opcode
  <2>5. state' \in Blind => p.op \in {"reg_rd", "query_err"} /\ rdData # 7
    <3>1. \/ p.op = "echo" /\ rdData = 0
          \/ p.op = "reg_rd" /\ rdData = 1
          \/ p.op = "unknown" /\ rdData = 2
          \/ p.op = "brk" /\ rdData = 3
          \/ p.op = "run" /\ rdData = 4
          \/ p.op = "io_in" /\ rdData = 5
          \/ p.op = "query_brk" /\ rdData = 7
          \/ p.op = "query_err" /\ rdData = 8
          \/ p.op = "mem_rd" /\ rdData = 9
          \/ p.op = "mem_wr" /\ rdData = 10
      BY <2>3, OpcodeOf DEF Opcode
    <3> QED BY <2>4, <3>1, ServedStates DEF Blind
  <2>6. p.op \in {"reg_rd", "query_err"} => Len(h.left) <= TxSlots
    <3>1. CASE p.op = "reg_rd"
      <4>1. h.left = [i \in 1 .. 4 |-> DbgReg[i - 1]]
        BY <2>3, <3>1 DEF ReplyTo
      <4>2. Len(h.left) = 4
        BY <4>1
      <4> QED BY <4>2, HostAssumption, HciAssumption
    <3>2. CASE p.op = "query_err"
      <4>1. h.left = <<IF h.badOp THEN 2 ELSE 0>>
        BY <2>3, <3>2 DEF ReplyTo
      <4>2. Len(h.left) = 1
        BY <4>1
      <4> QED BY <4>2, HostAssumption, HciAssumption
    <3> QED BY <3>1, <3>2
  <2> QED BY <2>3, <2>4, <2>5, <2>6
<1>4. CASE ShortHeader("echo_0", "echo_1") \/ ShortHeader("io_in_0", "io_in_1")
  <2>1. ~wrEn' /\ ~inWrEn' /\ state \in {"echo_0", "io_in_0"}
        /\ (state' = state \/ (state = "echo_0" /\ state' = "echo_1")
             \/ state' = "io_in_1" \/ state' = "decode")
    BY <1>4 DEF ShortHeader, Silent, NoInput, CountByte
  <2>2. PICK p \in HostPackets : InHeader(h, p)
    BY <2>1, PhaseOfState DEF Headers
  <2>3. Unanswered /\ h.left = ReplyTo(h, p) /\ WellFormed(p) /\ (state = "echo_0" => p.op = "echo")
    BY <2>1, <2>2, HostAssumption DEF InHeader, Asked, ShortAsked, MemAsked
  <2>4. p.op = "echo" => Len(h.left) <= TxSlots
    BY <2>3 DEF ReplyTo, WellFormed
  <2> QED BY <2>1, <2>3, <2>4 DEF Blind
<1>5. CASE MemHeader("mem_rd_0", 2, "mem_rd_1") \/ MemHeader("mem_wr_0", 1, "mem_wr_1")
  <2>1. ~wrEn' /\ ~inWrEn' /\ state \in Headers
        /\ (state' = state \/ state' \in {"mem_rd_1", "mem_wr_1", "decode"})
    BY <1>5 DEF MemHeader, Silent, NoInput, CountByte, Headers
  <2> QED BY <2>1 DEF Blind, Headers
<1>6. CASE Echo
  BY <1>6 DEF Echo, CountDown, NoInput, Blind
<1>7. CASE InputByte
  BY <1>7 DEF InputByte, CountDown, Silent, Blind
<1>8. CASE QueryErrCode \/ RegReadStart \/ RegRead
  BY <1>8 DEF QueryErrCode, RegReadStart, RegRead, CountDown, Blind
<1>9. CASE MemReadWait
  BY <1>9 DEF MemReadWait, Silent, Blind
<1>10. CASE MemRead
  <2>1. ReadBody(h) /\ state = "mem_rd_1" /\ executeCnt % 2 = 1
    BY <1>10, PhaseOfState DEF MemRead
  <2>2. ~wrEn
    BY <2>1 DEF ReadBody
  <2>3. state' \in {"mem_rd_1", "decode"} /\ (wrEn' => ~tx.full)
    BY <1>10, <2>1 DEF MemRead, MayReadMem, CountDown, Silent
  <2> QED BY <2>2, <2>3 DEF Blind
<1>11. CASE MemWrite
  BY <1>11 DEF MemWrite, CountDown, Silent, Blind
<1> QED BY <1>1, <1>2, <1>3, <1>4, <1>5, <1>6, <1>7, <1>8, <1>9, <1>10, <1>11 DEF Packets

-----------------------------------------------------------------------------
(* One clock of the three fifos.                                           *)
LEMMA PortIdle ==
  ASSUME PortInv, IoEdge(Io)
  PROVE  state = "disabled" /\ Io = cpu /\ Quiet /\ running /\ ~qIoEn /\ Io.en
BY DEF PortInv, IoEdge, Io, Active, NoIo

LEMMA RamAddress ==
  ASSUME NEW a \in CpuAddr
  PROVE  RamIndex(a) = a /\ ~IoEnabled(a)
BY SizeAssumption DEF CpuAddr, RamIndex, IoEnabled

LEMMA LineNext ==
  ASSUME NEW items \in Seq(Byte), NEW empty \in BOOLEAN, NEW n \in {0, 1}, Len(items) = n,
         empty <=> items = <<>>, items # <<>> => gap' >= 1,
         rx' = [items |-> items, empty |-> empty, full |-> FALSE]
  PROVE  LineInv' /\ (RxFifo!FifoTypeOK)'
<1>1. rx'.items = items /\ rx'.empty = empty /\ rx'.full = FALSE
  OBVIOUS
<1>2. n <= 1 /\ n <= RxSlots
  BY HostAssumption, HciAssumption
<1>3. LineInv'
  BY <1>1, <1>2 DEF LineInv
<1>4. (RxFifo!FifoTypeOK)'
  BY <1>1, <1>2 DEF RxFifo!FifoTypeOK
<1> QED BY <1>3, <1>4

(* The number of values and the flags of a fifo over a clock.              *)
LEMMA QueueFlags ==
  ASSUME NEW held \in Nat, NEW cap \in Nat, cap >= 4, held <= cap,
         NEW full \in BOOLEAN, NEW empty \in BOOLEAN, NEW wr \in BOOLEAN, NEW rd \in BOOLEAN,
         held = cap => full, full => held >= cap - 1, held = 0 => empty,
         wr => ~full, rd => held >= 1,
         NEW add, add = IF wr THEN 1 ELSE 0,
         NEW next, next = held + add - (IF rd THEN 1 ELSE 0),
         NEW full2 \in BOOLEAN, full2 <=> (full /\ ~rd) \/ (held = cap - 1 /\ wr)
  PROVE  /\ next \in 0 .. cap /\ (next = cap => full2) /\ (full2 => next >= cap - 1)
         /\ next = 0 => (empty /\ ~wr) \/ (held = 1 /\ rd)
         /\ held = 0 => ~full /\ (~wr => ~full2)
<1>1. CASE wr /\ rd
  BY <1>1
<1>2. CASE wr /\ ~rd
  BY <1>2
<1>3. CASE ~wr /\ rd
  BY <1>3
<1>4. CASE ~wr /\ ~rd
  BY <1>4
<1> QED BY <1>1, <1>2, <1>3, <1>4

(* The receive fifo: a byte that is there is taken, and none comes then.   *)
LEMMA LineClock ==
  ASSUME TypeOK, LineInv, PortInv, Got => state \in Waiting,
         NEW arrives \in BOOLEAN, NEW popped \in BOOLEAN, Clock(arrives, popped)
  PROVE  /\ LineInv' /\ (RxFifo!FifoTypeOK)' /\ out' \in Seq(Byte) /\ gap' \in 0 .. Gap
         /\ Rest \in Seq(Byte)
         /\ Got => /\ rx.items = <<rdData>> /\ rdData \in Byte /\ Rest = <<rdData>> \o out
                   /\ rx'.items = <<>> /\ out' = out /\ Rest' = out /\ ~IoEdge(Io)
         /\ ~Got => rx.items = <<>> /\ Rest = out /\ Rest' = Rest
         /\ Quiet => Quiet'
<1>1. /\ rx.items \in Seq(Byte) /\ Len(rx.items) \in 0 .. 1 /\ ~rx.full
      /\ (rx.empty <=> rx.items = <<>>) /\ rx.empty \in BOOLEAN /\ out \in Seq(Byte)
      /\ gap \in 0 .. Gap /\ (rx.items # <<>> => gap >= 1)
      /\ Gap \in Nat \ {0} /\ RxSlots \in Nat /\ RxSlots >= 2
  <2>1. rx.items \in Seq(Byte) /\ rx.empty \in BOOLEAN /\ out \in Seq(Byte) /\ gap \in 0 .. Gap
    BY DEF TypeOK, HciTypeOK, RxFifo!FifoTypeOK
  <2>2. Len(rx.items) \in Nat
    BY <2>1, LenProperties
  <2>3. Len(rx.items) <= 1 /\ ~rx.full /\ (rx.empty <=> rx.items = <<>>) /\ (rx.items # <<>> => gap >= 1)
    BY DEF LineInv
  <2>4. Len(rx.items) \in 0 .. 1
    <3> DEFINE n == Len(rx.items)
    <3>1. n \in Nat /\ n <= 1
      BY <2>2, <2>3
    <3> HIDE DEF n
    <3>2. n \in 0 .. 1
      BY <3>1
    <3> QED BY <3>2 DEF n
  <2>5. Gap \in Nat \ {0} /\ RxSlots \in Nat /\ RxSlots >= 2
    BY HostAssumption, HciAssumption
  <2> QED BY <2>1, <2>3, <2>4, <2>5
<1>2. /\ arrives => out # <<>> /\ gap = 0
      /\ rx' = RxFifo!Clocked(rd_en(Io), arrives, IF arrives THEN Head(out) ELSE 0)
      /\ out' = IF arrives THEN Tail(out) ELSE out
      /\ gap' = IF arrives THEN Gap ELSE IF gap > 0 THEN gap - 1 ELSE 0
  BY DEF Clock, HciClock
<1>3. gap' \in 0 .. Gap
  BY <1>1, <1>2
<1>4. CASE Got
  <2>1. rx.items # <<>> /\ ~arrives /\ out' = out /\ Len(rx.items) = 1
    BY <1>1, <1>2, <1>4, EmptySeq DEF Got
  <2>2. rx.items = <<rdData>> /\ rdData \in Byte /\ Tail(rx.items) = <<>>
    <3>1. rdData \in Byte /\ Tail(rx.items) \in Seq(Byte) /\ Len(Tail(rx.items)) = 0
          /\ rx.items = <<rdData>> \o Tail(rx.items)
      BY <1>1, <2>1, HeadTailProperties, HeadAndTail DEF rdData
    <3>2. Tail(rx.items) = <<>>
      BY <3>1, EmptySeq
    <3> QED BY <3>1, <3>2, OneByte, ConcatEmptySeq
  <2>3. ~IoEdge(Io)
    BY <2>1, PortIdle DEF Quiet
  <2>4. rd_en(Io)
    BY <1>4, <2>3 DEF rd_en
  <2>5. rx' = [items |-> <<>>, empty |-> TRUE, full |-> FALSE]
    <3>1. rx' = [items |-> Tail(rx.items), empty |-> (rx.empty /\ ~(arrives /\ ~rx.full)) \/ (Len(rx.items) = 1 /\ (rd_en(Io) /\ ~rx.empty)),
                 full |-> (rx.full /\ ~(rd_en(Io) /\ ~rx.empty)) \/ (Len(rx.items) = RxSlots - 1 /\ (arrives /\ ~rx.full))]
      BY <1>2, <1>4, <2>1, <2>4 DEF RxFifo!Clocked, Got
    <3>2. (rx.empty /\ ~(arrives /\ ~rx.full)) \/ (Len(rx.items) = 1 /\ (rd_en(Io) /\ ~rx.empty))
      BY <1>4, <2>1, <2>4 DEF Got
    <3>3. ~((rx.full /\ ~(rd_en(Io) /\ ~rx.empty)) \/ (Len(rx.items) = RxSlots - 1 /\ (arrives /\ ~rx.full)))
      BY <1>1, <2>1
    <3> QED BY <2>2, <3>1, <3>2, <3>3
  <2>6. rx'.items = <<>> /\ rx'.empty = TRUE /\ rx'.full = FALSE
    BY <2>5
  <2>7. Rest = <<rdData>> \o out /\ Rest' = out /\ Rest \in Seq(Byte)
    BY <1>1, <2>1, <2>2, <2>6, OneByte, ConcatEmptySeq, ConcatProperties DEF Rest
  <2>8. LineInv' /\ (RxFifo!FifoTypeOK)'
    <3>1. <<>> \in Seq(Byte) /\ Len(<<>>) = 0
      BY EmptySeq
    <3> QED BY <2>5, <3>1, LineNext
  <2> QED BY <1>1, <1>3, <1>4, <2>1, <2>2, <2>3, <2>6, <2>7, <2>8 DEF Quiet
<1>5. CASE ~Got
  <2>1. rx.items = <<>> /\ rx.empty = TRUE /\ Len(rx.items) = 0
    BY <1>1, <1>5, EmptySeq DEF Got
  <2>2. Rest = out
    BY <1>1, <2>1, ConcatEmptySeq DEF Rest
  <2>3. CASE arrives
    <3>1. Head(out) \in Byte /\ Tail(out) \in Seq(Byte) /\ out = <<Head(out)>> \o Tail(out)
      BY <1>1, <1>2, <2>3, HeadTailProperties, HeadAndTail
    <3>2. Append(rx.items, Head(out)) = <<Head(out)>>
      BY <2>1
    <3>3. rx' = [items |-> <<Head(out)>>, empty |-> FALSE, full |-> FALSE]
      <4>1. rx' = [items |-> Append(rx.items, Head(out)),
                   empty |-> (rx.empty /\ ~(arrives /\ ~rx.full)) \/ (Len(rx.items) = 1 /\ (rd_en(Io) /\ ~rx.empty)),
                   full |-> (rx.full /\ ~(rd_en(Io) /\ ~rx.empty)) \/ (Len(rx.items) = RxSlots - 1 /\ (arrives /\ ~rx.full))]
        BY <1>1, <1>2, <2>1, <2>3 DEF RxFifo!Clocked
      <4>2. ~((rx.empty /\ ~(arrives /\ ~rx.full)) \/ (Len(rx.items) = 1 /\ (rd_en(Io) /\ ~rx.empty)))
        BY <1>1, <2>1, <2>3
      <4>3. ~((rx.full /\ ~(rd_en(Io) /\ ~rx.empty)) \/ (Len(rx.items) = RxSlots - 1 /\ (arrives /\ ~rx.full)))
        BY <1>1, <2>1
      <4> QED BY <3>2, <4>1, <4>2, <4>3
    <3>4. rx'.items = <<Head(out)>>
      BY <3>3
    <3>5. rx'.items \in Seq(Byte) /\ Len(rx'.items) = 1 /\ rx'.items # <<>>
      BY <3>1, <3>4, OneByte
    <3>6. gap' = Gap /\ out' = Tail(out)
      BY <1>2, <2>3
    <3>7. LineInv' /\ (RxFifo!FifoTypeOK)'
      <4>1. gap' >= 1
        BY <1>1, <3>6
      <4>2. <<Head(out)>> \in Seq(Byte) /\ Len(<<Head(out)>>) = 1 /\ <<Head(out)>> # <<>>
        BY <3>1, OneByte
      <4> QED BY <3>3, <4>1, <4>2, LineNext
    <3>8. Rest' = out
      BY <3>1, <3>4, <3>6 DEF Rest
    <3> QED BY <1>1, <1>2, <1>3, <1>5, <2>1, <2>2, <2>3, <3>1, <3>6, <3>7, <3>8 DEF Quiet
  <2>4. CASE ~arrives
    <3>1. rx' = [items |-> <<>>, empty |-> TRUE, full |-> FALSE]
      BY <1>1, <1>2, <2>1, <2>4 DEF RxFifo!Clocked
    <3>2. rx'.items = <<>> /\ out' = out
      BY <1>2, <2>4, <3>1
    <3>3. LineInv' /\ (RxFifo!FifoTypeOK)'
      <4>1. <<>> \in Seq(Byte) /\ Len(<<>>) = 0
        BY EmptySeq
      <4> QED BY <3>1, <4>1, LineNext
    <3>4. Rest' = out
      BY <1>1, <3>2, ConcatEmptySeq DEF Rest
    <3> QED BY <1>1, <1>3, <1>5, <2>1, <2>2, <3>2, <3>3, <3>4 DEF Quiet
  <2> QED BY <2>3, <2>4
<1> QED BY <1>4, <1>5

(* The transmit fifo: what was written is at its end, what is sent on has  *)
(* left its front.                                                         *)
LEMMA ReplyClock ==
  ASSUME TypeOK, ReplyInv, NEW arrives \in BOOLEAN, NEW popped \in BOOLEAN, Clock(arrives, popped)
  PROVE  /\ Pending \in Seq(Byte) /\ Len(Pending) = (IF wrEn THEN 1 ELSE 0)
         /\ Left \in Seq(Byte) /\ Len(tx.items) \in Nat
         /\ popped => tx.items # <<>>
         /\ tx'.items \in Seq(Byte)
         /\ tx'.items = IF popped THEN Tail(tx.items \o Pending) ELSE tx.items \o Pending
         /\ Len(tx'.items) = Len(tx.items) + Len(Pending) - (IF popped THEN 1 ELSE 0)
         /\ (tx'.full <=> (tx.full /\ ~popped) \/ (Len(tx.items) = TxSlots - 1 /\ wrEn))
         /\ (TxFifo!FifoTypeOK)'
         /\ Len(tx'.items) = TxSlots => tx'.full
         /\ tx'.items = <<>> => tx'.empty
         /\ tx'.full => Len(tx'.items) >= TxSlots - 1
         /\ owed' = (tx'.items \o Left) \o (IF Prints THEN <<txData'>> ELSE <<>>)
         /\ Unanswered => tx'.items = <<>> /\ ~tx.full /\ ~tx'.full
<1>1. /\ tx.items \in Seq(Byte) /\ Len(tx.items) \in 0 .. TxSlots
      /\ tx.empty \in BOOLEAN /\ tx.full \in BOOLEAN /\ wrEn \in BOOLEAN /\ txData \in Byte
      /\ owed \in Seq(Byte) /\ TxSlots \in Nat /\ TxSlots >= 4
  <2>1. Len(tx.items) \in Nat
    BY LenProperties DEF TypeOK, HciTypeOK, TxFifo!FifoTypeOK
  <2> QED BY <2>1, HostAssumption, HciAssumption
             DEF TypeOK, HciTypeOK, TxFifo!FifoTypeOK
<1>2. Pending \in Seq(Byte) /\ Len(Pending) = (IF wrEn THEN 1 ELSE 0)
  BY <1>1, OneByte, EmptySeq DEF Pending
<1>3. tx.items \o Pending \in Seq(Byte) /\ Len(tx.items \o Pending) = Len(tx.items) + Len(Pending)
  BY <1>1, <1>2, AtFront
<1>4. owed = (tx.items \o Pending) \o Left /\ Left \in Seq(Byte)
  <2>1. owed = (tx.items \o Pending) \o Left
    BY DEF ReplyInv
  <2>2. Left \in Seq(Byte)
    BY <1>1, <1>3, SubSeqProperties, LenProperties DEF Left
  <2> QED BY <2>1, <2>2
<1>5. (popped => ~tx.empty) /\ tx' = TxFifo!Clocked(popped, wrEn, txData)
  BY DEF Clock, HciClock
<1>6. popped => tx.items # <<>> /\ Len(tx.items) >= 1
  BY <1>1, <1>5, EmptySeq DEF ReplyInv
<1>7. wrEn => ~tx.full /\ Len(tx.items) < TxSlots
  BY <1>1 DEF ReplyInv
<1> DEFINE rest == IF popped THEN Tail(tx.items) ELSE tx.items
<1>8. /\ tx'.items = IF wrEn THEN Append(rest, txData) ELSE rest
      /\ tx'.empty <=> ((tx.empty /\ ~wrEn) \/ (Len(tx.items) = 1 /\ popped))
      /\ tx'.full <=> ((tx.full /\ ~popped) \/ (Len(tx.items) = TxSlots - 1 /\ wrEn))
  <2>1. (popped /\ ~tx.empty) = popped /\ (wrEn /\ ~tx.full) = wrEn
    BY <1>1, <1>5, <1>7
  <2>2. tx' = [items |-> IF wrEn THEN Append(rest, txData) ELSE rest,
               empty |-> (tx.empty /\ ~wrEn) \/ (Len(tx.items) = 1 /\ popped),
               full  |-> (tx.full /\ ~popped) \/ (Len(tx.items) = TxSlots - 1 /\ wrEn)]
    BY <1>5, <2>1 DEF TxFifo!Clocked
  <2> HIDE DEF rest
  <2> QED BY <2>2
<1>20. tx'.full \in BOOLEAN /\ tx'.empty \in BOOLEAN
  BY <1>5 DEF TxFifo!Clocked
<1>9. rest \in Seq(Byte) /\ Len(rest) = Len(tx.items) - (IF popped THEN 1 ELSE 0)
  BY <1>1, <1>6, HeadTailProperties
<1>10. tx'.items = rest \o Pending
  BY <1>8, <1>9, <1>1, AppendIsConcat, ConcatEmptySeq DEF Pending
<1>11. /\ tx'.items = (IF popped THEN Tail(tx.items \o Pending) ELSE tx.items \o Pending)
       /\ tx'.items \in Seq(Byte)
       /\ Len(tx'.items) = Len(tx.items) + Len(Pending) - (IF popped THEN 1 ELSE 0)
  <2>1. popped => Tail(tx.items \o Pending) = Tail(tx.items) \o Pending
    BY <1>1, <1>2, <1>6, HeadOfConcat
  <2>2. tx'.items \in Seq(Byte) /\ Len(tx'.items) = Len(rest) + Len(Pending)
    BY <1>2, <1>9, <1>10, AtFront
  <2>3. tx'.items = (IF popped THEN Tail(tx.items \o Pending) ELSE tx.items \o Pending)
    BY <1>10, <2>1
  <2> HIDE DEF rest
  <2>4. Len(tx'.items) = Len(tx.items) + Len(Pending) - (IF popped THEN 1 ELSE 0)
    BY <1>1, <1>2, <1>9, <2>2
  <2> QED BY <2>2, <2>3, <2>4
<1> HIDE DEF rest
<1> DEFINE held == Len(tx.items)
           add == Len(Pending)
           next == Len(tx'.items)
<1>12. /\ held \in Nat /\ held <= TxSlots /\ (held = TxSlots => tx.full) /\ (tx.full => held >= TxSlots - 1)
       /\ (held = 0 => tx.empty) /\ (wrEn => ~tx.full) /\ (popped => held >= 1)
       /\ add = (IF wrEn THEN 1 ELSE 0) /\ next = held + add - (IF popped THEN 1 ELSE 0)
       /\ (tx'.full <=> (tx.full /\ ~popped) \/ (held = TxSlots - 1 /\ wrEn))
       /\ (tx'.empty <=> ((tx.empty /\ ~wrEn) \/ (held = 1 /\ popped)))
       /\ (tx'.items = <<>> => next = 0) /\ (tx.items = <<>> => held = 0)
  <2>1. held \in Nat /\ held <= TxSlots
    BY <1>1
  <2>2. (held = TxSlots => tx.full) /\ (tx.full => held >= TxSlots - 1) /\ (wrEn => ~tx.full)
    BY DEF ReplyInv
  <2>3. held = 0 => tx.empty
    BY <1>1, EmptySeq DEF ReplyInv
  <2>4. (tx'.items = <<>> => next = 0) /\ (tx.items = <<>> => held = 0)
    BY EmptySeq
  <2> QED BY <1>2, <1>6, <1>8, <1>11, <2>1, <2>2, <2>3, <2>4
<1> HIDE DEF held, add, next
<1>13. /\ next \in 0 .. TxSlots /\ (next = TxSlots => tx'.full) /\ (tx'.full => next >= TxSlots - 1)
       /\ (next = 0 => (tx.empty /\ ~wrEn) \/ (held = 1 /\ popped))
       /\ (held = 0 => ~tx.full /\ (~wrEn => ~tx'.full))
  BY <1>1, <1>12, <1>20, QueueFlags
<1>14. tx'.items = <<>> => tx'.empty
  BY <1>12, <1>13
<1>15. Len(tx'.items) <= TxSlots
  BY <1>1, <1>13 DEF next
<1>16. owed' = (tx'.items \o Left) \o (IF Prints THEN <<txData'>> ELSE <<>>)
  <2>1. owed' = (IF popped /\ owed # <<>> THEN Tail(owed) ELSE owed)
                \o (IF Prints THEN <<txData'>> ELSE <<>>)
    BY DEF Clock
  <2>2. CASE popped
    <3>1. tx.items \o Pending # <<>>
      BY <1>1, <1>2, <1>6, <2>2, HeadOfConcat
    <3>2. owed # <<>> /\ Tail(owed) = Tail(tx.items \o Pending) \o Left
      BY <1>3, <1>4, <3>1, HeadOfConcat
    <3> QED BY <1>11, <2>1, <2>2, <3>2
  <2>3. CASE ~popped
    BY <1>4, <1>11, <2>1, <2>3
  <2> QED BY <2>2, <2>3
<1>17. Unanswered => tx'.items = <<>> /\ ~tx.full /\ ~tx'.full
  <2> SUFFICES ASSUME Unanswered PROVE tx'.items = <<>> /\ ~tx.full /\ ~tx'.full
    OBVIOUS
  <2>1. tx.items = <<>> /\ ~wrEn /\ ~popped /\ Len(tx.items) = 0
    BY <1>6, EmptySeq DEF Unanswered
  <2>2. ~tx.full /\ ~tx'.full
    BY <1>12, <1>13, <2>1
  <2>3. tx'.items = <<>>
    BY <1>10, <2>1, ConcatEmptySeq, EmptySeq DEF Pending, rest
  <2> QED BY <2>2, <2>3
<1>18. (TxFifo!FifoTypeOK)'
  BY <1>11, <1>15, <1>20 DEF TxFifo!FifoTypeOK
<1>19. Len(tx.items) \in Nat /\ (tx'.full <=> (tx.full /\ ~popped) \/ (Len(tx.items) = TxSlots - 1 /\ wrEn))
  BY <1>1, <1>8
<1>21. (Len(tx'.items) = TxSlots => tx'.full) /\ (tx'.full => Len(tx'.items) >= TxSlots - 1)
  BY <1>13 DEF next
<1> QED BY <1>2, <1>4, <1>6, <1>19, <1>11, <1>14, <1>16, <1>17, <1>18, <1>21

(* The input buffer.  The CPU reads only while nothing is being written.   *)
LEMMA InputClock ==
  ASSUME TypeOK, InputInv, PortInv, IoEdge(Io) => More = <<>>,
         NEW arrives \in BOOLEAN, NEW popped \in BOOLEAN, Clock(arrives, popped)
  PROVE  /\ PendingIn \in Seq(Byte) /\ More \in Seq(Byte) /\ (More # <<>> => ~ioIn.full)
         /\ ioIn'.items \in Seq(Byte) /\ (InFifo!FifoTypeOK)'
         /\ inputs' \in Seq(Byte) /\ Len(inputs') <= InSlots
         /\ inputs' = ioIn'.items \o More
         /\ (ioIn'.empty <=> ioIn'.items = <<>>) /\ (ioIn'.full => Len(ioIn'.items) = InSlots)
<1>1. /\ ioIn.items \in Seq(Byte) /\ Len(ioIn.items) \in Nat /\ Len(ioIn.items) <= InSlots
      /\ ioIn.empty \in BOOLEAN /\ ioIn.full \in BOOLEAN /\ inWrEn \in BOOLEAN /\ inData \in Byte
      /\ inputs \in Seq(Byte) /\ InSlots \in Nat
  <2>1. ioIn.items \in Seq(Byte)
    BY DEF TypeOK, HciTypeOK, InFifo!FifoTypeOK
  <2> QED BY <2>1, LenProperties, HciAssumption DEF TypeOK, HciTypeOK, InFifo!FifoTypeOK
<1>2. PendingIn \in Seq(Byte) /\ Len(PendingIn) = (IF inWrEn THEN 1 ELSE 0)
  BY <1>1, OneByte, EmptySeq DEF PendingIn
<1>3. /\ ioIn.items \o PendingIn \in Seq(Byte)
      /\ Len(ioIn.items \o PendingIn) = Len(ioIn.items) + Len(PendingIn)
  BY <1>1, <1>2, AtFront
<1>4. inputs = (ioIn.items \o PendingIn) \o More /\ More \in Seq(Byte)
  <2>1. More \in Seq(Byte)
    BY <1>1, <1>3, SubSeqProperties, LenProperties DEF More
  <2> QED BY <2>1 DEF InputInv
<1>5. Len(ioIn.items) + Len(PendingIn) + Len(More) <= InSlots /\ Len(More) \in Nat
  <2>1. Len(inputs) = Len(ioIn.items \o PendingIn) + Len(More)
    BY <1>3, <1>4, AtFront
  <2> QED BY <1>3, <1>4, <2>1, LenProperties DEF InputInv
<1>6. (More # <<>> => ~ioIn.full) /\ (inWrEn => ~ioIn.full)
  <2>1. ioIn.full => Len(ioIn.items) = InSlots
    BY DEF InputInv
  <2>2. More # <<>> => Len(More) >= 1
    BY <1>4, EmptySeq
  <2> DEFINE a == Len(ioIn.items)
             b == Len(PendingIn)
             c == Len(More)
  <2>3. /\ a \in Nat /\ c \in Nat /\ a + b + c <= InSlots /\ b = (IF inWrEn THEN 1 ELSE 0)
        /\ (ioIn.full => a = InSlots) /\ (More # <<>> => c >= 1)
    BY <1>1, <1>2, <1>5, <2>1, <2>2
  <2> HIDE DEF a, b, c
  <2>4. CASE inWrEn
    BY <1>1, <2>3, <2>4
  <2>5. CASE ~inWrEn
    BY <1>1, <2>3, <2>5
  <2> QED BY <2>4, <2>5
<1>7. /\ ioIn' = InFifo!Clocked(ReadsInput(Io), inWrEn, inData)
      /\ inputs' = IF ReadsInput(Io) /\ inputs # <<>> THEN Tail(inputs) ELSE inputs
      /\ (ioIn.empty <=> ioIn.items = <<>>)
  BY DEF Clock, HciClock, InputInv
<1> DEFINE rd == ReadsInput(Io) /\ ~ioIn.empty
<1>8. ioIn' = [items |-> IF inWrEn /\ ~ioIn.full
                         THEN Append(IF rd THEN Tail(ioIn.items) ELSE ioIn.items, inData)
                         ELSE IF rd THEN Tail(ioIn.items) ELSE ioIn.items,
               empty |-> (ioIn.empty /\ ~(inWrEn /\ ~ioIn.full)) \/ (Len(ioIn.items) = 1 /\ rd),
               full  |-> (ioIn.full /\ ~rd) \/ (Len(ioIn.items) = InSlots - 1 /\ (inWrEn /\ ~ioIn.full))]
  BY <1>7 DEF InFifo!Clocked
<1> HIDE DEF rd
<1>9. /\ ioIn'.items = IF inWrEn THEN Append(IF rd THEN Tail(ioIn.items) ELSE ioIn.items, inData)
                       ELSE IF rd THEN Tail(ioIn.items) ELSE ioIn.items
      /\ ioIn'.empty <=> (ioIn.empty /\ ~inWrEn) \/ (Len(ioIn.items) = 1 /\ rd)
      /\ ioIn'.full <=> (ioIn.full /\ ~rd) \/ (Len(ioIn.items) = InSlots - 1 /\ inWrEn)
      /\ ioIn'.empty \in BOOLEAN /\ ioIn'.full \in BOOLEAN
  BY <1>6, <1>8
<1>10. rd => ~inWrEn /\ More = <<>> /\ ioIn.items # <<>> /\ Len(ioIn.items) >= 1
  <2>1. rd => IoEdge(Io) /\ ioIn.items # <<>>
    BY <1>7 DEF rd, ReadsInput
  <2>2. IoEdge(Io) => ~inWrEn
    BY PortIdle DEF PortInv
  <2>3. ioIn.items # <<>> => Len(ioIn.items) >= 1
    BY <1>1, EmptySeq
  <2> QED BY <2>1, <2>2, <2>3
<1>11. CASE rd
  <2>1. ioIn'.items = Tail(ioIn.items) /\ ~inWrEn
    BY <1>9, <1>10, <1>11
  <2>2. Tail(ioIn.items) \in Seq(Byte) /\ Len(Tail(ioIn.items)) = Len(ioIn.items) - 1
    BY <1>1, <1>10, <1>11, HeadTailProperties
  <2>3. inputs = ioIn.items
    BY <1>1, <1>4, <1>10, <1>11, ConcatEmptySeq DEF PendingIn
  <2>4. inputs' = Tail(ioIn.items)
    BY <1>7, <1>10, <1>11, <2>3 DEF rd
  <2>5. inputs' = ioIn'.items \o More
    BY <1>10, <1>11, <2>1, <2>2, <2>4, ConcatEmptySeq
  <2>6. ioIn'.empty <=> ioIn'.items = <<>>
    <3>1. ioIn'.empty <=> Len(ioIn.items) = 1
      BY <1>1, <1>7, <1>9, <1>10, <1>11
    <3>2. ioIn'.items = <<>> <=> Len(Tail(ioIn.items)) = 0
      BY <2>1, <2>2, EmptySeq
    <3>3. Len(Tail(ioIn.items)) = 0 <=> Len(ioIn.items) = 1
      BY <1>1, <2>2
    <3> QED BY <3>1, <3>2, <3>3
  <2>7. ~ioIn'.full
    BY <1>9, <1>11, <2>1
  <2>8. Len(Tail(ioIn.items)) <= InSlots
    BY <1>1, <2>2
  <2>9. (InFifo!FifoTypeOK)'
    BY <1>9, <2>1, <2>2, <2>8 DEF InFifo!FifoTypeOK
  <2> QED BY <1>2, <1>4, <1>6, <2>1, <2>2, <2>4, <2>5, <2>6, <2>7, <2>8, <2>9
<1>12. CASE ~rd
  <2>1. ioIn'.items = ioIn.items \o PendingIn
    BY <1>1, <1>9, <1>12, AppendIsConcat, ConcatEmptySeq DEF PendingIn
  <2>2. inputs' = inputs
    <3>1. CASE ReadsInput(Io)
      <4>1. ioIn.items = <<>> /\ IoEdge(Io)
        BY <1>7, <1>12, <3>1 DEF rd, ReadsInput
      <4>2. ~inWrEn /\ More = <<>>
        BY <4>1, PortIdle DEF PortInv
      <4>3. inputs = <<>>
        BY <1>4, <4>1, <4>2, ConcatEmptySeq, EmptySeq DEF PendingIn
      <4> QED BY <1>7, <4>3
    <3>2. CASE ~ReadsInput(Io)
      BY <1>7, <3>2
    <3> QED BY <3>1, <3>2
  <2>3. inputs' = ioIn'.items \o More
    BY <1>4, <2>1, <2>2
  <2> DEFINE a == Len(ioIn.items)
             b == Len(PendingIn)
             c == Len(More)
             n == Len(ioIn'.items)
  <2>4. /\ a \in Nat /\ c \in Nat /\ a + b + c <= InSlots /\ b = (IF inWrEn THEN 1 ELSE 0)
        /\ n = a + b
        /\ (ioIn'.full <=> ioIn.full \/ (a = InSlots - 1 /\ inWrEn))
        /\ (ioIn.full => a = InSlots) /\ (inWrEn => ~ioIn.full)
        /\ (ioIn'.empty <=> (ioIn.empty /\ ~inWrEn))
    BY <1>1, <1>2, <1>3, <1>5, <1>6, <1>9, <1>12, <2>1 DEF InputInv
  <2>5. /\ (ioIn.items = <<>> <=> a = 0) /\ (ioIn'.items = <<>> <=> n = 0)
    BY <1>1, <1>3, <2>1, EmptySeq
  <2> HIDE DEF a, b, c, n
  <2>6. n <= InSlots /\ (ioIn'.full => n = InSlots) /\ (n = 0 <=> (a = 0 /\ ~inWrEn))
    <3>1. CASE inWrEn
      BY <1>1, <2>4, <3>1
    <3>2. CASE ~inWrEn
      BY <1>1, <2>4, <3>2
    <3> QED BY <3>1, <3>2
  <2>7. ioIn'.empty <=> ioIn'.items = <<>>
    BY <1>7, <2>4, <2>5, <2>6
  <2>8. (InFifo!FifoTypeOK)'
    BY <1>3, <1>9, <2>1, <2>6 DEF InFifo!FifoTypeOK, n
  <2>9. Len(inputs') <= InSlots
    BY <2>2 DEF InputInv
  <2> QED BY <1>1, <1>2, <1>3, <1>4, <1>6, <2>1, <2>2, <2>3, <2>6, <2>7, <2>8, <2>9 DEF n
<1> QED BY <1>11, <1>12

(* What is still to come after a clock.                                    *)
LEMMA LeftNext ==
  ASSUME NEW x \in Seq(Byte), tx'.items \in Seq(Byte), txData' \in Byte, wrEn' \in BOOLEAN,
         owed' = (tx'.items \o Pending') \o x
  PROVE  Left' = x /\ owed' = (tx'.items \o Pending') \o Left' /\ owed' \in Seq(Byte)
         /\ Len(Pending') = (IF wrEn' THEN 1 ELSE 0)
<1>1. Pending' \in Seq(Byte) /\ Len(Pending') = (IF wrEn' THEN 1 ELSE 0)
  BY OneByte, EmptySeq DEF Pending
<1>2. tx'.items \o Pending' \in Seq(Byte)
  BY <1>1, AtFront
<1>3. Left' = SubSeq(owed', Len(tx'.items \o Pending') + 1, Len(owed'))
  BY DEF Left
<1> QED BY <1>1, <1>2, <1>3, Behind, AtFront

LEMMA MoreNext ==
  ASSUME NEW x \in Seq(Byte), ioIn'.items \in Seq(Byte), inData' \in Byte, inWrEn' \in BOOLEAN,
         inputs' = (ioIn'.items \o PendingIn') \o x
  PROVE  More' = x /\ inputs' = (ioIn'.items \o PendingIn') \o More'
<1>1. PendingIn' \in Seq(Byte)
  BY OneByte, EmptySeq DEF PendingIn
<1>2. ioIn'.items \o PendingIn' \in Seq(Byte)
  BY <1>1, AtFront
<1>3. More' = SubSeq(inputs', Len(ioIn'.items \o PendingIn') + 1, Len(inputs'))
  BY DEF More
<1> QED BY <1>1, <1>2, <1>3, Behind

(* A view that owes nothing and has nothing left to read is idle.          *)
RestedIsIdle ==
  \A h \in View : executeCnt \in Nat /\ Phase(h) /\ h.rest = <<>> /\ h.left = <<>> => Idle(h)

LEMMA RestedNow == RestedIsIdle
<1> SUFFICES ASSUME NEW h \in View, executeCnt \in Nat, Phase(h), h.rest = <<>>, h.left = <<>>
             PROVE  Idle(h)
  BY DEF RestedIsIdle
<1>1. ~InBody(h)
  <2>1. ~EchoBody(h) /\ ~InputBody(h) /\ ~WriteBody(h)
    BY DEF EchoBody, InputBody, WriteBody
  <2>2. ~ReadBody(h)
    <3>1. Len(h.left) = 0
      BY EmptySeq
    <3>2. executeCnt # 0 => (executeCnt + 1) \div 2 # 0
      OBVIOUS
    <3> QED BY <3>1, <3>2 DEF ReadBody
  <2>3. ~RegBody(h)
    <3>1. Len(h.left) = 0
      BY EmptySeq
    <3> QED BY <3>1 DEF RegBody
  <2>4. ~ErrBody(h)
    <3>1. <<IF err THEN 2 ELSE 0>> # <<>>
      OBVIOUS
    <3> QED BY <3>1 DEF ErrBody
  <2> QED BY <2>1, <2>2, <2>3, <2>4 DEF InBody
<1>2. ASSUME NEW p \in HostPackets PROVE ~Sent(h, p) /\ ~InHeader(h, p)
  <2>1. WellFormed(p)
    BY HostAssumption
  <2>2. ~Sent(h, p)
    BY <2>1, PacketBytes DEF Sent
  <2>3. ASSUME InHeader(h, p), ShortAsked(p) PROVE FALSE
    <3>1. 1 + decodeCnt \in 1 .. 2 /\ p.op \in {"echo", "io_in"} /\ Unread(p, 1 + decodeCnt) = <<>>
      BY <2>3 DEF InHeader, ShortAsked
    <3> QED BY <2>1, <3>1, ShortBytes
  <2>4. ASSUME InHeader(h, p), MemAsked(p) PROVE FALSE
    <3>1. 1 + decodeCnt \in 1 .. 5 /\ p.op \in {"mem_rd", "mem_wr"} /\ Unread(p, 1 + decodeCnt) = <<>>
      BY <2>4 DEF InHeader, MemAsked
    <3> QED BY <2>1, <3>1, MemBytes
  <2> QED BY <2>2, <2>3, <2>4 DEF InHeader
<1> QED BY <1>1, <1>2 DEF Phase

LEMMA RestedNext == RestedIsIdle'
BY RestedNow, PTL

LEMMA BlindOwes ==
  ASSUME NEW h, Phase(h), state \in Blind
  PROVE  h.left # <<>>
<1>1. CASE state = "echo_1"
  BY <1>1, PhaseOfState DEF EchoBody
<1>2. CASE state \in {"reg_rd_0", "reg_rd_1"}
  <2>1. RegBody(h)
    BY <1>2, PhaseOfState
  <2>2. Len(h.left) # 0
    BY <2>1 DEF RegBody
  <2> QED BY <2>2, EmptySeq
<1>3. CASE state = "query_err"
  <2>1. ErrBody(h)
    BY <1>3, PhaseOfState
  <2>2. <<IF err THEN 2 ELSE 0>> # <<>>
    OBVIOUS
  <2> QED BY <2>1, <2>2 DEF ErrBody
<1> QED BY <1>1, <1>2, <1>3 DEF Blind

(* The registers keep their types.                                         *)
LEMMA WrapTyped ==
  ASSUME NEW n \in Int
  PROVE  Wrap17(n) \in CpuAddr
<1>1. RamBytes \in Nat \ {0}
  BY Sizes
<1> QED BY <1>1 DEF Wrap17, CpuAddr

HeaderIsTyped ==
  (\E p \in HostPackets : ShortAsked(p) \/ MemAsked(p)) =>
    /\ state \in {"echo_0", "io_in_0"} /\ decodeCnt = 1 => executeCnt \in CpuAddr
    /\ state \in {"mem_rd_0", "mem_wr_0"} /\ decodeCnt = 4 => executeCnt \in CpuAddr
    /\ state \in {"mem_rd_0", "mem_wr_0"} /\ decodeCnt # 0 => addr \in CpuAddr

LEMMA HeaderTypedNow == HeaderIsTyped
<1> SUFFICES ASSUME NEW p \in HostPackets, ShortAsked(p) \/ MemAsked(p)
             PROVE  /\ state \in {"echo_0", "io_in_0"} /\ decodeCnt = 1 => executeCnt \in CpuAddr
                    /\ state \in {"mem_rd_0", "mem_wr_0"} /\ decodeCnt = 4 => executeCnt \in CpuAddr
                    /\ state \in {"mem_rd_0", "mem_wr_0"} /\ decodeCnt # 0 => addr \in CpuAddr
  BY DEF HeaderIsTyped
<1>1. p.n \in 0 .. Base * Base - 1 /\ p.addr \in CpuAddr
  BY HostAssumption DEF WellFormed
<1>2. p.n % Base \in CpuAddr
  BY <1>1, CountDigits
<1>3. p.addr % Base \in CpuAddr /\ p.addr % (Base * Base) \in CpuAddr
  <2> DEFINE s == Base * Base
  <2>1. s \in Nat \ {0} /\ Base \in Nat \ {0} /\ RamBytes = 2 * s /\ Base <= s
    BY Sizes
  <2> HIDE DEF s
  <2>2. p.addr \in Nat
    BY <1>1 DEF CpuAddr
  <2>3. p.addr % Base \in 0 .. Base - 1 /\ p.addr % s \in 0 .. s - 1
    BY <2>1, <2>2
  <2> QED BY <2>1, <2>3 DEF CpuAddr, s
<1> QED BY <1>1, <1>2, <1>3 DEF ShortAsked, MemAsked

LEMMA HeaderTypedNext == HeaderIsTyped'
BY HeaderTypedNow, PTL

(* The header of the phase, in the state after a step.                     *)
LEMMA HeaderNext ==
  ASSUME NEW g, Phase(g)', state' \in Headers
  PROVE  /\ state' \in {"echo_0", "io_in_0"} /\ decodeCnt' = 1 => executeCnt' \in CpuAddr
         /\ state' \in {"mem_rd_0", "mem_wr_0"} /\ decodeCnt' = 4 => executeCnt' \in CpuAddr
         /\ state' \in {"mem_rd_0", "mem_wr_0"} /\ decodeCnt' # 0 => addr' \in CpuAddr
<1>1. ~Idle(g)' /\ ~InBody(g)' /\ \A p \in HostPackets : ~Sent(g, p)'
  BY DEF Idle, Sent, BetweenPackets, InBody, EchoBody, InputBody, WriteBody, ReadBody, RegBody,
         ErrBody, Headers
<1>2. \E p \in HostPackets : InHeader(g, p)'
  BY <1>1 DEF Phase
<1>3. \E p \in HostPackets : ShortAsked(p)' \/ MemAsked(p)'
  BY <1>2 DEF InHeader
<1> QED BY <1>3, HeaderTypedNext DEF HeaderIsTyped

LEMMA PortTyped ==
  ASSUME HciTypeOK
  PROVE  /\ state \in States /\ decodeCnt \in 0 .. 7 /\ executeCnt \in CpuAddr /\ addr \in CpuAddr
         /\ err \in BOOLEAN /\ executeCnt \in Nat /\ addr \in Nat
         /\ 0 \in Byte /\ 1 \in Byte /\ 2 \in Byte
         /\ ram \in [CpuAddr -> Byte] /\ ramQ \in CpuAddr
<1>1. executeCnt \in CpuAddr /\ addr \in CpuAddr
  BY DEF HciTypeOK
<1>2. executeCnt \in Nat /\ addr \in Nat
  BY <1>1, Sizes DEF CpuAddr
<1> QED BY <1>1, <1>2, Sizes DEF HciTypeOK, RamTypeOK

LEMMA RegsTyped ==
  ASSUME HciTypeOK, NEW io, Packets(io), Got => rdData \in Byte, NEW g, Phase(g)'
  PROVE  /\ state' \in States /\ decodeCnt' \in 0 .. 7 /\ executeCnt' \in CpuAddr
         /\ addr' \in CpuAddr /\ err' \in BOOLEAN
         /\ txData' \in Byte /\ wrEn' \in BOOLEAN /\ inData' \in Byte /\ inWrEn' \in BOOLEAN
<1>1. /\ state \in States /\ decodeCnt \in 0 .. 7 /\ executeCnt \in CpuAddr /\ addr \in CpuAddr
      /\ err \in BOOLEAN /\ executeCnt \in Nat /\ addr \in Nat
      /\ 0 \in Byte /\ 1 \in Byte /\ 2 \in Byte /\ ram \in [CpuAddr -> Byte] /\ ramQ \in CpuAddr
  BY PortTyped
<1>2. Wrap17(addr + 1) \in CpuAddr /\ Wrap17(executeCnt - 1) \in CpuAddr
  <2>1. addr + 1 \in Int /\ executeCnt - 1 \in Int
    BY <1>1
  <2> QED BY <2>1, WrapTyped
<1>3. (decodeCnt + 1) % 8 \in 0 .. 7
  BY <1>1
<1>4. CASE NoByte \/ Disabled
  BY <1>1, <1>4 DEF NoByte, Disabled, Silent, NoInput, Sends, regs, States
<1>5. CASE DecodeOpcode
  <2>1. state' \in States
    <3>1. Served[11] = "disable"
      BY ServedStates DEF Served, Opcode
    <3>2. \A b \in DOMAIN Served : Served[b] \in States
      BY <3>1, ServedStates DEF States, Headers
    <3> QED BY <1>5, <3>2 DEF DecodeOpcode, States
  <2>2. err' \in BOOLEAN
    BY <1>5 DEF DecodeOpcode
  <2>3. /\ decodeCnt' = 0 /\ executeCnt' = executeCnt /\ addr' = addr
        /\ wrEn' \in BOOLEAN /\ inData' = 0 /\ inWrEn' \in BOOLEAN
    BY <1>5 DEF DecodeOpcode, Silent, NoInput, Sends
  <2>4. decodeCnt' \in 0 .. 7 /\ txData' \in Byte /\ inData' \in Byte /\ inWrEn' \in BOOLEAN
    <3>1. txData' = 0 \/ txData' = 1
      BY <1>5 DEF DecodeOpcode, Silent, Sends
    <3>2. txData' \in Byte
      BY <1>1, <3>1
    <3>3. decodeCnt' \in 0 .. 7
      BY <2>3
    <3> QED BY <1>1, <2>3, <3>2, <3>3
  <2>5. executeCnt' \in CpuAddr /\ addr' \in CpuAddr
    BY <1>1, <2>3
  <2> QED BY <2>1, <2>2, <2>3, <2>4, <2>5, Zenon
<1>6. ASSUME NEW first \in {0, 3}, NEW width \in {1, 2}, NEW body \in States, Got,
             CountByte(first, width, body)
      PROVE  state' \in States
             /\ (executeCnt' \in CpuAddr \/ (decodeCnt = first /\ state' = state))
  <2>1. Wrap17(width * ((executeCnt % Base) + Base * rdData)) \in CpuAddr
    <3>1. executeCnt % Base \in Int /\ Base * rdData \in Int
      BY <1>1, <1>6, Sizes DEF Byte
    <3> DEFINE n == (executeCnt % Base) + Base * rdData
    <3>2. n \in Int
      BY <3>1
    <3> HIDE DEF n
    <3>3. width * n \in Int
      BY <3>2
    <3> QED BY <3>3, WrapTyped DEF n
  <2> QED BY <1>1, <1>6, <2>1 DEF CountByte, States
<1>7. CASE ShortHeader("echo_0", "echo_1") \/ ShortHeader("io_in_0", "io_in_1")
  <2>1. PICK body \in {"echo_1", "io_in_1"} :
          /\ state \in {"echo_0", "io_in_0"} /\ Got /\ CountByte(0, 1, body)
    BY <1>7 DEF ShortHeader
  <2>2. body \in States
    BY DEF States
  <2>3. /\ decodeCnt' = (decodeCnt + 1) % 8 /\ addr' = addr /\ (err' <=> err) /\ err' \in BOOLEAN
        /\ txData' = 0 /\ wrEn' = FALSE /\ inData' = 0 /\ inWrEn' = FALSE
    BY <1>1, <1>7 DEF ShortHeader, Silent, NoInput
  <2>4. state' \in States /\ (executeCnt' \in CpuAddr \/ (decodeCnt = 0 /\ state' = state))
    BY <1>6, <2>1, <2>2
  <2>5. executeCnt' \in CpuAddr
    <3>1. ASSUME decodeCnt = 0, state' = state PROVE executeCnt' \in CpuAddr
      <4>1. decodeCnt' = 1 /\ state' \in Headers /\ state' \in {"echo_0", "io_in_0"}
        BY <2>1, <2>3, <3>1 DEF Headers
      <4> QED BY <4>1, HeaderNext
    <3> QED BY <2>4, <3>1
  <2> QED BY <1>1, <1>3, <2>3, <2>4, <2>5
<1>8. CASE MemHeader("mem_rd_0", 2, "mem_rd_1") \/ MemHeader("mem_wr_0", 1, "mem_wr_1")
  <2>1. /\ state \in {"mem_rd_0", "mem_wr_0"} /\ Got /\ decodeCnt' = (decodeCnt + 1) % 8
        /\ (err' <=> err) /\ err' \in BOOLEAN
        /\ txData' = 0 /\ wrEn' = FALSE /\ inData' = 0 /\ inWrEn' = FALSE
    BY <1>1, <1>8 DEF MemHeader, Silent, NoInput
  <2>2. CASE decodeCnt < 3
    <3>1. state' = state /\ executeCnt' = executeCnt
      BY <1>8, <2>2 DEF MemHeader
    <3>2. decodeCnt' # 0 /\ state' \in Headers
      BY <1>1, <2>1, <2>2, <3>1 DEF Headers
    <3>3. addr' \in CpuAddr
      BY <2>1, <3>1, <3>2, HeaderNext
    <3> QED BY <1>1, <1>3, <2>1, <3>1, <3>3
  <2>3. CASE ~(decodeCnt < 3)
    <3>1. PICK body \in {"mem_rd_1", "mem_wr_1"}, width \in {1, 2} : CountByte(3, width, body)
      BY <1>8, <2>3 DEF MemHeader
    <3>2. body \in States /\ addr' = addr
      BY <1>8, <2>3 DEF States, MemHeader
    <3>3. state' \in States /\ (executeCnt' \in CpuAddr \/ (decodeCnt = 3 /\ state' = state))
      BY <1>6, <2>1, <3>1, <3>2
    <3>4. ASSUME decodeCnt = 3, state' = state PROVE executeCnt' \in CpuAddr
      <4>1. decodeCnt' = 4 /\ state' \in Headers /\ state' \in {"mem_rd_0", "mem_wr_0"}
        BY <2>1, <3>4 DEF Headers
      <4> QED BY <4>1, HeaderNext
    <3> QED BY <1>1, <1>3, <2>1, <3>2, <3>3, <3>4
  <2> QED BY <2>2, <2>3
<1>9. CASE Echo \/ InputByte
  BY <1>1, <1>2, <1>9 DEF Echo, InputByte, CountDown, Sends, Silent, NoInput, Buffers, States
<1>10. CASE QueryErrCode
  BY <1>1, <1>10 DEF QueryErrCode, Sends, Silent, NoInput, States
<1>11. CASE RegReadStart
  <2>1. 4 \in CpuAddr /\ 0 \in CpuAddr
    <3> DEFINE s == Base * Base
    <3>1. s >= 4 /\ RamBytes = 2 * s /\ s \in Nat
      BY HciAssumption, Sizes
    <3> HIDE DEF s
    <3> QED BY <3>1 DEF CpuAddr
  <2> QED BY <1>1, <1>11, <2>1 DEF RegReadStart, Silent, NoInput, States
<1>12. CASE RegRead
  <2>1. DbgReg[addr % 4] \in Byte
    <3>1. addr % 4 \in 0 .. 3
      BY <1>1
    <3> QED BY <3>1, HciAssumption
  <2> QED BY <1>1, <1>2, <1>12, <2>1 DEF RegRead, CountDown, Sends, Silent, NoInput, States
<1>13. CASE MemReadWait \/ MemRead \/ MemWrite
  <2>1. ram[ramQ] \in Byte
    BY <1>1
  <2> QED BY <1>1, <1>2, <1>13, <2>1
          DEF MemReadWait, MemRead, MemWrite, CountDown, Sends, Silent, NoInput, States
<1> QED BY <1>4, <1>5, <1>7, <1>8, <1>9, <1>10, <1>11, <1>12, <1>13 DEF Packets

-----------------------------------------------------------------------------
(* One clock of the whole interface.                                       *)
Knows(h) == h \in View /\ Phase(h) /\ (h = Current \/ \E p \in HostPackets : Overtaken(h, p))

LEMMA CurrentTyped ==
  ASSUME TypeOK
  PROVE  /\ Current \in View /\ Rest \in Seq(Byte) /\ Left \in Seq(Byte) /\ More \in Seq(Byte)
         /\ rx.items \in Seq(Byte) /\ out \in Seq(Byte)
<1>1. /\ rx.items \in Seq(Byte) /\ tx.items \in Seq(Byte) /\ ioIn.items \in Seq(Byte)
      /\ out \in Seq(Byte) /\ owed \in Seq(Byte) /\ inputs \in Seq(Byte)
      /\ wrEn \in BOOLEAN /\ txData \in Byte /\ inWrEn \in BOOLEAN /\ inData \in Byte
      /\ image \in [CpuAddr -> Byte] /\ running \in BOOLEAN /\ badOp \in BOOLEAN
  BY DEF TypeOK, HciTypeOK, RxFifo!FifoTypeOK, TxFifo!FifoTypeOK, InFifo!FifoTypeOK
<1>2. Pending \in Seq(Byte) /\ PendingIn \in Seq(Byte)
  BY <1>1, OneByte, EmptySeq DEF Pending, PendingIn
<1>3. /\ Len(tx.items \o Pending) \in Nat /\ Len(ioIn.items \o PendingIn) \in Nat
      /\ Rest \in Seq(Byte)
  BY <1>1, <1>2, AtFront, LenProperties DEF Rest
<1>4. Left \in Seq(Byte)
  BY <1>1, <1>3, SubSeqProperties, LenProperties DEF Left
<1>5. More \in Seq(Byte)
  BY <1>1, <1>3, SubSeqProperties, LenProperties DEF More
<1> QED BY <1>1, <1>3, <1>4, <1>5 DEF Current, View

LEMMA TakesByte ==
  ASSUME TypeOK, LineInv, NEW h, Knows(h), Got
  PROVE  state \in Waiting /\ h.rest # <<>> /\ rdData = Head(h.rest)
<1>1. rx.items \in Seq(Byte) /\ out \in Seq(Byte) /\ rx.items # <<>>
  BY CurrentTyped DEF Got, LineInv
<1>2. h.rest # <<>> /\ rdData = Head(h.rest)
  <2>1. CASE h = Current
    BY <1>1, <2>1, HeadOfConcat DEF Current, Rest, rdData
  <2>2. CASE \E p \in HostPackets : Overtaken(h, p)
    BY <1>1, <2>2 DEF Overtaken, rdData
  <2> QED BY <2>1, <2>2 DEF Knows
<1>3. state \in Waiting
  BY <1>2 DEF Knows, Phase, Idle, Sent, BetweenPackets, Waiting, Headers, InHeader, ShortAsked,
              MemAsked, InBody, EchoBody, InputBody, WriteBody, ReadBody, RegBody, ErrBody
<1> QED BY <1>2, <1>3

(* On the edge of an I/O access the machine is idle.                       *)
LEMMA EdgeIsIdle ==
  ASSUME TypeOK, LineInv, PortInv, NEW h, Knows(h), IoEdge(Io)
  PROVE  h = Current /\ Idle(h) /\ Rest = <<>> /\ Left = <<>> /\ More = <<>> /\ ~Got
<1>1. state = "disabled" /\ Quiet
  BY PortIdle
<1>2. h = Current /\ ~Got
  BY <1>1 DEF Knows, Overtaken, Quiet, Got, LineInv
<1>3. Rest = <<>>
  BY <1>1, ConcatEmptySeq, EmptySeq DEF Rest, Quiet
<1>4. h.rest = <<>> /\ h.left = Left /\ h.more = More
  BY <1>2, <1>3 DEF Current
<1>5. \A p \in HostPackets : ~Sent(h, p)
  BY <1>4, PacketBytes, HostAssumption DEF Sent
<1>6. Idle(h)
  BY <1>1, <1>5, PhaseOfState DEF Knows, BetweenPackets
<1> QED BY <1>2, <1>3, <1>4, <1>6 DEF Idle

LEMMA RamClocked ==
  ASSUME TypeOK, NEW arrives \in BOOLEAN, NEW popped \in BOOLEAN, Clock(arrives, popped),
         Got => rdData \in Byte, Unanswered => tx'.items = <<>>
  PROVE  /\ RamTypeOK' /\ (IoEdge(Io) => ram' = ram)
         /\ ~IoEdge(Io) => DataClock
<1>1. PICK a \in CpuAddrs : HciClock(Io, arrives, IF arrives THEN Head(out) ELSE 0, popped, a)
  BY DEF Clock
<1> DEFINE x == IF Active THEN addr ELSE a
<1>2. x \in CpuAddr /\ ram \in [CpuAddr -> Byte]
  BY HostAssumption DEF TypeOK, HciTypeOK, RamTypeOK
<1>3. RamClock(x, MemWrites(Io), IF Got THEN rdData ELSE 0)
  BY <1>1 DEF HciClock
<1>4. /\ ram' = IF MemWrites(Io) THEN [ram EXCEPT ![x] = IF Got THEN rdData ELSE 0] ELSE ram
      /\ ramQ' = x
  BY <1>2, <1>3, RamAddress DEF RamClock
<1>5. MemWrites(Io) => Active /\ Got
  BY DEF MemWrites, Active
<1>6. RamTypeOK'
  <2>1. ram' \in [CpuAddr -> Byte]
    BY <1>2, <1>4, <1>5
  <2> QED BY <1>2, <1>4, <2>1 DEF RamTypeOK
<1>7. IoEdge(Io) => ram' = ram
  BY <1>4 DEF MemWrites
<1>8. ASSUME ~IoEdge(Io) PROVE DataClock
  <2>1. MemWrites(Io) <=> state = "mem_wr_1" /\ Got
    BY <1>8 DEF MemWrites
  <2>2. ram' = IF state = "mem_wr_1" /\ Got THEN [ram EXCEPT ![addr] = rdData] ELSE ram
    BY <1>4, <1>5, <2>1
  <2> QED BY <1>4, <2>2 DEF DataClock
<1> QED BY <1>6, <1>7, <1>8

RegsOK ==
  /\ state \in States /\ decodeCnt \in 0 .. 7 /\ executeCnt \in CpuAddr
  /\ addr \in CpuAddr /\ err \in BOOLEAN
  /\ txData \in Byte /\ wrEn \in BOOLEAN /\ inData \in Byte /\ inWrEn \in BOOLEAN

(* The parts of the invariant other than the phase, after a clock whose    *)
(* writes are x and y short of what was to come.                           *)
LEMMA Assemble ==
  ASSUME HostInv, NEW arrives \in BOOLEAN, NEW popped \in BOOLEAN, Clock(arrives, popped),
         NEW h, Knows(h), RegsOK', NEW x \in Seq(Byte), NEW y \in Seq(Byte),
         Left \o (IF Prints THEN <<txData'>> ELSE <<>>) = Pending' \o x,
         More = PendingIn' \o y, wrEn' => ~tx'.full,
         state' \in Blind => ~Prints /\ \/ state \in Blind
                                        \/ Unanswered /\ Len(Left) <= TxSlots,
         state' = "disabled" => ~inWrEn' /\ (~qIoEn' /\ wrEn' => tx'.items = <<>>)
  PROVE  /\ TypeOK' /\ LineInv' /\ ReplyInv' /\ InputInv' /\ RoomInv' /\ PortInv'
         /\ Left' = x /\ More' = y
<1>1. /\ TypeOK /\ LineInv /\ ReplyInv /\ InputInv /\ RoomInv /\ PortInv
  BY DEF HostInv
<1>2. (Got => state \in Waiting) /\ (IoEdge(Io) => More = <<>>)
  BY <1>1, TakesByte, EdgeIsIdle
<1>3. /\ LineInv' /\ (RxFifo!FifoTypeOK)' /\ out' \in Seq(Byte) /\ gap' \in 0 .. Gap
      /\ (Got => rdData \in Byte) /\ (Quiet => Quiet')
  BY <1>1, <1>2, LineClock
<1>4. /\ Pending \in Seq(Byte) /\ Len(Pending) = (IF wrEn THEN 1 ELSE 0)
      /\ Left \in Seq(Byte) /\ Len(tx.items) \in Nat /\ tx'.items \in Seq(Byte)
      /\ Len(tx'.items) = Len(tx.items) + Len(Pending) - (IF popped THEN 1 ELSE 0)
      /\ (tx'.full <=> (tx.full /\ ~popped) \/ (Len(tx.items) = TxSlots - 1 /\ wrEn))
      /\ (TxFifo!FifoTypeOK)' /\ (Len(tx'.items) = TxSlots => tx'.full)
      /\ (tx'.items = <<>> => tx'.empty) /\ (tx'.full => Len(tx'.items) >= TxSlots - 1)
      /\ owed' = (tx'.items \o Left) \o (IF Prints THEN <<txData'>> ELSE <<>>)
      /\ (Unanswered => tx'.items = <<>> /\ ~tx.full /\ ~tx'.full)
  BY <1>1, ReplyClock
<1>5. /\ More \in Seq(Byte) /\ ioIn'.items \in Seq(Byte) /\ (InFifo!FifoTypeOK)'
      /\ inputs' \in Seq(Byte) /\ Len(inputs') <= InSlots /\ inputs' = ioIn'.items \o More
      /\ (ioIn'.empty <=> ioIn'.items = <<>>) /\ (ioIn'.full => Len(ioIn'.items) = InSlots)
  BY <1>1, <1>2, InputClock
<1>6. txData' \in Byte /\ wrEn' \in BOOLEAN /\ inData' \in Byte /\ inWrEn' \in BOOLEAN
  BY DEF RegsOK
<1>7. Pending' \in Seq(Byte) /\ PendingIn' \in Seq(Byte)
      /\ (IF Prints THEN <<txData'>> ELSE <<>>) \in Seq(Byte)
  BY <1>6, OneByte, EmptySeq DEF Pending, PendingIn
<1>8. owed' = (tx'.items \o Pending') \o x
  <2> DEFINE s == tx'.items
             q == Pending'
             t == IF Prints THEN <<txData'>> ELSE <<>>
  <2>1. s \in Seq(Byte) /\ q \in Seq(Byte) /\ t \in Seq(Byte) /\ Left \in Seq(Byte)
        /\ Left \o t = q \o x /\ owed' = (s \o Left) \o t
    BY <1>4, <1>7
  <2> HIDE DEF s, q, t
  <2>2. \A u, v, w \in Seq(Byte) : (u \o v) \o w = u \o (v \o w)
    BY ByteConcat
  <2>3. (s \o Left) \o t = s \o (Left \o t)
    BY <2>1, <2>2, Zenon
  <2>4. (s \o q) \o x = s \o (q \o x)
    BY <2>1, <2>2, Zenon
  <2>5. s \o (Left \o t) = s \o (q \o x)
    BY ONLY <2>1
  <2>6. owed' = (s \o q) \o x
    BY ONLY <2>1, <2>3, <2>4, <2>5
  <2> QED BY <2>6 DEF s, q
<1>9. inputs' = (ioIn'.items \o PendingIn') \o y
  <2> DEFINE s == ioIn'.items
             q == PendingIn'
  <2>1. s \in Seq(Byte) /\ q \in Seq(Byte) /\ inputs' = s \o (q \o y)
    BY <1>5, <1>7
  <2> HIDE DEF s, q
  <2>2. inputs' = (s \o q) \o y
    <3>1. y \in Seq(Byte) /\ (s \o q) \o y = s \o (q \o y)
      BY <2>1, ByteConcat, Zenon
    <3> QED BY ONLY <2>1, <3>1
  <2> QED BY <2>2 DEF s, q
<1>10. /\ Left' = x /\ owed' = (tx'.items \o Pending') \o Left' /\ owed' \in Seq(Byte)
       /\ Len(Pending') = (IF wrEn' THEN 1 ELSE 0)
  BY <1>4, <1>6, <1>8, LeftNext
<1>11. More' = y /\ inputs' = (ioIn'.items \o PendingIn') \o More'
  BY <1>5, <1>6, <1>9, MoreNext
<1>12. ReplyInv'
  BY <1>4, <1>10 DEF ReplyInv
<1>13. InputInv'
  BY <1>5, <1>11 DEF InputInv
<1>14. TypeOK'
  <2>1. qIoEn' \in BOOLEAN
    <3>1. qIoEn' = Io.en
      BY DEF Clock, HciClock
    <3>2. cpu \in CpuIo \cup {NoIo}
      BY <1>1 DEF TypeOK
    <3>3. cpu.en \in BOOLEAN /\ NoIo.en \in BOOLEAN
      <4>1. CASE cpu = NoIo
        BY <4>1 DEF NoIo
      <4>2. CASE cpu \in CpuIo
        <5>1. cpu \in [en : BOOLEAN, wr : BOOLEAN, sel : {0, 4}, din : Byte]
          BY <4>2, HostAssumption
        <5>2. cpu.en \in BOOLEAN
          BY <5>1
        <5> QED BY <5>2 DEF NoIo
      <4> QED BY <3>2, <4>1, <4>2
    <3> QED BY <3>1, <3>3 DEF Io
  <2>2. RamTypeOK'
    BY <1>1, <1>3, <1>4, RamClocked
  <2>3. HciTypeOK'
    BY <1>3, <1>4, <1>5, <2>1, <2>2 DEF HciTypeOK, RegsOK
  <2>4. cpu' = cpu /\ running' = running /\ badOp' = badOp /\ image' = image
    BY DEF Clock
  <2> QED BY <1>1, <1>3, <1>5, <1>10, <2>3, <2>4 DEF TypeOK
<1>15. PortInv'
  <2>1. cpu' = cpu /\ running' = running
    BY DEF Clock
  <2>2. NoIo' = NoIo
    BY DEF NoIo
  <2> QED BY <1>1, <1>3, <2>1, <2>2 DEF PortInv
<1>16. RoomInv'
  <2> SUFFICES ASSUME state' \in Blind
               PROVE  /\ Len(tx'.items) + Len(Pending') + Len(Left') <= TxSlots
                      /\ tx'.full => Left' = <<>>
    BY DEF RoomInv, Blind
  <2>1. Left = Pending' \o x
    BY <1>4, ConcatEmptySeq
  <2>2. Len(Left) = Len(Pending') + Len(x) /\ Len(Left) \in Nat /\ Len(x) \in Nat
        /\ Len(Pending') \in Nat /\ (Len(x) = 0 => x = <<>>)
    BY <1>4, <1>7, <2>1, AtFront, LenProperties, EmptySeq
  <2>3. CASE state \in Blind
    <3>1. /\ Len(tx.items) + Len(Pending) + Len(Left) <= TxSlots
          /\ tx.full => Left = <<>>
      BY <1>1, <2>3 DEF RoomInv, Blind
    <3>2. Left = <<>> => Len(Left) = 0
      BY EmptySeq
    <3> DEFINE a == Len(tx.items)
               b == Len(Pending)
               c == Len(Left)
               d == Len(Pending')
               e == Len(x)
               n == Len(tx'.items)
    <3>3. /\ a \in Nat /\ b = (IF wrEn THEN 1 ELSE 0) /\ c = d + e /\ c \in Nat /\ d \in Nat /\ e \in Nat
          /\ a + b + c <= TxSlots /\ n = a + b - (IF popped THEN 1 ELSE 0)
          /\ (tx.full => c = 0)
          /\ (tx'.full <=> (tx.full /\ ~popped) \/ (a = TxSlots - 1 /\ wrEn))
      BY <1>4, <2>2, <3>1, <3>2
    <3> HIDE DEF a, b, c, d, e, n
    <3>4. TxSlots \in Nat
      BY HciAssumption
    <3>5. n + d + e <= TxSlots
      <4>1. n <= a + b /\ n \in Int /\ b \in Nat
        BY <3>3
      <4>2. a \in Nat /\ c = d + e /\ c \in Nat /\ d \in Nat /\ e \in Nat /\ a + b + c <= TxSlots
        BY <3>3
      <4> QED BY ONLY <3>4, <4>1, <4>2
    <3>6. tx'.full => e = 0
      <4>0. a \in Nat /\ c = d + e /\ c \in Nat /\ d \in Nat /\ e \in Nat /\ a + b + c <= TxSlots
        BY <3>3
      <4>1. ASSUME c = 0 PROVE e = 0
        BY ONLY <4>0, <4>1
      <4>2. ASSUME a = TxSlots - 1, b = 1 PROVE e = 0
        BY ONLY <3>4, <4>0, <4>2
      <4>3. tx'.full => c = 0 \/ (a = TxSlots - 1 /\ b = 1)
        BY <3>3
      <4> QED BY ONLY <4>1, <4>2, <4>3
    <3>7. tx'.full => x = <<>>
      BY <2>2, <3>6 DEF e
    <3> QED BY <1>10, <3>5, <3>7 DEF d, e, n
  <2>4. CASE Unanswered /\ Len(Left) <= TxSlots
    <3>1. Len(tx'.items) = 0 /\ ~tx'.full
      BY <1>4, <2>4, EmptySeq
    <3>2. Left' = x /\ Len(x) <= Len(Left) /\ Len(Left) <= TxSlots /\ TxSlots \in Nat
          /\ Len(Pending') + Len(x) = Len(Left)
      BY <1>10, <2>2, <2>4, HciAssumption
    <3> QED BY ONLY <2>2, <3>1, <3>2
  <2> QED BY <2>3, <2>4
<1> QED BY <1>3, <1>10, <1>11, <1>12, <1>13, <1>14, <1>15, <1>16

(* A clock on the edge of an I/O access: the machine stands still.          *)
LEMMA EdgeClock ==
  ASSUME HostInv, NEW arrives \in BOOLEAN, NEW popped \in BOOLEAN, Clock(arrives, popped),
         NEW h, Knows(h), IoEdge(Io)
  PROVE  HostInv'
<1>1. TypeOK /\ LineInv /\ ReplyInv /\ InputInv /\ RoomInv /\ PortInv
  BY DEF HostInv
<1>2. h = Current /\ Idle(h) /\ Rest = <<>> /\ Left = <<>> /\ More = <<>> /\ ~Got
  BY <1>1, EdgeIsIdle
<1>3. state = "disabled" /\ ~qIoEn /\ Io.en /\ ~inWrEn /\ (wrEn => tx.items = <<>>)
  BY <1>1, PortIdle DEF PortInv
<1>4. IoWrite(Io) \/ IoRead(Io)
  <2>1. ~Packets(Io)
    BY DEF Packets
  <2> QED BY <2>1 DEF Clock, HciClock
<1>5. qIoEn' = Io.en /\ UNCHANGED regs /\ inData' = 0 /\ inWrEn' = FALSE
  <2>1. qIoEn' = Io.en
    BY DEF Clock, HciClock
  <2>2. ~TakesInput(Io)
    BY <1>2 DEF TakesInput
  <2> QED BY <1>4, <2>1, <2>2 DEF IoWrite, IoRead, NoInput
<1>6. /\ state' = "disabled" /\ decodeCnt' = decodeCnt /\ executeCnt' = executeCnt
      /\ addr' = addr /\ err' = err
  BY <1>3, <1>5 DEF regs
<1>7. txData' \in Byte /\ wrEn' \in BOOLEAN /\ (wrEn' => ~tx.full) /\ (Prints <=> wrEn')
  <2>0. 0 \in Byte
    BY <1>1, PortTyped DEF TypeOK
  <2>1. CASE IoWrite(Io)
    <3>1. cpu \in CpuIo \cup {NoIo} /\ Io = cpu
      BY <1>1, PortIdle DEF TypeOK
    <3>2. Io.din \in Byte /\ 0 \in Byte
      <4>1. CASE cpu = NoIo
        BY <3>1, <4>1, Sizes DEF NoIo
      <4>2. CASE cpu \in CpuIo
        <5>1. cpu \in [en : BOOLEAN, wr : BOOLEAN, sel : {0, 4}, din : Byte]
          BY <4>2, HostAssumption
        <5>2. cpu.din \in Byte
          BY <5>1
        <5> QED BY <3>1, <5>2, Sizes
      <4> QED BY <3>1, <4>1, <4>2
    <3>3. Io.wr /\ wrEn' \in BOOLEAN /\ (wrEn' => ~tx.full) /\ (txData' = 0 \/ txData' = Io.din)
      BY <2>1 DEF IoWrite, Sends, Silent
    <3>4. txData' \in Byte
      BY <3>2, <3>3
    <3> QED BY <3>3, <3>4 DEF Prints
  <2>2. CASE IoRead(Io)
    <3>1. txData' = 0 /\ wrEn' = FALSE
      BY <2>2 DEF IoRead, Silent
    <3>2. txData' \in Byte
      BY <2>0, <3>1
    <3> QED BY <3>1, <3>2 DEF Prints
  <2> QED BY <1>4, <2>1, <2>2
<1>8. RegsOK'
  <2>1. /\ state \in States /\ decodeCnt \in 0 .. 7 /\ executeCnt \in CpuAddr /\ addr \in CpuAddr
        /\ err \in BOOLEAN /\ 0 \in Byte
    BY <1>1, PortTyped DEF TypeOK
  <2>2. state' \in States /\ decodeCnt' \in 0 .. 7 /\ executeCnt' \in CpuAddr /\ addr' \in CpuAddr
        /\ err' \in BOOLEAN
    BY <1>3, <1>6, <2>1
  <2>3. inData' \in Byte /\ inWrEn' \in BOOLEAN
    BY <1>5, <2>1
  <2> QED BY <1>7, <2>2, <2>3 DEF RegsOK
<1>9. Left \o (IF Prints THEN <<txData'>> ELSE <<>>) = Pending' \o <<>>
  <2>1. Pending' = (IF Prints THEN <<txData'>> ELSE <<>>)
    BY <1>7 DEF Pending
  <2>2. Pending' \in Seq(Byte)
    BY <1>7, OneByte, EmptySeq DEF Pending
  <2> QED BY <1>2, <2>1, <2>2, ConcatEmptySeq
<1>10. More = PendingIn' \o <<>>
  <2>1. PendingIn' = <<>>
    BY <1>5 DEF PendingIn
  <2> QED BY <1>2, <2>1, ConcatEmptySeq, EmptySeq
<1>11. wrEn' => ~tx'.full
  <2>1. (tx'.full <=> (tx.full /\ ~popped) \/ (Len(tx.items) = TxSlots - 1 /\ wrEn))
    BY <1>1, ReplyClock
  <2>2. wrEn => Len(tx.items) # TxSlots - 1
    <3>1. TxSlots - 1 # 0
      BY HostAssumption, HciAssumption
    <3> QED BY <1>3, <3>1, EmptySeq
  <2> QED BY <1>7, <2>1, <2>2
<1>12. <<>> \in Seq(Byte) /\ state' \notin Blind /\ ~inWrEn' /\ qIoEn'
  BY <1>3, <1>5, <1>6, EmptySeq DEF Blind
<1>13. /\ TypeOK' /\ LineInv' /\ ReplyInv' /\ InputInv' /\ RoomInv' /\ PortInv'
       /\ Left' = <<>> /\ More' = <<>>
  BY <1>8, <1>9, <1>10, <1>11, <1>12, Assemble
<1>14. Rest' = <<>>
  BY <1>1, <1>2, LineClock
<1>15. ram' = ram
  <2>1. Unanswered => tx'.items = <<>>
    BY <1>1, ReplyClock
  <2> QED BY <1>1, <1>2, <2>1, RamClocked
<1>16. image' = image /\ running' = running /\ badOp' = badOp
  BY DEF Clock
<1>17. Idle(h)' /\ h = Current'
  <2>1. h = Current'
    BY <1>2, <1>13, <1>14, <1>16 DEF Current
  <2>2. h.rest = <<>> /\ h.left = <<>> /\ h.more = <<>> /\ h.image = ram /\ h.running /\ (h.badOp <=> err)
    BY <1>2, <1>3 DEF Idle
  <2>3. Idle(h)'
    BY <1>6, <1>15, <2>2 DEF Idle, BetweenPackets
  <2> QED BY <2>1, <2>3
<1>18. Exchange'
  BY <1>17 DEF Exchange, Phase, Knows
<1> QED BY <1>13, <1>18 DEF HostInv

(* What both clocks of the packet machine rest on.                         *)
LEMMA PacketFacts ==
  ASSUME HostInv, NEW arrives \in BOOLEAN, NEW popped \in BOOLEAN, Clock(arrives, popped),
         NEW h, Knows(h), ~IoEdge(Io)
  PROVE  /\ TypeOK /\ LineInv /\ ReplyInv /\ InputInv /\ RoomInv /\ PortInv
         /\ Packets(Io) /\ ~Prints /\ (Got => state \in Waiting /\ rdData \in Byte)
         /\ h \in View /\ Phase(h) /\ GoesOn(h) /\ DataClock
         /\ wrEn' => \/ Unanswered \/ state \in Blind
                     \/ ~wrEn /\ ~tx.full
         /\ state' = "disabled" => ~inWrEn' /\ (wrEn' => Unanswered)
         /\ state' \in Blind /\ state \notin Blind =>
              ~wrEn' /\ Unanswered /\ Len(h.left) <= TxSlots
         /\ wrEn' \in BOOLEAN /\ inWrEn' \in BOOLEAN
         /\ \A g \in View : Phase(g)' => RegsOK'
<1>1. TypeOK /\ LineInv /\ ReplyInv /\ InputInv /\ RoomInv /\ PortInv /\ HciTypeOK
  BY DEF HostInv, TypeOK
<1>2. Got => state \in Waiting /\ h.rest # <<>> /\ rdData = Head(h.rest)
  BY <1>1, TakesByte
<1>3. Got => rdData \in Byte
  BY <1>1, <1>2, LineClock
<1>4. Packets(Io) /\ ~Prints
  BY DEF Clock, HciClock, IoWrite, IoRead, Prints
<1>5. Unanswered => tx'.items = <<>>
  BY <1>1, ReplyClock
<1>6. DataClock
  BY <1>1, <1>3, <1>5, RamClocked
<1>7. h \in View /\ Phase(h)
  BY DEF Knows
<1>8. h.more # <<>> => ~ioIn.full
  <2>1. More # <<>> => ~ioIn.full
    BY <1>1, InputClock
  <2>2. h.more # <<>> => More # <<>>
    <3>1. CASE h = Current
      BY <3>1 DEF Current
    <3>2. ASSUME NEW p \in HostPackets, Overtaken(h, p) PROVE h.more # <<>> => More # <<>>
      <4>1. h.more \in Seq(Byte) /\ Inputs(p) \in Seq(Byte) /\ More = h.more \o Inputs(p)
        BY <1>7, <3>2, HostAssumption, EmptySeq DEF View, Overtaken, Inputs, WellFormed
      <4> QED BY <4>1, HeadOfConcat
    <3> QED BY <3>1, <3>2 DEF Knows
  <2> QED BY <2>1, <2>2
<1>9. Fits(h)
  BY <1>2, <1>8 DEF Fits
<1>10. GoesOn(h)
  BY <1>1, <1>4, <1>6, <1>7, <1>9, PacketStep
<1>11. /\ wrEn' => \/ Unanswered \/ state \in Blind
                   \/ ~wrEn /\ ~tx.full
       /\ state' = "disabled" => ~inWrEn' /\ (wrEn' => Unanswered)
       /\ state' \in Blind /\ state \notin Blind =>
              ~wrEn' /\ Unanswered /\ Len(h.left) <= TxSlots
  BY <1>1, <1>4, <1>7, <1>9, WritesWhen
<1>12. ASSUME NEW g \in View, Phase(g)' PROVE RegsOK'
  <2>1. /\ state' \in States /\ decodeCnt' \in 0 .. 7 /\ executeCnt' \in CpuAddr
        /\ addr' \in CpuAddr /\ err' \in BOOLEAN
        /\ txData' \in Byte /\ wrEn' \in BOOLEAN /\ inData' \in Byte /\ inWrEn' \in BOOLEAN
    BY <1>1, <1>3, <1>4, <1>12, RegsTyped
  <2> QED BY <2>1 DEF RegsOK
<1>13. wrEn' \in BOOLEAN /\ inWrEn' \in BOOLEAN
  <2>1. wrEn' \in BOOLEAN
    BY <1>4 DEF Packets, NoByte, Disabled, DecodeOpcode, ShortHeader, Echo, InputByte, QueryErrCode,
                RegReadStart, RegRead, MemHeader, MemReadWait, MemRead, MemWrite, Sends, Silent
  <2>2. inWrEn' \in BOOLEAN
    BY <1>4 DEF Packets, NoByte, Disabled, DecodeOpcode, ShortHeader, Echo, InputByte, QueryErrCode,
                RegReadStart, RegRead, MemHeader, MemReadWait, MemRead, MemWrite, Buffers, NoInput
  <2> QED BY <2>1, <2>2
<1> QED BY <1>1, <1>2, <1>3, <1>4, <1>6, <1>7, <1>10, <1>11, <1>12, <1>13

(* What is written is the first of what there was to write.                *)
LEMMA WrittenFirst ==
  ASSUME NEW s \in Seq(Byte), NEW w \in BOOLEAN, NEW v, w => s # <<>> /\ v = Head(s)
  PROVE  /\ s = (IF w THEN <<v>> ELSE <<>>) \o (IF w THEN Tail(s) ELSE s)
         /\ (IF w THEN Tail(s) ELSE s) \in Seq(Byte)
BY HeadAndTail, HeadTailProperties, ConcatEmptySeq

(* A clock of the packet machine while the view is that of one exchange.   *)
LEMMA CurrentClock ==
  ASSUME HostInv, NEW arrives \in BOOLEAN, NEW popped \in BOOLEAN, Clock(arrives, popped),
         NEW h, Knows(h), ~IoEdge(Io), h = Current
  PROVE  HostInv'
<1>1. /\ TypeOK /\ LineInv /\ ReplyInv /\ InputInv /\ RoomInv /\ PortInv
      /\ Packets(Io) /\ ~Prints /\ (Got => state \in Waiting /\ rdData \in Byte)
      /\ h \in View /\ GoesOn(h) /\ wrEn' \in BOOLEAN /\ inWrEn' \in BOOLEAN
      /\ \A g \in View : Phase(g)' => RegsOK'
  BY PacketFacts
<1>2. /\ wrEn' => \/ Unanswered \/ state \in Blind
                  \/ ~wrEn /\ ~tx.full
      /\ state' = "disabled" => ~inWrEn' /\ (wrEn' => Unanswered)
      /\ state' \in Blind /\ state \notin Blind => Unanswered /\ Len(Left) <= TxSlots
  <2>1. h.left = Left
    BY DEF Current
  <2> QED BY <2>1, PacketFacts
<1>3. /\ Rest \in Seq(Byte) /\ Left \in Seq(Byte) /\ More \in Seq(Byte)
      /\ h.rest = Rest /\ h.left = Left /\ h.more = More /\ h.image = image
      /\ h.running = running /\ h.badOp = badOp
  BY <1>1, CurrentTyped DEF Current
<1>4. SendsRight(h)
  BY <1>1 DEF GoesOn
<1>5. PICK x \in Seq(Byte) : x = IF wrEn' THEN Tail(Left) ELSE Left
  BY <1>1, <1>3, <1>4, WrittenFirst DEF SendsRight
<1>6. PICK y \in Seq(Byte) : y = IF inWrEn' THEN Tail(More) ELSE More
  BY <1>1, <1>3, <1>4, WrittenFirst DEF SendsRight
<1>7. Left = Pending' \o x /\ More = PendingIn' \o y
  BY <1>1, <1>3, <1>4, <1>5, <1>6, WrittenFirst DEF SendsRight, Pending, PendingIn
<1>8. Rest' \in Seq(Byte) /\ Rest' = IF Got /\ state \in Waiting THEN Tail(Rest) ELSE Rest
  <2>1. CASE Got
    <3>1. Rest = <<rdData>> \o out /\ Rest' = out /\ out \in Seq(Byte)
      BY <1>1, <2>1, LineClock, CurrentTyped
    <3>2. Tail(Rest) = out
      BY <1>1, <2>1, <3>1, OneByte, HeadOfConcat, ConcatEmptySeq
    <3> QED BY <1>1, <2>1, <3>1, <3>2
  <2>2. CASE ~Got
    BY <1>1, <1>3, <2>2, LineClock
  <2> QED BY <2>1, <2>2
<1>9. image' = image /\ running' = running /\ badOp' = badOp
  BY DEF Clock
<1>10. PICK r \in Seq(Byte) : r = Rest'
  BY <1>8
<1>11. PICK g \in View : g = [h EXCEPT !.rest = r, !.left = x, !.more = y]
  BY <1>1 DEF View
<1>12. /\ g.rest = r /\ g.left = x /\ g.more = y /\ g.image = image /\ g.running = running
       /\ g.badOp = badOp
       /\ g = [rest |-> r, left |-> x, more |-> y, image |-> image, running |-> running, badOp |-> badOp]
  BY <1>1, <1>3, <1>11 DEF View
<1>13. Moves(h, g)
  BY <1>3, <1>5, <1>6, <1>8, <1>10, <1>12 DEF Moves
<1>14. Phase(g)' /\ RegsOK'
  BY <1>1, <1>13 DEF GoesOn
<1>15. Left \o (IF Prints THEN <<txData'>> ELSE <<>>) = Pending' \o x
  BY <1>1, <1>3, <1>7, ConcatEmptySeq
<1>16. wrEn' => ~tx'.full
  <2> SUFFICES ASSUME wrEn' PROVE ~tx'.full
    OBVIOUS
  <2>1. /\ (tx'.full <=> (tx.full /\ ~popped) \/ (Len(tx.items) = TxSlots - 1 /\ wrEn))
        /\ (Unanswered => ~tx'.full) /\ Len(Pending) = (IF wrEn THEN 1 ELSE 0)
        /\ Len(tx.items) \in Nat
    BY <1>1, ReplyClock
  <2>2. CASE state \in Blind
    <3>1. Left # <<>> /\ Len(Left) \in Nat \ {0}
      BY <1>3, <1>4, EmptySeq DEF SendsRight
    <3>2. /\ Len(tx.items) + Len(Pending) + Len(Left) <= TxSlots /\ ~tx.full
      BY <1>1, <2>2, <3>1 DEF RoomInv, Blind
    <3>3. wrEn => Len(tx.items) # TxSlots - 1
      <4> DEFINE a == Len(tx.items)
                 b == Len(Pending)
                 c == Len(Left)
      <4> SUFFICES ASSUME wrEn PROVE a # TxSlots - 1
        OBVIOUS
      <4>1. a \in Nat /\ b = 1 /\ c \in Nat \ {0} /\ a + b + c <= TxSlots /\ TxSlots \in Nat
        BY <2>1, <3>1, <3>2, HciAssumption
      <4> HIDE DEF a, b, c
      <4> QED BY <4>1
    <3> QED BY <2>1, <3>2, <3>3
  <2> QED BY <1>2, <2>1, <2>2
<1>17. state' \in Blind => ~Prints /\ \/ state \in Blind
                                      \/ Unanswered /\ Len(Left) <= TxSlots
  BY <1>1, <1>2
<1>18. state' = "disabled" => ~inWrEn' /\ (~qIoEn' /\ wrEn' => tx'.items = <<>>)
  <2>1. Unanswered => tx'.items = <<>>
    BY <1>1, ReplyClock
  <2> QED BY <1>2, <2>1
<1>19. /\ TypeOK' /\ LineInv' /\ ReplyInv' /\ InputInv' /\ RoomInv' /\ PortInv'
       /\ Left' = x /\ More' = y
  BY <1>7, <1>14, <1>15, <1>16, <1>17, <1>18, Assemble
<1>20. g = Current'
  BY <1>9, <1>10, <1>12, <1>19 DEF Current
<1>21. Exchange'
  BY <1>14, <1>20 DEF Exchange
<1> QED BY <1>19, <1>21 DEF HostInv

(* A clock that takes the last byte of a packet after the next is sent.    *)
LEMMA OvertakenClock ==
  ASSUME HostInv, NEW arrives \in BOOLEAN, NEW popped \in BOOLEAN, Clock(arrives, popped),
         NEW h, Knows(h), ~IoEdge(Io), NEW p \in HostPackets, Overtaken(h, p)
  PROVE  HostInv'
<1>1. /\ TypeOK /\ LineInv /\ ReplyInv /\ InputInv /\ RoomInv /\ PortInv
      /\ Packets(Io) /\ ~Prints /\ (Got => state \in Waiting /\ rdData \in Byte)
      /\ h \in View /\ GoesOn(h) /\ DataClock /\ wrEn' \in BOOLEAN /\ inWrEn' \in BOOLEAN
      /\ (state' = "disabled" => ~inWrEn')
      /\ \A g \in View : Phase(g)' => RegsOK'
  BY PacketFacts
<1>2. /\ h.rest = rx.items /\ rx.items # <<>> /\ h.left = <<>> /\ out = Encode(p) /\ Unanswered
      /\ Left = ReplyTo(Current, p) /\ More = h.more \o Inputs(p) /\ image = Uploads(p, h.image)
      /\ (h.running => p.op \in {"brk", "query_brk"}) /\ (running <=> Mode(p, h.running))
      /\ (badOp <=> (h.badOp \/ p.op = "unknown"))
  BY DEF Overtaken
<1>3. Got
  BY <1>1, <1>2 DEF Got, LineInv
<1>4. /\ rx.items = <<rdData>> /\ rx'.items = <<>> /\ out' = out /\ Rest' = out /\ state \in Waiting
  BY <1>1, <1>3, LineClock
<1>5. h.rest = <<rdData>> /\ Tail(h.rest) = <<>>
  BY <1>1, <1>2, <1>3, <1>4, OneByte
<1>6. SendsRight(h) /\ ~wrEn'
  BY <1>1, <1>2 DEF GoesOn, SendsRight
<1>7. WellFormed(p) /\ Inputs(p) \in Seq(Byte) /\ h.more \in Seq(Byte) /\ Left \in Seq(Byte)
      /\ out \in Seq(Byte)
  BY <1>1, HostAssumption, EmptySeq, CurrentTyped DEF Inputs, WellFormed, View
<1>8. PICK y \in Seq(Byte) : y = IF inWrEn' THEN Tail(h.more) ELSE h.more
  BY <1>1, <1>6, <1>7, WrittenFirst DEF SendsRight
<1>9. h.more = PendingIn' \o y
  BY <1>1, <1>6, <1>7, <1>8, WrittenFirst DEF SendsRight, PendingIn
<1>10. PICK g \in View : g = [h EXCEPT !.rest = <<>>, !.left = <<>>, !.more = y]
  BY <1>1, EmptySeq DEF View
<1>11. /\ g.rest = <<>> /\ g.left = <<>> /\ g.more = y /\ g.image = h.image
       /\ g.running = h.running /\ g.badOp = h.badOp
  BY <1>1, <1>10 DEF View
<1>12. Moves(h, g)
  BY <1>2, <1>3, <1>4, <1>5, <1>6, <1>8, <1>11 DEF Moves
<1>13. Phase(g)' /\ RegsOK'
  BY <1>1, <1>12 DEF GoesOn
<1>14. Idle(g)'
  <2>1. executeCnt' \in Nat
    BY <1>13, Sizes DEF RegsOK, CpuAddr
  <2> QED BY <1>11, <1>13, <2>1, RestedNext DEF RestedIsIdle
<1>15. /\ BetweenPackets' /\ y = <<>> /\ g.image = ram'
       /\ (g.running <=> state' = "disabled") /\ (g.badOp <=> err')
  BY <1>11, <1>14 DEF Idle
<1>16. More = PendingIn' \o Inputs(p)
  <2>1. PendingIn' \in Seq(Byte)
    <3>1. inData' \in Byte
      BY <1>13 DEF RegsOK
    <3> QED BY <3>1, OneByte, EmptySeq DEF PendingIn
  <2>2. h.more = PendingIn'
    BY <1>9, <1>15, <2>1, ConcatEmptySeq
  <2> QED BY <1>2, <2>2
<1>17. Left \o (IF Prints THEN <<txData'>> ELSE <<>>) = Pending' \o Left
  <2>1. Pending' = <<>>
    BY <1>6 DEF Pending
  <2> QED BY <1>1, <1>7, <2>1, ConcatEmptySeq
<1>18. state' \notin Blind
  BY <1>15 DEF BetweenPackets, Blind
<1>19. /\ TypeOK' /\ LineInv' /\ ReplyInv' /\ InputInv' /\ RoomInv' /\ PortInv'
       /\ Left' = Left /\ More' = Inputs(p)
  BY <1>1, <1>6, <1>7, <1>13, <1>16, <1>17, <1>18, Assemble
<1>20. image' = image /\ running' = running /\ badOp' = badOp
  BY DEF Clock
<1>21. PICK f \in View : f = [rest |-> out, left |-> Left, more |-> Inputs(p), image |-> image,
                              running |-> running, badOp |-> badOp]
  BY <1>1, <1>7 DEF View, TypeOK
<1>22. f = Current'
  BY <1>4, <1>19, <1>20, <1>21 DEF Current
<1>23. Sent(f, p)'
  <2>1. /\ f.rest = Encode(p) /\ f.left = Left /\ f.more = Inputs(p) /\ f.image = image
        /\ f.running = running /\ f.badOp = badOp
    BY <1>2, <1>21
  <2>2. ReplyTo(f, p) = ReplyTo(Current, p)
    BY <2>1 DEF ReplyTo, Current
  <2>3. f.left = ReplyTo(f, p) /\ f.image = Uploads(p, ram')
    BY <1>2, <1>11, <1>15, <2>1, <2>2
  <2>4. Unanswered'
    BY <1>1, <1>2, <1>6 DEF DataClock, Unanswered
  <2>5. Asked(f, p)'
    <3>1. (ReplyTo(f, p))' = ReplyTo(f, p) /\ (Inputs(p))' = Inputs(p) /\ (Uploads(p, ram))' = Uploads(p, ram')
      BY DEF ReplyTo, Inputs, Uploads, Offset
    <3> QED BY <2>1, <2>3, <2>4, <3>1 DEF Asked
  <2>6. /\ state' = "disabled" => p.op \in {"brk", "query_brk"}
        /\ f.running <=> Mode(p, state' = "disabled")
        /\ f.badOp <=> (err' \/ p.op = "unknown")
    BY <1>2, <1>11, <1>15, <2>1 DEF Mode
  <2>7. (Encode(p))' = Encode(p)
    BY DEF Encode
  <2> QED BY <1>15, <2>1, <2>5, <2>6, <2>7 DEF Sent, Mode
<1>24. Exchange'
  BY <1>22, <1>23 DEF Exchange, Phase
<1> QED BY <1>19, <1>24 DEF HostInv

-----------------------------------------------------------------------------
(* The steps of the system.                                                *)
LEMMA ClockStep ==
  ASSUME HostInv, NEW arrives \in BOOLEAN, NEW popped \in BOOLEAN, Clock(arrives, popped)
  PROVE  HostInv'
<1>1. PICK h \in View : Phase(h) /\ (h = Current \/ \E p \in HostPackets : Overtaken(h, p))
  BY DEF HostInv, Exchange
<1>2. Knows(h)
  BY <1>1 DEF Knows
<1>3. CASE IoEdge(Io)
  BY <1>2, <1>3, EdgeClock
<1>4. CASE ~IoEdge(Io) /\ h = Current
  BY <1>2, <1>4, CurrentClock
<1>5. CASE ~IoEdge(Io) /\ \E p \in HostPackets : Overtaken(h, p)
  BY <1>2, <1>5, OvertakenClock
<1> QED BY <1>1, <1>3, <1>4, <1>5

(* While the interface stands still a view keeps its phase.                *)
LEMMA SamePhase ==
  ASSUME NEW h, Phase(h), UNCHANGED hciVars
  PROVE  Phase(h)'
<1>1. /\ state' = state /\ decodeCnt' = decodeCnt /\ executeCnt' = executeCnt
      /\ addr' = addr /\ err' = err /\ ram' = ram /\ ramQ' = ramQ /\ tx' = tx /\ wrEn' = wrEn
  BY DEF hciVars, regs, ramVars
<1>2. ASSUME NEW p \in HostPackets
      PROVE  Asked(h, p) => Asked(h, p)'
  BY <1>1 DEF Asked, Unanswered, ReplyTo, Uploads, Offset
<1>3. CASE Idle(h)
  BY <1>1, <1>3 DEF Phase, Idle, BetweenPackets
<1>4. CASE InBody(h)
  BY <1>1, <1>4 DEF Phase, InBody, EchoBody, InputBody, WriteBody, ReadBody, RegBody, ErrBody, Ahead
<1>5. ASSUME NEW p \in HostPackets, Sent(h, p)
      PROVE  Phase(h)'
  <2>1. Sent(h, p)'
    BY <1>1, <1>2, <1>5 DEF Sent, BetweenPackets, Encode
  <2> QED BY <2>1 DEF Phase
<1>6. ASSUME NEW p \in HostPackets, InHeader(h, p)
      PROVE  Phase(h)'
  <2>1. InHeader(h, p)'
    BY <1>1, <1>2, <1>6 DEF InHeader, ShortAsked, MemAsked, Unread, Encode
  <2> QED BY <2>1 DEF Phase
<1> QED BY <1>3, <1>4, <1>5, <1>6 DEF Phase

LEMMA SamePort ==
  ASSUME HciTypeOK, UNCHANGED hciVars
  PROVE  /\ HciTypeOK' /\ state' = state /\ qIoEn' = qIoEn /\ tx' = tx /\ rx' = rx /\ ioIn' = ioIn
         /\ wrEn' = wrEn /\ txData' = txData /\ inWrEn' = inWrEn /\ inData' = inData
         /\ ram' = ram /\ Pending' = Pending /\ PendingIn' = PendingIn
<1>1. /\ state' = state /\ decodeCnt' = decodeCnt /\ executeCnt' = executeCnt
      /\ addr' = addr /\ err' = err /\ ram' = ram /\ ramQ' = ramQ /\ qIoEn' = qIoEn
      /\ tx' = tx /\ rx' = rx /\ ioIn' = ioIn
      /\ wrEn' = wrEn /\ txData' = txData /\ inWrEn' = inWrEn /\ inData' = inData
  BY DEF hciVars, regs, ramVars
<1>2. (RxFifo!FifoTypeOK)' /\ (TxFifo!FifoTypeOK)' /\ (InFifo!FifoTypeOK)' /\ RamTypeOK'
  BY <1>1 DEF HciTypeOK, RxFifo!FifoTypeOK, TxFifo!FifoTypeOK, InFifo!FifoTypeOK, RamTypeOK
<1>3. HciTypeOK'
  BY <1>1, <1>2 DEF HciTypeOK
<1> QED BY <1>1, <1>3 DEF Pending, PendingIn

(* A step of the CPU or the host's stuttering: only cpu changes.           *)
LEMMA CpuStep ==
  ASSUME HostInv, UNCHANGED <<hciVars, gap, hostVars>>, cpu' \in CpuIo \cup {NoIo},
         cpu' # NoIo => Quiet /\ running
  PROVE  HostInv'
<1>1. TypeOK /\ LineInv /\ ReplyInv /\ InputInv /\ RoomInv /\ PortInv /\ HciTypeOK
  BY DEF HostInv, TypeOK
<1>2. /\ running' = running /\ out' = out /\ owed' = owed /\ image' = image /\ inputs' = inputs
      /\ badOp' = badOp /\ gap' = gap /\ UNCHANGED hciVars
  BY DEF hostVars
<1>3. /\ HciTypeOK' /\ state' = state /\ qIoEn' = qIoEn /\ tx' = tx /\ rx' = rx /\ ioIn' = ioIn
      /\ wrEn' = wrEn /\ txData' = txData /\ inWrEn' = inWrEn /\ inData' = inData
      /\ ram' = ram /\ Pending' = Pending /\ PendingIn' = PendingIn
  BY <1>1, <1>2, SamePort
<1>4. Rest' = Rest /\ Left' = Left /\ More' = More
  BY <1>2, <1>3 DEF Rest, Left, More
<1>5. TypeOK'
  <2>1. NoIo' = NoIo
    BY DEF NoIo
  <2> QED BY <1>1, <1>2, <1>3, <2>1 DEF TypeOK
<1>6. LineInv' /\ ReplyInv' /\ InputInv' /\ RoomInv'
  BY <1>1, <1>2, <1>3, <1>4 DEF LineInv, ReplyInv, InputInv, RoomInv
<1>7. PortInv'
  BY <1>1, <1>2, <1>3 DEF PortInv, Quiet, NoIo
<1>8. PICK h \in View : Phase(h) /\ (h = Current \/ \E p \in HostPackets : Overtaken(h, p))
  BY DEF HostInv, Exchange
<1>9. Phase(h)'
  BY <1>2, <1>8, SamePhase
<1>10. Current' = Current
  BY <1>2, <1>4 DEF Current
<1>11. ASSUME NEW p \in HostPackets, Overtaken(h, p) PROVE Overtaken(h, p)'
  <2>1. (ReplyTo(Current, p))' = ReplyTo(Current, p)
    BY <1>10 DEF ReplyTo
  <2> QED BY <1>2, <1>3, <1>4, <1>11, <2>1 DEF Overtaken, Unanswered, Encode, Inputs, Uploads, Offset, Mode
<1>12. Exchange'
  BY <1>8, <1>9, <1>10, <1>11 DEF Exchange
<1> QED BY <1>5, <1>6, <1>7, <1>12 DEF HostInv

(* A view of a quiet line between packets is idle.                         *)
LEMMA QuietIsIdle ==
  ASSUME TypeOK, LineInv, NEW h, Knows(h), Quiet, BetweenPackets
  PROVE  h = Current /\ Idle(h) /\ Left = <<>> /\ More = <<>> /\ image = ram
         /\ (running <=> state = "disabled")
<1>1. h = Current
  BY DEF Knows, Overtaken, Quiet
<1>2. Rest = <<>>
  BY ConcatEmptySeq, EmptySeq DEF Rest, Quiet
<1>3. /\ h.rest = <<>> /\ h.left = Left /\ h.more = More /\ h.image = image
      /\ h.running = running
  BY <1>1, <1>2 DEF Current
<1>4. \A p \in HostPackets : ~Sent(h, p)
  BY <1>3, PacketBytes, HostAssumption DEF Sent
<1>5. Idle(h)
  BY <1>4, PhaseOfState DEF Knows
<1> QED BY <1>1, <1>3, <1>5 DEF Idle

(* What the host sends, and what it is to hear.                            *)
LEMMA Replies ==
  ASSUME TypeOK, NEW p, WellFormed(p)
  PROVE  Reply(p) \in Seq(Byte) /\ Uploads(p, image) \in [CpuAddr -> Byte]
<1>1. /\ p.data \in Seq(Byte) /\ p.n \in Nat /\ p.addr \in Nat /\ RamBytes \in Nat \ {0}
      /\ image \in [CpuAddr -> Byte] /\ CpuAddr = 0 .. RamBytes - 1
      /\ 0 \in Byte /\ 1 \in Byte /\ 2 \in Byte
  <2>1. Base * Base \in Nat
    BY Sizes
  <2> QED BY <2>1, Sizes DEF WellFormed, TypeOK, CpuAddr
<1>2. CASE p.op = "mem_rd"
  <2> DEFINE s == [i \in 1 .. p.n |-> image[(p.addr + i - 1) % RamBytes]]
  <2>1. ASSUME NEW i \in 1 .. p.n PROVE (p.addr + i - 1) % RamBytes \in CpuAddr
    <3>1. p.addr + i - 1 \in Int
      BY <1>1
    <3> QED BY <1>1, <3>1
  <2>2. s \in [1 .. p.n -> Byte]
    BY <1>1, <2>1
  <2>3. s \in Seq(Byte)
    BY <1>1, <2>2, SeqDef
  <2>4. Reply(p) = s
    BY <1>2 DEF Reply
  <2> QED BY <1>1, <1>2, <2>3, <2>4 DEF Uploads
<1>3. CASE p.op = "mem_wr"
  <2>1. ASSUME NEW a \in CpuAddr, Offset(p, a) <= p.n PROVE p.data[Offset(p, a)] \in Byte
    <3>1. (a - p.addr) % RamBytes \in Nat
      BY <1>1
    <3>2. Offset(p, a) \in 1 .. Len(p.data)
      BY <1>1, <1>3, <2>1, <3>1 DEF Offset, WellFormed
    <3> QED BY <1>1, <3>2, ElementOfSeq
  <2>2. Uploads(p, image) \in [CpuAddr -> Byte]
    BY <1>1, <1>3, <2>1 DEF Uploads
  <2> QED BY <1>3, <2>2, EmptySeq DEF Reply
<1>4. CASE p.op = "reg_rd"
  <2> DEFINE s == [i \in 1 .. 4 |-> DbgReg[i - 1]]
  <2>1. DbgReg \in [0 .. 3 -> Byte]
    BY HciAssumption
  <2>2. s \in [1 .. 4 -> Byte]
    BY <2>1
  <2>3. s \in Seq(Byte)
    BY <2>2, SeqDef
  <2>4. Reply(p) = s
    BY <1>4 DEF Reply
  <2> QED BY <1>1, <1>4, <2>3, <2>4 DEF Uploads
<1>5. CASE p.op \notin {"mem_rd", "mem_wr", "reg_rd"}
  <2>1. Uploads(p, image) = image
    BY <1>5 DEF Uploads
  <2>2. Reply(p) \in {p.data, <<IF running THEN 0 ELSE 1>>, <<IF badOp THEN 2 ELSE 0>>, <<>>}
    BY <1>5 DEF Reply
  <2> QED BY <1>1, <2>1, <2>2, OneByte, EmptySeq
<1> QED BY <1>2, <1>3, <1>4, <1>5

LEMMA SendStep ==
  ASSUME HostInv, SendPacket
  PROVE  HostInv'
<1>1. TypeOK /\ LineInv /\ ReplyInv /\ InputInv /\ RoomInv /\ PortInv /\ HciTypeOK
  BY DEF HostInv, TypeOK
<1>2. /\ out = <<>> /\ owed = <<>> /\ UNCHANGED hciVars /\ cpu' = cpu /\ gap' = gap
  BY DEF SendPacket
<1>3. PICK p \in HostPackets :
        /\ running => p.op \in {"brk", "query_brk"} /\ cpu = NoIo
        /\ p.op = "io_in" => Len(inputs) + p.n <= InSlots
        /\ out' = Encode(p) /\ owed' = Reply(p)
        /\ running' = IF p.op \in {"run", "brk"} THEN p.op = "run" ELSE running
        /\ image' = Uploads(p, image)
        /\ inputs' = IF p.op = "io_in" THEN inputs \o p.data ELSE inputs
        /\ badOp' = (badOp \/ p.op = "unknown")
  BY DEF SendPacket, Uploads
<1>4. /\ HciTypeOK' /\ state' = state /\ qIoEn' = qIoEn /\ tx' = tx /\ rx' = rx /\ ioIn' = ioIn
      /\ wrEn' = wrEn /\ txData' = txData /\ inWrEn' = inWrEn /\ inData' = inData
      /\ ram' = ram /\ Pending' = Pending /\ PendingIn' = PendingIn
  BY <1>1, <1>2, SamePort
<1>5. /\ rx.items \in Seq(Byte) /\ tx.items \in Seq(Byte) /\ ioIn.items \in Seq(Byte)
      /\ inputs \in Seq(Byte) /\ wrEn \in BOOLEAN /\ txData \in Byte
      /\ inWrEn \in BOOLEAN /\ inData \in Byte /\ running \in BOOLEAN /\ badOp \in BOOLEAN
      /\ Left \in Seq(Byte) /\ More \in Seq(Byte) /\ cpu \in CpuIo \cup {NoIo} /\ gap \in 0 .. Gap
      /\ executeCnt \in Nat
  BY <1>1, CurrentTyped, PortTyped DEF TypeOK, HciTypeOK, RxFifo!FifoTypeOK, TxFifo!FifoTypeOK, InFifo!FifoTypeOK
<1>6. /\ WellFormed(p) /\ Encode(p) \in Seq(Byte) /\ Encode(p) # <<>>
      /\ Reply(p) \in Seq(Byte) /\ Uploads(p, image) \in [CpuAddr -> Byte]
      /\ p.data \in Seq(Byte) /\ (p.op = "io_in" => Len(p.data) = p.n)
  BY <1>1, HostAssumption, PacketBytes, Replies DEF WellFormed
<1>7. Pending \in Seq(Byte) /\ PendingIn \in Seq(Byte)
  BY <1>5, OneByte, EmptySeq DEF Pending, PendingIn
<1>8. tx.items = <<>> /\ ~wrEn /\ Left = <<>> /\ Unanswered
  <2>1. owed = (tx.items \o Pending) \o Left
    BY <1>1 DEF ReplyInv
  <2>2. /\ tx.items \o Pending \in Seq(Byte)
        /\ (tx.items \o Pending # <<>> => (tx.items \o Pending) \o Left # <<>>)
        /\ (tx.items # <<>> => tx.items \o Pending # <<>>)
    BY <1>5, <1>7, AtFront, HeadOfConcat
  <2>3. tx.items = <<>> /\ tx.items \o Pending = <<>>
    BY <1>2, <2>1, <2>2
  <2>4. Pending = <<>>
    BY <1>7, <2>3, ConcatEmptySeq
  <2>5. ~wrEn
    BY <2>4, OneByte, <1>5 DEF Pending
  <2>6. Left = <<>>
    BY <1>2, <1>5, <2>1, <2>3, ConcatEmptySeq
  <2> QED BY <2>3, <2>5, <2>6 DEF Unanswered
<1>9. /\ Inputs(p) \in Seq(Byte) /\ inputs' = inputs \o Inputs(p) /\ inputs' \in Seq(Byte)
      /\ Len(inputs') <= InSlots
  <2>1. Inputs(p) \in Seq(Byte)
    BY <1>6, EmptySeq DEF Inputs
  <2>2. inputs' = inputs \o Inputs(p)
    BY <1>3, <1>5, ConcatEmptySeq DEF Inputs
  <2>3. Len(inputs') <= InSlots
    <3>1. CASE p.op = "io_in"
      <4>1. Len(inputs \o p.data) = Len(inputs) + Len(p.data)
        BY <1>5, <1>6, AtFront
      <4> QED BY <1>3, <1>6, <3>1, <4>1
    <3>2. CASE p.op # "io_in"
      BY <1>1, <1>3, <3>2 DEF InputInv
    <3> QED BY <3>1, <3>2
  <2> QED BY <1>5, <2>1, <2>2, <2>3, AtFront
<1>10. More' = More \o Inputs(p) /\ inputs' = (ioIn'.items \o PendingIn') \o More'
  <2> DEFINE s == ioIn.items \o PendingIn
             i == Inputs(p)
  <2>1. s \in Seq(Byte) /\ i \in Seq(Byte) /\ inputs = s \o More
    BY <1>1, <1>5, <1>7, <1>9, AtFront DEF InputInv
  <2> HIDE DEF s, i
  <2>2. (s \o More) \o i = s \o (More \o i)
    <3>1. \A u, v, w \in Seq(Byte) : (u \o v) \o w = u \o (v \o w)
      BY ByteConcat
    <3>2. s \in Seq(Byte) /\ More \in Seq(Byte) /\ i \in Seq(Byte)
      BY <1>5, <2>1
    <3> QED BY ONLY <3>1, <3>2, Zenon
  <2>3. inputs' = s \o (More \o i) /\ More \o i \in Seq(Byte)
    BY <1>5, <1>9, <2>1, <2>2, AtFront DEF i
  <2>4. inputs' = (ioIn'.items \o PendingIn') \o (More \o i)
    BY <1>4, <2>3 DEF s
  <2>5. More' = More \o i /\ inputs' = (ioIn'.items \o PendingIn') \o More'
    BY <1>4, <1>5, <2>3, <2>4, MoreNext
  <2> QED BY <2>5 DEF i
<1>11. Left' = Reply(p) /\ owed' = (tx'.items \o Pending') \o Left'
  <2>1. owed' = (tx'.items \o Pending') \o Reply(p)
    <3>1. tx'.items \o Pending' = <<>>
      BY <1>4, <1>7, <1>8, ConcatEmptySeq DEF Pending
    <3>2. <<>> \o Reply(p) = Reply(p)
      BY <1>6, ConcatEmptySeq
    <3> QED BY <1>3, <3>1, <3>2
  <2> QED BY <1>4, <1>5, <1>6, <2>1, LeftNext
<1>12. Reply(p) = (ReplyTo(Current, p))'
  <2>1. /\ Current'.image = image' /\ Current'.running = running' /\ Current'.badOp = badOp'
    BY DEF Current
  <2>2. /\ p.op = "mem_rd" => image' = image
        /\ p.op = "query_brk" => running' = running
        /\ p.op = "query_err" => badOp' = badOp
    BY <1>3, <1>5 DEF Uploads
  <2> QED BY <2>1, <2>2 DEF Reply, ReplyTo
<1>13. (running' <=> Mode(p, running)) /\ (badOp' <=> (badOp \/ p.op = "unknown"))
       /\ running' \in BOOLEAN /\ badOp' \in BOOLEAN
  BY <1>3, <1>5 DEF Mode
<1>14. TypeOK'
  <2>1. NoIo' = NoIo
    BY DEF NoIo
  <2>2. out' \in Seq(Byte) /\ owed' \in Seq(Byte) /\ inputs' \in Seq(Byte) /\ image' \in [CpuAddr -> Byte]
    BY <1>3, <1>6, <1>9
  <2> QED BY <1>2, <1>4, <1>5, <1>13, <2>1, <2>2 DEF TypeOK
<1>15. LineInv' /\ ReplyInv' /\ InputInv'
  BY <1>1, <1>2, <1>4, <1>9, <1>10, <1>11 DEF LineInv, ReplyInv, InputInv
<1>16. PICK h \in View : Phase(h) /\ (h = Current \/ \E q \in HostPackets : Overtaken(h, q))
  BY DEF HostInv, Exchange
<1>17. h = Current
  BY <1>2, <1>16, PacketBytes, HostAssumption DEF Overtaken
<1>18. /\ h.rest = rx.items /\ h.left = <<>> /\ h.more = More /\ h.image = image
       /\ h.running = running /\ h.badOp = badOp
  <2>1. Rest = rx.items
    BY <1>2, <1>5, ConcatEmptySeq DEF Rest
  <2> QED BY <1>8, <1>17, <2>1 DEF Current
<1>19. RoomInv'
  <2>1. state \notin Blind
    BY <1>16, <1>18, BlindOwes
  <2> QED BY <1>4, <2>1 DEF RoomInv, Blind
<1>20. PortInv'
  <2>1. cpu = NoIo
    BY <1>1, <1>3 DEF PortInv
  <2> QED BY <1>1, <1>2, <1>4, <2>1 DEF PortInv, NoIo
<1>21. CASE rx.items # <<>>
  <2>1. Phase(h)'
    BY <1>2, <1>16, SamePhase
  <2>2. (Encode(p))' = Encode(p) /\ (Inputs(p))' = Inputs(p)
        /\ (Uploads(p, h.image))' = Uploads(p, h.image)
    BY DEF Encode, Inputs, Uploads, Offset
  <2>3. Unanswered'
    BY <1>4, <1>8 DEF Unanswered
  <2>4. Overtaken(h, p)'
    BY <1>3, <1>4, <1>10, <1>11, <1>12, <1>13, <1>18, <1>21, <2>2, <2>3 DEF Overtaken, Mode
  <2>5. Exchange'
    BY <1>16, <2>1, <2>4 DEF Exchange
  <2> QED BY <1>14, <1>15, <1>19, <1>20, <2>5 DEF HostInv
<1>22. CASE rx.items = <<>>
  <2>1. Idle(h)
    BY <1>5, <1>16, <1>18, <1>22, RestedNow DEF RestedIsIdle
  <2>2. /\ BetweenPackets /\ More = <<>> /\ image = ram /\ (running <=> state = "disabled")
        /\ (badOp <=> err)
    BY <1>18, <2>1 DEF Idle
  <2>3. PICK g \in View : g = [rest |-> Encode(p), left |-> Reply(p), more |-> Inputs(p),
                               image |-> Uploads(p, image), running |-> running', badOp |-> badOp']
    BY <1>6, <1>9, <1>13 DEF View
  <2>4. /\ g.rest = Encode(p) /\ g.left = Reply(p) /\ g.more = Inputs(p)
        /\ g.image = Uploads(p, image) /\ g.running = running' /\ g.badOp = badOp'
    BY <2>3
  <2>5. g = Current'
    <3>1. Rest' = Encode(p)
      <4>1. Rest' = <<>> \o Encode(p)
        BY <1>3, <1>4, <1>22 DEF Rest
      <4> QED BY <1>6, <4>1, ConcatEmptySeq
    <3>2. More' = Inputs(p)
      BY <1>9, <1>10, <2>2, ConcatEmptySeq
    <3> QED BY <1>3, <1>11, <2>3, <3>1, <3>2 DEF Current
  <2>6. Asked(g, p)'
    <3>1. Unanswered'
      BY <1>4, <1>8 DEF Unanswered
    <3>2. (ReplyTo(g, p))' = Reply(p)
      BY <1>12, <2>5
    <3>3. (Inputs(p))' = Inputs(p) /\ (Uploads(p, ram))' = Uploads(p, image)
      BY <1>4, <2>2 DEF Inputs, Uploads, Offset
    <3> QED BY <2>4, <3>1, <3>2, <3>3 DEF Asked
  <2>7. Sent(g, p)'
    <3>1. (Encode(p))' = Encode(p)
      BY DEF Encode
    <3>2. err' = err /\ BetweenPackets'
      BY <1>2, <1>4, <2>2 DEF hciVars, regs, BetweenPackets
    <3> QED BY <1>3, <1>4, <1>13, <2>2, <2>4, <2>6, <3>1, <3>2 DEF Sent, Mode
  <2>8. Exchange'
    BY <2>5, <2>7 DEF Exchange, Phase
  <2> QED BY <1>14, <1>15, <1>19, <1>20, <2>8 DEF HostInv
<1> QED BY <1>21, <1>22

LEMMA StartIoStep ==
  ASSUME HostInv, StartIo
  PROVE  HostInv'
<1>1. TypeOK /\ LineInv
  BY DEF HostInv
<1>2. /\ state = "disabled" /\ Quiet /\ cpu' \in CpuIo /\ UNCHANGED <<hciVars, gap, hostVars>>
  BY DEF StartIo, Active
<1>3. PICK h \in View : Phase(h) /\ (h = Current \/ \E p \in HostPackets : Overtaken(h, p))
  BY DEF HostInv, Exchange
<1>4. running
  BY <1>1, <1>2, <1>3, QuietIsIdle DEF Knows, BetweenPackets
<1> QED BY <1>2, <1>4, CpuStep

LEMMA EndIoStep ==
  ASSUME HostInv, EndIo
  PROVE  HostInv'
<1>1. cpu' = NoIo' /\ UNCHANGED <<hciVars, gap, hostVars>>
  BY DEF EndIo, NoIo
<1> QED BY <1>1, CpuStep DEF NoIo

LEMMA Stutters ==
  ASSUME HostInv, UNCHANGED vars
  PROVE  HostInv'
<1>1. UNCHANGED <<hciVars, gap, hostVars>> /\ cpu' = cpu
  BY DEF vars
<1>2. cpu \in CpuIo \cup {NoIo} /\ (cpu # NoIo => Quiet /\ running)
  BY DEF HostInv, TypeOK, PortInv
<1> QED BY <1>1, <1>2, CpuStep

LEMMA InitInv ==
  ASSUME Init
  PROVE  HostInv
<1>1. /\ state = "decode" /\ decodeCnt = 0 /\ executeCnt = 0 /\ addr = 0 /\ err = FALSE
      /\ txData = 0 /\ wrEn = FALSE /\ inData = 0 /\ inWrEn = FALSE /\ qIoEn = FALSE
      /\ rx = [items |-> <<>>, empty |-> TRUE, full |-> FALSE]
      /\ tx = [items |-> <<>>, empty |-> TRUE, full |-> FALSE]
      /\ ioIn = [items |-> <<>>, empty |-> TRUE, full |-> FALSE]
      /\ ram = [a \in CpuAddr |-> 0] /\ ramQ = 0
      /\ cpu = NoIo /\ gap = 0 /\ running = FALSE /\ out = <<>> /\ owed = <<>>
      /\ image = ram /\ inputs = <<>> /\ badOp = FALSE
  BY DEF Init, HciInit, RamInit, RxFifo!Init, TxFifo!Init, InFifo!Init, RxFifo!EmptyFifo,
         TxFifo!EmptyFifo, InFifo!EmptyFifo
<1>2. 0 \in Byte /\ 0 \in CpuAddr /\ Gap \in Nat /\ RxSlots \in Nat /\ TxSlots \in Nat /\ InSlots \in Nat
      /\ TxSlots >= 4
  <2>1. RamBytes \in Nat \ {0}
    BY Sizes
  <2> QED BY <2>1, Sizes, HostAssumption, HciAssumption DEF CpuAddr
<1>3. /\ rx.items = <<>> /\ rx.empty /\ rx.empty \in BOOLEAN /\ ~rx.full /\ rx.full \in BOOLEAN
      /\ tx.items = <<>> /\ tx.empty /\ tx.empty \in BOOLEAN /\ ~tx.full /\ tx.full \in BOOLEAN
      /\ ioIn.items = <<>> /\ ioIn.empty /\ ioIn.empty \in BOOLEAN /\ ~ioIn.full /\ ioIn.full \in BOOLEAN
  BY <1>1
<1>4. Len(<<>>) = 0 /\ \A S : <<>> \in Seq(S)
  OBVIOUS
<1>5. (RxFifo!FifoTypeOK) /\ (TxFifo!FifoTypeOK) /\ (InFifo!FifoTypeOK)
  BY <1>2, <1>3, <1>4 DEF RxFifo!FifoTypeOK, TxFifo!FifoTypeOK, InFifo!FifoTypeOK
<1>6. RamTypeOK
  BY <1>1, <1>2 DEF RamTypeOK
<1>7. TypeOK
  <2>1. HciTypeOK
    <3>1. err \in BOOLEAN /\ wrEn \in BOOLEAN /\ inWrEn \in BOOLEAN /\ qIoEn \in BOOLEAN
      BY <1>1, Zenon
    <3>2. /\ state \in States /\ decodeCnt \in 0 .. 7 /\ executeCnt \in CpuAddr /\ addr \in CpuAddr
          /\ txData \in Byte /\ inData \in Byte
      BY <1>1, <1>2 DEF States
    <3> QED BY <1>5, <1>6, <3>1, <3>2 DEF HciTypeOK
  <2>2. image \in [CpuAddr -> Byte]
    BY <1>1, <1>6 DEF RamTypeOK
  <2>3. running \in BOOLEAN /\ badOp \in BOOLEAN
    BY <1>1, Zenon
  <2>4. /\ cpu \in CpuIo \cup {NoIo} /\ gap \in 0 .. Gap
        /\ out \in Seq(Byte) /\ owed \in Seq(Byte) /\ inputs \in Seq(Byte)
    BY <1>1, <1>2, <1>4
  <2> QED BY <2>1, <2>2, <2>3, <2>4 DEF TypeOK
<1>8. Pending = <<>> /\ PendingIn = <<>>
  BY <1>1 DEF Pending, PendingIn
<1>9. Rest = <<>> /\ Left = <<>> /\ More = <<>>
  <2>1. <<>> \o <<>> = <<>>
    BY <1>4, ConcatEmptySeq
  <2>2. SubSeq(<<>>, Len(<<>>) + 1, Len(<<>>)) = <<>>
    BY <1>4, <2>1, Behind
  <2> QED BY <1>1, <1>3, <1>8, <2>1, <2>2 DEF Rest, Left, More
<1>10. LineInv /\ ReplyInv /\ InputInv /\ RoomInv /\ PortInv
  <2>1. LineInv
    BY <1>3, <1>4 DEF LineInv
  <2>2. (<<>> \o <<>>) \o <<>> = <<>>
    BY <1>4, ConcatEmptySeq
  <2>3. ReplyInv /\ InputInv
    BY <1>1, <1>2, <1>3, <1>4, <1>8, <1>9, <2>2 DEF ReplyInv, InputInv
  <2> QED BY <1>1, <2>1, <2>3 DEF RoomInv, PortInv
<1>11. Idle(Current)
  BY <1>1, <1>9 DEF Idle, Current, BetweenPackets
<1>12. Exchange
  BY <1>7, <1>11, CurrentTyped DEF Exchange, Phase
<1> QED BY <1>7, <1>10, <1>12 DEF HostInv

LEMMA Invariance == Spec => []HostInv
<1>1. Init => HostInv
  BY InitInv
<1>2. HostInv /\ [Next]_vars => HostInv'
  <2> SUFFICES ASSUME HostInv, [Next]_vars PROVE HostInv'
    OBVIOUS
  <2>1. CASE SendPacket
    BY <2>1, SendStep
  <2>2. CASE StartIo
    BY <2>2, StartIoStep
  <2>3. CASE EndIo
    BY <2>3, EndIoStep
  <2>4. CASE ByteArrives
    BY <2>4, ClockStep DEF ByteArrives
  <2>5. CASE ByteLeaves
    BY <2>5, ClockStep DEF ByteLeaves
  <2>6. CASE NothingMoves
    BY <2>6, ClockStep DEF NothingMoves
  <2>7. CASE UNCHANGED vars
    BY <2>7, Stutters
  <2> QED BY <2>1, <2>2, <2>3, <2>4, <2>5, <2>6, <2>7 DEF Next
<1> QED BY <1>1, <1>2, PTL DEF Spec

-----------------------------------------------------------------------------
(* Every variable keeps its type; in particular no count, address or queue *)
(* of the machine leaves its range (hci.v 60-130, 326-557).                *)
THEOREM HostTypeCorrect == Spec => []TypeOK
<1>1. HostInv => TypeOK
  BY DEF HostInv
<1> QED BY <1>1, Invariance, PTL

(* Whenever the machine is at rest the RAM holds exactly what the host has *)
(* uploaded, and the input buffer the input uploaded and not yet read, in  *)
(* order, whatever packets, replies and accesses went before (hci.v        *)
(* 362-396, 502-557).                                                      *)
THEOREM UploadArrives == Spec => []Uploaded
<1>1. HostInv => Uploaded
  <2> SUFFICES ASSUME HostInv, AtRest PROVE ram = image /\ ioIn.items = inputs
    BY DEF Uploaded
  <2>1. TypeOK /\ LineInv /\ InputInv
    BY DEF HostInv
  <2>2. PICK h \in View : Phase(h) /\ (h = Current \/ \E p \in HostPackets : Overtaken(h, p))
    BY DEF HostInv, Exchange
  <2>3. More = <<>> /\ image = ram
    BY <2>1, <2>2, QuietIsIdle DEF Knows, AtRest
  <2>4. ioIn.items \in Seq(Byte) /\ PendingIn = <<>>
    BY <2>1 DEF TypeOK, HciTypeOK, InFifo!FifoTypeOK, AtRest, PendingIn
  <2>5. inputs = ioIn.items
    BY <2>1, <2>3, <2>4, ConcatEmptySeq DEF InputInv
  <2> QED BY <2>3, <2>5
<1> QED BY <1>1, Invariance, PTL

(* Each byte that leaves the transmit fifo is the next byte that the host  *)
(* waits for: replies and the program's output, each once and in order,    *)
(* none lost in a full fifo (hci.v 326-500).                               *)
THEOREM RepliesHeard == Spec => HostHears
<1>1. ASSUME HostInv, Next \/ UNCHANGED vars, tx'.items # tx.items, ByteLeaves
      PROVE  owed # <<>> /\ Head(owed) = Head(tx.items)
  <2>1. PICK arrives \in BOOLEAN : Clock(arrives, TRUE)
    BY <1>1 DEF ByteLeaves
  <2>2. TypeOK /\ ReplyInv
    BY <1>1 DEF HostInv
  <2>3. /\ tx.items # <<>> /\ tx.items \in Seq(Byte) /\ Pending \in Seq(Byte) /\ Left \in Seq(Byte)
    BY <2>1, <2>2, ReplyClock DEF TypeOK, HciTypeOK, TxFifo!FifoTypeOK
  <2>4. owed = (tx.items \o Pending) \o Left
    BY <2>2 DEF ReplyInv
  <2>5. /\ tx.items \o Pending \in Seq(Byte) /\ tx.items \o Pending # <<>>
        /\ Head(tx.items \o Pending) = Head(tx.items)
    BY <2>3, HeadOfConcat, AtFront
  <2> QED BY <2>3, <2>4, <2>5, HeadOfConcat
<1>2. HostInv /\ [Next]_vars
      => [tx'.items # tx.items /\ ByteLeaves => owed # <<>> /\ Head(owed) = Head(tx.items)]_vars
  BY <1>1
<1>3. [][Next]_vars /\ []HostInv => HostHears
  BY <1>2, PTL DEF HostHears
<1> QED BY <1>3, Invariance, PTL DEF Spec
=============================================================================
