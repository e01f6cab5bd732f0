----------------------------- MODULE IsaProofs -----------------------------
(***************************************************************************)
(* Proof that the CPU implements the sequential machine of Isa, for every  *)
(* program that keeps to its own instructions and accesses, every size and *)
(* every encoding of the instructions.                                     *)
(***************************************************************************)
EXTENDS CoreProofs, Integers, WellFoundedInduction

(* The least element of a set of numbers, and induction as it follows.     *)
LEMMA Least ==
  ASSUME NEW T \in SUBSET Nat, T # {}
  PROVE  \E x \in T : \A y \in T : ~(y < x)
<1>1. \E x \in T : \A y \in T : ~(<<y, x>> \in OpToRel(<, Nat))
  BY NatLessThanWellFounded, WFMin
<1> QED BY <1>1 DEF OpToRel

LEMMA Steps ==
  ASSUME NEW T, 0 \in T, \A n \in Nat : n \in T => n + 1 \in T
  PROVE  Nat \subseteq T
<1>1. ASSUME Nat \ T # {} PROVE FALSE
  <2>1. PICK x \in Nat \ T : \A y \in Nat \ T : ~(y < x)
    BY <1>1, Least
  <2>2. x - 1 \in Nat /\ x - 1 \in T
    BY <2>1
  <2> QED BY <2>1, <2>2
<1> QED BY <1>1

(* The number of a set of bits is a word's.                                *)
LEMMA OfBitsTyped ==
  ASSUME NEW S
  PROVE  OfBits(S) \in Nat
<1> DEFINE bit(k) == IF WordBits - k \in S THEN 1 ELSE 0
           value(f, k) == IF k = 0 THEN 0 ELSE 2 * f[k - 1] + bit(k)
           upper == CHOOSE f : f = [k \in 0 .. WordBits |-> value(f, k)]
<1>1. OfBits(S) = upper[WordBits]
  BY DEF OfBits
<1>2. \E f : f = [k \in 0 .. WordBits |-> value(f, k)]
  <2> DEFINE T == {m \in Nat : \E f \in [0 .. m -> Nat] : \A k \in 0 .. m : f[k] = value(f, k)}
  <2>1. 0 \in T
    <3> DEFINE g == [k \in 0 .. 0 |-> 0]
    <3>1. g \in [0 .. 0 -> Nat] /\ \A k \in 0 .. 0 : g[k] = value(g, k)
      OBVIOUS
    <3> HIDE DEF g
    <3>2. \E f \in [0 .. 0 -> Nat] : \A k \in 0 .. 0 : f[k] = value(f, k)
      BY <3>1, Zenon
    <3> QED BY <3>2
  <2>2. ASSUME NEW n \in Nat, n \in T PROVE n + 1 \in T
    <3>1. PICK f \in [0 .. n -> Nat] : \A k \in 0 .. n : f[k] = value(f, k)
      BY <2>2
    <3> DEFINE g == [k \in 0 .. n + 1 |-> IF k = n + 1 THEN 2 * f[n] + bit(n + 1) ELSE f[k]]
    <3>2. g \in [0 .. n + 1 -> Nat]
      BY <3>1
    <3>3. ASSUME NEW k \in 0 .. n + 1 PROVE g[k] = value(g, k)
      <4>1. CASE k = n + 1
        BY <3>1, <4>1
      <4>2. CASE k # n + 1
        <5>1. k \in 0 .. n /\ (k # 0 => k - 1 \in 0 .. n)
          BY <4>2
        <5> QED BY <3>1, <4>2, <5>1
      <4> QED BY <4>1, <4>2
    <3> HIDE DEF g
    <3>4. \E h \in [0 .. n + 1 -> Nat] : \A k \in 0 .. n + 1 : h[k] = value(h, k)
      BY <3>2, <3>3, Zenon
    <3>5. n + 1 \in Nat
      OBVIOUS
    <3> QED BY <3>4, <3>5, Zenon
  <2>3. WordBits \in T
    <3> HIDE DEF T
    <3> QED BY <2>1, <2>2, Steps, WordBitsAssumption
  <2>4. PICK f \in [0 .. WordBits -> Nat] : \A k \in 0 .. WordBits : f[k] = value(f, k)
    BY <2>3
  <2>5. f = [k \in 0 .. WordBits |-> value(f, k)]
    BY <2>4
  <2> QED BY <2>5
<1>3. upper = [k \in 0 .. WordBits |-> value(upper, k)]
  BY <1>2
<1> HIDE DEF upper
<1> DEFINE T == {m \in Nat : m <= WordBits => upper[m] \in Nat}
<1>4. 0 \in T
  BY <1>3, WordBitsAssumption
<1>5. ASSUME NEW n \in Nat, n \in T PROVE n + 1 \in T
  <2>1. CASE n + 1 <= WordBits
    <3>1. upper[n + 1] = 2 * upper[n] + bit(n + 1)
      BY <1>3, <2>1, WordBitsAssumption
    <3>2. upper[n] \in Nat
      BY <1>5, <2>1, WordBitsAssumption
    <3> QED BY <3>1, <3>2
  <2>2. CASE ~(n + 1 <= WordBits)
    BY <2>2
  <2> QED BY <2>1, <2>2
<1>6. WordBits \in T
  <2> HIDE DEF T
  <2> QED BY <1>4, <1>5, Steps, WordBitsAssumption
<1> QED BY <1>1, <1>6, WordBitsAssumption

-----------------------------------------------------------------------------
(* Quotient and remainder.                                                 *)
LEMMA DivMod ==
  ASSUME NEW b \in Nat \ {0}, NEW n \in Nat
  PROVE  n \div b \in Nat /\ n % b \in 0 .. b - 1 /\ n = b * (n \div b) + (n % b)
OBVIOUS

LEMMA DivModUnique ==
  ASSUME NEW b \in Nat \ {0}, NEW q \in Nat, NEW r \in 0 .. b - 1
  PROVE  (b * q + r) \div b = q /\ (b * q + r) % b = r
<1> DEFINE n == b * q + r
           d == n \div b
           e == n % b
<1>0. n \in Nat
  OBVIOUS
<1>1. d \in Nat /\ e \in 0 .. b - 1 /\ n = b * d + e
  BY <1>0
<1>2. b * (d - q) = r - e
  BY <1>1
<1> HIDE DEF n, d, e
<1>3. d = q
  <2>1. CASE d > q
    <3>1. d - q >= 1
      BY <1>1, <2>1
    <3>2. b * (d - q) >= b
      BY <1>1, <3>1
    <3> QED BY <1>1, <1>2, <3>2
  <2>2. CASE d < q
    <3>1. d - q <= -1
      BY <1>1, <2>2
    <3>2. b * (d - q) <= -b
      BY <1>1, <3>1
    <3> QED BY <1>1, <1>2, <3>2
  <2> QED BY <1>1, <2>1, <2>2
<1>4. e = r
  BY <1>1, <1>2, <1>3
<1> QED BY <1>3, <1>4 DEF d, e, n

(* The bytes of a word and their number.                                   *)
LEMMA WordBytes ==
  ASSUME NEW n \in Nat
  PROVE  /\ ToWord(n) \in Word
         /\ ToWord(n)[0] = n % ByteBase
         /\ ToWord(n)[1] = (n \div ByteBase) % ByteBase
         /\ ToWord(n)[2] = ((n \div ByteBase) \div ByteBase) % ByteBase
         /\ ToWord(n)[3] = (((n \div ByteBase) \div ByteBase) \div ByteBase) % ByteBase
<1> DEFINE q1 == n \div ByteBase
           q2 == q1 \div ByteBase
           q3 == q2 \div ByteBase
<1>1. ByteBase \in Nat \ {0}
  BY SizeAssumption
<1>2. q1 \in Nat /\ q2 \in Nat /\ q3 \in Nat
  BY <1>1, DivMod
<1>3. n % ByteBase \in Byte /\ q1 % ByteBase \in Byte /\ q2 % ByteBase \in Byte /\ q3 % ByteBase \in Byte
  BY <1>1, <1>2, DivMod DEF Byte
<1>4. ToWord(n) = [i \in 0 .. 3 |-> (CASE i = 0 -> n [] i = 1 -> q1 [] i = 2 -> q2 [] i = 3 -> q3) % ByteBase]
  BY DEF ToWord
<1> HIDE DEF q1, q2, q3
<1>5. ToWord(n)[0] = n % ByteBase /\ ToWord(n)[1] = q1 % ByteBase
      /\ ToWord(n)[2] = q2 % ByteBase /\ ToWord(n)[3] = q3 % ByteBase
  BY <1>4
<1>6. \A i \in 0 .. 3 : i = 0 \/ i = 1 \/ i = 2 \/ i = 3
  OBVIOUS
<1>7. \A i \in 0 .. 3 : ToWord(n)[i] \in Byte
  BY <1>3, <1>5, <1>6
<1>8. DOMAIN ToWord(n) = 0 .. 3 /\ ToWord(n) = [i \in 0 .. 3 |-> ToWord(n)[i]]
  BY <1>4
<1>9. ToWord(n) \in Word
  BY <1>7, <1>8 DEF Word
<1> QED BY <1>5, <1>9 DEF q1, q2, q3

(* ToNat undoes ToWord on the numbers that a word can hold.                *)
LEMMA NumberOfWord ==
  ASSUME NEW w \in Word
  PROVE  ToNat(w) \in 0 .. WordValues - 1 /\ ToWord(ToNat(w)) = w
<1> DEFINE b == ByteBase
           n2 == w[2] + b * w[3]
           n1 == w[1] + b * n2
           n0 == w[0] + b * n1
<1>1. b \in Nat \ {0} /\ b >= 2
  BY SizeAssumption
<1>2. w[0] \in 0 .. b - 1 /\ w[1] \in 0 .. b - 1 /\ w[2] \in 0 .. b - 1 /\ w[3] \in 0 .. b - 1
  BY DEF Word, Byte
<1> HIDE DEF b
<1>3. n2 \in Nat /\ n2 \div b = w[3] /\ n2 % b = w[2] /\ n2 < b * b
  <2>1. n2 = b * w[3] + w[2] /\ n2 \in Nat
    BY <1>1, <1>2
  <2>2. b * w[3] <= b * (b - 1) /\ b * (b - 1) = b * b - b /\ b * b \in Nat /\ b * w[3] \in Nat
    BY <1>1, <1>2
  <2>3. n2 < b * b
    <3> DEFINE x == b * w[3]
               y == b * b
    <3>1. x \in Nat /\ y \in Nat /\ x <= y - b /\ n2 = x + w[2]
      BY <2>1, <2>2
    <3> HIDE DEF x, y, n2
    <3>2. n2 < y
      BY <1>1, <1>2, <3>1
    <3> QED BY <3>2 DEF y
  <2>4. (b * w[3] + w[2]) \div b = w[3] /\ (b * w[3] + w[2]) % b = w[2]
    <3>1. w[3] \in Nat /\ w[2] \in 0 .. b - 1
      BY <1>1, <1>2
    <3> QED BY <1>1, <3>1, DivModUnique
  <2> HIDE DEF n2
  <2> QED BY <2>1, <2>3, <2>4
<1> HIDE DEF n2
<1>4. n1 \in Nat /\ n1 \div b = n2 /\ n1 % b = w[1] /\ n1 < b * (b * b)
  <2>1. n1 = b * n2 + w[1] /\ n1 \in Nat
    BY <1>1, <1>2, <1>3
  <2>2. b * n2 <= b * (b * b - 1) /\ b * (b * b - 1) = b * (b * b) - b
    <3>1. b * b \in Nat
      BY <1>1
    <3> DEFINE y == b * b
    <3> HIDE DEF y
    <3>2. n2 <= y - 1 /\ y \in Nat
      BY <1>3, <3>1 DEF y
    <3>3. b * n2 <= b * (y - 1) /\ b * (y - 1) = b * y - b
      BY <1>1, <1>3, <3>2
    <3> QED BY <3>3 DEF y
  <2>3. b * (b * b) \in Nat /\ b * n2 \in Nat
    BY <1>1, <1>3
  <2>4. n1 < b * (b * b)
    <3> DEFINE x == b * n2
               y == b * (b * b)
    <3>1. x \in Nat /\ y \in Nat /\ x <= y - b /\ n1 = x + w[1]
      BY <2>1, <2>2, <2>3
    <3> HIDE DEF x, y, n1
    <3>2. n1 < y
      BY <1>1, <1>2, <3>1
    <3> QED BY <3>2 DEF y
  <2>5. (b * n2 + w[1]) \div b = n2 /\ (b * n2 + w[1]) % b = w[1]
    BY <1>1, <1>2, <1>3, DivModUnique
  <2> HIDE DEF n1
  <2> QED BY <2>1, <2>4, <2>5
<1> HIDE DEF n1
<1>5. n0 \in Nat /\ n0 \div b = n1 /\ n0 % b = w[0] /\ n0 < b * (b * (b * b))
  <2>1. n0 = b * n1 + w[0] /\ n0 \in Nat
    BY <1>1, <1>2, <1>4
  <2>2. b * n1 <= b * (b * (b * b) - 1) /\ b * (b * (b * b) - 1) = b * (b * (b * b)) - b
    <3> DEFINE y == b * (b * b)
    <3>1. y \in Nat
      BY <1>1
    <3> HIDE DEF y
    <3>2. n1 <= y - 1
      BY <1>4, <3>1 DEF y
    <3>3. b * n1 <= b * (y - 1) /\ b * (y - 1) = b * y - b
      BY <1>1, <1>4, <3>1, <3>2
    <3> QED BY <3>3 DEF y
  <2>3. b * (b * (b * b)) \in Nat /\ b * n1 \in Nat
    BY <1>1, <1>4
  <2>4. n0 < b * (b * (b * b))
    <3> DEFINE x == b * n1
               y == b * (b * (b * b))
    <3>1. x \in Nat /\ y \in Nat /\ x <= y - b /\ n0 = x + w[0]
      BY <2>1, <2>2, <2>3
    <3> HIDE DEF x, y, n0
    <3>2. n0 < y
      BY <1>1, <1>2, <3>1
    <3> QED BY <3>2 DEF y
  <2>5. (b * n1 + w[0]) \div b = n1 /\ (b * n1 + w[0]) % b = w[0]
    BY <1>1, <1>2, <1>4, DivModUnique
  <2> HIDE DEF n0
  <2> QED BY <2>1, <2>4, <2>5
<1>6. ToNat(w) = n0 /\ WordValues = b * (b * (b * b))
  <2>1. ToNat(w) = n0
    BY DEF ToNat, n1, n2, b
  <2>2. ((b * b) * b) * b = b * (b * (b * b))
    BY <1>1
  <2> QED BY <2>1, <2>2 DEF WordValues, b
<1>7. /\ ToWord(n0) \in Word /\ ToWord(n0)[0] = w[0] /\ ToWord(n0)[1] = w[1]
      /\ ToWord(n0)[2] = w[2] /\ ToWord(n0)[3] = w[3]
  <2>1. w[3] % b = w[3]
    BY <1>1, <1>2
  <2> HIDE DEF n0
  <2> QED BY <1>3, <1>4, <1>5, <2>1, WordBytes DEF b
<1> HIDE DEF n0
<1>8. ToWord(n0) = w
  <2>1. \A i \in 0 .. 3 : i = 0 \/ i = 1 \/ i = 2 \/ i = 3
    OBVIOUS
  <2>2. \A i \in 0 .. 3 : ToWord(n0)[i] = w[i]
    BY <1>7, <2>1
  <2> QED BY <1>7, <2>2 DEF Word
<1>9. ToNat(w) \in 0 .. WordValues - 1
  <2> DEFINE y == b * (b * (b * b))
  <2>1. y \in Nat
    BY <1>1
  <2> HIDE DEF y
  <2> QED BY <1>5, <1>6, <2>1 DEF y
<1> QED BY <1>6, <1>8, <1>9

(* ToWord undoes ToNat.                                                    *)
LEMMA WordOfNumber ==
  ASSUME NEW n \in 0 .. WordValues - 1
  PROVE  ToNat(ToWord(n)) = n
<1> DEFINE b == ByteBase
           q1 == n \div b
           q2 == q1 \div b
           q3 == q2 \div b
<1>1. b \in Nat \ {0} /\ b >= 2
  BY SizeAssumption
<1>2. WordValues = b * (b * (b * b)) /\ WordValues \in Nat
  <2>1. ((b * b) * b) * b = b * (b * (b * b)) /\ b * (b * (b * b)) \in Nat
    BY <1>1
  <2> QED BY <2>1 DEF WordValues, b
<1>3. n \in Nat /\ n < b * (b * (b * b))
  BY <1>2
<1> HIDE DEF b
<1>4. q1 \in Nat /\ n = b * q1 + (n % b) /\ n % b \in 0 .. b - 1
  BY <1>1, <1>3, DivMod
<1>5. q2 \in Nat /\ q1 = b * q2 + (q1 % b) /\ q1 % b \in 0 .. b - 1
  BY <1>1, <1>4, DivMod
<1>6. q3 \in Nat /\ q2 = b * q3 + (q2 % b) /\ q2 % b \in 0 .. b - 1
  BY <1>1, <1>5, DivMod
<1> HIDE DEF q1, q2, q3
<1>8. q3 < b
  <2> SUFFICES ASSUME q3 >= b PROVE FALSE
    BY <1>1, <1>6
  <2>1. q2 >= b * b
    <3>1. b * q3 >= b * b /\ b * q3 \in Nat /\ b * b \in Nat
      BY <1>1, <1>6
    <3> DEFINE x == b * q3
               y == b * b
    <3>2. x \in Nat /\ y \in Nat /\ x >= y /\ q2 = x + (q2 % b)
      BY <1>6, <3>1
    <3> HIDE DEF x, y
    <3>3. q2 >= y
      BY <1>6, <3>2
    <3> QED BY <3>3 DEF y
  <2>2. q1 >= b * (b * b)
    <3> DEFINE y == b * b
    <3>1. y \in Nat
      BY <1>1
    <3> HIDE DEF y
    <3>2. b * q2 >= b * y /\ b * q2 \in Nat /\ b * y \in Nat
      BY <1>1, <1>5, <2>1, <3>1 DEF y
    <3> DEFINE x == b * q2
               z == b * y
    <3>3. x \in Nat /\ z \in Nat /\ x >= z /\ q1 = x + (q1 % b)
      BY <1>5, <3>2
    <3> HIDE DEF x, z
    <3>4. q1 >= z
      BY <1>5, <3>3
    <3> QED BY <3>4 DEF z, y
  <2>3. n >= b * (b * (b * b))
    <3> DEFINE y == b * (b * b)
    <3>1. y \in Nat
      BY <1>1
    <3> HIDE DEF y
    <3>2. b * q1 >= b * y /\ b * q1 \in Nat /\ b * y \in Nat
      BY <1>1, <1>4, <2>2, <3>1 DEF y
    <3> DEFINE x == b * q1
               z == b * y
    <3>3. x \in Nat /\ z \in Nat /\ x >= z /\ n = x + (n % b)
      BY <1>4, <3>2
    <3> HIDE DEF x, z
    <3>4. n >= z
      BY <1>4, <3>3
    <3> QED BY <3>4 DEF z, y
  <2>4. b * (b * (b * b)) \in Nat
    BY <1>1
  <2> DEFINE z == b * (b * (b * b))
  <2>5. n >= z /\ n < z /\ z \in Nat
    BY <1>3, <2>3, <2>4
  <2> HIDE DEF z
  <2> QED BY <1>3, <2>5
<1>9. q3 % b = q3
  BY <1>1, <1>6, <1>8
<1>10. /\ ToWord(n)[0] = n % b /\ ToWord(n)[1] = q1 % b
       /\ ToWord(n)[2] = q2 % b /\ ToWord(n)[3] = q3
  BY <1>3, <1>9, WordBytes DEF b, q1, q2, q3
<1>11. ToNat(ToWord(n)) = (n % b) + b * ((q1 % b) + b * ((q2 % b) + b * q3))
  BY <1>10 DEF ToNat, b
<1>12. (q2 % b) + b * q3 = q2
  BY <1>1, <1>6
<1>13. (q1 % b) + b * q2 = q1
  BY <1>1, <1>5
<1>14. (n % b) + b * q1 = n
  BY <1>1, <1>4
<1> QED BY <1>11, <1>12, <1>13, <1>14

-----------------------------------------------------------------------------
(* The type invariant.                                                     *)

LEMMA WordTyped ==
  ASSUME NEW n \in Nat
  PROVE  ToWord(n) \in Word
BY WordBytes

LEMMA ZeroIsWord == ZeroWord \in Word /\ ToNat(ZeroWord) = 0
BY SizeAssumption DEF ZeroWord, Word, Byte, ToNat

LEMMA WordValuesTyped == WordValues \in Nat \ {0}
<1>1. ByteBase \in Nat /\ ByteBase >= 1
  BY SizeAssumption
<1>2. ByteBase * ByteBase \in Nat /\ ByteBase * ByteBase >= 1
  BY <1>1
<1>3. ByteBase * ByteBase * ByteBase \in Nat /\ ByteBase * ByteBase * ByteBase >= 1
  BY <1>1, <1>2
<1>4. ByteBase * ByteBase * ByteBase * ByteBase \in Nat /\ ByteBase * ByteBase * ByteBase * ByteBase >= 1
  BY <1>1, <1>3
<1> QED BY <1>4 DEF WordValues

(* Every operation of the ALU gives a number that a word can hold.         *)
LEMMA AluTyped ==
  ASSUME NEW sel \in 0 .. 7, NEW funct \in BOOLEAN,
         NEW a \in 0 .. WordValues - 1, NEW b \in 0 .. WordValues - 1
  PROVE  Alu(sel, funct, a, b) \in Nat
<1>1. CASE sel = 0
  <2>1. (IF funct THEN a + WordValues - b ELSE a + b) \in Nat
    BY WordValuesTyped
  <2>2. Wrap(IF funct THEN a + WordValues - b ELSE a + b) \in Nat
    BY <2>1, WordValuesTyped, DivMod DEF Wrap
  <2> QED BY <1>1, <2>2 DEF Alu
<1>2. CASE sel = 1
  BY <1>2, OfBitsTyped DEF Alu
<1>3. CASE sel \in {2, 3}
  BY <1>3 DEF Alu
<1>4. CASE sel = 4
  BY <1>4, OfBitsTyped DEF Alu
<1>5. CASE sel = 5
  BY <1>5, OfBitsTyped DEF Alu, ShiftRight
<1>6. CASE sel = 6
  BY <1>6, OfBitsTyped DEF Alu
<1>7. CASE sel = 7
  BY <1>7, OfBitsTyped DEF Alu
<1> QED BY <1>1, <1>2, <1>3, <1>4, <1>5, <1>6, <1>7

(* The pipeline registers hold values of their kinds.                      *)
PipeTypeOK ==
  /\ ifId \in [pc : CpuAddr, inst : Word]
  /\ idEx \in [alusel : 0 .. 7, funct : BOOLEAN, data1 : Word, data2 : Word, extra : Word,
               we : BOOLEAN, waddr : Regs, ma_we : BOOLEAN, ma_re : BOOLEAN, ma_width : 0 .. 7]
  /\ wb \in [we : BOOLEAN, waddr : Regs, wdata : Word]
  /\ regs \in [Regs -> Word]

LEMMA AluOutTyped ==
  ASSUME PipeTypeOK
  PROVE  AluOut \in Word
<1>1. /\ idEx.alusel \in 0 .. 7 /\ idEx.funct \in BOOLEAN
      /\ idEx.data1 \in Word /\ idEx.data2 \in Word
  BY DEF PipeTypeOK
<1>2. ToNat(idEx.data1) \in 0 .. WordValues - 1 /\ ToNat(idEx.data2) \in 0 .. WordValues - 1
  BY <1>1, NumberOfWord
<1>3. Alu(idEx.alusel, idEx.funct, ToNat(idEx.data1), ToNat(idEx.data2)) \in Nat
  BY <1>1, <1>2, AluTyped
<1> QED BY <1>3, WordTyped DEF AluOut

LEMMA ForwardedTyped ==
  ASSUME PipeTypeOK, MaTypeOK, NEW r \in Regs
  PROVE  Forwarded(r) \in Word
<1>1. AluOut \in Word
  BY AluOutTyped
<1>2. maOut.wdata \in Word
  BY DEF MaTypeOK
<1>3. RegRead(r) \in Word
  BY ZeroIsWord DEF RegRead, PipeTypeOK
<1> QED BY <1>1, <1>2, <1>3 DEF Forwarded

(* What decode reads of its instruction and its registers is typed.        *)
LEMMA DecodedTyped ==
  ASSUME PipeTypeOK
  PROVE  IdInst \in Instruction /\ IdInst.imm \in 0 .. WordValues - 1 /\ IdInst.imm \in Nat
         /\ IdInst.f3 \in 0 .. 7 /\ IdInst.alt \in BOOLEAN
         /\ IdInst.rd \in Regs /\ IdInst.rs1 \in Regs /\ IdInst.rs2 \in Regs
<1>1. ifId.inst \in Word
  BY DEF PipeTypeOK
<1>2. IdInst \in Instruction
  BY <1>1, DecodeAssumption DEF IdInst
<1> QED BY <1>2, WordValuesTyped DEF Instruction

LEMMA DecodeOutTyped ==
  ASSUME PipeTypeOK, MaTypeOK
  PROVE  DecodeOut \in [alusel : 0 .. 7, funct : BOOLEAN, data1 : Word, data2 : Word, extra : Word,
               we : BOOLEAN, waddr : Regs, ma_we : BOOLEAN, ma_re : BOOLEAN, ma_width : 0 .. 7]
<1>1. Reg1 \in Word /\ Reg2 \in Word
  BY DecodedTyped, ForwardedTyped, RegsAssumption DEF Reg1, Reg2
<1>2. ToWord(IdInst.imm) \in Word
  BY DecodedTyped, WordTyped
<1>3. ToWord(ifId.pc) \in Word /\ ToWord(ifId.pc + 4) \in Word
  <2>1. ifId.pc \in Nat /\ ifId.pc + 4 \in Nat
    BY SizeAssumption DEF PipeTypeOK, CpuAddr
  <2> QED BY <2>1, WordTyped
<1>4. Data1 \in Word
  BY <1>1, <1>2, ZeroIsWord DEF Data1
<1>5. Data2 \in Word
  BY <1>1, <1>2, <1>3 DEF Data2
<1>6. /\ (IF IdInst.op \in {"opimm", "op"} THEN IdInst.f3 ELSE 0) \in 0 .. 7
      /\ (IF IdInst.op \in {"load", "store"} THEN IdInst.f3 ELSE 0) \in 0 .. 7
  BY DecodedTyped
<1>7. (IF IdInst.op = "store" THEN Reg2 ELSE ToWord(IdInst.imm)) \in Word
  BY <1>1, <1>2
<1>8. (IdInst.alt /\ (IdInst.op = "op" \/ (IdInst.op = "opimm" /\ IdInst.f3 = 5))) \in BOOLEAN
      /\ Writes \in BOOLEAN /\ (IdInst.op = "store") \in BOOLEAN /\ (IdInst.op = "load") \in BOOLEAN
  BY DEF Writes
<1>9. IdInst.rd \in Regs
  BY DecodedTyped
<1> HIDE DEF IdInst, Data1, Data2, Writes, Reg2
<1> QED BY <1>4, <1>5, <1>6, <1>7, <1>8, <1>9 DEF DecodeOut

LEMMA PipeTypeInit ==
  ASSUME Init
  PROVE  PipeTypeOK
<1>1. 0 \in CpuAddr /\ 0 \in Regs /\ ZeroWord \in Word
  BY SizeAssumption, RegsAssumption, ZeroIsWord DEF CpuAddr
<1>2. regs \in [Regs -> Word]
  BY CoreAssumption DEF Init
<1> QED BY <1>1, <1>2 DEF Init, PipeTypeOK, EmptyIfId, EmptyIdEx, EmptyWb

(* The types of the pipeline's registers are kept by every edge.           *)
LEMMA PipeTypeNext ==
  ASSUME PipeTypeOK, MaTypeOK, IfTypeOK, Next
  PROVE  PipeTypeOK'
<1>1. 0 \in CpuAddr /\ 0 \in Regs /\ ZeroWord \in Word
  BY SizeAssumption, RegsAssumption, ZeroIsWord DEF CpuAddr
<1>2. ifId' \in [pc : CpuAddr, inst : Word]
  <2>1. ifId' = ifId \/ ifId' = EmptyIfId \/ ifId' = [pc |-> pc, inst |-> inst]
    BY DEF Next, IfIdClock
  <2>2. pc \in CpuAddr /\ inst \in Word
    BY DEF IfTypeOK
  <2> QED BY <1>1, <2>1, <2>2 DEF PipeTypeOK, EmptyIfId
<1>3. idEx' \in [alusel : 0 .. 7, funct : BOOLEAN, data1 : Word, data2 : Word, extra : Word,
                 we : BOOLEAN, waddr : Regs, ma_we : BOOLEAN, ma_re : BOOLEAN, ma_width : 0 .. 7]
  <2>1. \/ idEx' = idEx
        \/ idEx' = [EmptyIdEx EXCEPT !.extra = idEx.extra]
        \/ idEx' = DecodeOut
    BY DEF Next, IdExClock
  <2>2. idEx.extra \in Word
    BY DEF PipeTypeOK
  <2>3. [EmptyIdEx EXCEPT !.extra = idEx.extra]
          \in [alusel : 0 .. 7, funct : BOOLEAN, data1 : Word, data2 : Word, extra : Word,
               we : BOOLEAN, waddr : Regs, ma_we : BOOLEAN, ma_re : BOOLEAN, ma_width : 0 .. 7]
    <3>1. EmptyIdEx \in [alusel : 0 .. 7, funct : BOOLEAN, data1 : Word, data2 : Word, extra : Word,
               we : BOOLEAN, waddr : Regs, ma_we : BOOLEAN, ma_re : BOOLEAN, ma_width : 0 .. 7]
      BY <1>1 DEF EmptyIdEx
    <3> QED BY <2>2, <3>1
  <2> QED BY <2>1, <2>3, DecodeOutTyped DEF PipeTypeOK
<1>4. wb' \in [we : BOOLEAN, waddr : Regs, wdata : Word]
  BY <1>1 DEF Next, WbClock, EmptyWb, MaTypeOK
<1>5. regs' \in [Regs -> Word]
  BY DEF Next, RegWrite, PipeTypeOK
<1> QED BY <1>2, <1>3, <1>4, <1>5 DEF PipeTypeOK

-----------------------------------------------------------------------------
(* What the rest of the CPU knows of its memory system, in its own terms.  *)

(* The program's word at an address, and an instruction the CPU implements *)
(* as the ISA has it: no ecall, no csr access, no reserved funct3.         *)
ProgramAt(a) == [k \in 0 .. 3 |-> Program[a + k]]

Legal(i) ==
  /\ i.op \in Operations
  /\ i.op = "branch" => i.f3 \notin {2, 3}
  /\ i.op = "load" => i.f3 \in {0, 1, 2, 4, 5}
  /\ i.op = "store" => i.f3 \in {0, 1, 2}

LegalProgram == \A a \in FetchAddrs : Legal(Decode(ProgramAt(a)))

(* Loads read the RAM: what a program reads from the I/O space is no       *)
(* memory of the sequential machine.                                       *)
LoadsReadRam == \A in \in Accesses : in.ma_re => ~IoEnabled(in.addr)

(* What is known of the memory system.                                     *)
MemInv == Memory!CacheInv /\ Memory!LoadInv /\ Memory!CodeIntact

LEMMA MemoryAssumed == Memory!SizeAssumption /\ Memory!CacheAssumption /\ Memory!RegsAssumption
BY SizeAssumption, CacheAssumption, RegsAssumption
   DEF Memory!SizeAssumption, Memory!CacheAssumption, Memory!RegsAssumption,
       Memory!Line, Memory!Byte, Line, Byte

LEMMA MemInvInit ==
  ASSUME Memory!EnvAssumption, Init, ram = Program
  PROVE  MemInv
<1>1. Memory!Init
  BY MemoryInit
<1>2. Memory!CacheInv
  BY <1>1, MemoryAssumed, Memory!CacheInit
<1>3. Memory!LoadInv
  BY <1>1, MemoryAssumed, Memory!LoadInit
<1>4. Memory!CodeIntact
  BY <1>1 DEF Memory!Init, Memory!RamInit, Memory!CodeIntact
<1> QED BY <1>2, <1>3, <1>4 DEF MemInv

(* An edge of the CPU keeps the memory system's invariant.                 *)
LEMMA MemInvNext ==
  ASSUME Memory!EnvAssumption, MemInv, ProgramFits, Next
  PROVE  MemInv'
<1>1. Memory!Next
  BY MemoryStep
<1>2. Memory!CacheInv'
  BY <1>1, MemoryAssumed, Memory!CacheNext DEF MemInv
<1>3. Memory!LoadInv'
  BY <1>1, MemoryAssumed, Memory!LoadNext DEF MemInv
<1>4. \A a \in FetchAddrs : \A i \in 0 .. LineBytes - 1 :
        ram'[Memory!BaseOf(a) + i] = ram[Memory!BaseOf(a) + i]
  BY <1>1, MemoryAssumed, Memory!CodeUnchanged DEF MemInv, Memory!CacheInv, Memory!FetchInv
<1>5. Memory!CodeIntact'
  BY <1>4 DEF MemInv, Memory!CodeIntact
<1> QED BY <1>2, <1>3, <1>5 DEF MemInv

(* The registers' types, and who is waiting for what.                      *)
LEMMA MemTypes ==
  ASSUME MemInv
  PROVE  RamTypeOK /\ McTypeOK /\ IfTypeOK /\ MaTypeOK
<1>1. Memory!TypeOK
  BY DEF MemInv, Memory!CacheInv, Memory!FetchInv, Memory!StoreInv, Memory!IInv
<1>2. /\ CpuAddr = Memory!CpuAddr /\ BusAddr = Memory!BusAddr /\ Byte = Memory!Byte
      /\ Word = Memory!Word /\ Line = Memory!Line /\ Width = Memory!Width
  BY DEF CpuAddr, BusAddr, Byte, Word, Line, Width, Memory!CpuAddr, Memory!BusAddr, Memory!Byte,
         Memory!Word, Memory!Line, Memory!Width
<1> QED
  BY <1>1, <1>2 DEF RamTypeOK, McTypeOK, IfTypeOK, MaTypeOK, Memory!TypeOK, Memory!RamTypeOK,
     Memory!McTypeOK, Memory!IfTypeOK, Memory!MaTypeOK

(* The requests of the two clients go with their phases.                   *)
Busy ==
  /\ maStallReq <=> maSta # "idle"
  /\ maReq.we \/ maReq.re <=> maSta # "idle"
  /\ ~(maReq.we /\ maReq.re)
  /\ maSta # "idle" /\ ~IoEnabled(maReq.addr) => maReq.addr + 4 <= RamBytes
  /\ ifStallReq <=> ifSta \in {"request", "fill"}

(* They do, in every state that MemInv allows.                             *)
LEMMA MemBusy ==
  ASSUME MemInv
  PROVE  Busy
<1>1. Memory!Requests /\ Memory!AccessReachable
  BY DEF MemInv, Memory!CacheInv, Memory!FetchInv, Memory!StoreInv, Memory!IInv
<1> QED
  BY <1>1 DEF Busy, Memory!Requests, Memory!AccessReachable, Memory!Reachable,
     IoEnabled, Memory!IoEnabled

(* The program's code is in the RAM, and a word on its way to decode is    *)
(* one of it.                                                              *)
LEMMA CodeInRam ==
  ASSUME Memory!EnvAssumption, MemInv, NEW a \in FetchAddrs
  PROVE  a \in CpuAddr /\ \A k \in 0 .. 3 : a + k \in CpuAddr /\ ram[a + k] = Program[a + k]
<1> DEFINE base == Memory!BaseOf(a)
<1>1. /\ a \in Nat /\ base \in Nat /\ base <= a
      /\ a + 4 <= base + LineBytes /\ base + LineBytes <= RamBytes
  BY MemoryAssumed, Memory!CodeAddress
<1>2. \A i \in 0 .. LineBytes - 1 : ram[base + i] = Program[base + i]
  BY DEF MemInv, Memory!CodeIntact
<1> HIDE DEF base
<1>3. ASSUME NEW k \in 0 .. 3
      PROVE  a + k \in CpuAddr /\ ram[a + k] = Program[a + k]
  <2>1. (a - base) + k \in 0 .. LineBytes - 1 /\ base + ((a - base) + k) = a + k
        /\ a + k \in CpuAddr
    BY <1>1, SizeAssumption DEF CpuAddr
  <2> QED BY <1>2, <2>1
<1>4. a \in CpuAddr
  BY <1>1, SizeAssumption DEF CpuAddr
<1> QED BY <1>3, <1>4

(* The word that the fetch unit finds is the program's at the pc.          *)
LEMMA FetchedWord ==
  ASSUME Memory!EnvAssumption, MemInv, ~ifStallReq, inst # ZeroWord
  PROVE  pc \in FetchAddrs /\ inst = ProgramAt(pc)
<1>1. pc \in FetchAddrs /\ inst = [i \in 0 .. 3 |-> ram[pc + i]]
  BY DEF MemInv, Memory!CacheInv, Memory!InstKnown, Memory!FetchedFromRam, ZeroWord, Memory!ZeroWord
<1> QED BY <1>1, CodeInRam DEF ProgramAt

-----------------------------------------------------------------------------
(* What one clock edge does to the fetch unit, the memory-access stage and *)
(* the RAM.                                                                *)

(* An instruction of the program is none of the bubbles.                   *)
LEMMA LegalWord ==
  ASSUME LegalProgram, NEW a \in FetchAddrs
  PROVE  ProgramAt(a) # ZeroWord /\ Legal(Decode(ProgramAt(a)))
<1>1. Legal(Decode(ProgramAt(a)))
  BY DEF LegalProgram
<1>2. Decode(ProgramAt(a)).op # "bubble"
  BY <1>1 DEF Legal, Operations
<1> QED BY <1>1, <1>2, DecodeAssumption

(* A stall command stops the fetch unit for either client, and the rest of *)
(* the pipeline for the memory-access stage.                               *)
LEMMA Stalls ==
  /\ 0 \in StallNow <=> maStallReq \/ ifStallReq
  /\ 1 \in StallNow <=> maStallReq
  /\ 2 \in StallNow <=> maStallReq
  /\ 3 \in StallNow <=> maStallReq
  /\ {3, 4} \cap StallNow # {} <=> maStallReq
BY DEF StallNow, StallCmd

Found ==
  ifSta' = "request" \/ (ifSta' \in {"lookup", "hold"} /\ inst' = ProgramAt(pc') /\ inst' # ZeroWord)

FetchEdge ==
  \/ /\ ifSta = "lookup" /\ ~maStallReq
     /\ pc' = NextPc(UseNpc, NpcAddr) /\ pc' \in FetchAddrs /\ Found
  \/ ifSta = "lookup" /\ maStallReq /\ UNCHANGED <<ifSta, pc, inst>>
  \/ /\ ifSta \in {"request", "fill"} /\ pc' = pc
     /\ ifSta' \in {"request", "fill"} \/ (ifSta' \in {"lookup", "hold"} /\ inst' # ZeroWord)
  \/ /\ ifSta = "hold" /\ pc' = pc
     /\ IF maStallReq THEN UNCHANGED <<ifSta, inst>> ELSE ifSta' = "lookup" /\ inst' = ZeroWord

(* One edge of the fetch unit, as decode sees it.                          *)
LEMMA FetchClock ==
  ASSUME Memory!EnvAssumption, LegalProgram, MemInv, ProgramFits, Next
  PROVE  FetchEdge
<1> DEFINE npc == NextPc(UseNpc, NpcAddr)
<1>1. IfClock(UseNpc, NpcAddr, instData, instBusy, StallNow)
  BY DEF Next
<1>2. IfTypeOK /\ Busy
  BY MemTypes, MemBusy
<1>3. CASE 0 \notin StallNow /\ LookupHit(npc)
  <2>1. npc \in FetchAddrs /\ ~maStallReq /\ ifSta = "lookup"
    BY <1>3, Stalls DEF ProgramFits, LookupHit
  <2> HIDE DEF npc
  <2>2. Memory!Hit(npc)
    BY <1>3, Zenon DEF LookupHit, Hit, IndexOf, LineOf, TagOf, Memory!Hit, Memory!IndexOf, Memory!LineOf,
       Memory!TagOf
  <2>3. Memory!CacheCoherent
    BY DEF MemInv, Memory!CacheInv
  <2>4. Memory!WordAt(icache[Memory!IndexOf(npc)].data, npc) = [i \in 0 .. 3 |-> ram[npc + i]]
    BY <2>1, <2>2, <2>3, MemoryAssumed, Memory!HitWord
  <2>5. WordAt(icache[IndexOf(npc)].data, npc) = [i \in 0 .. 3 |-> ram[npc + i]]
    BY <2>4, Zenon DEF WordAt, IndexOf, LineOf, BaseOf, Memory!WordAt, Memory!IndexOf, Memory!LineOf,
       Memory!BaseOf
  <2>6. [i \in 0 .. 3 |-> ram[npc + i]] = ProgramAt(npc)
    BY <2>1, CodeInRam DEF ProgramAt
  <2>7. ProgramAt(npc) # ZeroWord
    BY <2>1, LegalWord
  <2>8. pc' = npc /\ inst' = ProgramAt(npc) /\ ifSta' \in {"lookup", "hold"}
    BY <1>3, <2>5, <2>6 DEF LookupHit
  <2> QED BY <2>1, <2>7, <2>8 DEF FetchEdge, Found, npc
<1>4. CASE 0 \notin StallNow /\ LookupMiss(npc)
  <2>1. npc \in FetchAddrs /\ ~maStallReq /\ ifSta = "lookup"
    BY <1>4, Stalls DEF ProgramFits, LookupMiss
  <2>2. pc' = npc /\ ifSta' = "request"
    BY <1>4 DEF LookupMiss
  <2> QED BY <2>1, <2>2 DEF FetchEdge, Found
<1>5. CASE 0 \in StallNow /\ LookupStalled
  <2>1. maStallReq
    BY <1>2, <1>5, Stalls DEF LookupStalled, Busy
  <2> QED BY <1>5, <2>1 DEF LookupStalled, ifVars, FetchEdge
<1>6. CASE Request(instBusy)
  BY <1>6 DEF Request, AfterRequest, FetchEdge
<1>7. CASE FillWait(instData, instBusy)
  BY <1>7 DEF FillWait, FillLine, FetchEdge
<1>8. CASE FillDone(instData, instBusy)
  <2>1. Memory!StoreInv /\ Memory!FetchBus /\ ifSta = "fill" /\ ~instBusy
    BY <1>8 DEF FillDone, MemInv, Memory!CacheInv, Memory!FetchInv
  <2>2. pc \in FetchAddrs /\ instData = Memory!RamLine(pc)
    BY <2>1, MemoryAssumed, Memory!FilledLine
  <2>3. Memory!WordAt(instData, pc) = [i \in 0 .. 3 |-> ram[pc + i]]
    BY <2>2, MemoryAssumed, Memory!WordOfRamLine
  <2>4. WordAt(instData, pc) = ProgramAt(pc)
    BY <2>2, <2>3, CodeInRam DEF ProgramAt, WordAt, BaseOf, LineOf, Memory!WordAt, Memory!BaseOf, Memory!LineOf
  <2>5. inst' # ZeroWord
    BY <1>8, <2>2, <2>4, LegalWord DEF FillDone, FillLine
  <2> QED BY <1>8, <2>5 DEF FillDone, FillLine, FetchEdge
<1>9. CASE Hold(StallNow)
  <2>1. 0 \in StallNow <=> maStallReq
    BY <1>2, <1>9, Stalls DEF Hold, Busy
  <2> QED BY <1>9, <2>1 DEF Hold, FetchEdge
<1> QED
  BY ONLY <1>1, <1>3, <1>4, <1>5, <1>6, <1>7, <1>8, <1>9 DEF IfClock

(* The stage takes what the execute stage presents when nobody stalls it,  *)
(* and keeps its access until it is done.                                  *)
MaEdge ==
  \/ /\ ~maStallReq /\ maOut' = WriteBack(ExecuteOut)
     /\ IF ExecuteOut.ma_we \/ ExecuteOut.ma_re
        THEN /\ maSta' = "request"
             /\ maReq' = [we |-> ExecuteOut.ma_we, re |-> ExecuteOut.ma_re, addr |-> ExecuteOut.addr,
                          width |-> ExecuteOut.width, wdata |-> ExecuteOut.mdata]
        ELSE maReq' = NoRequest
  \/ /\ maStallReq /\ maSta' # "idle" /\ maReq' = maReq /\ maOut' = maOut
  \/ /\ maStallReq /\ maSta = "wait" /\ maSta' = "idle" /\ ~maReq'.we /\ ~maReq'.re
     /\ maOut' = IF maReq.re THEN [maOut EXCEPT !.wdata = LoadValue(maReq.width, memRdata)] ELSE maOut

(* One edge of the memory-access stage, as execute sees it.                *)
LEMMA MaEdgeHolds ==
  ASSUME MaTypeOK, Busy, Next
  PROVE  MaEdge
<1>1. MaClock(ExecuteOut, memRdata, memBusy, StallNow)
  BY DEF Next
<1> HIDE DEF ExecuteOut
<1>2. CASE StartAccess(ExecuteOut, StallNow)
  BY <1>2, Stalls DEF StartAccess, MaEdge
<1>3. CASE PassThrough(ExecuteOut, StallNow)
  BY <1>3, Stalls DEF PassThrough, MaEdge
<1>4. CASE Keep(memBusy, StallNow)
  BY <1>4, Stalls DEF Keep, maVars, MaEdge, Busy
<1>5. CASE AwaitAccept(memBusy)
  BY <1>5 DEF AwaitAccept, MaEdge, Busy
<1>6. CASE Finish(memBusy, memRdata)
  BY <1>6 DEF Finish, MaEdge, Busy, MaTypeOK
<1> QED BY ONLY <1>1, <1>2, <1>3, <1>4, <1>5, <1>6 DEF MaClock

(* The bytes of a store are in the RAM when it is done, and nothing else   *)
(* changes it; a load that is done delivers what the RAM holds.            *)
LEMMA RamEdge ==
  ASSUME Memory!EnvAssumption, MemInv, ProgramFits, Next
  PROVE  /\ \A b \in CpuAddr : ram'[b] # ram[b]
              => maReq.we /\ maStallReq /\ b \in AccessBytes(maReq.addr, maReq.width)
         /\ maSta = "wait" /\ maSta' = "idle" /\ maReq.we /\ ~IoEnabled(maReq.addr)
              => \A i \in 0 .. BytesOf(maReq.width) - 1 : ram'[maReq.addr + i] = maReq.wdata[i]
<1>1. Memory!Next /\ Memory!StoreInv
  BY MemoryStep DEF MemInv, Memory!LoadInv
<1>2. ASSUME NEW b \in CpuAddr, ram'[b] # ram[b]
      PROVE  maReq.we /\ maStallReq /\ b \in AccessBytes(maReq.addr, maReq.width)
  <2>1. b \in Memory!CpuAddr
    BY DEF CpuAddr, Memory!CpuAddr
  <2>2. maReq.we /\ maSta # "idle" /\ b \in Memory!AccessBytes(maReq.addr, maReq.width)
    BY <1>1, <1>2, <2>1, MemoryAssumed, Memory!ChangedByte
  <2>3. maStallReq
    BY <2>2, MemBusy DEF Busy
  <2> QED BY <2>2, <2>3 DEF AccessBytes, BytesOf, Memory!AccessBytes, Memory!BytesOf
<1>3. ASSUME maSta = "wait", maSta' = "idle", maReq.we, ~IoEnabled(maReq.addr)
      PROVE  \A i \in 0 .. BytesOf(maReq.width) - 1 : ram'[maReq.addr + i] = maReq.wdata[i]
  <2>1. \A i \in 0 .. Memory!BytesOf(maReq.width) - 1 : ram'[maReq.addr + i] = maReq.wdata[i]
    <3>1. ~Memory!IoEnabled(maReq.addr)
      BY <1>3 DEF IoEnabled, Memory!IoEnabled
    <3>2. ~(UNCHANGED Memory!vars)
      BY <1>3 DEF Memory!vars, Memory!maVars
    <3> QED BY <1>1, <1>3, <3>1, <3>2, MemoryAssumed, Memory!StoreLandsStep
  <2> QED BY <2>1 DEF BytesOf, Memory!BytesOf
<1> QED BY <1>2, <1>3

(* The value of a load over the bytes of the RAM.                          *)
LEMMA LoadEdge ==
  ASSUME Memory!EnvAssumption, MemInv, ProgramFits, Next,
         maSta = "wait", maSta' = "idle", maReq.re, ~IoEnabled(maReq.addr)
  PROVE  maOut'.wdata = LoadFrom(ram, maReq.addr, maReq.width)
<1> DEFINE width == maReq.width
           bytes == [i \in 0 .. 3 |-> IF i < BytesOf(width) THEN ram[maReq.addr + i] ELSE 0]
<1>1. Memory!Next /\ Memory!LoadInv
  BY MemoryStep DEF MemInv
<1>2. maOut'.wdata = Memory!Signed(width, Memory!MemoryAt(maReq.addr, width))
  <2>1. ~Memory!IoEnabled(maReq.addr) /\ ~(UNCHANGED Memory!vars)
    BY DEF IoEnabled, Memory!IoEnabled, Memory!vars, Memory!maVars
  <2> QED BY <1>1, <2>1, MemoryAssumed, Memory!LoadStep
<1>3. Memory!MemoryAt(maReq.addr, width) = bytes
  BY DEF Memory!MemoryAt, BytesOf, Memory!BytesOf
<1>4. width \in Width /\ bytes \in Word /\ BytesOf(width) \in 1 .. 4
  <2>1. RamTypeOK /\ MaTypeOK /\ Busy
    BY MemTypes, MemBusy
  <2>2. maReq.addr \in Nat /\ maReq.addr + 4 <= RamBytes
    BY <2>1, SizeAssumption DEF MaTypeOK, BusAddr, Busy
  <2>3. \A i \in 0 .. 3 : maReq.addr + i \in CpuAddr
    BY <2>2, SizeAssumption DEF CpuAddr
  <2>4. bytes \in Word
    BY <2>1, <2>3, SizeAssumption DEF RamTypeOK, Word, Byte
  <2>5. width \in Width
    BY <2>1 DEF MaTypeOK
  <2> QED BY <2>4, <2>5 DEF Width, BytesOf
<1>5. \A i \in 0 .. 3 : i >= BytesOf(width) => bytes[i] = 0
  BY <1>4
<1> HIDE DEF bytes, width
<1>6. Memory!LoadValue(width, bytes) = Memory!Signed(width, bytes)
  <2>1. width \in Memory!Width /\ bytes \in Memory!Word
        /\ \A i \in 0 .. 3 : i >= Memory!BytesOf(width) => bytes[i] = 0
    BY <1>4, <1>5 DEF Width, Word, Byte, BytesOf, Memory!Width, Memory!Word, Memory!Byte, Memory!BytesOf
  <2> QED BY <2>1, MemoryAssumed, Memory!LoadedValue
<1>7. LoadValue(width, bytes) = Memory!LoadValue(width, bytes)
  BY DEF LoadValue, BytesOf, SignFill, Memory!LoadValue, Memory!BytesOf, Memory!SignFill
<1>8. LoadFrom(ram, maReq.addr, width) = LoadValue(width, bytes)
  BY DEF LoadFrom, bytes, width
<1> QED BY <1>2, <1>3, <1>6, <1>7, <1>8 DEF width

-----------------------------------------------------------------------------
(* What decode holds is the program's instruction at the pc beside it, or  *)
(* a bubble.  The fetch unit is at the instruction that follows it in the  *)
(* program, unless that is still to be looked up; and it holds behind an   *)
(* instruction only.                                                       *)
Following(a) == (a + 4) % RamBytes
Fetching     == ifSta \in {"request", "fill"} \/ inst # ZeroWord

Decoded ==
  ifId.inst # ZeroWord => ifId.pc \in FetchAddrs /\ ifId.inst = ProgramAt(ifId.pc)
PcChain ==
  /\ ifId.inst # ZeroWord => pc = IF Fetching THEN Following(ifId.pc) ELSE ifId.pc
  /\ ifSta = "hold" => inst # ZeroWord

(* A load that waits for its value reads the RAM.                          *)
PendingReadsRam == maReq.re => ~IoEnabled(maReq.addr)

(* The inductive invariant of the CPU with a program that fits.            *)
CpuInv == MemInv /\ PipeTypeOK /\ HoldInv /\ Decoded /\ PcChain /\ PendingReadsRam

LEMMA CpuInvInit ==
  ASSUME Memory!EnvAssumption, Init, ram = Program
  PROVE  CpuInv
<1>1. Decoded /\ PcChain
  BY DEF Init, IfInit, EmptyIfId, Decoded, PcChain
<1>2. PendingReadsRam
  BY DEF Init, MaInit, NoRequest, PendingReadsRam
<1> QED BY <1>1, <1>2, MemInvInit, PipeTypeInit, HoldInit DEF CpuInv

(* An instruction in decode is none of the bubbles, and the other way      *)
(* round.                                                                  *)
LEMMA DecodeHolds ==
  ASSUME LegalProgram, Decoded
  PROVE  /\ ifId.inst # ZeroWord <=> IdInst.op # "bubble"
         /\ IdInst.op # "bubble" => Legal(IdInst) /\ ifId.pc \in FetchAddrs
                                    /\ ifId.inst = ProgramAt(ifId.pc)
<1>1. CASE ifId.inst = ZeroWord
  BY <1>1, DecodeAssumption DEF IdInst
<1>2. CASE ifId.inst # ZeroWord
  <2>1. Legal(IdInst) /\ ifId.pc \in FetchAddrs /\ ifId.inst = ProgramAt(ifId.pc)
    BY <1>2, LegalWord DEF Decoded, IdInst
  <2>2. IdInst.op # "bubble"
    BY <2>1 DEF Legal, Operations
  <2> QED BY <1>2, <2>1, <2>2
<1> QED BY <1>1, <1>2

(* What enters decode.                                                     *)
LEMMA DecodeEdge ==
  ASSUME Next
  PROVE  /\ maStallReq => UNCHANGED <<ifId, idEx>>
         /\ ~maStallReq => idEx' = DecodeOut
         /\ ~maStallReq /\ ifStallReq => ifId'.inst = ZeroWord
         /\ ~maStallReq /\ ~ifStallReq => ifId' = [pc |-> pc, inst |-> inst]
         /\ maStallReq => wb' = EmptyWb
         /\ ~maStallReq => wb' = maOut
         /\ RegWrite
BY Stalls DEF Next, IfIdClock, IdExClock, WbClock, EmptyIfId

(* Without a redirection the fetch goes on behind what decode gets.        *)
LEMMA NextIsFollowing ==
  ASSUME pc \in CpuAddr, NEW npcAddr
  PROVE  NextPc(FALSE, npcAddr) = Following(pc)
<1>1. pc \in 0 .. RamBytes - 1 /\ RamBytes \in Nat /\ RamBytes >= 4
  BY SizeAssumption DEF CpuAddr
<1>2. CASE pc + 4 >= RamBytes
  <2>1. pc + 4 = RamBytes * 1 + (pc + 4 - RamBytes) /\ pc + 4 - RamBytes \in 0 .. RamBytes - 1
    BY <1>1, <1>2
  <2>2. (RamBytes * 1 + (pc + 4 - RamBytes)) % RamBytes = pc + 4 - RamBytes
    <3> DEFINE r == pc + 4 - RamBytes
    <3>1. r \in 0 .. RamBytes - 1 /\ RamBytes \in Nat \ {0} /\ 1 \in Nat
      BY <1>1, <2>1
    <3> HIDE DEF r
    <3>2. (RamBytes * 1 + r) % RamBytes = r
      BY <3>1, DivModUnique
    <3> QED BY <3>2 DEF r
  <2> QED BY <1>2, <2>1, <2>2 DEF NextPc, Following
<1>3. CASE ~(pc + 4 >= RamBytes)
  <2>1. (pc + 4) % RamBytes = pc + 4
    BY <1>1, <1>3
  <2> QED BY <1>3, <2>1 DEF NextPc, Following
<1> QED BY <1>2, <1>3

(* Only an instruction behind which the fetch unit holds redirects it.     *)
LEMMA NotRedirected ==
  ASSUME HoldInv, IfTypeOK, inst # ZeroWord \/ IdInst.op \notin Holding
  PROVE  NextPc(UseNpc, NpcAddr) = Following(pc)
<1>1. IdInst.op \notin Holding
  BY DEF HoldInv, BubbleBehind
<1>2. ~UseNpc
  BY <1>1 DEF UseNpc, Holding
<1>3. NextPc(UseNpc, NpcAddr) = NextPc(FALSE, NpcAddr)
  BY <1>2 DEF NextPc
<1> QED BY <1>3, NextIsFollowing DEF IfTypeOK

(* An edge keeps PcChain.                                                  *)
LEMMA ChainNext ==
  ASSUME Memory!EnvAssumption, LegalProgram, CpuInv, ProgramFits, Next
  PROVE  Decoded' /\ PcChain'
<1>1. FetchEdge /\ MemInv /\ IfTypeOK /\ Busy
  BY FetchClock, MemTypes, MemBusy DEF CpuInv
<1>2. CASE maStallReq
  <2>1. ifId' = ifId
    BY <1>2, DecodeEdge
  <2>2. Decoded'
    BY <2>1 DEF CpuInv, Decoded
  <2>3. pc' = pc /\ (Fetching' <=> Fetching) /\ (ifSta' = "hold" => inst' # ZeroWord)
    BY <1>1, <1>2 DEF FetchEdge, Fetching, CpuInv, PcChain
  <2> QED BY <2>1, <2>2, <2>3 DEF CpuInv, PcChain
<1>3. CASE ~maStallReq /\ ifStallReq
  <2>1. ifId'.inst = ZeroWord
    BY <1>3, DecodeEdge
  <2>2. ifSta' = "hold" => inst' # ZeroWord
    BY <1>1, <1>3 DEF FetchEdge, Busy
  <2> QED BY <2>1, <2>2 DEF Decoded, PcChain
<1>4. CASE ~maStallReq /\ ~ifStallReq
  <2>1. ifId' = [pc |-> pc, inst |-> inst]
    BY <1>4, DecodeEdge
  <2>2. inst # ZeroWord => pc \in FetchAddrs /\ inst = ProgramAt(pc)
    BY <1>1, <1>4, FetchedWord
  <2>3. Decoded'
    BY <2>1, <2>2 DEF Decoded
  <2>4. CASE ifSta = "lookup"
    <3>1. pc' = NextPc(UseNpc, NpcAddr) /\ Found
      BY <1>1, <1>4, <2>4 DEF FetchEdge
    <3>2. inst # ZeroWord => pc' = Following(pc)
      BY <1>1, <3>1, NotRedirected DEF CpuInv
    <3>3. Fetching' /\ (ifSta' = "hold" => inst' # ZeroWord)
      BY <3>1 DEF Found, Fetching
    <3> QED BY <2>1, <2>3, <3>2, <3>3 DEF PcChain
  <2>5. CASE ifSta = "hold"
    <3>1. pc' = pc /\ ifSta' = "lookup" /\ inst' = ZeroWord
      BY <1>1, <1>4, <2>5 DEF FetchEdge
    <3> QED BY <2>1, <2>3, <3>1 DEF PcChain, Fetching
  <2> QED BY <1>1, <1>4, <2>4, <2>5 DEF IfTypeOK, Busy
<1> QED BY <1>2, <1>3, <1>4

(* Every edge keeps the invariant.                                         *)
LEMMA CpuInvNext ==
  ASSUME Memory!EnvAssumption, LegalProgram, LoadsReadRam, CpuInv, ProgramFits, Next
  PROVE  CpuInv'
<1>1. IfTypeOK /\ MaTypeOK /\ Busy
  BY MemTypes, MemBusy DEF CpuInv
<1>2. MemInv' /\ HoldInv' /\ PipeTypeOK'
  BY <1>1, MemInvNext, HoldNext, PipeTypeNext DEF CpuInv
<1>3. PendingReadsRam'
  <2>1. MaEdge
    BY <1>1, MaEdgeHolds
  <2>2. CASE ~maStallReq
    <3>1. maSta = "idle"
      BY <1>1, <2>2 DEF Busy
    <3>2. ExecuteOut.ma_we \/ ExecuteOut.ma_re => ExecuteOut \in Accesses
      BY <3>1 DEF ProgramFits, ReadOfExecute, ExecuteOut
    <3> HIDE DEF ExecuteOut
    <3> QED BY <2>1, <2>2, <3>2 DEF MaEdge, NoRequest, LoadsReadRam, PendingReadsRam
  <2>3. CASE maStallReq
    BY <2>1, <2>3 DEF MaEdge, CpuInv, PendingReadsRam
  <2> QED BY <2>2, <2>3
<1> QED BY <1>2, <1>3, ChainNext DEF CpuInv

LEMMA MemInvStutter ==
  ASSUME Memory!EnvAssumption, MemInv, UNCHANGED vars
  PROVE  MemInv'
<1>1. UNCHANGED Memory!vars
  BY DEF vars, ramVars, mcVars, ifVars, maVars, Memory!vars, Memory!ramVars, Memory!mcVars,
     Memory!ifVars, Memory!maVars
<1>2. Memory!CacheInv' /\ Memory!LoadInv'
  BY <1>1, MemoryAssumed, Memory!CacheNext, Memory!LoadNext DEF MemInv
<1>3. Memory!CodeIntact'
  BY <1>1 DEF Memory!vars, Memory!ramVars, MemInv, Memory!CodeIntact
<1> QED BY <1>2, <1>3 DEF MemInv

LEMMA CpuInvStutter ==
  ASSUME Memory!EnvAssumption, CpuInv, UNCHANGED vars
  PROVE  CpuInv'
<1>1. UNCHANGED <<ifVars, maVars, pipeVars>>
  BY DEF vars
<1>2. HoldInv'
  BY <1>1 DEF CpuInv, HoldInv, FetchPhase, BubbleBehind, LoadUseBubble, IdInst, ifVars, pipeVars
<1>3. PipeTypeOK' /\ Decoded' /\ PcChain' /\ PendingReadsRam'
  BY <1>1 DEF CpuInv, PipeTypeOK, Decoded, PcChain, Fetching, PendingReadsRam, ifVars, maVars, pipeVars
<1> QED BY <1>2, <1>3, MemInvStutter DEF CpuInv

(* The invariant of the CPU and its program together.                      *)
LEMMA CpuInductive ==
  ASSUME Memory!EnvAssumption, LegalProgram, LoadsReadRam
  PROVE  Spec /\ ram = Program /\ []ProgramFits => []CpuInv
<1>1. Init /\ ram = Program => CpuInv
  BY CpuInvInit
<1>2. CpuInv /\ ProgramFits /\ [Next]_vars => CpuInv'
  BY CpuInvNext, CpuInvStutter
<1> QED BY <1>1, <1>2, PTL DEF Spec

(* The types rest on the memory system's invariant alone.                  *)
TypeInv == MemInv /\ PipeTypeOK

(* Every register of the CPU holds a value of its kind, whatever program   *)
(* fits: in particular every result of EXU.v is a word, and every address  *)
(* that IDU.v and EXU.v put out is one of the bus.                         *)
THEOREM CoreTypeCorrect ==
  ASSUME Memory!EnvAssumption
  PROVE  Spec /\ ram = Program /\ []ProgramFits => []TypeOK
<1>1. Init /\ ram = Program => TypeInv
  BY MemInvInit, PipeTypeInit DEF TypeInv
<1>2. TypeInv /\ ProgramFits /\ [Next]_vars => TypeInv'
  <2>1. ASSUME TypeInv, ProgramFits, Next PROVE TypeInv'
    BY <2>1, MemInvNext, MemTypes, PipeTypeNext DEF TypeInv
  <2>2. ASSUME TypeInv, UNCHANGED vars PROVE TypeInv'
    BY <2>2, MemInvStutter DEF TypeInv, PipeTypeOK, vars, pipeVars
  <2> QED BY <2>1, <2>2
<1>3. TypeInv => TypeOK
  BY MemTypes DEF TypeInv, PipeTypeOK, TypeOK
<1> QED BY <1>1, <1>2, <1>3, PTL DEF Spec

-----------------------------------------------------------------------------
(* The arithmetic of the execute stage is that of the ISA.                 *)

(* Isa and Core compute with the same words.                               *)
LEMMA SameWords ==
  /\ \A n : Programmer!ToWord(n) = ToWord(n)
  /\ \A w : Programmer!ToNat(w) = ToNat(w)
  /\ \A n : Programmer!Wrap(n) = Wrap(n)
  /\ \A a, b : Programmer!SignedLess(a, b) <=> SignedLess(a, b)
  /\ \A n : Programmer!BitsOf(n) = BitsOf(n)
  /\ \A A, s : Programmer!MovedUp(A, s) = MovedUp(A, s)
  /\ Programmer!WordValues = WordValues
  /\ Programmer!CpuAddr = CpuAddr
<1>1. Programmer!WordValues = WordValues
  BY DEF WordValues, Programmer!WordValues
<1>2. \A n : Programmer!ToWord(n) = ToWord(n)
  BY Zenon DEF ToWord, Programmer!ToWord
<1>3. \A w : Programmer!ToNat(w) = ToNat(w)
  BY Zenon DEF ToNat, Programmer!ToNat
<1>4. \A n : Programmer!Wrap(n) = Wrap(n)
  BY <1>1 DEF Wrap, Programmer!Wrap
<1>5. \A a, b : Programmer!SignedLess(a, b) <=> SignedLess(a, b)
  BY <1>1 DEF SignedLess, Programmer!SignedLess
<1>6. \A n : Programmer!BitsOf(n) = BitsOf(n)
  BY Zenon DEF BitsOf, Programmer!BitsOf
<1>7. \A A, s : Programmer!MovedUp(A, s) = MovedUp(A, s)
  BY Zenon DEF MovedUp, Programmer!MovedUp
<1> QED BY <1>1, <1>2, <1>3, <1>4, <1>5, <1>6, <1>7 DEF CpuAddr, Programmer!CpuAddr

LEMMA SameOfBits == \A S : Programmer!OfBits(S) = OfBits(S)
BY Zenon DEF OfBits, Programmer!OfBits

(* A shift to the right: bits moved down, and ones moved in from above.    *)
LEMMA SameShift ==
  ASSUME NEW a, NEW s \in 0 .. WordBits - 1, NEW ones \in BOOLEAN
  PROVE  ShiftRight(a, s, ones) = Programmer!OfBits(Programmer!Shifted(a, s, ones))
<1> DEFINE left == MovedDown(BitsOf(a), s)
                   \cup MovedUp(IF ones THEN 0 .. WordBits - 1 ELSE {}, WordBits - s)
           right == Programmer!Shifted(a, s, ones)
<1>1. WordBits \in Nat \ {0}
  BY WordBitsAssumption
<1>2. \A j \in BitsOf(a) : j \in 0 .. WordBits - 1
  BY DEF BitsOf
<1>3. ASSUME NEW k \in 0 .. WordBits - 1 PROVE k \in left <=> k \in right
  <2>0. Programmer!BitsOf(a) = BitsOf(a)
    BY SameWords
  <2>1. k \in right <=> IF k + s < WordBits THEN k + s \in BitsOf(a) ELSE ones
    BY <2>0 DEF Programmer!Shifted
  <2>2. k \in left <=> k + s \in BitsOf(a) \/ (ones /\ k - (WordBits - s) \in 0 .. WordBits - 1)
    BY DEF MovedDown, MovedUp
  <2>3. k - (WordBits - s) \in 0 .. WordBits - 1 <=> ~(k + s < WordBits)
    BY <1>1
  <2>4. k + s \in BitsOf(a) => k + s < WordBits
    BY <1>1, <1>2
  <2> HIDE DEF left, right
  <2> QED BY <2>1, <2>2, <2>3, <2>4
<1>4. left \subseteq 0 .. WordBits - 1 /\ right \subseteq 0 .. WordBits - 1
  BY DEF MovedDown, MovedUp, Programmer!Shifted
<1> HIDE DEF left, right
<1>5. left = right
  BY <1>3, <1>4
<1> QED BY <1>5, SameOfBits DEF ShiftRight, left, right

(* What the ALU computes is what the ISA says of the instruction.          *)
LEMMA SameComputed ==
  ASSUME NEW f3 \in 0 .. 7, NEW alt \in BOOLEAN,
         NEW a \in 0 .. WordValues - 1, NEW b \in 0 .. WordValues - 1
  PROVE  Alu(f3, alt, a, b) = Programmer!Computed(f3, alt, a, b)
<1>1. CASE f3 = 0
  BY <1>1, SameWords DEF Alu, Programmer!Computed
<1>2. CASE f3 = 1
  BY <1>2, SameWords, SameOfBits DEF Alu, Programmer!Computed
<1>3. CASE f3 = 2
  BY <1>3, SameWords DEF Alu, Programmer!Computed
<1>4. CASE f3 = 3
  BY <1>4 DEF Alu, Programmer!Computed
<1>5. CASE f3 = 4
  <2>1. (BitsOf(a) \ BitsOf(b)) \cup (BitsOf(b) \ BitsOf(a))
          = (BitsOf(a) \cup BitsOf(b)) \ (BitsOf(a) \cap BitsOf(b))
    OBVIOUS
  <2> QED BY <1>5, <2>1, SameWords, SameOfBits DEF Alu, Programmer!Computed
<1>6. CASE f3 = 5
  <2>1. b % WordBits \in 0 .. WordBits - 1
    BY WordBitsAssumption, DivMod
  <2>2. 2 * a >= WordValues <=> SignedLess(a, 0)
    BY WordValuesTyped DEF SignedLess
  <2>3. (alt /\ 2 * a >= WordValues) = (alt /\ Programmer!SignedLess(a, 0))
    BY <2>2, SameWords
  <2>4. (alt /\ 2 * a >= WordValues) \in BOOLEAN
    OBVIOUS
  <2>5. ShiftRight(a, b % WordBits, alt /\ 2 * a >= WordValues)
          = Programmer!OfBits(Programmer!Shifted(a, b % WordBits, alt /\ Programmer!SignedLess(a, 0)))
    BY ONLY <2>1, <2>3, <2>4, SameShift
  <2> QED BY <1>6, <2>5 DEF Alu, Programmer!Computed
<1>7. CASE f3 = 6
  <2>1. Alu(f3, alt, a, b) = OfBits(BitsOf(a) \cup BitsOf(b))
    BY <1>7 DEF Alu
  <2>2. Programmer!Computed(f3, alt, a, b)
          = Programmer!OfBits(Programmer!BitsOf(a) \cup Programmer!BitsOf(b))
    BY <1>7 DEF Programmer!Computed
  <2> QED BY <2>1, <2>2, SameWords, SameOfBits
<1>8. CASE f3 = 7
  <2>1. Alu(f3, alt, a, b) = OfBits(BitsOf(a) \cap BitsOf(b))
    BY <1>8 DEF Alu
  <2>2. Programmer!Computed(f3, alt, a, b)
          = Programmer!OfBits(Programmer!BitsOf(a) \cap Programmer!BitsOf(b))
    BY <1>8 DEF Programmer!Computed
  <2> QED BY <2>1, <2>2, SameWords, SameOfBits
<1> QED BY <1>1, <1>2, <1>3, <1>4, <1>5, <1>6, <1>7, <1>8

(* The sum of two operands, which is all that the other instructions use. *)
LEMMA SumOut ==
  ASSUME NEW a \in 0 .. WordValues - 1, NEW b \in 0 .. WordValues - 1
  PROVE  /\ Alu(0, FALSE, a, b) = Wrap(a + b)
         /\ Wrap(a + b) \in 0 .. WordValues - 1
         /\ a + b < WordValues => Wrap(a + b) = a + b
<1>1. Wrap(a + b) \in 0 .. WordValues - 1
  BY WordValuesTyped, DivMod DEF Wrap
<1>2. a + b < WordValues => Wrap(a + b) = a + b
  BY WordValuesTyped DEF Wrap
<1> QED BY <1>1, <1>2 DEF Alu

LEMMA ZeroSum ==
  ASSUME NEW m \in 0 .. WordValues - 1
  PROVE  Alu(0, FALSE, 0, m) = m
<1>1. 0 \in 0 .. WordValues - 1 /\ 0 + m = m /\ 0 + m < WordValues
  BY WordValuesTyped
<1>2. Alu(0, FALSE, 0, m) = Wrap(0 + m) /\ Wrap(0 + m) = 0 + m
  BY <1>1, SumOut
<1> QED BY <1>1, <1>2

(* The target of a jalr: the low bit is cleared in the number of an even   *)
(* size of RAM as in the sum.                                              *)
LEMMA JumpTarget ==
  ASSUME NEW n \in Nat
  PROVE  (n % RamBytes) - ((n % RamBytes) % 2) = ((n \div 2) * 2) % RamBytes
<1> DEFINE q == n \div RamBytes
           r == n % RamBytes
           h == RamBytes \div 2
           k == r \div 2
           e == r % 2
<1>1. RamBytes \in Nat \ {0} /\ RamBytes % 2 = 0
  BY SizeAssumption, CoreAssumption
<1>2. q \in Nat /\ r \in 0 .. RamBytes - 1 /\ n = RamBytes * q + r
  BY <1>1, DivMod
<1>3. h \in Nat /\ RamBytes = 2 * h
  BY <1>1
<1>4. k \in Nat /\ e \in 0 .. 1 /\ r = 2 * k + e
  BY <1>2
<1> HIDE DEF q, r, h, k, e
<1>5. n = 2 * (h * q + k) + e /\ h * q + k \in Nat
  <2>1. RamBytes * q = 2 * (h * q) /\ h * q \in Nat
    BY <1>2, <1>3
  <2> QED BY <1>2, <1>4, <2>1
<1>6. n \div 2 = h * q + k
  <2>1. (2 * (h * q + k) + e) \div 2 = h * q + k
    <3> DEFINE m == h * q + k
    <3>1. m \in Nat
      BY <1>5
    <3> HIDE DEF m
    <3>2. (2 * m + e) \div 2 = m
      BY <1>4, <3>1
    <3> QED BY <3>2 DEF m
  <2> QED BY <1>5, <2>1
<1>7. (n \div 2) * 2 = RamBytes * q + 2 * k
  BY <1>2, <1>3, <1>4, <1>6
<1>8. 2 * k \in 0 .. RamBytes - 1
  BY <1>1, <1>2, <1>4
<1>9. (RamBytes * q + 2 * k) % RamBytes = 2 * k
  BY <1>1, <1>2, <1>8, DivModUnique
<1>10. r - e = 2 * k
  BY <1>4
<1> QED BY <1>7, <1>9, <1>10 DEF r, e

-----------------------------------------------------------------------------
(* A clock edge at which the memory-access stage stalls the pipeline is    *)
(* none for the programmer: what it does to the RAM and to the value of a  *)
(* load was there already.                                                 *)

LEMMA AccessAddresses ==
  ASSUME MaTypeOK
  PROVE  /\ maReq.addr \in Nat /\ BytesOf(maReq.width) \in 1 .. 4
         /\ IoEnabled(maReq.addr) => \A b \in AccessBytes(maReq.addr, maReq.width) : b \notin CpuAddr
<1>1. maReq.addr \in Nat /\ BytesOf(maReq.width) \in 1 .. 4
  BY SizeAssumption DEF MaTypeOK, BusAddr, Width, BytesOf
<1>2. ASSUME IoEnabled(maReq.addr), NEW b \in AccessBytes(maReq.addr, maReq.width)
      PROVE  b \notin CpuAddr
  <2>1. b \in Nat /\ b >= maReq.addr /\ 2 * maReq.addr >= 3 * RamBytes
    BY <1>1, <1>2 DEF AccessBytes, IoEnabled
  <2> QED BY <1>1, <2>1, SizeAssumption DEF CpuAddr
<1> QED BY <1>1, <1>2

(* What a stalled edge leaves as it is: the memory of the sequential       *)
(* machine, its registers and its pc.                                      *)
LEMMA RamKept ==
  ASSUME Memory!EnvAssumption, MemInv, ProgramFits, Next, ~(maReq.we /\ maStallReq)
  PROVE  ram' = ram
<1>1. RamTypeOK /\ RamTypeOK'
  <2>1. RamTypeOK
    BY MemTypes
  <2>2. RamTypeOK'
    BY MemInvNext, MemTypes, PTL
  <2> QED BY <2>1, <2>2
<1>2. \A b \in CpuAddr : ram'[b] = ram[b]
  BY RamEdge
<1> QED BY <1>1, <1>2 DEF RamTypeOK

LEMMA MaMemoryKept ==
  ASSUME Memory!EnvAssumption, MemInv, ProgramFits, Next, maStallReq
  PROVE  MaMemory' = MaMemory
<1>1. RamTypeOK /\ MaTypeOK /\ Busy
  BY MemTypes, MemBusy
<1>2. RamTypeOK'
  BY MemInvNext, MemTypes, PTL
<1>3. MaEdge
  BY <1>1, MaEdgeHolds
<1>4. CASE ~maReq.we \/ IoEnabled(maReq.addr)
  <2>1. ram' = ram
    <3>1. \A b \in CpuAddr : ram'[b] = ram[b]
      BY <1>1, <1>4, RamEdge, AccessAddresses
    <3> QED BY <1>1, <1>2, <3>1 DEF RamTypeOK
  <2>2. ~maReq'.we \/ IoEnabled(maReq'.addr)
    BY <1>3, <1>4 DEF MaEdge
  <2> QED BY <1>4, <2>1, <2>2 DEF MaMemory, StoreDone
<1>5. CASE maReq.we /\ ~IoEnabled(maReq.addr)
  <2> DEFINE A == AccessBytes(maReq.addr, maReq.width)
             M(m) == [b \in CpuAddr |-> IF b \in A THEN maReq.wdata[b - maReq.addr] ELSE m[b]]
  <2>1. MaMemory = M(ram)
    BY <1>5 DEF MaMemory, StoreDone
  <2>2. \A b \in CpuAddr : b \notin A => ram'[b] = ram[b]
    BY RamEdge
  <2>3. M(ram') = M(ram)
    BY <2>2
  <2>4. CASE maReq' = maReq
    <3>1. MaMemory' = StoreDone(ram', maReq.we, maReq)
      BY <2>4 DEF MaMemory
    <3> QED BY <1>5, <2>1, <2>3, <3>1 DEF StoreDone
  <2>5. CASE maReq' # maReq
    <3>1. maSta = "wait" /\ maSta' = "idle" /\ ~maReq'.we
      BY <1>3, <2>5 DEF MaEdge
    <3>2. \A i \in 0 .. BytesOf(maReq.width) - 1 : ram'[maReq.addr + i] = maReq.wdata[i]
      BY <1>5, <3>1, RamEdge
    <3>3. ASSUME NEW b \in CpuAddr, b \in A PROVE ram'[b] = maReq.wdata[b - maReq.addr]
      <4>1. b - maReq.addr \in 0 .. BytesOf(maReq.width) - 1 /\ maReq.addr + (b - maReq.addr) = b
        BY <1>1, <3>3, AccessAddresses DEF AccessBytes
      <4> QED BY <3>2, <4>1
    <3> HIDE DEF A
    <3>4. \A b \in CpuAddr : ram'[b] = M(ram)[b]
      BY <2>2, <3>3
    <3>5. ram' = M(ram)
      BY <1>2, <3>4 DEF RamTypeOK
    <3>6. MaMemory' = ram'
      BY <3>1 DEF MaMemory, StoreDone
    <3> QED BY <2>1, <3>5, <3>6
  <2> QED BY <2>4, <2>5
<1> QED BY <1>4, <1>5

LEMMA ExecuteKept ==
  ASSUME idEx' = idEx
  PROVE  AluOut' = AluOut /\ ExecuteOut' = ExecuteOut
BY DEF AluOut, ExecuteOut

(* The register file takes what is being written back.                     *)
LEMMA RegisterWritten ==
  ASSUME PipeTypeOK, RegWrite, NEW r \in Regs
  PROVE  r # 0 => regs'[r] = IF wb.we /\ wb.waddr = r THEN wb.wdata ELSE regs[r]
BY DEF PipeTypeOK, RegWrite

LEMMA RegsKept ==
  ASSUME Memory!EnvAssumption, CpuInv, ProgramFits, Next, maStallReq, NEW r \in Regs
  PROVE  IsaReg(r)' = IsaReg(r)
<1>1. RamTypeOK /\ MaTypeOK /\ Busy /\ MemInv /\ PipeTypeOK /\ PendingReadsRam
  BY MemTypes, MemBusy DEF CpuInv
<1>2. MaEdge
  BY <1>1, MaEdgeHolds
<1>3. ifId' = ifId /\ idEx' = idEx /\ wb' = EmptyWb /\ RegWrite
  BY DecodeEdge
<1>4. AluOut' = AluOut /\ ExecuteOut' = ExecuteOut /\ MaMemory' = MaMemory
  BY <1>1, <1>3, ExecuteKept, MaMemoryKept
<1>5. RegRead(r)' = RegRead(r)
  BY <1>1, <1>3, RegisterWritten DEF RegRead, EmptyWb
<1>6. maOut'.we = maOut.we /\ maOut'.waddr = maOut.waddr
  BY <1>1, <1>2 DEF MaEdge, MaTypeOK
<1>7. (IF maReq'.re THEN LoadFrom(ram', maReq'.addr, maReq'.width) ELSE maOut'.wdata)
        = (IF maReq.re THEN LoadFrom(ram, maReq.addr, maReq.width) ELSE maOut.wdata)
  <2>1. CASE maReq.re
    <3>1. ram' = ram
      BY <1>1, <2>1, RamKept DEF Busy
    <3>2. CASE maReq' = maReq
      BY <2>1, <3>1, <3>2
    <3>3. CASE maReq' # maReq
      <4>1. maSta = "wait" /\ maSta' = "idle" /\ ~maReq'.re
        BY <1>2, <3>3 DEF MaEdge
      <4>2. maOut'.wdata = LoadFrom(ram, maReq.addr, maReq.width)
        BY <1>1, <2>1, <4>1, LoadEdge DEF PendingReadsRam
      <4> QED BY <2>1, <4>1, <4>2
    <3> QED BY <3>2, <3>3
  <2>2. CASE ~maReq.re
    <3>1. ~maReq'.re /\ maOut' = maOut
      BY <1>2, <2>2 DEF MaEdge
    <3> QED BY <2>2, <3>1
  <2> QED BY <2>1, <2>2
<1> HIDE DEF MaMemory, ExecuteOut, AluOut, RegRead
<1>8. IsaReg(r)' = IF r = 0 THEN ZeroWord
  ELSE IF idEx.we /\ idEx.waddr = r
  THEN IF idEx.ma_re THEN LoadFrom(MaMemory, ExecuteOut.addr, ExecuteOut.width) ELSE AluOut
  ELSE IF maOut.we /\ maOut.waddr = r
  THEN (IF maReq'.re THEN LoadFrom(ram', maReq'.addr, maReq'.width) ELSE maOut'.wdata)
  ELSE RegRead(r)
  BY <1>3, <1>4, <1>5, <1>6 DEF IsaReg, LoadFrom
<1> QED BY <1>7, <1>8 DEF IsaReg

LEMMA PcKept ==
  ASSUME Memory!EnvAssumption, LegalProgram, CpuInv, ProgramFits, Next, maStallReq
  PROVE  IsaPc' = IsaPc
<1>1. FetchEdge /\ ifId' = ifId
  BY FetchClock, DecodeEdge DEF CpuInv
<1>2. pc' = pc /\ (Fetching' <=> Fetching)
  BY <1>1 DEF FetchEdge, Fetching, CpuInv, PcChain
<1>3. IdInst' = IdInst
  BY <1>1 DEF IdInst
<1>4. NextPc(FALSE, 0)' = NextPc(FALSE, 0)
  BY <1>2 DEF NextPc
<1> QED BY <1>1, <1>2, <1>3, <1>4 DEF IsaPc, Fetching

(* An edge at which execute is stalled executes nothing.                   *)
LEMMA StalledStutters ==
  ASSUME Memory!EnvAssumption, LegalProgram, CpuInv, ProgramFits, Next, maStallReq
  PROVE  UNCHANGED Programmer!isaVars
<1>1. IsaPc' = IsaPc
  BY PcKept
<1>2. \A r \in Regs : IsaReg(r)' = IsaReg(r)
  BY RegsKept
<1>3. IsaMemory' = IsaMemory
  <2>1. idEx' = idEx /\ MaMemory' = MaMemory
    BY DecodeEdge, MaMemoryKept DEF CpuInv
  <2>2. ExecuteOut' = ExecuteOut
    BY <2>1, ExecuteKept
  <2> QED BY <2>1, <2>2 DEF IsaMemory, StoreDone
<1>4. [r \in Regs |-> IsaReg(r)]' = [r \in Regs |-> IsaReg(r)]
  BY <1>2
<1> QED BY <1>1, <1>3, <1>4 DEF Programmer!isaVars

-----------------------------------------------------------------------------
(* A clock edge at which nothing stalls the pipeline moves every stage on. *)
(* For the programmer only what decode hands to execute is new.            *)

LEMMA IdleRequest ==
  ASSUME MemInv, ~maStallReq
  PROVE  ~maReq.we /\ ~maReq.re /\ MaMemory = ram
<1>1. ~maReq.we /\ ~maReq.re
  BY MemBusy DEF Busy
<1> QED BY <1>1 DEF MaMemory, StoreDone

(* An edge at which nothing is stalled: the memory and the registers of    *)
(* the sequential machine get what the instruction that leaves decode      *)
(* writes, and nothing else.                                               *)
LEMMA MemoryAdvances ==
  ASSUME Memory!EnvAssumption, CpuInv, ProgramFits, Next, ~maStallReq
  PROVE  /\ MaMemory' = IsaMemory
         /\ IsaMemory' = StoreDone(IsaMemory, idEx'.ma_we,
              [addr |-> ExecuteOut'.addr, width |-> ExecuteOut'.width, wdata |-> idEx'.extra])
<1>1. ram' = ram
  BY RamKept DEF CpuInv
<1>2. ~maReq.we /\ ~maReq.re /\ MaMemory = ram
  BY IdleRequest DEF CpuInv
<1>3. MaEdge
  BY MaEdgeHolds, MemTypes, MemBusy DEF CpuInv
<1>4. MaMemory' = IsaMemory
  <2>1. CASE idEx.ma_we \/ idEx.ma_re
    <3>1. ExecuteOut.ma_we = idEx.ma_we /\ ExecuteOut.ma_re = idEx.ma_re /\ ExecuteOut.mdata = idEx.extra
      BY DEF ExecuteOut
    <3> HIDE DEF ExecuteOut
    <3>2. /\ maReq'.we = idEx.ma_we /\ maReq'.addr = ExecuteOut.addr
          /\ maReq'.width = ExecuteOut.width /\ maReq'.wdata = idEx.extra
      BY <1>3, <2>1, <3>1 DEF MaEdge
    <3> QED BY <1>1, <1>2, <3>2 DEF MaMemory, IsaMemory, StoreDone
  <2>2. CASE ~(idEx.ma_we \/ idEx.ma_re)
    <3>1. ~maReq'.we
      BY <1>3, <2>2 DEF MaEdge, ExecuteOut, NoRequest
    <3> QED BY <1>1, <1>2, <2>2, <3>1 DEF MaMemory, IsaMemory, StoreDone
  <2> QED BY <2>1, <2>2
<1>5. IsaMemory' = StoreDone(MaMemory', idEx'.ma_we,
              [addr |-> ExecuteOut'.addr, width |-> ExecuteOut'.width, wdata |-> idEx'.extra])
  BY DEF IsaMemory, StoreDone
<1> QED BY <1>4, <1>5

LEMMA RegsAdvance ==
  ASSUME Memory!EnvAssumption, CpuInv, ProgramFits, Next, ~maStallReq, NEW r \in Regs
  PROVE  IsaReg(r)' = IF r # 0 /\ idEx'.we /\ idEx'.waddr = r
                      THEN IF idEx'.ma_re
                           THEN LoadFrom(IsaMemory, ExecuteOut'.addr, ExecuteOut'.width)
                           ELSE AluOut'
                      ELSE IsaReg(r)
<1>1. RamTypeOK /\ MaTypeOK /\ Busy /\ MemInv /\ PipeTypeOK
  BY MemTypes, MemBusy DEF CpuInv
<1>2. MaEdge /\ ram' = ram /\ MaMemory' = IsaMemory
  BY <1>1, MaEdgeHolds, RamKept, MemoryAdvances
<1>3. ~maReq.we /\ ~maReq.re /\ MaMemory = ram
  BY <1>1, IdleRequest
<1>4. wb' = maOut /\ RegWrite
  BY DecodeEdge
<1>5. r # 0 => RegRead(r)' = IF maOut.we /\ maOut.waddr = r THEN maOut.wdata ELSE RegRead(r)
  BY <1>1, <1>4, RegisterWritten DEF RegRead
<1>6. maOut'.we = idEx.we /\ maOut'.waddr = idEx.waddr /\ maOut'.wdata = AluOut
  BY <1>2 DEF MaEdge, WriteBack, ExecuteOut
<1>7. (IF maReq'.re THEN LoadFrom(ram', maReq'.addr, maReq'.width) ELSE maOut'.wdata)
        = (IF idEx.ma_re THEN LoadFrom(MaMemory, ExecuteOut.addr, ExecuteOut.width) ELSE AluOut)
  <2>1. ExecuteOut.ma_we = idEx.ma_we /\ ExecuteOut.ma_re = idEx.ma_re
    BY DEF ExecuteOut
  <2> HIDE DEF ExecuteOut
  <2>2. CASE idEx.ma_we \/ idEx.ma_re
    BY <1>2, <1>3, <1>6, <2>1, <2>2 DEF MaEdge
  <2>3. CASE ~(idEx.ma_we \/ idEx.ma_re)
    BY <1>2, <1>6, <2>1, <2>3 DEF MaEdge, NoRequest
  <2> QED BY <2>2, <2>3
<1> HIDE DEF MaMemory, IsaMemory, ExecuteOut, AluOut, RegRead
<1>8. IsaReg(r)' =
        IF r = 0 THEN ZeroWord
        ELSE IF idEx'.we /\ idEx'.waddr = r
        THEN IF idEx'.ma_re THEN LoadFrom(IsaMemory, ExecuteOut'.addr, ExecuteOut'.width) ELSE AluOut'
        ELSE IF idEx.we /\ idEx.waddr = r
        THEN (IF maReq'.re THEN LoadFrom(ram', maReq'.addr, maReq'.width) ELSE maOut'.wdata)
        ELSE RegRead(r)'
  BY <1>2, <1>6 DEF IsaReg, LoadFrom
<1>9. IsaReg(r) =
        IF r = 0 THEN ZeroWord
        ELSE IF idEx.we /\ idEx.waddr = r
        THEN (IF idEx.ma_re THEN LoadFrom(MaMemory, ExecuteOut.addr, ExecuteOut.width) ELSE AluOut)
        ELSE IF maOut.we /\ maOut.waddr = r THEN maOut.wdata ELSE RegRead(r)
  BY <1>3 DEF IsaReg
<1> QED BY <1>5, <1>7, <1>8, <1>9

(* The instruction in decode reads the programmer's registers: the value   *)
(* on the forwarding paths is the newest one, and no load is among them.   *)
LEMMA OperandRead ==
  ASSUME CpuInv, ~maStallReq, IdInst.op # "bubble", NEW r \in Regs
  PROVE  Forwarded(r) = IsaReg(r) /\ IsaReg(r) \in Word
<1>1. ~maReq.re /\ MaTypeOK
  BY IdleRequest, MemTypes DEF CpuInv
<1>2. ~idEx.ma_re
  BY DEF CpuInv, HoldInv, LoadUseBubble
<1>3. Forwarded(r) = IsaReg(r)
  BY <1>1, <1>2 DEF Forwarded, IsaReg, RegRead
<1> QED BY <1>1, <1>3, ForwardedTyped DEF CpuInv

(* The memory the programmer sees holds the instruction in decode at the   *)
(* programmer's pc.                                                        *)
LEMMA InstructionInMemory ==
  ASSUME Memory!EnvAssumption, LegalProgram, CpuInv, ProgramFits, ~maStallReq, IdInst.op # "bubble"
  PROVE  [k \in 0 .. 3 |-> IsaMemory[IsaPc + k]] = ifId.inst
<1>1. IsaPc = ifId.pc /\ ifId.pc \in FetchAddrs /\ ifId.inst = ProgramAt(ifId.pc)
  BY DecodeHolds DEF IsaPc, CpuInv
<1>2. MaMemory = ram /\ maSta = "idle"
  BY IdleRequest, MemBusy DEF CpuInv, Busy
<1> DEFINE addr == ExecuteOut.addr
           width == ExecuteOut.width
           base == Memory!BaseOf(ifId.pc)
<1>3. ASSUME NEW k \in 0 .. 3 PROVE IsaMemory[ifId.pc + k] = ram[ifId.pc + k]
  <2>1. ifId.pc + k \in CpuAddr
    BY <1>1, CodeInRam DEF CpuInv
  <2>2. CASE ~idEx.ma_we
    BY <1>2, <2>2 DEF IsaMemory, StoreDone
  <2>3. CASE idEx.ma_we
    <3>1. ExecuteOut.ma_we /\ ExecuteOut \in Accesses
      BY <1>2, <2>3 DEF ProgramFits, ReadOfExecute, ExecuteOut
    <3> HIDE DEF ExecuteOut
    <3>2. \A b \in Memory!AccessBytes(addr, width) : b < base \/ b >= base + LineBytes
      BY <1>1, <3>1 DEF Memory!EnvAssumption
    <3>3. /\ ifId.pc \in Nat /\ base \in Nat /\ base <= ifId.pc /\ ifId.pc + 4 <= base + LineBytes
      BY <1>1, MemoryAssumed, Memory!CodeAddress
    <3>4. ifId.pc + k \notin AccessBytes(addr, width)
      BY <3>2, <3>3, SizeAssumption DEF AccessBytes, BytesOf, Memory!AccessBytes, Memory!BytesOf
    <3> QED BY <1>2, <2>1, <3>4 DEF IsaMemory, StoreDone
  <2> QED BY <2>2, <2>3
<1>4. \A k \in 0 .. 3 : ram[ifId.pc + k] = Program[ifId.pc + k]
  BY <1>1, CodeInRam DEF CpuInv
<1> QED BY <1>1, <1>3, <1>4 DEF ProgramAt

(* The pc moves to the target of a branch that is taken, otherwise to the  *)
(* following instruction; a bubble does not move it.                       *)
LEMMA PcAdvances ==
  ASSUME Memory!EnvAssumption, LegalProgram, CpuInv, ProgramFits, Next, ~maStallReq
  PROVE  IsaPc' = IF IdInst.op = "bubble" THEN IsaPc
                  ELSE IF UseNpc THEN NpcAddr ELSE Following(ifId.pc)
<1> DEFINE D == IdInst.op # "bubble"
           N == IF Fetching THEN pc ELSE NextPc(UseNpc, NpcAddr)
<1>1. FetchEdge /\ IfTypeOK /\ Busy
  BY FetchClock, MemTypes, MemBusy DEF CpuInv
<1>2. D <=> ifId.inst # ZeroWord
  BY DecodeHolds DEF CpuInv
<1>3. Fetching /\ D => ~UseNpc
  <2>1. Fetching => IdInst.op \notin Holding
    BY DEF CpuInv, HoldInv, BubbleBehind, Fetching
  <2> QED BY <2>1 DEF UseNpc, Holding
<1>4. ~D => ~UseNpc
  BY DEF UseNpc
<1>5. \A npcAddr : NextPc(FALSE, npcAddr) = Following(pc)
  BY <1>1, NextIsFollowing DEF IfTypeOK
<1>6. ~UseNpc => NextPc(UseNpc, NpcAddr) = Following(pc)
  <2>1. ~UseNpc => NextPc(UseNpc, NpcAddr) = NextPc(FALSE, NpcAddr)
    BY DEF NextPc
  <2> QED BY <1>5, <2>1
<1>7. UseNpc => NextPc(UseNpc, NpcAddr) = NpcAddr
  BY DEF NextPc
<1>8. N = IF IdInst.op = "bubble" THEN IsaPc
          ELSE IF UseNpc THEN NpcAddr ELSE Following(ifId.pc)
  <2>1. CASE D
    <3>1. pc = IF Fetching THEN Following(ifId.pc) ELSE ifId.pc
      BY <1>2, <2>1 DEF CpuInv, PcChain
    <3> QED BY <1>3, <1>6, <1>7, <2>1, <3>1
  <2>2. CASE ~D
    <3>1. IsaPc = IF Fetching THEN pc ELSE NextPc(FALSE, 0)
      BY <2>2 DEF IsaPc, Fetching
    <3>2. NextPc(UseNpc, NpcAddr) = NextPc(FALSE, 0)
      BY <1>4, <1>5, <1>6, <2>2
    <3> QED BY <2>2, <3>1, <3>2
  <2> QED BY <2>1, <2>2
<1>9. IsaPc' = N
  <2>1. ASSUME ifId'.inst = ZeroWord, Fetching', pc' = N PROVE IsaPc' = N
    <3>1. IdInst'.op = "bubble"
      BY <2>1, DecodeAssumption DEF IdInst
    <3> QED BY <2>1, <3>1 DEF IsaPc, Fetching
  <2>2. CASE ifStallReq
    <3>1. ifId'.inst = ZeroWord
      BY <2>2, DecodeEdge
    <3>2. Fetching' /\ pc' = N
      BY <1>1, <2>2 DEF FetchEdge, Fetching, Busy
    <3> QED BY <2>1, <3>1, <3>2
  <2>3. CASE ~ifStallReq /\ inst = ZeroWord
    <3>1. ifId'.inst = ZeroWord
      BY <2>3, DecodeEdge
    <3>2. ifSta = "lookup"
      BY <1>1, <2>3 DEF IfTypeOK, Busy, CpuInv, PcChain
    <3>3. pc' = NextPc(UseNpc, NpcAddr) /\ Found
      BY <1>1, <3>2 DEF FetchEdge
    <3>4. Fetching' /\ ~Fetching
      BY <2>3, <3>2, <3>3 DEF Found, Fetching
    <3> QED BY <2>1, <3>1, <3>3, <3>4
  <2>4. CASE ~ifStallReq /\ inst # ZeroWord
    <3>1. ifId' = [pc |-> pc, inst |-> inst]
      BY <2>4, DecodeEdge
    <3>2. Decode(inst).op # "bubble"
      BY <2>4, FetchedWord, LegalWord DEF CpuInv, Legal, Operations
    <3>3. IdInst'.op # "bubble" /\ ifId'.pc = pc
      BY <3>1, <3>2 DEF IdInst
    <3> QED BY <2>4, <3>3 DEF IsaPc, Fetching
  <2> QED BY <2>2, <2>3, <2>4
<1> HIDE DEF N
<1> QED BY <1>8, <1>9

-----------------------------------------------------------------------------
(* An instruction that leaves decode is executed: what the pipeline        *)
(* carries of it from here on is what the ISA says it does.                *)

Operand1 == ToNat(IsaReg(IdInst.rs1))
Operand2 == ToNat(IsaReg(IdInst.rs2))

(* The instruction that leaves decode has the operands of the ISA.         *)
LEMMA Operands ==
  ASSUME CpuInv, ~maStallReq, IdInst.op # "bubble"
  PROVE  /\ Operand1 \in 0 .. WordValues - 1 /\ Operand2 \in 0 .. WordValues - 1
         /\ IdInst.op \in {"lui", "auipc", "jal", "fence"} => Reg1 = ZeroWord
         /\ IdInst.op \notin {"lui", "auipc", "jal", "fence"} => ToNat(Reg1) = Operand1
         /\ ToNat(Reg2) = Operand2 /\ Reg2 = IsaReg(IdInst.rs2) /\ Reg2 \in Word
<1>1. IdInst.rs1 \in Regs /\ IdInst.rs2 \in Regs /\ 0 \in Regs
  BY DecodedTyped, RegsAssumption DEF CpuInv
<1>2. \A r \in Regs : Forwarded(r) = IsaReg(r) /\ IsaReg(r) \in Word
  BY OperandRead
<1>3. IsaReg(0) = ZeroWord
  BY DEF IsaReg
<1>4. Operand1 \in 0 .. WordValues - 1 /\ Operand2 \in 0 .. WordValues - 1
  BY <1>1, <1>2, NumberOfWord DEF Operand1, Operand2
<1> QED BY <1>1, <1>2, <1>3, <1>4 DEF Reg1, Reg2, Operand1, Operand2

(* What the execute stage makes of the decoded instruction.                *)
LEMMA Executed ==
  ASSUME idEx' = DecodeOut
  PROVE  /\ AluOut' = ToWord(Alu(DecodeOut.alusel, DecodeOut.funct, ToNat(Data1), ToNat(Data2)))
         /\ ExecuteOut'.addr = ToNat(AluOut') % (2 * RamBytes)
         /\ ExecuteOut'.width = WidthOf(DecodeOut.ma_width)
         /\ (idEx'.we <=> Writes) /\ idEx'.waddr = IdInst.rd
         /\ (idEx'.ma_we <=> IdInst.op = "store") /\ (idEx'.ma_re <=> IdInst.op = "load")
         /\ idEx'.extra = IF IdInst.op = "store" THEN Reg2 ELSE ToWord(IdInst.imm)
<1>1. DecodeOut.data1 = Data1 /\ DecodeOut.data2 = Data2
  BY DEF DecodeOut
<1>2. AluOut' = ToWord(Alu(DecodeOut.alusel, DecodeOut.funct, ToNat(Data1), ToNat(Data2)))
  BY <1>1 DEF AluOut
<1>3. /\ ExecuteOut'.addr = ToNat(AluOut') % (2 * RamBytes)
      /\ ExecuteOut'.width = WidthOf(DecodeOut.ma_width)
  BY DEF ExecuteOut
<1> QED BY <1>2, <1>3 DEF DecodeOut

(* The one register that the instruction writes, and the others.           *)
LEMMA RegisterSet ==
  ASSUME Memory!EnvAssumption, CpuInv, ProgramFits, Next, ~maStallReq, Writes
  PROVE  /\ IdInst.op # "load" => Programmer!SetReg(IdInst.rd, AluOut')
         /\ IdInst.op = "load" =>
              Programmer!SetReg(IdInst.rd, LoadFrom(IsaMemory, ExecuteOut'.addr, ExecuteOut'.width))
         /\ IsaMemory' = IsaMemory
<1>1. idEx' = DecodeOut
  BY DecodeEdge
<1>2. /\ idEx'.we /\ idEx'.waddr = IdInst.rd /\ ~idEx'.ma_we
      /\ (idEx'.ma_re <=> IdInst.op = "load")
  BY <1>1, Executed DEF Writes
<1> DEFINE value == IF idEx'.ma_re THEN LoadFrom(IsaMemory, ExecuteOut'.addr, ExecuteOut'.width)
                    ELSE AluOut'
<1>3. \A r \in Regs : IsaReg(r)' = IF r # 0 /\ IdInst.rd = r THEN value ELSE IsaReg(r)
  BY <1>2, RegsAdvance
<1> HIDE DEF value
<1>4. IdInst.rd \in Regs
  BY DecodedTyped DEF CpuInv
<1>5. [r \in Regs |-> IsaReg(r)]'
        = IF IdInst.rd = 0 THEN [r \in Regs |-> IsaReg(r)]
          ELSE [[r \in Regs |-> IsaReg(r)] EXCEPT ![IdInst.rd] = value]
  <2>1. CASE IdInst.rd = 0
    BY <1>3, <2>1
  <2>2. CASE IdInst.rd # 0
    BY <1>3, <1>4, <2>2
  <2> QED BY <2>1, <2>2
<1>6. Programmer!SetReg(IdInst.rd, value)
  BY <1>5 DEF Programmer!SetReg
<1>7. IsaMemory' = IsaMemory
  BY <1>2, MemoryAdvances DEF StoreDone
<1> QED BY <1>2, <1>6, <1>7 DEF value

LEMMA RegistersUntouched ==
  ASSUME Memory!EnvAssumption, CpuInv, ProgramFits, Next, ~maStallReq, ~Writes
  PROVE  /\ [r \in Regs |-> IsaReg(r)]' = [r \in Regs |-> IsaReg(r)]
         /\ IdInst.op # "store" => IsaMemory' = IsaMemory
<1>1. idEx' = DecodeOut
  BY DecodeEdge
<1>2. ~idEx'.we /\ (idEx'.ma_we <=> IdInst.op = "store")
  BY <1>1, Executed
<1>3. \A r \in Regs : IsaReg(r)' = IsaReg(r)
  BY <1>2, RegsAdvance
<1>4. IdInst.op # "store" => IsaMemory' = IsaMemory
  BY <1>2, MemoryAdvances DEF StoreDone
<1> QED BY <1>3, <1>4

(* The value of every instruction that computes one.                       *)
LEMMA ComputedValue ==
  ASSUME CpuInv, ~maStallReq, IdInst.op # "bubble", idEx' = DecodeOut
  PROVE  /\ IdInst.op = "lui" => AluOut' = ToWord(IdInst.imm)
         /\ IdInst.op = "auipc" => AluOut' = ToWord(Wrap(ifId.pc + IdInst.imm))
         /\ IdInst.op \in {"jal", "jalr"} => AluOut' = ToWord(ifId.pc + 4)
         /\ IdInst.op = "opimm" =>
              AluOut' = ToWord(Programmer!Computed(IdInst.f3, IdInst.alt /\ IdInst.f3 = 5,
                                                   Operand1, IdInst.imm))
         /\ IdInst.op = "op" =>
              AluOut' = ToWord(Programmer!Computed(IdInst.f3, IdInst.alt, Operand1, Operand2))
         /\ IdInst.op \in {"load", "store"} =>
              ToNat(AluOut') = Wrap(Operand1 + IdInst.imm)
<1>1. AluOut' = ToWord(Alu(DecodeOut.alusel, DecodeOut.funct, ToNat(Data1), ToNat(Data2)))
  BY Executed
<1>2. /\ IdInst.imm \in 0 .. WordValues - 1 /\ IdInst.f3 \in 0 .. 7 /\ IdInst.alt \in BOOLEAN
      /\ ToNat(ToWord(IdInst.imm)) = IdInst.imm
  BY DecodedTyped, WordOfNumber DEF CpuInv
<1>3. /\ ifId.pc \in 0 .. WordValues - 1 /\ ifId.pc + 4 \in 0 .. WordValues - 1 /\ ifId.pc \in Nat
      /\ ToNat(ToWord(ifId.pc)) = ifId.pc /\ ToNat(ToWord(ifId.pc + 4)) = ifId.pc + 4
  <2>1. ifId.pc \in 0 .. RamBytes - 1 /\ RamBytes \in Nat /\ RamBytes >= 4 /\ 2 * RamBytes <= WordValues
    BY SizeAssumption, CoreAssumption DEF CpuInv, PipeTypeOK, CpuAddr
  <2>2. ifId.pc \in 0 .. WordValues - 1 /\ ifId.pc + 4 \in 0 .. WordValues - 1
    BY <2>1, WordValuesTyped
  <2> QED BY <2>1, <2>2, WordOfNumber
<1>4. ToNat(ZeroWord) = 0 /\ 0 \in 0 .. WordValues - 1
  BY ZeroIsWord, WordValuesTyped
<1>5. /\ Operand1 \in 0 .. WordValues - 1 /\ Operand2 \in 0 .. WordValues - 1
      /\ IdInst.op \in {"lui", "auipc", "jal", "fence"} => Reg1 = ZeroWord
      /\ IdInst.op \notin {"lui", "auipc", "jal", "fence"} => ToNat(Reg1) = Operand1
      /\ ToNat(Reg2) = Operand2
  BY Operands
<1>6. \A a, b \in 0 .. WordValues - 1 :
        /\ Alu(0, FALSE, a, b) = Wrap(a + b)
        /\ Wrap(a + b) \in 0 .. WordValues - 1
        /\ a + b < WordValues => Wrap(a + b) = a + b
  BY SumOut
<1>7. IdInst.op \notin {"opimm", "op"} => DecodeOut.alusel = 0 /\ DecodeOut.funct = FALSE
  BY DEF DecodeOut
<1> HIDE DEF IdInst, Operand1, Operand2, Reg1, Reg2, DecodeOut
<1>8. ASSUME IdInst.op = "lui" PROVE AluOut' = ToWord(IdInst.imm)
  <2>1. ToNat(Data1) = 0 /\ ToNat(Data2) = IdInst.imm
    BY <1>2, <1>4, <1>5, <1>8 DEF Data1, Data2, ReadsReg2
  <2>2. Alu(0, FALSE, 0, IdInst.imm) = IdInst.imm
    BY <1>2, ZeroSum
  <2> QED BY <1>1, <1>7, <1>8, <2>1, <2>2
<1>9. ASSUME IdInst.op = "auipc" PROVE AluOut' = ToWord(Wrap(ifId.pc + IdInst.imm))
  <2>1. ToNat(Data1) = IdInst.imm /\ ToNat(Data2) = ifId.pc
    BY <1>2, <1>3, <1>9 DEF Data1, Data2
  <2>2. Alu(0, FALSE, IdInst.imm, ifId.pc) = Wrap(IdInst.imm + ifId.pc)
    BY <1>2, <1>3, <1>6
  <2>3. IdInst.imm + ifId.pc = ifId.pc + IdInst.imm
    BY <1>2, <1>3, WordValuesTyped
  <2> QED BY <1>1, <1>7, <1>9, <2>1, <2>2, <2>3
<1>10. ASSUME IdInst.op \in {"jal", "jalr"} PROVE AluOut' = ToWord(ifId.pc + 4)
  <2>1. ToNat(Data1) = 0 /\ ToNat(Data2) = ifId.pc + 4
    BY <1>3, <1>4, <1>5, <1>10 DEF Data1, Data2
  <2>2. Alu(0, FALSE, 0, ifId.pc + 4) = ifId.pc + 4
    BY <1>3, ZeroSum
  <2> QED BY <1>1, <1>7, <1>10, <2>1, <2>2
<1>11. ASSUME IdInst.op = "opimm"
       PROVE  AluOut' = ToWord(Programmer!Computed(IdInst.f3, IdInst.alt /\ IdInst.f3 = 5,
                                                   Operand1, IdInst.imm))
  <2>1. ToNat(Data1) = Operand1 /\ ToNat(Data2) = IdInst.imm
    BY <1>2, <1>5, <1>11 DEF Data1, Data2, ReadsReg2
  <2>2. DecodeOut.alusel = IdInst.f3 /\ DecodeOut.funct = (IdInst.alt /\ IdInst.f3 = 5)
        /\ DecodeOut.funct \in BOOLEAN
    BY <1>2, <1>11 DEF DecodeOut
  <2>3. Alu(DecodeOut.alusel, DecodeOut.funct, Operand1, IdInst.imm)
          = Programmer!Computed(IdInst.f3, DecodeOut.funct, Operand1, IdInst.imm)
    <3> DEFINE funct == DecodeOut.funct
    <3>1. funct \in BOOLEAN /\ DecodeOut.alusel = IdInst.f3
      BY <2>2
    <3> HIDE DEF funct
    <3>2. Alu(IdInst.f3, funct, Operand1, IdInst.imm)
            = Programmer!Computed(IdInst.f3, funct, Operand1, IdInst.imm)
      BY <1>2, <1>5, <3>1, SameComputed
    <3> QED BY <3>1, <3>2 DEF funct
  <2> QED BY <1>1, <2>1, <2>2, <2>3
<1>12. ASSUME IdInst.op = "op"
       PROVE  AluOut' = ToWord(Programmer!Computed(IdInst.f3, IdInst.alt, Operand1, Operand2))
  <2>1. ToNat(Data1) = Operand1 /\ ToNat(Data2) = Operand2
    BY <1>5, <1>12 DEF Data1, Data2, ReadsReg2
  <2>2. DecodeOut.alusel = IdInst.f3 /\ DecodeOut.funct = IdInst.alt
    BY <1>2, <1>12 DEF DecodeOut
  <2>3. Alu(IdInst.f3, IdInst.alt, Operand1, Operand2)
          = Programmer!Computed(IdInst.f3, IdInst.alt, Operand1, Operand2)
    BY <1>2, <1>5, SameComputed
  <2> QED BY <1>1, <2>1, <2>2, <2>3
<1>13. ASSUME IdInst.op \in {"load", "store"}
       PROVE  ToNat(AluOut') = Wrap(Operand1 + IdInst.imm)
  <2>1. ToNat(Data1) = Operand1 /\ ToNat(Data2) = IdInst.imm
    BY <1>2, <1>5, <1>13 DEF Data1, Data2, ReadsReg2
  <2>2. AluOut' = ToWord(Wrap(Operand1 + IdInst.imm))
    <3>1. Alu(0, FALSE, Operand1, IdInst.imm) = Wrap(Operand1 + IdInst.imm)
      BY <1>2, <1>5, <1>6
    <3>2. DecodeOut.alusel = 0 /\ DecodeOut.funct = FALSE
      BY <1>7, <1>13
    <3> QED BY <1>1, <2>1, <3>1, <3>2
  <2> QED BY <1>2, <1>5, <1>6, <2>2, WordOfNumber
<1> QED BY <1>8, <1>9, <1>10, <1>11, <1>12, <1>13

-----------------------------------------------------------------------------
(* Branches, loads and stores.                                             *)

(* The comparison of the branch is the one of the ISA.                     *)
LEMMA BranchTaken ==
  ASSUME CpuInv, ~maStallReq, IdInst.op = "branch", IdInst.f3 \in {0, 1, 4, 5, 6, 7}
  PROVE  UseNpc <=> Programmer!Taken(IdInst.f3, Operand1, Operand2)
<1>1. ToNat(Reg1) = Operand1 /\ ToNat(Reg2) = Operand2
      /\ Operand1 \in 0 .. WordValues - 1 /\ Operand2 \in 0 .. WordValues - 1
  BY Operands
<1>2. UseNpc <=> TakenBranch
  BY DEF UseNpc
<1> HIDE DEF IdInst, Operand1, Operand2, Reg1, Reg2
<1>3. /\ (Operand1 < Operand2) \in BOOLEAN /\ SignedLess(Operand1, Operand2) \in BOOLEAN
      /\ (Operand1 >= Operand2 <=> ~(Operand1 < Operand2))
  <2>1. (Operand1 < Operand2) \in BOOLEAN /\ (2 * Operand1 >= WordValues) \in BOOLEAN
    OBVIOUS
  <2>2. SignedLess(Operand1, Operand2) \in BOOLEAN
    BY <2>1, Zenon DEF SignedLess
  <2>3. Operand1 >= Operand2 <=> ~(Operand1 < Operand2)
    BY <1>1, WordValuesTyped
  <2> QED BY <2>1, <2>2, <2>3
<1>4. CASE IdInst.f3 \in {0, 1}
  <2>1. CASE IdInst.f3 = 0
    <3>1. TakenBranch <=> Operand1 = Operand2
      BY <1>1, <2>1 DEF TakenBranch
    <3> QED BY <1>2, <2>1, <3>1 DEF Programmer!Taken
  <2>2. CASE IdInst.f3 = 1
    <3>1. TakenBranch <=> Operand1 # Operand2
      BY <1>1, <2>2 DEF TakenBranch
    <3> QED BY <1>2, <2>2, <3>1 DEF Programmer!Taken
  <2> QED BY <1>4, <2>1, <2>2
<1>5. CASE IdInst.f3 = 4
  BY <1>1, <1>2, <1>3, <1>5, SameWords DEF TakenBranch, Programmer!Taken
<1>6. CASE IdInst.f3 = 5
  BY <1>1, <1>2, <1>3, <1>6, SameWords DEF TakenBranch, Programmer!Taken
<1>7. CASE IdInst.f3 = 6
  BY <1>1, <1>2, <1>3, <1>7 DEF TakenBranch, Programmer!Taken
<1>8. CASE IdInst.f3 = 7
  BY <1>1, <1>2, <1>3, <1>8 DEF TakenBranch, Programmer!Taken
<1> QED BY <1>4, <1>5, <1>6, <1>7, <1>8

(* The value of a load by the ISA is the stage's.                          *)
LEMMA SameLoad ==
  ASSUME NEW m, NEW addr \in Nat, NEW f3 \in {0, 1, 2, 4, 5}
  PROVE  LoadFrom(m, addr, WidthOf(f3)) = Programmer!Loaded(m, addr, f3)
<1> DEFINE bytes(n) == [i \in 0 .. 3 |-> IF i < n THEN m[addr + i] ELSE 0]
<1>1. CASE f3 \in {0, 1}
  <2> DEFINE n == IF f3 = 0 THEN 1 ELSE 2
             negative == 2 * m[addr + n - 1] >= ByteBase
  <2>1. BytesOf(WidthOf(f3)) = n /\ WidthOf(f3) \notin {"w", "bu", "hu"} /\ n \in 1 .. 2
    BY <1>1 DEF WidthOf, BytesOf
  <2>2. bytes(n)[n - 1] = m[addr + n - 1]
    <3>1. n - 1 \in 0 .. 3 /\ n - 1 < n /\ addr + (n - 1) = addr + n - 1
      BY <2>1
    <3> HIDE DEF n
    <3> QED BY <3>1
  <2>3. LoadFrom(m, addr, WidthOf(f3)) = LoadValue(WidthOf(f3), bytes(n))
    BY <2>1 DEF LoadFrom
  <2>4. LoadValue(WidthOf(f3), bytes(n))
          = [i \in 0 .. 3 |-> IF i < n THEN bytes(n)[i] ELSE SignFill(bytes(n)[n - 1])]
    BY <2>1 DEF LoadValue
  <2>5. \A i \in 0 .. 3 : i < n => bytes(n)[i] = m[addr + i]
    OBVIOUS
  <2>6. Programmer!Loaded(m, addr, f3)
          = [i \in 0 .. 3 |-> IF i < n THEN m[addr + i] ELSE IF negative THEN ByteBase - 1 ELSE 0]
    BY <1>1 DEF Programmer!Loaded
  <2> HIDE DEF n, bytes
  <2> QED BY <2>2, <2>3, <2>4, <2>5, <2>6 DEF SignFill
<1>2. CASE f3 \in {2, 4, 5}
  <2> DEFINE n == CASE f3 = 4 -> 1 [] f3 = 5 -> 2 [] f3 = 2 -> 4
  <2>1. BytesOf(WidthOf(f3)) = n /\ WidthOf(f3) \in {"w", "bu", "hu"}
    BY <1>2 DEF WidthOf, BytesOf
  <2>2. LoadFrom(m, addr, WidthOf(f3)) = bytes(n)
    BY <2>1 DEF LoadFrom, LoadValue
  <2>3. Programmer!Loaded(m, addr, f3) = bytes(n)
    BY <1>2 DEF Programmer!Loaded
  <2> QED BY <2>2, <2>3
<1> QED BY <1>1, <1>2

LEMMA IsaMemoryTyped ==
  ASSUME CpuInv
  PROVE  IsaMemory = [b \in CpuAddr |-> IsaMemory[b]]
<1>1. ram = [b \in CpuAddr |-> ram[b]]
  BY MemTypes DEF CpuInv, RamTypeOK
<1>2. MaMemory = [b \in CpuAddr |-> MaMemory[b]]
  BY <1>1 DEF MaMemory, StoreDone
<1> QED BY <1>2 DEF IsaMemory, StoreDone

(* A store writes the bytes the ISA says; in the I/O space it leaves the   *)
(* memory alone.                                                           *)
LEMMA SameStore ==
  ASSUME CpuInv, NEW addr \in Nat, NEW f3 \in {0, 1, 2}, NEW word
  PROVE  StoreDone(IsaMemory, TRUE, [addr |-> addr, width |-> WidthOf(f3), wdata |-> word])
           = Programmer!Stored(IsaMemory, addr, f3, word)
<1> DEFINE n == CASE f3 = 0 -> 1 [] f3 = 1 -> 2 [] f3 = 2 -> 4
           A == addr .. addr + n - 1
           M == [b \in CpuAddr |-> IF b \in A THEN word[b - addr] ELSE IsaMemory[b]]
<1>1. BytesOf(WidthOf(f3)) = n /\ n \in 1 .. 4
  BY DEF WidthOf, BytesOf
<1>2. AccessBytes(addr, WidthOf(f3)) = A
  BY <1>1 DEF AccessBytes
<1>3. Programmer!Stored(IsaMemory, addr, f3, word) = M
  BY SameWords DEF Programmer!Stored
<1> HIDE DEF n
<1>4. CASE ~IoEnabled(addr)
  BY <1>2, <1>3, <1>4 DEF StoreDone
<1>5. CASE IoEnabled(addr)
  <2>1. \A b \in CpuAddr : b \notin A
    BY <1>1, <1>5, SizeAssumption DEF CpuAddr, IoEnabled
  <2> HIDE DEF A
  <2>2. M = [b \in CpuAddr |-> IsaMemory[b]]
    BY <2>1
  <2> QED BY <1>3, <1>5, <2>2, IsaMemoryTyped DEF StoreDone
<1> QED BY <1>4, <1>5

-----------------------------------------------------------------------------
(* The refinement, instruction by instruction.                             *)

(* Kind by kind, the instruction that leaves decode does to the mapped     *)
(* state what the ISA says.                                                *)
LEMMA ExecutesInstruction ==
  ASSUME Memory!EnvAssumption, LegalProgram, CpuInv, ProgramFits, Next, ~maStallReq,
         IdInst.op # "bubble"
  PROVE  Programmer!Execute(IdInst, Operand1, Operand2)
<1> DEFINE following == (IsaPc + 4) % RamBytes
           target == (IsaPc + IdInst.imm) % RamBytes
           addr == Wrap(Operand1 + IdInst.imm) % (2 * RamBytes)
           Regs1 == [r \in Regs |-> IsaReg(r)]
<1>1. IsaPc = ifId.pc /\ Legal(IdInst)
  BY DecodeHolds DEF CpuInv, IsaPc
<1>2. IsaPc' = IF UseNpc THEN NpcAddr ELSE following
  BY <1>1, PcAdvances DEF Following
<1>3. idEx' = DecodeOut
  BY DecodeEdge
<1>4. /\ Operand1 \in 0 .. WordValues - 1 /\ Operand2 \in 0 .. WordValues - 1
      /\ IdInst.op \notin {"lui", "auipc", "jal", "fence"} => ToNat(Reg1) = Operand1
      /\ Reg2 = IsaReg(IdInst.rs2) /\ Reg2 \in Word
  BY Operands
<1>5. IdInst.imm \in 0 .. WordValues - 1 /\ IsaPc \in Nat
  BY <1>1, DecodedTyped, SizeAssumption DEF CpuInv, PipeTypeOK, CpuAddr
<1>6. IdInst.op \notin {"jal", "jalr", "branch", "system"} => IsaPc' = following
  BY <1>2 DEF UseNpc
<1>7. IdInst.op \in {"jal", "branch"} => NpcAddr = target
  <2>1. IdInst.imm + IsaPc = IsaPc + IdInst.imm
    BY <1>5, WordValuesTyped
  <2> QED BY <1>1, <2>1 DEF NpcAddr
<1>8. /\ Writes /\ IdInst.op # "load" => Programmer!SetReg(IdInst.rd, AluOut')
      /\ IdInst.op = "load" =>
           Programmer!SetReg(IdInst.rd, LoadFrom(IsaMemory, ExecuteOut'.addr, ExecuteOut'.width))
      /\ Writes => IsaMemory' = IsaMemory
  BY RegisterSet DEF Writes
<1>9. ~Writes => Regs1' = Regs1 /\ (IdInst.op # "store" => IsaMemory' = IsaMemory)
  BY RegistersUntouched
<1>10. \A n : Programmer!ToWord(n) = ToWord(n) /\ Programmer!Wrap(n) = Wrap(n)
  BY SameWords
<1> HIDE DEF IdInst, Operand1, Operand2, IsaPc, IsaMemory, IsaReg, Regs1
<1>11. CASE IdInst.op = "lui"
  <2>1. Programmer!SetReg(IdInst.rd, Programmer!ToWord(IdInst.imm)) /\ IsaMemory' = IsaMemory
    BY <1>3, <1>8, <1>10, <1>11, ComputedValue DEF Writes
  <2> QED BY <1>6, <1>11, <2>1 DEF Programmer!Execute
<1>12. CASE IdInst.op = "auipc"
  <2>1. Programmer!SetReg(IdInst.rd, Programmer!ToWord(Programmer!Wrap(IsaPc + IdInst.imm)))
        /\ IsaMemory' = IsaMemory
    BY <1>1, <1>3, <1>8, <1>10, <1>12, ComputedValue DEF Writes
  <2> QED BY <1>6, <1>12, <2>1 DEF Programmer!Execute
<1>13. CASE IdInst.op = "jal"
  <2>1. Programmer!SetReg(IdInst.rd, Programmer!ToWord(IsaPc + 4)) /\ IsaMemory' = IsaMemory
    BY <1>1, <1>3, <1>8, <1>10, <1>13, ComputedValue DEF Writes
  <2>2. IsaPc' = target
    BY <1>2, <1>7, <1>13 DEF UseNpc
  <2> QED BY <1>13, <2>1, <2>2 DEF Programmer!Execute
<1>14. CASE IdInst.op = "jalr"
  <2>1. Programmer!SetReg(IdInst.rd, Programmer!ToWord(IsaPc + 4)) /\ IsaMemory' = IsaMemory
    BY <1>1, <1>3, <1>8, <1>10, <1>14, ComputedValue DEF Writes
  <2>2. IsaPc' = NpcAddr /\ ToNat(Reg1) = Operand1
    BY <1>2, <1>4, <1>14 DEF UseNpc
  <2>3. IdInst.imm + Operand1 = Operand1 + IdInst.imm /\ Operand1 + IdInst.imm \in Nat
    BY <1>4, <1>5, WordValuesTyped
  <2>4. NpcAddr = (((Operand1 + IdInst.imm) \div 2) * 2) % RamBytes
    <3>1. NpcAddr = ((Operand1 + IdInst.imm) % RamBytes) - (((Operand1 + IdInst.imm) % RamBytes) % 2)
      BY <1>14, <2>2, <2>3 DEF NpcAddr
    <3> QED BY <2>3, <3>1, JumpTarget
  <2> QED BY <1>14, <2>1, <2>2, <2>4 DEF Programmer!Execute
<1>15. CASE IdInst.op = "branch"
  <2>1. IdInst.f3 \in {0, 1, 4, 5, 6, 7}
    <3>1. IdInst.f3 \in 0 .. 7
      BY DecodedTyped DEF CpuInv
    <3> QED BY <1>1, <1>15, <3>1 DEF Legal
  <2>2. UseNpc <=> Programmer!Taken(IdInst.f3, Operand1, Operand2)
    BY <1>15, <2>1, BranchTaken
  <2>3. IsaPc' = IF Programmer!Taken(IdInst.f3, Operand1, Operand2) THEN target ELSE following
    BY <1>2, <1>7, <1>15, <2>2
  <2>4. Regs1' = Regs1 /\ IsaMemory' = IsaMemory
    BY <1>9, <1>15 DEF Writes
  <2> QED BY <1>15, <2>3, <2>4 DEF Programmer!Execute, Regs1
<1>16. CASE IdInst.op = "load"
  <2>1. ExecuteOut'.addr = addr /\ ExecuteOut'.width = WidthOf(IdInst.f3)
    <3>1. ToNat(AluOut') = Wrap(Operand1 + IdInst.imm)
      BY <1>3, <1>16, ComputedValue
    <3>2. DecodeOut.ma_width = IdInst.f3
      BY <1>16 DEF DecodeOut
    <3> QED BY <1>3, <3>1, <3>2, Executed
  <2>2. addr \in Nat /\ IdInst.f3 \in {0, 1, 2, 4, 5}
    <3>1. Operand1 + IdInst.imm \in Nat
      BY <1>4, <1>5, WordValuesTyped
    <3>2. Wrap(Operand1 + IdInst.imm) \in Nat
      BY <3>1, WordValuesTyped, DivMod DEF Wrap
    <3>3. addr \in Nat
      <4>1. 2 * RamBytes \in Nat \ {0}
        BY SizeAssumption
      <4> DEFINE n == Wrap(Operand1 + IdInst.imm)  c == 2 * RamBytes
      <4>2. n \in Nat /\ c \in Nat \ {0}
        BY <3>2, <4>1
      <4> HIDE DEF n, c
      <4>3. n % c \in Nat
        BY <4>2, DivMod
      <4> QED BY <4>3 DEF n, c
    <3> QED BY <1>1, <1>16, <3>3 DEF Legal
  <2> HIDE DEF addr
  <2>3. Programmer!SetReg(IdInst.rd, Programmer!Loaded(IsaMemory, addr, IdInst.f3))
    BY <1>8, <1>16, <2>1, <2>2, SameLoad
  <2>4. IsaMemory' = IsaMemory
    BY <1>8, <1>16 DEF Writes
  <2> QED BY <1>6, <1>10, <1>16, <2>3, <2>4 DEF Programmer!Execute, addr
<1>17. CASE IdInst.op = "store"
  <2>1. /\ ExecuteOut'.addr = addr /\ ExecuteOut'.width = WidthOf(IdInst.f3)
        /\ idEx'.ma_we = TRUE /\ idEx'.extra = Reg2
    <3>1. ToNat(AluOut') = Wrap(Operand1 + IdInst.imm)
      BY <1>3, <1>17, ComputedValue
    <3>2. DecodeOut.ma_width = IdInst.f3 /\ DecodeOut.ma_we = TRUE
      BY <1>17 DEF DecodeOut
    <3> QED BY <1>3, <1>17, <3>1, <3>2, Executed
  <2>2. addr \in Nat /\ IdInst.f3 \in {0, 1, 2}
    <3>1. Operand1 + IdInst.imm \in Nat
      BY <1>4, <1>5, WordValuesTyped
    <3>2. Wrap(Operand1 + IdInst.imm) \in Nat
      BY <3>1, WordValuesTyped, DivMod DEF Wrap
    <3>3. addr \in Nat
      <4>1. 2 * RamBytes \in Nat \ {0}
        BY SizeAssumption
      <4> DEFINE n == Wrap(Operand1 + IdInst.imm)  c == 2 * RamBytes
      <4>2. n \in Nat /\ c \in Nat \ {0}
        BY <3>2, <4>1
      <4> HIDE DEF n, c
      <4>3. n % c \in Nat
        BY <4>2, DivMod
      <4> QED BY <4>3 DEF n, c
    <3> QED BY <1>1, <1>17, <3>3 DEF Legal
  <2> HIDE DEF addr
  <2>3. IsaMemory' = StoreDone(IsaMemory, TRUE, [addr |-> addr, width |-> WidthOf(IdInst.f3), wdata |-> Reg2])
    BY <2>1, MemoryAdvances
  <2>4. Reg2 = Programmer!ToWord(Operand2)
    BY <1>4, <1>10, NumberOfWord DEF Operand2
  <2>5. IsaMemory' = Programmer!Stored(IsaMemory, addr, IdInst.f3, Programmer!ToWord(Operand2))
    BY <2>2, <2>3, <2>4, SameStore
  <2>6. Regs1' = Regs1
    BY <1>9, <1>17 DEF Writes
  <2> QED BY <1>6, <1>10, <1>17, <2>5, <2>6 DEF Programmer!Execute, Regs1, addr
<1>18. CASE IdInst.op = "opimm"
  <2>1. /\ Programmer!SetReg(IdInst.rd, Programmer!ToWord(
             Programmer!Computed(IdInst.f3, IdInst.alt /\ IdInst.f3 = 5, Operand1, IdInst.imm)))
        /\ IsaMemory' = IsaMemory
    BY <1>3, <1>8, <1>10, <1>18, ComputedValue DEF Writes
  <2> QED BY <1>6, <1>18, <2>1 DEF Programmer!Execute
<1>19. CASE IdInst.op = "op"
  <2>1. /\ Programmer!SetReg(IdInst.rd, Programmer!ToWord(
             Programmer!Computed(IdInst.f3, IdInst.alt, Operand1, Operand2)))
        /\ IsaMemory' = IsaMemory
    BY <1>3, <1>8, <1>10, <1>19, ComputedValue DEF Writes
  <2> QED BY <1>6, <1>19, <2>1 DEF Programmer!Execute
<1>20. CASE IdInst.op = "fence"
  <2>1. Regs1' = Regs1 /\ IsaMemory' = IsaMemory
    BY <1>9, <1>20 DEF Writes
  <2> QED BY <1>6, <1>20, <2>1 DEF Programmer!Execute, Regs1
<1>21. IdInst.op \in Operations
  BY <1>1 DEF Legal
<1> QED
  BY ONLY <1>11, <1>12, <1>13, <1>14, <1>15, <1>16, <1>17, <1>18, <1>19, <1>20, <1>21 DEF Operations

(* An edge without a stall of execute executes one instruction, or moves   *)
(* a bubble and executes none.                                             *)
LEMMA AdvancesOneInstruction ==
  ASSUME Memory!EnvAssumption, LegalProgram, CpuInv, ProgramFits, Next, ~maStallReq
  PROVE  Programmer!Step \/ UNCHANGED Programmer!isaVars
<1>1. CASE IdInst.op = "bubble"
  <2>1. IsaPc' = IsaPc
    BY <1>1, PcAdvances
  <2>2. [r \in Regs |-> IsaReg(r)]' = [r \in Regs |-> IsaReg(r)] /\ IsaMemory' = IsaMemory
    BY <1>1, RegistersUntouched DEF Writes
  <2> QED BY <2>1, <2>2 DEF Programmer!isaVars
<1>2. CASE IdInst.op # "bubble"
  <2>1. Decode([k \in 0 .. 3 |-> IsaMemory[IsaPc + k]]) = IdInst
    BY <1>2, InstructionInMemory DEF IdInst
  <2>2. IdInst.rs1 \in Regs /\ IdInst.rs2 \in Regs
    BY DecodedTyped DEF CpuInv
  <2>3. /\ Operand1 = Programmer!ToNat([r \in Regs |-> IsaReg(r)][IdInst.rs1])
        /\ Operand2 = Programmer!ToNat([r \in Regs |-> IsaReg(r)][IdInst.rs2])
    BY <2>2, SameWords DEF Operand1, Operand2
  <2>4. Programmer!Execute(IdInst, Operand1, Operand2)
    BY <1>2, ExecutesInstruction
  <2> HIDE DEF IdInst, Operand1, Operand2, IsaMemory, IsaPc, IsaReg
  <2> QED BY <2>1, <2>3, <2>4, Zenon DEF Programmer!Step
<1> QED BY <1>1, <1>2

(* The sequential machine starts at address 0.                             *)
LEMMA StartsAtZero ==
  ASSUME Init
  PROVE  IsaPc = 0
<1>1. pc = RamBytes - 4 /\ ifSta = "lookup" /\ inst = ZeroWord /\ ifId.inst = ZeroWord
  BY DEF Init, IfInit, EmptyIfId
<1>2. IdInst.op = "bubble"
  BY <1>1, DecodeAssumption DEF IdInst
<1>3. NextPc(FALSE, 0) = 0
  BY <1>1, SizeAssumption DEF NextPc
<1> QED BY <1>1, <1>2, <1>3 DEF IsaPc

(* The pipelined CPU of cpu.v, with its forwarding, bubbles, stalls,       *)
(* instruction cache and byte-wide memory, executes its program as the     *)
(* sequential machine of Isa does, one instruction at a time: whatever the *)
(* sizes, the encoding and the program, provided that the program consists *)
(* of instructions the ISA defines, stays within its own instructions and  *)
(* accesses, does not write to its own code and reads nothing but RAM.     *)
THEOREM CpuIsIsa ==
  ASSUME Memory!EnvAssumption, LegalProgram, LoadsReadRam
  PROVE  Spec /\ ram = Program /\ []ProgramFits => ImplementsIsa
<1>1. Init => IsaPc = 0
  BY StartsAtZero
<1>2. CpuInv /\ ProgramFits /\ [Next]_vars => [Programmer!Step]_(Programmer!isaVars)
  <2>1. ASSUME CpuInv, ProgramFits, Next PROVE Programmer!Step \/ UNCHANGED Programmer!isaVars
    <3>1. CASE maStallReq
      BY <2>1, <3>1, StalledStutters
    <3>2. CASE ~maStallReq
      BY <2>1, <3>2, AdvancesOneInstruction
    <3> QED BY <3>1, <3>2
  <2>2. ASSUME UNCHANGED vars PROVE UNCHANGED Programmer!isaVars
    BY <2>2 DEF vars, ramVars, mcVars, ifVars, maVars, pipeVars, Programmer!isaVars, IsaPc, IsaMemory,
       IsaReg, MaMemory, StoreDone, LoadFrom, ExecuteOut, AluOut, RegRead, IdInst, NextPc
  <2> QED BY <2>1, <2>2
<1> QED BY <1>1, <1>2, CpuInductive, PTL DEF Spec, ImplementsIsa, Programmer!Spec

=============================================================================
