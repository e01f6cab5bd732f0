----------------------------- MODULE FifoProofs -----------------------------
(***************************************************************************)
(* Proofs about the fifo of common/fifo/fifo.v for every number of slots   *)
(* from three on and every set of values.                                  *)
(***************************************************************************)
EXTENDS Fifo, SequenceTheorems, TLAPS

(* The inductive invariant.                                                *)
FifoInv == TypeOK /\ FlagsConservative

LEMMA PlusOne ==
  ASSUME NEW p \in Ptr
  PROVE  /\ Plus(p, 1) = IF p = Slots - 1 THEN 0 ELSE p + 1
         /\ Plus(p, 1) \in Ptr
BY FifoAssumption DEF Plus, Ptr

LEMMA CountBounded ==
  ASSUME TypeOK
  PROVE  Count \in 0 .. Slots
BY FifoAssumption DEF TypeOK, Count, Ptr

(* What a clock does to the number of values held, and that the flags stay *)
(* conservative.                                                           *)
LEMMA CountStep ==
  ASSUME FifoInv, NEW rd_en \in BOOLEAN, NEW wr_en \in BOOLEAN, NEW wr_data \in Value,
         Clock(rd_en, wr_en, wr_data)
  PROVE  TypeOK' /\ FlagsConservative'
         /\ Count' = Count + (IF wr_en_prot(wr_en) THEN 1 ELSE 0)
                           - (IF rd_en_prot(rd_en) THEN 1 ELSE 0)
<1> USE FifoAssumption
<1> DEFINE rd == rd_en_prot(rd_en)
           wr == wr_en_prot(wr_en)
<1>1. /\ q_rd_ptr \in Ptr /\ q_wr_ptr \in Ptr
      /\ Plus(q_rd_ptr, 1) = IF q_rd_ptr = Slots - 1 THEN 0 ELSE q_rd_ptr + 1
      /\ Plus(q_wr_ptr, 1) = IF q_wr_ptr = Slots - 1 THEN 0 ELSE q_wr_ptr + 1
  BY PlusOne DEF FifoInv, TypeOK
<1>2. rd \in BOOLEAN /\ wr \in BOOLEAN /\ (q_empty => ~rd) /\ (q_full => ~wr)
  BY DEF FifoInv, TypeOK, rd_en_prot, wr_en_prot
<1>3. /\ q_rd_ptr' = IF rd THEN Plus(q_rd_ptr, 1) ELSE q_rd_ptr
      /\ q_wr_ptr' = IF wr THEN Plus(q_wr_ptr, 1) ELSE q_wr_ptr
  BY DEF Clock
<1>4. /\ q_empty' <=> (q_empty /\ ~wr) \/ (q_wr_ptr = Plus(q_rd_ptr, 1) /\ rd)
      /\ q_full' <=> (q_full /\ ~rd) \/ (q_rd_ptr = Plus(q_wr_ptr, 1) /\ wr)
      /\ q_empty' \in BOOLEAN /\ q_full' \in BOOLEAN
  BY <1>2 DEF Clock, d_empty, d_full, FifoInv, TypeOK
<1>5. TypeOK'
  <2>1. q_data_array' \in [Ptr -> Value]
    BY <1>1 DEF Clock, FifoInv, TypeOK
  <2> QED
    BY <1>1, <1>3, <1>4, <2>1, PlusOne DEF TypeOK
<1> HIDE DEF rd, wr
<1>6. Count' = Count + (IF wr THEN 1 ELSE 0) - (IF rd THEN 1 ELSE 0)
  BY <1>1, <1>2, <1>3, <1>4, <1>5 DEF FifoInv, TypeOK, FlagsConservative, Count, Ptr
<1>7. FlagsConservative'
  BY <1>1, <1>2, <1>3, <1>4, <1>5 DEF FifoInv, TypeOK, FlagsConservative, Count, Ptr
<1> QED
  BY <1>5, <1>6, <1>7 DEF rd, wr

LEMMA FifoInductive == Spec => []FifoInv
<1>1. Init => FifoInv
  <2> SUFFICES ASSUME Init PROVE FifoInv
    OBVIOUS
  <2>1. TypeOK
    <3>1. 0 \in Ptr
      BY FifoAssumption DEF Ptr
    <3> QED
      BY <3>1 DEF Init, TypeOK
  <2>2. Count = 0
    BY FifoAssumption DEF Init, Count
  <2> QED
    BY <2>1, <2>2, FifoAssumption DEF Init, FifoInv, FlagsConservative
<1>2. FifoInv /\ [Next]_vars => FifoInv'
  <2> SUFFICES ASSUME FifoInv, [Next]_vars PROVE FifoInv'
    OBVIOUS
  <2>1. CASE Next
    BY <2>1, CountStep DEF Next, FifoInv
  <2>2. CASE UNCHANGED vars
    BY <2>2 DEF vars, FifoInv, TypeOK, FlagsConservative, Count
  <2> QED
    BY <2>1, <2>2
<1> QED
  BY <1>1, <1>2, PTL DEF Spec

(* Every pointer stays in the ring and every slot holds a value.           *)
THEOREM FifoTypeCorrect == Spec => []TypeOK
<1>1. FifoInv => TypeOK
  BY DEF FifoInv
<1> QED
  BY <1>1, FifoInductive, PTL

(* With any number of slots the two flags err by at most one entry, and    *)
(* only on the side that loses nothing: no write overwrites a value and no *)
(* read invents one.                                                       *)
THEOREM FlagsConservativeHolds == Spec => []FlagsConservative
<1>1. FifoInv => FlagsConservative
  BY DEF FifoInv
<1> QED
  BY <1>1, FifoInductive, PTL

-----------------------------------------------------------------------------
(* The refinement: what the ring holds is a sequence, of which a write     *)
(* appends to the end and a read removes the front.                        *)

LEMMA RingArithmetic ==
  ASSUME TypeOK
  PROVE  /\ \A k \in 0 .. Slots - 1 : Plus(q_rd_ptr, k) \in Ptr
         /\ Count < Slots => Plus(q_rd_ptr, Count) = q_wr_ptr
         /\ \A k \in 0 .. Count - 1 : Count < Slots => Plus(q_rd_ptr, k) # q_wr_ptr
         /\ \A k \in 0 .. Slots - 2 : Plus(Plus(q_rd_ptr, 1), k) = Plus(q_rd_ptr, k + 1)
<1> USE FifoAssumption DEF TypeOK, Ptr, Plus
<1>1. \A k \in 0 .. Slots - 1 : Plus(q_rd_ptr, k) \in Ptr
  OBVIOUS
<1>2. Count < Slots => Plus(q_rd_ptr, Count) = q_wr_ptr
  BY DEF Count
<1>3. \A k \in 0 .. Count - 1 : Count < Slots => Plus(q_rd_ptr, k) # q_wr_ptr
  BY DEF Count
<1>4. \A k \in 0 .. Slots - 2 : Plus(Plus(q_rd_ptr, 1), k) = Plus(q_rd_ptr, k + 1)
  OBVIOUS
<1> QED
  BY <1>1, <1>2, <1>3, <1>4

ContentsAreSequence ==
  /\ Contents \in Seq(Value)
  /\ Len(Contents) = Count
  /\ \A i \in 1 .. Count : Contents[i] = q_data_array[Plus(q_rd_ptr, i - 1)]

LEMMA SameLength ==
  ASSUME NEW m \in Nat, NEW n \in Nat, 1 .. m = 1 .. n
  PROVE  m = n
<1>1. (m \in 1 .. m <=> m >= 1) /\ (n \in 1 .. n <=> n >= 1)
  OBVIOUS
<1>2. m \in 1 .. n <=> m >= 1 /\ m <= n
  OBVIOUS
<1>3. n \in 1 .. m <=> n >= 1 /\ n <= m
  OBVIOUS
<1> QED
  BY <1>1, <1>2, <1>3

LEMMA ContentsSequence == TypeOK => ContentsAreSequence
<1> SUFFICES ASSUME TypeOK PROVE ContentsAreSequence
  OBVIOUS
<1>1. Count \in 0 .. Slots
  BY CountBounded
<1>2. \A i \in 1 .. Count : q_data_array[Plus(q_rd_ptr, i - 1)] \in Value
  BY <1>1, RingArithmetic, FifoAssumption DEF TypeOK
<1>3. Contents \in [1 .. Count -> Value]
  BY <1>2 DEF Contents
<1>4. Contents \in Seq(Value)
  BY <1>1, <1>3, SeqDef
<1>5. DOMAIN Contents = 1 .. Len(Contents) /\ Len(Contents) \in Nat
  BY <1>4, LenProperties
<1>6. DOMAIN Contents = 1 .. Count
  BY DEF Contents
<1>7. Len(Contents) = Count
  <2>1. 1 .. Len(Contents) = 1 .. Count
    BY <1>5, <1>6
  <2>2. Count \in Nat /\ Len(Contents) \in Nat
    BY <1>1, <1>5, FifoAssumption
  <2> QED
    BY <2>1, <2>2, SameLength
<1> QED
  BY <1>4, <1>7 DEF Contents, ContentsAreSequence

LEMMA ContentsSequenceNext == TypeOK' => ContentsAreSequence'
BY ContentsSequence, PTL

(* What is held after a clock.                                             *)
After(rd_en, wr_en, wr_data) ==
  LET rest == IF rd_en_prot(rd_en) THEN Tail(Contents) ELSE Contents
  IN IF wr_en_prot(wr_en) THEN Append(rest, wr_data) ELSE rest

LEMMA ContentsStep ==
  ASSUME FifoInv, NEW rd_en \in BOOLEAN, NEW wr_en \in BOOLEAN, NEW wr_data \in Value,
         Clock(rd_en, wr_en, wr_data)
  PROVE  Contents' = After(rd_en, wr_en, wr_data)
<1> USE FifoAssumption
<1> DEFINE rd == rd_en_prot(rd_en)
           wr == wr_en_prot(wr_en)
           q  == Contents
<1>1. TypeOK /\ TypeOK' /\ Count \in 0 .. Slots
      /\ Count' = Count + (IF wr THEN 1 ELSE 0) - (IF rd THEN 1 ELSE 0)
  BY CountStep, CountBounded DEF FifoInv
<1>2. rd \in BOOLEAN /\ wr \in BOOLEAN /\ (rd => Count >= 1) /\ (wr => Count < Slots)
  BY <1>1 DEF FifoInv, FlagsConservative, TypeOK, rd_en_prot, wr_en_prot
<1>3. /\ q \in Seq(Value) /\ Len(q) = Count
      /\ \A i \in 1 .. Count : q[i] = q_data_array[Plus(q_rd_ptr, i - 1)]
  BY <1>1, ContentsSequence DEF ContentsAreSequence
<1>4. /\ q' \in Seq(Value) /\ Len(q') = Count'
      /\ \A i \in 1 .. Count' : q'[i] = q_data_array'[Plus(q_rd_ptr', i - 1)]
  BY <1>1, ContentsSequenceNext DEF ContentsAreSequence, Plus
<1>5. /\ q_rd_ptr' = IF rd THEN Plus(q_rd_ptr, 1) ELSE q_rd_ptr
      /\ q_data_array' = IF wr THEN [q_data_array EXCEPT ![q_wr_ptr] = wr_data]
                         ELSE q_data_array
  BY DEF Clock
<1>6. /\ \A k \in 0 .. Slots - 1 : Plus(q_rd_ptr, k) \in Ptr
      /\ Count < Slots => Plus(q_rd_ptr, Count) = q_wr_ptr
      /\ \A k \in 0 .. Count - 1 : Count < Slots => Plus(q_rd_ptr, k) # q_wr_ptr
      /\ \A k \in 0 .. Slots - 2 : Plus(Plus(q_rd_ptr, 1), k) = Plus(q_rd_ptr, k + 1)
  BY <1>1, RingArithmetic
<1> DEFINE skip == IF rd THEN 1 ELSE 0
<1> HIDE DEF rd, wr, q
(* The i-th value after the clock was the next one before, or is the one   *)
(* just written.                                                           *)
<1>7. ASSUME NEW i \in 1 .. Count'
      PROVE  q'[i] = IF i + skip <= Count THEN q[i + skip] ELSE wr_data
  <2>1. Plus(q_rd_ptr', i - 1) = Plus(q_rd_ptr, i - 1 + skip) /\ i - 1 + skip \in 0 .. Slots - 1
    BY <1>1, <1>2, <1>5, <1>6
  <2>2. q'[i] = q_data_array'[Plus(q_rd_ptr, i - 1 + skip)]
    BY <1>4, <2>1
  <2>3. CASE i + skip <= Count
    <3> DEFINE k == i - 1 + skip
    <3>1. k \in 0 .. Count - 1 /\ k + 1 \in 1 .. Count /\ i + skip = k + 1 /\ (k + 1) - 1 = k
      BY <1>1, <2>1, <2>3
    <3> HIDE DEF k
    <3>2. q[k + 1] = q_data_array[Plus(q_rd_ptr, k)]
      BY <1>3, <3>1
    <3>3. wr => Plus(q_rd_ptr, k) # q_wr_ptr
      BY <1>2, <1>6, <3>1
    <3>4. Plus(q_rd_ptr, k) \in Ptr
      BY <1>1, <1>6, <3>1
    <3>5. q_data_array'[Plus(q_rd_ptr, k)] = q_data_array[Plus(q_rd_ptr, k)]
      BY <1>1, <1>5, <3>3, <3>4 DEF TypeOK
    <3>6. q'[i] = q[i + skip]
      BY <2>2, <3>1, <3>2, <3>5 DEF k
    <3> QED
      BY <2>3, <3>6
  <2>4. CASE ~(i + skip <= Count)
    BY <1>1, <1>2, <1>5, <1>6, <2>1, <2>2, <2>4 DEF TypeOK
  <2> QED
    BY <2>3, <2>4
<1>8. CASE ~rd /\ ~wr
  <2>1. q' = q
    BY <1>1, <1>2, <1>3, <1>4, <1>7, <1>8, SeqEqual
  <2> QED
    BY <1>8, <2>1 DEF q, rd, wr, After
<1>9. rd => /\ q # <<>> /\ Tail(q) \in Seq(Value) /\ Len(Tail(q)) = Count - 1
            /\ \A i \in 1 .. Count - 1 : Tail(q)[i] = q[i + 1]
  BY <1>2, <1>3, EmptySeq, HeadTailProperties
<1>10. CASE rd /\ ~wr
  <2>1. q' = Tail(q)
    BY <1>1, <1>2, <1>3, <1>4, <1>7, <1>9, <1>10, SeqEqual
  <2> QED
    BY <1>10, <2>1 DEF q, rd, wr, After
<1>11. CASE ~rd /\ wr
  <2>1. /\ Append(q, wr_data) \in Seq(Value) /\ Len(Append(q, wr_data)) = Count + 1
        /\ \A i \in 1 .. Count : Append(q, wr_data)[i] = q[i]
        /\ Append(q, wr_data)[Count + 1] = wr_data
    BY <1>3, AppendProperties
  <2>2. q' = Append(q, wr_data)
    BY <1>1, <1>2, <1>3, <1>4, <1>7, <1>11, <2>1, SeqEqual
  <2> QED
    BY <1>11, <2>2 DEF q, rd, wr, After
<1>12. CASE rd /\ wr
  <2> DEFINE t == Append(Tail(q), wr_data)
  <2>1. /\ t \in Seq(Value) /\ Len(t) = Count
        /\ \A i \in 1 .. Count - 1 : t[i] = Tail(q)[i]
        /\ t[Count] = wr_data
    BY <1>1, <1>9, <1>12, AppendProperties
  <2> HIDE DEF t
  <2>2. ASSUME NEW i \in 1 .. Count PROVE q'[i] = t[i]
    <3>1. Count' = Count /\ skip = 1
      BY <1>1, <1>12
    <3>2. q'[i] = IF i + 1 <= Count THEN q[i + 1] ELSE wr_data
      BY <1>7, <3>1
    <3>3. CASE i = Count
      BY <1>1, <2>1, <3>2, <3>3
    <3>4. CASE i # Count
      <4>1. i \in 1 .. Count - 1
        BY <1>1, <3>4
      <4> QED
        BY <1>1, <1>9, <1>12, <2>1, <3>2, <4>1
    <3> QED
      BY <3>3, <3>4
  <2>3. q' = t
    <3>1. Len(q') = Count /\ Count \in Nat
      BY <1>1, <1>4, <1>12
    <3> QED
      BY <1>4, <2>1, <2>2, <3>1, SeqEqual
  <2> QED
    BY <1>12, <2>3 DEF q, rd, wr, t, After
<1> QED
  BY <1>2, <1>8, <1>10, <1>11, <1>12

LEMMA QueueStep ==
  ASSUME FifoInv, NEW rd_en \in BOOLEAN, NEW wr_en \in BOOLEAN, NEW wr_data \in Value,
         Clock(rd_en, wr_en, wr_data)
  PROVE  Queue!Next \/ Contents' = Contents
<1> DEFINE rd == rd_en_prot(rd_en)
           wr == wr_en_prot(wr_en)
<1>1. rd \in BOOLEAN /\ wr \in BOOLEAN /\ (rd => Count >= 1) /\ (wr => Count < Slots)
  <2>1. TypeOK /\ Count \in 0 .. Slots
    BY CountBounded DEF FifoInv
  <2> QED
    BY <2>1, FifoAssumption DEF FifoInv, FlagsConservative, TypeOK, rd_en_prot, wr_en_prot
<1>2. Contents' = IF wr THEN Append(IF rd THEN Tail(Contents) ELSE Contents, wr_data)
                  ELSE IF rd THEN Tail(Contents) ELSE Contents
  BY ContentsStep DEF After
<1>3. Contents \in Seq(Value) /\ Len(Contents) = Count /\ Count \in 0 .. Slots
  BY ContentsSequence, CountBounded DEF FifoInv, ContentsAreSequence
<1>4. rd => Contents # <<>>
  BY <1>1, <1>3, EmptySeq
<1> HIDE DEF rd, wr
<1>5. CASE rd /\ wr
  BY <1>2, <1>4, <1>5 DEF Queue!Next, Queue!TakeAndPut
<1>6. CASE rd /\ ~wr
  BY <1>2, <1>4, <1>6 DEF Queue!Next, Queue!Take
<1>7. CASE ~rd /\ wr
  BY <1>1, <1>2, <1>3, <1>7 DEF Queue!Next, Queue!Put
<1>8. CASE ~rd /\ ~wr
  BY <1>2, <1>8
<1> QED
  BY <1>1, <1>5, <1>6, <1>7, <1>8

(* The fifo implements the bounded queue, with any number of slots: no     *)
(* accepted value is lost, repeated or reordered.                          *)
THEOREM FifoIsQueue == Spec => IsQueue
<1>1. Init => Queue!Init
  <2> SUFFICES ASSUME Init PROVE Contents = <<>>
    BY DEF Queue!Init
  <2>1. Count = 0
    BY FifoAssumption DEF Init, Count
  <2> QED
    BY <2>1 DEF Contents
<1>2. FifoInv /\ [Next]_vars => [Queue!Next]_Contents
  <2> SUFFICES ASSUME FifoInv, [Next]_vars PROVE Queue!Next \/ Contents' = Contents
    OBVIOUS
  <2>1. CASE Next
    BY <2>1, QueueStep DEF Next
  <2>2. CASE UNCHANGED vars
    BY <2>2 DEF vars, Contents, Count, Plus
  <2> QED
    BY <2>1, <2>2
<1> QED
  BY <1>1, <1>2, FifoInductive, PTL DEF Spec, IsQueue, Queue!Spec

(* Seen from outside, the fifo is its contents and its flags, with any     *)
(* number of slots.                                                        *)
THEOREM FifoIsFlaggedQueue == Spec => IsFlaggedQueue
<1> DEFINE seen == [items |-> Contents, empty |-> q_empty, full |-> q_full]
<1>1. Init => Flagged!Init
  <2> SUFFICES ASSUME Init PROVE Contents = <<>>
    BY DEF Init, Flagged!Init, Flagged!EmptyFifo
  <2>1. Count = 0
    BY FifoAssumption DEF Init, Count
  <2> QED
    BY <2>1 DEF Contents
<1>2. FifoInv /\ [Next]_vars => [Flagged!Next]_seen
  <2>1. ASSUME FifoInv, NEW rd_en \in BOOLEAN, NEW wr_en \in BOOLEAN, NEW wr_data \in Value,
               Clock(rd_en, wr_en, wr_data)
        PROVE  seen' = Flagged!Clocked(rd_en, wr_en, wr_data)
    <3>1. Contents' = After(rd_en, wr_en, wr_data)
      BY <2>1, ContentsStep
    <3>2. Len(Contents) = Count
      BY <2>1, ContentsSequence DEF FifoInv, ContentsAreSequence
    <3>3. /\ q_wr_ptr = Plus(q_rd_ptr, 1) <=> Count = 1
          /\ q_rd_ptr = Plus(q_wr_ptr, 1) <=> Count = Slots - 1
      BY <2>1, FifoAssumption DEF FifoInv, TypeOK, FlagsConservative, Ptr, Plus, Count
    <3>4. q_empty' = d_empty(rd_en, wr_en) /\ q_full' = d_full(rd_en, wr_en)
      BY <2>1 DEF Clock
    <3> QED
      BY <3>1, <3>2, <3>3, <3>4
         DEF Flagged!Clocked, After, d_empty, d_full, rd_en_prot, wr_en_prot
  <2>2. CASE UNCHANGED vars
    BY <2>2 DEF vars, Contents, Count, Plus
  <2> QED
    BY <2>1, <2>2 DEF Next, Flagged!Next
<1> QED
  BY <1>1, <1>2, FifoInductive, PTL DEF Spec, IsFlaggedQueue, Flagged!Spec
=============================================================================
