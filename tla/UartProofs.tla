----------------------------- MODULE UartProofs -----------------------------
(***************************************************************************)
(* Proofs about the serial link of the UART, for every number of data and  *)
(* stop bits, every division of the clock and every depth of the fifo.     *)
(***************************************************************************)
EXTENDS UartLink, FiniteSetTheorems, TLAPS

TxQueue == INSTANCE FifoProofs WITH Slots <- TxSlots, Value <- Sent

-----------------------------------------------------------------------------
(* Types.                                                                   *)

LEMMA XorBit ==
  ASSUME NEW d \in Data
  PROVE  Xor(d) \in Bit
<1> DEFINE ones == {i \in DOMAIN d : d[i] = 1}
<1>1. IsFiniteSet(0 .. DataBits - 1)
  BY FS_Interval, UartAssumption
<1>2. ones \subseteq 0 .. DataBits - 1
  BY DEF Data
<1>3. IsFiniteSet(ones)
  BY <1>1, <1>2, FS_Subset
<1>4. Cardinality(ones) \in Nat
  BY <1>3, FS_CardinalityType
<1> HIDE DEF ones
<1>5. Cardinality(ones) % 2 \in Bit
  BY <1>4 DEF Bit
<1> QED
  BY <1>5 DEF Xor, ones

LEMMA ParityBitType ==
  ASSUME NEW d \in Data
  PROVE  ParityBit(d) \in Bit
<1>1. d[0] \in Bit
  BY UartAssumption DEF Data
<1> QED
  BY <1>1, XorBit DEF ParityBit, Bit

LEMMA CountedType ==
  ASSUME NEW t \in 0 .. CounterSize - 1, NEW tick
  PROVE  Counted(t, tick) \in 0 .. CounterSize - 1
BY UartAssumption DEF Counted

LEMMA BaudType ==
  ASSUME NEW c \in 0 .. ClksPerTick - 1
  PROVE  BaudClock(c) \in 0 .. ClksPerTick - 1
BY LinkAssumption DEF BaudClock, Tick

LEMMA FifoSlots == TxQueue!FifoAssumption
BY LinkAssumption DEF TxQueue!FifoAssumption

(* The transmit fifo under a clock, as FifoProofs has it.                   *)
LEMMA FifoStep ==
  ASSUME TxFifo!TypeOK, TxFifo!FlagsConservative,
         NEW rd \in BOOLEAN, NEW wr \in BOOLEAN, NEW d \in Sent, TxFifo!Clock(rd, wr, d)
  PROVE  /\ TxFifo!TypeOK' /\ TxFifo!FlagsConservative'
         /\ ~rd /\ ~q_empty => /\ ~q_empty' /\ q_rd_ptr' = q_rd_ptr
                               /\ q_data_array'[q_rd_ptr] = q_data_array[q_rd_ptr]
         /\ ~q_empty => TxFifo!Count > 0
         /\ rd /\ ~q_empty => q_rd_ptr' # q_rd_ptr
<1>1. TxQueue!FifoInv
  BY Zenon DEF TxQueue!FifoInv, TxQueue!TypeOK, TxQueue!Ptr, TxQueue!FlagsConservative, TxQueue!Count,
     TxFifo!TypeOK, TxFifo!Ptr, TxFifo!FlagsConservative, TxFifo!Count
<1>2. TxQueue!Clock(rd, wr, d)
  BY Zenon DEF TxFifo!Clock, TxFifo!rd_en_prot, TxFifo!wr_en_prot, TxFifo!d_empty, TxFifo!d_full, TxFifo!Plus,
     TxQueue!Clock, TxQueue!rd_en_prot, TxQueue!wr_en_prot, TxQueue!d_empty, TxQueue!d_full, TxQueue!Plus
<1>3. TxQueue!TypeOK' /\ TxQueue!FlagsConservative'
  BY <1>1, <1>2, FifoSlots, TxQueue!CountStep
<1>4. TxFifo!TypeOK' /\ TxFifo!FlagsConservative'
  BY <1>3, Zenon DEF TxQueue!TypeOK, TxQueue!Ptr, TxQueue!FlagsConservative, TxQueue!Count,
     TxFifo!TypeOK, TxFifo!Ptr, TxFifo!FlagsConservative, TxFifo!Count
<1>5. ~q_empty => TxFifo!Count > 0
  BY LinkAssumption DEF TxFifo!FlagsConservative, TxFifo!Count, TxFifo!TypeOK, TxFifo!Ptr
<1>6. ~q_empty /\ ~q_full => q_wr_ptr # q_rd_ptr
  BY <1>5, LinkAssumption DEF TxFifo!FlagsConservative, TxFifo!Count, TxFifo!TypeOK, TxFifo!Ptr
<1>7. ~rd /\ ~q_empty => /\ ~q_empty' /\ q_rd_ptr' = q_rd_ptr
                         /\ q_data_array'[q_rd_ptr] = q_data_array[q_rd_ptr]
  BY <1>6 DEF TxFifo!Clock, TxFifo!rd_en_prot, TxFifo!wr_en_prot, TxFifo!d_empty, TxFifo!TypeOK
<1>8. rd /\ ~q_empty => q_rd_ptr' # q_rd_ptr
  BY LinkAssumption DEF TxFifo!Clock, TxFifo!rd_en_prot, TxFifo!Plus, TxFifo!TypeOK, TxFifo!Ptr
<1> QED
  BY <1>4, <1>5, <1>7, <1>8

LEMMA TxTyped ==
  ASSUME TxTypeOK, NEW tick, NEW start, NEW d \in Data, TxClock(tick, start, d)
  PROVE  TxTypeOK'
<1> USE DEF TxClock, Idle, Start, SendBit, Parity, Stop
<1>1. txSta' \in {"idle", "start", "data", "parity", "stop"}
  BY DEF TxTypeOK
<1>2. txTicks' \in 0 .. CounterSize - 1
  <2>1. Counted(txTicks, tick) \in 0 .. CounterSize - 1 /\ 0 \in 0 .. CounterSize - 1
    BY CountedType, UartAssumption DEF TxTypeOK
  <2> QED
    BY <2>1
<1>3. txData' \in Data
  <2>1. [i \in DOMAIN txData |-> IF i = DataBits - 1 THEN 0 ELSE txData[i + 1]] \in Data
    BY UartAssumption DEF TxTypeOK, Data, Bit
  <2> QED
    BY <2>1 DEF TxTypeOK
<1>4. txIdx' \in 0 .. 7
  BY DEF TxTypeOK
<1>5. txParity' \in Bit
  BY ParityBitType DEF TxTypeOK
<1>6. txLine' \in Bit
  <2>1. txData[0] \in Bit /\ 0 \in Bit /\ 1 \in Bit
    BY UartAssumption DEF TxTypeOK, Data, Bit
  <2> QED
    BY <2>1 DEF TxTypeOK
<1>7. txDone' \in BOOLEAN
  OBVIOUS
<1> QED
  BY ONLY <1>1, <1>2, <1>3, <1>4, <1>5, <1>6, <1>7 DEF TxTypeOK

(* The receiver counts no further than the last data bit.                   *)
RxCounts == rxSta = "data" => rxIdx < DataBits

LEMMA RxTyped ==
  ASSUME RxTypeOK, RxCounts, NEW tick, NEW line \in Bit, RxClock(tick, line)
  PROVE  RxTypeOK' /\ RxCounts'
<1> USE DEF RxClock, RxIdle, RxStart, Sample, CheckParity, RxStop
<1>1. rxSta' \in {"idle", "start", "data", "parity", "stop"}
  BY DEF RxTypeOK
<1>2. rxTicks' \in 0 .. CounterSize - 1
  <2>1. Counted(rxTicks, tick) \in 0 .. CounterSize - 1 /\ 0 \in 0 .. CounterSize - 1
    BY CountedType, UartAssumption DEF RxTypeOK
  <2> QED
    BY <2>1
<1>3. rxData' \in Data
  <2>1. [i \in DOMAIN rxData |-> IF i = DataBits - 1 THEN rxIn ELSE rxData[i + 1]] \in Data
    BY UartAssumption DEF RxTypeOK, Data, Bit
  <2> QED
    BY <2>1 DEF RxTypeOK
<1>4. rxIdx' \in 0 .. 7
  BY UartAssumption DEF RxTypeOK, RxCounts
<1>5. rxDone' \in BOOLEAN
  BY DEF RxTypeOK
<1>6. rxParityErr' \in BOOLEAN
  BY DEF RxTypeOK
<1>7. rxIn' \in Bit
  OBVIOUS
<1>8. RxCounts'
  BY UartAssumption DEF RxTypeOK, RxCounts
<1> QED
  BY ONLY <1>1, <1>2, <1>3, <1>4, <1>5, <1>6, <1>7, <1>8 DEF RxTypeOK

LinkTyped == TypeOK /\ TxFifo!FlagsConservative /\ RxCounts

LEMMA SenderTyped ==
  ASSUME LinkTyped, SenderClock
  PROVE  TxTypeOK' /\ TxFifo!TypeOK' /\ TxFifo!FlagsConservative' /\ txCnt' \in 0 .. ClksPerTick - 1
<1>1. PICK wr \in BOOLEAN, d \in Sent : TxFifo!Clock(txDone, wr, d)
  BY DEF SenderClock
<1>2. q_data_array[q_rd_ptr] \in Data
  BY LinkAssumption DEF LinkTyped, TypeOK, TxFifo!TypeOK
<1>3. TxTypeOK'
  BY <1>2, TxTyped DEF SenderClock, LinkTyped, TypeOK
<1>4. TxFifo!TypeOK' /\ TxFifo!FlagsConservative'
  BY <1>1, FifoStep DEF LinkTyped, TypeOK, TxTypeOK
<1>5. txCnt' \in 0 .. ClksPerTick - 1
  BY BaudType DEF SenderClock, LinkTyped, TypeOK
<1> QED
  BY <1>3, <1>4, <1>5

LEMMA ReceiverTyped ==
  ASSUME LinkTyped, ReceiverClock
  PROVE  RxTypeOK' /\ RxCounts' /\ rxCnt' \in 0 .. ClksPerTick - 1
<1>1. RxTypeOK' /\ RxCounts'
  BY RxTyped DEF ReceiverClock, LinkTyped, TypeOK, TxTypeOK
<1>2. rxCnt' \in 0 .. ClksPerTick - 1
  BY BaudType DEF ReceiverClock, LinkTyped, TypeOK
<1> QED
  BY <1>1, <1>2

LEMMA LinkTypedNext ==
  ASSUME LinkTyped, [Next]_vars
  PROVE  LinkTyped'
<1>1. got' \in BOOLEAN
  BY DEF Next, BothClocks, SenderGains, ReceiverGains, Noted, vars, LinkTyped, TypeOK
<1>2. skew' \in -MaxSkew .. MaxSkew
  BY LinkAssumption DEF Next, BothClocks, SenderGains, ReceiverGains, Skewed, vars, LinkTyped, TypeOK
<1>3. TxTypeOK' /\ TxFifo!TypeOK' /\ TxFifo!FlagsConservative' /\ txCnt' \in 0 .. ClksPerTick - 1
  <2>1. CASE SenderClock
    BY <2>1, SenderTyped
  <2>2. CASE ~SenderClock
    <3>1. UNCHANGED <<txVars, fifoVars, txCnt>>
      BY <2>2 DEF Next, BothClocks, SenderGains, ReceiverGains, vars
    <3>2. LinkTyped
      OBVIOUS
    <3> QED
      BY ONLY <3>1, <3>2 DEF LinkTyped, TypeOK, txVars, fifoVars, TxTypeOK, TxFifo!TypeOK,
         TxFifo!FlagsConservative, TxFifo!Count
  <2> QED
    BY <2>1, <2>2
<1>4. RxTypeOK' /\ RxCounts' /\ rxCnt' \in 0 .. ClksPerTick - 1
  <2>1. CASE ReceiverClock
    BY <2>1, ReceiverTyped
  <2>2. CASE ~ReceiverClock
    <3>1. UNCHANGED <<rxVars, rxCnt>>
      BY <2>2 DEF Next, BothClocks, SenderGains, ReceiverGains, vars
    <3>2. LinkTyped
      OBVIOUS
    <3> QED
      BY ONLY <3>1, <3>2 DEF LinkTyped, TypeOK, rxVars, RxTypeOK, RxCounts
  <2> QED
    BY <2>1, <2>2
<1> QED
  BY ONLY <1>1, <1>2, <1>3, <1>4 DEF LinkTyped, TypeOK

LEMMA LinkTypedInit == Init => LinkTyped
<1> SUFFICES ASSUME Init PROVE LinkTyped
  OBVIOUS
<1>1. TxTypeOK
  <2>1. txData \in Data
    BY DEF Init, TxInit, Data, Bit
  <2>2. txDone \in BOOLEAN /\ txSta \in {"idle", "start", "data", "parity", "stop"}
    BY DEF Init, TxInit
  <2>3. txTicks \in 0 .. CounterSize - 1 /\ txIdx \in 0 .. 7 /\ txParity \in Bit /\ txLine \in Bit
    BY UartAssumption DEF Init, TxInit, Bit
  <2> QED
    BY <2>1, <2>2, <2>3 DEF TxTypeOK
<1>2. RxTypeOK /\ RxCounts
  <2>1. rxData \in Data
    BY DEF Init, RxInit, Data, Bit
  <2>2. rxDone \in BOOLEAN /\ rxParityErr \in BOOLEAN /\ rxSta = "idle"
    BY DEF Init, RxInit
  <2>3. rxTicks \in 0 .. CounterSize - 1 /\ rxIdx \in 0 .. 7 /\ rxIn \in Bit
    BY UartAssumption DEF Init, RxInit, Bit
  <2> QED
    BY <2>1, <2>2, <2>3 DEF RxTypeOK, RxCounts
<1>3. /\ q_rd_ptr = 0 /\ q_wr_ptr = 0 /\ q_empty = TRUE /\ q_full = FALSE
      /\ q_data_array \in [TxFifo!Ptr -> Sent]
  BY DEF Init, TxFifo!Init
<1>4. TxFifo!TypeOK
  <2>1. 0 \in TxFifo!Ptr
    BY LinkAssumption DEF TxFifo!Ptr
  <2> QED
    BY <1>3, <2>1 DEF TxFifo!TypeOK
<1>5. TxFifo!FlagsConservative
  <2>1. TxFifo!Count = 0
    BY <1>3 DEF TxFifo!Count
  <2> QED
    BY <1>3, <2>1, LinkAssumption DEF TxFifo!FlagsConservative
<1>6. txCnt \in 0 .. ClksPerTick - 1 /\ rxCnt \in 0 .. ClksPerTick - 1 /\ skew \in -MaxSkew .. MaxSkew
  BY LinkAssumption DEF Init
<1>7. got \in BOOLEAN
  BY DEF Init
<1> QED
  BY <1>1, <1>2, <1>4, <1>5, <1>6, <1>7 DEF LinkTyped, TypeOK

(* Every register of the two ends of the line holds a value of its kind.   *)
THEOREM UartTypeCorrect == Spec => []TypeOK
<1>1. LinkTyped => TypeOK
  BY DEF LinkTyped
<1> QED
  BY <1>1, LinkTypedInit, LinkTypedNext, PTL DEF Spec

-----------------------------------------------------------------------------
(* Time in clock edges.  A bit takes Oversample ticks, the stop bits are   *)
(* counted in one go, and the receiver starts half a bit late.              *)

BitClks  == Oversample * ClksPerTick
StopClks == (StopBits * Oversample) * ClksPerTick
HalfClks == (HalfBit + 1) * ClksPerTick

(* How far an end of the line is in its bit.                                *)
TxPos == txTicks * ClksPerTick + txCnt
RxPos ==
  IF rxSta = "start" THEN rxTicks * ClksPerTick + rxCnt - HalfClks
  ELSE rxTicks * ClksPerTick + rxCnt

(* What the theorem asks of the sizes: the counter of ticks is wide enough *)
(* for the stop bits, and the receiver samples within the bit: it is at    *)
(* most a tick and the three clocks of its registers off the middle, and   *)
(* MaxSkew either way before and after the start bit is seen.               *)
SamplesInBit ==
  /\ StopBits * Oversample <= CounterSize
  /\ MaxSkew < HalfBit * ClksPerTick
  /\ (HalfBit + 2) * ClksPerTick + 2 + 3 * MaxSkew <= BitClks

LEMMA Times ==
  /\ BitClks \in Nat /\ StopClks \in Nat /\ HalfClks \in Nat
  /\ HalfBit \in Nat /\ HalfBit + 1 <= Oversample
  /\ HalfBit * ClksPerTick = HalfClks - ClksPerTick
  /\ (HalfBit + 2) * ClksPerTick = HalfClks + ClksPerTick
  /\ StopBits * Oversample \in Nat /\ StopBits * Oversample >= Oversample /\ StopClks >= BitClks
<1> USE UartAssumption, LinkAssumption
<1>1. HalfBit \in Nat /\ HalfBit + 1 <= Oversample
  BY DEF HalfBit
<1>2. \A m, n \in Nat : m * n \in Nat
  OBVIOUS
<1>3. \A m, n, k \in Nat : m <= n => m * k <= n * k
  <2> SUFFICES ASSUME NEW m \in Nat, NEW n \in Nat, NEW k \in Nat, m <= n
               PROVE  m * k <= n * k
    OBVIOUS
  <2>1. (n - m) * k >= 0
    OBVIOUS
  <2> QED
    BY <2>1
<1>4. StopBits * Oversample \in Nat /\ StopBits * Oversample >= Oversample
  BY <1>2, <1>3
<1>5. BitClks \in Nat /\ StopClks \in Nat /\ HalfClks \in Nat /\ StopClks >= BitClks
  BY <1>1, <1>2, <1>3, <1>4 DEF BitClks, StopClks, HalfClks
<1>6. /\ HalfBit * ClksPerTick = HalfClks - ClksPerTick
      /\ (HalfBit + 2) * ClksPerTick = HalfClks + ClksPerTick
  BY <1>1 DEF HalfClks
<1> QED
  BY <1>1, <1>4, <1>5, <1>6

LEMMA PositionBound ==
  ASSUME NEW n \in Nat, NEW t \in 0 .. n - 1, NEW c \in 0 .. ClksPerTick - 1
  PROVE  /\ t * ClksPerTick + ClksPerTick <= n * ClksPerTick
         /\ t * ClksPerTick + c \in 0 .. n * ClksPerTick - 1
<1> USE LinkAssumption
<1>1. (n - (t + 1)) * ClksPerTick >= 0
  OBVIOUS
<1>2. t * ClksPerTick + ClksPerTick <= n * ClksPerTick
  BY <1>1
<1>3. t * ClksPerTick \in Nat /\ n * ClksPerTick \in Nat
  OBVIOUS
<1> QED
  BY <1>2, <1>3

(* n ticks counted from 0: a clock is one edge further until the last,     *)
(* which the two counters are both at the end of.                           *)
LEMMA PositionStep ==
  ASSUME NEW n \in Nat, n <= CounterSize, NEW t \in 0 .. n - 1, NEW c \in 0 .. ClksPerTick - 1
  PROVE  /\ t * ClksPerTick + c \in 0 .. n * ClksPerTick - 1
         /\ Tick(c) /\ t = n - 1 => /\ t * ClksPerTick + c = n * ClksPerTick - 1
                                    /\ BaudClock(c) = 0
         /\ ~(Tick(c) /\ t = n - 1) =>
              /\ Counted(t, Tick(c)) \in 0 .. n - 1
              /\ BaudClock(c) \in 0 .. ClksPerTick - 1
              /\ Counted(t, Tick(c)) * ClksPerTick + BaudClock(c) = t * ClksPerTick + c + 1
              /\ t * ClksPerTick + c + 1 < n * ClksPerTick
<1> USE LinkAssumption, UartAssumption
<1>1. \A m \in 0 .. n - 1 : m * ClksPerTick + ClksPerTick <= n * ClksPerTick
  BY PositionBound
<1>2. t * ClksPerTick \in Nat /\ n * ClksPerTick \in Nat
  OBVIOUS
<1>3. t * ClksPerTick + c \in 0 .. n * ClksPerTick - 1
  BY <1>1, <1>2
<1>4. ASSUME Tick(c), t = n - 1
      PROVE  t * ClksPerTick + c = n * ClksPerTick - 1 /\ BaudClock(c) = 0
  BY <1>4 DEF Tick, BaudClock
<1>5. ASSUME ~(Tick(c) /\ t = n - 1)
      PROVE  /\ Counted(t, Tick(c)) \in 0 .. n - 1
             /\ BaudClock(c) \in 0 .. ClksPerTick - 1
             /\ Counted(t, Tick(c)) * ClksPerTick + BaudClock(c) = t * ClksPerTick + c + 1
  <2>1. CASE Tick(c)
    <3>1. c = ClksPerTick - 1 /\ BaudClock(c) = 0
      BY <2>1 DEF Tick, BaudClock
    <3>2. t + 1 <= n - 1 /\ Counted(t, Tick(c)) = t + 1
      BY <1>5, <2>1 DEF Counted
    <3> QED
      BY <3>1, <3>2
  <2>2. CASE ~Tick(c)
    BY <2>2 DEF Tick, BaudClock, Counted
  <2> QED
    BY <2>1, <2>2
<1>6. ASSUME ~(Tick(c) /\ t = n - 1)
      PROVE  t * ClksPerTick + c + 1 < n * ClksPerTick
  <2> DEFINE u == Counted(t, Tick(c))
             e == BaudClock(c)
  <2>1. u \in 0 .. n - 1 /\ e \in 0 .. ClksPerTick - 1 /\ u * ClksPerTick + e = t * ClksPerTick + c + 1
    BY <1>5, <1>6
  <2> HIDE DEF u, e
  <2>2. u * ClksPerTick + ClksPerTick <= n * ClksPerTick
    BY <1>1, <2>1
  <2> QED
    BY <1>2, <2>1, <2>2
<1> QED
  BY <1>3, <1>4, <1>5, <1>6

-----------------------------------------------------------------------------
(* The two ends, each by its own clock.  The bits of a frame are numbered  *)
(* from the start bit, 0, to the stop bits, LastBit + 1.                    *)

LastBit == IF ParityMode = 0 THEN DataBits ELSE DataBits + 1

TxBit ==
  CASE txSta = "start"  -> 0
    [] txSta = "data"   -> txIdx + 1
    [] txSta = "parity" -> DataBits + 1
    [] OTHER            -> LastBit + 1

(* The bit before the one that the receiver samples next.                   *)
RxBit ==
  CASE rxSta = "start"  -> 0
    [] rxSta = "data"   -> rxIdx
    [] rxSta = "parity" -> DataBits
    [] OTHER            -> LastBit

(* How many data bits it has sampled.                                       *)
Samples ==
  CASE rxSta = "start" -> 0
    [] rxSta = "data"  -> rxIdx
    [] OTHER           -> DataBits

Front == q_data_array[q_rd_ptr]

(* What the line carries in a bit.                                          *)
ValueOf(b) ==
  IF b = 0 THEN 0
  ELSE IF b <= DataBits THEN Front[b - 1]
  ELSE IF b <= LastBit THEN ParityBit(Front)
  ELSE 1

(* The transmitter has what is left to send of the fifo's front, and the   *)
(* fifo keeps it for so long.                                               *)
SenderInv ==
  /\ txDone => txSta = "idle"
  /\ txDone \/ txSta # "idle" => ~q_empty
  /\ txSta \in {"start", "data", "parity"} => txTicks < Oversample
  /\ txSta = "stop" => txTicks < StopBits * Oversample
  /\ txSta = "start" => txData = Front
  /\ txSta = "data" =>
       /\ txIdx < DataBits
       /\ \A j \in 0 .. DataBits - 1 : j + txIdx < DataBits => txData[j] = Front[j + txIdx]
  /\ txSta = "parity" => ParityMode # 0
  /\ txSta # "idle" /\ ParityMode # 0 => txParity = ParityBit(Front)

LEMMA FrontStays ==
  ASSUME LinkTyped, SenderInv, SenderClock, txSta # "idle" \/ ~q_empty, ~txDone
  PROVE  Front' = Front /\ ~q_empty'
<1>1. PICK wr \in BOOLEAN, d \in Sent : TxFifo!Clock(txDone, wr, d)
  BY DEF SenderClock
<1>2. ~q_empty
  BY DEF SenderInv
<1> QED
  BY <1>1, <1>2, FifoStep DEF LinkTyped, TypeOK, TxTypeOK, Front

(* One clock of a transmitter that sends: it goes on in its bit, begins    *)
(* the next, or has ended the frame, and drives the line with its bit.      *)
SenderGoesOn ==
  /\ txSta' # "idle" /\ ~txDone'
  /\ TxBit' = TxBit /\ TxPos' = TxPos + 1
  /\ TxBit <= LastBit => TxPos + 1 < BitClks
  /\ TxPos + 1 < StopClks
NextBitBegins ==
  /\ txSta' # "idle" /\ ~txDone'
  /\ TxBit <= LastBit /\ TxPos = BitClks - 1
  /\ TxBit' = TxBit + 1 /\ TxPos' = 0
FrameEnds ==
  /\ TxBit = LastBit + 1 /\ TxPos = StopClks - 1
  /\ txSta' = "idle" /\ txDone'

LEMMA SenderMoves ==
  ASSUME LinkTyped, SenderInv, SenderClock, txSta # "idle", StopBits * Oversample <= CounterSize
  PROVE  /\ SenderInv' /\ Front' = Front
         /\ txLine' = ValueOf(TxBit)
         /\ TxBit \in 0 .. LastBit + 1 /\ TxPos \in Nat
         /\ SenderGoesOn \/ NextBitBegins \/ FrameEnds
<1> DEFINE tick == Tick(txCnt)
<1>1. ~txDone /\ Front' = Front /\ ~q_empty'
  BY FrontStays DEF SenderInv
<1>2. /\ txTicks \in Nat /\ txCnt \in 0 .. ClksPerTick - 1 /\ txIdx \in 0 .. 7 /\ txData \in Data
      /\ txSta \in {"start", "data", "parity", "stop"}
  BY UartAssumption DEF LinkTyped, TypeOK, TxTypeOK
<1>3. /\ txCnt' = BaudClock(txCnt)
      /\ Start(tick) \/ SendBit(tick) \/ Parity(tick) \/ Stop(tick)
  BY DEF SenderClock, TxClock, Idle
<1>4. LastBit \in Nat /\ (ParityMode = 0 => LastBit = DataBits) /\ (ParityMode # 0 => LastBit = DataBits + 1)
      /\ DataBits \in 1 .. 8
  BY UartAssumption DEF LastBit
<1>5. CASE txSta \in {"start", "data", "parity"}
  <2>1. txTicks \in 0 .. Oversample - 1 /\ Oversample <= CounterSize /\ Oversample \in Nat
    BY <1>2, <1>5, UartAssumption DEF SenderInv
  <2>2. /\ TxPos \in 0 .. BitClks - 1
        /\ TxBitEnds(tick) => TxPos = BitClks - 1 /\ BaudClock(txCnt) = 0
        /\ ~TxBitEnds(tick) =>
             /\ Counted(txTicks, tick) \in 0 .. Oversample - 1
             /\ Counted(txTicks, tick) * ClksPerTick + BaudClock(txCnt) = TxPos + 1
             /\ TxPos + 1 < BitClks
    BY <1>2, <2>1, PositionStep DEF TxBitEnds, TxPos, BitClks
  <2> HIDE DEF tick
  <2>3. ASSUME ~TxBitEnds(tick)
        PROVE  /\ UNCHANGED <<txSta, txData, txIdx, txParity>> /\ txDone' = FALSE
               /\ txTicks' = Counted(txTicks, tick)
    BY <1>3, <1>5, <2>3 DEF Start, SendBit, Parity, Stop
  <2>4. ASSUME ~TxBitEnds(tick) PROVE SenderInv' /\ SenderGoesOn
    <3>1. TxBit' = TxBit /\ TxPos' = TxPos + 1
      BY <1>3, <2>2, <2>3, <2>4 DEF TxBit, TxPos
    <3>2. SenderInv'
      <4>1. txTicks' \in 0 .. Oversample - 1
        BY <2>2, <2>3, <2>4
      <4>2. UNCHANGED <<txSta, txData, txIdx, txParity, Front>> /\ ~txDone' /\ ~q_empty'
        BY <1>1, <2>3, <2>4
      <4> QED
        BY <1>5, <2>1, <4>1, <4>2 DEF SenderInv
    <3> QED
      BY <1>5, <2>2, <2>3, <2>4, <3>1, <3>2, Times DEF SenderGoesOn
  <2>5. ASSUME TxBitEnds(tick), txSta = "start" PROVE SenderInv' /\ NextBitBegins /\ TxBit = 0
    <3>1. txSta' = "data" /\ txTicks' = 0 /\ txIdx' = 0 /\ txDone' = FALSE /\ UNCHANGED <<txData, txParity>>
      BY <1>3, <2>5 DEF Start, SendBit, Parity, Stop
    <3>2. TxBit = 0 /\ TxBit' = 1 /\ TxPos' = 0
      BY <1>3, <2>2, <2>5, <3>1, LinkAssumption DEF TxBit, TxPos
    <3>3. SenderInv'
      BY <1>1, <1>4, <2>1, <2>5, <3>1 DEF SenderInv
    <3> QED
      BY <1>4, <2>2, <2>5, <3>1, <3>2, <3>3 DEF NextBitBegins
  <2>6. ASSUME TxBitEnds(tick), txSta = "data" PROVE SenderInv' /\ NextBitBegins
    <3>1. /\ txData' = [i \in DOMAIN txData |-> IF i = DataBits - 1 THEN 0 ELSE txData[i + 1]]
          /\ txIdx' = (txIdx + 1) % 8 /\ txTicks' = 0 /\ txDone' = FALSE /\ UNCHANGED txParity
          /\ txSta' = IF txIdx # DataBits - 1 THEN "data" ELSE IF ParityMode = 0 THEN "stop" ELSE "parity"
      BY <1>3, <2>6 DEF Start, SendBit, Parity, Stop
    <3>2. txIdx \in 0 .. DataBits - 1 /\ TxBit = txIdx + 1
      BY <1>2, <1>4, <2>6 DEF SenderInv, TxBit
    <3>3. TxBit' = TxBit + 1 /\ TxPos' = 0
      <4>1. TxPos' = 0
        BY <1>3, <2>2, <2>6, <3>1, LinkAssumption DEF TxPos
      <4>2. CASE txIdx # DataBits - 1
        <5>1. txSta' = "data" /\ txIdx' = txIdx + 1
          BY <1>4, <3>1, <3>2, <4>2
        <5> QED
          BY <3>2, <4>1, <5>1 DEF TxBit
      <4>3. CASE txIdx = DataBits - 1
        <5>1. /\ ParityMode = 0 => txSta' = "stop" /\ LastBit = DataBits
              /\ ParityMode # 0 => txSta' = "parity"
          BY <1>4, <3>1, <4>3
        <5>2. TxBit' = DataBits + 1
          BY <1>4, <5>1 DEF TxBit
        <5> QED
          BY <1>4, <3>2, <4>1, <4>3, <5>2
      <4> QED
        BY <4>1, <4>2, <4>3
    <3>4. SenderInv'
      <4>1. txSta' = "data" =>
              /\ txIdx' < DataBits
              /\ \A j \in 0 .. DataBits - 1 : j + txIdx' < DataBits => txData'[j] = Front'[j + txIdx']
        <5> SUFFICES ASSUME txSta' = "data"
                     PROVE  /\ txIdx' < DataBits
                            /\ \A j \in 0 .. DataBits - 1 :
                                 j + txIdx' < DataBits => txData'[j] = Front'[j + txIdx']
          OBVIOUS
        <5>1. txIdx' = txIdx + 1 /\ txIdx + 1 < DataBits
          BY <1>4, <3>1, <3>2
        <5>2. ASSUME NEW j \in 0 .. DataBits - 1, j + txIdx' < DataBits
              PROVE  txData'[j] = Front'[j + txIdx']
          <6>1. j \in DOMAIN txData /\ j # DataBits - 1
            BY <1>2, <1>4, <3>2, <5>1, <5>2 DEF Data
          <6>2. txData'[j] = txData[j + 1]
            BY <3>1, <6>1
          <6>3. txData[j + 1] = Front[(j + 1) + txIdx]
            BY <1>4, <2>6, <3>2, <5>1, <5>2 DEF SenderInv
          <6> QED
            BY <1>1, <3>2, <5>1, <6>2, <6>3
        <5> QED
          BY <5>1, <5>2
      <4>2. StopBits * Oversample > 0
        BY Times, UartAssumption
      <4>3. txSta' \in {"data", "parity", "stop"} /\ (txSta' = "parity" => ParityMode # 0)
        BY <3>1
      <4>4. UNCHANGED <<Front, txParity>> /\ ~txDone' /\ ~q_empty' /\ txTicks' = 0
        BY <1>1, <3>1
      <4> QED
        BY <2>1, <2>6, <4>1, <4>2, <4>3, <4>4 DEF SenderInv
    <3> QED
      BY <1>4, <2>2, <2>6, <3>1, <3>2, <3>3, <3>4 DEF NextBitBegins
  <2>7. ASSUME TxBitEnds(tick), txSta = "parity" PROVE SenderInv' /\ NextBitBegins
    <3>1. txSta' = "stop" /\ txTicks' = 0 /\ txDone' = FALSE /\ UNCHANGED <<txData, txIdx, txParity>>
      BY <1>3, <2>7 DEF Start, SendBit, Parity, Stop
    <3>2. ParityMode # 0 /\ TxBit = LastBit /\ TxBit' = LastBit + 1 /\ TxPos' = 0
      BY <1>3, <1>4, <2>2, <2>7, <3>1, LinkAssumption DEF TxBit, TxPos, SenderInv
    <3>3. SenderInv'
      BY <1>1, <2>7, <3>1, Times, UartAssumption DEF SenderInv
    <3> QED
      BY <1>4, <2>2, <2>7, <3>1, <3>2, <3>3 DEF NextBitBegins
  <2>8. txLine' = ValueOf(TxBit) /\ TxBit \in 0 .. LastBit + 1
    <3>1. CASE txSta = "start"
      BY <1>3, <1>4, <3>1 DEF Start, SendBit, Parity, Stop, TxBit, ValueOf
    <3>2. CASE txSta = "data"
      <4>1. txLine' = txData[0] /\ TxBit = txIdx + 1
        BY <1>3, <3>2 DEF Start, SendBit, Parity, Stop, TxBit
      <4>2. txIdx \in 0 .. DataBits - 1 /\ txData[0] = Front[txIdx]
        <5>1. txIdx < DataBits
          BY <3>2 DEF SenderInv
        <5>2. txData[0] = Front[0 + txIdx]
          BY <1>2, <1>4, <3>2, <5>1 DEF SenderInv
        <5> QED
          BY <1>2, <1>4, <5>1, <5>2
      <4> QED
        BY <1>4, <4>1, <4>2 DEF ValueOf
    <3>3. CASE txSta = "parity"
      <4>1. txLine' = txParity /\ TxBit = DataBits + 1
        BY <1>3, <3>3 DEF Start, SendBit, Parity, Stop, TxBit
      <4> QED
        BY <1>4, <3>3, <4>1 DEF ValueOf, SenderInv
    <3> QED
      BY <1>5, <3>1, <3>2, <3>3
  <2> QED
    BY <1>1, <1>5, <2>2, <2>4, <2>5, <2>6, <2>7, <2>8
<1>6. CASE txSta = "stop"
  <2> DEFINE n == StopBits * Oversample
  <2>1. n \in Nat /\ txTicks \in 0 .. n - 1 /\ n <= CounterSize
    BY <1>2, <1>6, Times DEF SenderInv
  <2> HIDE DEF n
  <2>2. /\ TxPos \in 0 .. StopClks - 1
        /\ tick /\ txTicks = n - 1 => TxPos = StopClks - 1
        /\ ~(tick /\ txTicks = n - 1) =>
             /\ Counted(txTicks, tick) \in 0 .. n - 1
             /\ Counted(txTicks, tick) * ClksPerTick + BaudClock(txCnt) = TxPos + 1
             /\ TxPos + 1 < StopClks
    <3>1. StopClks = n * ClksPerTick
      BY DEF StopClks, n
    <3> QED
      BY <1>2, <2>1, <3>1, PositionStep DEF TxPos
  <2> HIDE DEF tick
  <2>3. /\ txLine' = 1 /\ txDone' = (tick /\ txTicks = n - 1)
        /\ txSta' = (IF txDone' THEN "idle" ELSE "stop")
        /\ txTicks' = Counted(txTicks, tick)
        /\ UNCHANGED <<txData, txIdx, txParity>>
    BY <1>3, <1>6 DEF Start, SendBit, Parity, Stop, n
  <2>4. TxBit = LastBit + 1 /\ txLine' = ValueOf(TxBit)
    BY <1>4, <1>6, <2>3 DEF TxBit, ValueOf
  <2>5. CASE tick /\ txTicks = n - 1
    <3>1. txDone' /\ txSta' = "idle"
      BY <2>3, <2>5
    <3>2. SenderInv'
      BY <1>1, <3>1 DEF SenderInv
    <3> QED
      BY <1>1, <1>4, <2>2, <2>4, <2>5, <3>1, <3>2 DEF FrameEnds
  <2>6. CASE ~(tick /\ txTicks = n - 1)
    <3>1. ~txDone' /\ txSta' = "stop"
      BY <2>3, <2>6
    <3>2. SenderInv'
      <4>1. txTicks' < n
        BY <2>1, <2>2, <2>3, <2>6
      <4>2. UNCHANGED <<txParity, Front>>
        BY <1>1, <2>3
      <4> QED
        BY <1>1, <1>6, <3>1, <4>1, <4>2 DEF SenderInv, n
    <3>3. TxBit' = LastBit + 1
      BY <3>1 DEF TxBit, LastBit
    <3>4. TxPos' = TxPos + 1
      BY <1>3, <2>2, <2>3, <2>6 DEF TxPos
    <3> QED
      BY <1>1, <1>4, <2>2, <2>4, <2>6, <3>1, <3>2, <3>3, <3>4 DEF SenderGoesOn
  <2> QED
    BY <2>5, <2>6
<1> QED
  BY <1>2, <1>5, <1>6

(* The receiver's counters in each of its states.                           *)
ReceiverInv ==
  /\ rxDone => rxSta = "idle"
  /\ rxSta = "start" => rxTicks < HalfBit + 1
  /\ rxSta \in {"data", "parity"} => rxTicks < Oversample
  /\ rxSta = "stop" => rxTicks < StopBits * Oversample
  /\ rxSta = "parity" => ParityMode # 0

(* One clock of a receiver that receives: it goes on, samples a data bit   *)
(* or the parity bit, or has received the frame.                            *)
Unchecked == ~rxDone' /\ ~rxParityErr' /\ UNCHANGED rxData
ReceiverGoesOn ==
  /\ rxSta' # "idle" /\ Unchecked
  /\ RxBit' = RxBit /\ RxPos' = RxPos + 1 /\ Samples' = Samples
  /\ RxBit < LastBit => RxPos + 1 < BitClks
  /\ RxPos + 1 < StopClks
TakesDataBit ==
  /\ rxSta' # "idle" /\ ~rxDone' /\ ~rxParityErr'
  /\ RxBit < DataBits /\ Samples = RxBit /\ Samples' = RxBit + 1
  /\ rxData' = [i \in DOMAIN rxData |-> IF i = DataBits - 1 THEN rxIn ELSE rxData[i + 1]]
ChecksParity ==
  /\ rxSta' # "idle" /\ ~rxDone' /\ UNCHANGED rxData
  /\ ParityMode # 0 /\ RxBit = DataBits /\ Samples = DataBits /\ Samples' = DataBits
  /\ rxParityErr' <=> rxIn # Expected
BitIsOver ==
  /\ RxBit < LastBit /\ RxPos = BitClks - 1
  /\ RxBit' = RxBit + 1 /\ RxPos' = 0
FrameIsIn ==
  /\ RxBit = LastBit /\ RxPos = StopClks - 1 /\ Samples = DataBits
  /\ rxSta' = "idle" /\ rxDone' /\ ~rxParityErr' /\ UNCHANGED rxData

LEMMA ReceiverMoves ==
  ASSUME LinkTyped, ReceiverInv, ReceiverClock, rxSta # "idle", StopBits * Oversample <= CounterSize
  PROVE  /\ ReceiverInv' /\ rxIn' = txLine
         /\ RxBit \in 0 .. LastBit /\ RxPos \in Int /\ RxPos >= -HalfClks /\ (RxPos < 0 => RxBit = 0)
         /\ ReceiverGoesOn \/ ((TakesDataBit \/ ChecksParity) /\ BitIsOver) \/ FrameIsIn
<1> DEFINE tick == Tick(rxCnt)
           Ranges == RxBit \in 0 .. LastBit /\ RxPos \in Int /\ RxPos >= -HalfClks /\ (RxPos < 0 => RxBit = 0)
           Moves == ReceiverGoesOn \/ ((TakesDataBit \/ ChecksParity) /\ BitIsOver) \/ FrameIsIn
<1>1. /\ rxTicks \in Nat /\ rxCnt \in 0 .. ClksPerTick - 1 /\ rxIdx \in 0 .. 7 /\ rxData \in Data
      /\ rxSta \in {"start", "data", "parity", "stop"} /\ (rxSta = "data" => rxIdx < DataBits)
  BY UartAssumption DEF LinkTyped, TypeOK, RxTypeOK, RxCounts
<1>2. /\ rxCnt' = BaudClock(rxCnt) /\ rxIn' = txLine
      /\ RxStart(tick) \/ Sample(tick) \/ CheckParity(tick) \/ RxStop(tick)
  BY DEF ReceiverClock, RxClock, RxIdle
<1>3. LastBit \in Nat /\ (ParityMode = 0 => LastBit = DataBits) /\ (ParityMode # 0 => LastBit = DataBits + 1)
      /\ DataBits \in 1 .. 8
  BY UartAssumption DEF LastBit
<1>4. /\ BitClks \in Nat /\ StopClks \in Nat /\ HalfClks \in Nat /\ StopClks >= BitClks /\ BitClks > 0
      /\ HalfBit + 1 \in Nat /\ HalfBit + 1 <= CounterSize
  <2>1. Oversample * ClksPerTick > 0
    <3>1. \A m, n \in Nat \ {0} : m * n > 0
      OBVIOUS
    <3> QED
      BY <3>1, UartAssumption, LinkAssumption
  <2> QED
    BY <2>1, Times, UartAssumption DEF BitClks
<1>5. CASE rxSta = "start"
  <2> DEFINE here == rxTicks * ClksPerTick + rxCnt
             next == Counted(rxTicks, tick) * ClksPerTick + BaudClock(rxCnt)
  <2>1. rxTicks \in 0 .. (HalfBit + 1) - 1
    BY <1>1, <1>4, <1>5 DEF ReceiverInv
  <2>2. /\ here \in 0 .. HalfClks - 1
        /\ tick /\ rxTicks = HalfBit => here = HalfClks - 1 /\ BaudClock(rxCnt) = 0
        /\ ~(tick /\ rxTicks = HalfBit) =>
             /\ Counted(rxTicks, tick) \in 0 .. HalfBit
             /\ next = here + 1
             /\ here + 1 < HalfClks
    BY <1>1, <1>4, <2>1, PositionStep, Times DEF HalfClks
  <2>3. RxBit = 0 /\ Samples = 0 /\ RxPos = here - HalfClks
    <3>1. RxBit = 0 /\ Samples = 0
      BY <1>5 DEF RxBit, Samples
    <3>2. RxPos = here - HalfClks
      BY <1>1, <1>4, <1>5, LinkAssumption DEF RxPos
    <3> QED
      BY <3>1, <3>2
  <2> HIDE DEF tick
  <2>4. CASE tick /\ rxTicks = HalfBit
    <3>1. /\ rxSta' = "data" /\ rxTicks' = 0 /\ rxIdx' = 0 /\ rxDone' = FALSE /\ rxParityErr' = FALSE
          /\ UNCHANGED rxData
      BY <1>2, <1>5, <2>4 DEF RxStart, Sample, CheckParity, RxStop
    <3>2. RxBit' = 0 /\ Samples' = 0 /\ RxPos' = 0
      <4>1. RxBit' = 0 /\ Samples' = 0
        BY <3>1 DEF RxBit, Samples
      <4>2. RxPos' = rxTicks' * ClksPerTick + rxCnt'
        BY <3>1 DEF RxPos
      <4>3. rxTicks' * ClksPerTick + rxCnt' = 0
        BY <3>1, <1>2, <2>2, <2>4, LinkAssumption
      <4> QED
        BY <4>1, <4>2, <4>3
    <3>3. ReceiverInv'
      BY <3>1, UartAssumption DEF ReceiverInv
    <3> HIDE DEF here, next
    <3>4. RxPos = -1
      BY <1>4, <2>2, <2>3, <2>4
    <3>5. ReceiverGoesOn
      BY <1>4, <2>3, <3>1, <3>2, <3>4 DEF ReceiverGoesOn, Unchecked
    <3>6. Ranges
      BY <1>3, <1>4, <2>2, <2>3, <3>4
    <3> QED
      BY <1>2, <3>3, <3>5, <3>6
  <2>5. CASE ~(tick /\ rxTicks = HalfBit)
    <3>1. /\ rxSta' = "start" /\ rxTicks' = Counted(rxTicks, tick) /\ rxDone' = FALSE /\ rxParityErr' = FALSE
          /\ UNCHANGED rxData
      BY <1>2, <1>5, <2>5 DEF RxStart, Sample, CheckParity, RxStop
    <3>2. RxBit' = 0 /\ Samples' = 0
      BY <3>1 DEF RxBit, Samples
    <3>3. RxPos' = next - HalfClks
      <4>1. RxPos' = rxTicks' * ClksPerTick + rxCnt' - HalfClks
        BY <3>1 DEF RxPos, HalfClks, HalfBit
      <4>2. rxTicks' = Counted(rxTicks, tick) /\ rxCnt' = BaudClock(rxCnt)
        BY <1>2, <3>1
      <4>3. rxTicks' \in Nat /\ rxCnt' \in Nat
        BY <2>2, <2>5, <4>2, <1>1, BaudType, LinkAssumption, Times
      <4> QED
        BY ONLY <4>1, <4>2, <4>3, <1>4, LinkAssumption
    <3>4. ReceiverInv'
      <4>1. Counted(rxTicks, tick) \in 0 .. HalfBit
        BY <2>2, <2>5
      <4>2. rxTicks' < HalfBit + 1
        BY <1>4, <3>1, <4>1, Times
      <4> QED
        BY <3>1, <4>2 DEF ReceiverInv
    <3> HIDE DEF here, next
    <3>5. RxPos' = RxPos + 1 /\ RxPos + 1 < 0
      BY <1>4, <2>2, <2>3, <2>5, <3>3
    <3>6. Ranges
      BY <1>3, <1>4, <2>2, <2>3, <3>5
    <3>7. ReceiverGoesOn
      BY <1>4, <2>3, <3>1, <3>2, <3>5, <3>6 DEF ReceiverGoesOn, Unchecked
    <3> QED
      BY <1>2, <3>4, <3>6, <3>7
  <2> QED
    BY <2>4, <2>5
<1>6. CASE rxSta \in {"data", "parity"}
  <2>1. rxTicks \in 0 .. Oversample - 1 /\ Oversample <= CounterSize /\ Oversample \in Nat
    BY <1>1, <1>6, UartAssumption DEF ReceiverInv
  <2>2. RxPos = rxTicks * ClksPerTick + rxCnt
    BY <1>6, <1>1, <2>1, LinkAssumption DEF RxPos
  <2>3. /\ RxPos \in 0 .. BitClks - 1
        /\ RxBitEnds(tick) => RxPos = BitClks - 1 /\ BaudClock(rxCnt) = 0
        /\ ~RxBitEnds(tick) =>
             /\ Counted(rxTicks, tick) \in 0 .. Oversample - 1
             /\ Counted(rxTicks, tick) * ClksPerTick + BaudClock(rxCnt) = RxPos + 1
             /\ RxPos + 1 < BitClks
    BY <1>1, <2>1, <2>2, PositionStep DEF RxBitEnds, BitClks
  <2>4. /\ rxSta = "data" => RxBit = rxIdx /\ Samples = rxIdx /\ RxBit < DataBits
        /\ rxSta = "parity" => RxBit = DataBits /\ Samples = DataBits /\ ParityMode # 0
        /\ RxBit \in 0 .. LastBit /\ RxBit < LastBit
    BY <1>1, <1>3, <1>6 DEF RxBit, Samples, ReceiverInv
  <2> HIDE DEF tick
  <2>5. CASE ~RxBitEnds(tick)
    <3>1. /\ UNCHANGED <<rxSta, rxData, rxIdx>> /\ rxTicks' = Counted(rxTicks, tick)
          /\ rxDone' = FALSE /\ rxParityErr' = FALSE
      BY <1>2, <1>6, <2>5 DEF RxStart, Sample, CheckParity, RxStop
    <3>2. RxBit' = RxBit /\ Samples' = Samples
      BY <3>1 DEF RxBit, Samples, LastBit
    <3>3. RxPos' = RxPos + 1
      <4>1. rxTicks' * ClksPerTick + rxCnt' = RxPos + 1
        BY <1>2, <2>3, <2>5, <3>1
      <4>2. RxPos' = rxTicks' * ClksPerTick + rxCnt'
        BY <1>6, <3>1 DEF RxPos
      <4> QED
        BY <2>3, <4>1, <4>2
    <3>4. ReceiverInv'
      <4>1. rxTicks' < Oversample
        BY <2>1, <2>3, <2>5, <3>1
      <4> QED
        BY <1>6, <3>1, <4>1 DEF ReceiverInv
    <3>5. ReceiverGoesOn
      BY <1>4, <1>6, <2>3, <2>5, <3>1, <3>2, <3>3 DEF ReceiverGoesOn, Unchecked
    <3> QED
      BY <1>2, <1>4, <2>3, <2>4, <3>4, <3>5
  <2>6. CASE RxBitEnds(tick) /\ rxSta = "data"
    <3>1. /\ rxData' = [i \in DOMAIN rxData |-> IF i = DataBits - 1 THEN rxIn ELSE rxData[i + 1]]
          /\ rxTicks' = 0 /\ rxDone' = FALSE /\ rxParityErr' = FALSE
          /\ IF rxIdx = DataBits - 1
             THEN rxSta' = (IF ParityMode = 0 THEN "stop" ELSE "parity") /\ UNCHANGED rxIdx
             ELSE rxIdx' = rxIdx + 1 /\ UNCHANGED rxSta
      BY <1>2, <2>6 DEF RxStart, Sample, CheckParity, RxStop
    <3>2. rxSta' \in {"data", "parity", "stop"} /\ (rxSta' = "parity" => ParityMode # 0)
      BY <2>6, <3>1
    <3>3. RxPos' = 0
      <4>1. rxTicks' * ClksPerTick + rxCnt' = 0
        BY <1>2, <2>3, <2>6, <3>1, LinkAssumption
      <4>2. RxPos' = rxTicks' * ClksPerTick + rxCnt'
        BY <3>2 DEF RxPos
      <4> QED
        BY <4>1, <4>2
    <3>4. RxBit' = RxBit + 1 /\ Samples' = RxBit + 1
      <4>1. CASE rxIdx = DataBits - 1
        <5>1. /\ ParityMode = 0 => rxSta' = "stop" /\ LastBit = DataBits
              /\ ParityMode # 0 => rxSta' = "parity"
          BY <1>3, <3>1, <4>1
        <5>2. RxBit' = DataBits /\ Samples' = DataBits
          BY <1>3, <5>1 DEF RxBit, Samples
        <5> QED
          BY <1>3, <2>4, <2>6, <4>1, <5>2
      <4>2. CASE rxIdx # DataBits - 1
        <5>1. rxSta' = "data" /\ rxIdx' = rxIdx + 1
          BY <2>6, <3>1, <4>2
        <5> QED
          BY <2>4, <2>6, <5>1 DEF RxBit, Samples
      <4> QED
        BY <4>1, <4>2
    <3>5. ReceiverInv'
      BY <2>1, <3>1, <3>2, Times, UartAssumption DEF ReceiverInv
    <3>6. TakesDataBit /\ BitIsOver
      BY <2>3, <2>4, <2>6, <3>1, <3>2, <3>3, <3>4 DEF TakesDataBit, BitIsOver
    <3> QED
      BY <1>2, <1>4, <2>3, <2>4, <3>5, <3>6
  <2>7. CASE RxBitEnds(tick) /\ rxSta = "parity"
    <3>1. /\ rxSta' = "stop" /\ rxTicks' = 0 /\ rxDone' = FALSE /\ UNCHANGED <<rxData, rxIdx>>
          /\ rxParityErr' = (rxIn # Expected)
      BY <1>2, <2>7 DEF RxStart, Sample, CheckParity, RxStop
    <3>2. RxPos' = 0
      <4>1. rxTicks' * ClksPerTick + rxCnt' = 0
        BY <1>2, <2>3, <2>7, <3>1, LinkAssumption
      <4>2. RxPos' = rxTicks' * ClksPerTick + rxCnt'
        BY <3>1 DEF RxPos
      <4> QED
        BY <4>1, <4>2
    <3>3. RxBit' = LastBit /\ Samples' = DataBits
      BY <3>1 DEF RxBit, Samples, LastBit
    <3>4. ReceiverInv'
      BY <2>1, <3>1, Times, UartAssumption DEF ReceiverInv
    <3>5. ChecksParity
      BY <2>4, <2>7, <3>1, <3>3 DEF ChecksParity
    <3>6. BitIsOver
      BY <1>3, <2>3, <2>4, <2>7, <3>2, <3>3 DEF BitIsOver
    <3> QED
      BY <1>2, <1>4, <2>3, <2>4, <3>4, <3>5, <3>6
  <2> QED
    BY <1>6, <2>5, <2>6, <2>7
<1>7. CASE rxSta = "stop"
  <2> DEFINE n == StopBits * Oversample
  <2>1. n \in Nat /\ rxTicks \in 0 .. n - 1 /\ n <= CounterSize
    BY <1>1, <1>7, Times DEF ReceiverInv
  <2> HIDE DEF n
  <2>2. RxPos = rxTicks * ClksPerTick + rxCnt /\ RxBit = LastBit /\ Samples = DataBits
    BY <1>1, <1>7, LinkAssumption DEF RxPos, RxBit, Samples
  <2>3. /\ RxPos \in 0 .. StopClks - 1
        /\ tick /\ rxTicks = n - 1 => RxPos = StopClks - 1
        /\ ~(tick /\ rxTicks = n - 1) =>
             /\ Counted(rxTicks, tick) \in 0 .. n - 1
             /\ Counted(rxTicks, tick) * ClksPerTick + BaudClock(rxCnt) = RxPos + 1
             /\ RxPos + 1 < StopClks
    <3>1. StopClks = n * ClksPerTick
      BY DEF StopClks, n
    <3> QED
      BY <1>1, <2>1, <2>2, <3>1, PositionStep
  <2> HIDE DEF tick
  <2>4. /\ rxDone' = (tick /\ rxTicks = n - 1)
        /\ rxSta' = (IF rxDone' THEN "idle" ELSE "stop")
        /\ rxTicks' = Counted(rxTicks, tick)
        /\ rxParityErr' = FALSE /\ UNCHANGED <<rxData, rxIdx>>
    BY <1>2, <1>7 DEF RxStart, Sample, CheckParity, RxStop, n
  <2>5. CASE tick /\ rxTicks = n - 1
    <3>1. rxDone' /\ rxSta' = "idle"
      BY <2>4, <2>5
    <3>2. ReceiverInv'
      BY <3>1 DEF ReceiverInv
    <3>3. FrameIsIn
      BY <2>2, <2>3, <2>4, <2>5, <3>1 DEF FrameIsIn
    <3> QED
      BY <1>2, <1>3, <1>4, <2>2, <2>3, <3>2, <3>3
  <2>6. CASE ~(tick /\ rxTicks = n - 1)
    <3>1. ~rxDone' /\ rxSta' = "stop"
      BY <2>4, <2>6
    <3>2. ReceiverInv'
      <4>1. rxTicks' < n
        BY <2>1, <2>3, <2>4, <2>6
      <4> QED
        BY <3>1, <4>1 DEF ReceiverInv, n
    <3>3. RxBit' = LastBit /\ Samples' = DataBits
      BY <3>1 DEF RxBit, Samples, LastBit
    <3>4. RxPos' = RxPos + 1
      <4>1. rxTicks' * ClksPerTick + rxCnt' = RxPos + 1
        BY <1>2, <2>3, <2>4, <2>6
      <4>2. RxPos' = rxTicks' * ClksPerTick + rxCnt'
        BY <3>1 DEF RxPos
      <4> QED
        BY <2>3, <4>1, <4>2
    <3>5. RxPos + 1 < StopClks /\ RxBit = LastBit /\ Samples = DataBits
      BY <2>2, <2>3, <2>6
    <3>6. ReceiverGoesOn
      BY <1>3, <2>4, <3>1, <3>3, <3>4, <3>5 DEF ReceiverGoesOn, Unchecked
    <3> QED
      BY <1>2, <1>3, <1>4, <2>2, <2>3, <3>2, <3>6
  <2> QED
    BY <2>5, <2>6
<1> QED
  BY <1>1, <1>5, <1>6, <1>7

(* Where the two ends are while they send and receive.                      *)
LEMMA SenderPlace ==
  ASSUME LinkTyped, SenderInv, txSta # "idle"
  PROVE  /\ TxBit \in 0 .. LastBit + 1 /\ TxPos \in 0 .. StopClks - 1
         /\ TxBit <= LastBit => TxPos < BitClks
         /\ TxBit = LastBit + 1 => txSta = "stop"
         /\ TxBit = 0 => txSta = "start"
<1>1. /\ txTicks \in Nat /\ txCnt \in 0 .. ClksPerTick - 1 /\ txIdx \in 0 .. 7
      /\ txSta \in {"start", "data", "parity", "stop"}
  BY UartAssumption DEF LinkTyped, TypeOK, TxTypeOK
<1>2. LastBit \in Nat /\ (ParityMode = 0 => LastBit = DataBits) /\ (ParityMode # 0 => LastBit = DataBits + 1)
      /\ DataBits \in 1 .. 8
  BY UartAssumption DEF LastBit
<1>3. CASE txSta \in {"start", "data", "parity"}
  <2>1. txTicks \in 0 .. Oversample - 1 /\ Oversample \in Nat /\ Oversample <= CounterSize
    BY <1>1, <1>3, UartAssumption DEF SenderInv
  <2>2. TxPos \in 0 .. BitClks - 1
    BY <1>1, <2>1, PositionStep DEF TxPos, BitClks
  <2>3. TxBit \in 0 .. LastBit /\ (TxBit = 0 => txSta = "start")
    BY <1>1, <1>2, <1>3 DEF TxBit, SenderInv
  <2> QED
    BY <1>2, <2>2, <2>3, Times
<1>4. CASE txSta = "stop"
  <2>1. txTicks \in 0 .. (StopBits * Oversample) - 1
    BY <1>1, <1>4, Times DEF SenderInv
  <2>2. TxPos \in 0 .. StopClks - 1
    BY <1>1, <2>1, Times, PositionBound DEF TxPos, StopClks
  <2>3. TxBit = LastBit + 1
    BY <1>4 DEF TxBit
  <2> QED
    BY <1>2, <1>4, <2>2, <2>3, Times
<1> QED
  BY <1>1, <1>3, <1>4

LEMMA ReceiverPlace ==
  ASSUME LinkTyped, ReceiverInv, rxSta # "idle"
  PROVE  /\ RxBit \in 0 .. LastBit /\ RxPos \in Int
         /\ RxPos >= -HalfClks /\ (RxPos < 0 => RxBit = 0) /\ RxPos < StopClks
         /\ RxBit < LastBit => RxPos < BitClks
<1>1. /\ rxTicks \in Nat /\ rxCnt \in 0 .. ClksPerTick - 1 /\ rxIdx \in 0 .. 7
      /\ rxSta \in {"start", "data", "parity", "stop"} /\ (rxSta = "data" => rxIdx < DataBits)
  BY UartAssumption DEF LinkTyped, TypeOK, RxTypeOK, RxCounts
<1>2. LastBit \in Nat /\ (ParityMode = 0 => LastBit = DataBits) /\ (ParityMode # 0 => LastBit = DataBits + 1)
      /\ DataBits \in 1 .. 8
  BY UartAssumption DEF LastBit
<1> DEFINE here == rxTicks * ClksPerTick + rxCnt
<1>3. CASE rxSta = "start"
  <2>1. rxTicks \in 0 .. (HalfBit + 1) - 1 /\ HalfBit + 1 \in Nat
    BY <1>1, <1>3, Times DEF ReceiverInv
  <2>2. here \in 0 .. HalfClks - 1
    BY <1>1, <2>1, PositionBound DEF HalfClks
  <2>3. RxBit = 0
    BY <1>3 DEF RxBit
  <2>4. RxPos = here - HalfClks
    BY <1>1, <1>3, Times, LinkAssumption DEF RxPos
  <2> HIDE DEF here
  <2>5. RxPos \in Int /\ RxPos >= -HalfClks /\ RxPos < 0
    BY <2>2, <2>4, Times
  <2> QED
    BY <1>2, <2>3, <2>5, Times
<1>4. CASE rxSta \in {"data", "parity"}
  <2>1. rxTicks \in 0 .. Oversample - 1 /\ Oversample \in Nat
    BY <1>1, <1>4, UartAssumption DEF ReceiverInv
  <2>2. here \in 0 .. BitClks - 1
    BY <1>1, <2>1, PositionBound DEF BitClks
  <2>3. RxBit \in 0 .. LastBit
    BY <1>1, <1>2, <1>4 DEF RxBit, ReceiverInv
  <2>4. RxPos = here
    BY <1>1, <1>4, LinkAssumption DEF RxPos
  <2> HIDE DEF here
  <2> QED
    BY <1>2, <2>2, <2>3, <2>4, Times
<1>5. CASE rxSta = "stop"
  <2>1. rxTicks \in 0 .. (StopBits * Oversample) - 1
    BY <1>1, <1>5, Times DEF ReceiverInv
  <2>2. here \in 0 .. StopClks - 1
    BY <1>1, <2>1, Times, PositionBound DEF StopClks
  <2>3. RxBit = LastBit
    BY <1>5 DEF RxBit
  <2>4. RxPos = here
    BY <1>1, <1>5, LinkAssumption DEF RxPos
  <2> HIDE DEF here
  <2> QED
    BY <1>2, <2>2, <2>3, <2>4, Times
<1> QED
  BY <1>1, <1>3, <1>4, <1>5

(* A transmitter without a value leaves the line high; it pops the value   *)
(* sent, or takes the next one, the front of the fifo.                      *)
LEMMA IdleSender ==
  ASSUME LinkTyped, SenderInv, SenderClock, txSta = "idle"
  PROVE  /\ SenderInv' /\ txLine' = 1 /\ ~txDone'
         /\ txDone => txSta' = "idle" /\ q_rd_ptr' # q_rd_ptr /\ ~q_empty
         /\ \/ txSta' = "idle"
            \/ txSta' = "start" /\ ~txDone /\ TxPos' \in 0 .. ClksPerTick - 1
<1>1. /\ txLine' = 1 /\ txDone' = FALSE
      /\ IF MayLatch(~q_empty)
         THEN /\ txSta' = "start" /\ txTicks' = 0 /\ txData' = Front
              /\ txParity' = IF ParityMode = 0 THEN txParity ELSE ParityBit(Front)
         ELSE txSta' = "idle"
  BY DEF SenderClock, TxClock, Idle, Start, SendBit, Parity, Stop, Front
<1>2. txCnt' \in 0 .. ClksPerTick - 1
  BY SenderTyped
<1>3. CASE MayLatch(~q_empty)
  <2>1. ~txDone /\ ~q_empty /\ txSta' = "start" /\ txTicks' = 0 /\ txData' = Front
        /\ (ParityMode # 0 => txParity' = ParityBit(Front))
    BY <1>1, <1>3 DEF MayLatch
  <2>2. Front' = Front /\ ~q_empty'
    BY <2>1, FrontStays
  <2>3. TxPos' = txCnt'
    <3>1. TxPos' = txTicks' * ClksPerTick + txCnt'
      BY DEF TxPos
    <3>2. txTicks' * ClksPerTick = 0
      BY <2>1, LinkAssumption
    <3> QED
      BY <1>2, <3>1, <3>2, LinkAssumption
  <2>4. SenderInv'
    BY <1>1, <2>1, <2>2, UartAssumption DEF SenderInv
  <2> QED
    BY <1>1, <1>2, <2>1, <2>3, <2>4
<1>4. CASE ~MayLatch(~q_empty)
  <2>1. txSta' = "idle" /\ ~txDone'
    BY <1>1, <1>4
  <2>2. SenderInv'
    BY <2>1 DEF SenderInv
  <2>3. txDone => ~q_empty /\ q_rd_ptr' # q_rd_ptr
    <3>1. PICK wr \in BOOLEAN, d \in Sent : TxFifo!Clock(txDone, wr, d)
      BY DEF SenderClock
    <3> QED
      BY <3>1, FifoStep DEF SenderInv, LinkTyped, TypeOK, TxTypeOK
  <2> QED
    BY <1>1, <2>1, <2>2, <2>3
<1> QED
  BY <1>3, <1>4

(* A receiver without a frame waits for the line to go low.                 *)
LEMMA IdleReceiver ==
  ASSUME LinkTyped, ReceiverInv, ReceiverClock, rxSta = "idle"
  PROVE  /\ ReceiverInv' /\ rxIn' = txLine /\ ~rxDone' /\ ~rxParityErr'
         /\ rxIn = 1 => rxSta' = "idle"
         /\ rxIn = 0 => /\ rxSta' = "start" /\ RxBit' = 0 /\ Samples' = 0
                        /\ RxPos' \in Int /\ RxPos' >= -HalfClks
                        /\ RxPos' < ClksPerTick - HalfClks
<1>1. /\ rxIn' = txLine /\ rxDone' = FALSE /\ rxParityErr' = FALSE
      /\ IF rxIn = 0 THEN rxSta' = "start" /\ rxTicks' = 0 ELSE rxSta' = "idle"
  BY DEF ReceiverClock, RxClock, RxIdle, RxStart, Sample, CheckParity, RxStop
<1>2. rxCnt' \in 0 .. ClksPerTick - 1
  BY ReceiverTyped
<1>3. CASE rxIn = 0
  <2>1. rxSta' = "start" /\ rxTicks' = 0
    BY <1>1, <1>3
  <2>2. ReceiverInv'
    BY <1>1, <2>1, Times DEF ReceiverInv
  <2>3. RxBit' = 0 /\ Samples' = 0
    BY <2>1 DEF RxBit, Samples
  <2>4. RxPos' = rxCnt' - HalfClks
    <3> DEFINE ticks == rxTicks' * ClksPerTick
    <3>1. RxPos' = ticks + rxCnt' - HalfClks
      BY <2>1 DEF RxPos, HalfClks, HalfBit
    <3>2. ticks = 0
      BY <2>1, LinkAssumption
    <3> HIDE DEF ticks
    <3> QED
      BY <1>2, <3>1, <3>2, Times, LinkAssumption
  <2>5. RxPos' \in Int /\ RxPos' >= -HalfClks /\ RxPos' < ClksPerTick - HalfClks
    <3>1. HalfClks \in Nat /\ rxCnt' \in Nat /\ rxCnt' < ClksPerTick /\ ClksPerTick \in Nat
      BY <1>2, Times, LinkAssumption
    <3>2. \A c, h, k \in Nat : c < k => c - h \in Int /\ c - h >= -h /\ c - h < k - h
      OBVIOUS
    <3> QED
      BY ONLY <2>4, <3>1, <3>2
  <2>6. rxIn' = txLine /\ ~rxDone' /\ ~rxParityErr' /\ rxIn # 1
    BY <1>1, <1>3
  <2> QED
    BY ONLY <1>3, <2>1, <2>2, <2>3, <2>5, <2>6
<1>4. CASE rxIn # 0
  <2>1. ReceiverInv'
    BY <1>1, <1>4 DEF ReceiverInv
  <2> QED
    BY <1>1, <1>4, <2>1
<1> QED
  BY <1>3, <1>4

-----------------------------------------------------------------------------
(* The two ends together.  The sender is ahead of the receiver by Lead     *)
(* clock edges, from LeadMin to LeadMax when the receiver has just seen    *)
(* the start bit, and by as much as the clocks drift less or more after.    *)

LeadMin == HalfClks - ClksPerTick + 2
LeadMax == HalfClks + ClksPerTick + 2 + 2 * MaxSkew

(* Place p of bit b is between lo and hi edges ahead of the receiver.       *)
Near(b, p, lo, hi) ==
  \/ b = RxBit /\ lo <= p - RxPos /\ p - RxPos <= hi
  \/ b = RxBit + 1 /\ lo <= p + BitClks - RxPos /\ p + BitClks - RxPos <= hi

LEMMA Margins ==
  ASSUME SamplesInBit
  PROVE  /\ BitClks \in Nat /\ StopClks \in Nat /\ HalfClks \in Nat /\ StopClks >= BitClks
         /\ ClksPerTick \in Nat /\ ClksPerTick >= 1 /\ MaxSkew \in Nat
         /\ LeadMin \in Int /\ LeadMax \in Int
         /\ LeadMin = HalfClks - ClksPerTick + 2
         /\ LeadMax = HalfClks + ClksPerTick + 2 + 2 * MaxSkew
         /\ LeadMin - MaxSkew >= 3 /\ LeadMax + MaxSkew <= BitClks
<1>1. HalfClks - ClksPerTick > MaxSkew /\ HalfClks + ClksPerTick + 2 + 3 * MaxSkew <= BitClks
  BY Times, LinkAssumption DEF SamplesInBit
<1>2. BitClks \in Nat /\ StopClks \in Nat /\ HalfClks \in Nat /\ StopClks >= BitClks
  BY Times
<1> QED
  BY ONLY <1>1, <1>2, LinkAssumption DEF LeadMin, LeadMax

Places ==
  /\ LastBit \in Nat
  /\ TxBit \in 0 .. LastBit + 1 /\ TxPos \in 0 .. StopClks - 1 /\ (TxBit <= LastBit => TxPos < BitClks)
  /\ RxBit \in 0 .. LastBit /\ RxPos \in Int /\ RxPos >= -HalfClks /\ (RxPos < 0 => RxBit = 0)
  /\ RxPos < StopClks /\ (RxBit < LastBit => RxPos < BitClks)
  /\ skew \in -MaxSkew .. MaxSkew

(* The lead is less than a bit, so that the two ends pass from bit to bit  *)
(* in turn, and the receiver has the frame while the stop bits are sent.    *)
LEMMA LeadBoth ==
  ASSUME SamplesInBit, Places, Near(TxBit, TxPos, LeadMin + skew, LeadMax + skew),
         SenderGoesOn \/ NextBitBegins \/ FrameEnds,
         ReceiverGoesOn \/ BitIsOver \/ FrameIsIn
  PROVE  \/ /\ SenderGoesOn \/ NextBitBegins
            /\ ReceiverGoesOn \/ BitIsOver
            /\ \A lo, hi \in Int : lo = LeadMin + skew /\ hi = LeadMax + skew => Near(TxBit, TxPos, lo, hi)'
         \/ /\ FrameIsIn /\ TxBit = LastBit + 1 /\ TxPos >= 1
            /\ SenderGoesOn \/ FrameEnds
<1> USE Margins DEF Places, Near
<1>1. CASE SenderGoesOn /\ ReceiverGoesOn
  BY <1>1 DEF SenderGoesOn, ReceiverGoesOn
<1>2. CASE SenderGoesOn /\ BitIsOver
  BY <1>2 DEF SenderGoesOn, BitIsOver
<1>3. CASE SenderGoesOn /\ FrameIsIn
  BY <1>3 DEF SenderGoesOn, FrameIsIn
<1>4. CASE NextBitBegins /\ ReceiverGoesOn
  BY <1>4 DEF NextBitBegins, ReceiverGoesOn
<1>5. CASE NextBitBegins /\ BitIsOver
  BY <1>5 DEF NextBitBegins, BitIsOver
<1>6. CASE NextBitBegins /\ FrameIsIn
  BY <1>6 DEF NextBitBegins, FrameIsIn
<1>7. CASE FrameEnds /\ ReceiverGoesOn
  BY <1>7 DEF FrameEnds, ReceiverGoesOn
<1>8. CASE FrameEnds /\ BitIsOver
  BY <1>8 DEF FrameEnds, BitIsOver
<1>9. CASE FrameEnds /\ FrameIsIn
  BY <1>9 DEF FrameEnds, FrameIsIn
<1> QED
  BY <1>1, <1>2, <1>3, <1>4, <1>5, <1>6, <1>7, <1>8, <1>9

LEMMA LeadSender ==
  ASSUME SamplesInBit, Places, Near(TxBit, TxPos, LeadMin + skew, LeadMax + skew), skew < MaxSkew,
         SenderGoesOn \/ NextBitBegins \/ FrameEnds, RxBit' = RxBit, RxPos' = RxPos
  PROVE  /\ SenderGoesOn \/ NextBitBegins
         /\ \A lo, hi \in Int :
              lo = LeadMin + skew + 1 /\ hi = LeadMax + skew + 1 => Near(TxBit, TxPos, lo, hi)'
<1> USE Margins DEF Places, Near
<1>1. CASE SenderGoesOn
  BY <1>1 DEF SenderGoesOn
<1>2. CASE NextBitBegins
  BY <1>2 DEF NextBitBegins
<1>3. CASE FrameEnds
  BY <1>3 DEF FrameEnds
<1> QED
  BY <1>1, <1>2, <1>3

LEMMA LeadReceiver ==
  ASSUME SamplesInBit, Places, Near(TxBit, TxPos, LeadMin + skew, LeadMax + skew), skew > -MaxSkew,
         ReceiverGoesOn \/ BitIsOver \/ FrameIsIn, TxBit' = TxBit, TxPos' = TxPos
  PROVE  \/ /\ ReceiverGoesOn \/ BitIsOver
            /\ \A lo, hi \in Int :
                 lo = LeadMin + skew - 1 /\ hi = LeadMax + skew - 1 => Near(TxBit, TxPos, lo, hi)'
         \/ FrameIsIn /\ TxBit = LastBit + 1 /\ TxPos >= 1
<1> USE Margins DEF Places, Near
<1>1. CASE ReceiverGoesOn
  BY <1>1 DEF ReceiverGoesOn
<1>2. CASE BitIsOver
  BY <1>2 DEF BitIsOver
<1>3. CASE FrameIsIn
  BY <1>3 DEF FrameIsIn
<1> QED
  BY <1>1, <1>2, <1>3

(* The line carries what the sender drove in the clock before, and rxIn    *)
(* what the line carried when the receiver's clock last came: place p of   *)
(* bit b.                                                                   *)
LineBit == IF TxPos >= 1 THEN TxBit ELSE TxBit - 1
LinePos == IF TxPos >= 1 THEN TxPos ELSE BitClks

HeardAt(b, p) ==
  /\ b \in {TxBit, TxBit - 1} /\ p >= 1
  /\ b <= LastBit => p <= BitClks
  /\ b = TxBit => p <= TxPos
  /\ Near(b, p, LeadMin - MaxSkew - 1, LeadMax + MaxSkew - 1)

LEMMA HeardNew ==
  ASSUME SamplesInBit, Places, Near(TxBit, TxPos, LeadMin + skew, LeadMax + skew),
         TxBit = 0 => TxPos >= 1,
         ReceiverGoesOn \/ BitIsOver,
         (TxBit' = TxBit /\ TxPos' = TxPos) \/ SenderGoesOn \/ NextBitBegins,
         NEW b, NEW p, b = LineBit, p = LinePos
  PROVE  b \in Int /\ p \in Nat /\ HeardAt(b, p)'
<1> USE Margins DEF Places, Near, LineBit, LinePos, HeardAt
<1>1. LastBit' = LastBit /\ BitClks' = BitClks /\ LeadMin' = LeadMin /\ LeadMax' = LeadMax
  BY DEF LastBit, BitClks, LeadMin, LeadMax, HalfClks, HalfBit
<1>2. b \in Int /\ p \in Nat
  OBVIOUS
<1>3. TxBit' \in Int /\ TxPos' \in Int /\ b \in {TxBit', TxBit' - 1} /\ (b = TxBit' => p <= TxPos')
  BY DEF SenderGoesOn, NextBitBegins
<1>4. p >= 1 /\ (b <= LastBit => p <= BitClks)
  OBVIOUS
<1>5. Near(b, p, LeadMin - MaxSkew - 1, LeadMax + MaxSkew - 1)'
  <2>1. CASE ReceiverGoesOn
    BY <1>1, <2>1 DEF ReceiverGoesOn
  <2>2. CASE BitIsOver
    BY <1>1, <2>2 DEF BitIsOver
  <2> QED
    BY <2>1, <2>2
<1> QED
  BY <1>1, <1>2, <1>3, <1>4, <1>5

LEMMA HeardKept ==
  ASSUME SamplesInBit, Places, Near(TxBit, TxPos, LeadMin + skew, LeadMax + skew), skew < MaxSkew,
         SenderGoesOn \/ NextBitBegins, RxBit' = RxBit, RxPos' = RxPos,
         NEW b \in Int, NEW p \in Nat, HeardAt(b, p)
  PROVE  HeardAt(b, p)'
<1> USE Margins DEF Places, Near, HeardAt
<1>1. LastBit' = LastBit /\ BitClks' = BitClks /\ LeadMin' = LeadMin /\ LeadMax' = LeadMax
  BY DEF LastBit, BitClks, LeadMin, LeadMax, HalfClks, HalfBit
<1>2. TxBit' \in Int /\ TxPos' \in Int /\ b \in {TxBit', TxBit' - 1} /\ (b = TxBit' => p <= TxPos')
  BY DEF SenderGoesOn, NextBitBegins
<1> QED
  BY <1>1, <1>2

(* So what the receiver samples at the end of its bit is of the next bit.   *)
LEMMA HeardSampled ==
  ASSUME SamplesInBit, Places, BitIsOver, NEW b \in Int, NEW p \in Nat, HeardAt(b, p)
  PROVE  b = RxBit + 1
BY Margins DEF Places, Near, HeardAt, BitIsOver

-----------------------------------------------------------------------------
(* The link is in one of four phases: the line is high and the receiver    *)
(* has had all that was sent; the sender has latched a value; the line is  *)
(* low and the receiver has not begun; and both are in the same frame.      *)

GotSoFar ==
  \A i \in 0 .. DataBits - 1 :
    i + Samples >= DataBits => rxData[i] = Front[i + Samples - DataBits]
Hearing == \E b \in Int, p \in Nat : HeardAt(b, p) /\ rxIn = ValueOf(b)

Waiting ==
  /\ rxSta = "idle" /\ txLine = 1 /\ rxIn = 1
  /\ \/ txSta = "idle" /\ (got <=> txDone)
     \/ txSta = "stop" /\ got
Latched ==
  /\ rxSta = "idle" /\ txLine = 1 /\ rxIn = 1 /\ ~got
  /\ txSta = "start" /\ TxPos < ClksPerTick
Starting ==
  /\ rxSta = "idle" /\ txLine = 0 /\ ~got
  /\ txSta = "start" /\ TxPos >= 1
  /\ rxIn = 1 => TxPos <= ClksPerTick + MaxSkew + skew
  /\ rxIn # 1 => TxPos <= ClksPerTick + MaxSkew + skew + 1
Synced ==
  /\ rxSta # "idle" /\ txSta # "idle" /\ ~got
  /\ Near(TxBit, TxPos, LeadMin + skew, LeadMax + skew)
  /\ TxBit = 0 => TxPos >= 1
  /\ txLine = ValueOf(LineBit) /\ Hearing /\ GotSoFar

Phase == Waiting \/ Latched \/ Starting \/ Synced
EndsInv == SenderInv /\ ReceiverInv /\ ~rxParityErr
LinkInv == LinkTyped /\ EndsInv /\ Phase

(* What DeliversFront says of a step.                                       *)
Delivers ==
  /\ Received => ~got /\ TxFifo!Count > 0 /\ rxData' = q_data_array[q_rd_ptr]
  /\ Popped => got
  /\ ~rxParityErr'

SenderStays == UNCHANGED <<txVars, fifoVars, txCnt>>
ReceiverStays == UNCHANGED <<rxVars, rxCnt>>

LEMMA ValueStays ==
  ASSUME Front' = Front, NEW b
  PROVE  ValueOf(b)' = ValueOf(b)
<1>1. LastBit' = LastBit /\ ParityBit(Front)' = ParityBit(Front)
  BY DEF LastBit, ParityBit, Xor
<1> QED
  BY <1>1 DEF ValueOf

LEMMA SenderKept ==
  ASSUME SenderInv, SenderStays
  PROVE  /\ SenderInv' /\ UNCHANGED <<Front, TxBit, TxPos, txSta, txLine, txDone>>
         /\ ~Popped
<1>1. UNCHANGED <<txSta, txTicks, txData, txIdx, txParity, txLine, txDone, q_rd_ptr, q_empty, q_data_array, txCnt>>
  BY DEF SenderStays, txVars, fifoVars
<1>2. LastBit' = LastBit
  BY DEF LastBit
<1>3. Front' = Front /\ TxBit' = TxBit /\ TxPos' = TxPos
  BY <1>1, <1>2 DEF Front, TxBit, TxPos
<1>4. ParityBit(Front)' = ParityBit(Front)
  BY <1>3 DEF ParityBit, Xor
<1>5. SenderInv'
  BY <1>1, <1>3, <1>4 DEF SenderInv
<1> QED
  BY <1>1, <1>3, <1>5 DEF Popped

LEMMA ReceiverKept ==
  ASSUME ReceiverInv, ReceiverStays
  PROVE  /\ ReceiverInv' /\ UNCHANGED <<RxBit, RxPos, Samples, rxSta, rxData, rxDone, rxParityErr, rxIn>>
         /\ ~Received /\ ~Synchronises
<1>1. UNCHANGED <<rxSta, rxTicks, rxData, rxIdx, rxDone, rxParityErr, rxIn, rxCnt>>
  BY DEF ReceiverStays, rxVars
<1>2. LastBit' = LastBit /\ HalfClks' = HalfClks /\ HalfBit' = HalfBit
  BY DEF LastBit, HalfClks, HalfBit
<1>3. RxBit' = RxBit /\ RxPos' = RxPos /\ Samples' = Samples
  BY <1>1, <1>2 DEF RxBit, RxPos, Samples
<1>4. ReceiverInv'
  BY <1>1, <1>2 DEF ReceiverInv
<1> QED
  BY <1>1, <1>3, <1>4 DEF Received, Synchronises

LEMMA StepKinds ==
  ASSUME Next
  PROVE  /\ Noted
         /\ \/ SenderClock /\ ReceiverClock /\ Skewed(0)
            \/ SenderClock /\ ReceiverStays /\ Skewed(1) /\ skew < MaxSkew
            \/ SenderStays /\ ReceiverClock /\ Skewed(-1) /\ skew > -MaxSkew
BY DEF Next, BothClocks, SenderGains, ReceiverGains, SenderStays, ReceiverStays

LEMMA AllPlaces ==
  ASSUME LinkTyped, EndsInv, txSta # "idle", rxSta # "idle"
  PROVE  Places
<1>1. LastBit \in Nat
  BY UartAssumption DEF LastBit
<1> QED
  BY <1>1, SenderPlace, ReceiverPlace DEF EndsInv, Places, LinkTyped, TypeOK

(* While the line is high nothing is heard.                                 *)
LEMMA HearsNothing ==
  ASSUME LinkTyped, EndsInv, ReceiverClock \/ ReceiverStays, rxSta = "idle", rxIn = 1
  PROVE  /\ ReceiverInv' /\ ~rxParityErr' /\ rxSta' = "idle"
         /\ ~Received /\ ~Synchronises
<1>1. CASE ReceiverClock
  BY <1>1, IdleReceiver DEF EndsInv, Received, Synchronises
<1>2. CASE ReceiverStays
  BY <1>2, ReceiverKept DEF EndsInv
<1> QED
  BY <1>1, <1>2

(* What is left of a frame is a stop bit.                                   *)
LEMMA SenderPlacePrimed ==
  ASSUME LinkTyped', SenderInv', txSta' # "idle"
  PROVE  (TxBit' = LastBit' + 1 => txSta' = "stop") /\ (TxBit' = 0 => txSta' = "start")
<1>1. txSta' \in {"start", "data", "parity", "stop"} /\ txIdx' \in 0 .. 7
  BY DEF LinkTyped, TypeOK, TxTypeOK
<1>2. LastBit' \in Nat /\ (ParityMode = 0 => LastBit' = DataBits) /\ (ParityMode # 0 => LastBit' = DataBits + 1)
      /\ DataBits \in 1 .. 8
  BY UartAssumption DEF LastBit
<1>3. txSta' = "data" => txIdx' < DataBits
  BY DEF SenderInv
<1>4. txSta' = "parity" => ParityMode # 0
  BY DEF SenderInv
<1> QED
  BY <1>1, <1>2, <1>3, <1>4 DEF TxBit

LEMMA StartMargins ==
  ASSUME SamplesInBit, LinkTyped
  PROVE  ClksPerTick + MaxSkew + skew + 3 < BitClks /\ ClksPerTick + 3 < BitClks
BY Margins DEF LinkTyped, TypeOK

(* The start bit is not over so soon.                                       *)
LEMMA StartGoesOn ==
  ASSUME SamplesInBit, LinkTyped, LinkTyped', EndsInv, SenderClock, txSta = "start", TxPos + 1 < BitClks
  PROVE  /\ SenderInv' /\ Front' = Front /\ txLine' = 0 /\ txSta' = "start"
         /\ TxBit' = 0 /\ TxPos \in Nat /\ TxPos' = TxPos + 1
<1>1. TxBit = 0 /\ LastBit \in Nat
  BY UartAssumption DEF TxBit, LastBit
<1>2. SenderInv' /\ Front' = Front /\ txLine' = ValueOf(0) /\ TxPos \in Nat
      /\ (SenderGoesOn \/ NextBitBegins \/ FrameEnds)
  BY <1>1, SenderMoves DEF EndsInv, SamplesInBit
<1>3. SenderGoesOn
  BY <1>1, <1>2, Times DEF NextBitBegins, FrameEnds
<1>4. txSta' # "idle" /\ TxBit' = 0 /\ TxPos' = TxPos + 1
  BY <1>1, <1>3 DEF SenderGoesOn
<1>5. txSta' = "start"
  BY <1>2, <1>4, SenderPlacePrimed
<1> QED
  BY <1>2, <1>4, <1>5 DEF ValueOf

LEMMA WaitingNext ==
  ASSUME SamplesInBit, LinkTyped, LinkTyped', EndsInv, Waiting, Next
  PROVE  EndsInv' /\ Phase' /\ Delivers
<1>1. Noted /\ (SenderClock \/ SenderStays) /\ (ReceiverClock \/ ReceiverStays)
  BY StepKinds
<1>2. rxSta = "idle" /\ rxIn = 1 /\ txLine = 1
  BY DEF Waiting
<1>3. ReceiverInv' /\ ~rxParityErr' /\ rxSta' = "idle" /\ ~Received
  BY <1>1, <1>2, HearsNothing
<1>4. rxIn' = 1
  BY <1>1, <1>2, IdleReceiver, ReceiverKept DEF EndsInv
<1>5. got \in BOOLEAN /\ txDone \in BOOLEAN
  BY DEF LinkTyped, TypeOK, TxTypeOK
<1>6. got' <=> got /\ ~Popped
  <2>1. got' = ((got \/ Received) /\ ~Popped)
    BY <1>1 DEF Noted
  <2> QED
    BY ONLY <1>3, <1>5, <2>1, Zenon
<1>7. CASE SenderStays
  <2>1. SenderInv' /\ ~Popped /\ UNCHANGED <<txSta, txLine, txDone>>
    BY <1>7, SenderKept DEF EndsInv
  <2>2. Waiting'
    BY <1>2, <1>3, <1>4, <1>6, <2>1 DEF Waiting
  <2> QED
    BY <1>3, <2>1, <2>2 DEF EndsInv, Phase, Delivers
<1>8. CASE SenderClock /\ txSta = "idle"
  <2>1. /\ SenderInv' /\ txLine' = 1 /\ ~txDone'
        /\ txDone => txSta' = "idle" /\ q_rd_ptr' # q_rd_ptr /\ ~q_empty
        /\ \/ txSta' = "idle"
           \/ txSta' = "start" /\ ~txDone /\ TxPos' \in 0 .. ClksPerTick - 1
    BY <1>8, IdleSender DEF EndsInv
  <2>2. got <=> txDone
    BY <1>8 DEF Waiting
  <2>3. Popped <=> txDone
    BY <2>1 DEF Popped
  <2>4. ~got'
    BY <1>6, <2>2, <2>3
  <2>5. Waiting' \/ Latched'
    <3>1. CASE txSta' = "idle"
      BY <1>3, <1>4, <2>1, <2>4, <3>1 DEF Waiting
    <3>2. CASE txSta' = "start" /\ TxPos' \in 0 .. ClksPerTick - 1
      <4>1. TxPos' < ClksPerTick
        BY <3>2, LinkAssumption
      <4> QED
        BY <1>3, <1>4, <2>1, <2>4, <3>2, <4>1 DEF Latched
    <3> QED
      BY <2>1, <3>1, <3>2
  <2> QED
    BY <1>3, <2>1, <2>2, <2>3, <2>5 DEF EndsInv, Phase, Delivers
<1>9. CASE SenderClock /\ txSta = "stop"
  <2>1. TxBit = LastBit + 1 /\ LastBit \in Nat /\ LastBit' = LastBit /\ got /\ ~txDone
    BY <1>9, UartAssumption DEF TxBit, LastBit, Waiting, EndsInv, SenderInv
  <2>2. SenderInv' /\ txLine' = ValueOf(TxBit) /\ (SenderGoesOn \/ FrameEnds)
    BY <1>9, <2>1, SenderMoves DEF EndsInv, SamplesInBit, NextBitBegins
  <2>3. txLine' = 1
    BY <2>1, <2>2, UartAssumption DEF ValueOf, LastBit
  <2>4. ~Popped /\ got'
    BY <1>6, <2>1 DEF Popped
  <2>5. Waiting'
    <3>1. CASE SenderGoesOn
      <4>1. txSta' # "idle" /\ TxBit' = LastBit' + 1
        BY <2>1, <3>1 DEF SenderGoesOn
      <4>2. txSta' = "stop"
        BY <2>2, <4>1, SenderPlacePrimed
      <4> QED
        BY <1>3, <1>4, <2>3, <2>4, <4>2 DEF Waiting
    <3>2. CASE FrameEnds
      BY <1>3, <1>4, <2>3, <2>4, <3>2 DEF FrameEnds, Waiting
    <3> QED
      BY <2>2, <3>1, <3>2
  <2> QED
    BY <1>3, <2>2, <2>4, <2>5 DEF EndsInv, Phase, Delivers
<1> QED
  BY <1>1, <1>7, <1>8, <1>9 DEF Waiting

LEMMA LatchedNext ==
  ASSUME SamplesInBit, LinkTyped, LinkTyped', EndsInv, Latched, Next
  PROVE  EndsInv' /\ Phase' /\ Delivers
<1>1. Noted /\ (SenderClock \/ SenderStays) /\ (ReceiverClock \/ ReceiverStays)
  BY StepKinds
<1>2. rxSta = "idle" /\ rxIn = 1 /\ txLine = 1 /\ ~got /\ txSta = "start" /\ TxPos < ClksPerTick
  BY DEF Latched
<1>3. ReceiverInv' /\ ~rxParityErr' /\ rxSta' = "idle" /\ ~Received
  BY <1>1, <1>2, HearsNothing
<1>4. rxIn' = 1
  BY <1>1, <1>2, IdleReceiver, ReceiverKept DEF EndsInv
<1>5. ~Popped /\ ~got'
  BY <1>1, <1>2, <1>3 DEF Noted, Popped, EndsInv, SenderInv
<1>6. CASE SenderStays
  <2>1. SenderInv' /\ UNCHANGED <<txSta, txLine, TxPos>>
    BY <1>6, SenderKept DEF EndsInv
  <2>2. Latched'
    BY <1>2, <1>3, <1>4, <1>5, <2>1 DEF Latched
  <2> QED
    BY <1>3, <1>5, <2>1, <2>2 DEF EndsInv, Phase, Delivers
<1>7. CASE SenderClock
  <2>1. TxPos + 1 < BitClks
    <3>1. TxPos \in Nat
      BY <1>2, SenderPlace, Times DEF EndsInv
    <3> QED
      BY <1>2, <3>1, StartMargins, Margins
  <2>2. SenderInv' /\ txLine' = 0 /\ txSta' = "start" /\ TxPos \in Nat /\ TxPos' = TxPos + 1
    BY <1>2, <1>7, <2>1, StartGoesOn
  <2>3. skew' \in -MaxSkew .. MaxSkew
    BY DEF LinkTyped, TypeOK
  <2>4. TxPos' >= 1 /\ TxPos' <= ClksPerTick + MaxSkew + skew'
    <3>1. \A q \in Nat, s \in -MaxSkew .. MaxSkew :
            q < ClksPerTick => q + 1 >= 1 /\ q + 1 <= ClksPerTick + MaxSkew + s
      BY LinkAssumption
    <3> QED
      BY ONLY <1>2, <2>2, <2>3, <3>1
  <2>5. Starting'
    BY <1>3, <1>4, <1>5, <2>2, <2>4 DEF Starting
  <2> QED
    BY <1>3, <1>5, <2>2, <2>5 DEF EndsInv, Phase, Delivers
<1> QED
  BY <1>1, <1>6, <1>7

LEMMA StartingSender ==
  ASSUME SamplesInBit, LinkTyped, LinkTyped', EndsInv, Starting, SenderClock \/ SenderStays
  PROVE  /\ SenderInv' /\ Front' = Front /\ ~Popped
         /\ txSta' = "start" /\ txLine' = 0 /\ TxBit' = 0
         /\ TxPos \in Nat /\ TxPos' \in Nat
         /\ SenderStays => TxPos' = TxPos
         /\ SenderClock => TxPos' = TxPos + 1
         /\ TxPos + 2 <= BitClks
<1>1. txSta = "start" /\ txLine = 0 /\ ~txDone /\ TxBit = 0
  BY DEF Starting, EndsInv, SenderInv, TxBit
<1>2. TxPos \in Nat
  BY <1>1, SenderPlace, Times DEF EndsInv
<1>3. TxPos + 2 <= BitClks
  <2>1. TxPos <= ClksPerTick + MaxSkew + skew + 1
    <3>1. \A q \in Nat, s \in -MaxSkew .. MaxSkew :
            q <= ClksPerTick + MaxSkew + s => q <= ClksPerTick + MaxSkew + s + 1
      BY LinkAssumption
    <3> QED
      BY <1>2, <3>1 DEF Starting, LinkTyped, TypeOK
  <2>2. \A q \in Nat, s \in -MaxSkew .. MaxSkew :
          q <= ClksPerTick + MaxSkew + s + 1 => q + 2 <= BitClks
    BY Margins
  <2> QED
    BY <1>2, <2>1, <2>2 DEF LinkTyped, TypeOK
<1>4. ~Popped
  BY <1>1 DEF Popped
<1>5. CASE SenderClock
  <2>1. TxPos + 1 < BitClks
    BY <1>2, <1>3, Times
  <2>2. /\ SenderInv' /\ Front' = Front /\ txLine' = 0 /\ txSta' = "start"
        /\ TxBit' = 0 /\ TxPos' = TxPos + 1
    BY <1>1, <1>5, <2>1, StartGoesOn
  <2>3. ~SenderStays
    <3>1. TxPos' # TxPos
      BY <1>2, <2>2
    <3> QED
      BY <3>1, SenderKept DEF EndsInv
  <2> QED
    BY <1>2, <1>3, <1>4, <2>2, <2>3
<1>6. CASE SenderStays
  <2>1. SenderInv' /\ UNCHANGED <<Front, TxBit, TxPos, txSta, txLine>>
    BY <1>6, SenderKept DEF EndsInv
  <2>2. ~SenderClock
    <3>1. ASSUME SenderClock PROVE FALSE
      <4>1. TxPos + 1 < BitClks
        BY <1>2, <1>3, Times
      <4>2. TxPos' = TxPos + 1
        BY <1>1, <3>1, <4>1, StartGoesOn
      <4> QED
        BY <1>2, <2>1, <4>2
    <3> QED
      BY <3>1
  <2> QED
    BY <1>1, <1>2, <1>3, <1>4, <1>6, <2>1, <2>2
<1> QED
  BY <1>5, <1>6

(* The receiver begins when it sees the start bit, at the edge of a tick   *)
(* of its own: the ends are in the same frame from then on.                 *)
LEMMA StartSeen ==
  ASSUME SamplesInBit, LinkTyped, LinkTyped', EndsInv, Starting, SenderClock \/ SenderStays,
         ReceiverClock, rxIn = 0, skew' = 0, ~got'
  PROVE  ReceiverInv' /\ ~rxParityErr' /\ ~rxDone' /\ Synced'
<1>1. /\ ReceiverInv' /\ rxIn' = txLine /\ ~rxDone' /\ ~rxParityErr'
      /\ rxSta' = "start" /\ RxBit' = 0 /\ Samples' = 0
      /\ RxPos' \in Int /\ RxPos' >= -HalfClks /\ RxPos' < ClksPerTick - HalfClks
  BY IdleReceiver DEF EndsInv, Starting
<1>2. /\ Front' = Front /\ txSta' = "start" /\ txLine' = 0 /\ TxBit' = 0
      /\ TxPos \in Nat /\ TxPos' \in Nat /\ TxPos' \in {TxPos, TxPos + 1} /\ TxPos + 2 <= BitClks
  BY StartingSender
<1>3. txLine = 0 /\ TxPos >= 1 /\ skew \in -MaxSkew .. MaxSkew /\ TxPos <= ClksPerTick + MaxSkew + skew + 1
  BY DEF Starting, LinkTyped, TypeOK
<1>4. LastBit' = LastBit /\ BitClks' = BitClks /\ LeadMin' = LeadMin /\ LeadMax' = LeadMax
  BY DEF LastBit, BitClks, LeadMin, LeadMax, HalfClks, HalfBit
<1>5. \A p, q \in Nat, r \in Int, s \in -MaxSkew .. MaxSkew :
        q \in {p, p + 1} /\ p >= 1 /\ p <= ClksPerTick + MaxSkew + s + 1 /\ r >= -HalfClks /\ r < ClksPerTick - HalfClks
        => /\ q >= 1 /\ LeadMin + 0 <= q - r /\ q - r <= LeadMax + 0
           /\ LeadMin - MaxSkew - 1 <= p - r /\ p - r <= LeadMax + MaxSkew - 1
  BY Margins
<1>6. /\ TxPos' >= 1 /\ LeadMin + 0 <= TxPos' - RxPos' /\ TxPos' - RxPos' <= LeadMax + 0
      /\ LeadMin - MaxSkew - 1 <= TxPos - RxPos' /\ TxPos - RxPos' <= LeadMax + MaxSkew - 1
  BY ONLY <1>1, <1>2, <1>3, <1>5
<1>7. Near(TxBit, TxPos, LeadMin + skew, LeadMax + skew)'
  BY ONLY <1>1, <1>2, <1>4, <1>6, skew' = 0 DEF Near
<1>8. txLine' = ValueOf(LineBit)'
  <2>1. LineBit' = 0
    BY <1>2, <1>6 DEF LineBit
  <2> QED
    BY <1>2, <2>1 DEF ValueOf
<1>9. Hearing'
  <2>1. PICK p : p = TxPos
    OBVIOUS
  <2>2. p \in Nat /\ p >= 1 /\ p <= BitClks /\ p <= TxPos'
    BY <1>2, <1>3, <2>1, Times
  <2>3. Near(0, p, LeadMin - MaxSkew - 1, LeadMax + MaxSkew - 1)'
    BY <1>1, <1>4, <1>6, <2>1 DEF Near
  <2>4. HeardAt(0, p)'
    BY <1>2, <1>4, <2>2, <2>3 DEF HeardAt
  <2>5. rxIn' = ValueOf(0)'
    BY <1>1, <1>3 DEF ValueOf
  <2> QED
    BY <2>2, <2>4, <2>5 DEF Hearing
<1>10. GotSoFar'
  BY <1>1, UartAssumption DEF GotSoFar
<1> QED
  BY <1>1, <1>2, <1>6, <1>7, <1>8, <1>9, <1>10 DEF Synced

LEMMA StartingNext ==
  ASSUME SamplesInBit, LinkTyped, LinkTyped', EndsInv, Starting, Next
  PROVE  EndsInv' /\ Phase' /\ Delivers
<1>1. /\ Noted /\ (SenderClock \/ SenderStays) /\ (ReceiverClock \/ ReceiverStays)
      /\ \/ SenderClock /\ ReceiverClock /\ Skewed(0)
         \/ SenderClock /\ ReceiverStays /\ Skewed(1)
         \/ SenderStays /\ ReceiverClock /\ Skewed(-1)
  BY StepKinds
<1>2. rxSta = "idle" /\ ~got /\ txLine = 0 /\ rxIn \in {0, 1} /\ skew \in -MaxSkew .. MaxSkew
  BY DEF Starting, LinkTyped, TypeOK, RxTypeOK, Bit
<1>3. /\ SenderInv' /\ ~Popped /\ txSta' = "start" /\ txLine' = 0
      /\ TxPos \in Nat /\ TxPos' \in Nat
      /\ SenderStays => TxPos' = TxPos
      /\ SenderClock => TxPos' = TxPos + 1
  BY <1>1, StartingSender
<1>4. TxPos >= 1 /\ (rxIn = 1 => TxPos <= ClksPerTick + MaxSkew + skew)
                 /\ (rxIn # 1 => TxPos <= ClksPerTick + MaxSkew + skew + 1)
  BY DEF Starting
<1>5. \A p \in Nat, s \in -MaxSkew .. MaxSkew :
        LET most == ClksPerTick + MaxSkew
        IN  /\ p >= 1 => p + 1 >= 1
            /\ p <= most + s => /\ p + 1 <= most + s + 1 /\ p + 1 <= most + (s + 1)
                                /\ p <= most + (s + (-1)) + 1
            /\ p <= most + s + 1 => p + 1 <= most + (s + 1) + 1
            /\ s + 0 = s
  BY LinkAssumption
<1>6. CASE rxIn = 1
  <2>1. ReceiverInv' /\ ~rxParityErr' /\ rxSta' = "idle" /\ ~Received /\ ~Synchronises
    BY <1>1, <1>2, <1>6, HearsNothing
  <2>2. ~got'
    BY <1>1, <1>2, <2>1 DEF Noted
  <2>3. Starting'
    <3>1. CASE SenderClock /\ ReceiverClock /\ Skewed(0)
      <4>1. rxIn' = 0 /\ skew' = skew /\ TxPos' = TxPos + 1
        BY <1>2, <1>3, <1>5, <1>6, <2>1, <3>1, IdleReceiver DEF Skewed, EndsInv
      <4>2. TxPos' >= 1 /\ TxPos' <= ClksPerTick + MaxSkew + skew' + 1
        BY <1>2, <1>3, <1>4, <1>5, <1>6, <4>1
      <4> QED
        BY <1>3, <2>1, <2>2, <4>1, <4>2 DEF Starting
    <3>2. CASE SenderClock /\ ReceiverStays /\ Skewed(1)
      <4>1. rxIn' = 1 /\ skew' = skew + 1 /\ TxPos' = TxPos + 1
        BY <1>3, <1>6, <2>1, <3>2, ReceiverKept DEF Skewed, EndsInv
      <4>2. TxPos' >= 1 /\ TxPos' <= ClksPerTick + MaxSkew + skew'
        BY <1>2, <1>3, <1>4, <1>5, <1>6, <4>1
      <4> QED
        BY <1>3, <2>1, <2>2, <4>1, <4>2 DEF Starting
    <3>3. CASE SenderStays /\ ReceiverClock /\ Skewed(-1)
      <4>1. rxIn' = 0 /\ skew' = skew + (-1) /\ TxPos' = TxPos
        BY <1>2, <1>3, <1>6, <2>1, <3>3, IdleReceiver DEF Skewed, EndsInv
      <4>2. TxPos' >= 1 /\ TxPos' <= ClksPerTick + MaxSkew + skew' + 1
        BY <1>2, <1>3, <1>4, <1>5, <1>6, <4>1
      <4> QED
        BY <1>3, <2>1, <2>2, <4>1, <4>2 DEF Starting
    <3> QED
      BY <1>1, <3>1, <3>2, <3>3
  <2> QED
    BY <1>3, <2>1, <2>3 DEF EndsInv, Phase, Delivers
<1>7. CASE rxIn = 0 /\ ReceiverClock
  <2>1. rxSta' = "start" /\ ~rxDone'
    BY <1>2, <1>7, IdleReceiver DEF EndsInv
  <2>2. Synchronises /\ ~Received
    BY <1>2, <2>1 DEF Synchronises, Received
  <2>3. ~got'
    BY <1>1, <1>2, <2>2 DEF Noted
  <2>4. skew' = 0
    BY <1>1, <2>2 DEF Skewed
  <2>5. ReceiverInv' /\ ~rxParityErr' /\ Synced'
    BY <1>1, <1>7, <2>3, <2>4, StartSeen
  <2> QED
    BY <1>3, <2>2, <2>5 DEF EndsInv, Phase, Delivers
<1>8. CASE rxIn = 0 /\ ReceiverStays
  <2>1. /\ ReceiverInv' /\ ~rxParityErr' /\ rxSta' = "idle" /\ rxIn' = 0
        /\ ~Received /\ ~Synchronises
    BY <1>2, <1>8, ReceiverKept DEF EndsInv
  <2>2. ~got'
    BY <1>1, <1>2, <2>1 DEF Noted
  <2>3. CASE ReceiverClock
    BY <1>2, <1>8, <2>1, <2>3, IdleReceiver DEF EndsInv
  <2>4. CASE SenderClock /\ Skewed(1)
    <3>1. skew' = skew + 1 /\ TxPos' = TxPos + 1
      BY <1>3, <2>1, <2>4 DEF Skewed
    <3>2. TxPos' >= 1 /\ TxPos' <= ClksPerTick + MaxSkew + skew' + 1
      BY <1>2, <1>3, <1>4, <1>5, <1>8, <3>1
    <3>3. Starting'
      BY <1>3, <2>1, <2>2, <3>2 DEF Starting
    <3> QED
      BY <1>3, <2>1, <3>3 DEF EndsInv, Phase, Delivers
  <2> QED
    BY <1>1, <2>3, <2>4
<1> QED
  BY <1>1, <1>2, <1>6, <1>7, <1>8

(* A receiver in step with the sender samples the bits of the front.        *)
LEMMA SamplesFront ==
  ASSUME SamplesInBit, ParityMode # 2, LinkTyped, EndsInv, Synced, Places, ReceiverClock,
         ReceiverGoesOn \/ BitIsOver, Front' = Front
  PROVE  rxSta' # "idle" /\ ~rxDone' /\ ~rxParityErr' /\ GotSoFar'
<1>1. ReceiverGoesOn \/ ((TakesDataBit \/ ChecksParity) /\ BitIsOver) \/ FrameIsIn
  BY ReceiverMoves DEF EndsInv, Synced, SamplesInBit
<1>2. ~FrameIsIn
  BY DEF FrameIsIn, ReceiverGoesOn, BitIsOver, Places
<1>3. /\ \A i \in 0 .. DataBits - 1 : i + Samples >= DataBits => rxData[i] = Front[i + Samples - DataBits]
      /\ rxData \in [0 .. DataBits - 1 -> Bit] /\ Front \in [0 .. DataBits - 1 -> Bit] /\ DataBits \in 1 .. 8
  BY UartAssumption, LinkAssumption
     DEF Synced, GotSoFar, LinkTyped, TypeOK, RxTypeOK, TxFifo!TypeOK, Data, Front
<1>4. CASE ReceiverGoesOn
  BY <1>3, <1>4 DEF ReceiverGoesOn, Unchecked, GotSoFar
<1>5. ASSUME BitIsOver PROVE rxIn = ValueOf(RxBit + 1) /\ RxBit \in Nat
  BY <1>5, HeardSampled DEF Synced, Hearing, Places
<1>6. CASE TakesDataBit /\ BitIsOver
  <2>1. /\ rxSta' # "idle" /\ ~rxDone' /\ ~rxParityErr'
        /\ RxBit < DataBits /\ Samples = RxBit /\ Samples' = RxBit + 1
        /\ rxData' = [i \in DOMAIN rxData |-> IF i = DataBits - 1 THEN rxIn ELSE rxData[i + 1]]
    BY <1>6 DEF TakesDataBit
  <2>2. RxBit \in Nat /\ rxIn = Front[RxBit]
    BY <1>3, <1>5, <1>6, <2>1 DEF ValueOf
  <2>3. ASSUME NEW i \in 0 .. DataBits - 1, i + (RxBit + 1) >= DataBits
        PROVE  rxData'[i] = Front[i + (RxBit + 1) - DataBits]
    <3>1. CASE i = DataBits - 1
      BY <1>3, <2>1, <2>2, <3>1
    <3>2. CASE i # DataBits - 1
      <4>1. i + 1 \in 0 .. DataBits - 1 /\ (i + 1) + Samples >= DataBits
        BY <1>3, <2>1, <2>2, <2>3, <3>2
      <4>2. rxData'[i] = rxData[i + 1] /\ rxData[i + 1] = Front[(i + 1) + Samples - DataBits]
        BY <1>3, <2>1, <3>2, <4>1
      <4> QED
        BY <1>3, <2>1, <2>2, <4>2
    <3> QED
      BY <3>1, <3>2
  <2>4. GotSoFar'
    BY <2>1, <2>3 DEF GotSoFar
  <2> QED
    BY <2>1, <2>4
<1>7. CASE ChecksParity /\ BitIsOver
  <2>1. /\ rxSta' # "idle" /\ ~rxDone' /\ rxData' = rxData
        /\ ParityMode # 0 /\ RxBit = DataBits /\ Samples = DataBits /\ Samples' = DataBits
        /\ rxParityErr' <=> rxIn # Expected
    BY <1>7 DEF ChecksParity
  <2>2. rxData = Front
    BY <1>3, <2>1
  <2>3. rxIn = ParityBit(Front)
    BY <1>3, <1>5, <1>7, <2>1 DEF ValueOf, BitIsOver, LastBit
  <2>4. ParityMode = 1
    BY <2>1, UartAssumption
  <2>5. ~rxParityErr'
    BY <2>1, <2>2, <2>3, <2>4 DEF Expected, ParityBit
  <2>6. GotSoFar'
    BY <1>3, <2>1 DEF GotSoFar
  <2> QED
    BY <2>1, <2>5, <2>6
<1> QED
  BY <1>1, <1>2, <1>4, <1>6, <1>7

(* At the end of the frame it has the whole of it, while the sender is in  *)
(* the stop bits.                                                           *)
LEMMA Completes ==
  ASSUME LinkTyped, EndsInv, Synced, Places, ReceiverClock, FrameIsIn, TxBit = LastBit + 1, TxPos >= 1
  PROVE  /\ rxSta' = "idle" /\ ~rxParityErr' /\ Received /\ rxData' = Front
         /\ TxFifo!Count > 0 /\ rxIn' = 1 /\ txLine = 1
<1>1. rxSta' = "idle" /\ rxDone' /\ ~rxParityErr' /\ rxData' = rxData /\ Samples = DataBits
  BY DEF FrameIsIn
<1>2. /\ \A i \in 0 .. DataBits - 1 : i + Samples >= DataBits => rxData[i] = Front[i + Samples - DataBits]
      /\ rxData \in [0 .. DataBits - 1 -> Bit] /\ Front \in [0 .. DataBits - 1 -> Bit] /\ DataBits \in 1 .. 8
  BY UartAssumption, LinkAssumption
     DEF Synced, GotSoFar, LinkTyped, TypeOK, RxTypeOK, TxFifo!TypeOK, Data, Front
<1>3. rxData = Front
  BY <1>1, <1>2
<1>4. Received
  BY <1>1 DEF Received, Synced, EndsInv, ReceiverInv
<1>5. TxFifo!Count > 0
  <2>1. ~q_empty
    BY DEF Synced, EndsInv, SenderInv
  <2> QED
    BY <2>1, LinkAssumption DEF LinkTyped, TypeOK, TxFifo!FlagsConservative, TxFifo!Count, TxFifo!TypeOK, TxFifo!Ptr
<1>6. txLine = 1
  <2>1. LineBit = LastBit + 1
    BY DEF LineBit
  <2>2. LastBit \in Nat /\ LastBit >= DataBits
    BY UartAssumption DEF LastBit
  <2> QED
    BY <2>1, <2>2, UartAssumption DEF Synced, ValueOf
<1>7. rxIn' = txLine
  BY DEF ReceiverClock, RxClock
<1> QED
  BY <1>1, <1>3, <1>4, <1>5, <1>6, <1>7

(* A sender in its frame drives the line with the bit it is in.             *)
LEMMA Drives ==
  ASSUME Places, SenderGoesOn \/ NextBitBegins, txLine' = ValueOf(TxBit), Front' = Front
  PROVE  txSta' # "idle" /\ (TxBit' = 0 => TxPos' >= 1) /\ txLine' = ValueOf(LineBit)'
<1>1. TxBit \in Nat /\ TxPos \in Nat
  BY Times DEF Places
<1>2. txSta' # "idle" /\ (TxBit' = 0 => TxPos' >= 1) /\ LineBit' = TxBit
  BY <1>1 DEF SenderGoesOn, NextBitBegins, LineBit
<1>3. LastBit' = LastBit /\ ParityBit(Front)' = ParityBit(Front)
  BY DEF LastBit, ParityBit, Xor
<1>4. ValueOf(LineBit)' = ValueOf(TxBit)
  BY <1>2, <1>3 DEF ValueOf
<1> QED
  BY <1>2, <1>4

LEMMA HearsLine ==
  ASSUME SamplesInBit, Synced, Places, ReceiverClock, ReceiverGoesOn \/ BitIsOver, Front' = Front,
         (TxBit' = TxBit /\ TxPos' = TxPos) \/ SenderGoesOn \/ NextBitBegins
  PROVE  Hearing'
<1>1. PICK b, p : b = LineBit /\ p = LinePos
  OBVIOUS
<1>2. b \in Int /\ p \in Nat /\ HeardAt(b, p)'
  BY <1>1, HeardNew DEF Synced
<1>3. rxIn' = ValueOf(b)
  BY <1>1 DEF Synced, ReceiverClock, RxClock
<1>4. ValueOf(b)' = ValueOf(b)
  BY ValueStays
<1> QED
  BY <1>2, <1>3, <1>4 DEF Hearing

LEMMA HearsAsBefore ==
  ASSUME SamplesInBit, Synced, Places, rxIn' = rxIn, RxBit' = RxBit, RxPos' = RxPos, Front' = Front,
         SenderGoesOn \/ NextBitBegins, skew < MaxSkew
  PROVE  Hearing'
<1>1. PICK b \in Int, p \in Nat : HeardAt(b, p) /\ rxIn = ValueOf(b)
  BY DEF Synced, Hearing
<1>2. HeardAt(b, p)'
  BY <1>1, HeardKept DEF Synced
<1>3. ValueOf(b)' = ValueOf(b)
  BY ValueStays
<1> QED
  BY <1>1, <1>2, <1>3 DEF Hearing

LEMMA SyncedNext ==
  ASSUME SamplesInBit, ParityMode # 2, LinkTyped, LinkTyped', EndsInv, Synced, Next
  PROVE  EndsInv' /\ Phase' /\ Delivers
<1>1. /\ Noted
      /\ \/ SenderClock /\ ReceiverClock /\ Skewed(0)
         \/ SenderClock /\ ReceiverStays /\ Skewed(1) /\ skew < MaxSkew
         \/ SenderStays /\ ReceiverClock /\ Skewed(-1) /\ skew > -MaxSkew
  BY StepKinds
<1>2. rxSta # "idle" /\ txSta # "idle" /\ ~got /\ ~txDone /\ skew \in Int /\ LeadMin \in Int /\ LeadMax \in Int
  BY Margins DEF Synced, EndsInv, SenderInv, LinkTyped, TypeOK
<1>3. Places
  BY <1>2, AllPlaces
<1>4. Near(TxBit, TxPos, LeadMin + skew, LeadMax + skew)
  BY DEF Synced
<1>5. ~Popped /\ ~Synchronises
  BY <1>2 DEF Popped, Synchronises
<1>6. ASSUME SenderClock
      PROVE  /\ SenderInv' /\ Front' = Front /\ txLine' = ValueOf(TxBit)
             /\ SenderGoesOn \/ NextBitBegins \/ FrameEnds
  BY <1>2, <1>6, SenderMoves DEF EndsInv, SamplesInBit
<1>7. ASSUME ReceiverClock
      PROVE  ReceiverInv' /\ (ReceiverGoesOn \/ BitIsOver \/ FrameIsIn)
  BY <1>2, <1>7, ReceiverMoves DEF EndsInv, SamplesInBit
<1>8. /\ LeadMin' = LeadMin /\ LeadMax' = LeadMax /\ LastBit' = LastBit
      /\ \A s \in Int : s + 0 = s /\ s + (-1) = s - 1
      /\ \A lead, s, n \in Int : lead + (s + n) = (lead + s) + n /\ lead + s \in Int
  BY <1>2 DEF LeadMin, LeadMax, HalfClks, HalfBit, LastBit
<1>9. ASSUME SenderInv', ReceiverInv', ~rxParityErr', ~rxDone', rxSta' # "idle", txSta' # "idle",
             TxBit' = 0 => TxPos' >= 1, txLine' = ValueOf(LineBit)', Hearing', GotSoFar',
             Near(TxBit, TxPos, LeadMin + skew, LeadMax + skew)'
      PROVE  EndsInv' /\ Phase' /\ Delivers
  <2>1. ~Received
    BY <1>9 DEF Received
  <2>2. ~got'
    BY <1>1, <1>2, <2>1 DEF Noted
  <2> QED
    BY <1>5, <1>9, <2>1, <2>2 DEF EndsInv, Phase, Synced, Delivers
<1>10. ASSUME SenderInv', ReceiverInv', ReceiverClock, FrameIsIn, TxBit = LastBit + 1, TxPos >= 1,
              txLine' = 1, (txSta' = "stop") \/ (txSta' = "idle" /\ txDone')
       PROVE  EndsInv' /\ Phase' /\ Delivers
  <2>1. /\ rxSta' = "idle" /\ ~rxParityErr' /\ Received /\ rxData' = Front
        /\ TxFifo!Count > 0 /\ rxIn' = 1
    BY <1>3, <1>10, Completes
  <2>2. got'
    BY <1>1, <1>5, <2>1 DEF Noted
  <2>3. Waiting'
    BY <1>10, <2>1, <2>2 DEF Waiting
  <2> QED
    BY <1>2, <1>5, <1>10, <2>1, <2>3 DEF EndsInv, Phase, Delivers, Front
<1>11. CASE SenderClock /\ ReceiverClock /\ Skewed(0)
  <2>1. skew' = skew
    BY <1>2, <1>5, <1>8, <1>11 DEF Skewed
  <2>2. CASE /\ SenderGoesOn \/ NextBitBegins
             /\ ReceiverGoesOn \/ BitIsOver
             /\ \A lo, hi \in Int : lo = LeadMin + skew /\ hi = LeadMax + skew => Near(TxBit, TxPos, lo, hi)'
    <3>1. Near(TxBit, TxPos, LeadMin + skew, LeadMax + skew)'
      <4>1. PICK lo \in Int, hi \in Int : lo = LeadMin + skew /\ hi = LeadMax + skew
        BY <1>2
      <4>2. Near(TxBit, TxPos, lo, hi)'
        BY <2>2, <4>1
      <4> QED
        BY <1>8, <2>1, <4>1, <4>2 DEF Near
    <3>2. rxSta' # "idle" /\ ~rxDone' /\ ~rxParityErr' /\ GotSoFar'
      BY <1>3, <1>6, <1>11, <2>2, SamplesFront
    <3>3. Hearing'
      BY <1>3, <1>6, <1>11, <2>2, HearsLine
    <3>4. txSta' # "idle" /\ (TxBit' = 0 => TxPos' >= 1) /\ txLine' = ValueOf(LineBit)'
      BY <1>3, <1>6, <1>11, <2>2, Drives
    <3> QED
      BY <1>6, <1>7, <1>9, <1>11, <3>1, <3>2, <3>3, <3>4
  <2>3. CASE FrameIsIn /\ TxBit = LastBit + 1 /\ TxPos >= 1 /\ (SenderGoesOn \/ FrameEnds)
    <3>1. txLine' = 1
      BY <1>3, <1>6, <1>11, <2>3, UartAssumption DEF ValueOf, LastBit
    <3>2. (txSta' = "stop") \/ (txSta' = "idle" /\ txDone')
      <4>1. CASE SenderGoesOn
        <5>1. txSta' # "idle" /\ TxBit' = LastBit' + 1
          BY <1>8, <2>3, <4>1 DEF SenderGoesOn
        <5> QED
          BY <1>6, <1>11, <5>1, SenderPlacePrimed
      <4> QED
        BY <2>3, <4>1 DEF FrameEnds
    <3> QED
      BY <1>6, <1>7, <1>10, <1>11, <2>3, <3>1, <3>2
  <2> QED
    BY <1>3, <1>4, <1>6, <1>7, <1>11, <2>2, <2>3, LeadBoth
<1>12. CASE SenderClock /\ ReceiverStays /\ Skewed(1) /\ skew < MaxSkew
  <2>1. skew' = skew + 1
    BY <1>5, <1>12 DEF Skewed
  <2>2. /\ ReceiverInv' /\ ~Received
        /\ UNCHANGED <<RxBit, RxPos, Samples, rxSta, rxData, rxDone, rxParityErr, rxIn>>
    BY <1>12, ReceiverKept DEF EndsInv
  <2>3. /\ SenderGoesOn \/ NextBitBegins
        /\ \A lo, hi \in Int :
             lo = LeadMin + skew + 1 /\ hi = LeadMax + skew + 1 => Near(TxBit, TxPos, lo, hi)'
    BY <1>3, <1>4, <1>6, <1>12, <2>2, LeadSender
  <2>4. Near(TxBit, TxPos, LeadMin + skew, LeadMax + skew)'
    <3>1. PICK lo \in Int, hi \in Int : lo = (LeadMin + skew) + 1 /\ hi = (LeadMax + skew) + 1
      BY <1>2
    <3>2. Near(TxBit, TxPos, lo, hi)'
      BY <2>3, <3>1
    <3>3. lo = LeadMin' + skew' /\ hi = LeadMax' + skew'
      BY <1>2, <1>8, <2>1, <3>1
    <3> QED
      BY <3>2, <3>3 DEF Near
  <2>5. Hearing'
    BY <1>3, <1>6, <1>12, <2>2, <2>3, HearsAsBefore
  <2>6. txSta' # "idle" /\ (TxBit' = 0 => TxPos' >= 1) /\ txLine' = ValueOf(LineBit)'
    BY <1>3, <1>6, <1>12, <2>3, Drives
  <2>7. GotSoFar' /\ ~rxDone' /\ ~rxParityErr' /\ rxSta' # "idle"
    <3>1. Front' = Front
      BY <1>6, <1>12
    <3> QED
      BY <1>2, <2>2, <3>1 DEF Synced, GotSoFar, EndsInv, ReceiverInv
  <2> QED
    BY <1>6, <1>9, <1>12, <2>2, <2>4, <2>5, <2>6, <2>7
<1>13. CASE SenderStays /\ ReceiverClock /\ Skewed(-1) /\ skew > -MaxSkew
  <2>1. skew' = skew + (-1)
    BY <1>5, <1>13 DEF Skewed
  <2>2. SenderInv' /\ UNCHANGED <<Front, TxBit, TxPos, txSta, txLine, txDone>>
    BY <1>13, SenderKept DEF EndsInv
  <2>3. CASE /\ ReceiverGoesOn \/ BitIsOver
             /\ \A lo, hi \in Int :
                  lo = LeadMin + skew - 1 /\ hi = LeadMax + skew - 1 => Near(TxBit, TxPos, lo, hi)'
    <3>1. Near(TxBit, TxPos, LeadMin + skew, LeadMax + skew)'
      <4>1. PICK lo \in Int, hi \in Int : lo = LeadMin + skew - 1 /\ hi = LeadMax + skew - 1
        BY <1>2
      <4>2. Near(TxBit, TxPos, lo, hi)'
        BY <2>3, <4>1
      <4>3. lo = LeadMin' + skew' /\ hi = LeadMax' + skew'
        BY <1>2, <1>8, <2>1, <4>1
      <4> QED
        BY <4>2, <4>3 DEF Near
    <3>2. rxSta' # "idle" /\ ~rxDone' /\ ~rxParityErr' /\ GotSoFar'
      BY <1>3, <1>13, <2>2, <2>3, SamplesFront
    <3>3. Hearing'
      BY <1>3, <1>13, <2>2, <2>3, HearsLine
    <3>4. (TxBit' = 0 => TxPos' >= 1) /\ txSta' # "idle"
      BY <1>2, <2>2 DEF Synced
    <3>5. txLine' = ValueOf(LineBit)'
      <4>1. LineBit' = LineBit
        BY <2>2 DEF LineBit
      <4>2. LastBit' = LastBit /\ ParityBit(Front)' = ParityBit(Front)
        BY <2>2 DEF LastBit, ParityBit, Xor
      <4>3. ValueOf(LineBit)' = ValueOf(LineBit)
        BY <2>2, <4>1, <4>2 DEF ValueOf
      <4> QED
        BY <2>2, <4>3 DEF Synced
    <3> QED
      BY <1>7, <1>9, <1>13, <2>2, <3>1, <3>2, <3>3, <3>4, <3>5
  <2>4. CASE FrameIsIn /\ TxBit = LastBit + 1 /\ TxPos >= 1
    <3>1. txSta' = "stop"
      BY <1>2, <2>2, <2>4, SenderPlace DEF EndsInv
    <3>2. txLine' = 1
      BY <1>3, <1>13, <2>2, <2>4, Completes
    <3> QED
      BY <1>7, <1>10, <1>13, <2>2, <2>4, <3>1, <3>2
  <2> QED
    BY <1>3, <1>4, <1>7, <1>13, <2>2, <2>3, <2>4, LeadReceiver
<1> QED
  BY <1>1, <1>11, <1>12, <1>13

LEMMA LinkInvInit == Init => LinkInv
<1> SUFFICES ASSUME Init PROVE LinkInv
  OBVIOUS
<1>1. LinkTyped
  BY LinkTypedInit
<1>2. txSta = "idle" /\ ~txDone /\ txLine = 1 /\ rxSta = "idle" /\ ~rxDone /\ ~rxParityErr /\ rxIn = 1 /\ ~got
  BY DEF Init, TxInit, RxInit
<1>3. SenderInv /\ ReceiverInv
  BY <1>2 DEF SenderInv, ReceiverInv
<1>4. Waiting
  BY <1>2 DEF Waiting
<1> QED
  BY <1>1, <1>2, <1>3, <1>4 DEF LinkInv, EndsInv, Phase

LEMMA LinkInvStep ==
  ASSUME SamplesInBit, ParityMode # 2, LinkInv, [Next]_vars
  PROVE  LinkInv' /\ (UNCHANGED vars \/ Delivers)
<1>1. LinkTyped'
  BY LinkTypedNext DEF LinkInv
<1>2. CASE Next
  BY <1>1, <1>2, WaitingNext, LatchedNext, StartingNext, SyncedNext DEF LinkInv, Phase
<1>3. CASE UNCHANGED vars
  <2>1. SenderStays /\ ReceiverStays /\ UNCHANGED <<skew, got>>
    BY <1>3 DEF vars, SenderStays, ReceiverStays
  <2>2. EndsInv'
    BY <2>1, SenderKept, ReceiverKept DEF LinkInv, EndsInv
  <2>3. /\ UNCHANGED <<Front, TxBit, TxPos, txSta, txLine, txDone>>
        /\ UNCHANGED <<RxBit, RxPos, Samples, rxSta, rxData, rxDone, rxParityErr, rxIn>>
    BY <2>1, SenderKept, ReceiverKept DEF LinkInv, EndsInv
  <2>4. /\ LeadMin' = LeadMin /\ LeadMax' = LeadMax /\ LastBit' = LastBit /\ BitClks' = BitClks
        /\ LineBit' = LineBit
    BY <2>3 DEF LeadMin, LeadMax, LastBit, BitClks, HalfClks, HalfBit, LineBit
  <2>5. (Waiting \/ Latched \/ Starting)' <=> (Waiting \/ Latched \/ Starting)
    BY ONLY <2>1, <2>3 DEF Waiting, Latched, Starting
  <2>6. Synced => Synced'
    <3> SUFFICES ASSUME Synced PROVE Synced'
      OBVIOUS
    <3>1. Near(TxBit, TxPos, LeadMin + skew, LeadMax + skew)' /\ GotSoFar'
      BY <2>1, <2>3, <2>4 DEF Synced, Near, GotSoFar
    <3>2. txLine' = ValueOf(LineBit)'
      <4>1. ParityBit(Front)' = ParityBit(Front)
        BY <2>3 DEF ParityBit, Xor
      <4> QED
        BY <2>3, <2>4, <4>1 DEF Synced, ValueOf
    <3>3. PICK b \in Int, p \in Nat : HeardAt(b, p) /\ rxIn = ValueOf(b)
      BY DEF Synced, Hearing
    <3>4. HeardAt(b, p)'
      BY <2>3, <2>4, <3>3 DEF HeardAt, Near
    <3>5. ValueOf(b)' = ValueOf(b)
      BY <2>3, ValueStays
    <3>6. Hearing'
      BY <2>3, <3>3, <3>4, <3>5 DEF Hearing
    <3> QED
      BY <2>1, <2>3, <3>1, <3>2, <3>6 DEF Synced
  <2>7. Phase'
    BY <2>5, <2>6 DEF LinkInv, Phase
  <2> QED
    BY <1>1, <1>3, <2>2, <2>7 DEF LinkInv
<1> QED
  BY <1>2, <1>3

(* When the clocks drift apart by less than the receiver's margin within a *)
(* frame, what it receives is the front of the transmit fifo, once, and    *)
(* before it is popped, without a parity error: whatever the numbers of    *)
(* data and stop bits, and with no parity or the odd one.                   *)
THEOREM DeliversFrontHolds ==
  ASSUME SamplesInBit, ParityMode # 2
  PROVE  Spec => DeliversFront
<1>1. LinkInv /\ [Next]_vars => LinkInv'
  BY LinkInvStep
<1>2. LinkInv /\ [Next]_vars =>
        [ /\ Received => ~got /\ TxFifo!Count > 0 /\ rxData' = q_data_array[q_rd_ptr]
          /\ Popped => got
          /\ ~rxParityErr' ]_vars
  BY LinkInvStep DEF Delivers
<1> QED
  BY <1>1, <1>2, LinkInvInit, PTL DEF Spec, DeliversFront
=============================================================================
