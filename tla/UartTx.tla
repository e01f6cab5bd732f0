------------------------------- MODULE UartTx -------------------------------
(***************************************************************************)
(* The transmitter of common/uart/uart_tx.v: a start bit, the data bits    *)
(* from the lowest on, a parity bit unless ParityMode is 0, and the stop   *)
(* bits.  A bit lasts Oversample ticks of the baud clock.  The source has  *)
(* two parallel processes of registers q_ and their next values d_; here   *)
(* the next values are the primed variables.  (A definition named ..._x_...  *)
(* is not the code's: it is a slip that a checked property must notice     *)
(* when it takes the code's place.)                                        *)
(***************************************************************************)
EXTENDS Naturals, FiniteSets

CONSTANTS
  DataBits,     (* 8 in the source *)
  Oversample,   (* baud clock ticks in a bit, 16 *)
  StopBits,     (* 1, as hci.v instantiates it *)
  CounterSize,  (* values of the tick counter, 16: it has 4 bits *)
  ParityMode    (* 0 none, 1 odd, 2 even; hci.v has 1 *)

ASSUME UartAssumption ==
  /\ DataBits \in 1 .. 8 /\ Oversample \in Nat /\ Oversample >= 2
  /\ StopBits \in Nat \ {0} /\ CounterSize \in Nat /\ CounterSize >= Oversample
  /\ ParityMode \in 0 .. 2

Bit  == 0 .. 1
Data == [0 .. DataBits - 1 -> Bit]

(* The tick counter's next value when nothing resets it.                   *)
Counted(ticks, tick) == IF tick THEN (ticks + 1) % CounterSize ELSE ticks

Xor(data) == Cardinality({i \in DOMAIN data : data[i] = 1}) % 2

-----------------------------------------------------------------------------
VARIABLES
  txSta,     (* q_state *)
  txTicks,   (* q_baud_clk_tick_cnt *)
  txData, txIdx, txParity,
  txLine,    (* q_tx *)
  txDone     (* q_tx_done_tick *)

txVars == <<txSta, txTicks, txData, txIdx, txParity, txLine, txDone>>

TxTypeOK ==
  /\ txSta \in {"idle", "start", "data", "parity", "stop"}
  /\ txTicks \in 0 .. CounterSize - 1
  /\ txData \in Data /\ txIdx \in 0 .. 7 /\ txParity \in Bit
  /\ txLine \in Bit /\ txDone \in BOOLEAN

TxInit ==
  /\ txSta = "idle" /\ txTicks = 0
  /\ txData = [i \in 0 .. DataBits - 1 |-> 0] /\ txIdx = 0 /\ txParity = 0
  /\ txLine = 1 /\ txDone = FALSE

(* Even parity is the complement of the data, cut to one bit.              *)
ParityBit(data) == IF ParityMode = 2 THEN 1 - data[0] ELSE 1 - Xor(data)

(* A byte is not latched while the previous one is being popped.           *)
MayLatch_x_DuringDone(start) == start
MayLatch(start) == start /\ ~txDone

Idle(tick, start, data) ==
  /\ txSta = "idle" /\ txLine' = 1
  /\ IF MayLatch(start)
     THEN /\ txSta' = "start" /\ txTicks' = 0 /\ txData' = data
          /\ txParity' = IF ParityMode = 0 THEN txParity ELSE ParityBit(data)
     ELSE txTicks' = Counted(txTicks, tick) /\ UNCHANGED <<txSta, txData, txParity>>
  /\ txDone' = FALSE /\ UNCHANGED txIdx

(* The last tick of a bit.                                                 *)
TxBitEnds_x_OneLate(tick) == tick /\ txTicks = Oversample
TxBitEnds(tick) == tick /\ txTicks = Oversample - 1

Start(tick) ==
  /\ txSta = "start" /\ txLine' = 0
  /\ IF TxBitEnds(tick)
     THEN txSta' = "data" /\ txTicks' = 0 /\ txIdx' = 0
     ELSE txTicks' = Counted(txTicks, tick) /\ UNCHANGED <<txSta, txIdx>>
  /\ txDone' = FALSE /\ UNCHANGED <<txData, txParity>>

SendBit(tick) ==
  /\ txSta = "data" /\ txLine' = txData[0]
  /\ IF TxBitEnds(tick)
     THEN /\ txData' = [i \in DOMAIN txData |-> IF i = DataBits - 1 THEN 0 ELSE txData[i + 1]]
          /\ txIdx' = (txIdx + 1) % 8 /\ txTicks' = 0
          /\ txSta' = IF txIdx # DataBits - 1 THEN "data"
                      ELSE IF ParityMode = 0 THEN "stop" ELSE "parity"
     ELSE txTicks' = Counted(txTicks, tick) /\ UNCHANGED <<txSta, txData, txIdx>>
  /\ txDone' = FALSE /\ UNCHANGED txParity

Parity(tick) ==
  /\ txSta = "parity" /\ txLine' = txParity
  /\ IF TxBitEnds(tick)
     THEN txSta' = "stop" /\ txTicks' = 0
     ELSE txTicks' = Counted(txTicks, tick) /\ UNCHANGED txSta
  /\ txDone' = FALSE /\ UNCHANGED <<txData, txIdx, txParity>>

(* The stop bits are counted in one go.                                    *)
Stop(tick) ==
  /\ txSta = "stop" /\ txLine' = 1
  /\ txDone' = (tick /\ txTicks = StopBits * Oversample - 1)
  /\ txSta' = IF txDone' THEN "idle" ELSE "stop"
  /\ txTicks' = Counted(txTicks, tick)
  /\ UNCHANGED <<txData, txIdx, txParity>>

(* One clock; start is "the transmit fifo is not empty", data its front.   *)
TxClock(tick, start, data) ==
  \/ Idle(tick, start, data)
  \/ Start(tick)
  \/ SendBit(tick)
  \/ Parity(tick)
  \/ Stop(tick)
=============================================================================
