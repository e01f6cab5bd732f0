------------------------------ MODULE UartLink ------------------------------
(***************************************************************************)
(* The sending half of one common/uart/uart.v wired to the receiving half  *)
(* of another: the transmit fifo, the transmitter, the line, the receiver, *)
(* and a baud clock (uart_baud_clk.v) on each side.  The two sides have    *)
(* clocks of their own: most steps are an edge of both, but one side may   *)
(* gain up to MaxSkew edges on the other between two start bits.  The      *)
(* writer of the fifo writes what it likes when it likes.                  *)
(***************************************************************************)
EXTENDS UartRx, Integers, Sequences

CONSTANTS
  TxSlots,      (* entries of the transmit fifo, 1024 in the source *)
  Sent,         (* the values written *)
  ClksPerTick,  (* clock edges in a tick, CLKS_PER_OVERSAMPLE_TICK *)
  MaxSkew

ASSUME LinkAssumption ==
  /\ TxSlots \in Nat /\ TxSlots >= 3
  /\ Sent \subseteq Data /\ ClksPerTick \in Nat \ {0} /\ MaxSkew \in Nat

VARIABLES
  q_rd_ptr, q_wr_ptr, q_empty, q_full, q_data_array,  (* the transmit fifo *)
  txCnt, rxCnt,  (* q_cnt of the two baud clocks *)
  skew,          (* edges the sender is ahead of the receiver *)
  got            (* history: the receiver has the value at the fifo's front *)

fifoVars == <<q_rd_ptr, q_wr_ptr, q_empty, q_full, q_data_array>>
vars == <<txVars, rxVars, fifoVars, txCnt, rxCnt, skew, got>>

TxFifo == INSTANCE Fifo WITH Slots <- TxSlots, Value <- Sent

TypeOK ==
  /\ TxTypeOK /\ RxTypeOK /\ TxFifo!TypeOK
  /\ txCnt \in 0 .. ClksPerTick - 1 /\ rxCnt \in 0 .. ClksPerTick - 1
  /\ skew \in -MaxSkew .. MaxSkew /\ got \in BOOLEAN

(* The two sides were reset at different times.                            *)
Init ==
  /\ TxInit /\ RxInit /\ TxFifo!Init
  /\ txCnt = 0 /\ rxCnt \in 0 .. ClksPerTick - 1
  /\ skew = 0 /\ got = FALSE

Tick_x_OneLate(cnt) == cnt = ClksPerTick
Tick(cnt) == cnt = ClksPerTick - 1
BaudClock(cnt) == IF Tick(cnt) THEN 0 ELSE cnt + 1

SenderClock ==
  /\ txCnt' = BaudClock(txCnt)
  /\ TxClock(Tick(txCnt), ~q_empty, q_data_array[q_rd_ptr])
  /\ \E wr_en \in BOOLEAN, d \in Sent : TxFifo!Clock(txDone, wr_en, d)

ReceiverClock ==
  /\ rxCnt' = BaudClock(rxCnt)
  /\ RxClock(Tick(rxCnt), txLine)

(* The value at the front leaves the fifo, a value reaches the receiver.   *)
Popped == txDone /\ ~q_empty /\ q_rd_ptr' # q_rd_ptr
Received == rxDone' /\ ~rxDone

(* The receiver takes its time anew from every start bit.                  *)
Synchronises == rxSta = "idle" /\ rxSta' = "start"
Skewed(by) == skew' = IF Synchronises THEN 0 ELSE skew + by
Noted == got' = ((got \/ Received) /\ ~Popped)

BothClocks == SenderClock /\ ReceiverClock /\ Skewed(0) /\ Noted

SenderGains ==
  /\ skew < MaxSkew
  /\ SenderClock /\ UNCHANGED <<rxVars, rxCnt>> /\ Skewed(1) /\ Noted

ReceiverGains ==
  /\ skew > -MaxSkew
  /\ ReceiverClock /\ UNCHANGED <<txVars, fifoVars, txCnt>> /\ Skewed(-1) /\ Noted

Next == BothClocks \/ SenderGains \/ ReceiverGains

(* Neither clock stops.                                                    *)
Spec == Init /\ [][Next]_vars /\ WF_vars(BothClocks)
-----------------------------------------------------------------------------
(* What arrives is the front of the transmit fifo, bit by bit and without  *)
(* a parity error; it arrives once, and it leaves the fifo only after it   *)
(* has arrived (uart_tx.v 104-117, uart.v 131-143).                        *)
DeliversFront ==
  [][ /\ Received => ~got /\ TxFifo!Count > 0 /\ rxData' = q_data_array[q_rd_ptr]
      /\ Popped => got
      /\ ~rxParityErr' ]_vars

(* The link does not stop while the fifo holds two values or more: it pops *)
(* one in the end (uart.v 111, uart_tx.v 163-171), and by DeliversFront    *)
(* the receiver has got it by then.                                        *)
KeepsSending == (TxFifo!Count >= 2) ~> txDone

(* "Write tx_data over serial connection" (uart.v 42): a value in the fifo *)
(* is sent in the end.                                                     *)
EveryValueSent == (TxFifo!Count > 0) ~> txDone

(* "0 = NONE, 1 = ODD, 2 = EVEN" (uart_tx.v 32, uart_rx.v 32): the two     *)
(* ends agree on each of the three modes.                                  *)
ParityAgrees == [][~rxParityErr']_vars
=============================================================================
