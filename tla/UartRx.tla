------------------------------- MODULE UartRx -------------------------------
(***************************************************************************)
(* The receiver of common/uart/uart_rx.v.  It waits for the line to go     *)
(* low, half a bit to its middle, and then samples once in a bit.          *)
(***************************************************************************)
EXTENDS UartTx

VARIABLES
  rxSta,      (* q_state *)
  rxTicks,    (* q_oversample_tick_cnt *)
  rxData, rxIdx,
  rxDone,     (* q_done_tick *)
  rxParityErr,
  rxIn        (* q_rx, the line one clock ago *)

rxVars == <<rxSta, rxTicks, rxData, rxIdx, rxDone, rxParityErr, rxIn>>

RxTypeOK ==
  /\ rxSta \in {"idle", "start", "data", "parity", "stop"}
  /\ rxTicks \in 0 .. CounterSize - 1
  /\ rxData \in Data /\ rxIdx \in 0 .. 7
  /\ rxDone \in BOOLEAN /\ rxParityErr \in BOOLEAN /\ rxIn \in Bit

RxInit ==
  /\ rxSta = "idle" /\ rxTicks = 0
  /\ rxData = [i \in 0 .. DataBits - 1 |-> 0] /\ rxIdx = 0
  /\ rxDone = FALSE /\ rxParityErr = FALSE /\ rxIn = 1

RxIdle(tick) ==
  /\ rxSta = "idle"
  /\ IF rxIn = 0
     THEN rxSta' = "start" /\ rxTicks' = 0
     ELSE rxTicks' = Counted(rxTicks, tick) /\ UNCHANGED rxSta
  /\ rxDone' = FALSE /\ rxParityErr' = FALSE /\ UNCHANGED <<rxData, rxIdx>>

(* Half a bit, to the middle of the start bit.                             *)
HalfBit_x_WholeBit == Oversample - 1
HalfBit == (Oversample - 1) \div 2

RxStart(tick) ==
  /\ rxSta = "start"
  /\ IF tick /\ rxTicks = HalfBit
     THEN rxSta' = "data" /\ rxTicks' = 0 /\ rxIdx' = 0
     ELSE rxTicks' = Counted(rxTicks, tick) /\ UNCHANGED <<rxSta, rxIdx>>
  /\ rxDone' = FALSE /\ rxParityErr' = FALSE /\ UNCHANGED rxData

RxBitEnds(tick) == tick /\ rxTicks = Oversample - 1

Sample(tick) ==
  /\ rxSta = "data"
  /\ IF RxBitEnds(tick)
     THEN /\ rxData' = [i \in DOMAIN rxData |-> IF i = DataBits - 1 THEN rxIn ELSE rxData[i + 1]]
          /\ rxTicks' = 0
          /\ IF rxIdx = DataBits - 1
             THEN rxSta' = (IF ParityMode = 0 THEN "stop" ELSE "parity") /\ UNCHANGED rxIdx
             ELSE rxIdx' = rxIdx + 1 /\ UNCHANGED rxSta
     ELSE rxTicks' = Counted(rxTicks, tick) /\ UNCHANGED <<rxSta, rxData, rxIdx>>
  /\ rxDone' = FALSE /\ rxParityErr' = FALSE

Expected == IF ParityMode = 1 THEN 1 - Xor(rxData) ELSE Xor(rxData)

CheckParity(tick) ==
  /\ rxSta = "parity"
  /\ IF RxBitEnds(tick)
     THEN rxSta' = "stop" /\ rxTicks' = 0 /\ rxParityErr' = (rxIn # Expected)
     ELSE rxTicks' = Counted(rxTicks, tick) /\ rxParityErr' = FALSE /\ UNCHANGED rxSta
  /\ rxDone' = FALSE /\ UNCHANGED <<rxData, rxIdx>>

RxStop(tick) ==
  /\ rxSta = "stop"
  /\ rxDone' = (tick /\ rxTicks = StopBits * Oversample - 1)
  /\ rxSta' = IF rxDone' THEN "idle" ELSE "stop"
  /\ rxTicks' = Counted(rxTicks, tick)
  /\ rxParityErr' = FALSE /\ UNCHANGED <<rxData, rxIdx>>

RxClock(tick, line) ==
  /\ rxIn' = line
  /\ \/ RxIdle(tick)
     \/ RxStart(tick)
     \/ Sample(tick)
     \/ CheckParity(tick)
     \/ RxStop(tick)
=============================================================================
