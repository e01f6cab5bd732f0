----------------------------- MODULE MemoryCtrl -----------------------------
(***************************************************************************)
(* The memory controller (core/Memory_Ctrl.v), which serves the fetch unit *)
(* and the memory-access stage over the byte-wide RAM, one request at a    *)
(* time and one byte per clock.  The control and the data block of the     *)
(* source are clocked together, so an action takes one step of both.       *)
(*                                                                         *)
(* A step is taken only when rdy is high and rst is low.  mem is the       *)
(* memory-access stage's request register, fetch is the fetch unit's, din  *)
(* is the byte on the bus.                                                 *)
(*                                                                         *)
(* Here and in the modules beside it, a definition named ..._x_... is not  *)
(* the code's: it is a slip, which a checked property must notice when it  *)
(* takes the code's place.                                                 *)
(***************************************************************************)
EXTENDS Machine

VARIABLES
  mcSta,     (* sta: "listen" 00, "read" 01, "write" 10, "stall" 11 *)
  now, cnt,  (* bytes done, bytes to do *)
  memBusy, instBusy,
  ramWr, ramA, ramDout,
  instData, memRdata

mcVars == <<mcSta, now, cnt, memBusy, instBusy, ramWr, ramA, ramDout, instData, memRdata>>

McTypeOK ==
  /\ mcSta \in {"listen", "read", "write", "stall"}
  /\ now \in Nat /\ cnt \in Nat
  /\ memBusy \in BOOLEAN /\ instBusy \in BOOLEAN
  /\ ramWr \in BOOLEAN /\ ramA \in BusAddr /\ ramDout \in Byte
  /\ instData \in Line /\ memRdata \in Word

McInit ==
  /\ mcSta = "listen" /\ now = 0 /\ cnt = 0
  /\ memBusy = FALSE /\ instBusy = FALSE
  /\ ramWr = FALSE /\ ramA = 0 /\ ramDout = 0
  /\ instData = ZeroLine /\ memRdata = ZeroWord

-----------------------------------------------------------------------------
(* Listening.  The bus is set up for a request even if there is none, and  *)
(* one of the two data registers is cleared.                               *)

ListenData(mem, fetch) ==
  /\ ramDout' = mem.wdata[0]
  /\ ramA' = IF mem.we \/ mem.re THEN mem.addr ELSE fetch.addr
  /\ memRdata' = IF mem.re THEN ZeroWord ELSE memRdata
  /\ instData' = IF mem.re THEN instData ELSE ZeroLine

(* {w1, w0, ~(w0 | w1)}.                                                   *)
WriteCount_x_LastByteLost(width) == IF width = "b" THEN 1 ELSE BytesOf(width) - 1
WriteCount(width) == BytesOf(width)

AcceptWrite_x_BusyTooLate(mem, fetch) ==
  /\ mcSta = "listen" /\ mem.we
  /\ mcSta' = "write" /\ now' = 1 /\ cnt' = WriteCount(mem.width)
  /\ ramWr' = TRUE
  /\ ListenData(mem, fetch)
  /\ UNCHANGED <<memBusy, instBusy>>

AcceptWrite(mem, fetch) ==
  /\ mcSta = "listen" /\ mem.we
  /\ mcSta' = "write" /\ now' = 1 /\ cnt' = WriteCount(mem.width)
  /\ memBusy' = TRUE /\ ramWr' = TRUE
  /\ ListenData(mem, fetch)
  /\ UNCHANGED instBusy

AcceptRead(mem, fetch) ==
  /\ mcSta = "listen" /\ ~mem.we /\ mem.re
  /\ mcSta' = "read" /\ now' = 0 /\ cnt' = BytesOf(mem.width)
  /\ memBusy' = TRUE /\ ramWr' = FALSE
  /\ ListenData(mem, fetch)
  /\ UNCHANGED instBusy

(* The memory-access stage goes first: a fetch waits while it asks.        *)
FetchMayStart(mem) == ~mem.we /\ ~mem.re

AcceptFetch_x_BusyTooLate(mem, fetch) ==
  /\ mcSta = "listen" /\ FetchMayStart(mem) /\ fetch.re
  /\ mcSta' = "read" /\ now' = 0 /\ cnt' = LineBytes
  /\ ramWr' = FALSE
  /\ ListenData(mem, fetch)
  /\ UNCHANGED <<memBusy, instBusy>>

AcceptFetch(mem, fetch) ==
  /\ mcSta = "listen" /\ FetchMayStart(mem) /\ fetch.re
  /\ mcSta' = "read" /\ now' = 0 /\ cnt' = LineBytes
  /\ instBusy' = TRUE /\ ramWr' = FALSE
  /\ ListenData(mem, fetch)
  /\ UNCHANGED memBusy

Listen(mem, fetch) ==
  /\ mcSta = "listen" /\ ~mem.we /\ ~mem.re /\ ~fetch.re
  /\ now' = 0 /\ cnt' = 0 /\ memBusy' = FALSE /\ instBusy' = FALSE
  /\ ramWr' = FALSE
  /\ ListenData(mem, fetch)
  /\ UNCHANGED mcSta

-----------------------------------------------------------------------------
(* Reading.  The address runs one byte ahead of the byte captured, because *)
(* the RAM registers it: the byte on the bus in the step that finds now    *)
(* at n is the one of address n - 1.                                       *)

(* The value of now the data block sees.  The control block assigns now    *)
(* with a blocking "=", so the two always blocks race in an event-driven   *)
(* simulator; in the synthesised design both read the register as it was.  *)
NowSeen_x_BlockingAssign == now + 1
NowSeen == now

(* The byte on the bus goes to index now - 1.  At now = 0 the index wraps  *)
(* to one outside the register, and nothing is written.                    *)
Capture(reg, top, din) ==
  IF NowSeen > 0 /\ NowSeen - 1 <= top THEN [reg EXCEPT ![NowSeen - 1] = din] ELSE reg

AddressAhead_x_StopsEarly == NowSeen + 2 < cnt
AddressAhead == NowSeen + 1 < cnt

ReadData(din) ==
  /\ ramA' = IF AddressAhead THEN NextBus(ramA) ELSE ramA
  /\ instData' = IF instBusy THEN Capture(instData, LineBytes - 1, din) ELSE instData
  /\ memRdata' = IF instBusy THEN memRdata ELSE Capture(memRdata, 3, din)
  /\ UNCHANGED ramDout

ReadByte(din) ==
  /\ mcSta = "read" /\ now # cnt
  /\ now' = now + 1
  /\ ReadData(din)
  /\ UNCHANGED <<mcSta, cnt, memBusy, instBusy, ramWr>>

ReadDone(din) ==
  /\ mcSta = "read" /\ now = cnt
  /\ mcSta' = "stall" /\ now' = 0 /\ cnt' = 0
  /\ instBusy' = FALSE
  /\ memBusy' = IF instBusy THEN memBusy ELSE FALSE
  /\ ReadData(din)
  /\ UNCHANGED ramWr

-----------------------------------------------------------------------------
(* Writing.  The byte accepted in "listen" is byte 0; ram_wr stays high    *)
(* through the stall state, so the last byte is written twice.             *)

WriteByte(mem) ==
  /\ mcSta = "write" /\ now # cnt
  /\ now' = now + 1 /\ memBusy' = TRUE
  /\ ramDout' = mem.wdata[NowSeen]
  /\ ramA' = NextBus(ramA)
  /\ UNCHANGED <<mcSta, cnt, instBusy, ramWr, instData, memRdata>>

WriteDone ==
  /\ mcSta = "write" /\ now = cnt
  /\ mcSta' = "stall" /\ now' = 0 /\ memBusy' = FALSE
  /\ UNCHANGED <<cnt, instBusy, ramWr, ramA, ramDout, instData, memRdata>>

(* The stall state: the answer has been on the outputs for one cycle and   *)
(* is cleared, while the client withdraws its request.                     *)
Stall ==
  /\ mcSta = "stall"
  /\ mcSta' = "listen" /\ now' = 0 /\ cnt' = 0
  /\ memBusy' = FALSE /\ instBusy' = FALSE
  /\ ramWr' = FALSE /\ ramA' = 0 /\ ramDout' = 0
  /\ instData' = ZeroLine /\ memRdata' = ZeroWord

McClock(mem, fetch, din) ==
  \/ AcceptWrite(mem, fetch)
  \/ AcceptRead(mem, fetch)
  \/ AcceptFetch(mem, fetch)
  \/ Listen(mem, fetch)
  \/ ReadByte(din)
  \/ ReadDone(din)
  \/ WriteByte(mem)
  \/ WriteDone
  \/ Stall
=============================================================================
