----------------------------- MODULE MemAccess -----------------------------
(***************************************************************************)
(* The memory-access stage (core/MAU.v).  A load or a store that arrives   *)
(* from the execute stage raises the stall request until the memory        *)
(* controller has served it.  A step is taken only when rdy is high and    *)
(* rst is low.                                                             *)
(*                                                                         *)
(* An input "in" is a record of what the execute stage presents: ma_we,    *)
(* ma_re, addr, width and mdata of the access, and we, waddr and wdata of  *)
(* the register write-back.                                                *)
(***************************************************************************)
EXTENDS Machine

CONSTANT Regs   (* register numbers, 0 .. 31 in the source *)

ASSUME RegsAssumption == Regs \subseteq Nat /\ 0 \in Regs

VARIABLES
  maSta,       (* sta: "idle" 00, "request" 10, "wait" 01 *)
  maReq,       (* ram_we, ram_re, ram_addr, ram_width, ram_wdata *)
  maOut,       (* we_out, waddr_out, wdata_out *)
  maStallReq

maVars == <<maSta, maReq, maOut, maStallReq>>

NoRequest == [we |-> FALSE, re |-> FALSE, addr |-> 0, width |-> "b", wdata |-> ZeroWord]

MaTypeOK ==
  /\ maSta \in {"idle", "request", "wait"}
  /\ maReq \in [we : BOOLEAN, re : BOOLEAN, addr : BusAddr, width : Width, wdata : Word]
  /\ maOut \in [we : BOOLEAN, waddr : Regs, wdata : Word]
  /\ maStallReq \in BOOLEAN

MaInit ==
  /\ maSta = "idle" /\ maReq = NoRequest
  /\ maOut = [we |-> FALSE, waddr |-> 0, wdata |-> ZeroWord]
  /\ maStallReq = FALSE

(* lb and lh extend the sign bit of the last byte read.  The others take   *)
(* the register as it is: the controller cleared it before reading.        *)
SignFill_x_TooLarge(byte) == IF 2 * byte >= ByteBase THEN ByteBase ELSE 0
SignFill(byte) == IF 2 * byte >= ByteBase THEN ByteBase - 1 ELSE 0
LoadValue(width, rdata) ==
  IF width \in {"w", "bu", "hu"} THEN rdata
  ELSE [i \in 0 .. 3 |-> IF i < BytesOf(width) THEN rdata[i]
                         ELSE SignFill(rdata[BytesOf(width) - 1])]

(* What the execute stage presents for a bubble.                           *)
NoAccess == [ma_we |-> FALSE, ma_re |-> FALSE, addr |-> 0, width |-> "b",
             mdata |-> ZeroWord, we |-> FALSE, waddr |-> 0, wdata |-> ZeroWord]

WriteBack(in) == [we |-> in.we, waddr |-> in.waddr, wdata |-> in.wdata]

(* The latch of the stage, with and without a memory access.               *)
StartAccess(in, stall) ==
  /\ maSta = "idle" /\ 3 \notin stall /\ (in.ma_we \/ in.ma_re)
  /\ maSta' = "request" /\ maStallReq' = TRUE
  /\ maReq' = [we |-> in.ma_we, re |-> in.ma_re, addr |-> in.addr,
               width |-> in.width, wdata |-> in.mdata]
  /\ maOut' = WriteBack(in)

PassThrough(in, stall) ==
  /\ maSta = "idle" /\ 3 \notin stall /\ ~in.ma_we /\ ~in.ma_re
  /\ maStallReq' = FALSE /\ maReq' = NoRequest
  /\ maOut' = WriteBack(in)
  /\ UNCHANGED maSta

(* Nothing happens in a stalled stage, nor while the controller is busy    *)
(* with the access.                                                        *)
Keep(ramBusy, stall) ==
  /\ IF maSta = "idle" THEN 3 \in stall ELSE maSta = "wait" /\ ramBusy
  /\ UNCHANGED maVars

(* Waiting for the controller to accept the access.                        *)
AwaitAccept(ramBusy) ==
  /\ maSta = "request"
  /\ maSta' = IF ramBusy THEN "wait" ELSE "request"
  /\ UNCHANGED <<maReq, maOut, maStallReq>>

(* The access is done: the stall is released and the request withdrawn.    *)
Finish(ramBusy, rdata) ==
  /\ maSta = "wait" /\ ~ramBusy
  /\ maSta' = "idle" /\ maStallReq' = FALSE
  /\ maReq' = [maReq EXCEPT !.we = FALSE, !.re = FALSE]
  /\ maOut' = IF maReq.re THEN [maOut EXCEPT !.wdata = LoadValue(maReq.width, rdata)] ELSE maOut

MaClock(in, rdata, ramBusy, stall) ==
  \/ StartAccess(in, stall)
  \/ PassThrough(in, stall)
  \/ Keep(ramBusy, stall)
  \/ AwaitAccept(ramBusy)
  \/ Finish(ramBusy, rdata)
=============================================================================
