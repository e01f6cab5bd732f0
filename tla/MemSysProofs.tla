---------------------------- MODULE MemSysProofs ----------------------------
(***************************************************************************)
(* Proofs about MemSys for every size of RAM, line, cache and byte, every  *)
(* program, and every environment EnvAssumption allows: types and the      *)
(* handshake; then that the memory system changes the RAM only where a     *)
(* pending store says, and that a store reported done is in the RAM.       *)
(***************************************************************************)
EXTENDS MemSys, TLAPS

(* What the controller's counters and the clients' request lines hold in   *)
(* each state.                                                             *)
Counters ==
  /\ mcSta = "read" => now <= cnt
  /\ mcSta = "write" => 1 <= now /\ now <= cnt /\ cnt <= 4

Requests ==
  /\ (maStallReq <=> maSta # "idle")
  /\ (maReq.we \/ maReq.re <=> maSta # "idle")
  /\ ~(maReq.we /\ maReq.re)
  /\ mcSta = "write" => maReq.we
  /\ ServesMem /\ mcSta = "read" => maReq.re
  /\ (ifStallReq <=> ifSta \in {"request", "fill"})
  /\ (ifReq.re <=> ifSta \in {"request", "fill"})

(* Outside the lookup state the pc is an instruction's.                    *)
PcKnown == ifSta # "lookup" => pc \in FetchAddrs

(* The inductive invariant.                                                *)
IInv == TypeOK /\ PcKnown /\ Counters /\ Requests /\ Handshake

-----------------------------------------------------------------------------
(* The number of bytes of an access.                                       *)
LEMMA BytesOfWidth ==
  ASSUME NEW w \in Width
  PROVE  BytesOf(w) \in 1 .. 4
BY DEF BytesOf, Width

LEMMA InputsTyped ==
  ASSUME NEW in \in Presented
  PROVE  in \in Present /\ ~(in.ma_we /\ in.ma_re)
<1>1. CASE in \in Accesses
  BY <1>1, EnvAssumption
<1>2. CASE in = NoAccess
  BY <1>2, SizeAssumption, RegsAssumption
     DEF NoAccess, Present, BusAddr, Width, Word, Byte, ZeroWord
<1> QED
  BY <1>1, <1>2 DEF Presented

LEMMA AddressArithmetic ==
  ASSUME NEW a \in Nat
  PROVE  LineOf(a) \in Nat /\ IndexOf(a) \in 0 .. CacheLines - 1 /\ TagOf(a) \in Nat
<1>1. LineOf(a) \in Nat
  BY SizeAssumption DEF LineOf
<1> QED
  BY <1>1, CacheAssumption DEF IndexOf, TagOf

(* A word of a line is a word, at the address of an instruction.           *)
LEMMA WordOfLine ==
  ASSUME NEW line \in Line, NEW a \in FetchAddrs
  PROVE  WordAt(line, a) \in Word
<1>1. a \in Nat /\ BaseOf(a) \in Nat /\ BaseOf(a) <= a /\ a + 4 <= BaseOf(a) + LineBytes
  <2>1. a \in Nat
    BY EnvAssumption, SizeAssumption DEF CpuAddr
  <2>2. LineOf(a) \in Nat
    BY <2>1, AddressArithmetic
  <2>3. BaseOf(a) \in Nat
    BY <2>2, SizeAssumption DEF BaseOf
  <2> QED
    BY <2>1, <2>3, EnvAssumption
<1>2. \A i \in 0 .. 3 : a - BaseOf(a) + i \in 0 .. LineBytes - 1
  BY <1>1, SizeAssumption
<1> QED
  BY <1>2 DEF WordAt, Word, Line
-----------------------------------------------------------------------------
(* Each machine keeps its own types.                                       *)

LEMMA RamTyped ==
  ASSUME RamTypeOK, NEW a \in BusAddr, NEW wr \in BOOLEAN, NEW d \in Byte, RamClock(a, wr, d)
  PROVE  RamTypeOK'
<1>1. RamIndex(a) \in CpuAddr
  BY SizeAssumption DEF RamIndex, BusAddr, CpuAddr
<1> QED
  BY <1>1 DEF RamTypeOK, RamClock

LEMMA BusByteTyped ==
  ASSUME RamTypeOK, NEW a \in BusAddr, NEW io \in Byte
  PROVE  BusByte(a, io) \in Byte
BY DEF BusByte, RamTypeOK

LEMMA ZeroTyped == 0 \in Byte /\ ZeroWord \in Word /\ ZeroLine \in Line
BY SizeAssumption DEF Byte, ZeroWord, Word, ZeroLine, Line

(* A request register as the controller reads it.                          *)
MemRequest == [we : BOOLEAN, re : BOOLEAN, addr : BusAddr, width : Width, wdata : Word]
FetchRequest == [re : BOOLEAN, addr : BusAddr]

LEMMA ListenTyped ==
  ASSUME McTypeOK, NEW mem \in MemRequest, NEW fetch \in FetchRequest,
         ListenData(mem, fetch)
  PROVE  ramDout' \in Byte /\ ramA' \in BusAddr /\ memRdata' \in Word /\ instData' \in Line
BY ZeroTyped DEF ListenData, McTypeOK, MemRequest, FetchRequest, Word

LEMMA ReadTyped ==
  ASSUME McTypeOK, NEW din \in Byte, ReadData(din)
  PROVE  ramDout' \in Byte /\ ramA' \in BusAddr /\ memRdata' \in Word /\ instData' \in Line
<1>1. ramA' \in BusAddr
  BY SizeAssumption DEF ReadData, McTypeOK, NextBus, BusAddr
<1>2. memRdata' \in Word
  BY DEF ReadData, McTypeOK, Capture, NowSeen, Word
<1>3. instData' \in Line
  BY SizeAssumption DEF ReadData, McTypeOK, Capture, NowSeen, Line
<1> QED
  BY <1>1, <1>2, <1>3 DEF ReadData, McTypeOK

LEMMA McTyped ==
  ASSUME McTypeOK, Counters, NEW mem \in MemRequest, NEW fetch \in FetchRequest,
         NEW din \in Byte, McClock(mem, fetch, din)
  PROVE  McTypeOK' /\ Counters'
<1> USE DEF McTypeOK, Counters
<1>1. ASSUME AcceptWrite(mem, fetch) PROVE McTypeOK' /\ Counters'
  <2>1. BytesOf(mem.width) \in 1 .. 4
    BY BytesOfWidth DEF MemRequest
  <2> QED
    BY <1>1, <2>1, ListenTyped DEF AcceptWrite, WriteCount
<1>2. ASSUME AcceptRead(mem, fetch) PROVE McTypeOK' /\ Counters'
  <2>1. BytesOf(mem.width) \in 1 .. 4
    BY BytesOfWidth DEF MemRequest
  <2>2. ramDout' \in Byte /\ ramA' \in BusAddr /\ memRdata' \in Word /\ instData' \in Line
    BY <1>2, ListenTyped DEF AcceptRead
  <2>3. McTypeOK'
    <3>1. now' \in Nat /\ cnt' \in Nat
      BY <1>2, <2>1 DEF AcceptRead
    <3>2. mcSta' = "read" /\ memBusy' = TRUE /\ instBusy' = instBusy /\ ramWr' = FALSE
      BY <1>2 DEF AcceptRead
    <3> QED
      BY <2>2, <3>1, <3>2
  <2>4. Counters'
    BY <1>2, <2>1 DEF AcceptRead
  <2> QED
    BY <2>3, <2>4
<1>3. ASSUME AcceptFetch(mem, fetch) PROVE McTypeOK' /\ Counters'
  <2>1. ramDout' \in Byte /\ ramA' \in BusAddr /\ memRdata' \in Word /\ instData' \in Line
    BY <1>3, ListenTyped DEF AcceptFetch
  <2>2. McTypeOK'
    BY <1>3, <2>1, SizeAssumption DEF AcceptFetch
  <2>3. Counters'
    BY <1>3, SizeAssumption DEF AcceptFetch
  <2> QED
    BY <2>2, <2>3
<1>4. ASSUME Listen(mem, fetch) PROVE McTypeOK' /\ Counters'
  BY <1>4, ListenTyped DEF Listen
<1>5. ASSUME ReadByte(din) PROVE McTypeOK' /\ Counters'
  BY <1>5, ReadTyped DEF ReadByte
<1>6. ASSUME ReadDone(din) PROVE McTypeOK' /\ Counters'
  BY <1>6, ReadTyped DEF ReadDone
<1>7. ASSUME WriteByte(mem) PROVE McTypeOK' /\ Counters'
  <2>1. now \in 0 .. 3
    BY <1>7 DEF WriteByte
  <2>2. mem.wdata[now] \in Byte
    BY <2>1 DEF MemRequest, Word
  <2>3. ramA' \in BusAddr
    BY <1>7, SizeAssumption DEF WriteByte, NextBus, BusAddr
  <2> QED
    BY <1>7, <2>1, <2>2, <2>3 DEF WriteByte, NowSeen
<1>8. ASSUME WriteDone PROVE McTypeOK' /\ Counters'
  BY <1>8 DEF WriteDone
<1>9. ASSUME Stall PROVE McTypeOK' /\ Counters'
  <2>1. 0 \in BusAddr
    BY SizeAssumption DEF BusAddr
  <2> QED
    BY <1>9, <2>1, ZeroTyped DEF Stall
<1> QED
  BY <1>1, <1>2, <1>3, <1>4, <1>5, <1>6, <1>7, <1>8, <1>9 DEF McClock

(* The next pc the environment asks for is the one looked up.              *)
LEMMA NextPcChosen ==
  ASSUME NEW npc
  PROVE  NextPc(npc # NextPc(FALSE, npc), npc) = npc
BY DEF NextPc

LEMMA LookupTyped ==
  ASSUME IfTypeOK, NEW npc \in FetchAddrs
  PROVE  /\ npc \in CpuAddr /\ BaseOf(npc) \in BusAddr
         /\ WordAt(icache[IndexOf(npc)].data, npc) \in Word
<1>1. npc \in CpuAddr /\ npc \in Nat /\ BaseOf(npc) <= npc
  BY EnvAssumption, SizeAssumption DEF CpuAddr
<1>2. LineOf(npc) \in Nat /\ IndexOf(npc) \in 0 .. CacheLines - 1
  BY <1>1, AddressArithmetic
<1>3. BaseOf(npc) \in Nat
  BY <1>2, SizeAssumption DEF BaseOf
<1>4. BaseOf(npc) \in BusAddr
  BY <1>1, <1>3, SizeAssumption DEF BusAddr, CpuAddr
<1>5. icache[IndexOf(npc)].data \in Line
  BY <1>2 DEF IfTypeOK
<1> QED
  BY <1>1, <1>4, <1>5, WordOfLine

LEMMA FillTyped ==
  ASSUME IfTypeOK, pc \in FetchAddrs, NEW line \in Line, FillLine(line)
  PROVE  /\ inst' \in Word
         /\ icache' \in [0 .. CacheLines - 1 -> [valid : BOOLEAN, tag : Nat, data : Line]]
<1>1. pc \in Nat
  BY EnvAssumption, SizeAssumption DEF CpuAddr
<1>2. TagOf(pc) \in Nat
  BY <1>1, AddressArithmetic
<1>3. WordAt(line, pc) \in Word
  BY WordOfLine
<1> QED
  BY <1>2, <1>3 DEF FillLine, IfTypeOK

LEMMA IfTyped ==
  ASSUME IfTypeOK, PcKnown, NEW npc \in NextPcs, NEW line \in Line, NEW busy \in BOOLEAN,
         IfClock(npc # NextPc(FALSE, npc), npc, line, busy, StallNow)
  PROVE  IfTypeOK' /\ PcKnown'
<1> DEFINE looked == NextPc(npc # NextPc(FALSE, npc), npc)
<1>0. looked = npc
  BY NextPcChosen
<1> HIDE DEF looked
<1>1. ASSUME 0 \notin StallNow, LookupHit(looked) PROVE IfTypeOK' /\ PcKnown'
  <2>1. npc \in FetchAddrs
    BY <1>1 DEF NextPcs, LookupHit
  <2>2. /\ npc \in CpuAddr /\ BaseOf(npc) \in BusAddr
        /\ WordAt(icache[IndexOf(npc)].data, npc) \in Word
    BY <2>1, LookupTyped
  <2> QED
    BY <1>0, <1>1, <2>1, <2>2 DEF LookupHit, IfTypeOK, PcKnown
<1>2. ASSUME 0 \notin StallNow, LookupMiss(looked) PROVE IfTypeOK' /\ PcKnown'
  <2>1. npc \in FetchAddrs
    BY <1>2 DEF NextPcs, LookupMiss
  <2>2. /\ npc \in CpuAddr /\ BaseOf(npc) \in BusAddr
        /\ WordAt(icache[IndexOf(npc)].data, npc) \in Word
    BY <2>1, LookupTyped
  <2> QED
    BY <1>0, <1>2, <2>1, <2>2 DEF LookupMiss, IfTypeOK, PcKnown
<1>3. ASSUME LookupStalled PROVE IfTypeOK' /\ PcKnown'
  BY <1>3 DEF LookupStalled, ifVars, IfTypeOK, PcKnown
<1>4. ASSUME Request(busy) PROVE IfTypeOK' /\ PcKnown'
  BY <1>4, ZeroTyped DEF Request, AfterRequest, IfTypeOK, PcKnown
<1>5. ASSUME FillWait(line, busy) PROVE IfTypeOK' /\ PcKnown'
  <2>1. pc \in FetchAddrs /\ pc' = pc
    BY <1>5 DEF FillWait, FillLine, PcKnown
  <2>2. /\ inst' \in Word
        /\ icache' \in [0 .. CacheLines - 1 -> [valid : BOOLEAN, tag : Nat, data : Line]]
    BY <1>5, <2>1, FillTyped DEF FillWait
  <2> QED
    BY <1>5, <2>1, <2>2 DEF FillWait, IfTypeOK, PcKnown
<1>6. ASSUME FillDone(line, busy) PROVE IfTypeOK' /\ PcKnown'
  <2>1. pc \in FetchAddrs /\ pc' = pc
    BY <1>6 DEF FillDone, FillLine, PcKnown
  <2>2. /\ inst' \in Word
        /\ icache' \in [0 .. CacheLines - 1 -> [valid : BOOLEAN, tag : Nat, data : Line]]
    BY <1>6, <2>1, FillTyped DEF FillDone
  <2> QED
    BY <1>6, <2>1, <2>2 DEF FillDone, IfTypeOK, PcKnown
<1>7. ASSUME Hold(StallNow) PROVE IfTypeOK' /\ PcKnown'
  BY <1>7, ZeroTyped DEF Hold, IfTypeOK, PcKnown
<1> QED
  BY <1>1, <1>2, <1>3, <1>4, <1>5, <1>6, <1>7 DEF IfClock, looked

LEMMA LoadValueTyped ==
  ASSUME NEW width \in Width, NEW rdata \in Word
  PROVE  LoadValue(width, rdata) \in Word
<1>1. BytesOf(width) - 1 \in 0 .. 3
  BY BytesOfWidth
<1>2. SignFill(rdata[BytesOf(width) - 1]) \in Byte
  BY <1>1, SizeAssumption DEF SignFill, Byte, Word
<1> QED
  BY <1>2 DEF LoadValue, Word

LEMMA MaTyped ==
  ASSUME MaTypeOK, NEW in \in Presented, NEW rdata \in Word, NEW busy \in BOOLEAN,
         MaClock(in, rdata, busy, StallNow)
  PROVE  MaTypeOK'
<1>0. in \in Present
  BY InputsTyped
<1>1. ASSUME StartAccess(in, StallNow) PROVE MaTypeOK'
  BY <1>0, <1>1 DEF StartAccess, WriteBack, Present, MaTypeOK
<1>2. ASSUME PassThrough(in, StallNow) PROVE MaTypeOK'
  <2>1. NoRequest \in MemRequest
    BY ZeroTyped, SizeAssumption DEF NoRequest, MemRequest, BusAddr, Width
  <2> QED
    BY <1>0, <1>2, <2>1 DEF PassThrough, WriteBack, Present, MaTypeOK, MemRequest
<1>3. ASSUME Keep(busy, StallNow) PROVE MaTypeOK'
  BY <1>3 DEF Keep, maVars, MaTypeOK
<1>4. ASSUME AwaitAccept(busy) PROVE MaTypeOK'
  BY <1>4 DEF AwaitAccept, MaTypeOK
<1>5. ASSUME Finish(busy, rdata) PROVE MaTypeOK'
  <2>1. LoadValue(maReq.width, rdata) \in Word
    BY LoadValueTyped DEF MaTypeOK
  <2> QED
    BY <1>5, <2>1 DEF Finish, MaTypeOK
<1> QED
  BY <1>1, <1>2, <1>3, <1>4, <1>5 DEF MaClock

-----------------------------------------------------------------------------
(* The interlock of the three machines.  What a client does in a step, as  *)
(* far as the interlock is concerned.                                      *)

LEMMA IfControl ==
  ASSUME TypeOK, Requests, NEW npc, NEW line,
         IfClock(npc # NextPc(FALSE, npc), npc, line, instBusy, StallNow)
  PROVE  /\ ifSta = "request" /\ instBusy => ifSta' = "fill"
         /\ ifSta = "request" /\ ~instBusy => ifSta' = "request"
         /\ ifSta = "fill" /\ instBusy => ifSta' = "fill"
         /\ ifSta = "fill" /\ ~instBusy => ifSta' \in {"lookup", "hold"}
         /\ ifSta \in {"lookup", "hold"} => ifSta' \in {"lookup", "hold", "request"}
         /\ (ifStallReq' <=> ifSta' \in {"request", "fill"})
         /\ (ifReq'.re <=> ifSta' \in {"request", "fill"})
<1> USE DEF TypeOK, IfTypeOK, Requests
<1> DEFINE looked == NextPc(npc # NextPc(FALSE, npc), npc)
           Goal == /\ ifSta = "request" /\ instBusy => ifSta' = "fill"
                   /\ ifSta = "request" /\ ~instBusy => ifSta' = "request"
                   /\ ifSta = "fill" /\ instBusy => ifSta' = "fill"
                   /\ ifSta = "fill" /\ ~instBusy => ifSta' \in {"lookup", "hold"}
                   /\ ifSta \in {"lookup", "hold"} => ifSta' \in {"lookup", "hold", "request"}
                   /\ (ifStallReq' <=> ifSta' \in {"request", "fill"})
                   /\ (ifReq'.re <=> ifSta' \in {"request", "fill"})
<1>1. ASSUME LookupHit(looked) PROVE Goal
  <2>1. ifSta = "lookup" /\ ifSta' \in {"lookup", "hold"}
    BY <1>1 DEF LookupHit
  <2>2. ifReq'.re = FALSE /\ ifStallReq' = FALSE
    BY <1>1 DEF LookupHit
  <2>3. ifSta' \notin {"request", "fill"}
    BY <2>1
  <2> QED
    BY <2>1, <2>2, <2>3
<1>2. ASSUME LookupMiss(looked) PROVE Goal
  BY <1>2 DEF LookupMiss
<1>3. ASSUME LookupStalled PROVE Goal
  BY <1>3 DEF LookupStalled, ifVars
<1>4. ASSUME Request(instBusy) PROVE Goal
  BY <1>4 DEF Request, AfterRequest
<1>5. ASSUME FillWait(line, instBusy) PROVE Goal
  BY <1>5 DEF FillWait
<1>6. ASSUME FillDone(line, instBusy) PROVE Goal
  <2>1. ifSta = "fill" /\ ~instBusy /\ ifSta' \in {"lookup", "hold"}
    BY <1>6 DEF FillDone
  <2>2. ifReq'.re = FALSE /\ ifStallReq' = FALSE
    BY <1>6 DEF FillDone
  <2>3. ifSta' \notin {"request", "fill"}
    BY <2>1
  <2> QED
    BY <2>1, <2>2, <2>3
<1>7. ASSUME Hold(StallNow) PROVE Goal
  <2>1. ifSta = "hold" /\ ifSta' \in {"lookup", "hold"}
    BY <1>7 DEF Hold
  <2>2. ifReq'.re = FALSE /\ ifStallReq' = FALSE
    BY <1>7 DEF Hold
  <2>3. ifSta' \notin {"request", "fill"}
    BY <2>1
  <2> QED
    BY <2>1, <2>2, <2>3
<1> HIDE DEF Goal
<1>8. Goal
  BY <1>1, <1>2, <1>3, <1>4, <1>5, <1>6, <1>7 DEF IfClock
<1> QED
  BY <1>8 DEF Goal

(* The request of a waiting client is held; an idle one may start.         *)
LEMMA MaControl ==
  ASSUME TypeOK, Requests, NEW in \in Presented, NEW rdata,
         MaClock(in, rdata, memBusy, StallNow)
  PROVE  /\ maSta = "request" => maSta' = IF memBusy THEN "wait" ELSE "request"
         /\ maSta = "wait" => maSta' = IF memBusy THEN "wait" ELSE "idle"
         /\ maSta = "idle" => maSta' \in {"idle", "request"}
         /\ maSta # "idle" /\ maSta' # "idle" => maReq' = maReq
         /\ (maStallReq' <=> maSta' # "idle")
         /\ (maReq'.we \/ maReq'.re <=> maSta' # "idle")
         /\ ~(maReq'.we /\ maReq'.re)
<1> USE DEF TypeOK, MaTypeOK, Requests
<1> DEFINE Goal == /\ maSta = "request" => maSta' = IF memBusy THEN "wait" ELSE "request"
                   /\ maSta = "wait" => maSta' = IF memBusy THEN "wait" ELSE "idle"
                   /\ maSta = "idle" => maSta' \in {"idle", "request"}
                   /\ maSta # "idle" /\ maSta' # "idle" => maReq' = maReq
                   /\ (maStallReq' <=> maSta' # "idle")
                   /\ (maReq'.we \/ maReq'.re <=> maSta' # "idle")
                   /\ ~(maReq'.we /\ maReq'.re)
<1>1. ASSUME StartAccess(in, StallNow) PROVE Goal
  BY <1>1, InputsTyped DEF StartAccess, Present
<1>2. ASSUME PassThrough(in, StallNow) PROVE Goal
  BY <1>2 DEF PassThrough, NoRequest
<1>3. ASSUME Keep(memBusy, StallNow) PROVE Goal
  BY <1>3 DEF Keep, maVars
<1>4. ASSUME AwaitAccept(memBusy) PROVE Goal
  BY <1>4 DEF AwaitAccept
<1>5. ASSUME Finish(memBusy, rdata) PROVE Goal
  BY <1>5 DEF Finish
<1> HIDE DEF Goal
<1>6. Goal
  BY <1>1, <1>2, <1>3, <1>4, <1>5 DEF MaClock
<1> QED
  BY <1>6 DEF Goal

LEMMA ControlStep ==
  ASSUME IInv, NEW in \in Presented, NEW npc, NEW io, Clock(in, npc, io)
  PROVE  Requests' /\ Handshake'
<1> DEFINE din == BusByte(ramA, io)
<1>1. /\ ifSta = "request" /\ instBusy => ifSta' = "fill"
      /\ ifSta = "request" /\ ~instBusy => ifSta' = "request"
      /\ ifSta = "fill" /\ instBusy => ifSta' = "fill"
      /\ ifSta = "fill" /\ ~instBusy => ifSta' \in {"lookup", "hold"}
      /\ ifSta \in {"lookup", "hold"} => ifSta' \in {"lookup", "hold", "request"}
      /\ (ifStallReq' <=> ifSta' \in {"request", "fill"})
      /\ (ifReq'.re <=> ifSta' \in {"request", "fill"})
  BY IfControl DEF IInv, Clock
<1>2. /\ maSta = "request" => maSta' = IF memBusy THEN "wait" ELSE "request"
      /\ maSta = "wait" => maSta' = IF memBusy THEN "wait" ELSE "idle"
      /\ maSta = "idle" => maSta' \in {"idle", "request"}
      /\ maSta # "idle" /\ maSta' # "idle" => maReq' = maReq
      /\ (maStallReq' <=> maSta' # "idle")
      /\ (maReq'.we \/ maReq'.re <=> maSta' # "idle")
      /\ ~(maReq'.we /\ maReq'.re)
  BY MaControl DEF IInv, Clock
<1>3. McClock(maReq, ifReq, din)
  BY DEF Clock
<1> HIDE DEF din
<1> USE DEF IInv, TypeOK, McTypeOK, IfTypeOK, MaTypeOK, Requests, Handshake, ServesMem, ServesFetch
<1>4. ASSUME AcceptWrite(maReq, ifReq) PROVE Requests' /\ Handshake'
  BY <1>1, <1>2, <1>4 DEF AcceptWrite
<1>5. ASSUME AcceptRead(maReq, ifReq) PROVE Requests' /\ Handshake'
  BY <1>1, <1>2, <1>5 DEF AcceptRead
<1>6. ASSUME AcceptFetch(maReq, ifReq) PROVE Requests' /\ Handshake'
  BY <1>1, <1>2, <1>6 DEF AcceptFetch, FetchMayStart
<1>7. ASSUME Listen(maReq, ifReq) PROVE Requests' /\ Handshake'
  BY <1>1, <1>2, <1>7 DEF Listen
<1>8. ASSUME ReadByte(din) PROVE Requests' /\ Handshake'
  BY <1>1, <1>2, <1>8 DEF ReadByte
<1>9. ASSUME ReadDone(din) PROVE Requests' /\ Handshake'
  BY <1>1, <1>2, <1>9 DEF ReadDone
<1>10. ASSUME WriteByte(maReq) PROVE Requests' /\ Handshake'
  BY <1>1, <1>2, <1>10 DEF WriteByte
<1>11. ASSUME WriteDone PROVE Requests' /\ Handshake'
  BY <1>1, <1>2, <1>11 DEF WriteDone
<1>12. ASSUME Stall PROVE Requests' /\ Handshake'
  BY <1>1, <1>2, <1>12 DEF Stall
<1> QED
  BY <1>3, <1>4, <1>5, <1>6, <1>7, <1>8, <1>9, <1>10, <1>11, <1>12 DEF McClock

-----------------------------------------------------------------------------
(* The invariant holds initially and is kept by every clock edge.          *)

LEMMA InitInv == Init => IInv
<1> SUFFICES ASSUME Init PROVE IInv
  OBVIOUS
<1>1. RamTypeOK
  BY EnvAssumption, SizeAssumption DEF Init, RamInit, RamTypeOK, CpuAddr
<1>2. McTypeOK
  <2>1. 0 \in BusAddr
    BY SizeAssumption DEF BusAddr
  <2> QED
    BY <2>1, ZeroTyped DEF Init, McInit, McTypeOK
<1>3. IfTypeOK
  <2>1. icache \in [0 .. CacheLines - 1 -> [valid : BOOLEAN, tag : Nat, data : Line]]
    <3>1. PICK lines \in [0 .. CacheLines - 1 -> ResetLines] :
            icache = [k \in 0 .. CacheLines - 1 |-> [valid |-> FALSE, tag |-> 0, data |-> lines[k]]]
      BY DEF Init, IfInit
    <3>2. \A k \in 0 .. CacheLines - 1 : lines[k] \in Line
      BY CacheAssumption
    <3> QED
      BY <3>1, <3>2
  <2>2. pc \in CpuAddr /\ ifReq \in [re : BOOLEAN, addr : BusAddr]
    BY SizeAssumption DEF Init, IfInit, CpuAddr, BusAddr
  <2> QED
    BY <2>1, <2>2, ZeroTyped DEF Init, IfInit, IfTypeOK
<1>4. MaTypeOK
  <2>1. NoRequest \in [we : BOOLEAN, re : BOOLEAN, addr : BusAddr, width : Width, wdata : Word]
    BY ZeroTyped, SizeAssumption DEF NoRequest, BusAddr, Width
  <2> QED
    BY <2>1, ZeroTyped, RegsAssumption DEF Init, MaInit, MaTypeOK
<1>5. PcKnown /\ Counters
  BY DEF Init, IfInit, McInit, PcKnown, Counters
<1>6. Requests
  BY DEF Init, IfInit, McInit, MaInit, NoRequest, Requests, ServesMem
<1>7. Handshake
  BY DEF Init, IfInit, McInit, MaInit, Handshake, ServesMem, ServesFetch
<1> QED
  BY <1>1, <1>2, <1>3, <1>4, <1>5, <1>6, <1>7 DEF IInv, TypeOK

LEMMA NextInv == IInv /\ [Next]_vars => IInv'
<1> SUFFICES ASSUME IInv, [Next]_vars PROVE IInv'
  OBVIOUS
<1>1. ASSUME Next PROVE IInv'
  <2>1. PICK in \in Presented, npc \in NextPcs, io \in IoBytes : Clock(in, npc, io)
    BY <1>1 DEF Next
  <2> DEFINE din == BusByte(ramA, io)
  <2>2. io \in Byte
    BY ZeroTyped DEF IoBytes
  <2>3. din \in Byte
    BY <2>2, BusByteTyped DEF IInv, TypeOK, McTypeOK
  <2>4. maReq \in MemRequest /\ ifReq \in FetchRequest
    BY DEF IInv, TypeOK, MaTypeOK, IfTypeOK, MemRequest, FetchRequest
  <2>5. RamTypeOK'
    BY <2>1, RamTyped DEF Clock, IInv, TypeOK, McTypeOK
  <2>6. McTypeOK' /\ Counters'
    BY <2>1, <2>3, <2>4, McTyped DEF Clock, IInv, TypeOK
  <2>7. IfTypeOK' /\ PcKnown'
    BY <2>1, IfTyped DEF Clock, IInv, TypeOK, McTypeOK
  <2>8. MaTypeOK'
    BY <2>1, MaTyped DEF Clock, IInv, TypeOK, McTypeOK
  <2>9. Requests' /\ Handshake'
    BY <2>1, ControlStep
  <2> QED
    BY <2>5, <2>6, <2>7, <2>8, <2>9 DEF IInv, TypeOK
<1>2. ASSUME UNCHANGED vars PROVE IInv'
  <2>1. TypeOK'
    BY <1>2 DEF vars, ramVars, mcVars, ifVars, maVars, IInv, TypeOK,
                RamTypeOK, McTypeOK, IfTypeOK, MaTypeOK
  <2>2. PcKnown' /\ Counters' /\ Requests' /\ Handshake'
    BY <1>2 DEF vars, ramVars, mcVars, ifVars, maVars, IInv, PcKnown, Counters,
                Requests, Handshake, ServesMem, ServesFetch
  <2> QED
    BY <2>1, <2>2 DEF IInv
<1> QED
  BY <1>1, <1>2

(* The inductive invariant holds in every state of every behaviour.        *)
THEOREM Inductive == Spec => []IInv
BY InitInv, NextInv, PTL DEF Spec

(* Every register of the memory system holds a value of its kind, whatever *)
(* program runs: no address leaves the bus, no write-back leaves a byte.   *)
THEOREM TypeCorrect == Spec => []TypeOK
<1>1. IInv => TypeOK
  BY DEF IInv
<1> QED
  BY <1>1, Inductive, PTL

(* The memory controller and its two clients always interlock: nobody is   *)
(* served who does not ask, nobody misses the one cycle in which its       *)
(* answer is on the outputs (Memory_Ctrl.v, MAU.v and IFU.v together).     *)
THEOREM HandshakeHolds == Spec => []Handshake
<1>1. IInv => Handshake
  BY DEF IInv
<1> QED
  BY <1>1, Inductive, PTL

-----------------------------------------------------------------------------
(* A pending access lies in the RAM or in the I/O space.                   *)
Reachable(addr) == addr + 4 <= RamBytes \/ (IoEnabled(addr) /\ addr + 4 <= 2 * RamBytes)
AccessReachable == maSta # "idle" => Reachable(maReq.addr)

(* The bus while the controller writes, byte now - 1 of the access on it,  *)
(* and in the stall state after it, the last byte still on it.             *)
OnBus(n) ==
  /\ n \in 1 .. BytesOf(maReq.width)
  /\ ramA = maReq.addr + n - 1 /\ ramDout = maReq.wdata[n - 1]
  /\ ~IoEnabled(maReq.addr) =>
       \A i \in 0 .. 3 : i < n - 1 => ram[maReq.addr + i] = maReq.wdata[i]

WriteBus ==
  /\ mcSta = "write" => ramWr /\ cnt = BytesOf(maReq.width) /\ OnBus(now)
  /\ mcSta = "stall" /\ maSta = "wait" /\ maReq.we => OnBus(BytesOf(maReq.width))
  /\ mcSta = "stall" /\ ramWr => maSta = "wait" /\ maReq.we
  /\ mcSta = "stall" /\ maSta = "wait" /\ maReq.we => ramWr
  /\ mcSta \in {"listen", "read"} => ~ramWr

StoreInv == IInv /\ AccessReachable /\ WriteBus

-----------------------------------------------------------------------------
(* A byte of a reachable access in the RAM has its own place there; one of *)
(* an access in the I/O space is in the I/O space.                         *)
LEMMA ByteOfAccess ==
  ASSUME NEW addr \in BusAddr, Reachable(addr), NEW i \in 0 .. 3
  PROVE  /\ addr + i \in BusAddr
         /\ IoEnabled(addr) => IoEnabled(addr + i)
         /\ ~IoEnabled(addr) => ~IoEnabled(addr + i) /\ RamIndex(addr + i) = addr + i
                                /\ addr + i \in CpuAddr
BY SizeAssumption DEF Reachable, BusAddr, CpuAddr, IoEnabled, RamIndex

(* One clock with byte n - 1 of the access on the bus puts it in the RAM   *)
(* and changes nothing else.                                               *)
LEMMA ByteWritten ==
  ASSUME TypeOK, Reachable(maReq.addr), ramWr, NEW n \in 1 .. 4, OnBus(n),
         RamClock(ramA, ramWr, ramDout)
  PROVE  /\ \A b \in CpuAddr : ram'[b] # ram[b] => b \in AccessBytes(maReq.addr, maReq.width)
         /\ ~IoEnabled(maReq.addr) =>
              \A i \in 0 .. 3 : i < n => ram'[maReq.addr + i] = maReq.wdata[i]
<1> DEFINE addr == maReq.addr
<1>1. addr \in BusAddr /\ BytesOf(maReq.width) \in 1 .. 4
  BY BytesOfWidth DEF TypeOK, MaTypeOK
<1>2. ramA = addr + (n - 1) /\ n - 1 \in 0 .. 3 /\ n <= BytesOf(maReq.width)
  BY <1>1 DEF OnBus, BusAddr
<1>3. CASE IoEnabled(addr)
  <2>1. IoEnabled(ramA)
    BY <1>1, <1>2, <1>3, ByteOfAccess
  <2> QED
    BY <1>3, <2>1 DEF RamClock
<1>4. CASE ~IoEnabled(addr)
  <2>1. ~IoEnabled(ramA) /\ RamIndex(ramA) = ramA /\ ramA \in CpuAddr
    BY <1>1, <1>2, <1>4, ByteOfAccess
  <2>2. ram' = [ram EXCEPT ![ramA] = ramDout]
    BY <2>1 DEF RamClock
  <2>3. \A b \in CpuAddr : ram'[b] # ram[b] => b = ramA
    BY <2>2 DEF TypeOK, RamTypeOK
  <2>4. ramA \in AccessBytes(addr, maReq.width)
    BY <1>1, <1>2 DEF AccessBytes, BusAddr
  <2>5. ASSUME NEW i \in 0 .. 3, i < n PROVE ram'[addr + i] = maReq.wdata[i]
    <3>1. addr + i \in CpuAddr
      BY <1>1, <1>4, ByteOfAccess
    <3>2. CASE i = n - 1
      BY <1>2, <2>1, <2>2, <3>2 DEF OnBus, TypeOK, RamTypeOK
    <3>3. CASE i < n - 1
      <4>1. addr + i # ramA
        BY <1>1, <1>2, <3>3 DEF BusAddr
      <4> QED
        BY <1>4, <2>2, <3>1, <3>3, <4>1 DEF OnBus, TypeOK, RamTypeOK
    <3> QED
      BY <2>5, <3>2, <3>3
  <2> QED
    BY <2>3, <2>4, <2>5
<1> QED
  BY <1>3, <1>4

(* Without a write signal the RAM stays as it is.                          *)
LEMMA NothingWritten ==
  ASSUME ~ramWr, RamClock(ramA, ramWr, ramDout)
  PROVE  ram' = ram
BY DEF RamClock

-----------------------------------------------------------------------------
(* The strengthened invariant is inductive.                                *)

(* What the memory-access stage presents as a request is reachable, and it *)
(* does not change while the stage waits.                                  *)
LEMMA RequestKept ==
  ASSUME StoreInv, NEW in \in Presented, NEW npc, NEW io, Clock(in, npc, io)
  PROVE  /\ AccessReachable'
         /\ maSta = "request" => maSta' = IF memBusy THEN "wait" ELSE "request"
         /\ maSta = "wait" => maSta' = IF memBusy THEN "wait" ELSE "idle"
         /\ maSta = "idle" => maSta' \in {"idle", "request"}
         /\ maSta # "idle" /\ maSta' # "idle" => maReq' = maReq
<1>1. /\ maSta = "request" => maSta' = IF memBusy THEN "wait" ELSE "request"
      /\ maSta = "wait" => maSta' = IF memBusy THEN "wait" ELSE "idle"
      /\ maSta = "idle" => maSta' \in {"idle", "request"}
      /\ maSta # "idle" /\ maSta' # "idle" => maReq' = maReq
  BY MaControl DEF StoreInv, IInv, Clock
<1>2. CASE maSta # "idle"
  BY <1>1, <1>2 DEF StoreInv, AccessReachable
<1>3. ASSUME maSta = "idle", maSta' # "idle" PROVE Reachable(maReq'.addr)
  <2>1. (in.ma_we \/ in.ma_re) /\ maReq'.addr = in.addr
    BY <1>3 DEF Clock, MaClock, StartAccess, PassThrough, Keep, AwaitAccept, Finish, maVars
  <2>2. in \in Accesses
    BY <2>1 DEF Presented, NoAccess
  <2> QED
    BY <2>1, <2>2, EnvAssumption DEF Reachable
<1> QED
  BY <1>1, <1>2, <1>3 DEF AccessReachable

LEMMA StoreInit == Init => StoreInv
<1> SUFFICES ASSUME Init PROVE StoreInv
  OBVIOUS
<1>1. AccessReachable /\ WriteBus
  BY DEF Init, McInit, MaInit, AccessReachable, WriteBus
<1> QED
  BY <1>1, InitInv DEF StoreInv

LEMMA WriteBusStep ==
  ASSUME StoreInv, NEW in \in Presented, NEW npc, NEW io, Clock(in, npc, io)
  PROVE  WriteBus'
<1> DEFINE din == BusByte(ramA, io)
<1>1. McClock(maReq, ifReq, din) /\ RamClock(ramA, ramWr, ramDout)
  BY DEF Clock
<1>2. /\ maSta = "request" => maSta' = IF memBusy THEN "wait" ELSE "request"
      /\ maSta = "wait" => maSta' = IF memBusy THEN "wait" ELSE "idle"
      /\ maSta = "idle" => maSta' \in {"idle", "request"}
      /\ maSta # "idle" /\ maSta' # "idle" => maReq' = maReq
  BY RequestKept
<1>3. maReq.addr \in BusAddr /\ BytesOf(maReq.width) \in 1 .. 4 /\ now \in Nat
  BY BytesOfWidth DEF StoreInv, IInv, TypeOK, MaTypeOK, McTypeOK
<1>4. TypeOK /\ Counters /\ Requests /\ Handshake /\ AccessReachable /\ WriteBus
  BY DEF StoreInv, IInv
<1> HIDE DEF din
<1>5. ASSUME AcceptWrite(maReq, ifReq) PROVE WriteBus'
  <2>1. maSta = "request" /\ memBusy = FALSE
    BY <1>4, <1>5 DEF AcceptWrite, Requests, Handshake, ServesMem, TypeOK, MaTypeOK
  <2>2. maSta' = "request" /\ maReq' = maReq
    BY <1>2, <2>1
  <2>3. OnBus(now)'
    BY <1>3, <1>5, <2>1, <2>2 DEF AcceptWrite, ListenData, OnBus, BusAddr
  <2> QED
    BY <1>5, <2>2, <2>3 DEF AcceptWrite, WriteCount, WriteBus
<1>6. ASSUME AcceptRead(maReq, ifReq) PROVE WriteBus'
  BY <1>6 DEF AcceptRead, WriteBus
<1>7. ASSUME AcceptFetch(maReq, ifReq) PROVE WriteBus'
  BY <1>7 DEF AcceptFetch, WriteBus
<1>8. ASSUME Listen(maReq, ifReq) PROVE WriteBus'
  BY <1>8 DEF Listen, WriteBus
<1>9. ASSUME ReadByte(din) PROVE WriteBus'
  BY <1>4, <1>9 DEF ReadByte, WriteBus
<1>10. ASSUME ReadDone(din) PROVE WriteBus'
  <2>1. ~(maSta' = "wait" /\ maReq'.we)
    BY <1>2, <1>4, <1>10 DEF ReadDone, Requests, Handshake, ServesMem, ServesFetch, TypeOK, MaTypeOK
  <2> QED
    BY <1>4, <1>10, <2>1 DEF ReadDone, WriteBus
<1>11. ASSUME mcSta = "write"
       PROVE  /\ maSta' = "wait" /\ maReq' = maReq
              /\ ramWr /\ OnBus(now) /\ now \in 1 .. cnt /\ cnt = BytesOf(maReq.width)
              /\ ~IoEnabled(maReq.addr) =>
                   \A i \in 0 .. 3 : i < now => ram'[maReq.addr + i] = maReq.wdata[i]
  <2>1. maReq.we /\ maSta # "idle" /\ memBusy
    BY <1>4, <1>11 DEF Requests, Handshake, ServesMem
  <2>2. maSta' = "wait" /\ maReq' = maReq
    BY <1>2, <1>4, <2>1 DEF TypeOK, MaTypeOK
  <2>3. ramWr /\ OnBus(now) /\ now \in 1 .. cnt /\ cnt = BytesOf(maReq.width) /\ now \in 1 .. 4
    BY <1>3, <1>4, <1>11 DEF WriteBus, OnBus
  <2>4. Reachable(maReq.addr)
    BY <1>4, <2>1 DEF AccessReachable
  <2> QED
    BY <1>1, <1>4, <2>2, <2>3, <2>4, ByteWritten
<1>12. ASSUME WriteByte(maReq) PROVE WriteBus'
  <2>1. mcSta = "write" /\ now # cnt
    BY <1>12 DEF WriteByte
  <2>2. now + 1 \in 1 .. BytesOf(maReq.width)
    BY <1>3, <1>11, <2>1
  <2>3. Reachable(maReq.addr) /\ ramA = maReq.addr + now - 1 /\ now \in 1 .. 3
    BY <1>3, <1>4, <1>11, <2>1, <2>2 DEF AccessReachable, Requests, OnBus
  <2>4. ramA' = maReq.addr + now
    BY <1>3, <1>12, <2>3, SizeAssumption DEF WriteByte, NextBus, Reachable, BusAddr
  <2>5. now' = now + 1 /\ ramDout' = maReq.wdata[now] /\ cnt' = cnt /\ ramWr' = ramWr
    BY <1>12 DEF WriteByte, NowSeen
  <2>6. OnBus(now)'
    BY <1>3, <1>11, <2>1, <2>2, <2>4, <2>5 DEF OnBus, BusAddr
  <2> QED
    BY <1>11, <1>12, <2>1, <2>5, <2>6 DEF WriteByte, WriteBus
<1>13. ASSUME WriteDone PROVE WriteBus'
  <2>1. mcSta = "write" /\ now = cnt
    BY <1>13 DEF WriteDone
  <2>2. now = BytesOf(maReq.width)
    BY <1>11, <2>1
  <2>3. ramA' = ramA /\ ramDout' = ramDout /\ ramWr' = ramWr /\ mcSta' = "stall"
    BY <1>13 DEF WriteDone
  <2>4. OnBus(BytesOf(maReq.width))'
    BY <1>3, <1>11, <2>1, <2>2, <2>3 DEF OnBus, BusAddr
  <2> QED
    BY <1>4, <1>11, <2>1, <2>3, <2>4 DEF WriteBus, Requests
<1>14. ASSUME Stall PROVE WriteBus'
  BY <1>14 DEF Stall, WriteBus
<1> QED
  BY <1>1, <1>5, <1>6, <1>7, <1>8, <1>9, <1>10, <1>12, <1>13, <1>14 DEF McClock

LEMMA StoreNext == StoreInv /\ [Next]_vars => StoreInv'
<1> SUFFICES ASSUME StoreInv, [Next]_vars PROVE StoreInv'
  OBVIOUS
<1>1. IInv'
  BY NextInv DEF StoreInv
<1>2. ASSUME Next PROVE StoreInv'
  <2>1. PICK in \in Presented, npc \in NextPcs, io \in IoBytes : Clock(in, npc, io)
    BY <1>2 DEF Next
  <2> QED
    BY <1>1, <2>1, RequestKept, WriteBusStep DEF StoreInv
<1>3. ASSUME UNCHANGED vars PROVE StoreInv'
  <2>1. AccessReachable'
    BY <1>3 DEF vars, maVars, StoreInv, AccessReachable
  <2>2. WriteBus'
    BY <1>3 DEF vars, ramVars, mcVars, maVars, StoreInv, WriteBus, OnBus
  <2> QED
    BY <1>1, <2>1, <2>2 DEF StoreInv
<1> QED
  BY <1>2, <1>3

-----------------------------------------------------------------------------
(* The two properties of a step.                                           *)

LEMMA WritingStep ==
  ASSUME StoreInv, Next, ramWr
  PROVE  \E n \in 1 .. 4 :
           /\ maReq.we /\ maSta # "idle"
           /\ OnBus(n) /\ Reachable(maReq.addr) /\ RamClock(ramA, ramWr, ramDout)
<1>1. RamClock(ramA, ramWr, ramDout)
  BY DEF Next, Clock
<1>2. BytesOf(maReq.width) \in 1 .. 4
  BY BytesOfWidth DEF StoreInv, IInv, TypeOK, MaTypeOK
<1>3. mcSta \in {"write", "stall"} /\ maReq.we /\ maSta # "idle"
  BY DEF StoreInv, IInv, TypeOK, McTypeOK, Requests, WriteBus
<1>4. Reachable(maReq.addr)
  BY <1>3 DEF StoreInv, AccessReachable
<1>5. CASE mcSta = "write"
  <2>1. OnBus(now) /\ now \in 1 .. 4
    BY <1>2, <1>5 DEF StoreInv, WriteBus, OnBus
  <2> QED
    BY <1>1, <1>3, <1>4, <2>1
<1>6. CASE mcSta = "stall"
  <2>1. OnBus(BytesOf(maReq.width))
    BY <1>6 DEF StoreInv, WriteBus
  <2> QED
    BY <1>1, <1>2, <1>3, <1>4, <2>1
<1> QED
  BY <1>3, <1>5, <1>6

LEMMA ChangedByte ==
  ASSUME StoreInv, Next, NEW b \in CpuAddr, ram'[b] # ram[b]
  PROVE  maReq.we /\ maSta # "idle" /\ b \in AccessBytes(maReq.addr, maReq.width)
<1>1. RamClock(ramA, ramWr, ramDout)
  BY DEF Next, Clock
<1>2. ramWr
  BY <1>1, NothingWritten DEF StoreInv, IInv, TypeOK, McTypeOK
<1>3. PICK n \in 1 .. 4 : /\ maReq.we /\ maSta # "idle"
                          /\ OnBus(n) /\ Reachable(maReq.addr)
  BY <1>2, WritingStep
<1> QED
  BY <1>1, <1>2, <1>3, ByteWritten DEF StoreInv, IInv

LEMMA OnlyStoresWriteStep ==
  StoreInv /\ [Next]_vars
    => [\A b \in CpuAddr :
          ram'[b] # ram[b] => maReq.we /\ maSta # "idle"
                              /\ b \in AccessBytes(maReq.addr, maReq.width)]_vars
BY ChangedByte

(* The RAM changes only in the bytes of a store that the memory-access     *)
(* stage is waiting for, although Memory_Ctrl.v leaves its write signal up *)
(* through the stall state.                                                *)
THEOREM OnlyStoresWriteHolds == Spec => OnlyStoresWrite
BY OnlyStoresWriteStep, StoreInit, StoreNext, PTL DEF Spec, OnlyStoresWrite

LEMMA StoreLandsStep ==
  StoreInv /\ [Next]_vars
    => [maSta = "wait" /\ maSta' = "idle" /\ maReq.we /\ ~IoEnabled(maReq.addr)
          => \A i \in 0 .. BytesOf(maReq.width) - 1 :
               ram'[maReq.addr + i] = maReq.wdata[i]]_vars
<1>1. ASSUME StoreInv, Next, maSta = "wait", maSta' = "idle", maReq.we, ~IoEnabled(maReq.addr)
      PROVE  \A i \in 0 .. BytesOf(maReq.width) - 1 : ram'[maReq.addr + i] = maReq.wdata[i]
  <2>1. PICK in \in Presented, npc \in NextPcs, io \in IoBytes : Clock(in, npc, io)
    BY <1>1 DEF Next
  <2>2. ~memBusy
    BY <1>1, <2>1, RequestKept
  <2>3. mcSta = "stall"
    BY <1>1, <2>2 DEF StoreInv, IInv, Handshake
  <2>4. ramWr /\ OnBus(BytesOf(maReq.width)) /\ Reachable(maReq.addr)
    BY <1>1, <2>3 DEF StoreInv, WriteBus, AccessReachable
  <2>5. TypeOK
    BY <1>1 DEF StoreInv, IInv
  <2>6. BytesOf(maReq.width) \in 1 .. 4
    BY <2>5, BytesOfWidth DEF TypeOK, MaTypeOK
  <2>7. RamClock(ramA, ramWr, ramDout)
    BY <2>1 DEF Clock
  <2>8. \A i \in 0 .. 3 : i < BytesOf(maReq.width) => ram'[maReq.addr + i] = maReq.wdata[i]
    BY <1>1, <2>4, <2>5, <2>6, <2>7, ByteWritten
  <2> QED
    BY <2>6, <2>8
<1> QED
  BY <1>1

(* When the memory-access stage releases its stall after a store all the   *)
(* store's bytes are in the RAM, in their places.                          *)
THEOREM StoreLandsHolds == Spec => StoreLands
BY StoreLandsStep, StoreInit, StoreNext, PTL DEF Spec, StoreLands

-----------------------------------------------------------------------------
(* What the memory system reads is what the RAM holds: the value of a      *)
(* load, the lines of the instruction cache and the instruction handed to  *)
(* the decode stage.                                                       *)

(* A register of top + 1 bytes holds the first n bytes of the RAM at base, *)
(* and zeros above them.                                                   *)
Captured(reg, top, base, n) ==
  \A i \in 0 .. top : reg[i] = IF i < n THEN ram[base + i] ELSE 0

(* A read of the bytes at base under way.  The address on the bus is that  *)
(* of byte now, except that it stops at the last one; the RAM gives the    *)
(* byte before it, which the register takes in this step.                  *)
Reading(reg, top, base, bytes) ==
  /\ cnt = bytes
  /\ ramA = IF now < bytes THEN base + now ELSE base + bytes - 1
  /\ now > 0 => ramQ = base + now - 1
  /\ Captured(reg, top, base, IF now = 0 THEN 0 ELSE now - 1)

(* A load that reads the RAM, and the fetch of the line of the pc.         *)
LoadBus ==
  maReq.re /\ ~IoEnabled(maReq.addr) =>
    /\ mcSta = "read" /\ ~instBusy
         => Reading(memRdata, 3, maReq.addr, BytesOf(maReq.width))
    /\ mcSta = "stall" /\ maSta = "wait"
         => Captured(memRdata, 3, maReq.addr, BytesOf(maReq.width))

FetchBus ==
  /\ ifSta \in {"request", "fill"} => ifReq.addr = BaseOf(pc)
  /\ mcSta = "read" /\ instBusy => Reading(instData, LineBytes - 1, BaseOf(pc), LineBytes)
  /\ mcSta = "stall" /\ ifSta = "fill" => Captured(instData, LineBytes - 1, BaseOf(pc), LineBytes)

(* A pending store does not touch a line of code.                          *)
StoreOutsideCode ==
  maSta # "idle" /\ maReq.we =>
    \A a \in FetchAddrs : \A b \in AccessBytes(maReq.addr, maReq.width) :
      b < BaseOf(a) \/ b >= BaseOf(a) + LineBytes

(* A valid line of the cache is that of an instruction, and an instruction *)
(* that is not the bubble is one of the program's.                         *)
LinesOfCode ==
  \A k \in 0 .. CacheLines - 1 :
    icache[k].valid => \E a \in FetchAddrs : IndexOf(a) = k /\ TagOf(a) = icache[k].tag
InstKnown == inst # ZeroWord => pc \in FetchAddrs

LoadInv == StoreInv /\ LoadBus
FetchInv == StoreInv /\ FetchBus /\ StoreOutsideCode
CacheInv == FetchInv /\ LinesOfCode /\ InstKnown /\ CacheCoherent /\ FetchedFromRam

-----------------------------------------------------------------------------
(* Quotient and remainder.                                                 *)
LEMMA DivMod ==
  ASSUME NEW n \in Nat, NEW c \in Nat \ {0}
  PROVE  n = (n \div c) * c + (n % c)
OBVIOUS

(* The number of a line of the RAM, from the tag and the index of an       *)
(* address in it.                                                          *)
LEMMA LineArithmetic ==
  ASSUME NEW a \in Nat
  PROVE  (TagOf(a) * CacheLines + IndexOf(a)) * LineBytes = BaseOf(a)
<1>1. LineOf(a) \in Nat /\ CacheLines \in Nat \ {0}
  BY AddressArithmetic, CacheAssumption
<1>2. TagOf(a) * CacheLines + IndexOf(a) = LineOf(a)
  BY <1>1, DivMod DEF TagOf, IndexOf
<1> QED
  BY <1>2 DEF BaseOf

(* The addresses of an instruction and of its line.                        *)
LEMMA CodeAddress ==
  ASSUME NEW a \in FetchAddrs
  PROVE  /\ a \in Nat /\ BaseOf(a) \in Nat /\ BaseOf(a) <= a
         /\ a + 4 <= BaseOf(a) + LineBytes /\ BaseOf(a) + LineBytes <= RamBytes
         /\ IndexOf(a) \in 0 .. CacheLines - 1 /\ TagOf(a) \in Nat
         /\ BaseOf(a) \in BusAddr
<1>1. a \in Nat
  BY EnvAssumption, SizeAssumption DEF CpuAddr
<1>2. LineOf(a) \in Nat /\ IndexOf(a) \in 0 .. CacheLines - 1 /\ TagOf(a) \in Nat
  BY <1>1, AddressArithmetic
<1>3. BaseOf(a) \in Nat
  BY <1>2, SizeAssumption DEF BaseOf
<1>4. BaseOf(a) <= a /\ a + 4 <= BaseOf(a) + LineBytes /\ BaseOf(a) + LineBytes <= RamBytes
  BY EnvAssumption
<1> QED
  BY <1>1, <1>2, <1>3, <1>4, SizeAssumption DEF BusAddr

(* One clock of a read moves the bus on by a byte and takes the byte that  *)
(* was on it.                                                              *)
LEMMA ByteRead ==
  ASSUME TypeOK, ~ramWr, RamClock(ramA, ramWr, ramDout), now <= cnt,
         NEW top \in Nat, NEW reg \in [0 .. top -> Byte], NEW base \in Nat,
         NEW bytes \in 1 .. top + 1, base + bytes <= RamBytes,
         Reading(reg, top, base, bytes), NEW io
  PROVE  /\ ram' = ram /\ ramQ' = ramA
         /\ ramA \in CpuAddr
         /\ Captured(Capture(reg, top, BusByte(ramA, io)), top, base, now)
<1>1. now \in 0 .. bytes /\ now \in Nat
  BY DEF Reading, TypeOK, McTypeOK
<1>2. ramA \in base .. base + bytes - 1
  BY <1>1 DEF Reading
<1>3. ramA \in CpuAddr /\ RamIndex(ramA) = ramA /\ ~IoEnabled(ramA)
  BY <1>2, SizeAssumption DEF CpuAddr, RamIndex, IoEnabled
<1>4. ram' = ram /\ ramQ' = ramA
  BY <1>3 DEF RamClock
<1>5. CASE now = 0
  BY <1>3, <1>4, <1>5 DEF Reading, Capture, NowSeen, Captured
<1>6. CASE now > 0
  <2>1. BusByte(ramA, io) = ram[base + (now - 1)]
    BY <1>1, <1>3, <1>6 DEF BusByte, Reading
  <2>2. Capture(reg, top, BusByte(ramA, io)) = [reg EXCEPT ![now - 1] = ram[base + (now - 1)]]
    BY <1>1, <1>6, <2>1 DEF Capture, NowSeen
  <2>3. \A i \in 0 .. top : reg[i] = IF i < now - 1 THEN ram[base + i] ELSE 0
    BY <1>6 DEF Reading, Captured
  <2> HIDE DEF Reading
  <2> QED
    BY <1>1, <1>3, <1>4, <1>6, <2>2, <2>3 DEF Captured
<1> QED
  BY <1>1, <1>3, <1>4, <1>5, <1>6

-----------------------------------------------------------------------------
(* What a load reads.                                                      *)

LEMMA LoadBusStep ==
  ASSUME StoreInv, LoadBus, NEW in \in Presented, NEW npc, NEW io, Clock(in, npc, io)
  PROVE  LoadBus'
<1> DEFINE din == BusByte(ramA, io)
           addr == maReq.addr
           bytes == BytesOf(maReq.width)
<1>1. McClock(maReq, ifReq, din) /\ RamClock(ramA, ramWr, ramDout)
  BY DEF Clock
<1>2. /\ maSta = "request" => maSta' = IF memBusy THEN "wait" ELSE "request"
      /\ maSta = "wait" => maSta' = IF memBusy THEN "wait" ELSE "idle"
      /\ maSta = "idle" => maSta' \in {"idle", "request"}
      /\ maSta # "idle" /\ maSta' # "idle" => maReq' = maReq
  BY RequestKept
<1>3. TypeOK /\ Counters /\ Requests /\ Handshake /\ AccessReachable /\ WriteBus
  BY DEF StoreInv, IInv
<1>4. /\ addr \in Nat /\ bytes \in 1 .. 4 /\ now \in Nat
      /\ memRdata \in [0 .. 3 -> Byte]
  BY <1>3, BytesOfWidth, SizeAssumption DEF TypeOK, MaTypeOK, McTypeOK, BusAddr, Word
<1> HIDE DEF din
<1>5. ASSUME AcceptRead(maReq, ifReq) PROVE LoadBus'
  <2>1. maReq.re /\ ~maReq.we /\ mcSta = "listen"
    BY <1>5 DEF AcceptRead
  <2>2. maSta = "request" /\ memBusy = FALSE
    BY <1>3, <2>1 DEF Requests, Handshake, ServesMem, TypeOK, MaTypeOK
  <2>3. maSta' = "request" /\ maReq' = maReq
    BY <1>2, <2>2
  <2>4. now' = 0 /\ cnt' = bytes /\ ramA' = maReq.addr /\ memRdata' = ZeroWord /\ mcSta' = "read"
    BY <1>5, <2>1 DEF AcceptRead, ListenData
  <2>5. Captured(memRdata, 3, maReq.addr, 0)'
    BY <1>4, <2>3, <2>4 DEF Captured, ZeroWord
  <2>6. Reading(memRdata, 3, maReq.addr, BytesOf(maReq.width))'
    BY <1>4, <2>3, <2>4, <2>5 DEF Reading
  <2> QED
    BY <2>4, <2>6 DEF LoadBus
<1>6. ASSUME mcSta = "read", ~instBusy, ~IoEnabled(maReq.addr)
      PROVE  /\ maReq' = maReq /\ maSta' = "wait" /\ maReq.re
             /\ now <= bytes /\ cnt = bytes
             /\ ramA = IF now < bytes THEN addr + now ELSE addr + bytes - 1
             /\ ram' = ram /\ ramQ' = ramA /\ ramA < RamBytes
             /\ Captured(Capture(memRdata, 3, din), 3, addr, now)
  <2>1. maReq.re /\ maSta # "idle" /\ memBusy
    BY <1>3, <1>6 DEF Requests, Handshake, ServesMem
  <2>2. maSta' = "wait" /\ maReq' = maReq
    BY <1>2, <1>3, <2>1 DEF TypeOK, MaTypeOK
  <2>3. addr + bytes <= RamBytes
    BY <1>3, <1>4, <1>6, <2>1, SizeAssumption DEF AccessReachable, Reachable
  <2>4. ~ramWr /\ now <= cnt
    BY <1>3, <1>6 DEF WriteBus, Counters
  <2>5. Reading(memRdata, 3, addr, bytes)
    BY <1>6, <2>1 DEF LoadBus
  <2>6. /\ ram' = ram /\ ramQ' = ramA /\ ramA \in CpuAddr
        /\ Captured(Capture(memRdata, 3, din), 3, addr, now)
    <3>1. 3 \in Nat /\ bytes \in 1 .. 3 + 1
      BY <1>4
    <3> HIDE DEF addr, bytes
    <3> QED
      BY <1>1, <1>3, <1>4, <2>3, <2>4, <2>5, <3>1, ByteRead DEF din
  <2> QED
    BY <2>1, <2>2, <2>4, <2>5, <2>6, SizeAssumption DEF Reading, CpuAddr
<1>7. ASSUME ReadByte(din) PROVE LoadBus'
  <2>1. mcSta = "read" /\ now # cnt /\ now' = now + 1 /\ cnt' = cnt /\ mcSta' = "read"
        /\ instBusy' = instBusy
    BY <1>7 DEF ReadByte
  <2>2. CASE instBusy
    BY <2>1, <2>2 DEF LoadBus
  <2>3. CASE ~instBusy /\ ~IoEnabled(maReq.addr)
    <3>1. memRdata' = Capture(memRdata, 3, din)
      BY <1>7, <2>3 DEF ReadByte, ReadData
    <3>2. ramA' = IF now + 1 < cnt THEN NextBus(ramA) ELSE ramA
      BY <1>7 DEF ReadByte, ReadData, AddressAhead, NowSeen
    <3>3. now < bytes /\ ramA = addr + now /\ addr + now < RamBytes
      BY <1>4, <1>6, <2>1, <2>3
    <3>4. ramA' = IF now + 1 < bytes THEN addr + (now + 1) ELSE addr + bytes - 1
      BY <1>4, <1>6, <2>1, <2>3, <3>2, <3>3, SizeAssumption DEF NextBus
    <3>5. ramQ' = addr + now
      BY <1>6, <2>1, <2>3, <3>3
    <3>6. Captured(memRdata, 3, maReq.addr, now)'
            <=> \A i \in 0 .. 3 : memRdata'[i] = IF i < now' THEN ram'[maReq'.addr + i] ELSE 0
      BY DEF Captured
    <3>7. \A i \in 0 .. 3 : memRdata'[i] = IF i < now THEN ram'[maReq'.addr + i] ELSE 0
      BY <1>6, <2>1, <2>3, <3>1 DEF Captured
    <3>8. Reading(memRdata, 3, maReq.addr, BytesOf(maReq.width))'
      BY <1>4, <1>6, <2>1, <2>3, <3>3, <3>4, <3>5, <3>7 DEF Reading, Captured
    <3> QED
      BY <2>1, <3>8 DEF LoadBus
  <2>4. CASE ~instBusy /\ IoEnabled(maReq.addr)
    <3>1. maReq' = maReq
      BY <1>2, <1>3, <2>1, <2>4 DEF Handshake, ServesMem, TypeOK, MaTypeOK
    <3> QED
      BY <2>4, <3>1 DEF LoadBus
  <2> QED
    BY <2>2, <2>3, <2>4
<1>8. ASSUME ReadDone(din) PROVE LoadBus'
  <2>1. mcSta = "read" /\ now = cnt /\ mcSta' = "stall"
    BY <1>8 DEF ReadDone
  <2>2. CASE instBusy
    <3>1. maSta' # "wait"
      BY <1>2, <1>3, <2>1, <2>2 DEF Handshake, ServesMem, ServesFetch, TypeOK, MaTypeOK
    <3> QED
      BY <2>1, <3>1 DEF LoadBus
  <2>3. CASE ~instBusy /\ ~IoEnabled(maReq.addr)
    <3>1. memRdata' = Capture(memRdata, 3, din)
      BY <1>8, <2>3 DEF ReadDone, ReadData
    <3>2. Captured(memRdata, 3, maReq.addr, BytesOf(maReq.width))'
      BY <1>6, <2>1, <2>3, <3>1 DEF Captured
    <3> QED
      BY <2>1, <3>2 DEF LoadBus
  <2>4. CASE ~instBusy /\ IoEnabled(maReq.addr)
    <3>1. maReq' = maReq
      BY <1>2, <1>3, <2>1, <2>4 DEF Handshake, ServesMem, TypeOK, MaTypeOK
    <3> QED
      BY <2>4, <3>1 DEF LoadBus
  <2> QED
    BY <2>2, <2>3, <2>4
<1>9. ASSUME WriteDone PROVE LoadBus'
  <2>1. mcSta = "write" /\ maReq.we /\ ~maReq.re /\ maSta # "idle" /\ memBusy
    BY <1>3, <1>9 DEF WriteDone, Requests, Handshake, ServesMem
  <2>2. maReq' = maReq
    BY <1>2, <1>3, <2>1 DEF TypeOK, MaTypeOK
  <2> QED
    BY <2>1, <2>2 DEF LoadBus
<1>10. ASSUME AcceptWrite(maReq, ifReq) \/ WriteByte(maReq) PROVE LoadBus'
  BY <1>10 DEF AcceptWrite, WriteByte, LoadBus
<1>11. ASSUME AcceptFetch(maReq, ifReq) PROVE LoadBus'
  BY <1>11 DEF AcceptFetch, LoadBus
<1>12. ASSUME Listen(maReq, ifReq) \/ Stall PROVE LoadBus'
  BY <1>12 DEF Listen, Stall, LoadBus
<1> QED
  BY <1>1, <1>5, <1>7, <1>8, <1>9, <1>10, <1>11, <1>12 DEF McClock

LEMMA LoadInit == Init => LoadInv
<1>1. Init => LoadBus
  BY DEF Init, McInit, LoadBus
<1> QED
  BY <1>1, StoreInit DEF LoadInv

LEMMA LoadNext == LoadInv /\ [Next]_vars => LoadInv'
<1> SUFFICES ASSUME LoadInv, [Next]_vars PROVE LoadInv'
  OBVIOUS
<1>1. StoreInv'
  BY StoreNext DEF LoadInv
<1>2. CASE Next
  BY <1>1, <1>2, LoadBusStep DEF Next, LoadInv
<1>3. CASE UNCHANGED vars
  BY <1>1, <1>3 DEF vars, ramVars, mcVars, maVars, LoadInv, LoadBus, Reading, Captured
<1> QED
  BY <1>2, <1>3

(* What the stage makes of the bytes of a load is the ISA's value.         *)
LEMMA LoadedValue ==
  ASSUME NEW width \in Width, NEW bytes \in Word,
         \A i \in 0 .. 3 : i >= BytesOf(width) => bytes[i] = 0
  PROVE  LoadValue(width, bytes) = Signed(width, bytes)
<1> DEFINE top == BytesOf(width) - 1
<1>1. BytesOf(width) \in 1 .. 4 /\ top \in 0 .. 3 /\ bytes[top] \in Byte
  BY BytesOfWidth DEF Word
<1>2. CASE width \in {"b", "h"}
  <2>1. LoadValue(width, bytes)
          = [i \in 0 .. 3 |-> IF i < BytesOf(width) THEN bytes[i] ELSE SignFill(bytes[top])]
    BY <1>2 DEF LoadValue
  <2>2. \A i \in 0 .. 3 : (i < BytesOf(width) <=> ~(i > top))
    BY <1>1
  <2> HIDE DEF top
  <2> QED
    BY <1>1, <1>2, <2>1, <2>2 DEF Signed, SignFill, top
<1>3. CASE width \in {"w", "bu", "hu"}
  BY <1>1, <1>3 DEF LoadValue, Signed, Word
<1> QED
  BY <1>2, <1>3 DEF Width

LEMMA LoadStep ==
  LoadInv /\ [Next]_vars
    => [maSta = "wait" /\ maSta' = "idle" /\ maReq.re /\ ~IoEnabled(maReq.addr)
          => maOut'.wdata = Signed(maReq.width, MemoryAt(maReq.addr, maReq.width))]_vars
<1>1. ASSUME LoadInv, Next, maSta = "wait", maSta' = "idle", maReq.re, ~IoEnabled(maReq.addr)
      PROVE  maOut'.wdata = Signed(maReq.width, MemoryAt(maReq.addr, maReq.width))
  <2>1. PICK in \in Presented, npc \in NextPcs, io \in IoBytes : Clock(in, npc, io)
    BY <1>1 DEF Next
  <2>2. Finish(memBusy, memRdata)
    BY <1>1, <2>1 DEF Clock, MaClock, StartAccess, PassThrough, Keep, AwaitAccept, maVars
  <2>3. maReq.width \in Width /\ memRdata \in Word
        /\ maOut \in [we : BOOLEAN, waddr : Regs, wdata : Word]
    BY <1>1 DEF LoadInv, StoreInv, IInv, TypeOK, MaTypeOK, McTypeOK
  <2>4. maOut'.wdata = LoadValue(maReq.width, memRdata)
    BY <1>1, <2>2, <2>3 DEF Finish
  <2>5. mcSta = "stall"
    BY <1>1, <2>2 DEF Finish, LoadInv, StoreInv, IInv, Handshake
  <2>6. Captured(memRdata, 3, maReq.addr, BytesOf(maReq.width))
    BY <1>1, <2>5 DEF LoadInv, LoadBus
  <2>7. memRdata = MemoryAt(maReq.addr, maReq.width)
    BY <2>3, <2>6 DEF Captured, MemoryAt, Word
  <2>8. \A i \in 0 .. 3 : i >= BytesOf(maReq.width) => memRdata[i] = 0
    BY <2>3, <2>6, BytesOfWidth DEF Captured
  <2> QED
    BY <2>3, <2>4, <2>7, <2>8, LoadedValue
<1> QED
  BY <1>1

(* A load gives the write-back the bytes that the RAM holds at its         *)
(* address, sign or zero extended: the address that runs ahead on the bus, *)
(* the byte that comes a cycle late and the fetches served before leave no *)
(* trace in the value (MAU.v with Memory_Ctrl.v).                          *)
THEOREM LoadReturnsMemoryHolds == Spec => LoadReturnsMemory
BY LoadStep, LoadInit, LoadNext, PTL DEF Spec, LoadReturnsMemory

-----------------------------------------------------------------------------
(* What a fetch reads.                                                     *)

(* The pc and the request of the fetch unit stay while it waits, and a     *)
(* request is for the line of the pc.                                      *)
LEMMA FetchKept ==
  ASSUME StoreInv, FetchBus, NEW in \in Presented, NEW npc, NEW io, Clock(in, npc, io)
  PROVE  /\ ifSta = "request" => ifSta' = IF instBusy THEN "fill" ELSE "request"
         /\ ifSta = "fill" /\ instBusy => ifSta' = "fill"
         /\ ifSta \in {"lookup", "hold"} => ifSta' \in {"lookup", "hold", "request"}
         /\ ifSta \in {"request", "fill", "hold"} => pc' = pc
         /\ ifSta' \in {"request", "fill"} => ifReq'.addr = BaseOf(pc')
<1>1. IfTypeOK /\ Requests
  BY DEF StoreInv, IInv, TypeOK
<1>2. IfClock(npc # NextPc(FALSE, npc), npc, instData, instBusy, StallNow)
  BY DEF Clock
<1> DEFINE looked == NextPc(npc # NextPc(FALSE, npc), npc)
           Goal == /\ ifSta = "request" => ifSta' = IF instBusy THEN "fill" ELSE "request"
                   /\ ifSta = "fill" /\ instBusy => ifSta' = "fill"
                   /\ ifSta \in {"lookup", "hold"} => ifSta' \in {"lookup", "hold", "request"}
                   /\ ifSta \in {"request", "fill", "hold"} => pc' = pc
                   /\ ifSta' \in {"request", "fill"} => ifReq'.addr = BaseOf(pc')
<1> HIDE DEF looked
<1>3. ASSUME LookupHit(looked) PROVE Goal
  BY <1>3 DEF LookupHit
<1>4. ASSUME LookupMiss(looked) PROVE Goal
  BY <1>4 DEF LookupMiss
<1>5. ASSUME LookupStalled PROVE Goal
  BY <1>5 DEF LookupStalled, ifVars
<1>6. ASSUME Request(instBusy) PROVE Goal
  BY <1>1, <1>6 DEF Request, AfterRequest, IfTypeOK, FetchBus
<1>7. ASSUME FillWait(instData, instBusy) PROVE Goal
  BY <1>1, <1>7 DEF FillWait, FillLine, IfTypeOK, FetchBus
<1>8. ASSUME FillDone(instData, instBusy) PROVE Goal
  BY <1>8 DEF FillDone, FillLine
<1>9. ASSUME Hold(StallNow) PROVE Goal
  BY <1>9 DEF Hold
<1> HIDE DEF Goal
<1>10. Goal
  BY <1>2, <1>3, <1>4, <1>5, <1>6, <1>7, <1>8, <1>9 DEF IfClock, looked
<1> QED
  BY <1>10 DEF Goal

LEMMA FetchBusStep ==
  ASSUME StoreInv, FetchBus, NEW in \in Presented, NEW npc, NEW io, Clock(in, npc, io)
  PROVE  FetchBus'
<1> DEFINE din == BusByte(ramA, io)
           base == BaseOf(pc)
           top == LineBytes - 1
<1>1. McClock(maReq, ifReq, din) /\ RamClock(ramA, ramWr, ramDout)
  BY DEF Clock
<1>2. /\ ifSta = "request" => ifSta' = IF instBusy THEN "fill" ELSE "request"
      /\ ifSta = "fill" /\ instBusy => ifSta' = "fill"
      /\ ifSta \in {"lookup", "hold"} => ifSta' \in {"lookup", "hold", "request"}
      /\ ifSta \in {"request", "fill", "hold"} => pc' = pc
      /\ ifSta' \in {"request", "fill"} => ifReq'.addr = BaseOf(pc')
  BY FetchKept
<1>3. TypeOK /\ PcKnown /\ Counters /\ Requests /\ Handshake /\ WriteBus
  BY DEF StoreInv, IInv
<1>4. now \in Nat /\ instData \in [0 .. top -> Byte] /\ LineBytes \in Nat /\ LineBytes >= 4
  BY <1>3, SizeAssumption DEF TypeOK, McTypeOK, Line
<1>5. ifSta \in {"request", "fill"} => base \in Nat /\ base + LineBytes <= RamBytes
  BY <1>3, CodeAddress DEF PcKnown
<1> HIDE DEF din
<1>6. ASSUME AcceptFetch(maReq, ifReq) PROVE FetchBus'
  <2>1. ifReq.re /\ ~maReq.we /\ ~maReq.re
    BY <1>6 DEF AcceptFetch, FetchMayStart
  <2>2. ifSta = "request" /\ instBusy = FALSE /\ ifReq.addr = base
    BY <1>3, <1>6, <2>1 DEF AcceptFetch, Requests, Handshake, ServesFetch, TypeOK, IfTypeOK, FetchBus
  <2>3. /\ now' = 0 /\ cnt' = LineBytes /\ ramA' = base /\ instData' = ZeroLine
        /\ mcSta' = "read" /\ pc' = pc
    BY <1>2, <1>6, <2>1, <2>2 DEF AcceptFetch, ListenData
  <2>4. Captured(instData, LineBytes - 1, BaseOf(pc), 0)'
    BY <1>4, <2>3 DEF Captured, ZeroLine
  <2>5. Reading(instData, LineBytes - 1, BaseOf(pc), LineBytes)'
    BY <1>4, <1>5, <2>2, <2>3, <2>4 DEF Reading
  <2> QED
    BY <1>2, <2>3, <2>5 DEF FetchBus
<1>7. ASSUME mcSta = "read", instBusy
      PROVE  /\ pc' = pc /\ ifSta \in {"request", "fill"} /\ base \in Nat
             /\ now <= LineBytes /\ cnt = LineBytes
             /\ ramA = IF now < LineBytes THEN base + now ELSE base + LineBytes - 1
             /\ ram' = ram /\ ramQ' = ramA /\ ramA < RamBytes
             /\ Captured(Capture(instData, top, din), top, base, now)
  <2>1. ifSta \in {"request", "fill"}
    BY <1>3, <1>7 DEF Handshake
  <2>2. pc' = pc /\ base \in Nat /\ base + LineBytes <= RamBytes
    BY <1>2, <1>5, <2>1
  <2>3. ~ramWr /\ now <= cnt
    BY <1>3, <1>7 DEF WriteBus, Counters
  <2>4. Reading(instData, top, base, LineBytes)
    BY <1>7 DEF FetchBus
  <2>5. top \in Nat /\ LineBytes \in 1 .. top + 1
    BY <1>4
  <2>6. /\ ram' = ram /\ ramQ' = ramA /\ ramA \in CpuAddr
        /\ Captured(Capture(instData, top, din), top, base, now)
    <3> HIDE DEF base, top
    <3> QED
      BY <1>1, <1>3, <1>4, <2>2, <2>3, <2>4, <2>5, ByteRead DEF din
  <2> QED
    BY <2>1, <2>2, <2>3, <2>4, <2>6, SizeAssumption DEF Reading, CpuAddr
<1>8. ASSUME ReadByte(din) PROVE FetchBus'
  <2>1. mcSta = "read" /\ now # cnt /\ now' = now + 1 /\ cnt' = cnt /\ mcSta' = "read"
        /\ instBusy' = instBusy
    BY <1>8 DEF ReadByte
  <2>2. CASE ~instBusy
    BY <1>2, <2>1, <2>2 DEF FetchBus
  <2>3. CASE instBusy
    <3>1. instData' = Capture(instData, top, din)
      BY <1>8, <2>3 DEF ReadByte, ReadData
    <3>2. ramA' = IF now + 1 < cnt THEN NextBus(ramA) ELSE ramA
      BY <1>8 DEF ReadByte, ReadData, AddressAhead, NowSeen
    <3>3. now < LineBytes /\ ramA = base + now /\ base + now < RamBytes
      BY <1>4, <1>7, <2>1, <2>3
    <3>4. ramA' = IF now + 1 < LineBytes THEN base + (now + 1) ELSE base + LineBytes - 1
      BY <1>4, <1>7, <2>1, <2>3, <3>2, <3>3, SizeAssumption DEF NextBus
    <3>5. ramQ' = base + now
      BY <1>7, <2>1, <2>3, <3>3
    <3>6. \A i \in 0 .. LineBytes - 1 :
            instData'[i] = IF i < now THEN ram'[BaseOf(pc') + i] ELSE 0
      BY <1>7, <2>1, <2>3, <3>1 DEF Captured
    <3>7. Reading(instData, LineBytes - 1, BaseOf(pc), LineBytes)'
      BY <1>4, <1>7, <2>1, <2>3, <3>3, <3>4, <3>5, <3>6 DEF Reading, Captured
    <3> QED
      BY <1>2, <2>1, <3>7 DEF FetchBus
  <2> QED
    BY <2>2, <2>3
<1>9. ASSUME ReadDone(din) PROVE FetchBus'
  <2>1. mcSta = "read" /\ now = cnt /\ mcSta' = "stall"
    BY <1>9 DEF ReadDone
  <2>2. CASE ~instBusy
    <3>1. ifSta' # "fill"
      BY <1>2, <1>3, <2>1, <2>2 DEF Handshake, TypeOK, IfTypeOK
    <3> QED
      BY <1>2, <2>1, <3>1 DEF FetchBus
  <2>3. CASE instBusy
    <3>1. instData' = Capture(instData, top, din)
      BY <1>9, <2>3 DEF ReadDone, ReadData
    <3>2. Captured(instData, LineBytes - 1, BaseOf(pc), LineBytes)'
      BY <1>7, <2>1, <2>3, <3>1 DEF Captured
    <3> QED
      BY <1>2, <2>1, <3>2 DEF FetchBus
  <2> QED
    BY <2>2, <2>3
<1>10. ASSUME WriteDone PROVE FetchBus'
  <2>1. mcSta = "write" /\ mcSta' = "stall"
    BY <1>10 DEF WriteDone
  <2>2. ifSta' # "fill"
    BY <1>2, <1>3, <2>1 DEF Handshake, ServesFetch, TypeOK, IfTypeOK
  <2> QED
    BY <1>2, <2>1, <2>2 DEF FetchBus
<1>11. ASSUME AcceptWrite(maReq, ifReq) \/ WriteByte(maReq) PROVE FetchBus'
  BY <1>2, <1>11 DEF AcceptWrite, WriteByte, FetchBus
<1>12. ASSUME AcceptRead(maReq, ifReq) PROVE FetchBus'
  <2>1. ~instBusy
    BY <1>3, <1>12 DEF AcceptRead, Handshake, ServesFetch
  <2> QED
    BY <1>2, <1>12, <2>1 DEF AcceptRead, FetchBus
<1>13. ASSUME Listen(maReq, ifReq) \/ Stall PROVE FetchBus'
  BY <1>2, <1>13 DEF Listen, Stall, FetchBus
<1> QED
  BY <1>1, <1>6, <1>8, <1>9, <1>10, <1>11, <1>12, <1>13 DEF McClock

-----------------------------------------------------------------------------
(* Code does not change in the RAM.                                        *)

LEMMA StoreOutsideCodeStep ==
  ASSUME StoreInv, StoreOutsideCode, NEW in \in Presented, NEW npc, NEW io, Clock(in, npc, io)
  PROVE  StoreOutsideCode'
<1>1. maSta # "idle" /\ maSta' # "idle" => maReq' = maReq
  BY RequestKept
<1>2. CASE maSta # "idle"
  BY <1>1, <1>2 DEF StoreOutsideCode
<1>3. ASSUME maSta = "idle", maSta' # "idle", maReq'.we
      PROVE  \A a \in FetchAddrs : \A b \in AccessBytes(maReq'.addr, maReq'.width) :
               b < BaseOf(a) \/ b >= BaseOf(a) + LineBytes
  <2>1. StartAccess(in, StallNow)
    BY <1>3 DEF Clock, MaClock, StartAccess, PassThrough, Keep, AwaitAccept, Finish, maVars
  <2>2. in.ma_we /\ maReq'.addr = in.addr /\ maReq'.width = in.width
    BY <1>3, <2>1 DEF StartAccess
  <2>3. in \in Accesses
    BY <2>2 DEF Presented, NoAccess
  <2> QED
    BY <2>2, <2>3, EnvAssumption
<1> QED
  BY <1>2, <1>3 DEF StoreOutsideCode

LEMMA CodeUnchanged ==
  ASSUME StoreInv, StoreOutsideCode, Next, NEW a \in FetchAddrs, NEW i \in 0 .. LineBytes - 1
  PROVE  BaseOf(a) + i \in CpuAddr /\ ram'[BaseOf(a) + i] = ram[BaseOf(a) + i]
<1>1. BaseOf(a) \in Nat /\ BaseOf(a) + LineBytes <= RamBytes
  BY CodeAddress
<1>2. BaseOf(a) + i \in CpuAddr
  BY <1>1, SizeAssumption DEF CpuAddr
<1>3. BaseOf(a) + i \notin AccessBytes(maReq.addr, maReq.width) \/ ~(maSta # "idle" /\ maReq.we)
  BY <1>1, SizeAssumption DEF StoreOutsideCode
<1> QED
  BY <1>2, <1>3, ChangedByte

-----------------------------------------------------------------------------
(* The instruction cache.                                                  *)

(* The RAM's bytes of the line of a.                                       *)
RamLine(a) == [i \in 0 .. LineBytes - 1 |-> ram[BaseOf(a) + i]]

(* A valid line's place in the RAM is that of an instruction's line.       *)
LEMMA LineOfCode ==
  ASSUME NEW a \in FetchAddrs, icache[IndexOf(a)].tag = TagOf(a)
  PROVE  LineInRam(IndexOf(a)) = RamLine(a)
<1>1. (TagOf(a) * CacheLines + IndexOf(a)) * LineBytes = BaseOf(a)
  BY CodeAddress, LineArithmetic
<1> QED
  BY <1>1 DEF LineInRam, RamLine

(* The word that the line of a holds for a is the RAM's word at a.         *)
LEMMA WordOfRamLine ==
  ASSUME NEW a \in FetchAddrs
  PROVE  WordAt(RamLine(a), a) = [i \in 0 .. 3 |-> ram[a + i]]
<1>1. /\ a \in Nat /\ BaseOf(a) \in Nat /\ BaseOf(a) <= a
      /\ a + 4 <= BaseOf(a) + LineBytes
  BY CodeAddress
<1>2. ASSUME NEW i \in 0 .. 3
      PROVE  a - BaseOf(a) + i \in 0 .. LineBytes - 1 /\ BaseOf(a) + (a - BaseOf(a) + i) = a + i
  BY <1>1, SizeAssumption
<1>3. \A i \in 0 .. 3 : RamLine(a)[a - BaseOf(a) + i] = ram[a + i]
  BY <1>2 DEF RamLine
<1> QED
  BY <1>3 DEF WordAt

(* When the fill ends, the controller's answer is the line of the pc.      *)
LEMMA FilledLine ==
  ASSUME StoreInv, FetchBus, ifSta = "fill", ~instBusy
  PROVE  pc \in FetchAddrs /\ instData = RamLine(pc)
<1>1. pc \in FetchAddrs /\ mcSta = "stall" /\ instData \in Line
  BY DEF StoreInv, IInv, TypeOK, McTypeOK, PcKnown, Handshake
<1>2. Captured(instData, LineBytes - 1, BaseOf(pc), LineBytes)
  BY <1>1 DEF FetchBus
<1>3. \A i \in 0 .. LineBytes - 1 : instData[i] = ram[BaseOf(pc) + i]
  BY <1>2, SizeAssumption DEF Captured
<1> QED
  BY <1>1, <1>3 DEF RamLine, Line

(* A hit gives the RAM's word.                                             *)
LEMMA HitWord ==
  ASSUME CacheCoherent, ifSta = "lookup", NEW a \in FetchAddrs, Hit(a)
  PROVE  WordAt(icache[IndexOf(a)].data, a) = [i \in 0 .. 3 |-> ram[a + i]]
<1>1. icache[IndexOf(a)].data = LineInRam(IndexOf(a))
  BY CodeAddress DEF CacheCoherent, Hit
<1>2. LineInRam(IndexOf(a)) = RamLine(a)
  BY LineOfCode DEF Hit
<1> QED
  BY <1>1, <1>2, WordOfRamLine

(* What a step does to the pc, the instruction and the cache: nothing, or  *)
(* a look-up, or the end of the hold, or a fill of the line of the pc.     *)
LEMMA FetchEffect ==
  ASSUME StoreInv, NEW in \in Presented, NEW npc \in NextPcs, NEW io, Clock(in, npc, io)
  PROVE  \/ /\ ifSta = "lookup" /\ npc \in FetchAddrs /\ pc' = npc /\ icache' = icache
            /\ inst' = WordAt(icache[IndexOf(npc)].data, npc)
            /\ ifStallReq' = ~Hit(npc) /\ ifSta' # "fill"
         \/ UNCHANGED ifVars
         \/ /\ pc' = pc /\ pc \in FetchAddrs /\ icache' = icache
            /\ inst' = ZeroWord /\ ifSta \in {"request", "hold"}
         \/ /\ ifSta = "hold" /\ ~ifStallReq /\ UNCHANGED <<pc, inst, icache>> /\ ifSta' = "hold"
         \/ /\ ifSta = "fill" /\ FillLine(instData)
            /\ IF instBusy THEN ifSta' = "fill" /\ ifStallReq'
               ELSE ifSta' # "fill" /\ ifStallReq' = FALSE
<1> DEFINE looked == NextPc(npc # NextPc(FALSE, npc), npc)
           Goal ==
             \/ /\ ifSta = "lookup" /\ npc \in FetchAddrs /\ pc' = npc /\ icache' = icache
                /\ inst' = WordAt(icache[IndexOf(npc)].data, npc)
                /\ ifStallReq' = ~Hit(npc) /\ ifSta' # "fill"
             \/ UNCHANGED ifVars
             \/ /\ pc' = pc /\ pc \in FetchAddrs /\ icache' = icache
                /\ inst' = ZeroWord /\ ifSta \in {"request", "hold"}
             \/ /\ ifSta = "hold" /\ ~ifStallReq /\ UNCHANGED <<pc, inst, icache>> /\ ifSta' = "hold"
             \/ /\ ifSta = "fill" /\ FillLine(instData)
                /\ IF instBusy THEN ifSta' = "fill" /\ ifStallReq'
                   ELSE ifSta' # "fill" /\ ifStallReq' = FALSE
<1>1. looked = npc
  BY NextPcChosen
<1>2. PcKnown /\ Requests
  BY DEF StoreInv, IInv
<1> HIDE DEF looked
<1>3. ASSUME 0 \notin StallNow, LookupHit(looked) PROVE Goal
  <2>1. npc \in FetchAddrs
    BY <1>3 DEF LookupHit, NextPcs
  <2>2. Hit(npc) /\ ifStallReq' = FALSE /\ ifSta' # "fill"
    BY <1>1, <1>3 DEF LookupHit
  <2>3. ifStallReq' = ~Hit(npc)
    BY <2>2
  <2> QED
    BY <1>1, <1>3, <2>1, <2>2, <2>3 DEF LookupHit
<1>4. ASSUME 0 \notin StallNow, LookupMiss(looked) PROVE Goal
  <2>1. npc \in FetchAddrs
    BY <1>4 DEF LookupMiss, NextPcs
  <2>2. ~Hit(npc) /\ ifStallReq' = TRUE /\ ifSta' # "fill"
    BY <1>1, <1>4 DEF LookupMiss
  <2>3. ifStallReq' = ~Hit(npc)
    BY <2>2
  <2> QED
    BY <1>1, <1>4, <2>1, <2>2, <2>3 DEF LookupMiss
<1>5. ASSUME LookupStalled PROVE Goal
  BY <1>5 DEF LookupStalled
<1>6. ASSUME Request(instBusy) PROVE Goal
  BY <1>2, <1>6 DEF Request, PcKnown
<1>7. ASSUME FillWait(instData, instBusy) PROVE Goal
  BY <1>7 DEF FillWait
<1>8. ASSUME FillDone(instData, instBusy) PROVE Goal
  BY <1>8 DEF FillDone
<1>9. ASSUME Hold(StallNow) PROVE Goal
  <2>1. ~ifStallReq /\ pc \in FetchAddrs /\ pc' = pc /\ icache' = icache
    BY <1>2, <1>9 DEF Hold, Requests, PcKnown
  <2> QED
    BY <1>9, <2>1 DEF Hold
<1>10. IfClock(npc # NextPc(FALSE, npc), npc, instData, instBusy, StallNow)
  BY DEF Clock
<1> HIDE DEF Goal
<1>11. Goal
  BY <1>3, <1>4, <1>5, <1>6, <1>7, <1>8, <1>9, <1>10 DEF IfClock, looked
<1> QED
  BY <1>11 DEF Goal

LEMMA CacheStep ==
  ASSUME CacheInv, NEW in \in Presented, NEW npc \in NextPcs, NEW io \in IoBytes, Clock(in, npc, io)
  PROVE  LinesOfCode' /\ InstKnown' /\ CacheCoherent' /\ FetchedFromRam'
<1>1. StoreInv /\ FetchBus /\ StoreOutsideCode /\ Next
      /\ LinesOfCode /\ InstKnown /\ CacheCoherent /\ FetchedFromRam
  BY DEF CacheInv, FetchInv, Next
<1>2. ASSUME NEW a \in FetchAddrs
      PROVE  RamLine(a)' = RamLine(a) /\ [i \in 0 .. 3 |-> ram'[a + i]] = [i \in 0 .. 3 |-> ram[a + i]]
  <2>1. \A i \in 0 .. LineBytes - 1 : ram'[BaseOf(a) + i] = ram[BaseOf(a) + i]
    BY <1>1, CodeUnchanged
  <2>2. RamLine(a)' = RamLine(a)
    BY <2>1 DEF RamLine
  <2>3. /\ WordAt(RamLine(a), a) = [i \in 0 .. 3 |-> ram[a + i]]
        /\ WordAt(RamLine(a)', a) = [i \in 0 .. 3 |-> ram'[a + i]]
    <3>1. /\ a \in Nat /\ BaseOf(a) \in Nat /\ BaseOf(a) <= a
          /\ a + 4 <= BaseOf(a) + LineBytes
      BY CodeAddress
    <3>2. \A i \in 0 .. 3 : a - BaseOf(a) + i \in 0 .. LineBytes - 1
                            /\ BaseOf(a) + (a - BaseOf(a) + i) = a + i
      BY <3>1, SizeAssumption
    <3> QED
      BY <3>2 DEF RamLine, WordAt
  <2> QED
    BY <2>2, <2>3
(* A line that the step leaves alone.                                      *)
<1>3. ASSUME NEW k \in 0 .. CacheLines - 1, icache'[k] = icache[k], icache[k].valid,
             ~(ifSta = "fill" /\ k = IndexOf(pc))
      PROVE  icache'[k].data = LineInRam(k)'
  <2>1. icache[k].data = LineInRam(k)
    BY <1>1, <1>3 DEF CacheCoherent
  <2>2. PICK a \in FetchAddrs : IndexOf(a) = k /\ TagOf(a) = icache[k].tag
    BY <1>1, <1>3 DEF LinesOfCode
  <2>3. LineInRam(k) = RamLine(a)
    BY <2>2, LineOfCode
  <2>4. (TagOf(a) * CacheLines + k) * LineBytes = BaseOf(a)
    BY <2>2, CodeAddress, LineArithmetic
  <2>5. LineInRam(k)' = RamLine(a)'
    BY <1>3, <2>2, <2>4 DEF LineInRam, RamLine
  <2> QED
    BY <1>2, <1>3, <2>1, <2>3, <2>5
(* A step that leaves the cache alone.                                     *)
<1>4. ASSUME icache' = icache, ifSta = "fill" => ifSta' = "fill" /\ pc' = pc
      PROVE  LinesOfCode' /\ CacheCoherent'
  <2>1. LinesOfCode'
    BY <1>1, <1>4 DEF LinesOfCode
  <2>2. CacheCoherent'
    BY <1>3, <1>4 DEF CacheCoherent
  <2> QED
    BY <2>1, <2>2
<1>5. CASE /\ ifSta = "lookup" /\ npc \in FetchAddrs /\ pc' = npc /\ icache' = icache
           /\ inst' = WordAt(icache[IndexOf(npc)].data, npc)
           /\ ifStallReq' = ~Hit(npc) /\ ifSta' # "fill"
  <2>1. LinesOfCode' /\ CacheCoherent'
    BY <1>4, <1>5
  <2>2. InstKnown'
    BY <1>5 DEF InstKnown
  <2>3. CASE Hit(npc)
    <3>1. inst' = [i \in 0 .. 3 |-> ram'[npc + i]]
      BY <1>1, <1>2, <1>5, <2>3, HitWord
    <3> QED
      BY <1>5, <2>1, <2>2, <3>1 DEF FetchedFromRam
  <2>4. CASE ~Hit(npc)
    BY <1>5, <2>1, <2>2, <2>4 DEF FetchedFromRam
  <2> QED
    BY <2>3, <2>4
<1>6. ASSUME UNCHANGED <<pc, inst, icache>>, ~ifStallReq' => ~ifStallReq,
             ifSta = "fill" => ifSta' = "fill"
      PROVE  LinesOfCode' /\ InstKnown' /\ CacheCoherent' /\ FetchedFromRam'
  <2>1. LinesOfCode' /\ CacheCoherent'
    BY <1>4, <1>6
  <2>2. InstKnown'
    BY <1>1, <1>6 DEF InstKnown
  <2>3. ASSUME ~ifStallReq', inst' # ZeroWord PROVE inst' = [i \in 0 .. 3 |-> ram'[pc' + i]]
    <3>1. pc \in FetchAddrs /\ inst = [i \in 0 .. 3 |-> ram[pc + i]]
      BY <1>1, <1>6, <2>3 DEF InstKnown, FetchedFromRam
    <3> QED
      BY <1>2, <1>6, <3>1
  <2> QED
    BY <2>1, <2>2, <2>3 DEF FetchedFromRam
<1>7. CASE UNCHANGED ifVars
  BY <1>6, <1>7 DEF ifVars
<1>8. CASE /\ pc' = pc /\ pc \in FetchAddrs /\ icache' = icache
           /\ inst' = ZeroWord /\ ifSta \in {"request", "hold"}
  BY <1>4, <1>8 DEF InstKnown, FetchedFromRam
<1>9. CASE ifSta = "hold" /\ ~ifStallReq /\ UNCHANGED <<pc, inst, icache>> /\ ifSta' = "hold"
  BY <1>6, <1>9
<1>10. CASE /\ ifSta = "fill" /\ FillLine(instData)
            /\ IF instBusy THEN ifSta' = "fill" /\ ifStallReq'
               ELSE ifSta' # "fill" /\ ifStallReq' = FALSE
  <2>1. pc \in FetchAddrs /\ pc' = pc /\ icache \in [0 .. CacheLines - 1 -> [valid : BOOLEAN, tag : Nat, data : Line]]
    BY <1>1, <1>10 DEF StoreInv, IInv, TypeOK, IfTypeOK, PcKnown, FillLine
  <2>2. IndexOf(pc) \in 0 .. CacheLines - 1 /\ TagOf(pc) \in Nat
    BY <2>1, CodeAddress
  <2>3. \A k \in 0 .. CacheLines - 1 : k # IndexOf(pc) => icache'[k] = icache[k]
    BY <1>10, <2>1 DEF FillLine
  <2>4. icache'[IndexOf(pc)] = [valid |-> TRUE, tag |-> TagOf(pc), data |-> instData]
    BY <1>10, <2>1, <2>2 DEF FillLine
  <2>5. LinesOfCode'
    BY <1>1, <2>1, <2>3, <2>4 DEF LinesOfCode
  <2>6. InstKnown'
    BY <2>1 DEF InstKnown
  <2>7. CASE instBusy
    <3>1. CacheCoherent'
      BY <1>3, <1>10, <2>1, <2>3, <2>7 DEF CacheCoherent
    <3>2. FetchedFromRam'
      BY <1>10, <2>7 DEF FetchedFromRam
    <3> QED
      BY <2>5, <2>6, <3>1, <3>2
  <2>8. CASE ~instBusy
    <3>1. instData = RamLine(pc)
      BY <1>1, <1>10, <2>8, FilledLine
    <3>2. (TagOf(pc) * CacheLines + IndexOf(pc)) * LineBytes = BaseOf(pc)
      BY <2>1, CodeAddress, LineArithmetic
    <3>3. LineInRam(IndexOf(pc))' = RamLine(pc)'
      BY <2>1, <2>4, <3>2 DEF LineInRam, RamLine
    <3>4. icache'[IndexOf(pc)].data = LineInRam(IndexOf(pc))'
      BY <1>2, <2>1, <2>4, <3>1, <3>3
    <3>5. CacheCoherent'
      BY <1>3, <2>1, <2>3, <3>4 DEF CacheCoherent
    <3>6. inst' = WordAt(RamLine(pc), pc)
      BY <1>10, <3>1 DEF FillLine
    <3>7. FetchedFromRam'
      BY <1>2, <2>1, <3>6, WordOfRamLine DEF FetchedFromRam
    <3> QED
      BY <2>5, <2>6, <3>5, <3>7
  <2> QED
    BY <2>7, <2>8
<1> QED
  BY <1>1, <1>5, <1>7, <1>8, <1>9, <1>10, FetchEffect

LEMMA CacheInit == Init => CacheInv
<1> SUFFICES ASSUME Init PROVE CacheInv
  OBVIOUS
<1>1. FetchBus /\ StoreOutsideCode /\ InstKnown /\ FetchedFromRam
  BY DEF Init, McInit, IfInit, MaInit, FetchBus, StoreOutsideCode, InstKnown, FetchedFromRam
<1>2. LinesOfCode /\ CacheCoherent
  BY DEF Init, IfInit, LinesOfCode, CacheCoherent
<1> QED
  BY <1>1, <1>2, StoreInit DEF CacheInv, FetchInv

LEMMA CacheNext == CacheInv /\ [Next]_vars => CacheInv'
<1> SUFFICES ASSUME CacheInv, [Next]_vars PROVE CacheInv'
  OBVIOUS
<1>1. StoreInv'
  BY StoreNext DEF CacheInv, FetchInv
<1>2. CASE Next
  <2>1. PICK in \in Presented, npc \in NextPcs, io \in IoBytes : Clock(in, npc, io)
    BY <1>2 DEF Next
  <2>2. FetchBus' /\ StoreOutsideCode'
    BY <2>1, FetchBusStep, StoreOutsideCodeStep DEF CacheInv, FetchInv
  <2>3. LinesOfCode' /\ InstKnown' /\ CacheCoherent' /\ FetchedFromRam'
    BY <2>1, CacheStep
  <2> QED
    BY <1>1, <2>2, <2>3 DEF CacheInv, FetchInv
<1>3. CASE UNCHANGED vars
  <2>1. FetchBus' /\ StoreOutsideCode'
    BY <1>3 DEF vars, ramVars, mcVars, ifVars, maVars, CacheInv, FetchInv, FetchBus,
                Reading, Captured, StoreOutsideCode
  <2>2. LinesOfCode' /\ InstKnown' /\ CacheCoherent' /\ FetchedFromRam'
    BY <1>3 DEF vars, ramVars, ifVars, CacheInv, LinesOfCode, InstKnown,
                CacheCoherent, FetchedFromRam, LineInRam
  <2> QED
    BY <1>1, <2>1, <2>2 DEF CacheInv, FetchInv
<1> QED
  BY <1>2, <1>3

LEMMA CacheInductive == Spec => []CacheInv
BY CacheInit, CacheNext, PTL DEF Spec

(* A line of the instruction cache that is not being filled is the RAM's   *)
(* line, although IFU.v stores every partial line of a fill as valid.      *)
THEOREM CacheCoherentHolds == Spec => []CacheCoherent
<1>1. CacheInv => CacheCoherent
  BY DEF CacheInv
<1> QED
  BY <1>1, CacheInductive, PTL

(* An instruction handed to the decode stage is the RAM's word at the pc   *)
(* handed with it, from the cache or from a fill alike.                    *)
THEOREM FetchedFromRamHolds == Spec => []FetchedFromRam
<1>1. CacheInv => FetchedFromRam
  BY DEF CacheInv
<1> QED
  BY <1>1, CacheInductive, PTL

(* The lines of code in the RAM are those of the program.                  *)
CodeIntact == \A a \in FetchAddrs : \A i \in 0 .. LineBytes - 1 :
                ram[BaseOf(a) + i] = Program[BaseOf(a) + i]

ProgramsWord == ~ifStallReq /\ inst # ZeroWord => inst = [i \in 0 .. 3 |-> Program[pc + i]]

(* What holds of the memory system without its fairness, all together.     *)
LEMMA MemorySafety ==
  Init /\ [][Next]_vars
    => /\ [](TypeOK /\ Handshake /\ CacheCoherent /\ FetchedFromRam /\ ProgramsWord)
       /\ OnlyStoresWrite /\ StoreLands /\ LoadReturnsMemory
<1>1. Init => CodeIntact
  BY DEF Init, RamInit, CodeIntact
<1>2. CacheInv /\ CodeIntact /\ [Next]_vars => CodeIntact'
  <2>1. ASSUME CacheInv, CodeIntact, Next PROVE CodeIntact'
    BY <2>1, CodeUnchanged DEF CacheInv, FetchInv, CodeIntact
  <2>2. ASSUME CodeIntact, UNCHANGED vars PROVE CodeIntact'
    BY <2>2 DEF vars, ramVars, CodeIntact
  <2> QED
    BY <2>1, <2>2
<1>3. CacheInv /\ CodeIntact => ProgramsWord
  <2> SUFFICES ASSUME CacheInv, CodeIntact, ~ifStallReq, inst # ZeroWord
               PROVE  inst = [i \in 0 .. 3 |-> Program[pc + i]]
    BY DEF ProgramsWord
  <2>1. pc \in FetchAddrs /\ inst = [i \in 0 .. 3 |-> ram[pc + i]]
    BY DEF CacheInv, InstKnown, FetchedFromRam
  <2>2. /\ pc \in Nat /\ BaseOf(pc) \in Nat /\ BaseOf(pc) <= pc
        /\ pc + 4 <= BaseOf(pc) + LineBytes
    BY <2>1, CodeAddress
  <2>3. ASSUME NEW i \in 0 .. 3 PROVE ram[pc + i] = Program[pc + i]
    <3>1. (pc - BaseOf(pc)) + i \in 0 .. LineBytes - 1
          /\ BaseOf(pc) + ((pc - BaseOf(pc)) + i) = pc + i
      BY <2>2, SizeAssumption
    <3> QED
      BY <2>1, <3>1 DEF CodeIntact
  <2> QED
    BY <2>1, <2>3
<1>4. CacheInv => TypeOK /\ Handshake /\ CacheCoherent /\ FetchedFromRam
  BY DEF CacheInv, FetchInv, StoreInv, IInv
<1> QED
  BY <1>1, <1>2, <1>3, <1>4, CacheInit, CacheNext, StoreInit, StoreNext, LoadInit, LoadNext,
     OnlyStoresWriteStep, StoreLandsStep, LoadStep, PTL
     DEF OnlyStoresWrite, StoreLands, LoadReturnsMemory

(* An instruction handed to the decode stage is the program's word at its  *)
(* pc: no store of the program reaches its code, and no older contents of  *)
(* a cache line is ever executed (IFU.v with Memory_Ctrl.v).               *)
THEOREM ExecutesProgram == Spec => []ProgramsWord
BY MemorySafety, PTL DEF Spec
=============================================================================
