----------------------------- MODULE CoreProofs -----------------------------
(***************************************************************************)
(* Proofs about the CPU of cpu.v, for every program, size and encoding of  *)
(* the instructions: the bubbles that the forwarding and the branches rest *)
(* on, and that the CPU uses its memory system as MemSys assumes, so that  *)
(* the theorems about MemSys hold of the CPU.                              *)
(***************************************************************************)
EXTENDS Core, TLAPS

(* The instructions behind which the fetch unit holds.                      *)
Holding == {"branch", "jal", "jalr", "system", "load", "fence"}

(* The fetch unit asks for a stall exactly while it fetches a line; an     *)
(* instruction that it hands on in its lookup state is none to hold for.    *)
FetchPhase ==
  /\ ifSta \in {"lookup", "request", "fill", "hold"}
  /\ ifSta \in {"lookup", "hold"} <=> ~ifStallReq
  /\ ifSta = "lookup" => inst = ZeroWord \/ ~HoldsFetch(inst)

(* Behind an instruction to hold for comes a bubble, and the fetch unit    *)
(* looks up the next one.                                                   *)
BubbleBehind == IdInst.op \in Holding => inst = ZeroWord /\ ifSta = "lookup"

HoldInv == FetchPhase /\ BubbleBehind /\ LoadUseBubble

LEMMA HoldInit ==
  ASSUME Init
  PROVE  HoldInv
<1>1. /\ ifSta = "lookup" /\ inst = ZeroWord /\ ifStallReq = FALSE
      /\ ifId.inst = ZeroWord /\ idEx.ma_re = FALSE
  BY DEF Init, IfInit, EmptyIfId, EmptyIdEx
<1>2. IdInst.op = "bubble"
  BY <1>1, DecodeAssumption DEF IdInst
<1> QED
  BY <1>1, <1>2 DEF HoldInv, FetchPhase, BubbleBehind, LoadUseBubble, Holding

(* What a clock edge does to the fetch unit's phase.                        *)
LEMMA PhaseNext ==
  ASSUME FetchPhase, Next
  PROVE  /\ FetchPhase'
         /\ 0 \in StallNow /\ ifSta = "lookup" => UNCHANGED <<ifSta, inst>>
         /\ ifSta = "hold" /\ 0 \notin StallNow => inst' = ZeroWord /\ ifSta' = "lookup"
<1> USE DEF FetchPhase
<1>1. IfClock(UseNpc, NpcAddr, instData, instBusy, StallNow)
  BY DEF Next
<1>2. CASE \E npc : LookupHit(npc) /\ 0 \notin StallNow
  BY <1>2 DEF LookupHit
<1>3. CASE \E npc : LookupMiss(npc) /\ 0 \notin StallNow
  BY <1>3 DEF LookupMiss
<1>4. CASE 0 \in StallNow /\ LookupStalled
  BY <1>4 DEF LookupStalled, ifVars
<1>5. CASE Request(instBusy)
  BY <1>5 DEF Request, AfterRequest
<1>6. CASE FillWait(instData, instBusy)
  BY <1>6 DEF FillWait
<1>7. CASE FillDone(instData, instBusy)
  BY <1>7 DEF FillDone, FillLine
<1>8. CASE Hold(StallNow)
  BY <1>8 DEF Hold
<1> QED
  BY ONLY <1>1, <1>2, <1>3, <1>4, <1>5, <1>6, <1>7, <1>8 DEF IfClock

LEMMA HoldNext ==
  ASSUME HoldInv, Next
  PROVE  HoldInv'
<1>1. /\ FetchPhase'
      /\ 0 \in StallNow /\ ifSta = "lookup" => UNCHANGED <<ifSta, inst>>
      /\ ifSta = "hold" /\ 0 \notin StallNow => inst' = ZeroWord /\ ifSta' = "lookup"
  BY PhaseNext DEF HoldInv
<1>2. /\ 0 \in StallNow <=> maStallReq \/ ifStallReq
      /\ 1 \in StallNow <=> maStallReq
      /\ 2 \in StallNow <=> maStallReq
  BY DEF StallNow, StallCmd
<1>3. Decode(ZeroWord).op \notin Holding
  BY DecodeAssumption DEF Holding
<1>4. BubbleBehind'
  <2> SUFFICES ASSUME IdInst'.op \in Holding
               PROVE  inst' = ZeroWord /\ ifSta' = "lookup"
    BY DEF BubbleBehind
  (* A stalled decode stage keeps its instruction, and the fetch unit, which *)
  (* is at its lookup, waits.                                                *)
  <2>1. CASE maStallReq
    <3>1. ifId' = ifId
      BY <1>2, <2>1 DEF Next, IfIdClock
    <3> QED
      BY <1>1, <1>2, <2>1, <3>1 DEF HoldInv, BubbleBehind, IdInst
  <2>2. CASE ~maStallReq /\ ifStallReq
    <3>1. ifId'.inst = ZeroWord
      BY <1>2, <2>2 DEF Next, IfIdClock, EmptyIfId
    <3> QED
      BY <1>3, <3>1 DEF IdInst
  (* The instruction that enters decode was handed on in the hold state.     *)
  <2>3. CASE ~maStallReq /\ ~ifStallReq
    <3>1. ifId'.inst = inst
      BY <1>2, <2>3 DEF Next, IfIdClock
    <3>2. inst # ZeroWord /\ HoldsFetch(inst)
      BY <1>3, <3>1 DEF IdInst, HoldsFetch, Holding
    <3>3. ifSta = "hold"
      BY <2>3, <3>2 DEF HoldInv, FetchPhase
    <3> QED
      BY <1>1, <1>2, <2>3, <3>3
  <2> QED
    BY <2>1, <2>2, <2>3
<1>5. LoadUseBubble'
  <2> SUFFICES ASSUME idEx'.ma_re
               PROVE  IdInst'.op = "bubble"
    BY DEF LoadUseBubble
  <2>1. CASE maStallReq
    <3>1. ifId' = ifId /\ idEx' = idEx
      BY <1>2, <2>1 DEF Next, IfIdClock, IdExClock
    <3> QED
      BY <3>1 DEF HoldInv, LoadUseBubble, IdInst
  <2>2. CASE ~maStallReq
    <3>1. IdInst.op = "load"
      BY <1>2, <2>2 DEF Next, IdExClock, DecodeOut
    <3>2. inst = ZeroWord /\ ~ifStallReq
      BY <3>1 DEF HoldInv, BubbleBehind, FetchPhase, Holding
    <3>3. ifId'.inst = ZeroWord
      BY <1>2, <2>2, <3>2 DEF Next, IfIdClock
    <3> QED
      BY <3>3, DecodeAssumption DEF IdInst
  <2> QED
    BY <2>1, <2>2
<1> QED
  BY <1>1, <1>4, <1>5 DEF HoldInv

LEMMA HoldInductive == Spec => []HoldInv
<1>1. HoldInv /\ UNCHANGED vars => HoldInv'
  BY DEF HoldInv, FetchPhase, BubbleBehind, LoadUseBubble, IdInst, vars, ifVars, pipeVars
<1> QED
  BY <1>1, HoldInit, HoldNext, PTL DEF Spec

(* While a load executes, decode holds a bubble: the load's address, which *)
(* EXU.v forwards as if it were the result, is never taken for its value.  *)
THEOREM LoadUseBubbleHolds == Spec => []LoadUseBubble
<1>1. HoldInv => LoadUseBubble
  BY DEF HoldInv
<1> QED
  BY <1>1, HoldInductive, PTL

(* A branch decides the next pc while nothing behind it is in the pipeline *)
(* and while the fetch unit takes use_npc, which lasts a single cycle.      *)
THEOREM BranchAloneHolds == Spec => []BranchAlone
<1>1. HoldInv => BranchAlone
  BY DEF HoldInv, BubbleBehind, FetchPhase, BranchAlone, Holding
<1> QED
  BY <1>1, HoldInductive, PTL
-----------------------------------------------------------------------------
(* The memory system of the CPU is MemSys, of which the rest of the CPU is *)
(* the environment.                                                         *)
CONSTANTS
  FetchAddrs,   (* the addresses of the program's instructions *)
  Accesses,     (* what the program presents to the memory-access stage *)
  Program       (* the RAM's initial contents *)

Memory == INSTANCE MemSysProofs

(* What the memory-access stage reads of the execute stage: the access of  *)
(* a load or store only.                                                    *)
ReadOfExecute ==
  IF idEx.ma_we \/ idEx.ma_re THEN ExecuteOut
  ELSE [NoAccess EXCEPT !.we = idEx.we, !.waddr = idEx.waddr, !.wdata = AluOut]

(* The program runs through its own instructions and accesses what it may. *)
ProgramFits ==
  /\ ifSta = "lookup" /\ 0 \notin StallNow => NextPc(UseNpc, NpcAddr) \in FetchAddrs
  /\ maSta = "idle" => ReadOfExecute \in Accesses

LEMMA RamStep ==
  ASSUME RamClock(ramA, ramWr, ramDout)
  PROVE  Memory!RamClock(ramA, ramWr, ramDout)
BY DEF RamClock, RamIndex, IoEnabled, Memory!RamClock, Memory!RamIndex, Memory!IoEnabled

LEMMA McStep ==
  ASSUME McClock(maReq, ifReq, BusByte(ramA, 0))
  PROVE  Memory!McClock(maReq, ifReq, Memory!BusByte(ramA, 0))
BY Zenon DEF McClock, AcceptWrite, AcceptRead, AcceptFetch, Listen, ReadByte, ReadDone,
   WriteByte, WriteDone, Stall, FetchMayStart, ListenData, ReadData, WriteCount, AddressAhead,
   NowSeen, Capture, BytesOf, BusByte, IoEnabled, NextBus, ZeroLine, ZeroWord,
   Memory!McClock, Memory!AcceptWrite, Memory!AcceptRead, Memory!AcceptFetch, Memory!Listen,
   Memory!ReadByte, Memory!ReadDone, Memory!WriteByte, Memory!WriteDone, Memory!Stall,
   Memory!FetchMayStart, Memory!ListenData, Memory!ReadData, Memory!WriteCount,
   Memory!AddressAhead, Memory!NowSeen, Memory!Capture, Memory!BytesOf, Memory!BusByte,
   Memory!IoEnabled, Memory!NextBus, Memory!ZeroLine, Memory!ZeroWord

LEMMA SameStall == Memory!StallNow = StallNow
BY DEF StallNow, StallCmd, Memory!StallNow, Memory!StallCmd

(* A redirection matters by the address it leads to alone.                  *)
LEMMA FetchStep ==
  ASSUME ProgramFits, IfClock(UseNpc, NpcAddr, instData, instBusy, StallNow)
  PROVE  \E npc \in Memory!NextPcs :
           Memory!IfClock(npc # Memory!NextPc(FALSE, npc), npc, instData, instBusy, Memory!StallNow)
<1>1. \A npc : Memory!NextPc(npc # Memory!NextPc(FALSE, npc), npc) = npc
  BY DEF Memory!NextPc
<1>2. CASE ifSta = "lookup" /\ 0 \notin StallNow
  <2> DEFINE npc == NextPc(UseNpc, NpcAddr)
  <2>1. npc \in Memory!NextPcs
    BY <1>2, SameStall DEF ProgramFits, Memory!NextPcs
  <2>2. LookupHit(npc) \/ LookupMiss(npc)
    BY <1>2 DEF IfClock, LookupStalled, Request, FillWait, FillDone, Hold
  <2> HIDE DEF npc
  <2>3. Memory!LookupHit(npc) \/ Memory!LookupMiss(npc)
    BY <2>2, Zenon DEF LookupHit, LookupMiss, Hit, IndexOf, LineOf, TagOf, BaseOf, WordAt, HoldsFetch,
       Memory!LookupHit, Memory!LookupMiss, Memory!Hit, Memory!IndexOf, Memory!LineOf,
       Memory!TagOf, Memory!BaseOf, Memory!WordAt, Memory!HoldsFetch
  <2> QED
    BY ONLY <1>1, <1>2, <2>1, <2>3, SameStall DEF Memory!IfClock
<1>3. CASE ~(ifSta = "lookup" /\ 0 \notin StallNow)
  <2>1. pc \in Memory!NextPcs
    BY <1>3, SameStall DEF Memory!NextPcs
  <2>2. \/ 0 \in StallNow /\ LookupStalled
        \/ Request(instBusy)
        \/ FillWait(instData, instBusy)
        \/ FillDone(instData, instBusy)
        \/ Hold(StallNow)
    BY <1>3 DEF IfClock, LookupHit, LookupMiss
  <2>3. \/ 0 \in StallNow /\ Memory!LookupStalled
        \/ Memory!Request(instBusy)
        \/ Memory!FillWait(instData, instBusy)
        \/ Memory!FillDone(instData, instBusy)
        \/ Memory!Hold(StallNow)
    BY <2>2, Zenon DEF LookupStalled, ifVars, Request, AfterRequest, FillWait, FillDone, FillLine, Hold,
       IndexOf, LineOf, TagOf, BaseOf, WordAt, HoldsFetch, ZeroWord, Memory!LookupStalled,
       Memory!ifVars, Memory!Request, Memory!AfterRequest, Memory!FillWait, Memory!FillDone,
       Memory!FillLine, Memory!Hold, Memory!IndexOf, Memory!LineOf, Memory!TagOf,
       Memory!BaseOf, Memory!WordAt, Memory!HoldsFetch, Memory!ZeroWord
  <2> QED
    BY <2>1, <2>3, SameStall DEF Memory!IfClock
<1> QED
  BY <1>2, <1>3

LEMMA MaStep ==
  ASSUME ProgramFits, MaClock(ExecuteOut, memRdata, memBusy, StallNow)
  PROVE  \E in \in Memory!Presented : Memory!MaClock(in, memRdata, memBusy, Memory!StallNow)
<1>1. CASE maSta = "idle"
  <2>1. ReadOfExecute \in Memory!Presented
    BY <1>1 DEF ProgramFits, Memory!Presented
  <2>2. /\ ReadOfExecute.ma_we <=> ExecuteOut.ma_we
        /\ ReadOfExecute.ma_re <=> ExecuteOut.ma_re
        /\ ExecuteOut.ma_we \/ ExecuteOut.ma_re => ReadOfExecute = ExecuteOut
        /\ WriteBack(ReadOfExecute) = WriteBack(ExecuteOut)
    BY DEF ReadOfExecute, ExecuteOut, NoAccess, WriteBack
  <2>3. \/ StartAccess(ReadOfExecute, StallNow)
        \/ PassThrough(ReadOfExecute, StallNow)
        \/ Keep(memBusy, StallNow)
    BY <1>1, <2>2 DEF MaClock, StartAccess, PassThrough, AwaitAccept, Finish
  <2>4. \/ Memory!StartAccess(ReadOfExecute, StallNow)
        \/ Memory!PassThrough(ReadOfExecute, StallNow)
        \/ Memory!Keep(memBusy, StallNow)
    BY <2>3, Zenon DEF StartAccess, PassThrough, Keep, WriteBack, NoRequest, ZeroWord, maVars,
       Memory!StartAccess, Memory!PassThrough, Memory!Keep, Memory!WriteBack, Memory!NoRequest,
       Memory!ZeroWord, Memory!maVars
  <2> QED
    BY <2>1, <2>4, SameStall DEF Memory!MaClock
<1>2. CASE maSta # "idle"
  <2>1. Memory!NoAccess \in Memory!Presented
    BY <1>2 DEF Memory!Presented
  <2>2. Keep(memBusy, StallNow) \/ AwaitAccept(memBusy) \/ Finish(memBusy, memRdata)
    BY <1>2 DEF MaClock, StartAccess, PassThrough
  <2>3. \/ Memory!Keep(memBusy, StallNow)
        \/ Memory!AwaitAccept(memBusy)
        \/ Memory!Finish(memBusy, memRdata)
    BY <2>2, Zenon DEF Keep, AwaitAccept, Finish, LoadValue, SignFill, BytesOf, maVars, Memory!Keep,
       Memory!AwaitAccept, Memory!Finish, Memory!LoadValue, Memory!SignFill, Memory!BytesOf,
       Memory!maVars
  <2> QED
    BY <2>1, <2>3, SameStall DEF Memory!MaClock
<1> QED
  BY <1>1, <1>2

LEMMA MemoryStep ==
  ASSUME ProgramFits, Next
  PROVE  Memory!Next
<1>1. PICK npc \in Memory!NextPcs :
        Memory!IfClock(npc # Memory!NextPc(FALSE, npc), npc, instData, instBusy, Memory!StallNow)
  BY FetchStep DEF Next
<1>2. PICK in \in Memory!Presented : Memory!MaClock(in, memRdata, memBusy, Memory!StallNow)
  BY MaStep DEF Next
<1>3. 0 \in Memory!IoBytes
  BY SizeAssumption DEF Memory!IoBytes, Memory!Byte
<1>4. Memory!RamClock(ramA, ramWr, ramDout)
  BY RamStep DEF Next
<1>5. Memory!McClock(maReq, ifReq, Memory!BusByte(ramA, 0))
  BY McStep DEF Next
<1> QED
  BY <1>1, <1>2, <1>3, <1>4, <1>5 DEF Memory!Next, Memory!Clock

LEMMA MemoryInit ==
  ASSUME Init, ram = Program
  PROVE  Memory!Init
BY Zenon DEF Init, RamInit, McInit, IfInit, MaInit, ZeroWord, ZeroLine, NoRequest,
   Memory!Init, Memory!RamInit, Memory!McInit, Memory!IfInit, Memory!MaInit, Memory!ZeroWord,
   Memory!ZeroLine, Memory!NoRequest

(* The CPU drives its memory system as MemSys assumes: every clock edge of *)
(* cpu.v is one of MemSys, as long as the program stays within its own     *)
(* instructions and accesses.                                              *)
THEOREM CpuDrivesMemSys ==
  Spec /\ ram = Program /\ []ProgramFits => Memory!Init /\ [][Memory!Next]_(Memory!vars)
<1>1. UNCHANGED vars => UNCHANGED Memory!vars
  BY DEF vars, ramVars, mcVars, ifVars, maVars,
     Memory!vars, Memory!ramVars, Memory!mcVars, Memory!ifVars, Memory!maVars
<1> QED
  BY <1>1, MemoryInit, MemoryStep, PTL DEF Spec

(* So what holds of the memory system holds in the CPU: decode gets words  *)
(* of the program and bubbles, loads return what the RAM holds, stores     *)
(* land, and nothing else changes the RAM.                                 *)
THEOREM CpuMemoryCorrect ==
  ASSUME Memory!EnvAssumption
  PROVE  Spec /\ ram = Program /\ []ProgramFits
           => /\ [](Memory!TypeOK /\ Memory!Handshake /\ Memory!CacheCoherent /\ Memory!ProgramsWord)
              /\ Memory!OnlyStoresWrite /\ Memory!StoreLands /\ Memory!LoadReturnsMemory
<1>1. Memory!SizeAssumption /\ Memory!CacheAssumption /\ Memory!RegsAssumption
  BY SizeAssumption, CacheAssumption, RegsAssumption
     DEF Memory!SizeAssumption, Memory!CacheAssumption, Memory!RegsAssumption,
         Memory!Line, Memory!Byte, Line, Byte
<1>2. Memory!Init /\ [][Memory!Next]_(Memory!vars)
        => /\ [](Memory!TypeOK /\ Memory!Handshake /\ Memory!CacheCoherent /\ Memory!FetchedFromRam
                 /\ Memory!ProgramsWord)
           /\ Memory!OnlyStoresWrite /\ Memory!StoreLands /\ Memory!LoadReturnsMemory
  BY <1>1, Memory!MemorySafety
<1> QED
  BY <1>2, CpuDrivesMemSys, PTL
=============================================================================
