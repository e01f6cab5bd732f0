------------------------------- MODULE Fetch -------------------------------
(***************************************************************************)
(* The instruction fetch unit with its direct-mapped instruction cache     *)
(* (core/IFU.v).  A step is taken only when rdy is high and rst is low.    *)
(* The cache is filled on a miss and never invalidated.                    *)
(***************************************************************************)
EXTENDS Machine

CONSTANTS
  CacheLines,   (* 64 in the source *)
  ResetLines,   (* what a line may hold at reset, which clears its valid bit only *)
  Decode(_)     (* the instruction, a record with its class "op", that a word encodes *)

ASSUME CacheAssumption == CacheLines \in Nat \ {0} /\ ResetLines \subseteq Line

VARIABLES
  pc, inst,
  ifSta,       (* sta: "lookup" 00, "request" 10, "fill" 01, "hold" 11 *)
  ifReq,       (* ram_inst_re, ram_inst_addr *)
  ifStallReq,
  icache

ifVars == <<pc, inst, ifSta, ifReq, ifStallReq, icache>>

-----------------------------------------------------------------------------
(* Addresses in the cache.  A pc is word aligned.                          *)
LineOf(a)  == a \div LineBytes
BaseOf(a)  == LineOf(a) * LineBytes
IndexOf(a) == LineOf(a) % CacheLines
TagOf(a)   == LineOf(a) \div CacheLines
WordAt(line, a) == [i \in 0 .. 3 |-> line[a - BaseOf(a) + i]]

Hit_x_NoTag(a) == icache[IndexOf(a)].valid
Hit(a) == icache[IndexOf(a)].valid /\ icache[IndexOf(a)].tag = TagOf(a)

(* inst[6] || !inst[6:4]: a branch, jump or system instruction, or one of  *)
(* the opcodes below 0010000: loads, fences and the bubble.  After it the  *)
(* fetch unit holds for one cycle.                                         *)
HoldsFetch_x_NoLoads(word) == Decode(word).op \in {"branch", "jal", "jalr", "system"}
HoldsFetch_x_NoJumps(word) == Decode(word).op \in {"branch", "load", "fence", "bubble"}
HoldsFetch(word) ==
  Decode(word).op \in {"branch", "jal", "jalr", "system", "load", "fence", "bubble"}

NextPc_x_NoWrap(useNpc, npcAddr) == IF useNpc THEN npcAddr ELSE pc + 4
NextPc(useNpc, npcAddr) ==
  IF useNpc THEN npcAddr
  ELSE IF pc + 4 >= RamBytes THEN pc + 4 - RamBytes ELSE pc + 4

-----------------------------------------------------------------------------
IfTypeOK ==
  /\ pc \in CpuAddr /\ inst \in Word
  /\ ifSta \in {"lookup", "request", "fill", "hold"}
  /\ ifReq \in [re : BOOLEAN, addr : BusAddr]
  /\ ifStallReq \in BOOLEAN
  /\ icache \in [0 .. CacheLines - 1 -> [valid : BOOLEAN, tag : Nat, data : Line]]

IfInit ==
  /\ pc = RamBytes - 4 /\ inst = ZeroWord /\ ifSta = "lookup"
  /\ ifReq = [re |-> FALSE, addr |-> 2 * RamBytes - 1]
  /\ ifStallReq = FALSE
  /\ \E lines \in [0 .. CacheLines - 1 -> ResetLines] :
       icache = [k \in 0 .. CacheLines - 1 |-> [valid |-> FALSE, tag |-> 0, data |-> lines[k]]]

(* Looking up npc, the pc of the instruction to fetch.  On a miss inst     *)
(* takes whatever the line holds: the stall request keeps it from the ID.  *)
LookupHit(npc) ==
  /\ ifSta = "lookup" /\ Hit(npc)
  /\ ifSta' = IF HoldsFetch(WordAt(icache[IndexOf(npc)].data, npc)) THEN "hold" ELSE "lookup"
  /\ ifStallReq' = FALSE
  /\ ifReq' = [re |-> FALSE, addr |-> BaseOf(npc)]
  /\ pc' = npc
  /\ inst' = WordAt(icache[IndexOf(npc)].data, npc)
  /\ UNCHANGED icache

LookupMiss(npc) ==
  /\ ifSta = "lookup" /\ ~Hit(npc)
  /\ ifSta' = "request"
  /\ ifStallReq' = TRUE
  /\ ifReq' = [re |-> TRUE, addr |-> BaseOf(npc)]
  /\ pc' = npc
  /\ inst' = WordAt(icache[IndexOf(npc)].data, npc)
  /\ UNCHANGED icache

LookupStalled ==
  /\ ifSta = "lookup"
  /\ UNCHANGED ifVars

(* Waiting for the memory controller to accept the request.                *)
AfterRequest_x_AnyBusy(ramInstBusy) == "fill"
AfterRequest(ramInstBusy) == IF ramInstBusy THEN "fill" ELSE "request"

Request(ramInstBusy) ==
  /\ ifSta = "request"
  /\ ifSta' = AfterRequest(ramInstBusy)
  /\ inst' = ZeroWord
  /\ ifStallReq' = TRUE /\ ifReq' = [ifReq EXCEPT !.re = TRUE]
  /\ UNCHANGED <<pc, icache>>

(* While the line is read it is copied to the cache in every cycle, valid  *)
(* from the first one on, and its word to inst.                            *)
FillLine(ramInst) ==
  /\ icache' = [icache EXCEPT ![IndexOf(pc)] = [valid |-> TRUE, tag |-> TagOf(pc), data |-> ramInst]]
  /\ inst' = WordAt(ramInst, pc)
  /\ UNCHANGED pc

FillWait(ramInst, ramInstBusy) ==
  /\ ifSta = "fill" /\ ramInstBusy
  /\ FillLine(ramInst)
  /\ ifStallReq' = TRUE /\ ifReq' = [ifReq EXCEPT !.re = TRUE]
  /\ UNCHANGED ifSta

FillDone(ramInst, ramInstBusy) ==
  /\ ifSta = "fill" /\ ~ramInstBusy
  /\ FillLine(ramInst)
  /\ ifSta' = IF HoldsFetch(WordAt(ramInst, pc)) THEN "hold" ELSE "lookup"
  /\ ifStallReq' = FALSE /\ ifReq' = [ifReq EXCEPT !.re = FALSE]

(* The instruction has been handed to the decode stage; one bubble         *)
(* follows, in which a branch is resolved.                                 *)
Hold(stall) ==
  /\ ifSta = "hold"
  /\ ifSta' = IF 0 \in stall THEN "hold" ELSE "lookup"
  /\ inst' = IF 0 \in stall THEN inst ELSE ZeroWord
  /\ ifStallReq' = FALSE /\ ifReq' = [ifReq EXCEPT !.re = FALSE]
  /\ UNCHANGED <<pc, icache>>

IfClock(useNpc, npcAddr, ramInst, ramInstBusy, stall) ==
  \/ 0 \notin stall /\ LookupHit(NextPc(useNpc, npcAddr))
  \/ 0 \notin stall /\ LookupMiss(NextPc(useNpc, npcAddr))
  \/ 0 \in stall /\ LookupStalled
  \/ Request(ramInstBusy)
  \/ FillWait(ramInst, ramInstBusy)
  \/ FillDone(ramInst, ramInstBusy)
  \/ Hold(stall)
=============================================================================
