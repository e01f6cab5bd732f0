-------------------------------- MODULE Core --------------------------------
(***************************************************************************)
(* The whole CPU of cpu.v: the five pipeline stages, with forwarding,      *)
(* stalls, instruction cache and memory controller, over the RAM.  One     *)
(* step is one clock edge with rdy high and rst low.                       *)
(*                                                                         *)
(* Decode and execute (IDU.v, EXU.v) are combinational: operators over the *)
(* pipeline registers.                                                     *)
(***************************************************************************)
EXTENDS Ram, MemoryCtrl, Fetch, MemAccess, Ctrl, Words

CONSTANTS
  Programs,     (* initial contents of the RAM *)
  InitialRegs   (* initial register files: the source resets none of them *)

Operations == {"lui", "auipc", "jal", "jalr", "branch", "load", "store", "opimm", "op", "fence"}
Instruction ==
  [op : Operations \cup {"system", "bubble"}, f3 : 0 .. 7, alt : BOOLEAN,
   rd : Regs, rs1 : Regs, rs2 : Regs, imm : 0 .. WordValues - 1]

(* Every word decodes to the record of its fields.  The zero word, which   *)
(* stands for a bubble in the pipeline, is none of the instructions: its   *)
(* opcode is none of RV32I's.                                              *)
ASSUME DecodeAssumption ==
  /\ \A word \in Word : Decode(word) \in Instruction
  /\ Decode(ZeroWord).op = "bubble"

(* The RAM has a power of two of bytes, a word counts both its halves of   *)
(* the bus, and a register holds a word.                                   *)
ASSUME CoreAssumption ==
  /\ RamBytes % 2 = 0 /\ 2 * RamBytes <= WordValues
  /\ InitialRegs \subseteq [Regs -> Word]

VARIABLES
  ifId,   (* id_pc, id_inst *)
  idEx,   (* ex_alusel, ex_funct, ... *)
  wb,     (* we_out, waddr_out, wdata_out of WB *)
  regs

pipeVars == <<ifId, idEx, wb, regs>>
vars == <<ramVars, mcVars, ifVars, maVars, pipeVars>>

StallNow == StallCmd(ifStallReq, maStallReq)

-----------------------------------------------------------------------------
(* Execute (EX).                                                           *)

ShiftRight(a, s, ones) ==
  OfBits(MovedDown(BitsOf(a), s)
         \cup MovedUp(IF ones THEN 0 .. WordBits - 1 ELSE {}, WordBits - s))

Alu(sel, funct, a, b) ==
  CASE sel = 0 -> Wrap(IF funct THEN a + WordValues - b ELSE a + b)
    [] sel = 1 -> OfBits(MovedUp(BitsOf(a), b % WordBits))
    [] sel = 2 -> IF SignedLess(a, b) THEN 1 ELSE 0
    [] sel = 3 -> IF a < b THEN 1 ELSE 0
    [] sel = 4 -> OfBits((BitsOf(a) \ BitsOf(b)) \cup (BitsOf(b) \ BitsOf(a)))
    [] sel = 5 -> ShiftRight(a, b % WordBits, funct /\ 2 * a >= WordValues)
    [] sel = 6 -> OfBits(BitsOf(a) \cup BitsOf(b))
    [] sel = 7 -> OfBits(BitsOf(a) \cap BitsOf(b))

AluOut == ToWord(Alu(idEx.alusel, idEx.funct, ToNat(idEx.data1), ToNat(idEx.data2)))

(* ma_width is funct3.                                                     *)
WidthOf(f3) == CASE f3 = 0 -> "b" [] f3 = 1 -> "h" [] f3 = 4 -> "bu" [] f3 = 5 -> "hu" [] OTHER -> "w"

ExecuteOut ==
  [ma_we |-> idEx.ma_we, ma_re |-> idEx.ma_re,
   addr |-> ToNat(AluOut) % (2 * RamBytes), width |-> WidthOf(idEx.ma_width),
   mdata |-> idEx.extra,
   we |-> idEx.we, waddr |-> idEx.waddr, wdata |-> AluOut]

-----------------------------------------------------------------------------
(* Decode (ID) of the instruction in ifId.                                 *)

IdInst == Decode(ifId.inst)

(* The register file, with the bypass of the value being written back, and *)
(* in front of it the results still in the execute and memory stages.      *)
RegRead(r) ==
  IF r = 0 THEN ZeroWord
  ELSE IF wb.we /\ wb.waddr = r THEN wb.wdata
  ELSE regs[r]

Forwarded_x_OldestFirst(r) ==
  IF maOut.we /\ maOut.waddr = r /\ r # 0 THEN maOut.wdata
  ELSE IF idEx.we /\ idEx.waddr = r /\ r # 0 THEN AluOut
  ELSE RegRead(r)

Forwarded(r) ==
  IF idEx.we /\ idEx.waddr = r /\ r # 0 THEN AluOut
  ELSE IF maOut.we /\ maOut.waddr = r /\ r # 0 THEN maOut.wdata
  ELSE RegRead(r)

Reg1 == Forwarded(IF IdInst.op \in {"lui", "auipc", "jal", "fence"} THEN 0 ELSE IdInst.rs1)
Reg2 == Forwarded(IdInst.rs2)
ReadsReg2 == IdInst.op \in {"store", "op", "branch", "jalr", "system"}

(* eq, sign_lt and lt; bit 0 of funct3 negates each.                       *)
TakenBranch ==
  LET a == ToNat(Reg1)  b == ToNat(Reg2)  negated == IdInst.f3 % 2 = 1
  IN  \/ IdInst.f3 < 4 /\ (a = b) # negated
      \/ IdInst.f3 \in {4, 5} /\ SignedLess(a, b) # negated
      \/ IdInst.f3 \in {6, 7} /\ (a < b) # negated

(* An ecall or a csr instruction is taken for a branch by bit 6.           *)
UseNpc ==
  \/ IdInst.op \in {"jal", "jalr"}
  \/ IdInst.op \in {"branch", "system"} /\ TakenBranch

NpcAddr ==
  IF IdInst.op = "jalr"
  THEN LET npc1 == (IdInst.imm + ToNat(Reg1)) % RamBytes IN npc1 - (npc1 % 2)
  ELSE (IdInst.imm + ifId.pc) % RamBytes

Writes == IdInst.op \in {"lui", "auipc", "jal", "jalr", "load", "opimm", "op"}

Data1 == CASE IdInst.op = "auipc" -> ToWord(IdInst.imm)
           [] IdInst.op = "jalr"  -> ZeroWord
           [] OTHER               -> Reg1

Data2 == CASE IdInst.op = "store"           -> ToWord(IdInst.imm)
           [] IdInst.op = "auipc"           -> ToWord(ifId.pc)
           [] IdInst.op \in {"jal", "jalr"} -> ToWord(ifId.pc + 4)
           [] OTHER                         -> IF ReadsReg2 THEN Reg2 ELSE ToWord(IdInst.imm)

DecodeOut ==
  [alusel |-> IF IdInst.op \in {"opimm", "op"} THEN IdInst.f3 ELSE 0,
   funct |-> IdInst.alt /\ (IdInst.op = "op" \/ (IdInst.op = "opimm" /\ IdInst.f3 = 5)),
   data1 |-> Data1, data2 |-> Data2,
   extra |-> IF IdInst.op = "store" THEN Reg2 ELSE ToWord(IdInst.imm),
   we |-> Writes, waddr |-> IdInst.rd,
   ma_we |-> IdInst.op = "store", ma_re |-> IdInst.op = "load",
   ma_width |-> IF IdInst.op \in {"load", "store"} THEN IdInst.f3 ELSE 0]

-----------------------------------------------------------------------------
(* The pipeline registers.                                                 *)

EmptyIfId == [pc |-> 0, inst |-> ZeroWord]
EmptyIdEx == [alusel |-> 0, funct |-> FALSE, data1 |-> ZeroWord, data2 |-> ZeroWord,
              extra |-> ZeroWord, we |-> FALSE, waddr |-> 0,
              ma_we |-> FALSE, ma_re |-> FALSE, ma_width |-> 0]
EmptyWb   == [we |-> FALSE, waddr |-> 0, wdata |-> ZeroWord]

IfIdClock ==
  ifId' = IF 1 \in StallNow THEN ifId
          ELSE IF 0 \in StallNow THEN EmptyIfId
          ELSE [pc |-> pc, inst |-> inst]

IdExClock ==
  idEx' = IF 2 \in StallNow THEN idEx
          ELSE IF 1 \in StallNow THEN [EmptyIdEx EXCEPT !.extra = idEx.extra]
          ELSE DecodeOut

WbClock == wb' = IF {3, 4} \cap StallNow # {} THEN EmptyWb ELSE maOut

RegWrite ==
  regs' = IF wb.we /\ wb.waddr # 0 THEN [regs EXCEPT ![wb.waddr] = wb.wdata] ELSE regs

Init ==
  /\ \E contents \in Programs : RamInit(contents)
  /\ McInit /\ IfInit /\ MaInit
  /\ ifId = EmptyIfId /\ idEx = EmptyIdEx /\ wb = EmptyWb
  /\ regs \in InitialRegs

(* The byte of the I/O block is 0: the programs do no input.               *)
Next ==
  /\ RamClock(ramA, ramWr, ramDout)
  /\ McClock(maReq, ifReq, BusByte(ramA, 0))
  /\ IfClock(UseNpc, NpcAddr, instData, instBusy, StallNow)
  /\ IfIdClock
  /\ IdExClock
  /\ MaClock(ExecuteOut, memRdata, memBusy, StallNow)
  /\ WbClock
  /\ RegWrite

(* The clock never stops.                                                  *)
Spec == Init /\ [][Next]_vars /\ WF_vars(Next)
-----------------------------------------------------------------------------
(* Every register holds a value of its kind.                               *)
TypeOK ==
  /\ RamTypeOK /\ McTypeOK /\ IfTypeOK /\ MaTypeOK
  /\ ifId \in [pc : CpuAddr, inst : Word]
  /\ idEx \in [alusel : 0 .. 7, funct : BOOLEAN, data1 : Word, data2 : Word, extra : Word,
               we : BOOLEAN, waddr : Regs, ma_we : BOOLEAN, ma_re : BOOLEAN, ma_width : 0 .. 7]
  /\ wb \in [we : BOOLEAN, waddr : Regs, wdata : Word]
  /\ regs \in [Regs -> Word]

(* The hold state of the fetch unit (IFU.v line 35) leaves exactly one     *)
(* bubble behind a load and behind a branch.  A load's address, which the  *)
(* execute stage forwards as if it were its result (EXU.v line 139), is    *)
(* never read: while a load executes, decode holds a bubble.               *)
LoadUseBubble == idEx.ma_re => IdInst.op = "bubble"

(* While a branch or jump decides the next pc nothing fetched after it has *)
(* entered the pipeline, and the fetch unit is ready to take the new pc in *)
(* this cycle, since use_npc is not kept (IDU.v line 228).                 *)
BranchAlone ==
  IdInst.op \in {"branch", "jal", "jalr", "system"}
    => inst = ZeroWord /\ ifSta = "lookup" /\ ~ifStallReq

(* The machine a programmer sees.  An instruction counts as executed once  *)
(* it has left decode: the memory is the RAM with the stores of the memory *)
(* and execute stages done, a register is the newest value on its way to   *)
(* it, and the pc is that of the oldest instruction not executed.          *)
StoreDone(m, pending, access) ==
  IF pending /\ ~IoEnabled(access.addr)
  THEN [b \in CpuAddr |-> IF b \in AccessBytes(access.addr, access.width)
                          THEN access.wdata[b - access.addr] ELSE m[b]]
  ELSE m
MaMemory  == StoreDone(ram, maReq.we, maReq)
IsaMemory ==
  StoreDone(MaMemory, idEx.ma_we,
            [addr |-> ExecuteOut.addr, width |-> ExecuteOut.width, wdata |-> idEx.extra])

LoadFrom(m, addr, width) ==
  LoadValue(width, [i \in 0 .. 3 |-> IF i < BytesOf(width) THEN m[addr + i] ELSE 0])

IsaReg(r) ==
  IF r = 0 THEN ZeroWord
  ELSE IF idEx.we /\ idEx.waddr = r
  THEN IF idEx.ma_re THEN LoadFrom(MaMemory, ExecuteOut.addr, ExecuteOut.width) ELSE AluOut
  ELSE IF maOut.we /\ maOut.waddr = r
  THEN IF maReq.re THEN LoadFrom(ram, maReq.addr, maReq.width) ELSE maOut.wdata
  ELSE RegRead(r)

IsaPc ==
  IF IdInst.op # "bubble" THEN ifId.pc
  ELSE IF ifSta \in {"request", "fill"} \/ inst # ZeroWord THEN pc
  ELSE NextPc(FALSE, 0)

Programmer == INSTANCE Isa WITH pc <- IsaPc, regs <- [r \in Regs |-> IsaReg(r)], mem <- IsaMemory

(* The CPU implements the sequential machine: every clock step executes    *)
(* one instruction, the next in program order, exactly as the ISA defines  *)
(* it, or none.                                                            *)
ImplementsIsa == Programmer!Spec

(* Instructions never stop leaving decode.                                 *)
KeepsExecuting == []<>(IdInst.op # "bubble" /\ 1 \notin StallNow)
=============================================================================
