------------------------------- MODULE MCCore -------------------------------
(***************************************************************************)
(* A small instance of Core: words of 8 bits, three lines of code, of      *)
(* which two share a place in the cache, and a line of data at Data.  A    *)
(* program lies in one line, so that its instructions follow each other    *)
(* without a miss, or across two.  x3 holds Data and no instruction writes *)
(* it.  An instruction is encoded as its position in Table.                *)
(***************************************************************************)
EXTENDS Core, Sequences

Data == 48

I(op, f3, alt, rd, rs1, rs2, imm) ==
  [op |-> op, f3 |-> f3, alt |-> alt, rd |-> rd, rs1 |-> rs1, rs2 |-> rs2, imm |-> imm]
OpImm(f3, rd, rs1, imm)   == I("opimm", f3, FALSE, rd, rs1, 0, imm)
Op(f3, alt, rd, rs1, rs2) == I("op", f3, alt, rd, rs1, rs2, 0)
Load(f3, rd, imm)         == I("load", f3, FALSE, rd, 3, 0, imm)
Store(f3, rs2, imm)       == I("store", f3, FALSE, 0, 3, rs2, imm)
Branch(f3, rs1, rs2, imm) == I("branch", f3, FALSE, 0, rs1, rs2, imm)
Jal(rd, imm)              == I("jal", 0, FALSE, rd, 0, 0, imm)
Jalr(rd, rs1, imm)        == I("jalr", 0, FALSE, rd, rs1, 0, imm)
Minus(n) == WordValues - n

Bubble == I("bubble", 0, FALSE, 0, 0, 0, 0)
Halt   == Jal(0, 0)

(* Instructions that meet every hazard of the pipeline in some order.      *)
Mixed == <<
  OpImm(0, 1, 1, 3), Op(0, FALSE, 2, 1, 2), Op(0, TRUE, 1, 2, 1),
  Load(2, 1, 0), Load(0, 2, 1), Load(5, 1, 2), Store(2, 1, 0), Store(0, 2, 1), Store(1, 1, 2),
  Branch(0, 1, 2, 8), Branch(1, 1, 2, 8), Branch(4, 1, 2, Minus(4)), Jal(1, 8),
  OpImm(0, 0, 1, 1), I("lui", 0, FALSE, 2, 0, 0, 16), I("fence", 0, FALSE, 0, 0, 0, 0) >>

(* A computed jump to End, through a register just computed or just loaded *)
(* (the word at Data + 4 is End).                                          *)
ToX2 == << I("auipc", 0, FALSE, 2, 0, 0, 12), Load(2, 2, 4) >>

(* Every operation and every branch condition over these operands.         *)
Operands == <<0, 1, 5, 127, 128, 255>>
Li(r)    == [k \in DOMAIN Operands |-> OpImm(0, r, 0, Operands[k])]
Ops      == [f3 \in 1 .. 8 |-> Op(f3 - 1, FALSE, 1, 1, 2)] \o <<Op(0, TRUE, 1, 1, 2), Op(5, TRUE, 1, 1, 2)>>
OpImms   == [f3 \in 1 .. 8 |-> OpImm(f3 - 1, 1, 1, 3)] \o <<I("opimm", 5, TRUE, 1, 1, 0, 3)>>
Branches == [k \in 1 .. 6 |-> Branch(<<0, 1, 4, 5, 6, 7>>[k], 1, 2, 8)]

Table == <<Halt, OpImm(0, 1, 0, 5), Jalr(1, 2, 0)>>
         \o Mixed \o ToX2 \o Li(1) \o Li(2) \o Ops \o OpImms \o Branches \o <<Jal(0, 8)>>

MCDecode(word) == IF ToNat(word) \in DOMAIN Table THEN Table[ToNat(word)] ELSE Bubble

(* Programs, as the positions of their instructions.                       *)
HaltCode  == 1
StartCode == 2
JumpCode  == 3
MixedCodes   == 4 .. 19
KindCodes    == {5, 7, 11, 13, 15, 16}   (* one of each kind, and the branch back *)
ToX2Codes    == 20 .. 21
Li1Codes     == 22 .. 27
Li2Codes     == 28 .. 33
ComputeCodes == 34 .. Len(Table) - 1
SkipCode     == Len(Table)
KeepsX2Codes == {k \in MixedCodes : Table[k].rd # 2 /\ Table[k].op \notin {"branch", "jal"}}

MixedPrograms   == {<<StartCode, a, b, c>> : a, b \in MixedCodes, c \in KindCodes}
JumpPrograms    == {<<StartCode, t, JumpCode, HaltCode>> : t \in ToX2Codes}
                   \cup {<<StartCode, t, i, JumpCode>> : t \in ToX2Codes, i \in KeepsX2Codes}
ComputePrograms == {<<a, b, c, HaltCode>> : a \in Li1Codes, b \in Li2Codes, c \in ComputeCodes}

(* The RAM with these instructions, jumps to themselves in the rest of the *)
(* code, the data and, at Data + 4, the address End of one of those jumps. *)
End == 32
Image(code) ==
  [a \in CpuAddr |->
     IF a < 4 * Len(code) THEN (code[a \div 4 + 1] \div ByteBase ^ (a % 4)) % ByteBase
     ELSE IF a < Data THEN (HaltCode \div ByteBase ^ (a % 4)) % ByteBase
     ELSE IF a < Data + 4 THEN (a + 2) % ByteBase
     ELSE (End \div ByteBase ^ (a % 4)) % ByteBase]

(* The same instructions from the middle of the first line on.             *)
Across(code) == <<SkipCode, HaltCode>> \o code

MCPrograms ==
  {Image(code) : code \in MixedPrograms \cup JumpPrograms \cup ComputePrograms}
  \cup {Image(Across(code)) : code \in MixedPrograms \cup JumpPrograms}

(* Before its first fill a line of the cache holds instructions, too.      *)
MCResetLines == {[i \in 0 .. LineBytes - 1 |-> IF i % 4 = 1 THEN 1 ELSE 0]}

MCInitialRegs == {[r \in Regs |-> IF r = 3 THEN ToWord(Data) ELSE ZeroWord]}
=============================================================================
