-------------------------------- MODULE Isa --------------------------------
(***************************************************************************)
(* What the CPU promises its programs: the RV32I machine that executes one *)
(* instruction at a time over a program counter, a register file and a     *)
(* memory, with no pipeline, cache or bus.  An instruction is the record   *)
(* [op, f3, alt, rd, rs1, rs2, imm] of its decoding, imm already extended  *)
(* to a word, f3 the funct3 field, alt the bit that selects sub and sra.   *)
(* Written from the ISA, not from the source, for Core to implement.       *)
(***************************************************************************)
EXTENDS Words

CONSTANTS Regs, Decode(_)

VARIABLES pc, regs, mem

isaVars == <<pc, regs, mem>>

-----------------------------------------------------------------------------
Loaded(m, addr, f3) ==
  LET n == CASE f3 \in {0, 4} -> 1 [] f3 \in {1, 5} -> 2 [] OTHER -> 4
      negative == f3 \in {0, 1} /\ 2 * m[addr + n - 1] >= ByteBase
  IN  [i \in 0 .. 3 |-> IF i < n THEN m[addr + i] ELSE IF negative THEN ByteBase - 1 ELSE 0]

Stored(m, addr, f3, word) ==
  LET n == CASE f3 = 0 -> 1 [] f3 = 1 -> 2 [] f3 = 2 -> 4
  IN  [b \in CpuAddr |-> IF b \in addr .. addr + n - 1 THEN word[b - addr] ELSE m[b]]

Shifted(a, s, fill) ==   (* to the right, fill telling whether ones enter *)
  {k \in 0 .. WordBits - 1 : IF k + s < WordBits THEN k + s \in BitsOf(a) ELSE fill}

Computed(f3, alt, a, b) ==
  CASE f3 = 0 -> Wrap(IF alt THEN a + WordValues - b ELSE a + b)
    [] f3 = 1 -> OfBits(MovedUp(BitsOf(a), b % WordBits))
    [] f3 = 2 -> IF SignedLess(a, b) THEN 1 ELSE 0
    [] f3 = 3 -> IF a < b THEN 1 ELSE 0
    [] f3 = 4 -> OfBits((BitsOf(a) \cup BitsOf(b)) \ (BitsOf(a) \cap BitsOf(b)))
    [] f3 = 5 -> OfBits(Shifted(a, b % WordBits, alt /\ SignedLess(a, 0)))
    [] f3 = 6 -> OfBits(BitsOf(a) \cup BitsOf(b))
    [] f3 = 7 -> OfBits(BitsOf(a) \cap BitsOf(b))

Taken(f3, a, b) ==
  CASE f3 = 0 -> a = b
    [] f3 = 1 -> a # b
    [] f3 = 4 -> SignedLess(a, b)
    [] f3 = 5 -> ~SignedLess(a, b)
    [] f3 = 6 -> a < b
    [] f3 = 7 -> a >= b

-----------------------------------------------------------------------------
SetReg(r, value) == regs' = IF r = 0 THEN regs ELSE [regs EXCEPT ![r] = value]

(* The instruction i at the pc, with its operands as numbers.              *)
Execute(i, a, b) ==
  LET next   == (pc + 4) % RamBytes
      target == (pc + i.imm) % RamBytes
      addr   == Wrap(a + i.imm) % (2 * RamBytes)
  IN
  \/ /\ i.op = "lui"
     /\ SetReg(i.rd, ToWord(i.imm)) /\ pc' = next /\ UNCHANGED mem
  \/ /\ i.op = "auipc"
     /\ SetReg(i.rd, ToWord(Wrap(pc + i.imm))) /\ pc' = next /\ UNCHANGED mem
  \/ /\ i.op = "jal"
     /\ SetReg(i.rd, ToWord(pc + 4)) /\ pc' = target /\ UNCHANGED mem
  \/ /\ i.op = "jalr"
     /\ SetReg(i.rd, ToWord(pc + 4))
     /\ pc' = (((a + i.imm) \div 2) * 2) % RamBytes /\ UNCHANGED mem
  \/ /\ i.op = "branch"
     /\ pc' = IF Taken(i.f3, a, b) THEN target ELSE next
     /\ UNCHANGED <<regs, mem>>
  \/ /\ i.op = "load"
     /\ SetReg(i.rd, Loaded(mem, addr, i.f3)) /\ pc' = next /\ UNCHANGED mem
  \/ /\ i.op = "store"
     /\ mem' = Stored(mem, addr, i.f3, ToWord(b))
     /\ pc' = next /\ UNCHANGED regs
  \/ /\ i.op = "opimm"
     /\ SetReg(i.rd, ToWord(Computed(i.f3, i.alt /\ i.f3 = 5, a, i.imm)))
     /\ pc' = next /\ UNCHANGED mem
  \/ /\ i.op = "op"
     /\ SetReg(i.rd, ToWord(Computed(i.f3, i.alt, a, b)))
     /\ pc' = next /\ UNCHANGED mem
  \/ /\ i.op = "fence"
     /\ pc' = next /\ UNCHANGED <<regs, mem>>

Step ==
  LET i == Decode([k \in 0 .. 3 |-> mem[pc + k]])
  IN  Execute(i, ToNat(regs[i.rs1]), ToNat(regs[i.rs2]))

Spec == pc = 0 /\ [][Step]_isaVars
=============================================================================
