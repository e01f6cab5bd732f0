---------------------------- MODULE MCCorePause ----------------------------
(* The debugger breaks into a program of one addition.                     *)
EXTENDS CorePause

Add == [op |-> "opimm", f3 |-> 0, alt |-> FALSE, rd |-> 1, rs1 |-> 0, rs2 |-> 0, imm |-> 1]

MCDecode(word) ==
  [Add EXCEPT !.op = CASE word[0] = 1 -> "opimm" [] word[0] = 2 -> "jal" [] OTHER -> "bubble",
              !.rd = word[0] % 2, !.imm = word[0] % 2]

MCResetLines == {[i \in 0 .. LineBytes - 1 |-> (i + 2) % ByteBase]}
MCPrograms == {[a \in CpuAddr |-> IF a = 0 THEN 1 ELSE IF a % 4 = 0 THEN 2 ELSE 0]}
MCInitialRegs == {[r \in Regs |-> ZeroWord]}
=============================================================================
