--------------------------- MODULE MCMemSysPause ---------------------------
(* The debugger breaks into a program that loads.                          *)
EXTENDS MemSysPause

MCProgram == [a \in CpuAddr |-> a % ByteBase]
MCResetLines == {[i \in 0 .. LineBytes - 1 |-> (i + 2) % ByteBase]}
MCDecode(word) == [op |-> "op"]
MCAccesses ==
  {NoAccess, [NoAccess EXCEPT !.ma_re = TRUE, !.addr = 9, !.width = "h", !.we = TRUE, !.waddr = 1]}
=============================================================================
