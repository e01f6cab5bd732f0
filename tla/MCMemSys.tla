------------------------------ MODULE MCMemSys ------------------------------
(* A small instance of MemSys: three lines of code, two of which share a   *)
(* cache line, and a line of data.                                         *)
EXTENDS MemSys, FiniteSets

(* Bytes of code differ between lines and between neighbours; the bytes of *)
(* data have both signs.                                                   *)
MCProgram == [a \in CpuAddr |-> (1 + a + a \div LineBytes) % ByteBase]

(* Half of the words hold the fetch unit.                                  *)
MCDecode(word) == [op |-> IF word = ZeroWord THEN "bubble"
                          ELSE IF word[0] % 2 = 0 THEN "branch" ELSE "op"]

MCResetLines == {ZeroLine, [i \in 0 .. LineBytes - 1 |-> (i + 2) % ByteBase]}

MCFetchAddrs == {0, 4, 8, 16, 20}

Data == 24   (* the first byte of the data line *)

Load(width, addr) == [NoAccess EXCEPT !.ma_re = TRUE, !.addr = addr, !.width = width,
                                     !.we = TRUE, !.waddr = 1]
Store(width, addr, v) == [NoAccess EXCEPT !.ma_we = TRUE, !.addr = addr, !.width = width,
                                         !.mdata = [i \in 0 .. 3 |-> (v + i) % ByteBase]]

MCAccesses ==
  {NoAccess, Load("b", Data + 1), Load("bu", Data + 2), Load("h", Data + 1),
   Load("hu", Data), Load("w", Data), Load("b", 2 * RamBytes - 4),
   Store("b", Data + 2, 2), Store("h", Data, 1), Store("w", Data, 3),
   Store("b", 2 * RamBytes - 8, 1)}
=============================================================================
