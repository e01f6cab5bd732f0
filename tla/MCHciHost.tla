----------------------------- MODULE MCHciHost -----------------------------
(* An instance of HciHost: the payloads are opcodes too, the counts have a *)
(* high byte, and one upload wraps at the end of the RAM.                  *)
EXTENDS HciHost

Packet(op, a, n, data) == [op |-> op, addr |-> a, n |-> n, data |-> data]
Plain(op) == Packet(op, 0, 0, <<>>)

MCPackets ==
  {Plain(op) : op \in {"run", "brk", "query_brk", "query_err", "reg_rd", "unknown"}}
  \cup {Packet("echo", 0, 0, <<>>), Packet("echo", 0, 3, <<3, 4, 0>>),
        Packet("io_in", 0, 2, <<4, 3>>),
        Packet("mem_wr", 4, 4, <<10, 3, 4, 9>>), Packet("mem_wr", 17, 2, <<4, 11>>),
        Packet("mem_rd", 3, 6, <<>>), Packet("mem_rd", 16, 3, <<>>)}

Access(wr, sel, din) == [en |-> TRUE, wr |-> wr, sel |-> sel, din |-> din]
MCCpuIo == {Access(TRUE, 0, 7), Access(TRUE, 0, 0), Access(TRUE, 4, 1), Access(FALSE, 0, 0),
            Access(FALSE, 4, 0)}

MCCpuAddrs == {0, 5}
MCDbgReg == [i \in 0 .. 3 |-> i + 4]
=============================================================================
