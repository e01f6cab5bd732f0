------------------------------ MODULE HciHost ------------------------------
(***************************************************************************)
(* The board's communication interface with its two neighbours: the host   *)
(* (controller.cpp, listener.h), which sends well-formed packets and waits *)
(* for the reply of one before it sends the next, and the CPU, which uses  *)
(* the I/O port while it runs.                                             *)
(***************************************************************************)
EXTENDS Hci

CONSTANTS
  HostPackets,   (* the packets the host may send: [op, addr, n, data] *)
  CpuIo,      (* the accesses the CPU may make: [en, wr, sel, din] *)
  CpuAddrs,   (* addresses of the CPU's RAM accesses *)
  Gap         (* clocks between two bytes on the line, 8096 in the design *)

(* A packet the host may send: the data is as long as its count says, an   *)
(* echo is no longer than the transmit fifo, and "disable", which hangs    *)
(* the interface, is never sent.                                           *)
WellFormed(p) ==
  /\ p.op \in DOMAIN Opcode \ {"disable"}
  /\ p.addr \in CpuAddr /\ p.n \in 0 .. Base * Base - 1 /\ p.data \in Seq(Byte)
  /\ Len(p.data) = IF p.op \in {"echo", "io_in", "mem_wr"} THEN p.n ELSE 0
  /\ p.op = "echo" => p.n <= TxSlots

(* The bytes on the line are clocks apart, and the transmit fifo takes the *)
(* four bytes of a register read, which are written one a clock.           *)
ASSUME HostAssumption ==
  /\ Gap \in Nat \ {0} /\ RxSlots >= 2 /\ TxSlots >= 4
  /\ CpuAddrs \subseteq CpuAddr /\ CpuAddrs # {}
  /\ CpuIo \subseteq [en : BOOLEAN, wr : BOOLEAN, sel : {0, 4}, din : Byte]
  /\ \A p \in HostPackets : WellFormed(p)

VARIABLES
  cpu,       (* the CPU's access *)
  running,   (* the host has started the CPU *)
  out,       (* bytes of the packet still to be sent *)
  gap,       (* clocks before the next one can arrive *)
  owed,      (* what the host has to hear, in order *)
  image,     (* what it has uploaded to the RAM *)
  inputs,    (* the input it has uploaded and the CPU has not read *)
  badOp      (* it has sent an unknown opcode *)

hostVars == <<running, out, owed, image, inputs, badOp>>
vars == <<hciVars, cpu, gap, hostVars>>

NoIo == [en |-> FALSE, wr |-> FALSE, sel |-> 0, din |-> 0]

TypeOK ==
  /\ HciTypeOK
  /\ cpu \in CpuIo \cup {NoIo} /\ gap \in 0 .. Gap
  /\ running \in BOOLEAN /\ badOp \in BOOLEAN
  /\ out \in Seq(Byte) /\ owed \in Seq(Byte) /\ inputs \in Seq(Byte)
  /\ image \in [CpuAddr -> Byte]

Init ==
  /\ HciInit
  /\ cpu = NoIo /\ gap = 0 /\ running = FALSE /\ out = <<>> /\ owed = <<>>
  /\ image = ram /\ inputs = <<>> /\ badOp = FALSE
-----------------------------------------------------------------------------
(* The bytes of a packet, and of its reply.                                *)
Encode(p) ==
  <<Opcode[p.op]>>
  \o (IF p.op \in {"mem_rd", "mem_wr"}
      THEN <<p.addr % Base, (p.addr \div Base) % Base, p.addr \div (Base * Base)>> ELSE <<>>)
  \o (IF p.op \in {"mem_rd", "mem_wr", "echo", "io_in"}
      THEN <<p.n % Base, p.n \div Base>> ELSE <<>>)
  \o p.data

Reply(p) ==
  CASE p.op = "echo"      -> p.data
    [] p.op = "mem_rd"    -> [i \in 1 .. p.n |-> image[(p.addr + i - 1) % RamBytes]]
    [] p.op = "query_brk" -> <<IF running THEN 0 ELSE 1>>
    [] p.op = "query_err" -> <<IF badOp THEN 2 ELSE 0>>
    [] p.op = "reg_rd"    -> [i \in 1 .. 4 |-> DbgReg[i - 1]]
    [] OTHER              -> <<>>

Offset(p, a) == ((a - p.addr) % RamBytes) + 1   (* the byte of p's data for address a *)

(* While the CPU runs the host only asks for a break or for the mode, and  *)
(* not while an I/O access is under way (a pause in an access repeats it). *)
SendPacket ==
  /\ out = <<>> /\ owed = <<>>
  /\ \E p \in HostPackets :
       /\ running => p.op \in {"brk", "query_brk"} /\ cpu = NoIo
       /\ p.op = "io_in" => Len(inputs) + p.n <= InSlots
       /\ out' = Encode(p) /\ owed' = Reply(p)
       /\ running' = IF p.op \in {"run", "brk"} THEN p.op = "run" ELSE running
       /\ image' = IF p.op # "mem_wr" THEN image
                   ELSE [a \in CpuAddr |-> IF Offset(p, a) <= p.n THEN p.data[Offset(p, a)]
                                                                  ELSE image[a]]
       /\ inputs' = IF p.op = "io_in" THEN inputs \o p.data ELSE inputs
       /\ badOp' = (badOp \/ p.op = "unknown")
  /\ UNCHANGED <<hciVars, cpu, gap>>

(* The line is quiet: no byte on its way to the packet machine.            *)
Quiet == out = <<>> /\ rx.items = <<>>

(* The CPU's accesses are apart, and are held until the port has seen them.*)
StartIo ==
  /\ ~Active /\ Quiet /\ ~qIoEn /\ cpu = NoIo
  /\ cpu' \in CpuIo
  /\ UNCHANGED <<hciVars, gap, hostVars>>

EndIo ==
  /\ ~Active /\ qIoEn /\ cpu # NoIo
  /\ cpu' = NoIo
  /\ UNCHANGED <<hciVars, gap, hostVars>>

(* The HCI drives the bus while it is active.                              *)
Io == IF Active THEN NoIo ELSE cpu

(* The host hears a byte the transmitter is done with, and will hear one   *)
(* that the CPU prints while the transmit fifo takes it.                   *)
Prints == IoEdge(Io) /\ Io.wr /\ wrEn'

Clock(arrives, popped) ==
  /\ arrives => out # <<>> /\ gap = 0
  /\ popped => ~tx.empty
  /\ \E a \in CpuAddrs : HciClock(Io, arrives, IF arrives THEN Head(out) ELSE 0, popped, a)
  /\ out' = IF arrives THEN Tail(out) ELSE out
  /\ gap' = IF arrives THEN Gap ELSE IF gap > 0 THEN gap - 1 ELSE 0
  /\ owed' = (IF popped /\ owed # <<>> THEN Tail(owed) ELSE owed)
             \o (IF Prints THEN <<txData'>> ELSE <<>>)
  /\ inputs' = IF ReadsInput(Io) /\ inputs # <<>> THEN Tail(inputs) ELSE inputs
  /\ UNCHANGED <<cpu, running, image, badOp>>

ByteArrives == \E popped \in BOOLEAN : Clock(TRUE, popped)
ByteLeaves == \E arrives \in BOOLEAN : Clock(arrives, TRUE)
NothingMoves == Clock(FALSE, FALSE)

Next == SendPacket \/ StartIo \/ EndIo \/ ByteArrives \/ ByteLeaves \/ NothingMoves

(* The clock runs, a byte sent arrives, and the transmitter sends on while *)
(* its fifo says that it holds something (UartLink).                       *)
Spec ==
  /\ Init /\ [][Next]_vars
  /\ WF_vars(ByteArrives) /\ WF_vars(ByteLeaves)
  /\ WF_vars(\E arrives, popped \in BOOLEAN : Clock(arrives, popped))
-----------------------------------------------------------------------------
(* The host hears exactly the replies to its packets and the bytes the CPU *)
(* printed, each once and in order, with the bytes of a memory read those  *)
(* it uploaded (hci.v 326-500).                                            *)
HostHears == [][tx'.items # tx.items /\ ByteLeaves => owed # <<>> /\ Head(owed) = Head(tx.items)]_vars

(* When the machine is at rest the RAM is what the host uploaded and the   *)
(* input buffer holds the input uploaded and not yet read (hci.v 362-396,  *)
(* 502-557).                                                               *)
BetweenPackets == state \in {"decode", "disabled"}
AtRest == Quiet /\ BetweenPackets /\ ~inWrEn
Uploaded == AtRest => ram = image /\ ioIn.items = inputs

(* The machine does not hang in a packet: the bytes that the host sends,   *)
(* and not one more, bring it back to where it takes an opcode (hci.v      *)
(* 340-356, 473-496), however slow the transmitter is.                     *)
PacketsServed == ~BetweenPackets ~> BetweenPackets
=============================================================================
