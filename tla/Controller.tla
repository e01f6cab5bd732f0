----------------------------- MODULE Controller -----------------------------
(***************************************************************************)
(* The controller on the host (controller.cpp, listener.h) and the board   *)
(* at the other end of its serial line.  A session greets the board,       *)
(* uploads a program and its input, starts the CPU and shows what it       *)
(* prints; it may be killed at any point, and the next one finds the board *)
(* as it was left, or reset by its button.                                 *)
(*                                                                         *)
(* The serial port is taken for what SerialPort shows of it: a write is    *)
(* sent whole and in order, a read gives bytes in order, and fewer than    *)
(* asked for only when its time is over.                                   *)
(***************************************************************************)
EXTENDS Hci, SequencesExt

CONSTANTS
  Greeting,        (* "UART" *)
  JunkBytes,       (* read before it, 8 *)
  RamBlock, InputBlock,   (* bytes of an upload packet, 0x400 and 0x40 *)
  Space,
  DebugBytes,      (* of memory that the debug command shows, 16 *)
  Commands,        (* the command lines: [interactive, image, input] *)
  Ahead,           (* bytes in the port's output queue that a write does not wait for *)
  Program,         (* the I/O accesses that the CPU makes, in order *)
  MaxSessions, MaxDebugs

(* An access on the I/O port.                                              *)
Port == [en : BOOLEAN, wr : BOOLEAN, sel : {0, 4}, din : Byte]

(* A byte is less than an address, each fifo has a slot, and what goes out *)
(* as a number has two bytes.  The image fits in the RAM.                  *)
ASSUME ControllerAssumption ==
  /\ Greeting \in Seq(Byte \ {Opcode[op] : op \in DOMAIN Opcode \ {"unknown"}})
  /\ {Len(Greeting), RamBlock, InputBlock, DebugBytes} \subseteq 0 .. Base * ByteBase - 1
  /\ RamBlock # 0 /\ InputBlock # 0
  /\ {JunkBytes, MaxSessions, MaxDebugs} \subseteq Nat /\ Space \in Byte
  /\ ByteBase <= RamBytes /\ 0 \notin {RxSlots, TxSlots, InSlots}
  /\ Program \in Seq(Port)
  /\ \A c \in Commands : c.interactive \in BOOLEAN /\ {c.image, c.input} \subseteq Seq(Byte)
  /\ \A c \in Commands : c.image # <<>> /\ Len(c.image) <= RamBytes

VARIABLES
  pc,                  (* what the session does next *)
  command,             (* its command line, with the files read *)
  block,               (* packets of the upload that are sent *)
  got,                 (* what its read has so far *)
  debugs,              (* how often it may still ask for registers and memory *)
  heard,               (* what it has received of the CPU *)
  sessions,            (* how many may follow *)
  toBoard, toHost,     (* bytes on the line, and in the port's input queue *)
  cpu, prog,           (* the CPU's access, and those it still makes *)
  said                 (* what it has printed since the session started it *)

session == <<pc, command, block, got, debugs, heard, sessions>>
board == <<hciVars, cpu, prog>>
vars == <<session, board, toBoard, toHost, said>>

image == command.image
input == command.input

NoIo == [en |-> FALSE, wr |-> FALSE, sel |-> 0, din |-> 0]
Reading == {"junk", "check", "regs", "mem"}
Steps == Reading \cup {"exited", "open", "greet", "ram", "spaces", "input", "menu", "receive", "close"}

Init ==
  /\ pc = "exited" /\ command \in Commands /\ block = 0
  /\ got = <<>> /\ debugs = 0 /\ heard = <<>> /\ sessions = MaxSessions
  /\ toBoard = <<>> /\ toHost = <<>> /\ said = <<>>
  /\ HciInit /\ cpu = NoIo /\ prog = Program
-----------------------------------------------------------------------------
(* The packets of a session.  A number goes out as its low and high byte.  *)
Two(n) == <<n % Base, n \div Base>>
Three(n) == <<n % Base, (n \div Base) % Base, n \div (Base * Base)>>

GreetingPacket == <<Opcode.echo>> \o Two(Len(Greeting)) \o Greeting

(* The data of the next block, with the zeros of the program's buffer      *)
(* after the end of the file.                                              *)
Padded(file, i) == IF i <= Len(file) THEN file[i] ELSE 0
BlockOf(file, size) == [j \in 1 .. size |-> Padded(file, block * size + j)]

Blocks_x_WholeOnes(file, size) == Len(file) \div size
Blocks(file, size) == (Len(file) + size - 1) \div size

RamPacket ==
  <<Opcode.mem_wr>> \o Three(block * RamBlock) \o Two(RamBlock) \o BlockOf(image, RamBlock)

(* Two spaces go before the input.                                          *)
SpacesPacket == <<Opcode.io_in>> \o Two(2) \o <<Space, Space>>
InputPacket == <<Opcode.io_in>> \o Two(InputBlock) \o BlockOf(input, InputBlock)

(* The address of the memory read is the register that came back, in a     *)
(* buffer of zeros.                                                         *)
MemReadPacket ==
  <<Opcode.mem_rd>> \o [i \in 1 .. 3 |-> Padded(got, i)] \o Two(DebugBytes)

Send(packet) == Len(toBoard) <= Ahead /\ toBoard' = toBoard \o packet
Silence == UNCHANGED <<toBoard, said>>
started == <<command, sessions>>
-----------------------------------------------------------------------------
(* A session begins with the board as it is, or reset.                      *)
ResetBoard ==
  /\ state' = "decode" /\ decodeCnt' = 0 /\ executeCnt' = 0 /\ addr' = 0 /\ err' = FALSE
  /\ txData' = 0 /\ wrEn' = FALSE /\ inData' = 0 /\ inWrEn' = FALSE /\ qIoEn' = FALSE
  /\ rx' = RxFifo!EmptyFifo /\ tx' = TxFifo!EmptyFifo /\ ioIn' = InFifo!EmptyFifo
  /\ cpu' = NoIo /\ prog' = Program /\ UNCHANGED ramVars

Start ==
  /\ pc = "exited" /\ sessions > 0
  /\ command' \in Commands
  /\ pc' = "open" /\ block' = 0 /\ got' = <<>> /\ heard' = <<>> /\ sessions' = sessions - 1
  /\ debugs' = IF command'.interactive THEN MaxDebugs ELSE 0
  /\ ResetBoard \/ UNCHANGED board
  /\ Silence /\ UNCHANGED toHost

(* init_port.                                                               *)
OpenPort ==
  /\ pc = "open" /\ pc' \in {"junk", "exited"}
  /\ UNCHANGED <<board, started, block, got, debugs, heard, toHost>> /\ Silence

(* A read: bytes come as they are there.  Its time is long against the     *)
(* line's, and is over only when no answer is on its way.                  *)
Wanted ==
  CASE pc = "junk"  -> JunkBytes
    [] pc = "check" -> Len(Greeting)
    [] pc = "regs"  -> 4
    [] pc = "mem"   -> DebugBytes

Still == toBoard = <<>> /\ rx.items = <<>> /\ ~wrEn /\ tx.items = <<>> /\ state \in Waiting

TimesOut_x_Never == FALSE
TimesOut == toHost = <<>> /\ Still

ReadDone == Len(got) = Wanted \/ TimesOut

Taken_x_Everything == Len(toHost)
Taken == IF Len(toHost) < Wanted - Len(got) THEN Len(toHost) ELSE Wanted - Len(got)

ReadSome ==
  /\ pc \in Reading /\ Taken > 0
  /\ got' = got \o SubSeq(toHost, 1, Taken)
  /\ toHost' = SubSeq(toHost, Taken + 1, Len(toHost))
  /\ UNCHANGED <<board, started, pc, block, debugs, heard>> /\ Silence
-----------------------------------------------------------------------------
(* on_init.  The second of sleep is enough for the line to become still,   *)
(* but for a memory read that a cut packet has started.                    *)
JunkRead ==
  /\ pc = "junk" /\ ReadDone
  /\ pc' = "greet" /\ got' = <<>>
  /\ UNCHANGED <<board, started, block, debugs, heard, toHost>> /\ Silence

Greet ==
  /\ pc = "greet" /\ (Still \/ state = "mem_rd_1")
  /\ Send(GreetingPacket) /\ pc' = "check"
  /\ UNCHANGED <<board, started, block, got, debugs, heard, toHost, said>>

(* strcmp of what came with the greeting.                                   *)
Answered_x_Unread == TRUE
Answered == got = Greeting

Check ==
  /\ pc = "check" /\ ReadDone
  /\ pc' = IF Answered THEN "ram" ELSE "exited"
  /\ got' = <<>> /\ toHost' = IF Answered THEN toHost ELSE <<>>
  /\ UNCHANGED <<board, started, block, debugs, heard>> /\ Silence

UploadRam ==
  /\ pc = "ram"
  /\ IF block < Blocks(image, RamBlock)
     THEN Send(RamPacket) /\ block' = block + 1 /\ UNCHANGED <<pc, said>>
     ELSE block' = 0 /\ pc' = (IF input = <<>> THEN "menu" ELSE "spaces") /\ Silence
  /\ UNCHANGED <<board, started, got, debugs, heard, toHost>>

UploadSpaces ==
  /\ pc = "spaces"
  /\ Send(SpacesPacket) /\ pc' = "input"
  /\ UNCHANGED <<board, started, block, got, debugs, heard, toHost, said>>

UploadInput ==
  /\ pc = "input"
  /\ IF block < Blocks(input, InputBlock)
     THEN Send(InputPacket) /\ block' = block + 1 /\ UNCHANGED <<pc, said>>
     ELSE block' = 0 /\ pc' = "menu" /\ Silence
  /\ UNCHANGED <<board, started, got, debugs, heard, toHost>>
-----------------------------------------------------------------------------
(* run and run_auto.                                                        *)
AskRegs ==
  /\ pc = "menu" /\ debugs > 0 /\ debugs' = debugs - 1
  /\ Send(<<Opcode.reg_rd>>) /\ pc' = "regs"
  /\ UNCHANGED <<board, started, block, got, heard, toHost, said>>

AskMem ==
  /\ pc = "regs" /\ ReadDone
  /\ Send(MemReadPacket) /\ pc' = "mem" /\ got' = <<>>
  /\ UNCHANGED <<board, started, block, debugs, heard, toHost, said>>

ShowMem ==
  /\ pc = "mem" /\ ReadDone
  /\ pc' = "menu" /\ got' = <<>>
  /\ UNCHANGED <<board, started, block, debugs, heard, toHost>> /\ Silence

Quit ==
  /\ pc = "menu" /\ command.interactive /\ pc' = "close"
  /\ UNCHANGED <<board, started, block, got, debugs, heard, toHost>> /\ Silence

Run ==
  /\ pc = "menu"
  /\ Send(<<Opcode.run>>) /\ pc' = "receive" /\ said' = <<>>
  /\ UNCHANGED <<board, started, block, got, debugs, heard, toHost>>

Receive ==
  /\ pc = "receive" /\ toHost # <<>>
  /\ heard' = Append(heard, Head(toHost)) /\ toHost' = Tail(toHost)
  /\ pc' = IF Head(toHost) = 0 THEN "close" ELSE "receive"
  /\ UNCHANGED <<board, started, block, got, debugs>> /\ Silence

Close ==
  /\ pc = "close" /\ pc' = "exited" /\ toHost' = <<>>
  /\ UNCHANGED <<board, started, block, got, debugs, heard>> /\ Silence

(* What is still to be sent of a killed session is sent, or the end of it  *)
(* is lost.                                                                 *)
Kill ==
  /\ pc # "exited" /\ sessions > 0
  /\ pc' = "exited" /\ toHost' = <<>>
  /\ \E k \in 0 .. Len(toBoard) : toBoard' = SubSeq(toBoard, 1, k)
  /\ UNCHANGED <<board, started, block, got, debugs, heard, said>>
-----------------------------------------------------------------------------
(* The board: the CPU makes its accesses while it runs, one at a time.     *)
StartIo ==
  /\ ~Active /\ ~qIoEn /\ cpu = NoIo /\ prog # <<>>
  /\ cpu' = Head(prog) /\ prog' = Tail(prog)
  /\ UNCHANGED <<hciVars, session, toBoard, toHost, said>>

EndIo ==
  /\ ~Active /\ qIoEn /\ cpu # NoIo
  /\ cpu' = NoIo
  /\ UNCHANGED <<hciVars, prog, session, toBoard, toHost, said>>

Io == IF Active THEN NoIo ELSE cpu
Prints == IoEdge(Io) /\ Io.wr /\ wrEn'

(* A byte that leaves while no session has the port open is lost.  No byte *)
(* arrives in the clock in which the last one is taken, and none is sent   *)
(* in the clock in which the fifo gets its second: what fifo.v makes of    *)
(* that is UartLink's subject.                                             *)
PortOpen == pc \notin {"exited", "open"}
MayArrive == toBoard # <<>> /\ ~(rd_en(Io) /\ Len(rx.items) = 1)
MayLeave == ~tx.empty /\ ~(wrEn /\ Len(tx.items) = 1)

Clock(arrives, popped) ==
  /\ arrives => MayArrive
  /\ popped => MayLeave
  /\ HciClock(Io, arrives, IF arrives THEN Head(toBoard) ELSE 0, popped, 0)
  /\ toBoard' = IF arrives THEN Tail(toBoard) ELSE toBoard
  /\ toHost' = IF popped /\ PortOpen THEN Append(toHost, Head(tx.items)) ELSE toHost
  /\ said' = IF Prints THEN Append(said, txData') ELSE said
  /\ UNCHANGED <<session, cpu, prog>>

ByteArrives == \E popped \in BOOLEAN : Clock(TRUE, popped)
ByteLeaves == \E arrives \in BOOLEAN : Clock(arrives, TRUE)
NothingMoves == Clock(FALSE, FALSE)

Session ==
  \/ OpenPort \/ ReadSome \/ JunkRead \/ Greet \/ Check
  \/ UploadRam \/ UploadSpaces \/ UploadInput
  \/ AskRegs \/ AskMem \/ ShowMem \/ Quit \/ Run \/ Receive \/ Close

Next ==
  \/ Start \/ Session \/ Kill
  \/ StartIo \/ EndIo \/ ByteArrives \/ ByteLeaves \/ NothingMoves

(* The session goes on, the CPU runs its program, the clock runs, and the  *)
(* line sends both ways.                                                   *)
Spec ==
  /\ Init /\ [][Next]_vars
  /\ WF_vars(Session) /\ WF_vars(StartIo \/ EndIo)
  /\ WF_vars(ByteArrives) /\ WF_vars(ByteLeaves)
  /\ WF_vars(\E arrives, popped \in BOOLEAN : Clock(arrives, popped))
-----------------------------------------------------------------------------
TypeOK ==
  /\ HciTypeOK
  /\ pc \in Steps /\ command \in Commands /\ sessions \in 0 .. MaxSessions
  /\ pc \in Reading => Len(got) <= Wanted
  /\ {got, heard, toBoard, toHost, said} \subseteq Seq(Byte)
  /\ debugs \in 0 .. MaxDebugs

(* When the CPU is started for a session, the RAM holds its program, with  *)
(* zeros to the end of the last block, and the last that the input buffer  *)
(* holds is two spaces and the session's input: whatever an earlier one    *)
(* left, the board has taken every packet for what it was (listener.h      *)
(* 20-99).                                                                 *)
UploadedInput ==
  IF input = <<>> THEN <<>>
  ELSE <<Space, Space>>
       \o [i \in 1 .. Blocks(input, InputBlock) * InputBlock |-> Padded(input, i)]

StartedRight ==
  [][Active /\ ~Active' /\ pc = "receive" =>
       /\ \A a \in 0 .. RamBlock * ((Len(image) + RamBlock - 1) \div RamBlock) - 1 :
            ram[a] = Padded(image, a + 1)
       /\ IsSuffix(UploadedInput, ioIn.items)]_vars

(* What the session shows as the program's output is what the CPU has      *)
(* printed since the session started it, in order: no reply to an earlier  *)
(* packet, nothing of an earlier session's program (controller.cpp         *)
(* 100-178).                                                               *)
HeardWasSaid == pc \in {"receive", "close"} => IsPrefix(heard, said)

(* Every session comes to its end: a board that does not answer is given   *)
(* up, and one that answers runs the program to its end.                   *)
SessionEnds == pc # "exited" ~> pc = "exited"
=============================================================================
