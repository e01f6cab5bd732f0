-------------------------------- MODULE Hci --------------------------------
(***************************************************************************)
(* The host communication interface of hci.v: the machine that reads       *)
(* debug packets from the receive fifo, byte by byte, and serves them, and *)
(* the I/O port of the CPU, whose accesses go before the packets.  One     *)
(* step is one clock.  The fifos of the UART and of the input buffer are   *)
(* FlaggedQueues.  The parity bit of the error code and the cycle counter  *)
(* are left out.                                                           *)
(* (A definition named ..._x_... is not the code's: it is a slip that a    *)
(* checked property must notice when it takes the code's place.)           *)
(***************************************************************************)
EXTENDS Ram, Integers, Sequences

CONSTANTS
  Base,     (* the weight of a packet's high byte, 256 *)
  RxSlots, TxSlots, InSlots,  (* of the fifos: 8, 1024 and 1024 *)
  DbgReg    (* cpu_dbgreg_din, which stands still while the CPU does *)

Opcode ==
  [echo |-> 0, reg_rd |-> 1, unknown |-> 2, brk |-> 3, run |-> 4, io_in |-> 5,
   query_brk |-> 7, query_err |-> 8, mem_rd |-> 9, mem_wr |-> 10, disable |-> 11]

ASSUME HciAssumption ==
  /\ Base \in Nat /\ 2 <= Base /\ Base <= ByteBase /\ ByteBase >= 12
  /\ RamBytes = 2 * Base * Base
  /\ RxSlots \in Nat /\ TxSlots \in Nat /\ InSlots \in Nat
  /\ DbgReg \in [0 .. 3 -> Byte]

VARIABLES
  state, decodeCnt, executeCnt, addr,
  err,                (* q_err_code[DBG_UNKNOWN_OPCODE] *)
  txData, wrEn,       (* the registered write to the transmit fifo *)
  inData, inWrEn,     (* the registered write to the input buffer *)
  qIoEn,
  rx, tx, ioIn        (* the fifos *)

regs == <<state, decodeCnt, executeCnt, addr, err>>
hciVars == <<regs, txData, wrEn, inData, inWrEn, qIoEn, rx, tx, ioIn, ramVars>>

RxFifo == INSTANCE FlaggedQueue WITH fifo <- rx, Value <- Byte, Capacity <- RxSlots
TxFifo == INSTANCE FlaggedQueue WITH fifo <- tx, Value <- Byte, Capacity <- TxSlots
InFifo == INSTANCE FlaggedQueue WITH fifo <- ioIn, Value <- Byte, Capacity <- InSlots

Headers == {"echo_0", "io_in_0", "mem_rd_0", "mem_wr_0"}
States == Headers \cup {"disabled", "decode", "echo_1", "io_in_1", "mem_rd_1", "mem_wr_1",
                        "reg_rd_0", "reg_rd_1", "query_err", "disable"}

HciTypeOK ==
  /\ state \in States /\ decodeCnt \in 0 .. 7
  /\ executeCnt \in CpuAddr /\ addr \in CpuAddr /\ err \in BOOLEAN
  /\ txData \in Byte /\ wrEn \in BOOLEAN /\ inData \in Byte /\ inWrEn \in BOOLEAN
  /\ qIoEn \in BOOLEAN
  /\ RxFifo!FifoTypeOK /\ TxFifo!FifoTypeOK /\ InFifo!FifoTypeOK
  /\ RamTypeOK

HciInit ==
  /\ state = "decode" /\ decodeCnt = 0 /\ executeCnt = 0 /\ addr = 0 /\ err = FALSE
  /\ txData = 0 /\ wrEn = FALSE /\ inData = 0 /\ inWrEn = FALSE /\ qIoEn = FALSE
  /\ RxFifo!Init /\ TxFifo!Init /\ InFifo!Init
  /\ RamInit([a \in CpuAddr |-> 0])

Active == state # "disabled"

Got == ~rx.empty          (* there is a byte to pop *)
rdData == Head(rx.items)

Sends(v) == txData' = v /\ wrEn' = TRUE
Silent == txData' = 0 /\ wrEn' = FALSE
Buffers(v) == inData' = v /\ inWrEn' = TRUE
NoInput == inData' = 0 /\ inWrEn' = FALSE

(* Numbers of 17 bits.                                                     *)
Wrap17_x_NoWrap(n) == n
Wrap17(n) == n % RamBytes
-----------------------------------------------------------------------------
(* The I/O port.  io is the access on the CPU's bus: its enable signal,    *)
(* direction, port (0, or 4 for the second word) and outgoing byte.        *)

IoEdge(io) == io.en /\ ~qIoEn

IoWrite(io) ==
  /\ IoEdge(io) /\ io.wr
  /\ IF ~tx.full /\ (io.sel = 4 \/ io.din # 0)
     THEN Sends(IF io.sel = 4 THEN 0 ELSE io.din)
     ELSE Silent
  /\ NoInput /\ UNCHANGED regs

(* A read of the input also moves a byte that came in to the input buffer. *)
ReadsInput(io) == IoEdge(io) /\ ~io.wr /\ io.sel = 0
TakesInput(io) == ReadsInput(io) /\ Got /\ ~ioIn.full

IoRead(io) ==
  /\ IoEdge(io) /\ ~io.wr
  /\ IF TakesInput(io) THEN Buffers(rdData) ELSE NoInput
  /\ Silent /\ UNCHANGED regs
-----------------------------------------------------------------------------
(* The packets.                                                            *)

(* The states that pop a byte as soon as there is one.                     *)
Waiting == Headers \cup {"disabled", "decode", "echo_1", "io_in_1", "mem_wr_1"}

NoByte ==
  /\ state = "disable" \/ (state \in Waiting /\ ~Got)
  /\ Silent /\ NoInput /\ UNCHANGED regs

Disabled ==
  /\ state = "disabled" /\ Got
  /\ state' = IF rdData = Opcode.brk THEN "decode" ELSE "disabled"
  /\ IF rdData = Opcode.query_brk THEN Sends(0) ELSE Silent
  /\ NoInput /\ UNCHANGED <<decodeCnt, executeCnt, addr, err>>

(* The state that serves each opcode.                                      *)
Served ==
  [b \in {Opcode[op] : op \in DOMAIN Opcode \ {"unknown"}} |->
     CASE b = Opcode.echo      -> "echo_0"
       [] b = Opcode.io_in     -> "io_in_0"
       [] b = Opcode.query_err -> "query_err"
       [] b = Opcode.mem_rd    -> "mem_rd_0"
       [] b = Opcode.mem_wr    -> "mem_wr_0"
       [] b = Opcode.reg_rd    -> "reg_rd_0"
       [] b = Opcode.disable   -> "disable"
       [] b = Opcode.run       -> "disabled"
       [] OTHER                -> "decode"]   (* brk, query_brk *)

DecodeOpcode ==
  /\ state = "decode" /\ Got
  /\ state' = IF rdData \in DOMAIN Served THEN Served[rdData] ELSE "decode"
  /\ err' = (err \/ rdData \notin DOMAIN Served)
  /\ decodeCnt' = 0
  /\ IF rdData = Opcode.query_brk THEN Sends(1) ELSE Silent
  /\ NoInput /\ UNCHANGED <<executeCnt, addr>>

(* The two bytes of a count, the low one first; width is 2 when the        *)
(* machine counts two clocks for a byte.                                   *)
CountByte(first, width, body) ==
  IF decodeCnt = first
  THEN executeCnt' = rdData /\ UNCHANGED state
  ELSE /\ executeCnt' = Wrap17(width * ((executeCnt % Base) + Base * rdData))
       /\ state' = IF executeCnt' # 0 THEN body ELSE "decode"

ShortHeader(now, body) ==
  /\ state = now /\ Got
  /\ decodeCnt' = (decodeCnt + 1) % 8
  /\ CountByte(0, 1, body)
  /\ Silent /\ NoInput /\ UNCHANGED <<addr, err>>

AddressByte_x_LowLost ==
  CASE decodeCnt = 0 -> rdData
    [] decodeCnt = 1 -> Wrap17(Base * rdData)
    [] decodeCnt = 2 -> (addr % (Base * Base)) + Base * Base * (rdData % 2)
AddressByte ==
  CASE decodeCnt = 0 -> rdData
    [] decodeCnt = 1 -> Wrap17((addr % Base) + Base * rdData)
    [] decodeCnt = 2 -> (addr % (Base * Base)) + Base * Base * (rdData % 2)

MemHeader(now, width, body) ==
  /\ state = now /\ Got
  /\ decodeCnt' = (decodeCnt + 1) % 8
  /\ IF decodeCnt < 3
     THEN addr' = AddressByte /\ UNCHANGED <<state, executeCnt>>
     ELSE CountByte(3, width, body) /\ UNCHANGED addr
  /\ Silent /\ NoInput /\ UNCHANGED err

(* One byte of a packet's body is done with.                               *)
CountDown_x_OneMore(body) ==
  /\ executeCnt' = Wrap17(executeCnt - 1)
  /\ state' = IF executeCnt = 0 THEN "decode" ELSE body
CountDown(body) ==
  /\ executeCnt' = Wrap17(executeCnt - 1)
  /\ state' = IF executeCnt' = 0 THEN "decode" ELSE body

Echo ==
  /\ state = "echo_1" /\ Got
  /\ Sends(rdData) /\ CountDown("echo_1")
  /\ NoInput /\ UNCHANGED <<decodeCnt, addr, err>>

InputByte ==
  /\ state = "io_in_1" /\ Got
  /\ IF ioIn.full THEN NoInput ELSE Buffers(rdData)
  /\ CountDown("io_in_1")
  /\ Silent /\ UNCHANGED <<decodeCnt, addr, err>>

QueryErrCode ==
  /\ state = "query_err"
  /\ IF tx.full THEN Silent /\ UNCHANGED state
     ELSE Sends(IF err THEN 2 ELSE 0) /\ state' = "decode"
  /\ NoInput /\ UNCHANGED <<decodeCnt, executeCnt, addr, err>>

RegReadStart ==
  /\ state = "reg_rd_0"
  /\ IF tx.full THEN UNCHANGED <<state, executeCnt, addr>>
     ELSE executeCnt' = 4 /\ addr' = 0 /\ state' = "reg_rd_1"
  /\ Silent /\ NoInput /\ UNCHANGED <<decodeCnt, err>>

RegRead ==
  /\ state = "reg_rd_1"
  /\ IF tx.full THEN Silent /\ UNCHANGED <<state, executeCnt, addr>>
     ELSE /\ Sends(DbgReg[addr % 4]) /\ CountDown("reg_rd_1")
          /\ addr' = Wrap17(addr + 1)
  /\ NoInput /\ UNCHANGED <<decodeCnt, err>>

(* The even counts give the RAM and the transmit fifo a clock to answer.   *)
MayReadMem_x_NotLooking == TRUE
MayReadMem == ~tx.full

MemReadWait ==
  /\ state = "mem_rd_1" /\ executeCnt % 2 = 0
  /\ executeCnt' = Wrap17(executeCnt - 1)
  /\ Silent /\ NoInput /\ UNCHANGED <<state, decodeCnt, addr, err>>

MemRead ==
  /\ state = "mem_rd_1" /\ executeCnt % 2 = 1
  /\ IF MayReadMem
     THEN Sends(ram[ramQ]) /\ CountDown("mem_rd_1") /\ addr' = Wrap17(addr + 1)
     ELSE Silent /\ UNCHANGED <<state, executeCnt, addr>>
  /\ NoInput /\ UNCHANGED <<decodeCnt, err>>

MemWrites(io) == ~IoEdge(io) /\ state = "mem_wr_1" /\ Got

MemWrite ==
  /\ state = "mem_wr_1" /\ Got
  /\ CountDown("mem_wr_1") /\ addr' = Wrap17(addr + 1)
  /\ Silent /\ NoInput /\ UNCHANGED <<decodeCnt, err>>

Packets(io) ==
  /\ ~IoEdge(io)
  /\ \/ NoByte \/ Disabled \/ DecodeOpcode
     \/ ShortHeader("echo_0", "echo_1") \/ Echo
     \/ ShortHeader("io_in_0", "io_in_1") \/ InputByte
     \/ QueryErrCode \/ RegReadStart \/ RegRead
     \/ MemHeader("mem_rd_0", 2, "mem_rd_1") \/ MemReadWait \/ MemRead
     \/ MemHeader("mem_wr_0", 1, "mem_wr_1") \/ MemWrite

(* rd_en of the receive fifo.                                              *)
rd_en(io) == IF IoEdge(io) THEN TakesInput(io) ELSE state \in Waiting

(* One clock: byte is the value that comes in when arrives, popped says    *)
(* that the transmitter is done with its byte, cpuAddr is the address on   *)
(* the CPU's bus, which the RAM sees while the CPU runs.                   *)
HciClock(io, arrives, byte, popped, cpuAddr) ==
  /\ IoWrite(io) \/ IoRead(io) \/ Packets(io)
  /\ qIoEn' = io.en
  /\ rx' = RxFifo!Clocked(rd_en(io), arrives, byte)
  /\ tx' = TxFifo!Clocked(popped, wrEn, txData)
  /\ ioIn' = InFifo!Clocked(ReadsInput(io), inWrEn, inData)
  /\ RamClock(IF Active THEN addr ELSE cpuAddr, MemWrites(io), IF Got THEN rdData ELSE 0)
=============================================================================
