-------------------------- MODULE ControllerProofs --------------------------
(***************************************************************************)
(* Proofs about Controller, for every size of block, packet, fifo and RAM, *)
(* all files and programs, and any number of sessions that are killed at   *)
(* any point: every packet and every register of the board keeps its kind, *)
(* although the board may take the bytes of one packet for another's.      *)
(***************************************************************************)
EXTENDS Controller, SequenceTheorems, TLAPS

-----------------------------------------------------------------------------
(* Numbers and sequences.                                                   *)
LEMMA Sizes ==
  /\ Base \in Nat \ {0} /\ RamBytes \in Nat \ {0} /\ ByteBase \in Nat \ {0}
  /\ 0 .. Base - 1 \subseteq Byte /\ 0 .. 11 \subseteq Byte
  /\ Byte \subseteq CpuAddr /\ CpuAddr \subseteq Nat /\ Byte \subseteq Nat
  /\ RamBytes = 2 * Base * Base
<1>1. RamBytes = 2 * Base * Base /\ Base \in Nat \ {0}
  BY HciAssumption
<1> QED
  BY HciAssumption, SizeAssumption, ControllerAssumption, <1>1 DEF Byte, CpuAddr

LEMMA DivMod ==
  ASSUME NEW b \in Nat \ {0}, NEW n \in Nat
  PROVE  n \div b \in Nat /\ n % b \in 0 .. b - 1 /\ n = b * (n \div b) + (n % b)
OBVIOUS

(* A number below b * c has a quotient below c.                            *)
LEMMA Quotient ==
  ASSUME NEW b \in Nat \ {0}, NEW c \in Nat, NEW n \in 0 .. b * c - 1
  PROVE  n \div b \in 0 .. c - 1
<1> DEFINE q == n \div b
           r == n % b
<1>1. n \in Nat /\ n < b * c
  OBVIOUS
<1>2. q \in Nat /\ r \in 0 .. b - 1 /\ n = b * q + r
  BY <1>1, DivMod
<1> HIDE DEF q, r
<1>3. ASSUME q >= c PROVE FALSE
  <2>1. b * q >= b * c
    BY <1>2, <1>3
  <2> QED BY <1>1, <1>2, <2>1
<1>4. q \in 0 .. c - 1
  BY <1>2, <1>3
<1> QED BY <1>4 DEF q

(* A sequence that is not empty.                                           *)
LEMMA HeadAndTail ==
  ASSUME NEW S, NEW s \in Seq(S), s # <<>>
  PROVE  Head(s) \in S /\ Tail(s) \in Seq(S) /\ Len(Tail(s)) = Len(s) - 1 /\ Len(s) \in Nat \ {0}
BY HeadTailProperties, EmptySeq

(* A part of a sequence.                                                   *)
LEMMA Cut ==
  ASSUME NEW S, NEW s \in Seq(S), NEW m \in 1 .. Len(s) + 1, NEW n \in 0 .. Len(s)
  PROVE  SubSeq(s, m, n) \in Seq(S) /\ Len(SubSeq(s, m, n)) = IF m <= n THEN n - m + 1 ELSE 0
<1>1. \A i \in m .. n : s[i] \in S
  BY ElementOfSeq
<1> QED BY <1>1, SubSeqProperties

-----------------------------------------------------------------------------
(* The packets are bytes.                                                   *)
LEMMA TwoBytes ==
  ASSUME NEW n \in 0 .. Base * ByteBase - 1
  PROVE  Two(n) \in Seq(Byte)
<1>1. n \div Base \in Byte
  BY Quotient, Sizes DEF Byte
<1>2. n % Base \in 0 .. Base - 1
  BY DivMod, Sizes
<1>3. n % Base \in Byte
  BY <1>2, Sizes
<1> QED BY <1>1, <1>3 DEF Two

(* An address in three digits, the highest 0 or 1.                         *)
LEMMA ThreeBytes ==
  ASSUME NEW n \in CpuAddr
  PROVE  Three(n) \in Seq(Byte)
<1> DEFINE s == Base * Base
<1>1. s \in Nat \ {0} /\ RamBytes = s * 2
  BY Sizes
<1>2. n \div s \in 0 .. 1 /\ n \in Nat
  <2> HIDE DEF s
  <2>1. n \in 0 .. s * 2 - 1
    BY <1>1 DEF CpuAddr
  <2> QED BY <1>1, <2>1, Quotient
<1>3. n \div Base \in Nat /\ n % Base \in 0 .. Base - 1
  BY <1>2, DivMod, Sizes
<1>4. (n \div Base) % Base \in 0 .. Base - 1
  BY <1>3, DivMod, Sizes
<1>5. 0 .. 1 \subseteq Byte
  BY Sizes
<1> QED BY <1>2, <1>3, <1>4, <1>5, Sizes DEF Three

(* The file, and zeros behind it.                                          *)
LEMMA PaddedByte ==
  ASSUME NEW file \in Seq(Byte), NEW i \in Nat \ {0}
  PROVE  Padded(file, i) \in Byte
<1>1. i <= Len(file) => file[i] \in Byte
  BY ElementOfSeq
<1> QED BY <1>1, Sizes DEF Padded

LEMMA BlockBytes ==
  ASSUME NEW file \in Seq(Byte), NEW size \in Nat, block \in Nat
  PROVE  BlockOf(file, size) \in Seq(Byte)
<1>1. \A j \in 1 .. size : Padded(file, block * size + j) \in Byte
  <2> TAKE j \in 1 .. size
  <2>1. block * size \in Nat
    OBVIOUS
  <2>2. block * size + j \in Nat \ {0}
    BY <2>1
  <2> QED BY <2>2, PaddedByte
<1> QED BY <1>1 DEF BlockOf

(* The next block to be sent starts inside the file.                       *)
LEMMA BlockInside ==
  ASSUME NEW file \in Seq(Byte), NEW size \in Nat \ {0}, block \in Nat, block < Blocks(file, size)
  PROVE  block * size \in Nat /\ block * size < Len(file)
<1> DEFINE x == Len(file) + size - 1
           q == x \div size
           r == x % size
<1>1. x \in Nat /\ Len(file) \in Nat
  BY LenProperties
<1>2. q \in Nat /\ r \in 0 .. size - 1 /\ x = size * q + r
  BY <1>1, DivMod
<1>3. block + 1 <= q
  BY <1>2 DEF Blocks
<1> HIDE DEF q, r
<1>4. block * size + size <= size * q
  BY <1>2, <1>3
<1>5. block * size \in Nat
  OBVIOUS
<1>6. size * q \in Nat
  BY <1>2
<1> QED BY <1>1, <1>2, <1>4, <1>5, <1>6

-----------------------------------------------------------------------------
(* A fifo after a clock.                                                    *)
QueueOK(f, slots) ==
  /\ f.items \in Seq(Byte) /\ f.empty \in BOOLEAN /\ f.full \in BOOLEAN
  /\ Len(f.items) <= slots
  /\ Len(f.items) = slots => f.full
  /\ f.items = <<>> => f.empty

After(f, slots, rdEn, wEn, v) ==
  LET rd == rdEn /\ ~f.empty
      wr == wEn /\ ~f.full
      rest == IF rd THEN Tail(f.items) ELSE f.items
  IN [items |-> IF wr THEN Append(rest, v) ELSE rest,
      empty |-> (f.empty /\ ~wr) \/ (Len(f.items) = 1 /\ rd),
      full  |-> (f.full /\ ~rd) \/ (Len(f.items) = slots - 1 /\ wr)]

(* The flags may err, but never so that a byte is put where none fits or   *)
(* taken where none is.                                                    *)
LEMMA QueueClock ==
  ASSUME NEW f, NEW slots \in Nat \ {0}, QueueOK(f, slots), NEW rdEn, NEW wEn,
         NEW v, wEn => v \in Byte
  PROVE  QueueOK(After(f, slots, rdEn, wEn, v), slots)
<1> DEFINE rd == rdEn /\ ~f.empty
           wr == wEn /\ ~f.full
           held == Len(f.items)
           rest == IF rd THEN Tail(f.items) ELSE f.items
           items == IF wr THEN Append(rest, v) ELSE rest
           empty == (f.empty /\ ~wr) \/ (held = 1 /\ rd)
           full  == (f.full /\ ~rd) \/ (held = slots - 1 /\ wr)
<1>1. /\ f.items \in Seq(Byte) /\ held \in Nat /\ held <= slots
      /\ held = slots => f.full
      /\ held = 0 => f.empty
  BY EmptySeq DEF QueueOK
<1>2. /\ rest \in Seq(Byte) /\ Len(rest) = held - (IF rd THEN 1 ELSE 0)
      /\ rd => held >= 1
  <2>1. rd => f.items # <<>>
    BY DEF QueueOK
  <2>2. CASE rd
    BY <1>1, <2>1, <2>2, HeadAndTail
  <2>3. CASE ~rd
    BY <1>1, <2>3
  <2> QED BY <2>2, <2>3
<1>3. items \in Seq(Byte) /\ Len(items) = Len(rest) + (IF wr THEN 1 ELSE 0)
  <2>1. wr => v \in Byte
    OBVIOUS
  <2> HIDE DEF rest, wr
  <2>2. CASE wr
    BY <1>2, <2>1, <2>2, AppendProperties
  <2>3. CASE ~wr
    BY <1>2, <2>3
  <2> QED BY <2>2, <2>3
<1>5. wr => ~f.full
  OBVIOUS
<1>6. After(f, slots, rdEn, wEn, v) = [items |-> items, empty |-> empty, full |-> full]
  BY DEF After
<1>7. empty \in BOOLEAN /\ full \in BOOLEAN
  BY Zenon
<1> HIDE DEF rest, items, held
<1>8. Len(items) \in Nat /\ (items = <<>> <=> Len(items) = 0)
  BY <1>3, EmptySeq, LenProperties
<1>9. Len(items) = held - (IF rd THEN 1 ELSE 0) + (IF wr THEN 1 ELSE 0)
  BY <1>2, <1>3
<1> HIDE DEF rd, wr
<1>10. Len(items) <= slots
  BY <1>1, <1>5, <1>9
<1>11. Len(items) = slots => full
  <2>1. CASE rd
    BY <1>1, <1>2, <1>5, <1>9, <2>1
  <2>2. CASE ~rd
    BY <1>1, <1>5, <1>9, <2>2
  <2> QED BY <2>1, <2>2
<1>12. Len(items) = 0 => empty
  <2>1. CASE rd
    BY <1>1, <1>2, <1>9, <2>1
  <2>2. CASE ~rd
    <3>1. Len(items) = 0 => held = 0 /\ ~wr
      BY <1>1, <1>9, <2>2
    <3>2. Len(items) = 0 => f.empty /\ ~wr
      BY <1>1, <3>1
    <3> QED BY <3>2, Zenon
  <2> QED BY <2>1, <2>2
<1> HIDE DEF empty, full
<1> QED BY <1>3, <1>6, <1>7, <1>8, <1>10, <1>11, <1>12 DEF QueueOK

-----------------------------------------------------------------------------
(* The board, whatever the bytes that reach it.                             *)
Fifos == QueueOK(rx, RxSlots) /\ QueueOK(tx, TxSlots) /\ QueueOK(ioIn, InSlots)

BoardRegs ==
  /\ state \in States /\ decodeCnt \in 0 .. 7
  /\ executeCnt \in CpuAddr /\ addr \in CpuAddr /\ err \in BOOLEAN
Writes == txData \in Byte /\ wrEn \in BOOLEAN /\ inData \in Byte /\ inWrEn \in BOOLEAN

BoardOK == BoardRegs /\ Writes /\ Fifos /\ qIoEn \in BOOLEAN /\ RamTypeOK

LEMMA BoardTyped ==
  ASSUME BoardOK
  PROVE  HciTypeOK
BY DEF BoardOK, BoardRegs, Writes, Fifos, QueueOK, HciTypeOK, RxFifo!FifoTypeOK, TxFifo!FifoTypeOK,
       InFifo!FifoTypeOK

LEMMA ByteFetched ==
  ASSUME Fifos, Got
  PROVE  rdData \in Byte
<1>1. rx.items \in Seq(Byte) /\ rx.items # <<>>
  BY DEF Fifos, QueueOK, Got
<1> QED BY <1>1, HeadAndTail DEF rdData

(* A number of 17 bits.                                                    *)
LEMMA WrapTyped ==
  ASSUME NEW n \in Int
  PROVE  Wrap17(n) \in CpuAddr
<1>1. RamBytes \in Nat \ {0}
  BY Sizes
<1> QED BY <1>1 DEF Wrap17, CpuAddr

LEMMA Counting ==
  ASSUME BoardRegs
  PROVE  /\ executeCnt \in Nat /\ addr \in Nat /\ 0 \in Byte /\ 1 \in Byte /\ 2 \in Byte
         /\ Wrap17(addr + 1) \in CpuAddr /\ Wrap17(executeCnt - 1) \in CpuAddr
         /\ (decodeCnt + 1) % 8 \in 0 .. 7
<1>1. executeCnt \in Nat /\ addr \in Nat
  BY Sizes DEF BoardRegs
<1>2. addr + 1 \in Int /\ executeCnt - 1 \in Int
  BY <1>1
<1>3. (decodeCnt + 1) % 8 \in 0 .. 7
  BY DEF BoardRegs
<1> QED BY <1>1, <1>2, <1>3, WrapTyped, Sizes

(* The bytes of a count, any two of them.                                  *)
LEMMA CountTyped ==
  ASSUME BoardRegs, Fifos, Got, NEW first, NEW width \in {1, 2}, NEW body \in States,
         CountByte(first, width, body)
  PROVE  executeCnt' \in CpuAddr /\ state' \in States
<1>1. rdData \in Byte /\ rdData \in Nat /\ rdData \in CpuAddr
  BY ByteFetched, Sizes
<1>2. Wrap17(width * ((executeCnt % Base) + Base * rdData)) \in CpuAddr
  <2> DEFINE n == (executeCnt % Base) + Base * rdData
  <2>1. executeCnt % Base \in Int /\ Base * rdData \in Int
    BY <1>1, Counting, Sizes
  <2>2. n \in Int
    BY <2>1
  <2> HIDE DEF n
  <2>3. width * n \in Int
    BY <2>2
  <2> QED BY <2>3, WrapTyped DEF n
<1> QED BY <1>1, <1>2 DEF CountByte, BoardRegs, States

(* The address collects a byte with three digits' room at most.            *)
LEMMA AddressTyped ==
  ASSUME BoardRegs, Fifos, Got, decodeCnt < 3
  PROVE  AddressByte \in CpuAddr
<1> DEFINE s == Base * Base
<1>1. rdData \in CpuAddr /\ rdData \in Nat /\ addr \in Nat
  BY ByteFetched, Sizes, Counting
<1>2. (addr % Base) + Base * rdData \in Int
  <2>1. addr % Base \in Int /\ Base * rdData \in Int
    BY <1>1, Sizes
  <2> QED BY <2>1
<1>3. (addr % s) + s * (rdData % 2) \in CpuAddr
  <2>1. s \in Nat \ {0} /\ RamBytes = 2 * s
    BY Sizes
  <2> HIDE DEF s
  <2>2. addr % s \in 0 .. s - 1 /\ rdData % 2 \in {0, 1}
    BY <1>1, <2>1
  <2>3. s * 0 = 0 /\ s * 1 = s
    BY <2>1
  <2> QED BY <2>1, <2>2, <2>3 DEF CpuAddr
<1>4. decodeCnt \in {0, 1, 2}
  BY DEF BoardRegs
<1> QED BY <1>1, <1>2, <1>3, <1>4, WrapTyped DEF AddressByte, s

LEMMA ServedTyped == \A b \in DOMAIN Served : Served[b] \in States
<1> DEFINE Target(b) ==
     CASE b = Opcode.echo      -> "echo_0"
       [] b = Opcode.io_in     -> "io_in_0"
       [] b = Opcode.query_err -> "query_err"
       [] b = Opcode.mem_rd    -> "mem_rd_0"
       [] b = Opcode.mem_wr    -> "mem_wr_0"
       [] b = Opcode.reg_rd    -> "reg_rd_0"
       [] b = Opcode.disable   -> "disable"
       [] b = Opcode.run       -> "disabled"
       [] OTHER                -> "decode"
<1>1. \A b \in DOMAIN Served : Served[b] = Target(b)
  BY DEF Served
<1>2. \A b : Target(b) \in States
  BY DEF States, Headers
<1> QED BY <1>1, <1>2

(* The machine of the packets, on any byte in any state.                   *)
LEMMA PacketsTyped ==
  ASSUME BoardOK, NEW io, Packets(io)
  PROVE  BoardRegs' /\ Writes'
<1>1. /\ state \in States /\ decodeCnt \in 0 .. 7 /\ executeCnt \in CpuAddr /\ addr \in CpuAddr
      /\ err \in BOOLEAN /\ executeCnt \in Nat /\ addr \in Nat
      /\ 0 \in Byte /\ 1 \in Byte /\ 2 \in Byte
      /\ Wrap17(addr + 1) \in CpuAddr /\ Wrap17(executeCnt - 1) \in CpuAddr
      /\ (decodeCnt + 1) % 8 \in 0 .. 7
  BY Counting DEF BoardOK, BoardRegs
<1>2. Got => rdData \in Byte
  BY ByteFetched DEF BoardOK
<1>3. BoardRegs /\ Fifos
  BY DEF BoardOK
<1>4. ram[ramQ] \in Byte
  BY DEF BoardOK, RamTypeOK
<1>5. CASE NoByte \/ Disabled
  BY <1>1, <1>5 DEF NoByte, Disabled, Silent, NoInput, Sends, regs, States, BoardRegs, Writes
<1>6. CASE DecodeOpcode
  <2>1. state' \in States
    BY <1>6, ServedTyped DEF DecodeOpcode, States
  <2>2. err' \in BOOLEAN /\ decodeCnt' = 0 /\ executeCnt' = executeCnt /\ addr' = addr
    BY <1>6 DEF DecodeOpcode
  <2>3. (txData' = 0 \/ txData' = 1) /\ wrEn' \in BOOLEAN /\ inData' = 0 /\ inWrEn' = FALSE
    BY <1>6 DEF DecodeOpcode, Silent, NoInput, Sends
  <2>4. Writes'
    BY <1>1, <2>3 DEF Writes
  <2>5. BoardRegs'
    BY <1>1, <2>1, <2>2 DEF BoardRegs
  <2> QED BY <2>4, <2>5
<1>7. CASE ShortHeader("echo_0", "echo_1") \/ ShortHeader("io_in_0", "io_in_1")
  <2>1. PICK body \in {"echo_1", "io_in_1"} : Got /\ CountByte(0, 1, body)
    BY <1>7 DEF ShortHeader
  <2>2. body \in States
    BY DEF States
  <2>3. executeCnt' \in CpuAddr /\ state' \in States
    BY <1>3, <2>1, <2>2, CountTyped
  <2>4. /\ decodeCnt' = (decodeCnt + 1) % 8 /\ addr' = addr /\ err' = err
        /\ txData' = 0 /\ wrEn' = FALSE /\ inData' = 0 /\ inWrEn' = FALSE
    BY <1>7 DEF ShortHeader, Silent, NoInput
  <2> QED BY <1>1, <2>3, <2>4 DEF BoardRegs, Writes
<1>8. CASE MemHeader("mem_rd_0", 2, "mem_rd_1") \/ MemHeader("mem_wr_0", 1, "mem_wr_1")
  <2>1. /\ Got /\ decodeCnt' = (decodeCnt + 1) % 8 /\ err' = err
        /\ txData' = 0 /\ wrEn' = FALSE /\ inData' = 0 /\ inWrEn' = FALSE
    BY <1>8 DEF MemHeader, Silent, NoInput
  <2>2. CASE decodeCnt < 3
    <3>1. addr' = AddressByte /\ state' = state /\ executeCnt' = executeCnt
      BY <1>8, <2>2 DEF MemHeader
    <3>2. addr' \in CpuAddr
      BY <1>3, <2>1, <2>2, <3>1, AddressTyped
    <3> QED BY <1>1, <2>1, <3>1, <3>2 DEF BoardRegs, Writes
  <2>3. CASE ~(decodeCnt < 3)
    <3>1. PICK body \in {"mem_rd_1", "mem_wr_1"}, width \in {1, 2} : CountByte(3, width, body)
      BY <1>8, <2>3 DEF MemHeader
    <3>2. body \in States /\ addr' = addr
      BY <1>8, <2>3 DEF States, MemHeader
    <3>3. executeCnt' \in CpuAddr /\ state' \in States
      BY <1>3, <2>1, <3>1, <3>2, CountTyped
    <3> QED BY <1>1, <2>1, <3>2, <3>3 DEF BoardRegs, Writes
  <2> QED BY <2>2, <2>3
<1>9. CASE Echo \/ InputByte
  BY <1>1, <1>2, <1>9
     DEF Echo, InputByte, CountDown, Sends, Silent, NoInput, Buffers, States, BoardRegs, Writes
<1>10. CASE QueryErrCode
  BY <1>1, <1>10 DEF QueryErrCode, Sends, Silent, NoInput, States, BoardRegs, Writes
<1>11. CASE RegReadStart
  <2>1. 4 \in CpuAddr /\ 0 \in CpuAddr
    BY Sizes
  <2> QED BY <1>1, <1>11, <2>1 DEF RegReadStart, Silent, NoInput, States, BoardRegs, Writes
<1>12. CASE RegRead
  <2>1. DbgReg[addr % 4] \in Byte
    <3>1. addr % 4 \in 0 .. 3
      BY <1>1
    <3> QED BY <3>1, HciAssumption
  <2> QED BY <1>1, <1>12, <2>1
          DEF RegRead, CountDown, Sends, Silent, NoInput, States, BoardRegs, Writes
<1>13. CASE MemReadWait \/ MemRead \/ MemWrite
  BY <1>1, <1>4, <1>13
     DEF MemReadWait, MemRead, MemWrite, CountDown, Sends, Silent, NoInput, States, BoardRegs, Writes
<1> QED
  BY <1>5, <1>6, <1>7, <1>8, <1>9, <1>10, <1>11, <1>12, <1>13 DEF Packets

LEMMA NoIoTyped == NoIo \in Port
BY Sizes DEF NoIo, Port

(* An access of the CPU leaves the machine alone.                          *)
LEMMA IoTyped ==
  ASSUME BoardOK, NEW io \in Port, IoWrite(io) \/ IoRead(io)
  PROVE  BoardRegs' /\ Writes'
<1>1. 0 \in Byte
  BY Sizes
<1>2. BoardRegs'
  BY DEF IoWrite, IoRead, regs, BoardOK, BoardRegs
<1>3. io.din \in Byte
  BY DEF Port
<1>4. CASE IoWrite(io)
  <2>1. inData' = 0 /\ inWrEn' = FALSE
    BY <1>4 DEF IoWrite, NoInput
  <2>2. txData' \in {0, io.din} /\ wrEn' \in BOOLEAN
    BY <1>4 DEF IoWrite, Sends, Silent
  <2> QED BY <1>1, <1>2, <1>3, <2>1, <2>2 DEF Writes
<1>5. CASE IoRead(io)
  <2>1. TakesInput(io) => rdData \in Byte
    BY ByteFetched DEF TakesInput, BoardOK
  <2>2. txData' = 0 /\ wrEn' = FALSE
    BY <1>5 DEF IoRead, Silent
  <2>3. inData' \in Byte /\ inWrEn' \in BOOLEAN
    <3>1. CASE TakesInput(io)
      BY <1>5, <2>1, <3>1 DEF IoRead, Buffers
    <3>2. CASE ~TakesInput(io)
      BY <1>1, <1>5, <3>2 DEF IoRead, NoInput
    <3> QED BY <3>1, <3>2
  <2> QED BY <1>1, <1>2, <2>2, <2>3 DEF Writes
<1> QED BY <1>2, <1>4, <1>5

-----------------------------------------------------------------------------
(* The host, and the line.                                                  *)
LineOK == {got, heard, toBoard, toHost, said} \subseteq Seq(Byte)

(* Between two reads nothing is left of the one before.                    *)
HostOK ==
  /\ pc \in Steps /\ command \in Commands /\ sessions \in 0 .. MaxSessions
  /\ debugs \in 0 .. MaxDebugs /\ block \in Nat
  /\ pc \in Reading => Len(got) <= Wanted
  /\ pc \in {"open", "greet", "ram", "spaces", "input", "menu"} => got = <<>>

CpuOK == cpu \in Port /\ prog \in Seq(Port)

ControllerInv == BoardOK /\ HostOK /\ LineOK /\ CpuOK

LEMMA RamAddress ==
  ASSUME NEW a \in CpuAddr
  PROVE  RamIndex(a) = a /\ ~IoEnabled(a)
BY SizeAssumption DEF CpuAddr, RamIndex, IoEnabled

(* A clock of the board, with a byte that comes in and one that leaves.    *)
LEMMA ClockTyped ==
  ASSUME ControllerInv, NEW arrives \in BOOLEAN, NEW popped \in BOOLEAN, Clock(arrives, popped)
  PROVE  ControllerInv'
<1> DEFINE byte == IF arrives THEN Head(toBoard) ELSE 0
<1>1. BoardOK /\ CpuOK /\ HostOK /\ Fifos /\ 0 \in Byte
  BY Sizes DEF ControllerInv, BoardOK
<1>2. Io \in Port /\ Io.en \in BOOLEAN
  <2>1. Io \in Port
    BY <1>1, NoIoTyped, Zenon DEF Io, CpuOK
  <2> QED BY <2>1 DEF Port
<1>3. HciClock(Io, arrives, byte, popped, 0)
  BY DEF Clock
<1>4. BoardRegs' /\ Writes'
  BY <1>1, <1>2, <1>3, PacketsTyped, IoTyped DEF HciClock
<1>5. qIoEn' \in BOOLEAN
  BY <1>2, <1>3 DEF HciClock
<1>6. arrives => byte \in Byte /\ Tail(toBoard) \in Seq(Byte)
  <2>1. toBoard \in Seq(Byte) /\ (arrives => toBoard # <<>>)
    BY DEF ControllerInv, LineOK, Clock, MayArrive
  <2> QED BY <2>1, HeadAndTail
<1>7. popped => tx.items # <<>> /\ Head(tx.items) \in Byte
  <2>1. tx.items \in Seq(Byte) /\ (popped => tx.items # <<>>)
    BY <1>1 DEF Fifos, QueueOK, Clock, MayLeave
  <2> QED BY <2>1, HeadAndTail
<1>8. RxSlots \in Nat \ {0} /\ TxSlots \in Nat \ {0} /\ InSlots \in Nat \ {0}
  BY HciAssumption, ControllerAssumption
<1>9. QueueOK(rx, RxSlots)'
  <2>1. rx' = After(rx, RxSlots, rd_en(Io), arrives, byte)
    BY <1>3 DEF HciClock, RxFifo!Clocked, After
  <2>2. QueueOK(After(rx, RxSlots, rd_en(Io), arrives, byte), RxSlots)
    BY <1>1, <1>6, <1>8, QueueClock DEF Fifos
  <2> QED BY <2>1, <2>2 DEF QueueOK
<1>10. QueueOK(tx, TxSlots)'
  <2>1. tx' = After(tx, TxSlots, popped, wrEn, txData)
    BY <1>3 DEF HciClock, TxFifo!Clocked, After
  <2>2. txData \in Byte
    BY <1>1 DEF BoardOK, Writes
  <2>3. QueueOK(After(tx, TxSlots, popped, wrEn, txData), TxSlots)
    BY <1>1, <1>8, <2>2, QueueClock DEF Fifos
  <2> QED BY <2>1, <2>3 DEF QueueOK
<1>11. QueueOK(ioIn, InSlots)'
  <2>1. ioIn' = After(ioIn, InSlots, ReadsInput(Io), inWrEn, inData)
    BY <1>3 DEF HciClock, InFifo!Clocked, After
  <2>2. inData \in Byte
    BY <1>1 DEF BoardOK, Writes
  <2>3. QueueOK(After(ioIn, InSlots, ReadsInput(Io), inWrEn, inData), InSlots)
    BY <1>1, <1>8, <2>2, QueueClock DEF Fifos
  <2> QED BY <2>1, <2>3 DEF QueueOK
<1>12. RamTypeOK'
  <2> DEFINE a == IF Active THEN addr ELSE 0
             d == IF Got THEN rdData ELSE 0
  <2>1. a \in CpuAddr /\ ram \in [CpuAddr -> Byte]
    BY <1>1, Sizes DEF BoardOK, BoardRegs, RamTypeOK
  <2>2. d \in Byte
    BY <1>1, ByteFetched
  <2>3. RamClock(a, MemWrites(Io), d)
    BY <1>3 DEF HciClock
  <2> HIDE DEF a, d
  <2>4. ram' = (IF MemWrites(Io) THEN [ram EXCEPT ![a] = d] ELSE ram) /\ ramQ' = a
    BY <2>1, <2>3, RamAddress DEF RamClock
  <2>5. ram' \in [CpuAddr -> Byte]
    BY <2>1, <2>2, <2>4
  <2> QED BY <2>1, <2>4, <2>5 DEF RamTypeOK
<1>13. BoardOK'
  BY <1>4, <1>5, <1>9, <1>10, <1>11, <1>12 DEF BoardOK, Fifos
<1>14. LineOK'
  <2>1. {got, heard, toBoard, toHost, said} \subseteq Seq(Byte)
    BY DEF ControllerInv, LineOK
  <2>2. toBoard' \in Seq(Byte)
    BY <1>6, <2>1 DEF Clock
  <2>3. toHost' \in Seq(Byte)
    <3>1. toHost' = toHost \/ (popped /\ toHost' = Append(toHost, Head(tx.items)))
      BY DEF Clock
    <3> QED BY <1>7, <2>1, <3>1, AppendProperties
  <2>4. said' \in Seq(Byte)
    <3> DEFINE v == txData'
    <3>1. said' = said \/ said' = Append(said, v)
      BY DEF Clock
    <3>2. v \in Byte /\ said \in Seq(Byte)
      BY <1>4, <2>1 DEF Writes
    <3> HIDE DEF v
    <3>3. Append(said, v) \in Seq(Byte)
      BY <3>2, AppendProperties
    <3> QED BY <3>1, <3>2, <3>3
  <2>5. got' = got /\ heard' = heard
    BY DEF Clock, session
  <2> QED BY <2>1, <2>2, <2>3, <2>4, <2>5 DEF LineOK
<1>15. HostOK' /\ CpuOK'
  <2>1. UNCHANGED <<pc, command, block, got, debugs, sessions, cpu, prog>>
    BY DEF Clock, session
  <2>2. Wanted' = Wanted
    BY <2>1, Zenon DEF Wanted
  <2> QED BY <1>1, <2>1, <2>2 DEF HostOK, CpuOK
<1> QED BY <1>13, <1>14, <1>15 DEF ControllerInv

-----------------------------------------------------------------------------
(* The steps of a session.                                                  *)
LEMMA OpcodesAreBytes ==
  \A op \in {"echo", "reg_rd", "run", "io_in", "mem_rd", "mem_wr"} : Opcode[op] \in Byte
<1>1. 0 .. 11 \subseteq Byte
  BY Sizes
<1> QED BY <1>1 DEF Opcode

(* The packets of a session, byte by byte.                                 *)
LEMMA Sent ==
  ASSUME LineOK, NEW packet \in Seq(Byte), Send(packet)
  PROVE  toBoard' \in Seq(Byte)
BY ConcatProperties DEF LineOK, Send

LEMMA FilesTyped ==
  ASSUME HostOK
  PROVE  /\ image \in Seq(Byte) /\ input \in Seq(Byte) /\ Len(image) <= RamBytes
         /\ command.interactive \in BOOLEAN
BY ControllerAssumption DEF HostOK, image, input

LEMMA GreetingPacketTyped == GreetingPacket \in Seq(Byte)
<1>1. Two(Len(Greeting)) \in Seq(Byte)
  BY ControllerAssumption, TwoBytes
<1>2. Greeting \in Seq(Byte)
  <2>1. Greeting \in Seq(Byte \ {Opcode[op] : op \in DOMAIN Opcode \ {"unknown"}})
    BY ControllerAssumption
  <2>2. Len(Greeting) \in Nat /\ Greeting = [i \in 1 .. Len(Greeting) |-> Greeting[i]]
    BY <2>1, LenProperties
  <2>3. \A i \in 1 .. Len(Greeting) : Greeting[i] \in Byte
    BY <2>1, ElementOfSeq
  <2> QED BY <2>2, <2>3
<1>3. <<Opcode.echo>> \in Seq(Byte)
  BY OpcodesAreBytes
<1> QED BY <1>1, <1>2, <1>3, ConcatProperties DEF GreetingPacket

LEMMA RamPacketTyped ==
  ASSUME HostOK, block < Blocks(image, RamBlock)
  PROVE  RamPacket \in Seq(Byte)
<1>1. image \in Seq(Byte) /\ Len(image) <= RamBytes /\ Len(image) \in Nat
  BY FilesTyped, LenProperties
<1>2. block \in Nat /\ RamBlock \in Nat \ {0} /\ RamBlock \in 0 .. Base * ByteBase - 1
  <2>1. RamBlock \in 0 .. Base * ByteBase - 1 /\ RamBlock # 0
    BY ControllerAssumption
  <2>2. Base * ByteBase \in Nat
    BY Sizes
  <2> QED BY <2>1, <2>2 DEF HostOK
<1>3. block * RamBlock \in CpuAddr
  <2>1. block * RamBlock \in Nat /\ block * RamBlock < Len(image)
    BY <1>1, <1>2, BlockInside
  <2> DEFINE n == block * RamBlock
  <2> HIDE DEF n
  <2>2. n \in CpuAddr
    BY <1>1, <2>1, Sizes DEF CpuAddr, n
  <2> QED BY <2>2 DEF n
<1>4. Three(block * RamBlock) \in Seq(Byte) /\ Two(RamBlock) \in Seq(Byte)
  BY <1>2, <1>3, ThreeBytes, TwoBytes
<1>5. BlockOf(image, RamBlock) \in Seq(Byte)
  BY <1>1, <1>2, BlockBytes
<1>6. <<Opcode.mem_wr>> \in Seq(Byte)
  BY OpcodesAreBytes
<1> QED BY <1>4, <1>5, <1>6, ConcatProperties DEF RamPacket

LEMMA InputPacketsTyped ==
  ASSUME HostOK
  PROVE  SpacesPacket \in Seq(Byte) /\ InputPacket \in Seq(Byte)
<1>1. input \in Seq(Byte) /\ block \in Nat
  BY FilesTyped DEF HostOK
<1>2. 2 \in 0 .. Base * ByteBase - 1 /\ InputBlock \in 0 .. Base * ByteBase - 1 /\ InputBlock \in Nat
  <2>1. Base * ByteBase \in Nat /\ Base * ByteBase >= 12
    <3>1. Base >= 2 /\ ByteBase >= 12 /\ Base \in Nat /\ ByteBase \in Nat
      BY HciAssumption, Sizes
    <3>2. Base * ByteBase >= 2 * ByteBase
      BY <3>1
    <3> QED BY <3>1, <3>2
  <2>2. InputBlock \in 0 .. Base * ByteBase - 1
    BY ControllerAssumption
  <2> QED BY <2>1, <2>2
<1>3. Two(2) \in Seq(Byte) /\ Two(InputBlock) \in Seq(Byte)
  BY <1>2, TwoBytes
<1>4. <<Opcode.io_in>> \in Seq(Byte) /\ <<Space, Space>> \in Seq(Byte)
  BY OpcodesAreBytes, ControllerAssumption
<1>5. BlockOf(input, InputBlock) \in Seq(Byte)
  BY <1>1, <1>2, BlockBytes
<1> QED BY <1>3, <1>4, <1>5, ConcatProperties DEF SpacesPacket, InputPacket

LEMMA MemReadPacketTyped ==
  ASSUME LineOK
  PROVE  MemReadPacket \in Seq(Byte)
<1>1. got \in Seq(Byte)
  BY DEF LineOK
<1>2. \A i \in 1 .. 3 : Padded(got, i) \in Byte
  BY <1>1, PaddedByte
<1>3. [i \in 1 .. 3 |-> Padded(got, i)] \in Seq(Byte)
  BY <1>2
<1>4. Two(DebugBytes) \in Seq(Byte)
  BY ControllerAssumption, TwoBytes
<1>5. <<Opcode.mem_rd>> \in Seq(Byte)
  BY OpcodesAreBytes
<1> QED BY <1>3, <1>4, <1>5, ConcatProperties DEF MemReadPacket

(* What a read wants is a number, and nothing is no more than that.        *)
LEMMA WantedTyped ==
  ASSUME pc \in Reading
  PROVE  Wanted \in Nat
<1>1. Base * ByteBase \in Nat
  BY Sizes
<1>2. JunkBytes \in Nat /\ Len(Greeting) \in Nat /\ DebugBytes \in Nat /\ 4 \in Nat
  BY <1>1, ControllerAssumption
<1>3. CASE pc = "junk"
  BY <1>2, <1>3, Zenon DEF Wanted
<1>4. CASE pc = "check"
  <2>1. Wanted = Len(Greeting)
    BY <1>4, Zenon DEF Wanted
  <2> QED BY <1>2, <2>1
<1>5. CASE pc = "regs"
  BY <1>2, <1>5, Zenon DEF Wanted
<1>6. CASE pc = "mem"
  BY <1>2, <1>6, Zenon DEF Wanted
<1> QED BY <1>3, <1>4, <1>5, <1>6 DEF Reading

LEMMA NothingGot ==
  ASSUME (pc \in Reading)', got' = <<>>
  PROVE  (Len(got) <= Wanted)'
<1>1. (Wanted \in Nat)'
  BY WantedTyped, PTL
<1>2. Len(got') = 0
  BY EmptySeq
<1> QED BY <1>1, <1>2

(* Steps of the host leave the board alone.                                *)
LEMMA BoardStays ==
  ASSUME BoardOK, CpuOK, UNCHANGED board
  PROVE  BoardOK' /\ CpuOK'
BY DEF board, hciVars, regs, ramVars, BoardOK, BoardRegs, Writes, Fifos, QueueOK, RamTypeOK, CpuOK

(* A step that starts no read and leaves nothing of the last one.          *)
LEMMA ReadsEmpty ==
  ASSUME HostOK, pc' \in Steps, got' = <<>>, UNCHANGED started, debugs' \in 0 .. MaxDebugs,
         block' \in Nat
  PROVE  HostOK'
<1>1. (pc \in Reading)' => (Len(got) <= Wanted)'
  BY NothingGot
<1> QED BY <1>1 DEF HostOK, started

(* The same without a word of what was read, when no read follows.         *)
LEMMA ReadsNothing ==
  ASSUME HostOK, pc' \in {"exited", "close", "receive"}, UNCHANGED started, UNCHANGED debugs,
         UNCHANGED block
  PROVE  HostOK'
BY DEF HostOK, started, Reading, Steps

(* A read takes no more than it wants.                                     *)
LEMMA ReadMore ==
  ASSUME ControllerInv, ReadSome
  PROVE  ControllerInv'
<1>1. HostOK /\ got \in Seq(Byte) /\ toHost \in Seq(Byte) /\ pc \in Reading /\ Taken > 0
  BY DEF ControllerInv, LineOK, ReadSome
<1>2. Wanted \in Nat /\ Len(got) \in Nat /\ Len(toHost) \in Nat /\ Len(got) <= Wanted
  BY <1>1, WantedTyped, LenProperties DEF HostOK
<1> DEFINE w == Wanted
           t == Taken
<1>3. t \in Nat /\ 1 <= t /\ t <= Len(toHost) /\ t <= w - Len(got)
  <2>1. t = IF Len(toHost) < w - Len(got) THEN Len(toHost) ELSE w - Len(got)
    BY DEF Taken
  <2> HIDE DEF w, t
  <2>2. w \in Nat /\ t > 0 /\ Len(got) <= w
    BY <1>1, <1>2 DEF w, t
  <2> QED BY <1>2, <2>1, <2>2
<1>4. got' = got \o SubSeq(toHost, 1, t) /\ toHost' = SubSeq(toHost, t + 1, Len(toHost))
  BY DEF ReadSome
<1> HIDE DEF w, t
<1>5. SubSeq(toHost, 1, t) \in Seq(Byte) /\ Len(SubSeq(toHost, 1, t)) = t
  BY <1>1, <1>2, <1>3, Cut
<1>6. SubSeq(toHost, t + 1, Len(toHost)) \in Seq(Byte)
  BY <1>1, <1>2, <1>3, Cut
<1>7. got' \in Seq(Byte) /\ Len(got') = Len(got) + t
  BY <1>1, <1>4, <1>5, ConcatProperties
<1>8. UNCHANGED <<pc, command, sessions, block, debugs, heard, toBoard, said>> /\ UNCHANGED board
  BY DEF ReadSome, started, Silence
<1>9. Wanted' = w
  BY <1>8, Zenon DEF Wanted, w
<1>10. pc \notin {"open", "greet", "ram", "spaces", "input", "menu"}
  BY <1>1 DEF Reading
<1>11. Len(got') <= Wanted'
  BY <1>2, <1>3, <1>7, <1>9 DEF w
<1>12. HostOK'
  BY <1>1, <1>8, <1>10, <1>11 DEF HostOK
<1>13. LineOK'
  BY <1>4, <1>6, <1>7, <1>8 DEF ControllerInv, LineOK
<1> QED BY <1>8, <1>12, <1>13, BoardStays DEF ControllerInv

LEMMA SessionTyped ==
  ASSUME ControllerInv, Session
  PROVE  ControllerInv'
<1>0. /\ BoardOK /\ CpuOK /\ HostOK /\ LineOK /\ <<>> \in Seq(Byte)
      /\ got \in Seq(Byte) /\ heard \in Seq(Byte) /\ toBoard \in Seq(Byte) /\ toHost \in Seq(Byte)
      /\ said \in Seq(Byte)
      /\ block \in Nat /\ block + 1 \in Nat /\ 0 \in Nat /\ debugs \in 0 .. MaxDebugs
      /\ MaxDebugs \in Nat
  BY ControllerAssumption DEF ControllerInv, HostOK, LineOK
<1>1. UNCHANGED board => BoardOK' /\ CpuOK'
  BY <1>0, BoardStays
<1>2. CASE OpenPort
  <2>1. pc' \in Steps /\ got' = <<>>
    BY <1>0, <1>2 DEF OpenPort, HostOK, Steps, Reading
  <2>2. UNCHANGED <<board, started, block, got, debugs, heard, toHost, toBoard, said>>
    BY <1>2 DEF OpenPort, Silence
  <2>3. HostOK'
    BY <1>0, <2>1, <2>2, ReadsEmpty
  <2> QED BY <1>0, <1>1, <2>2, <2>3 DEF ControllerInv, LineOK
<1>3. CASE ReadSome
  BY <1>3, ReadMore
<1>4. CASE JunkRead \/ ShowMem
  <2>1. /\ pc' \in Steps /\ got' = <<>>
        /\ UNCHANGED <<board, started, block, debugs, heard, toHost, toBoard, said>>
    BY <1>4 DEF JunkRead, ShowMem, Silence, Steps
  <2>2. HostOK'
    BY <1>0, <2>1, ReadsEmpty
  <2> QED BY <1>0, <1>1, <2>1, <2>2 DEF ControllerInv, LineOK
<1>5. CASE Greet
  <2>1. /\ pc' \in Steps /\ got' = <<>> /\ Send(GreetingPacket)
        /\ UNCHANGED <<board, started, block, got, debugs, heard, toHost, said>>
    BY <1>0, <1>5 DEF Greet, Steps, Reading, HostOK
  <2>2. HostOK'
    BY <1>0, <2>1, ReadsEmpty
  <2>3. toBoard' \in Seq(Byte)
    BY <1>0, <2>1, Sent, GreetingPacketTyped
  <2> QED BY <1>0, <1>1, <2>1, <2>2, <2>3 DEF ControllerInv, LineOK
<1>6. CASE Check
  <2>1. /\ pc' \in Steps /\ got' = <<>> /\ toHost' \in {toHost, <<>>}
        /\ UNCHANGED <<board, started, block, debugs, heard, toBoard, said>>
    BY <1>6 DEF Check, Silence, Steps
  <2>2. HostOK'
    BY <1>0, <2>1, ReadsEmpty
  <2> QED BY <1>0, <1>1, <2>1, <2>2 DEF ControllerInv, LineOK
<1>7. CASE UploadRam
  <2>1. got' = <<>> /\ UNCHANGED <<board, started, got, debugs, heard, toHost, said>>
    BY <1>0, <1>7 DEF UploadRam, HostOK, Silence
  <2>2. CASE block < Blocks(image, RamBlock)
    <3>1. Send(RamPacket) /\ block' = block + 1 /\ pc' = pc
      BY <1>7, <2>2 DEF UploadRam
    <3>2. toBoard' \in Seq(Byte)
      BY <1>0, <2>2, <3>1, Sent, RamPacketTyped
    <3>3. HostOK'
      BY <1>0, <2>1, <3>1, ReadsEmpty DEF HostOK
    <3> QED BY <1>0, <1>1, <2>1, <3>2, <3>3 DEF ControllerInv, LineOK
  <2>3. CASE ~(block < Blocks(image, RamBlock))
    <3>1. block' = 0 /\ pc' \in Steps /\ toBoard' = toBoard
      BY <1>7, <2>3 DEF UploadRam, Silence, Steps
    <3>2. HostOK'
      BY <1>0, <2>1, <3>1, ReadsEmpty
    <3> QED BY <1>0, <1>1, <2>1, <3>1, <3>2 DEF ControllerInv, LineOK
  <2> QED BY <2>2, <2>3
<1>8. CASE UploadSpaces
  <2>1. /\ pc' \in Steps /\ got' = <<>> /\ Send(SpacesPacket)
        /\ UNCHANGED <<board, started, block, got, debugs, heard, toHost, said>>
    BY <1>0, <1>8 DEF UploadSpaces, Steps, HostOK
  <2>2. HostOK'
    BY <1>0, <2>1, ReadsEmpty
  <2>3. toBoard' \in Seq(Byte)
    BY <1>0, <2>1, Sent, InputPacketsTyped
  <2> QED BY <1>0, <1>1, <2>1, <2>2, <2>3 DEF ControllerInv, LineOK
<1>9. CASE UploadInput
  <2>1. got' = <<>> /\ UNCHANGED <<board, started, got, debugs, heard, toHost, said>>
    BY <1>0, <1>9 DEF UploadInput, HostOK, Silence
  <2>2. CASE block < Blocks(input, InputBlock)
    <3>1. Send(InputPacket) /\ block' = block + 1 /\ pc' = pc
      BY <1>9, <2>2 DEF UploadInput
    <3>2. toBoard' \in Seq(Byte)
      BY <1>0, <3>1, Sent, InputPacketsTyped
    <3>3. HostOK'
      BY <1>0, <2>1, <3>1, ReadsEmpty DEF HostOK
    <3> QED BY <1>0, <1>1, <2>1, <3>2, <3>3 DEF ControllerInv, LineOK
  <2>3. CASE ~(block < Blocks(input, InputBlock))
    <3>1. block' = 0 /\ pc' \in Steps /\ toBoard' = toBoard
      BY <1>9, <2>3 DEF UploadInput, Silence, Steps
    <3>2. HostOK'
      BY <1>0, <2>1, <3>1, ReadsEmpty
    <3> QED BY <1>0, <1>1, <2>1, <3>1, <3>2 DEF ControllerInv, LineOK
  <2> QED BY <2>2, <2>3
<1>10. CASE AskRegs
  <2>1. /\ pc' \in Steps /\ got' = <<>> /\ Send(<<Opcode.reg_rd>>)
        /\ debugs > 0 /\ debugs' = debugs - 1
        /\ UNCHANGED <<board, started, block, got, heard, toHost, said>>
    BY <1>0, <1>10 DEF AskRegs, Steps, Reading, HostOK
  <2>2. debugs' \in 0 .. MaxDebugs
    BY <1>0, <2>1
  <2>3. HostOK'
    BY <1>0, <2>1, <2>2, ReadsEmpty
  <2>4. <<Opcode.reg_rd>> \in Seq(Byte)
    BY OpcodesAreBytes
  <2>5. toBoard' \in Seq(Byte)
    BY <1>0, <2>1, <2>4, Sent
  <2> QED BY <1>0, <1>1, <2>1, <2>3, <2>5 DEF ControllerInv, LineOK
<1>11. CASE AskMem
  <2>1. /\ pc' \in Steps /\ got' = <<>> /\ Send(MemReadPacket)
        /\ UNCHANGED <<board, started, block, debugs, heard, toHost, said>>
    BY <1>11 DEF AskMem, Steps, Reading
  <2>2. HostOK'
    BY <1>0, <2>1, ReadsEmpty
  <2>3. toBoard' \in Seq(Byte)
    BY <1>0, <2>1, Sent, MemReadPacketTyped
  <2> QED BY <1>0, <1>1, <2>1, <2>2, <2>3 DEF ControllerInv, LineOK
<1>12. CASE Quit \/ Close
  <2>1. /\ pc' \in {"exited", "close", "receive"} /\ toHost' \in {toHost, <<>>}
        /\ UNCHANGED <<board, started, block, got, debugs, heard, toBoard, said>>
    BY <1>12 DEF Quit, Close, Silence
  <2>2. HostOK'
    BY <1>0, <2>1, ReadsNothing
  <2> QED BY <1>0, <1>1, <2>1, <2>2 DEF ControllerInv, LineOK
<1>13. CASE Run
  <2>1. /\ pc' = "receive" /\ said' = <<>> /\ Send(<<Opcode.run>>)
        /\ UNCHANGED <<board, started, block, got, debugs, heard, toHost>>
    BY <1>13 DEF Run
  <2>2. HostOK'
    BY <1>0, <2>1, ReadsNothing
  <2>3. <<Opcode.run>> \in Seq(Byte)
    BY OpcodesAreBytes
  <2>4. toBoard' \in Seq(Byte)
    BY <1>0, <2>1, <2>3, Sent
  <2> QED BY <1>0, <1>1, <2>1, <2>2, <2>4 DEF ControllerInv, LineOK
<1>14. CASE Receive
  <2>1. /\ pc' \in {"exited", "close", "receive"} /\ toHost # <<>>
        /\ heard' = Append(heard, Head(toHost)) /\ toHost' = Tail(toHost)
        /\ UNCHANGED <<board, started, block, got, debugs, toBoard, said>>
    BY <1>14 DEF Receive, Silence
  <2>2. HostOK'
    BY <1>0, <2>1, ReadsNothing
  <2>3. Head(toHost) \in Byte /\ Tail(toHost) \in Seq(Byte)
    BY <1>0, <2>1, HeadAndTail
  <2>4. heard' \in Seq(Byte)
    BY <1>0, <2>1, <2>3, AppendProperties
  <2> QED BY <1>0, <1>1, <2>1, <2>2, <2>3, <2>4 DEF ControllerInv, LineOK
<1> QED
  BY <1>2, <1>3, <1>4, <1>5, <1>6, <1>7, <1>8, <1>9, <1>10, <1>11, <1>12, <1>13, <1>14 DEF Session

(* The board as its button leaves it.                                       *)
LEMMA EmptyQueue ==
  ASSUME NEW slots \in Nat \ {0}
  PROVE  QueueOK([items |-> <<>>, empty |-> TRUE, full |-> FALSE], slots)
BY DEF QueueOK

(* Its fifos are empty and its registers zero.                             *)
LEMMA FreshBoard ==
  ASSUME state = "decode", decodeCnt = 0, executeCnt = 0, addr = 0, err = FALSE,
         txData = 0, wrEn = FALSE, inData = 0, inWrEn = FALSE, qIoEn = FALSE,
         rx = RxFifo!EmptyFifo, tx = TxFifo!EmptyFifo, ioIn = InFifo!EmptyFifo,
         RamTypeOK, cpu = NoIo, prog = Program
  PROVE  BoardOK /\ CpuOK
<1>1. RxSlots \in Nat \ {0} /\ TxSlots \in Nat \ {0} /\ InSlots \in Nat \ {0}
  BY HciAssumption, ControllerAssumption
<1>2. Fifos
  BY <1>1, EmptyQueue DEF Fifos, RxFifo!EmptyFifo, TxFifo!EmptyFifo, InFifo!EmptyFifo
<1>3. 0 \in Byte /\ 0 \in CpuAddr
  BY Sizes
<1>4. BoardRegs /\ Writes /\ qIoEn \in BOOLEAN
  <2>1. err \in BOOLEAN /\ wrEn \in BOOLEAN /\ inWrEn \in BOOLEAN /\ qIoEn \in BOOLEAN
    BY Zenon
  <2>2. state \in States /\ decodeCnt \in 0 .. 7
    BY DEF States
  <2> QED BY <1>3, <2>1, <2>2 DEF BoardRegs, Writes
<1>5. CpuOK
  BY NoIoTyped, ControllerAssumption DEF CpuOK
<1> QED BY <1>2, <1>4, <1>5 DEF BoardOK

LEMMA FreshBoardNext ==
  ASSUME ResetBoard, RamTypeOK
  PROVE  BoardOK' /\ CpuOK'
<1>1. RamTypeOK'
  BY DEF ResetBoard, RamTypeOK, ramVars
<1>2. /\ (state = "decode")' /\ (decodeCnt = 0)' /\ (executeCnt = 0)' /\ (addr = 0)' /\ (err = FALSE)'
      /\ (txData = 0)' /\ (wrEn = FALSE)' /\ (inData = 0)' /\ (inWrEn = FALSE)' /\ (qIoEn = FALSE)'
      /\ (rx = RxFifo!EmptyFifo)' /\ (tx = TxFifo!EmptyFifo)' /\ (ioIn = InFifo!EmptyFifo)'
      /\ (cpu = NoIo)' /\ (prog = Program)'
  BY DEF ResetBoard, RxFifo!EmptyFifo, TxFifo!EmptyFifo, InFifo!EmptyFifo, NoIo
<1> QED BY <1>1, <1>2, FreshBoard, PTL

LEMMA StartTyped ==
  ASSUME ControllerInv, Start
  PROVE  ControllerInv'
<1>1. BoardOK /\ CpuOK /\ HostOK /\ LineOK /\ RamTypeOK
  BY DEF ControllerInv, BoardOK
<1>2. BoardOK' /\ CpuOK'
  BY <1>1, BoardStays, FreshBoardNext DEF Start
<1>3. /\ pc' = "open" /\ got' = <<>> /\ block' = 0 /\ command' \in Commands
      /\ sessions > 0 /\ sessions' = sessions - 1 /\ debugs' \in {MaxDebugs, 0}
      /\ heard' = <<>> /\ UNCHANGED <<toBoard, said, toHost>>
  BY DEF Start, Silence
<1>4. sessions' \in 0 .. MaxSessions /\ debugs' \in 0 .. MaxDebugs
  BY <1>1, <1>3, ControllerAssumption DEF HostOK
<1>5. HostOK'
  BY <1>3, <1>4 DEF HostOK, Steps, Reading
<1>6. LineOK'
  BY <1>1, <1>3 DEF LineOK
<1> QED BY <1>2, <1>5, <1>6 DEF ControllerInv

LEMMA KillTyped ==
  ASSUME ControllerInv, Kill
  PROVE  ControllerInv'
<1>1. BoardOK /\ CpuOK /\ HostOK /\ LineOK
  BY DEF ControllerInv
<1>2. /\ pc' = "exited" /\ toHost' = <<>> /\ toBoard \in Seq(Byte)
      /\ UNCHANGED <<board, started, block, got, debugs, heard, said>>
  BY <1>1 DEF Kill, LineOK
<1>3. toBoard' \in Seq(Byte)
  <2>1. PICK k \in 0 .. Len(toBoard) : toBoard' = SubSeq(toBoard, 1, k)
    BY DEF Kill
  <2>2. 1 \in 1 .. Len(toBoard) + 1
    BY <1>2, LenProperties
  <2> QED BY <1>2, <2>1, <2>2, Cut
<1>4. HostOK'
  BY <1>1, <1>2, ReadsNothing
<1>5. LineOK'
  BY <1>1, <1>2, <1>3 DEF LineOK
<1> QED BY <1>1, <1>2, <1>4, <1>5, BoardStays DEF ControllerInv

LEMMA IoStepTyped ==
  ASSUME ControllerInv, StartIo \/ EndIo
  PROVE  ControllerInv'
<1>1. UNCHANGED <<hciVars, session, toBoard, toHost, said>>
  BY DEF StartIo, EndIo
<1>2. BoardOK'
  BY <1>1 DEF ControllerInv, hciVars, regs, ramVars, BoardOK, BoardRegs, Writes, Fifos, QueueOK, RamTypeOK
<1>3. CpuOK'
  <2>1. CASE StartIo
    <3>1. prog \in Seq(Port) /\ prog # <<>> /\ cpu' = Head(prog) /\ prog' = Tail(prog)
      BY <2>1 DEF StartIo, ControllerInv, CpuOK
    <3> QED BY <3>1, HeadAndTail DEF CpuOK
  <2>2. CASE EndIo
    BY <2>2, NoIoTyped DEF EndIo, ControllerInv, CpuOK
  <2> QED BY <2>1, <2>2
<1>4. HostOK' /\ LineOK'
  <2>1. UNCHANGED <<pc, command, block, got, debugs, heard, sessions, toBoard, toHost, said>>
    BY <1>1 DEF session
  <2>2. Wanted' = Wanted
    BY <2>1, Zenon DEF Wanted
  <2> QED BY <2>1, <2>2 DEF ControllerInv, HostOK, LineOK
<1> QED BY <1>2, <1>3, <1>4 DEF ControllerInv

LEMMA StutterTyped ==
  ASSUME ControllerInv, UNCHANGED vars
  PROVE  ControllerInv'
<1>1. BoardOK' /\ CpuOK'
  BY BoardStays DEF ControllerInv, vars
<1>2. UNCHANGED <<pc, command, block, got, debugs, heard, sessions, toBoard, toHost, said>>
  BY DEF vars, session
<1>3. Wanted' = Wanted
  BY <1>2, Zenon DEF Wanted
<1>4. HostOK' /\ LineOK'
  BY <1>2, <1>3 DEF ControllerInv, HostOK, LineOK
<1> QED BY <1>1, <1>4 DEF ControllerInv

LEMMA InitTyped ==
  ASSUME Init
  PROVE  ControllerInv
<1>1. RamTypeOK
  <2>1. ram = [a \in CpuAddr |-> 0] /\ ramQ = 0
    BY DEF Init, HciInit, RamInit
  <2> QED BY <2>1, Sizes DEF RamTypeOK
<1>2. BoardOK /\ CpuOK
  BY <1>1, FreshBoard DEF Init, HciInit, RxFifo!Init, TxFifo!Init, InFifo!Init
<1>3. HostOK
  BY ControllerAssumption DEF Init, HostOK, Steps, Reading
<1>4. LineOK
  BY DEF Init, LineOK
<1> QED BY <1>2, <1>3, <1>4 DEF ControllerInv

(* Every register and fifo of the board and every variable of the          *)
(* controller keeps its kind, for all files, programs, block sizes and     *)
(* schedules of killed sessions: every byte that controller.cpp and        *)
(* listener.h put together is a byte, and no read takes more than it       *)
(* wants, whatever the board makes of the bytes that an earlier session    *)
(* left on the way.                                                        *)
THEOREM ControllerTypeCorrect == Spec => []TypeOK
<1>1. Init => ControllerInv
  BY InitTyped
<1>2. ControllerInv /\ [Next]_vars => ControllerInv'
  <2>1. ASSUME ControllerInv, Next PROVE ControllerInv'
    BY <2>1, SessionTyped, StartTyped, KillTyped, IoStepTyped, ClockTyped
       DEF Next, ByteArrives, ByteLeaves, NothingMoves
  <2> QED BY <2>1, StutterTyped
<1>3. ControllerInv => TypeOK
  BY BoardTyped DEF ControllerInv, HostOK, LineOK, TypeOK
<1> QED BY <1>1, <1>2, <1>3, PTL DEF Spec

=============================================================================
