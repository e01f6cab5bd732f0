# HDL: TLA+ models of a RISC-V CPU, its memory system, its host link and the host's side of it

The repository holds an FPGA system in Verilog. `src/CPU_RISCV` is the main
part: a five-stage RV32I core with a byte-wide memory bus, an instruction
cache, a RAM, a UART, and a host communication interface (HCI) through which a
program on a PC uploads code, starts and stops the CPU and serves its input and
output. That program is in the repository too (`ctrl/`, C++), and so is the
serial port library that it talks through (`src/Add/serial`, C++, for Unix and
Windows). The rest of `src/Add` is an earlier exercise (two adders).

The hardware is synchronous: every register changes at one edge of one clock,
and what goes wrong in it goes wrong in the *relation* of several small machines
that see each other's outputs a cycle late. The software is threads, time-outs
and system calls that fail half way, and what goes wrong there goes wrong
between two of them. That is what the models are about.

One step of a hardware model is one clock edge of everything in it, unless said
otherwise; one step of a software model is the code from one point at which
another thread, a signal, time or the other end of the line can come in to the
next. A register is a variable (records group registers that a unit always
moves together), a combinational signal is an operator over the unprimed
variables, a state of a Verilog FSM is an action guarded by that state.

Paths below without a directory are under `src/CPU_RISCV/src` (`core/`,
`common/`).

## 1. Inventory

| Part | Source | State | Operations | Talks to | Hard behaviour | What makes it correct |
|---|---|---|---|---|---|---|
| Memory controller | `core/Memory_Ctrl.v` | FSM listen/read/write/stall, byte counters `now`, `cnt`, busy lines, data block | accept a write, read or fetch; move a byte; finish; stall | asked by fetch and memory stage, drives the bus | both clients ask at any time; the byte on the bus answers the address of the cycle before; the answer stands for one cycle | requests and answers interlock; no byte lost, displaced or written by accident; nobody waits for ever |
| Fetch unit and cache | `core/IFU.v` | `pc`, `inst`, FSM lookup/request/fill, request, direct-mapped cache | hit, miss, request, fill, hold after a load or branch | asks the controller; redirected by decode; stalled by Ctrl | every partly filled line is stored valid; on a miss `inst` takes a wrong word for a cycle | complete lines equal the RAM; decode gets only RAM words or bubbles |
| Memory-access stage | `core/MAU.v` | FSM idle/request/wait, request, write-back latch | start, pass through, wait, finish | asks the controller; feeds WBU | acceptance and completion are both read off one busy line | a load returns the RAM's bytes, extended; a store lands completely |
| Stall control | `core/Ctrl.v` | none | combine the two stall requests | all stages | feedback loop: the request stalls the machine that raised it | every stall ends |
| Decode, execute | `core/IDU.v`, `core/EXU.v` | IF/ID and ID/EX registers | operand choice, forwarding, branch decision, ALU | forwarding from three stages, redirects fetch | a load forwards its address; `use_npc` is a level of one cycle | the pipeline equals the sequential machine |
| Write-back, registers | `core/WBU.v`, `core/Regfile.v` | latch, register file | write, read with bypass | decode | a value is readable in the cycle it is written | newest value wins |
| CPU and board top | `cpu.v`, `riscv_top.v` | reset | wiring; bus multiplexer between CPU and HCI; pause (`rdy`) | everything | a pause falls between any two cycles | a paused CPU is frozen |
| RAM | `ram.v`, `common/block_ram` | bytes, registered read address | one access per clock | bus | the answer belongs to the address of the last edge | — |
| Fifo | `common/fifo/fifo.v` | ring, two pointers, two flags | read, write, both | UART, HCI | equal pointers mean full and empty; both flags computed from half of what happens | a queue; flags safe |
| UART | `common/uart/*.v` | transmitter and receiver FSMs, tick and bit counters, baud counters, fifos | send, receive | HCI, the line | two clocks that drift; idle again before the fifo has popped | each value arrives once, unchanged, in order |
| HCI | `hci.v` | FSM of 14 states, packet counters, address, error code, registered writes, input fifo | eleven opcodes, of which ten are served, I/O port of the CPU | UART fifos, RAM, CPU | the I/O port pre-empts the packets; every answer passes a fifo that may be full; RAM and transmit write are a clock late | packets are served exactly; no packet hangs |
| Host controller | `ctrl/controller.cpp`, `ctrl/listener.h` | position in the session, files, what a read has so far | open the port, throw away what is there, greet, upload, ask for registers and memory, start, show output, close | HCI, through the serial library | killed at any point; finds the board as the last session left it; tells packets, replies and output apart only by position | the CPU starts with the session's program and input; what is shown is what it printed; a session ends |
| Serial library, calls | `Add/serial/src/serial.cc`, `serial.h` | two locks | read, readline, readlines, write, setPort, flush, settings, modem lines | callers' threads; the platform's code | several threads on one object; some methods take a lock, two take both, others none | bytes of a read or write stay together; no deadlock |
| Serial library, platform | `Add/serial/src/impl/unix.cc`, `win.cc` | port name, descriptor, open or not, settings, time-outs | open, close, configure, timed read and write, drain, discard, wait | the operating system | partial reads and writes, signals, time-outs, stale descriptors, failures half way, attributes that earlier users left | short only after the time; the line has the settings asked for; never another file |
| Adders | `src/Add/adder.v`, `adder2.v` | none | add | — | the carry from group to group: `adder2.v:67` takes a propagate for a carry | the sum |
| Adder board demo, benches, clock IP, port listing, test programs, build files | `src/Add/adder`, `sim/`, `clk_wiz_0/`, `Add/serial/src/impl/list_ports`, `sys/`, `testcase/` | — | — | — | — | not the system's own logic |

The hazards this code is exposed to, each at its line and with the properties
that watch it, are in `PROJECT.json` under "hazards". Those without a property
have a note that says why, and most of them are in the plan (section 8).

## 2. Modules

| Module | What it models |
|---|---|
| `Machine` | Sizes, bytes, words, lines and addresses, shared by all. A word is its four bytes; a byte is `0 .. ByteBase-1`. |
| `Ram` | `ram.v` and `block_ram.v` with the I/O select of `riscv_top.v`: RAM, registered read address, `BusByte` (what a reader sees this cycle). |
| `MemoryCtrl` | `Memory_Ctrl.v`: `AcceptWrite`, `AcceptRead`, `AcceptFetch`, `Listen`, `ReadByte`, `ReadDone`, `WriteByte`, `WriteDone`, `Stall`; `McClock` is one edge. |
| `Fetch` | `IFU.v`: `LookupHit`, `LookupMiss`, `LookupStalled`, `Request`, `FillWait`, `FillDone`, `Hold`; `IfClock`. |
| `MemAccess` | `MAU.v`: `StartAccess`, `PassThrough`, `Keep`, `AwaitAccept`, `Finish`; `MaClock`. |
| `Ctrl` | `Ctrl.v`: which stages a pair of stall requests stops. |
| `MemSys` | **Composition** of the five above; the rest of the CPU is the environment. |
| `Words` | Integers of `WordBits` bits and the words that hold them, shared by `Isa` and `Core`. |
| `Isa` | **Abstract specification**: the machine a programmer sees, one instruction a step. |
| `Core` | **Composition** of the whole CPU and RAM: the memory system with decode, execute, write-back and the register file. Refines `Isa`. |
| `MemSysPause`, `CorePause` | The same with the board's pause: the HCI holds the bus for a cycle. |
| `BoundedQueue` | **Abstract specification** of a fifo: a bounded sequence. |
| `FlaggedQueue` | **Abstract specification** of a fifo for its users: contents and the two flags. |
| `Fifo` | `fifo.v`, one clock an action. Refines both. |
| `UartTx`, `UartRx` | `uart_tx.v`, `uart_rx.v`. |
| `UartLink` | **Composition**: `Fifo`, transmitter and baud clock of one board, receiver and baud clock of another, on two clocks. |
| `Hci` | `hci.v` with its three fifos (as `FlaggedQueue`) and the RAM. |
| `HciHost` | **Composition** of `Hci` with the host and the CPU's I/O port. |
| `Termios` | `reconfigurePort` of `unix.cc` as a function of settings and attributes, and what the driver makes of attributes (external). |
| `SerialCalls` | `serial.cc`: threads, calls, locks, the loops of `readline` and `readlines`, `setPort`; also the operating system's side of the port (external). |
| `UnixPort` | `unix.cc`: one action per stretch of code between two system calls (`UOpen`, `UConfig`, `UApply`, `UClose`, `UReadLoop`, `UWaitReadable`, `UTake`, `UWriteSelect`, `UPut`, ...). |
| `WinPort` | `win.cc`, where it differs. |
| `SerialPort` | **Composition**: one object, its threads, and the surroundings: time, the line, the device, other files of the process. |
| `Controller` | `controller.cpp` and `listener.h`, step by step, **composed** with `Hci`, the line and the CPU's I/O port. |
| `MC*` | Instances for TLC. |
| `MemSysProofs` | Theorems about `MemSys` with their proofs. |
| `CoreProofs` | Theorems about `Core`; instantiates `MemSysProofs` to carry those about `MemSys` over. |
| `IsaProofs` | That `Core` implements `Isa`, and `Core`'s types; on top of `CoreProofs`. |
| `FifoProofs` | Theorems about `Fifo`. |
| `UartProofs` | Theorems about `UartLink`; instantiates `FifoProofs` for its fifo. |
| `HciProofs` | Theorems about `HciHost`. |
| `SerialProofs` | Theorems about `SerialPort`, about `Termios`, and about the two together. |
| `ControllerProofs` | Theorem about `Controller`. |

A definition named `..._x_...` is not the code's. It is a slip — a dropped
guard, an off-by-one, a missing reset — that a property must notice when it
takes the place of the definition of the same name. It stands before that
definition and nothing uses it.

### How the models differ from the text of the code

* *Blocking assignments.* `Memory_Ctrl.v` assigns `now` with `=` in one clocked
  block and reads it in another. Synthesis gives both blocks the value before
  the edge, and so does the model (`NowSeen`); a simulator may order the blocks
  the other way, and `NowSeen_x_BlockingAssign` is that reading:
  `LoadReturnsMemory` fails under it.
* *Instruction bits.* An instruction word is looked at through the constant
  operator `Decode`, which gives its fields. What the pipeline does with the
  fields is modelled in full; which bits they are cut from is not.
* *Sizes.* Words have four bytes but small bytes; the width of an integer is
  `WordBits`. Shift amounts, carries and signs follow that width.
* *Reset.* A model starts after reset, with everything the reset leaves alone
  arbitrary within a named set (cache lines, registers, fifo slots).
* *Left out of `Hci`:* the cycle counter that the CPU can read and the parity
  bit of the error code. *Left out of the boards' top:* reset synchronisation
  and the debugger's writes while the CPU is paused.
* *Data of the serial library.* A byte on a line is its port and its number, so
  that order and origin show; terminal attributes are sets of flag names; a
  descriptor is a small number and the lowest free one is given, as the system
  does. A millisecond is a unit of time in which everything else can happen.
* *The two platforms* share a model: `platform` is chosen in the initial state.
  On Unix it is the build for Linux (`TIOCSSERIAL` for rates without a constant,
  `TIOCMIWAIT`, `CMSPAR`).
* *Numbers of the controller.* The sizes of blocks and of the greeting are
  constants; a number in a packet has its low byte first and base `Base`, as in
  `Hci`.

### The abstract machines

`Isa` has a pc, registers and a memory, and one action: execute the instruction
at the pc. `Core` implements it under the mapping `Programmer`: an instruction
counts as executed once it has left decode, so the memory is the RAM with the
stores still in the memory and execute stages done, a register is the youngest
value on its way to it (a load's value is read from that memory), and the pc is
that of the oldest instruction that has not left decode. `ImplementsIsa` says
that each clock edge maps to the execution of exactly one instruction, the next
one in program order, or to nothing. Every forwarding path, bubble, stall,
misfetch and redirect has to be right for it.

`BoundedQueue` accepts and yields values at most one of each a step.
`FlaggedQueue` also has the flags: fifo.v's flags are *not* a function of the
contents, which matters to its users, so `Hci` uses `FlaggedQueue` for its three
fifos, and the theorem `FifoIsFlaggedQueue` justifies that.

## 3. Environments and assumptions

* **MemSys.** In each cycle the decode stage redirects the fetch to any address
  of `FetchAddrs` or lets it go on, and the execute stage presents any access of
  `Accesses`. `EnvAssumption` states what the tool chain guarantees: code is
  word-aligned, an access lies in the RAM or in the I/O space, and no store hits
  a line of code (the cache is never invalidated; `sys/memory.ld` keeps code and
  data apart). Inputs that no unit reads in a cycle are given one value.
* **Core.** No environment: the RAM holds one of `Programs`. The programs touch
  no line of code as data and leave x3, which holds the data's address, alone.
* **Fifo.** Any request of reader and writer in any clock, also both, also when
  full or empty.
* **UartLink.** The writer writes what it likes when it likes. The two sides
  start with any phase between their baud clocks; between two start bits either
  clock may gain `MaxSkew` edges on the other, at any moment. Since the receiver
  takes its time anew at each start bit, the gains of two frames can fall
  together around one.
* **HciHost.** The host sends well-formed packets and awaits the reply of one
  before the next, as `controller.cpp` does. While the CPU runs it only sends a
  break or asks for the mode, and not in the middle of an I/O access; it never
  uploads more input than the buffer holds. The CPU uses the port while the line
  is quiet, holds an access until the port has seen it, and leaves a gap after
  it. Bytes on the line are `Gap` clocks apart. Three things the code can do are
  outside this environment: the port taking a packet byte for input, a full
  transmit fifo in the answers that do not look at it, and the state of
  `OP_DISABLE`; each is a hazard with a note.

* **SerialPort.** Each thread makes the calls of its script; the scripts, the
  time-outs and the number of bytes that arrive are one of the constant `Jobs`.
  Open and close are
  called by a thread that is alone with the object (the model guards them), and
  in the run's jobs one thread configures it (no method that does takes a lock;
  see the hazards). The methods that take no
  lock are also called beside `setPort`, to show what becomes of them. Any
  system call fails, is interrupted, or the device goes away, but at most
  `MaxFaults` such things happen in a behaviour. While the port is closed another part of the program may open
  a file, which then has the port's old descriptor. The line sends what is in
  the output queue (no flow control). On Windows a total time-out of 0 means no
  limit; it is not among the time-outs of the run.
* **Controller.** The serial port is taken for what `SerialPort` shows of it: a
  write goes out whole and in order, a read gives bytes in order and fewer than
  asked for only when its time is over. That time (90 ms) is long against an
  answer (0.4 ms), so it is over only when no answer is on its way; a host that
  does not get to run for the whole of it is not modelled. A second of sleep
  lets the line become still, except for a memory read that a cut packet has
  started (it can take longer). A session may be killed at any point, with any
  part of what it has written still going out or not; between two sessions the
  board's button may be pressed or not. No byte arrives or leaves in the very
  clock in which `fifo.v:95` hides it (the subject of run `uart_last`). The
  program on the board prints less than the transmit fifo holds, ends with a
  write to the end port (which sends the zero byte that the controller waits
  for), and does not print the greeting itself.

**Fairness.** `MemSys`, `Core`: WF of the clock edge, i.e. the clock never
stops; the design has no other source of progress. `UartLink`: WF of
`BothClocks`, i.e. neither clock stops. `HciHost`: the clock runs, a byte sent
arrives, and the transmitter sends while its fifo says that it holds something —
the last is what `UartLink!KeepsSending` shows. `SerialPort`: a thread that can
run does (the scheduler), time passes, and the line sends; bytes need not
arrive, and no call has to succeed. `Controller`: the session goes on until it
is killed, the CPU runs its program, the clock runs and the line sends both
ways. No strong fairness is used.

## 4. Runs

Passing runs:

| Run | Instance | Shows |
|---|---|---|
| `memsys` (63 528 states) | RAM of 32 bytes in lines of 8, two cache lines, bytes 0..3; code in three lines of which two share a cache line; loads and stores of every width, signed and unsigned, two of them in the I/O space | Every order of fetch, load and store: `Handshake` (the three FSMs interlock), `CacheCoherent`, `FetchedFromRam`, `LoadReturnsMemory`, `StoreLands`, `OnlyStoresWrite`, and `StallsEnd` |
| `core_programs` (200 303) | RAM of 64 bytes in lines of 16, 8-bit integers; about 4000 programs: every pair of 16 instructions of every kind before one of each kind (computation, load, store, branch forward, branch back, jump), in one cache line and across two, computed jumps through a register just computed or just loaded, every ALU operation and branch condition on six boundary values | `ImplementsIsa`, and the two facts that the pipeline's forwarding rests on, `LoadUseBubble` and `BranchAlone`; `KeepsExecuting` |
| `fifo` (2 268) | Four slots, three values | `FlagsConservative`, `IsQueue`, `IsFlaggedQueue` |
| `uart` (264 272) | Two data bits, eight ticks to a bit, two clocks to a tick, odd parity, three slots, a skew of one clock either way | `DeliversFront` (arrives once, unchanged, and before it leaves the fifo), `KeepsSending` |
| `hci` (178 384) | Receive fifo 3, transmit fifo 4, input fifo 3; packets of every opcode, among them counts with a high byte, empty payloads, payloads that are opcodes, an upload that wraps at the end of the RAM | `Uploaded`, `HostHears`, `PacketsServed` |
| `serial` (332 924) | Two threads with a call each beside one that moves the object to another of two ports, flushes or configures it: pairs of readers, writers and flushes, and scripts that open, close, set and ask, also where the port is closed; one system call that fails or is interrupted; time-outs of one unit, with and without a time between bytes; and a read alone whose total time is longer than that between bytes | `ReadsWhole`, `WritesWhole`, `SafeDescriptor`, `ShortMeansTimeout`, `NoFalseAlarm`, `SettingsInEffect`, `CallsReturn` |
| `host` (238 607) | Two sessions; a command line for testing without input and one for the interactive mode with input; images of two blocks and of one, both with a part of a block; a program that prints, reads and ends; a greeting whose length is the opcode that starts the CPU, as in the code | `StartedRight`, `HeardWasSaid`, `SessionEnds`. The system stops after the last session, so deadlock is not checked |

Runs that TLC must find violated, each a disagreement between the code and its
own comments:

| Run | Property | What happens |
|---|---|---|
| `core_pause` | `PauseFreezes` | `WBU.v:60` *clears* the write-back register when `rdy` is low, while `cpu.v:23` says a pause freezes: a result that reaches write-back when the pause comes is lost. |
| `memsys_pause` | `PausedLoadReturnsMemory` | The HCI's address clocks the RAM's read address (`riscv_top.v:153`) while the controller waits for its own: a load that a pause interrupts returns a byte of another address. |
| `uart_last` | `EveryValueSent` | `fifo.v:95` looks at the read alone: after the only entry is read in the clock of a write, the fifo holds an entry and says empty (`fifo.v:40` says that empty makes "reads invalid"; `FlagsConservative` and `FlaggedQueue` allow for the hidden entry). So a byte written in the clock in which the only other one is popped is not sent until another write. |
| `uart_even` | `ParityAgrees` | In even mode `uart_tx.v:115` sends the complement of the lowest bit, the receiver expects the parity. `hci.v` uses odd parity, which agrees. |
| `serial_idle` | `IdleEndsRead` | `serial.h:443-446` promises of the total time and the time between two bytes that a "timeout will simply occur when one of the two timeout conditions is met". On Unix the time between bytes only bounds one `select` (`unix.cc:561-562`): a read of two bytes that has got one waits for it in vain, and then waits again until its total time is over. |

**Why the bounds are enough.** The machines are small and their counters run
over a line, a word or a frame: a line of two words has a first, an inner and a
last byte and an inner word boundary; two cache lines and three lines of code
give conflict misses; three code addresses in a line and any next pc give hits,
misses and misses during a stall. An instruction is in the pipeline with at
most three others, so the programs put every pair of instructions side by side
and before one of each kind; across two lines a miss falls between any two of
them, and the theorem `CpuIsIsa` covers all other programs. A fifo of four
slots has both flags apart and a wrap. Two bits give values of which parity and lowest bit differ (with one bit they coincide).
With eight ticks of two clocks a skew of one each way and an arbitrary phase
stay within half a bit; two would exceed the margin of so few clocks to a bit.
A base of three for a packet's counts makes counts with carries reachable; a
transmit fifo of four makes echo and memory reads meet a full fifo.
In the serial library a conflict needs two calls and, for a stale descriptor, a
third that changes the port; a read of two bytes has a first, a last and a
moment between; the system may take a write of two bytes in one piece or in two,
and two writes of two bytes overfill the output queue (`OutRoom`), so that
writers also wait. One failure (`MaxFaults`) falls at any system call; failures
while another is handled are not covered.
A setting can only disturb a later one through the attributes, so the scripts
pair each lasting flag with the settings it could disturb, and the theorem
`SettingsTakeEffect` covers all others. In the host run one earlier session is
enough: what it leaves is the board's state and the bytes on the line, and it
may be killed at each of its steps.

## 5. Properties worth a word

`Handshake` is the interlocking that the code relies on without stating it: a
client tells acceptance from completion by the same busy line, and the answer
stands on the outputs for one cycle. `OnlyStoresWrite` guards against the write
signal, which stays high through the stall state. `FetchedFromRam` is about the
garbage a miss leaves in `inst` and the valid bit of half a line. `LoadUseBubble`
is why forwarding a load's *address* is harmless. `BranchAlone` is why a
one-cycle `use_npc` is not lost. `HostHears` compares each byte that leaves the
board with a list the host could write down in advance; `Uploaded` compares RAM
and input buffer with what was sent whenever the machine is at rest.

`SafeDescriptor` is what the two locks of `setPort` are for: a reader that has
passed the check of `is_open_` must not find its descriptor closed, or another
file's, when it comes to `::read`. `NoFalseAlarm` rests on the read lock alone:
`select` and `::read` are two calls, and a second reader in between would make
the library report a device that is gone. `SettingsInEffect` holds only with the
exceptions that `TakesEffect` names, which are three things that the code cannot
put into effect: a non-standard rate (the divisor is stored, but the speed that
the driver replaces by it is not chosen), the rate that such a divisor has
taken, and odd or even after mark or space (`CMSPAR` is never cleared).
`ShortMeansTimeout` is about the step in which a read or write returns, since
time goes on between that step and the next: a deadline that passes after the
call has given up does not excuse it. It says what `serial.h:233-249` says of a
short read: one of the *two* time-outs is over, the total time or, once the read
has a byte, the time between two bytes (`Quiet`; on Unix `wait` keeps what is
left of it from the last byte or the start of the last `select`). The other
direction, that each time-out ends the read, is promised as well, and on Unix
only the total time does (`CallsReturn`): `IdleEndsRead` states the promise, and
the run `serial_idle` shows it broken.

`StartedRight` and `HeardWasSaid` are about what a session inherits. The board
has no packet boundaries to recover at: a session that is killed inside an
upload leaves it waiting for bytes, and the next session's greeting fills the
gap. The properties hold because of the order of `on_init`: the second of
silence, and an echo that must come back exactly before anything is uploaded.
`StartedRight` says of the input buffer that it *ends with* the session's input:
what an earlier session left in it stays in front (the code has no way to empty
it, hence the advice in `controller.cpp:153` to press the button).
The exception in `Greet` is the one thing a second does not outwait.

## 6. Proofs

All theorems hold for every value of the constants that the named assumptions
allow: `EnvAssumption` and those of `Machine`, `Fetch` and `MemAccess` for the
memory system; for the core also `DecodeAssumption` (every word decodes to the
record of an instruction's fields, and the zero word to a bubble) and
`CoreAssumption` (the RAM has an even size that a word can count twice, the
registers start as words);
`FifoAssumption`; `UartAssumption` and `LinkAssumption` for the link (the
transmit fifo has three slots or more, there are clocks to a tick and ticks to a
bit); those of `Machine`, `Hci` and `HciHost` for the communication interface (a
packet the host sends is well-formed, a byte takes a clock or more, the receive
fifo has two slots and the transmit fifo four; the design has 8096, 8 and 1024);
`TermiosAssumption` (rates are positive numbers); for the serial port `SerialAssumption` (descriptors are numbers and
there is one; the output queue has room; "nobody", "no port" and the other
contents of a descriptor are none of the threads and ports) and `JobAssumption`
(each thread's script is a sequence of requests that the types of `serial.h`
allow, and so are the first settings and time-outs); for the controller those of
`Machine` and `Hci` and `ControllerAssumption` (the image fits in the RAM; what goes
out as a two-byte number is one; a byte is less than an address; each fifo has a
slot). TLC evaluates all of them in the passing runs.

* `MemSysProofs`: `TypeCorrect` and `HandshakeHolds`. `Handshake` alone is not
  inductive: it says nothing about what the controller does with a request it
  accepts. The inductive invariant `IInv` adds
  - `Counters` — while reading `now <= cnt`, while writing `1 <= now <= cnt <= 4`
    (the counters index words and lines, so types depend on them);
  - `Requests` — a client's request lines are up exactly while its FSM is not
    idle, never both at once, and of the kind that the controller is serving;
  - `PcKnown` — outside the lookup state the pc is an instruction's, so that a
    line read stays inside the RAM.

  The step is proved in layers: types of each unit (`McTyped`, `IfTyped`,
  `MaTyped`), then what each client's FSM may do (`IfControl`, `MaControl`), then
  the interlocking by the controller's state (`ControlStep`).
* Also there: `OnlyStoresWriteHolds` and `StoreLandsHolds`. `StoreInv` adds to
  `IInv` that a request in service is one the environment may make
  (`AccessReachable`) and what is on the bus during a write (`WriteBus`): the
  address and byte of position `now - 1`, with all bytes before it already in
  the RAM. Through the stall state the last byte is written again, unchanged.
* Last there: `LoadReturnsMemoryHolds`, `CacheCoherentHolds`,
  `FetchedFromRamHolds` and `ExecutesProgram`. `StoreInv` says nothing of the
  bytes that a read has collected, so `LoadBus` and `FetchBus` say how far a read
  is: the address on the bus runs one byte ahead of the RAM's answer and that one
  ahead of the register, which holds the first `now - 1` bytes and zeros above
  them; at the last byte the address stops and the stall state has them all.
  `StoreOutsideCode` keeps the line being read still. For the cache, `LinesOfCode`
  (a valid line is one of code, so that no store changes it) and `InstKnown` are
  needed beside the two properties, which hold each other up: a hit is right
  because whole lines are, and a line is whole because the pc that marks it so is
  that of the fill. `ExecutesProgram` puts everything together: stores leave the
  code alone, so the decode stage gets a bubble or the word of the *initial*
  program at the pc.
* `CoreProofs`: `LoadUseBubbleHolds` and `BranchAloneHolds`, for every program and
  every encoding of the instructions. The two are proved together: `FetchPhase`
  says that the fetch unit asks for a stall exactly while it fetches a line and
  that what it hands on in its lookup state needs no hold; `BubbleBehind` says
  for all six kinds of instruction with a hold (`BranchAlone` for four of them)
  that a bubble is behind them and the fetch unit at its lookup. A load reaches
  execute only from decode, with that bubble behind it. No types are needed.

  `CpuDrivesMemSys` says that each edge of `Core` is one of `MemSys` with decode
  and execute as the environment, and `CpuMemoryCorrect` that therefore
  `Handshake`, `CacheCoherent`, `ProgramsWord`, `OnlyStoresWrite`, `StoreLands` and
  `LoadReturnsMemory` hold of the whole CPU (safety only: `Core`'s fairness says
  nothing of `MemSys`'s without ENABLED). The hypotheses are `EnvAssumption`, that
  the RAM starts as `Program`, and `ProgramFits`: the program fetches from its own
  instructions and its loads and stores are among those allowed. `ProgramFits` is about the
  program, not the CPU; the programs of `MCCore`, with code in the first three
  lines and data in the fourth, keep to it.
* `IsaProofs`: `CoreTypeCorrect`, and `CpuIsIsa`: the pipelined CPU implements the
  sequential machine. Beside those of `CoreProofs` the second has two hypotheses,
  both about constants. `LegalProgram`: the program's words are instructions that the ISA
  defines and `IDU.v` implements (no `ecall`, no csr, no reserved `funct3`, of
  which `Isa` says nothing). `LoadsReadRam`: loads read
  RAM, for an input byte is no memory of the sequential machine. All programs
  of `MCCore` meet both, and TLC finds `ProgramFits` true in all states of that run.

  The inductive invariant `CpuInv` adds to the memory system's and to `HoldInv`
  (`CoreProofs`) the types of the pipeline's registers (`PipeTypeOK`) and
  - `Decoded` — decode holds a bubble, or the program's word at the pc beside it;
  - `PcChain` — behind an instruction in decode, the fetch unit's pc is that
    instruction's own until the next lookup and that of the following
    instruction from then on. This is what makes the mapped pc right:
    after a jump nothing else has been fetched yet (`BranchAlone`);
  - `PendingReadsRam` — the load that is waited for reads RAM.

  The argument goes edge by edge. `FetchEdge`, `MaEdge`, `RamEdge` and `LoadEdge`
  say what an edge of the memory system does in `Core`'s words. If execute
  is stalled, the mapped memory, registers and pc stay (`StalledStutters`):
  the bytes of a store arrive in the RAM one by one, but the mapped memory has
  had the whole store since it left decode. If not, the instruction that
  leaves decode is the one at the mapped pc (`InstructionInMemory`), its operands
  after forwarding are the mapped registers (`OperandRead`), and the mapped state after the
  edge is what `Isa` makes of it (`ExecutesInstruction`, one case per kind of
  instruction); a bubble changes nothing. The pipeline's arithmetic on words of bytes
  is compared with the ISA's on numbers: `NumberOfWord` and `WordOfNumber` (a
  word and its number determine each other), `SameShift` (the arithmetic shift that
  `EXU.v` puts together from two), `SameComputed`. That the bits of a word make up
  a number of that width (`OfBitsTyped`) is an induction; `Steps` does it for a
  set of numbers, by its least counterexample, without an operator as parameter.
* `FifoProofs`: `FifoTypeCorrect`, `FlagsConservativeHolds`, and the two
  refinements `FifoIsQueue` and `FifoIsFlaggedQueue`. The invariant is
  `TypeOK /\ FlagsConservative`: with equal pointers the count is read off the
  full flag, so the flags must be known to be at most one entry off before the
  contents of the next state can be computed (`ContentsStep`).

* `UartProofs`: `UartTypeCorrect` and `DeliversFrontHolds`, for every number of
  data, parity and stop bits, every division of the clock, every depth of the
  fifo and every writer. The second has two hypotheses:
  - `SamplesInBit`. The tick counter is wide enough for the stop bits, and the
    receiver samples inside the bit. It begins a frame at some edge of a tick of its
    own, and its registers and the sender's cost three clocks, so that it is at most a tick
    and three clocks off the middle of the bit, and up to `3 * MaxSkew` more by
    the drift. With 16 ticks to a bit and 46 clocks to a tick (85 MHz,
    `riscv_top.v:16`) the condition reads `3 * MaxSkew <= 320`: the clocks may
    drift apart by 106 of the 8096 edges of a frame. The constants of run `uart`
    satisfy it with one edge to spare.
  - `ParityMode # 2`: in even mode the two ends disagree (run `uart_even`).

  The link is always in one of four phases: `Waiting` (the line is high and what
  was sent has been received), `Latched` (a value is in the transmitter, the line
  not yet low), `Starting` (the line is low, the receiver has not begun) and
  `Synced`. The place of an end in its frame is a bit and the clock edges passed
  in it (`TxBit`, `TxPos`, `RxBit`, `RxPos`), and `Synced` says that the sender is
  ahead by a *lead* that stays between `LeadMin` and `LeadMax` up to the drift since
  (`Near`, the lemmas `LeadBoth`, `LeadSender`, `LeadReceiver`). The lead is less
  than a bit, so the two ends change bit in turn and the receiver has the whole
  frame while the sender is in the stop bits. What the receiver is about to sample is
  older than the sender's state, since both ends register the line: `HeardAt` follows it
  from place to place, and `HeardSampled` says that it is of the right bit.
  `SenderInv` says that the transmitter still holds what is left of the fifo's
  front, `GotSoFar` that the receiver holds what has been sent of it. The four
  phases were checked by TLC on three instances (one and two stop bits, with and
  without parity) before they were proved.

* `HciProofs`: `HostTypeCorrect`, `UploadArrives` and `RepliesHeard`, that is
  `TypeOK`, `Uploaded` and `HostHears`, for every size of RAM and fifo, all
  well-formed packets, all accesses of the CPU, all register values and any
  schedule of line, machine, CPU and host. The invariant `HostInv` has seven parts:
  - `Exchange` — where the machine is in the exchange with the host. The host's
    *view* (`View`) is what is still to happen: bytes of the packet not yet read
    (`rest`), of the reply not yet written (`left`), of the input not yet in the
    buffer (`more`), the RAM as the host believes it will be, its idea of the
    CPU's mode and of the error flag. A `Phase` says for each state of the machine what the
    view must be: `Idle`, `Sent` (nothing read yet), `InHeader` (the counters hold the
    digits that have been read of address and length), and one for each body
    (`EchoBody`, `InputBody`, `WriteBody`, `ReadBody`, `RegBody`, `ErrBody`). In `WriteBody`,
    for example, the RAM agrees with the host's image except at the next
    `executeCnt` addresses, whose bytes are those not yet read.
  - The view is the one that the fifos and the line make up now (`Current`), with one
    exception that took the invariant longest to find: the machine may have written
    a reply, or have none to write, and the host send the next packet, while the last byte
    of the previous packet is still in the receive fifo. Then the phase is that of
    the earlier packet (`Overtaken`), and the later one is added to it once the
    byte is read (lemma `CpuStep` and those before it).
  - `ReplyInv`, `InputInv` — what the host is owed is what the transmit fifo holds,
    then the byte in the output register, then what the machine has yet to write;
    and the same for the input.
  - `RoomInv` — the machine writes an echo without looking at the full flag, and a
    register read looks a clock too early (`hci.v:345-359`, `hci.v:423`), so no reply may outgrow the
    fifo: that is why an echo is no longer than it.
  - `LineInv` (bytes are a clock apart at least, so the receive fifo holds one at
    most), `PortInv` (the CPU's accesses fall where the line is quiet), `TypeOK`.

  The step is proved per state of the packet machine (`EchoStep`, `MemHeaderStep`,
  `RegReadStep`, ...: `GoesOn` says that whatever the machine takes and writes is at
  the front of the view and that what is left is a phase again), then the fifos
  (`ReplyClock`, `InputClock`), then put together (`ClockStep`, `SendStep`).
* `SerialProofs`: five properties of the run `serial`, for any number of threads,
  ports and descriptors, any scripts, sizes, time-outs and failures, on both
  platforms. The invariants, each built on the one before:
  - `CallInv` — which steps a call of each kind can be at (`LegalStep`). Each
    step of the code is a step of one call and leaves the others alone
    (`CodeOfStep`, `StepCases`).
  - `LocksHeld` — a mutex is held exactly by the call that is past its lock and
    not at its end. With `AloneInv` (open and close have the object to
    themselves) it follows that of all steps under a lock only `setPort`'s own
    change the descriptor.
  - `DescriptorInv` — while no `::close` has failed, an open port's descriptor is
    its own file's, except between `::close` and the end of
    `SerialImpl::close`, which is under both locks. `SafeDescriptorHolds`
    follows. The exception is the code's: after a `::close` that fails, the
    object keeps a descriptor that the system has given up.
  - `TimeInv` — the types of the timers, and `WaitInv`: while a write waits for
    room, its wait is no shorter than the time it has left. Without it the end of
    the wait would not mean the end of the time, and `ShortMeansTimeoutHolds`
    would not follow.
  - `QueueInv` and `ReadInv` — an input queue ends with the byte that arrived
    last, and what the holder of the read lock has collected comes right before
    the queue's first. `ReadsWholeHolds` follows; "consecutive" alone is not
    inductive, because it does not say which byte the next `::read` gives.
    `AlarmInv` — between a reader's `select` and its `::read` the queue has a
    byte or the device is gone — gives `NoFalseAlarmHolds`.
  - `WireInv` — from the first byte of a write that holds its lock on, the wire
    holds nothing but bytes of that call, and a byte on the wire is of a call
    that its thread has made already. `WritesWholeHolds` follows.
* In the same module: `ReconfiguredType` and `SettingsTakeEffect`, about the operator
  that `UConfig` and `UApply` use: for all settings and all attributes with
  `TakesEffect`, `Frame(Reconfigured(s, o)) = AskedFrame(s)`. The pieces of
  `reconfigurePort` touch disjoint fields and flags (`Fields`), except the
  parity, which is a case analysis of its own (`ParityTakesEffect`). Then
  `SerialTypeCorrect` (with `AttributesInv` and `SystemInv` for
  the parts that the other invariants do not reach) and `SettingsInEffectHolds`:
  `SettingsTakeEffect` is about the operator, this theorem about
  the threads that use it. `EffectInv` says that when no call is at or past the
  reading of the attributes (`Late`), the open port's terminal has the object's
  settings, and that a call that is about to apply attributes holds those computed from
  the settings as they are. Its hypothesis is `OneConfigures(m)`: of all
  threads only m makes calls that configure the port (`set`, `setTimeout`, `setPort`); any
  thread may read, write, open and close. `OneConfigures(t0)` holds of the run's
  jobs. The hypothesis is needed: the setters take no lock, and of two at a time the
  one that computed its attributes first may apply them last (`serial.cc:99`, in
  the hazards).
* `ControllerProofs`: `ControllerTypeCorrect`. Unlike `HciHost`, whose packets are
  well-formed, `Controller` lets a killed session leave a packet half sent, so
  that the board may take any byte in any state; the types of its registers hold
  all the same (`PacketsTyped`: the address and the counts wrap at 17 bits), as do the fifos'
  (`QueueOK`: a full one has its flag up, an empty one too, although `fifo.v`'s
  flags may err on the other side). For the host, `HostOK` adds to the types that
  nothing is left of one read when the next begins, without which a read would
  take more than it asked for (`ReadMore`); and every packet
  consists of bytes because the block to be sent starts inside its file
  (`BlockInside`, `ThreeBytes`).

**Only model-checked:**

* all liveness (`StallsEnd`, `KeepsExecuting`, `KeepsSending`, `PacketsServed`,
  `CallsReturn`, `SessionEnds`): fairness and ENABLED are out of the prover's
  reach;
* what the controller's sessions show and start (`HeardWasSaid`,
  `StartedRight`). The two are not true of all constants: nothing tells the
  controller the greeting from a program's output or a memory read that has the
  same bytes, so they rest on what the programs print.

## 7. Not modelled

The adders (in the plan) and the adder board demo, whose HCI and controller are
reduced copies of those modelled; the benches (clock and reset only); the clock
generator and generated netlists (vendor and tool output); the listing of serial
ports (`list_ports_*`: stateless look-ups in the file system or the registry);
the C test programs and build files, used only as statements of what programs
do. The dual-port RAM of `block_ram.v` and `sim/fakecpu.v` are instantiated
nowhere, and `verify_ram` of `listener.h` is called nowhere.

Of the serial library: overlapped and purged I/O below the calls that `win.cc`
makes, the branches for OS X, the length of a byte on the line
(`byte_time_ns_`, which only sets the length of a pause whose result nobody
looks at), and exceptions for values outside the enumerations. Of the board's
top: reset synchronisation and the debugger's writes while the CPU is paused.

## 8. Plan

Done, in this order: memory system and its handshake; the whole core against
the ISA; the pause; the fifo; the UART; the HCI with its host; proofs of the
handshake, the stores and the fifo; the serial library; the controller's
sessions; proofs about the terminal settings; proofs about loads, the cache and
what is executed; proofs about the serial library's locks, queues, time-outs and
settings; proofs about the core's bubbles and that it drives `MemSys`; proofs
about the serial link; proofs about the HCI with its host; the proof that the
core implements the ISA; proofs about the controller's types.

To come, in order of weight:

1. `IoSys` — `MemSys` with the I/O port of `Hci` on the bus: the byte an input
   load returns against the byte popped (`hci.v:201`; `listener.h` puts two
   spaces before the input), the cycle counter read byte by byte while it runs
   (`hci.v:202`), and a break in the middle of an I/O access, which repeats it
   (`hci.v:232`).
2. `Adder`: both adders as pure operators against addition over bounded inputs;
   the carry terms of `adder2.v:66-70` against its own sum.
3. The debugger's writes and the reset synchronisation of `riscv_top.v`.
