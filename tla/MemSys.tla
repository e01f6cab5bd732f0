------------------------------- MODULE MemSys -------------------------------
(***************************************************************************)
(* The memory system of the CPU: fetch unit, memory-access stage, memory   *)
(* controller and RAM, clocked together as cpu.v and riscv_top.v wire      *)
(* them, with rdy high and rst low.  The rest of the CPU is the            *)
(* environment: in any cycle the decode stage may redirect the fetch to    *)
(* any address of FetchAddrs and the execute stage may present any access  *)
(* of Accesses.                                                            *)
(***************************************************************************)
EXTENDS Ram, MemoryCtrl, Fetch, MemAccess, Ctrl, Naturals

CONSTANTS
  FetchAddrs,   (* the addresses of the program's instructions *)
  Accesses,     (* what the execute stage may present *)
  Program       (* the RAM's initial contents *)

Present == [ma_we : BOOLEAN, ma_re : BOOLEAN, addr : BusAddr, width : Width, mdata : Word,
            we : BOOLEAN, waddr : Regs, wdata : Word]

(* What the tool chain gives the hardware: word-aligned code, accesses     *)
(* that lie in the RAM or in the I/O space, and, because nothing           *)
(* invalidates the instruction cache, no store to a line of code (the      *)
(* linker script keeps code and data apart).                               *)
ASSUME EnvAssumption ==
  /\ FetchAddrs \subseteq CpuAddr
  /\ \A a \in FetchAddrs : BaseOf(a) <= a /\ a + 4 <= BaseOf(a) + LineBytes
                           /\ BaseOf(a) + LineBytes <= RamBytes
  /\ Accesses \subseteq Present
  /\ \A in \in Accesses :
       /\ ~(in.ma_we /\ in.ma_re)
       /\ in.addr + 4 <= RamBytes \/ (IoEnabled(in.addr) /\ in.addr + 4 <= 2 * RamBytes)
       /\ in.ma_we => in.width \in {"b", "h", "w"}
       /\ in.ma_we => \A a \in FetchAddrs : \A b \in AccessBytes(in.addr, in.width) :
                        b < BaseOf(a) \/ b >= BaseOf(a) + LineBytes
  /\ Program \in [CpuAddr -> Byte]

vars == <<ramVars, mcVars, ifVars, maVars>>

StallNow == StallCmd(ifStallReq, maStallReq)

Init ==
  /\ RamInit(Program)
  /\ McInit
  /\ IfInit
  /\ MaInit

(* One clock edge: in is what the execute stage presents, npc the address  *)
(* of the next instruction (the decode stage redirects the fetch exactly   *)
(* when it is not the following one), io the byte from the I/O block.      *)
Clock(in, npc, io) ==
  /\ RamClock(ramA, ramWr, ramDout)
  /\ McClock(maReq, ifReq, BusByte(ramA, io))
  /\ IfClock(npc # NextPc(FALSE, npc), npc, instData, instBusy, StallNow)
  /\ MaClock(in, memRdata, memBusy, StallNow)

(* An input that no unit reads in this cycle has one value only.           *)
Presented == IF maSta = "idle" THEN Accesses ELSE {NoAccess}
NextPcs   == IF ifSta = "lookup" /\ 0 \notin StallNow THEN FetchAddrs ELSE {pc}
IoBytes   == IF IoEnabled(ramA) THEN Byte ELSE {0}

Next == \E in \in Presented, npc \in NextPcs, io \in IoBytes : Clock(in, npc, io)

(* The clock never stops.                                                  *)
Spec == Init /\ [][Next]_vars /\ WF_vars(Next)
-----------------------------------------------------------------------------
(* Every register holds a value of its kind.                               *)
TypeOK ==
  /\ RamTypeOK /\ McTypeOK /\ IfTypeOK /\ MaTypeOK

(* Whom the memory controller is serving.                                  *)
ServesMem   == mcSta = "write" \/ (mcSta = "read" /\ ~instBusy)
ServesFetch == mcSta = "read" /\ instBusy

(* The handshake of Memory_Ctrl.v with its two clients.  The answer stays  *)
(* on its outputs for the single cycle of the stall state, and a client    *)
(* tells acceptance from completion only by the busy line, so the phases   *)
(* of the three machines must interlock: at most one client is served; a   *)
(* busy client is asking and has seen its acceptance at most one cycle     *)
(* late; a client that waits for the answer is being served or is being    *)
(* answered in this very cycle; and nobody asks for what is over when the  *)
(* controller listens again.                                               *)
Handshake ==
  /\ memBusy = ServesMem /\ instBusy = ServesFetch
  /\ memBusy => maSta \in {"request", "wait"}
  /\ instBusy => ifSta \in {"request", "fill"}
  /\ maSta = "wait" /\ ~memBusy => mcSta = "stall"
  /\ ifSta = "fill" /\ ~instBusy => mcSta = "stall"
  /\ mcSta = "stall" => (maSta = "wait") # (ifSta = "fill")
  /\ mcSta = "listen" => maSta # "wait" /\ ifSta # "fill"

(* The RAM's bytes at an access, zero extended.                            *)
MemoryAt(addr, width) ==
  [i \in 0 .. 3 |-> IF i < BytesOf(width) THEN ram[addr + i] ELSE 0]

(* The value of a load over those bytes, by the ISA: the sign of the       *)
(* access is repeated in the bytes above it unless the load is unsigned.   *)
Signed(width, bytes) ==
  LET top == BytesOf(width) - 1 IN
  [i \in 0 .. 3 |-> IF i > top /\ width \in {"b", "h"} /\ 2 * bytes[top] >= ByteBase
                    THEN ByteBase - 1 ELSE bytes[i]]

(* A load delivers to the register write-back exactly the bytes the RAM    *)
(* holds at its address, sign or zero extended, whatever fetches were      *)
(* served before it (MAU.v lines 207-220 with Memory_Ctrl.v).              *)
LoadReturnsMemory ==
  [][maSta = "wait" /\ maSta' = "idle" /\ maReq.re /\ ~IoEnabled(maReq.addr)
       => maOut'.wdata = Signed(maReq.width, MemoryAt(maReq.addr, maReq.width))]_vars

(* When a store is reported done all its bytes are in the RAM.             *)
StoreLands ==
  [][maSta = "wait" /\ maSta' = "idle" /\ maReq.we /\ ~IoEnabled(maReq.addr)
       => \A i \in 0 .. BytesOf(maReq.width) - 1 : ram'[maReq.addr + i] = maReq.wdata[i]]_vars

(* The RAM changes only in the bytes of a store that the memory-access     *)
(* stage is still waiting for: no stray write of another byte, of a        *)
(* withdrawn request, or through the I/O space (the write signal stays up  *)
(* through the stall state, Memory_Ctrl.v lines 145-150).                  *)
OnlyStoresWrite ==
  [][\A b \in CpuAddr :
       ram'[b] # ram[b] => maReq.we /\ maSta # "idle"
                           /\ b \in AccessBytes(maReq.addr, maReq.width)]_vars

(* A cache line that is not being filled is the RAM's line, although every *)
(* partial line of a fill was stored as valid (IFU.v line 43).             *)
LineInRam(k) ==
  [i \in 0 .. LineBytes - 1 |->
     ram[(icache[k].tag * CacheLines + k) * LineBytes + i]]
CacheCoherent ==
  \A k \in 0 .. CacheLines - 1 :
    icache[k].valid /\ ~(ifSta = "fill" /\ k = IndexOf(pc)) => icache[k].data = LineInRam(k)

(* An instruction handed to the decode stage is the word the RAM holds at  *)
(* the pc handed with it; otherwise inst is the zero bubble.  Garbage that *)
(* a miss or a partial fill leaves in inst is always hidden by the stall   *)
(* request.                                                                *)
FetchedFromRam ==
  ~ifStallReq /\ inst # ZeroWord => inst = [i \in 0 .. 3 |-> ram[pc + i]]

(* Neither client waits for ever: a stall request is followed by its       *)
(* release, also when the other client keeps asking.                       *)
StallsEnd ==
  /\ maStallReq ~> ~maStallReq
  /\ ifStallReq ~> ~ifStallReq
=============================================================================
