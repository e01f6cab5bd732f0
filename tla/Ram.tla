-------------------------------- MODULE Ram --------------------------------
(***************************************************************************)
(* The on-board RAM of ram.v and block_ram.v: one port, one byte per       *)
(* clock, the address of a read registered, so that the byte of the        *)
(* address presented in one cycle is on the bus in the next.  The RAM is   *)
(* not gated by the CPU's rdy.                                             *)
(***************************************************************************)
EXTENDS Machine

VARIABLES
  ram,   (* the bytes *)
  ramQ   (* q_addr_a, the registered read address *)

ramVars == <<ram, ramQ>>

RamTypeOK ==
  /\ ram \in [CpuAddr -> Byte]
  /\ ramQ \in CpuAddr

RamInit(contents) ==
  /\ ram = contents
  /\ ramQ = 0

(* A definition named ..._x_... is not the code's: it is a slip, which a   *)
(* checked property must notice when it takes the code's place.            *)
RamClock_x_IoWrites(a, wr, d) ==
  /\ ram' = IF wr THEN [ram EXCEPT ![RamIndex(a)] = d] ELSE ram
  /\ ramQ' = RamIndex(a)

(* One clock of the RAM with the bus at address a, write signal wr and     *)
(* outgoing byte d.  The I/O half of the address space does not write.     *)
RamClock(a, wr, d) ==
  /\ ram' = IF wr /\ ~IoEnabled(a) THEN [ram EXCEPT ![RamIndex(a)] = d] ELSE ram
  /\ ramQ' = RamIndex(a)

(* The byte on the CPU's data input: the I/O block's when the address now  *)
(* presented is an I/O address, the RAM's otherwise.                       *)
BusByte(a, io) == IF IoEnabled(a) THEN io ELSE ram[ramQ]
=============================================================================
