------------------------------ MODULE Machine ------------------------------
(***************************************************************************)
(* The data of the machine of CPU_RISCV: bytes, words, cache lines and the *)
(* addresses of the byte-wide bus.                                         *)
(*                                                                         *)
(* The sizes are parameters.  The FPGA build has RamBytes = 2^17,          *)
(* ByteBase = 256, LineBytes = 16; a word always has four bytes.  A word   *)
(* is the function of its bytes, byte 0 the least significant, which is    *)
(* how the memory controller builds it.                                    *)
(*                                                                         *)
(* The bus uses 18 address bits: the first RamBytes addresses are the RAM, *)
(* the next RamBytes are the RAM again (ram.v drops the top bit), except   *)
(* that their upper half is the I/O port (top two bits 11).                *)
(***************************************************************************)
EXTENDS Naturals

CONSTANTS
  RamBytes,   (* bytes of RAM: 2^RAM_ADDR_WIDTH *)
  LineBytes,  (* bytes of an instruction cache line *)
  ByteBase    (* number of values of a byte *)

ASSUME SizeAssumption ==
  /\ RamBytes \in Nat /\ LineBytes \in Nat /\ ByteBase \in Nat
  /\ LineBytes >= 4 /\ RamBytes >= LineBytes /\ ByteBase >= 2

Byte     == 0 .. ByteBase - 1
Word     == [0 .. 3 -> Byte]
Line     == [0 .. LineBytes - 1 -> Byte]
ZeroWord == [i \in 0 .. 3 |-> 0]
ZeroLine == [i \in 0 .. LineBytes - 1 |-> 0]

CpuAddr  == 0 .. RamBytes - 1       (* the 17 bits of a pc *)
BusAddr  == 0 .. 2 * RamBytes - 1   (* the 18 bits of cpumc_a *)

(* The next bus address, wrapping; and the RAM byte an address selects.    *)
NextBus(a)  == IF a + 1 = 2 * RamBytes THEN 0 ELSE a + 1
RamIndex(a) == IF a < RamBytes THEN a ELSE a - RamBytes

(* Address bits 17:16 are 11.                                              *)
IoEnabled(a) == 2 * a >= 3 * RamBytes

(* funct3 of a load or a store, and the bytes it moves.                    *)
Width == {"b", "h", "w", "bu", "hu"}
BytesOf(width) ==
  IF width \in {"b", "bu"} THEN 1 ELSE IF width \in {"h", "hu"} THEN 2 ELSE 4

(* The addresses of the bytes of an access.                                *)
AccessBytes(addr, width) == addr .. addr + BytesOf(width) - 1
=============================================================================
