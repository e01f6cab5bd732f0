----------------------------- MODULE CorePause -----------------------------
(***************************************************************************)
(* Core with the debugger: while the HCI block is active rdy is low, the   *)
(* HCI drives the RAM's bus (riscv_top.v lines 149-155), and each stage    *)
(* does what it does without rdy.  The HCI may become active and inactive  *)
(* in any cycle and here only reads.                                       *)
(***************************************************************************)
EXTENDS Core

(* Everything that is gated by rdy keeps its value.  The write-back stage  *)
(* is not: it is cleared (WBU.v line 60).                                  *)
Pause(hciAddr) ==
  /\ RamClock(hciAddr, FALSE, 0)
  /\ wb' = EmptyWb
  /\ UNCHANGED <<mcVars, ifVars, maVars, ifId, idEx, regs>>

PauseNext == Next \/ \E a \in CpuAddr : Pause(a)
PauseSpec == Init /\ [][PauseNext]_vars /\ WF_vars(Next)

(* "Pause cpu(freeze pc, registers, etc.) when rdy_in is low" (cpu.v line  *)
(* 23): a pause is invisible to the program, whose registers, pc and       *)
(* memory stay as they were.                                               *)
PauseFreezes ==
  [][(\E a \in CpuAddr : Pause(a))
       => UNCHANGED <<IsaPc, [r \in Regs |-> IsaReg(r)], IsaMemory>>]_vars
=============================================================================
