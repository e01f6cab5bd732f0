---------------------------- MODULE MemSysPause ----------------------------
(***************************************************************************)
(* MemSys with the debugger: while the HCI block is active rdy is low and  *)
(* the HCI drives the RAM's bus (riscv_top.v lines 149-155); it may become *)
(* active and inactive in any cycle and here only reads.  The three        *)
(* machines keep their registers, but the RAM is clocked on.               *)
(***************************************************************************)
EXTENDS MemSys

Pause(hciAddr) ==
  /\ RamClock(hciAddr, FALSE, 0)
  /\ UNCHANGED <<mcVars, ifVars, maVars>>

PauseNext == Next \/ \E a \in CpuAddr : Pause(a)
PauseSpec == Init /\ [][PauseNext]_vars /\ WF_vars(Next)

(* "pause cpu on hci active" (riscv_top.v line 149), "Pause cpu(freeze pc, *)
(* registers, etc.)" (cpu.v line 23): a load that is paused while its      *)
(* bytes are on their way returns what it would have returned.             *)
PausedLoadReturnsMemory == LoadReturnsMemory
=============================================================================
