-------------------------------- MODULE Ctrl --------------------------------
(***************************************************************************)
(* The stall command (core/Ctrl.v), combinational: stage k of the pipeline *)
(* (0 fetch, 1 decode, 2 execute, 3 memory access, 4 write-back) stalls    *)
(* while the memory-access stage asks for 01111 or the fetch unit for      *)
(* 00001.  The memory-access stage has priority.  rdy is high.             *)
(***************************************************************************)
EXTENDS Naturals

StallCmd(ifStall, maStall) ==
  IF maStall THEN 0 .. 3
  ELSE IF ifStall THEN {0}
  ELSE {}
=============================================================================
