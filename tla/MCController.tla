---------------------------- MODULE MCController ----------------------------
(* An instance of Controller: the length of the greeting is the opcode     *)
(* that starts the CPU, as it is in the code, both files end inside a      *)
(* block, and the program reads and prints.                                *)
EXTENDS Controller

MCGreeting == <<12, 6, 2, 13>>
Command(interactive, file, text) ==
  [interactive |-> interactive, image |-> file, input |-> text]
MCCommands == {Command(FALSE, <<8, 9, 8, 7>>, <<>>), Command(TRUE, <<7, 8>>, <<10>>)}
Access(wr, sel, din) == [en |-> TRUE, wr |-> wr, sel |-> sel, din |-> din]
MCProgram == <<Access(TRUE, 0, 7), Access(FALSE, 0, 0), Access(TRUE, 4, 1)>>
MCDbgReg == [i \in 0 .. 3 |-> IF i = 0 THEN 1 ELSE 0]
=============================================================================
