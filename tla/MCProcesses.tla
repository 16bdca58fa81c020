---------------------------- MODULE MCProcesses ----------------------------
(* init, main, idle, the shell and spare PCB pages for its descendants. *)
EXTENDS Processes, TLC
CONSTANTS Spare
SparePages == Permutations(Spare)
AllPcbs == {InitPcb, MainPcb, IdlePcb, ShellPcb} \cup Spare
=============================================================================
