------------------------------ MODULE MCShell -------------------------------
(***************************************************************************)
(* From the keys to the paths: the keyboard driver, the shell that reads   *)
(* what it types, and the tree that its commands change, on small          *)
(* instances.  They share no state: one of the three is chosen at first    *)
(* and only that one moves.                                                *)
(***************************************************************************)
EXTENDS Keyboard, Shell, Tree

VARIABLE part

MCInit == part \in {"keyboard", "shell", "tree"} /\ Init /\ ShellInit /\ TreeInit

MCNext ==
    \/ part = "keyboard" /\ Next /\ UNCHANGED <<part, shell_vars, tree_vars>>
    \/ part = "shell" /\ ShellNext /\ UNCHANGED <<part, vars, tree_vars>>
    \/ part = "tree" /\ TreeNext /\ UNCHANGED <<part, vars, shell_vars>>

MCSpec == MCInit /\ [][MCNext]_<<part, vars, shell_vars, tree_vars>>
=============================================================================
