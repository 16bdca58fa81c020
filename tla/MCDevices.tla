----------------------------- MODULE MCDevices ------------------------------
(***************************************************************************)
(* The keyboard buffer and the disk driver on small instances.  They share *)
(* no state: one of the two is chosen at first and only that one moves.    *)
(***************************************************************************)
EXTENDS IoQueue, Ide

VARIABLE part

MCInit == part \in {"queue", "disk"} /\ Init /\ IdeInit

MCNext ==
    \/ part = "queue" /\ Next /\ UNCHANGED <<part, ide_vars>>
    \/ part = "disk" /\ IdeNext /\ UNCHANGED <<part, vars>>

\* The actions of the part that was not chosen are never enabled.
MCSpec ==
    MCInit /\ [][MCNext]_<<part, vars, ide_vars>> /\ Fairness /\ IdeFairness
=============================================================================
