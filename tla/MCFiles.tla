------------------------------ MODULE MCFiles -------------------------------
(***************************************************************************)
(* OpenFiles and FileData on small instances.  They share no state: one of *)
(* the two is chosen at first and only that one moves.                     *)
(***************************************************************************)
EXTENDS OpenFiles, FileData, TLC

CONSTANTS file1, file2

VARIABLE part

\* two files of at most four blocks, two of them direct; file2 is deleted
MCCounts  == file1 :> {0, 1, 3} @@ file2 :> {2}

\* file1 exists
MCOnDisk == [f \in Files |-> IF f = file1 THEN 1 ELSE 0]

MCInit == part \in {"open", "bytes"} /\ Init /\ DataInit

MCNext ==
    \/ part = "open" /\ Next /\ UNCHANGED <<part, data_vars>>
    \/ part = "bytes" /\ DataNext /\ UNCHANGED <<part, vars>>

MCSpec == MCInit /\ [][MCNext]_<<part, vars, data_vars>>
=============================================================================
