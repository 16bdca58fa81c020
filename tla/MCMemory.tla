------------------------------ MODULE MCMemory ------------------------------
(***************************************************************************)
(* Pages, Heap and Bitmap on small instances.  They share no state: one of *)
(* the three is chosen at first and only that one moves.                   *)
(***************************************************************************)
EXTENDS Pages, Heap, Bitmap, TLC

VARIABLE part

\* one class of arenas, of two blocks each
MCBlocks == 1 :> 2

MCInit == part \in {"pages", "heap", "bitmap"} /\ Init /\ HeapInit /\ bitmap_init

MCNext ==
    \/ part = "pages" /\ Next /\ UNCHANGED <<part, heap_vars, bitmap_vars>>
    \/ part = "heap" /\ HeapNext /\ UNCHANGED <<part, vars, bitmap_vars>>
    \/ part = "bitmap" /\ BitmapNext /\ UNCHANGED <<part, vars, heap_vars>>

MCSpec == MCInit /\ [][MCNext]_<<part, vars, heap_vars, bitmap_vars>>
=============================================================================
