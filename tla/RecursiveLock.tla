--------------------------- MODULE RecursiveLock ---------------------------
(***************************************************************************)
(* What a struct lock promises its callers: it has at most one owner, the  *)
(* owner may acquire it again, and it is free again after as many releases *)
(* as acquisitions.  Threads implements it.                                *)
(***************************************************************************)
EXTENDS Naturals

CONSTANTS Workers, Locks, NoThread

VARIABLES
    owner,      \* the thread that has the lock, or NoThread
    depth       \* acquisitions not yet released

Init == owner = [l \in Locks |-> NoThread] /\ depth = [l \in Locks |-> 0]

Acquire(t, l) ==
    /\ owner[l] = NoThread
    /\ owner' = [owner EXCEPT ![l] = t]
    /\ depth' = [depth EXCEPT ![l] = 1]

Reenter(t, l) ==
    /\ owner[l] = t
    /\ depth' = [depth EXCEPT ![l] = @ + 1]
    /\ UNCHANGED owner

Leave(t, l) ==
    /\ owner[l] = t
    /\ depth[l] > 1
    /\ depth' = [depth EXCEPT ![l] = @ - 1]
    /\ UNCHANGED owner

Release(t, l) ==
    /\ owner[l] = t
    /\ depth[l] = 1
    /\ owner' = [owner EXCEPT ![l] = NoThread]
    /\ depth' = [depth EXCEPT ![l] = 0]

Next == \E t \in Workers, l \in Locks :
            Acquire(t, l) \/ Reenter(t, l) \/ Leave(t, l) \/ Release(t, l)

Spec == Init /\ [][Next]_<<owner, depth>>
=============================================================================
