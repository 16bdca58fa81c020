----------------------------- MODULE MCThreads -----------------------------
(* Small instances of Threads: main, one more kernel thread (init before   *)
(* it enters user mode), user threads and idle.                            *)
EXTENDS Threads

CONSTANTS main, init, u1, u2, idle

\* A slice of one tick: a thread is preempted at its second timer interrupt.
OneTick == [t \in Threads |-> 1]

\* Every timer interrupt preempts, but those who sleep have a tick to spare.
SleeperTick == [t \in Threads |-> IF t \in Sleepers THEN 1 ELSE 0]

\* Everybody takes every lock, or: u1 uses the disk, u2 the disk and the
\* keyboard, and main computes.
AnyLock == [t \in Workers |-> Locks]
DeviceLocks == [t \in Workers |-> IF t = u1 THEN {"channel"}
                                  ELSE IF t = u2 THEN Locks ELSE {}]

Boot == <<init, idle, u1>>
BootU == <<u1, idle, u2>>
=============================================================================
