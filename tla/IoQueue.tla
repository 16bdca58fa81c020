------------------------------ MODULE IoQueue ------------------------------
(***************************************************************************)
(* device/ioqueue.c as it is used: the keyboard handler produces, threads  *)
(* that read standard input consume.                                       *)
(*                                                                         *)
(* ioq_getchar runs inside a system call with interrupts off.  It gives up *)
(* the CPU in two places only: in lock_acquire, when another reader has    *)
(* the lock, and in ioq_wait.  Everything between two such places is one   *)
(* step.  The handler runs whenever no reader is inside such a step; it    *)
(* tests ioq_full before it calls ioq_putchar, so ioq_putchar never waits. *)
(***************************************************************************)
EXTENDS Naturals, Sequences

CONSTANTS
    Readers,    \* threads that call ioq_getchar
    NoReader,   \* NULL
    Chars,      \* what the keymap yields
    bufsize     \* 64 in the code

ASSUME IoQueueAssumption ==
    /\ NoReader \notin Readers
    /\ bufsize \in Nat \ {0}
    /\ Chars # {}

VARIABLES
    buf, head, tail,    \* the ring: written at head, read at tail
    consumer,           \* ioq->consumer
    value, waiters,     \* ioq->lock's semaphore
    pc,                 \* "out", "lockwait" / "lockretry" in sema_down,
                        \* "asleep" / "awake" in ioq_wait
    crowd,              \* history: a reader came while another was inside,
                        \* and they have not all left since
    panic

vars == <<buf, head, tail, consumer, value, waiters, pc, crowd, panic>>

next_pos(pos) == (pos + 1) % bufsize
\* Variant: the slot at head is always taken to be free.
ioq_full_never == FALSE

ioq_full      == next_pos(head) = tail
ioq_empty     == head = tail

\* What buf holds at first does not matter: it is written before it is read.
ioqueue_init ==
    /\ buf = [i \in 0..(bufsize - 1) |-> CHOOSE c \in Chars : TRUE]
    /\ head = 0
    /\ tail = 0
    /\ consumer = NoReader
    /\ value = 1
    /\ waiters = << >>

Init ==
    /\ ioqueue_init
    /\ pc = [r \in Readers |-> "out"] /\ crowd = FALSE /\ panic = FALSE

\* Another reader than r is inside ioq_getchar.
OthersInside(r) == \E s \in Readers \ {r} : pc[s] # "out"

\* ioq_wait(&ioq->consumer) by r, who has the lock.
ioq_wait(r) ==
    IF consumer = NoReader
    THEN /\ consumer' = r
         /\ pc' = [pc EXCEPT ![r] = "asleep"]
         /\ UNCHANGED panic
    ELSE /\ panic' = TRUE
         /\ UNCHANGED <<consumer, pc>>

\* Variants: consumer is not reset; nobody is woken.
ioq_wakeup_keeps_consumer ==
    /\ pc' = [pc EXCEPT ![consumer] = "awake"]
    /\ UNCHANGED <<consumer, panic>>
ioq_wakeup_nobody == UNCHANGED <<consumer, pc, panic>>

\* ioq_wakeup(&ioq->consumer)
ioq_wakeup ==
    IF pc[consumer] = "asleep"
    THEN /\ pc' = [pc EXCEPT ![consumer] = "awake"]
         /\ consumer' = NoReader
         /\ UNCHANGED panic
    ELSE /\ panic' = TRUE
         /\ UNCHANGED <<consumer, pc>>

(***************************************************************************)
(* ioq_getchar by r from a test of the loop condition on.                  *)
(***************************************************************************)
\* The byte is there: take it and return.  ioq->producer is always NULL.
TakeChar == tail' = next_pos(tail)

ioq_getchar_take(r) ==
    /\ ~panic
    /\ pc[r] = "out"
    /\ ~ioq_empty
    /\ TakeChar
    /\ crowd' = (crowd \/ OthersInside(r))
    /\ UNCHANGED <<buf, head, consumer, value, waiters, pc, panic>>

\* In lock_acquire: the buffer was empty on entry, or sema_down tests again.
AtLock(r) == (pc[r] = "out" /\ ioq_empty) \/ pc[r] = "lockretry"

\* Variant: the reader waits without the lock.
ioq_getchar_wait_unlocked(r) ==
    /\ ~panic
    /\ AtLock(r)
    /\ ioq_wait(r)
    /\ crowd' = (crowd \/ OthersInside(r))
    /\ UNCHANGED <<buf, head, tail, value, waiters>>

\* Empty, and the lock is free: acquire it and wait for a character.
ioq_getchar_wait(r) ==
    /\ ~panic
    /\ AtLock(r)
    /\ value = 1
    /\ value' = 0
    /\ ioq_wait(r)
    /\ crowd' = (crowd \/ OthersInside(r))
    /\ UNCHANGED <<buf, head, tail, waiters>>

\* Empty, and another reader has the lock: wait in sema_down.
ioq_getchar_lock(r) ==
    /\ ~panic
    /\ AtLock(r)
    /\ value = 0
    /\ waiters' = Append(waiters, r)
    /\ pc' = [pc EXCEPT ![r] = "lockwait"]
    /\ crowd' = TRUE
    /\ UNCHANGED <<buf, head, tail, consumer, value, panic>>

(***************************************************************************)
(* ioq_wait returns: lock_release wakes the first waiter of the lock, and  *)
(* the loop tests ioq_empty again before anyone else runs.                 *)
(***************************************************************************)
\* pc after lock_release by r, who then goes to place.
Released(r, place) ==
    IF waiters = << >> THEN [pc EXCEPT ![r] = place]
    ELSE [pc EXCEPT ![Head(waiters)] = "lockretry", ![r] = place]
StillWaiting == IF waiters = << >> THEN waiters ELSE Tail(waiters)

ioq_getchar_woken(r) ==
    /\ ~panic
    /\ pc[r] = "awake"
    /\ ~ioq_empty
    /\ TakeChar
    /\ value' = 1
    /\ waiters' = StillWaiting
    /\ pc' = Released(r, "out")
    /\ crowd' = (crowd /\ OthersInside(r))
    /\ UNCHANGED <<buf, head, consumer, panic>>

\* Another reader emptied the buffer first: take the lock again and wait.
ioq_getchar_again(r) ==
    /\ ~panic
    /\ pc[r] = "awake"
    /\ ioq_empty
    /\ waiters' = StillWaiting
    /\ pc' = Released(r, "asleep")
    /\ consumer' = r
    /\ panic' = (consumer # NoReader)
    /\ UNCHANGED <<buf, head, tail, value, crowd>>

\* intr_keyboard_handler: a key is dropped when the buffer is full.
ioq_putchar(c) ==
    /\ ~panic
    /\ ~ioq_full
    /\ buf' = [buf EXCEPT ![head] = c]
    /\ head' = next_pos(head)
    /\ IF consumer # NoReader THEN ioq_wakeup ELSE UNCHANGED <<consumer, pc, panic>>
    /\ UNCHANGED <<tail, value, waiters, crowd>>

DropChar == ~panic /\ ioq_full /\ UNCHANGED vars

GetChar(r) ==
    \/ ioq_getchar_take(r)
    \/ ioq_getchar_wait(r)
    \/ ioq_getchar_lock(r)
    \/ ioq_getchar_woken(r)
    \/ ioq_getchar_again(r)

Next ==
    \/ \E r \in Readers : GetChar(r)
    \/ \E c \in Chars : ioq_putchar(c)
    \/ DropChar

Spec == Init /\ [][Next]_vars

\* The scheduler runs a reader that is inside ioq_getchar and not blocked.
InGetChar(r) == ioq_getchar_woken(r) \/ ioq_getchar_again(r)
                \/ (pc[r] = "lockretry" /\ (ioq_getchar_wait(r) \/ ioq_getchar_lock(r)))

Fairness == \A r \in Readers : WF_vars(InGetChar(r))

-----------------------------------------------------------------------------
TypeOK ==
    /\ buf \in [0..(bufsize - 1) -> Chars]
    /\ head \in 0..(bufsize - 1)
    /\ tail \in 0..(bufsize - 1)
    /\ consumer \in Readers \cup {NoReader}
    /\ value \in {0, 1}
    /\ waiters \in Seq(Readers)
    /\ pc \in [Readers -> {"out", "lockwait", "lockretry", "asleep", "awake"}]
    /\ {crowd, panic} \subseteq BOOLEAN

(***************************************************************************)
(* The ASSERT of ioq_wait that ioq->consumer is NULL and the status ASSERT *)
(* of thread_unblock hold with any number of readers: ioq->lock admits one *)
(* reader to ioq->consumer at a time.                                      *)
(***************************************************************************)
NoPanic == ~panic

(***************************************************************************)
(* A reader asleep in ioq_wait is the one ioq->consumer names, so the next *)
(* character wakes it; a reader that waits for the lock has another reader *)
(* inside, or one already woken, to pass the lock on.                      *)
(***************************************************************************)
SleeperIsRegistered ==
    /\ \A r \in Readers : pc[r] = "asleep" <=> consumer = r
    /\ \A r, s \in Readers :
          pc[r] \in {"asleep", "awake"} /\ pc[s] \in {"asleep", "awake"} => r = s
    /\ waiters # << >> =>
          \E r \in Readers : pc[r] \in {"asleep", "awake", "lockretry"}

\* The characters between tail and head.
Contents == [i \in 1..((head + bufsize - tail) % bufsize) |->
                buf[(tail + i - 1) % bufsize]]

(***************************************************************************)
(* The ring implements the queue of bufsize - 1 characters: FIFO, no       *)
(* duplicate, no loss but the documented drop, whatever readers do.        *)
(***************************************************************************)
Q == INSTANCE CharQueue WITH queue <- Contents, Capacity <- bufsize - 1
ImplementsQueue == Q!Spec

(***************************************************************************)
(* A reader that is alone never sleeps on buffered characters: once a key  *)
(* is in the buffer, its ioq_getchar returns without another key being     *)
(* pressed.  With a second reader it may not: ioq_getchar takes the lock   *)
(* after its test of ioq_empty and then waits without a new test.          *)
(***************************************************************************)
BufferedCharIsRead ==
    \A r \in Readers :
        (pc[r] # "out" /\ ~ioq_empty /\ ~crowd) ~> (pc[r] = "out" \/ crowd)
=============================================================================
