--------------------------- MODULE DevicesProofs ----------------------------
(***************************************************************************)
(* Safety of the keyboard buffer and of the disk driver.                   *)
(*                                                                         *)
(* The buffer, for any number of readers and any size of the ring: its     *)
(* ASSERTs hold, no sleeper is forgotten, and it is a FIFO queue.          *)
(*                                                                         *)
(* The driver, for any threads, any number of sectors in a command or a    *)
(* request, and interrupts left over from earlier commands.                *)
(***************************************************************************)
EXTENDS IoQueue, Ide, TLAPS

(***************************************************************************)
(* The inductive invariant.                                                *)
(***************************************************************************)
\* A reader that has ioq->lock is in ioq_wait.
Inside(r) == pc[r] \in {"asleep", "awake"}

LockOK == value = 0 <=> \E r \in Readers : Inside(r)

\* The waiters of the lock are in sema_down, each once.
WaitersOK ==
    /\ \A i \in 1..Len(waiters) : pc[waiters[i]] = "lockwait"
    /\ \A i, j \in 1..Len(waiters) : waiters[i] = waiters[j] => i = j

IInv == TypeOK /\ NoPanic /\ SleeperIsRegistered /\ LockOK /\ WaitersOK

(***************************************************************************)
(* The queue starts empty, with nobody inside.                             *)
(***************************************************************************)
LEMMA InitOK == Init => IInv
<1> SUFFICES ASSUME Init PROVE IInv
  OBVIOUS
<1> USE IoQueueAssumption DEF Init, ioqueue_init
<1>1. TypeOK
  <2>1. (CHOOSE c \in Chars : TRUE) \in Chars
    BY Zenon
  <2> QED
    BY <2>1 DEF TypeOK
<1>2. NoPanic /\ LockOK /\ WaitersOK
  BY DEF NoPanic, LockOK, WaitersOK, Inside
<1>3. SleeperIsRegistered
  BY DEF SleeperIsRegistered
<1> QED
  BY <1>1, <1>2, <1>3 DEF IInv

(***************************************************************************)
(* A position of the ring is followed by a position of the ring.           *)
(***************************************************************************)
LEMMA NextPos ==
  ASSUME NEW p \in 0..(bufsize - 1)
  PROVE  /\ next_pos(p) \in 0..(bufsize - 1)
         /\ next_pos(p) = IF p = bufsize - 1 THEN 0 ELSE p + 1
<1> USE IoQueueAssumption DEF next_pos
<1>1. CASE p = bufsize - 1
  <2>1. p + 1 = bufsize /\ bufsize % bufsize = 0
    BY <1>1
  <2> QED
    BY <1>1, <2>1
<1>2. CASE p # bufsize - 1
  <2>1. p + 1 \in 0..(bufsize - 1)
    BY <1>2
  <2>2. (p + 1) % bufsize = p + 1
    BY <2>1
  <2> QED
    BY <1>2, <2>1, <2>2
<1> QED
  BY <1>1, <1>2

(***************************************************************************)
(* A character that is there is taken: no reader moves.                    *)
(***************************************************************************)
LEMMA TakeKeeps ==
  ASSUME IInv, NEW r \in Readers, ioq_getchar_take(r)
  PROVE  IInv'
<1>1. tail' \in 0..(bufsize - 1)
  BY NextPos DEF IInv, TypeOK, ioq_getchar_take, TakeChar
<1>2. UNCHANGED <<buf, head, consumer, value, waiters, pc, panic>>
      /\ crowd' \in BOOLEAN
  BY DEF ioq_getchar_take, OthersInside, IInv, TypeOK
<1> QED
  BY <1>1, <1>2 DEF IInv, TypeOK, NoPanic, SleeperIsRegistered, LockOK, WaitersOK,
     Inside

(***************************************************************************)
(* The lock is free: nobody else is in ioq_wait, so ioq->consumer is NULL. *)
(***************************************************************************)
LEMMA WaitKeeps ==
  ASSUME IInv, NEW r \in Readers, ioq_getchar_wait(r)
  PROVE  IInv'
<1> USE IoQueueAssumption
<1>1. /\ value = 1 /\ value' = 0 /\ pc[r] \in {"out", "lockretry"}
      /\ UNCHANGED <<buf, head, tail, waiters>>
      /\ crowd' \in BOOLEAN /\ ioq_wait(r)
  BY DEF ioq_getchar_wait, AtLock, OthersInside, IInv, TypeOK
<1>2. \A s \in Readers : ~Inside(s)
  BY <1>1 DEF IInv, LockOK
<1>3. consumer = NoReader
  BY <1>2 DEF IInv, TypeOK, SleeperIsRegistered, Inside
<1>4. consumer' = r /\ pc' = [pc EXCEPT ![r] = "asleep"] /\ UNCHANGED panic
  BY <1>1, <1>3 DEF ioq_wait
<1>5. \A s \in Readers : pc'[s] = IF s = r THEN "asleep" ELSE pc[s]
  BY <1>4 DEF IInv, TypeOK
<1>6. TypeOK'
  BY <1>1, <1>4 DEF IInv, TypeOK
<1>7. NoPanic' /\ LockOK'
  BY <1>1, <1>4, <1>5 DEF IInv, NoPanic, LockOK, Inside
<1>8. SleeperIsRegistered'
  BY <1>2, <1>3, <1>4, <1>5 DEF IInv, SleeperIsRegistered, Inside
<1>9. WaitersOK'
  <2>1. \A i \in 1..Len(waiters) : waiters[i] \in Readers
    BY DEF IInv, TypeOK
  <2> QED
    BY <1>1, <1>5, <2>1 DEF IInv, WaitersOK
<1> QED
  BY <1>6, <1>7, <1>8, <1>9 DEF IInv

(***************************************************************************)
(* The lock is taken: the caller queues up once.                           *)
(***************************************************************************)
LEMMA LockKeeps ==
  ASSUME IInv, NEW r \in Readers, ioq_getchar_lock(r)
  PROVE  IInv'
<1>1. /\ value = 0 /\ pc[r] \in {"out", "lockretry"}
      /\ waiters' = Append(waiters, r) /\ pc' = [pc EXCEPT ![r] = "lockwait"]
      /\ crowd' = TRUE /\ UNCHANGED <<buf, head, tail, consumer, value, panic>>
  BY DEF ioq_getchar_lock, AtLock
<1>2. \A s \in Readers : pc'[s] = IF s = r THEN "lockwait" ELSE pc[s]
  BY <1>1 DEF IInv, TypeOK
<1>3. TypeOK'
  BY <1>1 DEF IInv, TypeOK
<1>4. NoPanic' /\ LockOK'
  BY <1>1, <1>2 DEF IInv, NoPanic, LockOK, Inside
<1>5. SleeperIsRegistered'
  BY <1>1, <1>2 DEF IInv, SleeperIsRegistered, LockOK, Inside
<1>6. WaitersOK'
  <2>1. \A i \in 1..Len(waiters) : waiters[i] \in Readers /\ waiters[i] # r
    BY <1>1 DEF IInv, TypeOK, WaitersOK
  <2>2. /\ Len(waiters) \in Nat /\ Len(waiters') = Len(waiters) + 1
        /\ waiters'[Len(waiters) + 1] = r
        /\ \A i \in 1..Len(waiters) : waiters'[i] = waiters[i]
    BY <1>1 DEF IInv, TypeOK
  <2> QED
    BY <1>2, <2>1, <2>2 DEF IInv, WaitersOK
<1> QED
  BY <1>3, <1>4, <1>5, <1>6 DEF IInv

(***************************************************************************)
(* lock_release moves the first waiter only.                               *)
(***************************************************************************)
LEMMA ReleaseKeeps ==
  ASSUME IInv, NEW r \in Readers, pc[r] = "awake", NEW place \in {"out", "asleep"},
         waiters' = StillWaiting, pc' = Released(r, place)
  PROVE  /\ waiters' \in Seq(Readers)
         /\ pc' \in [Readers -> {"out", "lockwait", "lockretry", "asleep", "awake"}]
         /\ pc'[r] = place
         /\ \A s \in Readers \ {r} :
               \/ pc'[s] = pc[s]
               \/ pc[s] = "lockwait" /\ pc'[s] = "lockretry"
         /\ waiters' # << >> => \E s \in Readers : pc'[s] = "lockretry"
         /\ WaitersOK'
<1>1. CASE waiters = << >>
  BY <1>1 DEF Released, StillWaiting, IInv, TypeOK, WaitersOK
<1>2. CASE waiters # << >>
  <2> DEFINE h == Head(waiters)
  <2>1. /\ Len(waiters) \in Nat \ {0} /\ h = waiters[1] /\ h \in Readers
        /\ \A i \in 1..Len(waiters) : waiters[i] \in Readers
    BY <1>2 DEF IInv, TypeOK
  <2>2. pc[h] = "lockwait" /\ h # r
    BY <2>1 DEF IInv, WaitersOK
  <2>3. /\ waiters' \in Seq(Readers)
        /\ Len(waiters') = Len(waiters) - 1
        /\ \A i \in 1..Len(waiters') : waiters'[i] = waiters[i + 1]
    BY <1>2, <2>1 DEF StillWaiting, IInv, TypeOK
  <2>4. pc' = [pc EXCEPT ![h] = "lockretry", ![r] = place]
    BY <1>2 DEF Released
  <2> HIDE DEF h
  <2>5. \A s \in Readers : pc'[s] = IF s = r THEN place
                                    ELSE IF s = h THEN "lockretry" ELSE pc[s]
    BY <2>1, <2>2, <2>4 DEF IInv, TypeOK
  <2>6. pc' \in [Readers -> {"out", "lockwait", "lockretry", "asleep", "awake"}]
    BY <2>4 DEF IInv, TypeOK
  <2>7. \A i \in 1..Len(waiters') : /\ i + 1 \in 1..Len(waiters)
                                    /\ waiters[i + 1] # h
                                    /\ waiters[i + 1] # r
    BY <2>1, <2>3 DEF IInv, WaitersOK
  <2>8. \A i \in 1..Len(waiters') : pc'[waiters'[i]] = "lockwait"
    BY <2>1, <2>3, <2>5, <2>7 DEF IInv, WaitersOK
  <2>9. \A i, j \in 1..Len(waiters') : waiters'[i] = waiters'[j] => i = j
    <3> SUFFICES ASSUME NEW i \in 1..Len(waiters'), NEW j \in 1..Len(waiters'),
                        waiters'[i] = waiters'[j]
                 PROVE  i = j
      OBVIOUS
    <3>1. i + 1 = j + 1
      BY <2>3, <2>7 DEF IInv, WaitersOK
    <3> QED
      BY <2>1, <2>3, <3>1
  <2>10. WaitersOK'
    BY <2>8, <2>9 DEF WaitersOK
  <2> QED
    BY <2>1, <2>2, <2>3, <2>5, <2>6, <2>10
<1> QED
  BY <1>1, <1>2

(***************************************************************************)
(* The reader that was woken finds a character and leaves with the lock    *)
(* released, or finds none and waits again.                                *)
(***************************************************************************)
LEMMA WokenKeeps ==
  ASSUME IInv, NEW r \in Readers, ioq_getchar_woken(r)
  PROVE  IInv'
<1> USE IoQueueAssumption
<1>1. /\ pc[r] = "awake" /\ value' = 1 /\ crowd' \in BOOLEAN
      /\ waiters' = StillWaiting /\ pc' = Released(r, "out")
      /\ UNCHANGED <<buf, head, consumer, panic>>
  BY DEF ioq_getchar_woken, OthersInside, IInv, TypeOK
<1>2. tail' \in 0..(bufsize - 1)
  BY NextPos DEF IInv, TypeOK, ioq_getchar_woken, TakeChar
<1>3. /\ waiters' \in Seq(Readers)
      /\ pc' \in [Readers -> {"out", "lockwait", "lockretry", "asleep", "awake"}]
      /\ pc'[r] = "out"
      /\ \A s \in Readers \ {r} :
            \/ pc'[s] = pc[s]
            \/ pc[s] = "lockwait" /\ pc'[s] = "lockretry"
      /\ waiters' # << >> => \E s \in Readers : pc'[s] = "lockretry"
      /\ WaitersOK'
  BY <1>1, ReleaseKeeps
<1>4. \A s \in Readers \ {r} : ~Inside(s)
  BY <1>1 DEF IInv, SleeperIsRegistered, Inside
<1>5. TypeOK'
  BY <1>1, <1>2, <1>3 DEF IInv, TypeOK
<1>6. \A s \in Readers : pc'[s] \notin {"asleep", "awake"}
  BY <1>3, <1>4 DEF Inside
<1>7. consumer = NoReader
  BY <1>1, <1>4 DEF IInv, TypeOK, SleeperIsRegistered, Inside
<1>8. SleeperIsRegistered'
  BY <1>1, <1>3, <1>6, <1>7 DEF SleeperIsRegistered
<1>9. NoPanic' /\ LockOK'
  BY <1>1, <1>6 DEF IInv, NoPanic, LockOK, Inside
<1> QED
  BY <1>3, <1>5, <1>8, <1>9 DEF IInv

LEMMA AgainKeeps ==
  ASSUME IInv, NEW r \in Readers, ioq_getchar_again(r)
  PROVE  IInv'
<1> USE IoQueueAssumption
<1>1. /\ pc[r] = "awake" /\ consumer' = r /\ panic' = (consumer # NoReader)
      /\ waiters' = StillWaiting /\ pc' = Released(r, "asleep")
      /\ UNCHANGED <<buf, head, tail, value, crowd>>
  BY DEF ioq_getchar_again
<1>2. /\ waiters' \in Seq(Readers)
      /\ pc' \in [Readers -> {"out", "lockwait", "lockretry", "asleep", "awake"}]
      /\ pc'[r] = "asleep"
      /\ \A s \in Readers \ {r} :
            \/ pc'[s] = pc[s]
            \/ pc[s] = "lockwait" /\ pc'[s] = "lockretry"
      /\ WaitersOK'
  BY <1>1, ReleaseKeeps
<1>3. \A s \in Readers \ {r} : ~Inside(s)
  BY <1>1 DEF IInv, SleeperIsRegistered, Inside
<1>4. consumer = NoReader
  BY <1>1, <1>3 DEF IInv, TypeOK, SleeperIsRegistered, Inside
<1>5. value' = 0
  BY <1>1 DEF IInv, LockOK, Inside
<1>6. TypeOK'
  BY <1>1, <1>2, <1>4 DEF IInv, TypeOK
<1>7. \A s \in Readers : pc'[s] \in {"asleep", "awake"} => s = r
  BY <1>2, <1>3 DEF Inside
<1>8. SleeperIsRegistered'
  BY <1>1, <1>2, <1>7 DEF SleeperIsRegistered
<1>9. NoPanic' /\ LockOK'
  BY <1>1, <1>2, <1>4, <1>5 DEF NoPanic, LockOK, Inside
<1> QED
  BY <1>2, <1>6, <1>8, <1>9 DEF IInv

(***************************************************************************)
(* The keyboard handler wakes the reader that ioq->consumer names.         *)
(***************************************************************************)
LEMMA PutKeeps ==
  ASSUME IInv, NEW c \in Chars, ioq_putchar(c)
  PROVE  IInv'
<1> USE IoQueueAssumption
<1>1. /\ buf' = [buf EXCEPT ![head] = c] /\ head' = next_pos(head)
      /\ UNCHANGED <<tail, value, waiters, crowd>>
  BY DEF ioq_putchar
<1>2. head' \in 0..(bufsize - 1) /\ buf' \in [0..(bufsize - 1) -> Chars]
  BY <1>1, NextPos DEF IInv, TypeOK
<1>3. CASE consumer = NoReader
  <2>1. UNCHANGED <<consumer, pc, panic>>
    BY <1>3 DEF ioq_putchar
  <2> QED
    BY <1>1, <1>2, <2>1 DEF IInv, TypeOK, NoPanic, SleeperIsRegistered, LockOK,
       WaitersOK, Inside
<1>4. CASE consumer # NoReader
  <2>1. consumer \in Readers /\ pc[consumer] = "asleep"
    BY <1>4 DEF IInv, TypeOK, SleeperIsRegistered
  <2>2. /\ pc' = [pc EXCEPT ![consumer] = "awake"]
        /\ consumer' = NoReader /\ UNCHANGED panic
    BY <1>4, <2>1 DEF ioq_putchar, ioq_wakeup
  <2>3. \A s \in Readers : pc'[s] = IF s = consumer THEN "awake" ELSE pc[s]
    BY <2>1, <2>2 DEF IInv, TypeOK
  <2>4. TypeOK'
    BY <1>1, <1>2, <2>1, <2>2 DEF IInv, TypeOK
  <2>5. NoPanic' /\ LockOK'
    BY <1>1, <2>1, <2>2, <2>3 DEF IInv, NoPanic, LockOK, Inside
  <2>6. SleeperIsRegistered'
    BY <1>1, <2>1, <2>2, <2>3 DEF IInv, SleeperIsRegistered
  <2>7. WaitersOK'
    <3>1. \A i \in 1..Len(waiters) : waiters[i] \in Readers
      BY DEF IInv, TypeOK
    <3> QED
      BY <1>1, <2>1, <2>3, <3>1 DEF IInv, WaitersOK
  <2> QED
    BY <2>4, <2>5, <2>6, <2>7 DEF IInv
<1> QED
  BY <1>3, <1>4

(***************************************************************************)
(* The invariant holds at all times.                                       *)
(***************************************************************************)
LEMMA Inductive == Spec => []IInv
<1>1. ASSUME IInv, [Next]_vars PROVE IInv'
  <2>1. ASSUME NEW r \in Readers, GetChar(r) PROVE IInv'
    BY <1>1, <2>1, TakeKeeps, WaitKeeps, LockKeeps, WokenKeeps, AgainKeeps
       DEF GetChar
  <2>2. ASSUME NEW c \in Chars, ioq_putchar(c) PROVE IInv'
    BY <1>1, <2>2, PutKeeps
  <2>3. CASE DropChar \/ UNCHANGED vars
    BY <1>1, <2>3 DEF DropChar, vars, IInv, TypeOK, NoPanic, SleeperIsRegistered,
       LockOK, WaitersOK, Inside
  <2> QED
    BY <1>1, <2>1, <2>2, <2>3 DEF Next
<1> QED
  BY <1>1, InitOK, PTL DEF Spec

(***************************************************************************)
(* The fields of struct ioqueue keep their types: head and tail stay in    *)
(* the ring.                                                               *)
(***************************************************************************)
THEOREM TypeCorrect == Spec => []TypeOK
<1>1. IInv => TypeOK
  BY DEF IInv
<1> QED
  BY <1>1, Inductive, PTL

(***************************************************************************)
(* The ASSERTs of ioq_wait and thread_unblock hold with any readers.       *)
(***************************************************************************)
THEOREM NoPanicHolds == Spec => []NoPanic
<1>1. IInv => NoPanic
  BY DEF IInv
<1> QED
  BY <1>1, Inductive, PTL

(***************************************************************************)
(* The next character wakes whoever sleeps in ioq_wait, and a waiter for   *)
(* ioq->lock has somebody to pass the lock on.                             *)
(***************************************************************************)
THEOREM SleeperIsRegisteredHolds == Spec => []SleeperIsRegistered
<1>1. IInv => SleeperIsRegistered
  BY DEF IInv
<1> QED
  BY <1>1, Inductive, PTL

(***************************************************************************)
(* The ring implements the queue.  First, how many characters are there    *)
(* with the head at h and the tail at t, and where the i-th of them is.    *)
(***************************************************************************)
Positions   == 0..(bufsize - 1)
Count(h, t) == (h + bufsize - t) % bufsize
Slot(t, i)  == (t + i - 1) % bufsize

\* Contents by the values of the fields
Ring(b, h, t) == [i \in 1..Count(h, t) |-> b[Slot(t, i)]]

LEMMA CountIs ==
  ASSUME NEW h \in Positions, NEW t \in Positions
  PROVE  /\ Count(h, t) = IF t <= h THEN h - t ELSE h + bufsize - t
         /\ Count(h, t) \in Positions
<1> USE IoQueueAssumption DEF Count, Positions
<1>1. CASE t <= h
  <2>1. /\ h + bufsize - t \in Nat /\ bufsize <= h + bufsize - t
        /\ h + bufsize - t < 2 * bufsize
    BY <1>1
  <2>2. (h + bufsize - t) % bufsize = (h + bufsize - t) - bufsize
    BY <2>1
  <2> QED
    BY <1>1, <2>2
<1>2. CASE ~(t <= h)
  <2>1. h + bufsize - t \in 0..(bufsize - 1)
    BY <1>2
  <2>2. (h + bufsize - t) % bufsize = h + bufsize - t
    BY <2>1
  <2> QED
    BY <1>2, <2>1, <2>2
<1> QED
  BY <1>1, <1>2

LEMMA SlotIs ==
  ASSUME NEW t \in Positions, NEW i \in 1..bufsize
  PROVE  /\ Slot(t, i) = IF t + i <= bufsize THEN t + i - 1
                         ELSE t + i - 1 - bufsize
         /\ Slot(t, i) \in Positions
<1> USE IoQueueAssumption DEF Slot, Positions
<1>1. CASE t + i <= bufsize
  <2>1. t + i - 1 \in 0..(bufsize - 1)
    BY <1>1
  <2>2. (t + i - 1) % bufsize = t + i - 1
    BY <2>1
  <2> QED
    BY <1>1, <2>1, <2>2
<1>2. CASE ~(t + i <= bufsize)
  <2>1. t + i - 1 \in Nat /\ bufsize <= t + i - 1 /\ t + i - 1 < 2 * bufsize
    BY <1>2
  <2>2. (t + i - 1) % bufsize = (t + i - 1) - bufsize
    BY <2>1
  <2> QED
    BY <1>2, <2>1, <2>2
<1> QED
  BY <1>1, <1>2

(***************************************************************************)
(* The characters between tail and head are a sequence of that length.     *)
(***************************************************************************)
LEMMA RingIsSequence ==
  ASSUME NEW h \in Positions, NEW t \in Positions, NEW b \in [Positions -> Chars]
  PROVE  /\ Ring(b, h, t) \in Seq(Chars)
         /\ Len(Ring(b, h, t)) = Count(h, t)
         /\ \A i \in 1..Count(h, t) : Ring(b, h, t)[i] = b[Slot(t, i)]
<1>1. Count(h, t) \in Positions
  BY CountIs
<1>2. Count(h, t) \in Nat /\ \A i \in 1..Count(h, t) : i \in 1..bufsize
  BY <1>1, IoQueueAssumption DEF Positions
<1>3. \A i \in 1..Count(h, t) : Slot(t, i) \in Positions
  BY <1>2, SlotIs
<1>4. Ring(b, h, t) \in [1..Count(h, t) -> Chars]
  BY <1>3 DEF Ring
<1> QED
  BY <1>2, <1>4 DEF Ring

(***************************************************************************)
(* Sequences of the same length with the same elements are equal.          *)
(***************************************************************************)
LEMMA SameSequence ==
  ASSUME NEW S, NEW s \in Seq(S), NEW t \in Seq(S), Len(s) = Len(t),
         \A i \in 1..Len(s) : s[i] = t[i]
  PROVE  s = t
OBVIOUS

(***************************************************************************)
(* ioq_putchar appends: the slot at head is behind the last character.     *)
(***************************************************************************)
LEMMA PutAppends ==
  ASSUME TypeOK, TypeOK', NEW c \in Chars, ioq_putchar(c)
  PROVE  Q!Type(c)
<1> USE IoQueueAssumption
<1> DEFINE n == Count(head, tail)
           s == Contents
           z == Contents'
<1>1. /\ head \in Positions /\ tail \in Positions /\ buf \in [Positions -> Chars]
      /\ head' \in Positions /\ buf' \in [Positions -> Chars]
  BY DEF TypeOK, Positions
<1>2. /\ buf' = [buf EXCEPT ![head] = c] /\ head' = next_pos(head) /\ tail' = tail
      /\ next_pos(head) # tail
  BY DEF ioq_putchar, ioq_full
<1>3. next_pos(head) = IF head = bufsize - 1 THEN 0 ELSE head + 1
  BY <1>1, NextPos DEF Positions
<1>4. n = (IF tail <= head THEN head - tail ELSE head + bufsize - tail)
      /\ n \in Positions
  BY <1>1, CountIs
<1>5. Count(head', tail) = IF tail <= head' THEN head' - tail
                           ELSE head' + bufsize - tail
  BY <1>1, CountIs
<1>6. Count(head', tail) = n + 1 /\ n < bufsize - 1
  BY <1>1, <1>2, <1>3, <1>4, <1>5 DEF Positions
<1>7. /\ s \in Seq(Chars) /\ Len(s) = n
      /\ \A i \in 1..n : s[i] = buf[Slot(tail, i)]
  <2>1. s = Ring(buf, head, tail)
    BY DEF Contents, Ring, Count, Slot
  <2>2. head \in Positions /\ tail \in Positions /\ buf \in [Positions -> Chars]
    BY <1>1
  <2> QED
    BY <2>1, <2>2, RingIsSequence
<1>8. /\ z \in Seq(Chars) /\ Len(z) = n + 1
      /\ \A i \in 1..(n + 1) : z[i] = buf'[Slot(tail, i)]
  <2>1. z = Ring(buf', head', tail)
    BY <1>2 DEF Contents, Ring, Count, Slot
  <2>2. /\ z \in Seq(Chars) /\ Len(z) = Count(head', tail)
        /\ \A i \in 1..Count(head', tail) : z[i] = buf'[Slot(tail, i)]
    <3>1. PICK h : h = head'
      OBVIOUS
    <3>2. PICK b : b = buf'
      OBVIOUS
    <3>3. h \in Positions /\ b \in [Positions -> Chars]
      BY <1>1, <3>1, <3>2
    <3>4. /\ Ring(b, h, tail) \in Seq(Chars) /\ Len(Ring(b, h, tail)) = Count(h, tail)
          /\ \A i \in 1..Count(h, tail) : Ring(b, h, tail)[i] = b[Slot(tail, i)]
      BY <1>1, <3>3, RingIsSequence
    <3> HIDE DEF z
    <3> QED
      BY <2>1, <3>1, <3>2, <3>4
  <2> QED
    BY <1>6, <2>2
<1>9. \A i \in 1..(n + 1) :
         /\ Slot(tail, i) = (IF tail + i <= bufsize THEN tail + i - 1
                             ELSE tail + i - 1 - bufsize)
         /\ Slot(tail, i) \in Positions
  <2>1. \A i \in 1..(n + 1) : i \in 1..bufsize
    BY <1>4, <1>6 DEF Positions
  <2> QED
    BY <1>1, <2>1, SlotIs
<1> HIDE DEF n, s, z
<1>10. Slot(tail, n + 1) = head
  BY <1>1, <1>4, <1>6, <1>9 DEF Positions
<1>11. \A i \in 1..n : Slot(tail, i) # head
  BY <1>1, <1>4, <1>6, <1>9 DEF Positions
<1>12. z[n + 1] = c
  <2>1. n + 1 \in 1..(n + 1)
    BY <1>4 DEF Positions
  <2>2. z[n + 1] = buf'[head]
    BY <1>8, <1>10, <2>1
  <2> QED
    BY <1>1, <1>2, <2>2
<1>13. \A i \in 1..n : z[i] = s[i]
  <2> TAKE i \in 1..n
  <2>1. i \in 1..(n + 1)
    BY <1>4 DEF Positions
  <2>2. z[i] = buf'[Slot(tail, i)] /\ s[i] = buf[Slot(tail, i)]
    BY <1>7, <1>8, <2>1
  <2>3. Slot(tail, i) \in Positions /\ Slot(tail, i) # head
    BY <1>9, <1>11, <2>1
  <2> QED
    BY <1>1, <1>2, <2>2, <2>3
<1>14. z = Append(s, c)
  <2>1. /\ Append(s, c) \in Seq(Chars) /\ Len(Append(s, c)) = n + 1
        /\ \A i \in 1..n : Append(s, c)[i] = s[i]
        /\ Append(s, c)[n + 1] = c
    BY <1>7
  <2>2. \A i \in 1..(n + 1) : z[i] = Append(s, c)[i]
    BY <1>4, <1>12, <1>13, <2>1 DEF Positions
  <2> QED
    BY <1>8, <2>1, <2>2, SameSequence
<1> QED
  BY <1>6, <1>7, <1>14 DEF Q!Type, s, z

(***************************************************************************)
(* Taking the character at tail removes the first one.                     *)
(***************************************************************************)
LEMMA TakeRemovesFirst ==
  ASSUME TypeOK, TypeOK', head # tail, TakeChar, UNCHANGED <<buf, head>>
  PROVE  Q!Read
<1> USE IoQueueAssumption
<1> DEFINE n == Count(head, tail)
           s == Contents
           z == Contents'
<1>1. /\ head \in Positions /\ tail \in Positions /\ buf \in [Positions -> Chars]
      /\ tail' \in Positions
  BY DEF TypeOK, Positions
<1>2. tail' = IF tail = bufsize - 1 THEN 0 ELSE tail + 1
  BY <1>1, NextPos DEF Positions, TakeChar
<1>3. n = (IF tail <= head THEN head - tail ELSE head + bufsize - tail)
      /\ n \in Positions
  BY <1>1, CountIs
<1>4. Count(head, tail') = IF tail' <= head THEN head - tail'
                           ELSE head + bufsize - tail'
  BY <1>1, CountIs
<1>5. Count(head, tail') = n - 1 /\ n >= 1
  BY <1>1, <1>2, <1>3, <1>4 DEF Positions
<1>6. /\ s \in Seq(Chars) /\ Len(s) = n
      /\ \A i \in 1..n : s[i] = buf[Slot(tail, i)]
  <2>1. s = Ring(buf, head, tail)
    BY DEF Contents, Ring, Count, Slot
  <2>2. head \in Positions /\ tail \in Positions /\ buf \in [Positions -> Chars]
    BY <1>1
  <2> QED
    BY <2>1, <2>2, RingIsSequence
<1>7. /\ z \in Seq(Chars) /\ Len(z) = n - 1
      /\ \A i \in 1..(n - 1) : z[i] = buf[Slot(tail', i)]
  <2>1. z = Ring(buf, head, tail')
    BY DEF Contents, Ring, Count, Slot
  <2>2. /\ z \in Seq(Chars) /\ Len(z) = Count(head, tail')
        /\ \A i \in 1..Count(head, tail') : z[i] = buf[Slot(tail', i)]
    <3>1. PICK t : t = tail'
      OBVIOUS
    <3>2. t \in Positions
      BY <1>1, <3>1
    <3>3. /\ Ring(buf, head, t) \in Seq(Chars)
          /\ Len(Ring(buf, head, t)) = Count(head, t)
          /\ \A i \in 1..Count(head, t) : Ring(buf, head, t)[i] = buf[Slot(t, i)]
      BY <1>1, <3>2, RingIsSequence
    <3> HIDE DEF z
    <3> QED
      BY <2>1, <3>1, <3>3
  <2> QED
    BY <1>5, <2>2
<1>8. /\ \A i \in 1..n :
            Slot(tail, i) = IF tail + i <= bufsize THEN tail + i - 1
                            ELSE tail + i - 1 - bufsize
      /\ \A i \in 1..n :
            Slot(tail', i) = IF tail' + i <= bufsize THEN tail' + i - 1
                             ELSE tail' + i - 1 - bufsize
  <2>1. \A i \in 1..n : i \in 1..bufsize
    BY <1>3 DEF Positions
  <2> QED
    BY <1>1, <2>1, SlotIs
<1> HIDE DEF n, s, z
<1>9. \A i \in 1..(n - 1) : Slot(tail', i) = Slot(tail, i + 1)
  BY <1>1, <1>2, <1>3, <1>5, <1>8 DEF Positions
<1>10. \A i \in 1..(n - 1) : z[i] = s[i + 1]
  <2>1. \A i \in 1..(n - 1) : i + 1 \in 1..n
    BY <1>3 DEF Positions
  <2> QED
    BY <1>6, <1>7, <1>9, <2>1
<1>11. s # << >>
  BY <1>5, <1>6
<1>12. z = Tail(s)
  <2>1. /\ Tail(s) \in Seq(Chars) /\ Len(Tail(s)) = n - 1
        /\ \A i \in 1..(n - 1) : Tail(s)[i] = s[i + 1]
    BY <1>3, <1>5, <1>6, <1>11
  <2>2. \A i \in 1..(n - 1) : z[i] = Tail(s)[i]
    BY <1>10, <2>1
  <2> QED
    BY <1>7, <2>1, <2>2, SameSequence
<1> QED
  BY <1>11, <1>12 DEF Q!Read, s, z

(***************************************************************************)
(* The ring of ioqueue.c is a FIFO queue of bufsize - 1 characters: every  *)
(* step of the driver or of a reader is one of the queue or none.          *)
(***************************************************************************)
THEOREM ImplementsQueueHolds == Spec => ImplementsQueue
<1>1. Init => Q!Init
  <2> SUFFICES ASSUME Init PROVE Contents = << >>
    BY DEF Q!Init
  <2>1. TypeOK /\ head = 0 /\ tail = 0
    BY InitOK DEF IInv, Init, ioqueue_init
  <2>2. head \in Positions /\ tail \in Positions /\ buf \in [Positions -> Chars]
    BY <2>1 DEF TypeOK, Positions
  <2>3. Count(head, tail) = 0
    BY <2>1, <2>2, CountIs
  <2>4. Contents = Ring(buf, head, tail)
    BY DEF Contents, Ring, Count, Slot
  <2>5. Contents \in Seq(Chars) /\ Len(Contents) = 0
    BY <2>2, <2>3, <2>4, RingIsSequence
  <2> QED
    BY <2>5
<1>2. ASSUME TypeOK, TypeOK', [Next]_vars PROVE [Q!Next]_Contents
  <2>1. ASSUME NEW c \in Chars, ioq_putchar(c) PROVE Q!Next
    BY <1>2, <2>1, PutAppends DEF Q!Next
  <2>2. ASSUME NEW r \in Readers, ioq_getchar_take(r) \/ ioq_getchar_woken(r)
        PROVE  Q!Next
    <3>1. head # tail /\ TakeChar /\ UNCHANGED <<buf, head>>
      BY <2>2 DEF ioq_getchar_take, ioq_getchar_woken, ioq_empty
    <3> QED
      BY <1>2, <3>1, TakeRemovesFirst DEF Q!Next
  <2>3. ASSUME NEW r \in Readers,
               \/ ioq_getchar_wait(r) \/ ioq_getchar_lock(r)
               \/ ioq_getchar_again(r)
        PROVE  UNCHANGED Contents
    BY <2>3 DEF ioq_getchar_wait, ioq_getchar_lock, ioq_getchar_again, Contents
  <2>4. CASE DropChar \/ UNCHANGED vars
    BY <2>4 DEF DropChar, vars, Contents
  <2> QED
    BY <1>2, <2>1, <2>2, <2>3, <2>4 DEF Next, GetChar
<1> QED
  BY <1>1, <1>2, TypeCorrect, PTL DEF Spec, ImplementsQueue, Q!Spec
-----------------------------------------------------------------------------
(***************************************************************************)
(* The inductive invariant.                                                *)
(***************************************************************************)
\* The lock: only its holder is inside, and only it keeps interrupts off.
ChannelOK ==
    /\ \A t \in Threads : at[t] # "out" => owner = t
    /\ syscall # NoThread => owner = syscall

\* t has announced an interrupt and has not come out of sema_down since.
Expecting(t) == \/ at[t] \in {"outb", "down", "blocked"}
                \/ op[t] = "write" /\ at[t] \in {"poll", "transfer"}

\* Either the interrupt is still expected, or disk_done was upped, never both.
DoneOK ==
    /\ \A t \in Threads : Expecting(t) => (expecting_intr <=> done = 0)
    /\ (\A t \in Threads : ~Expecting(t)) => ~expecting_intr /\ done = 0

\* t has given the disk a command and still has to do with it.
InCommand(t) == at[t] \in {"down", "blocked", "poll", "transfer"}

\* What the disk may be doing, by what the thread inside has asked of it.
DiskOK ==
    /\ disk = "storing" => left >= 1
    /\ \A t \in Threads : InCommand(t) =>
          \/ disk \in {"idle", "storing"} /\ at[t] # "transfer"
          \/ op[t] = "read" /\ disk \in {"reading", "read_ready"}
          \/ op[t] = "write" /\ at[t] \in {"poll", "transfer"}
             /\ disk \in {"accepting", "write_ready"}
    /\ (\A t \in Threads : ~InCommand(t)) => disk \in {"idle", "storing"}

\* With commands of one sector, interrupt and command belong together.
OneSectorOK ==
    ~multi =>
        /\ (\A t \in Threads : ~InCommand(t)) => disk = "idle" /\ ~irq /\ done = 0
        /\ \A t \in Threads : InCommand(t) => Sectors(t) = 1
        /\ \A t \in Threads : op[t] = "read" /\ at[t] \in {"down", "blocked"} =>
              \/ disk = "reading" /\ ~irq /\ done = 0
              \/ disk \in {"read_ready", "idle"} /\ (irq <=> done = 0)
        /\ \A t \in Threads : op[t] = "read" /\ at[t] \in {"poll", "transfer"} =>
              disk \in {"read_ready", "idle"} /\ ~irq
        /\ \A t \in Threads : op[t] = "write" /\ at[t] \in {"poll", "transfer"} =>
              disk \in {"accepting", "write_ready"} /\ ~irq /\ done = 0
        /\ \A t \in Threads : op[t] = "write" /\ at[t] \in {"down", "blocked"} =>
              \/ disk = "storing" /\ left = 1 /\ ~irq /\ done = 0
              \/ disk = "idle" /\ (irq <=> done = 0)

IdeInv ==
    /\ IdeTypeOK
    /\ DiskDoneIsBinary
    /\ ChannelOK
    /\ DoneOK
    /\ halt = "none" => DiskOK /\ TransferWhenReady /\ OneSectorOK

(***************************************************************************)
(* The count register: a command is of one to MaxOp sectors, and never of  *)
(* more than the request still needs.                                      *)
(***************************************************************************)
LEMMA SectorsIs ==
  ASSUME NEW t \in Threads, todo[t] \in 0..MaxSectors
  PROVE  /\ secs_op(t) \in 0..todo[t] /\ todo[t] - secs_op(t) \in 0..MaxSectors
         /\ Sectors(t) \in 1..MaxOp
<1> USE IdeAssumption
<1>1. /\ secs_op(t) \in 0..todo[t] /\ secs_op(t) \in 0..MaxOp
      /\ todo[t] - secs_op(t) \in 0..MaxSectors
  BY DEF secs_op
<1>2. secs_op(t) % MaxOp \in 0..(MaxOp - 1)
  BY <1>1
<1> QED
  BY <1>1, <1>2 DEF Sectors

(***************************************************************************)
(* The thread inside the driver is the only one.                           *)
(***************************************************************************)
LEMMA Alone ==
  ASSUME ChannelOK, NEW t \in Threads, at[t] # "out"
  PROVE  owner = t /\ \A s \in Threads \ {t} : at[s] = "out"
BY DEF ChannelOK

(***************************************************************************)
(* The channel starts free, the disk idle.                                 *)
(***************************************************************************)
LEMMA IdeInitOK == IdeInit => IdeInv
<1> SUFFICES ASSUME IdeInit PROVE IdeInv
  OBVIOUS
<1> USE IdeAssumption
<1>1. IdeTypeOK
  <2>1. 0 \in 0..MaxSectors /\ 0 \in 0..MaxOp
    OBVIOUS
  <2>2. todo \in [Threads -> 0..MaxSectors] /\ left \in 0..MaxOp
    BY <2>1 DEF IdeInit
  <2> QED
    BY <2>2 DEF IdeInit, IdeTypeOK, Places, DiskStates
<1>2. \A t \in Threads : at[t] = "out"
  BY DEF IdeInit
<1>3. DiskDoneIsBinary /\ ChannelOK /\ DoneOK
  BY <1>2 DEF IdeInit, DiskDoneIsBinary, ChannelOK, DoneOK, Expecting
<1>4. DiskOK /\ TransferWhenReady /\ OneSectorOK
  BY <1>2 DEF IdeInit, DiskOK, TransferWhenReady, OneSectorOK, InCommand
<1> QED
  BY <1>1, <1>3, <1>4 DEF IdeInv

(***************************************************************************)
(* A request begins: nobody is inside.                                     *)
(***************************************************************************)
LEMMA BeginKeeps ==
  ASSUME IdeInv, NEW t \in Threads, ide_begin(t)
  PROVE  IdeInv'
<1> USE IdeAssumption
<1>1. /\ owner = NoThread /\ owner' = t /\ at' = [at EXCEPT ![t] = "command"]
      /\ syscall' \in {NoThread, t} /\ halt = "none"
      /\ UNCHANGED <<expecting_intr, done, disk, left, irq, halt, multi>>
  BY DEF ide_begin, At, Goto
<1>2. op' \in [Threads -> {"read", "write"}] /\ todo' \in [Threads -> 0..MaxSectors]
  <2>1. PICK o \in {"read", "write"} : op' = [op EXCEPT ![t] = o]
    BY DEF ide_begin
  <2>2. PICK n \in 1..MaxSectors : todo' = [todo EXCEPT ![t] = n]
    BY DEF ide_begin
  <2>3. n \in 0..MaxSectors
    OBVIOUS
  <2> QED
    BY <2>1, <2>2, <2>3 DEF IdeInv, IdeTypeOK
<1>3. \A s \in Threads : at[s] = "out" /\ at'[s] \in {"out", "command"}
                         /\ (s # t => at'[s] = "out")
  BY <1>1 DEF IdeInv, IdeTypeOK, ChannelOK
<1>4. IdeTypeOK'
  BY <1>1, <1>2 DEF IdeInv, IdeTypeOK, Places
<1>5. DiskDoneIsBinary' /\ ChannelOK'
  BY <1>1, <1>3 DEF IdeInv, DiskDoneIsBinary, ChannelOK
<1>6. DoneOK'
  BY <1>1, <1>3 DEF IdeInv, DoneOK, Expecting
<1>7. DiskOK' /\ TransferWhenReady'
  BY <1>1, <1>3 DEF IdeInv, DiskOK, TransferWhenReady, InCommand
<1>8. OneSectorOK'
  BY <1>1, <1>3 DEF IdeInv, OneSectorOK, InCommand
<1> QED
  BY <1>4, <1>5, <1>6, <1>7, <1>8 DEF IdeInv

(***************************************************************************)
(* cmd_out announces the interrupt, then gives the command.                *)
(***************************************************************************)
LEMMA CmdOutKeeps ==
  ASSUME IdeInv, NEW t \in Threads, cmd_out(t)
  PROVE  IdeInv'
<1>1. /\ at[t] = "command" /\ at' = [at EXCEPT ![t] = "outb"] /\ halt = "none"
      /\ expecting_intr' = TRUE
      /\ UNCHANGED <<owner, done, op, todo, syscall, disk, left, irq, halt, multi>>
  BY DEF cmd_out, At, Goto
<1>2. \A s \in Threads : /\ s # t => at[s] = "out" /\ at'[s] = "out"
                         /\ at'[t] = "outb"
  BY <1>1, Alone DEF IdeInv, IdeTypeOK
<1>3. IdeTypeOK'
  BY <1>1 DEF IdeInv, IdeTypeOK, Places
<1>4. DiskDoneIsBinary' /\ ChannelOK'
  BY <1>1, <1>2 DEF IdeInv, DiskDoneIsBinary, ChannelOK
<1>5. DoneOK'
  BY <1>1, <1>2 DEF IdeInv, DoneOK, Expecting
<1>6. DiskOK' /\ TransferWhenReady'
  BY <1>1, <1>2 DEF IdeInv, DiskOK, TransferWhenReady, InCommand
<1>7. OneSectorOK'
  BY <1>1, <1>2 DEF IdeInv, OneSectorOK, InCommand
<1> QED
  BY <1>3, <1>4, <1>5, <1>6, <1>7 DEF IdeInv

LEMMA OutbKeeps ==
  ASSUME IdeInv, NEW t \in Threads, cmd_out_outb(t)
  PROVE  IdeInv'
<1> DEFINE place == IF op[t] = "read" THEN "down" ELSE "poll"
<1>1. /\ at[t] = "outb" /\ at' = [at EXCEPT ![t] = place] /\ halt = "none"
      /\ disk' = (IF disk \in Busy THEN disk
                  ELSE IF op[t] = "read" THEN "reading" ELSE "accepting")
      /\ multi' = (multi \/ Sectors(t) > 1)
      /\ UNCHANGED <<owner, expecting_intr, done, op, todo, syscall, left, irq, halt>>
  BY DEF cmd_out_outb, At, Goto
<1>2. op[t] \in {"read", "write"} /\ Sectors(t) \in 1..MaxOp /\ Sectors(t)' = Sectors(t)
  BY <1>1, SectorsIs DEF IdeInv, IdeTypeOK, Sectors, secs_op
<1>3. \A s \in Threads : /\ s # t => at[s] = "out" /\ at'[s] = "out"
                         /\ at'[t] = place
  BY <1>1, Alone DEF IdeInv, IdeTypeOK
<1>4. IdeTypeOK'
  BY <1>1 DEF IdeInv, IdeTypeOK, Places, DiskStates, Busy
<1>5. DiskDoneIsBinary' /\ ChannelOK'
  BY <1>1, <1>3 DEF IdeInv, DiskDoneIsBinary, ChannelOK
<1>6. DoneOK'
  BY <1>1, <1>2, <1>3 DEF IdeInv, DoneOK, Expecting
<1>7. disk \in {"idle", "storing"}
  BY <1>1, <1>3 DEF IdeInv, DiskOK, InCommand
<1>8. DiskOK' /\ TransferWhenReady'
  BY <1>1, <1>2, <1>3, <1>7 DEF IdeInv, DiskOK, TransferWhenReady, InCommand, Busy
<1>9. OneSectorOK'
  <2> SUFFICES ASSUME ~multi' PROVE OneSectorOK'
    BY DEF OneSectorOK
  <2>1. ~multi /\ Sectors(t) = 1
    <3>1. ~(multi \/ Sectors(t) > 1)
      BY <1>1, Zenon
    <3> QED
      BY <1>2, <3>1, IdeAssumption
  <2>2. disk = "idle" /\ ~irq /\ expecting_intr /\ done = 0
    BY <1>1, <1>3, <2>1 DEF IdeInv, OneSectorOK, InCommand, DoneOK, Expecting, IdeTypeOK
  <2> QED
    BY <1>1, <1>2, <1>3, <2>1, <2>2 DEF OneSectorOK, InCommand, Busy
<1> QED
  BY <1>4, <1>5, <1>6, <1>8, <1>9 DEF IdeInv

(***************************************************************************)
(* sema_down returns: disk_done is 0 again and no interrupt is expected.   *)
(***************************************************************************)
LEMMA DownKeeps ==
  ASSUME IdeInv, NEW t \in Threads, sema_down(t)
  PROVE  IdeInv'
<1> USE IdeAssumption
<1>1. /\ at[t] \in {"down", "blocked"} /\ halt = "none" /\ done = 1 /\ done' = 0
      /\ syscall' \in {NoThread, t}
      /\ UNCHANGED <<owner, expecting_intr, op, disk, left, irq, halt, multi>>
  BY DEF sema_down, At
<1>2. \/ /\ op[t] = "read" /\ at' = [at EXCEPT ![t] = "poll"] /\ UNCHANGED todo
      \/ /\ op[t] # "read"
         /\ todo' = [todo EXCEPT ![t] = todo[t] - secs_op(t)]
         /\ \/ at' = [at EXCEPT ![t] = "release"]
            \/ at' = [at EXCEPT ![t] = "command"]
  BY DEF sema_down, Goto
<1>3. todo[t] - secs_op(t) \in 0..MaxSectors
  BY SectorsIs DEF IdeInv, IdeTypeOK
<1>4. IdeTypeOK'
  BY <1>1, <1>2, <1>3 DEF IdeInv, IdeTypeOK, Places
<1>5. /\ owner = t
      /\ \A s \in Threads : s # t => at[s] = "out" /\ at'[s] = "out"
      /\ \/ op[t] = "read" /\ at'[t] = "poll" /\ todo' = todo
         \/ op[t] = "write" /\ at'[t] \in {"release", "command"}
  BY <1>1, <1>2, Alone DEF IdeInv, IdeTypeOK
<1>6. DiskDoneIsBinary' /\ ChannelOK'
  BY <1>1, <1>5 DEF IdeInv, DiskDoneIsBinary, ChannelOK
<1>7. DoneOK'
  BY <1>1, <1>5 DEF IdeInv, DoneOK, Expecting
<1>8. DiskOK' /\ TransferWhenReady'
  BY <1>1, <1>5 DEF IdeInv, DiskOK, TransferWhenReady, InCommand
<1>9. OneSectorOK'
  <2> SUFFICES ASSUME ~multi' PROVE OneSectorOK'
    BY DEF OneSectorOK
  <2>1. CASE op[t] = "read"
    <3>1. Sectors(t)' = Sectors(t) /\ Sectors(t) = 1
      BY <1>1, <1>5, <2>1 DEF IdeInv, OneSectorOK, InCommand, Sectors, secs_op
    <3>2. disk \in {"read_ready", "idle"} /\ ~irq
      BY <1>1, <2>1 DEF IdeInv, OneSectorOK
    <3> QED
      BY <1>1, <1>5, <2>1, <3>1, <3>2 DEF OneSectorOK, InCommand
  <2>2. CASE op[t] = "write"
    <3>1. disk = "idle" /\ ~irq
      BY <1>1, <2>2 DEF IdeInv, OneSectorOK
    <3> QED
      BY <1>1, <1>5, <2>2, <3>1 DEF OneSectorOK, InCommand
  <2> QED
    BY <2>1, <2>2, <1>5
<1> QED
  BY <1>4, <1>6, <1>7, <1>8, <1>9 DEF IdeInv

LEMMA BlockKeeps ==
  ASSUME IdeInv, NEW t \in Threads, sema_down_block(t)
  PROVE  IdeInv'
<1> USE IdeAssumption
<1>1. /\ at[t] = "down" /\ halt = "none" /\ at' = [at EXCEPT ![t] = "blocked"]
      /\ syscall' = NoThread
      /\ UNCHANGED <<owner, expecting_intr, done, op, todo, disk, left, irq, halt, multi>>
  BY DEF sema_down_block, At, Goto
<1>2. IdeTypeOK'
  BY <1>1 DEF IdeInv, IdeTypeOK, Places
<1>3. /\ owner = t /\ at'[t] = "blocked" /\ Sectors(t)' = Sectors(t)
      /\ \A s \in Threads : s # t => at[s] = "out" /\ at'[s] = "out"
  BY <1>1, Alone DEF IdeInv, IdeTypeOK, Sectors, secs_op
<1>4. DiskDoneIsBinary' /\ ChannelOK'
  BY <1>1, <1>3 DEF IdeInv, DiskDoneIsBinary, ChannelOK
<1>5. DoneOK'
  BY <1>1, <1>3 DEF IdeInv, DoneOK, Expecting
<1>6. DiskOK' /\ TransferWhenReady'
  BY <1>1, <1>3 DEF IdeInv, DiskOK, TransferWhenReady, InCommand
<1>7. OneSectorOK'
  BY <1>1, <1>3 DEF IdeInv, OneSectorOK, InCommand
<1> QED
  BY <1>2, <1>4, <1>5, <1>6, <1>7 DEF IdeInv

(***************************************************************************)
(* busy_wait lets the thread go on only when the disk asks for data; what  *)
(* it asks for is what the thread wants to do.                             *)
(***************************************************************************)
LEMMA BusyWaitKeeps ==
  ASSUME IdeInv, NEW t \in Threads, busy_wait(t)
  PROVE  IdeInv'
<1> USE IdeAssumption
<1>1. /\ at[t] = "poll" /\ halt = "none" /\ at' = [at EXCEPT ![t] = "transfer"]
      /\ halt' = (IF disk \in Busy THEN "thread_yield"
                  ELSE IF disk \notin Ready THEN "sector failed" ELSE halt)
      /\ UNCHANGED <<owner, expecting_intr, done, op, todo, syscall, disk, left,
                     irq, multi>>
  BY DEF busy_wait, At, Goto
<1>2. IdeTypeOK'
  BY <1>1 DEF IdeInv, IdeTypeOK, Places
<1>3. /\ owner = t /\ at'[t] = "transfer" /\ Sectors(t)' = Sectors(t)
      /\ op[t] \in {"read", "write"}
      /\ \A s \in Threads : s # t => at[s] = "out" /\ at'[s] = "out"
  BY <1>1, Alone DEF IdeInv, IdeTypeOK, Sectors, secs_op
<1>4. DiskDoneIsBinary' /\ ChannelOK'
  BY <1>1, <1>3 DEF IdeInv, DiskDoneIsBinary, ChannelOK
<1>5. DoneOK'
  BY <1>1, <1>3 DEF IdeInv, DoneOK, Expecting
<1>6. ASSUME halt' = "none"
      PROVE  DiskOK' /\ TransferWhenReady' /\ OneSectorOK'
  <2>1. disk \in Ready
    BY <1>1, <1>6 DEF Busy, Ready
  <2>2. disk = IF op[t] = "read" THEN "read_ready" ELSE "write_ready"
    BY <1>1, <1>3, <2>1 DEF IdeInv, DiskOK, InCommand, Ready
  <2>3. DiskOK' /\ TransferWhenReady'
    BY <1>1, <1>3, <2>2 DEF DiskOK, TransferWhenReady, InCommand
  <2>4. OneSectorOK'
    BY <1>1, <1>3, <2>2 DEF IdeInv, OneSectorOK, InCommand
  <2> QED
    BY <2>3, <2>4
<1> QED
  BY <1>2, <1>4, <1>5, <1>6 DEF IdeInv

(***************************************************************************)
(* The transfer.  A read ends with it, a write is then stored.             *)
(***************************************************************************)
LEMMA ReadKeeps ==
  ASSUME IdeInv, NEW t \in Threads, read_from_sector(t)
  PROVE  IdeInv'
<1> USE IdeAssumption
<1>1. /\ at[t] = "transfer" /\ op[t] = "read" /\ halt = "none"
      /\ disk' = "idle" /\ irq' = (irq \/ Sectors(t) > 1)
      /\ todo' = [todo EXCEPT ![t] = todo[t] - secs_op(t)]
      /\ \/ at' = [at EXCEPT ![t] = "release"]
         \/ at' = [at EXCEPT ![t] = "command"]
      /\ UNCHANGED <<owner, expecting_intr, done, op, syscall, left, halt, multi>>
  BY DEF read_from_sector, At, Goto
<1>2. todo[t] - secs_op(t) \in 0..MaxSectors
  BY SectorsIs DEF IdeInv, IdeTypeOK
<1>3. irq' \in BOOLEAN
  BY <1>1, Zenon
<1>4. IdeTypeOK'
  BY <1>1, <1>2, <1>3 DEF IdeInv, IdeTypeOK, Places, DiskStates
<1>5. /\ owner = t /\ at'[t] \in {"release", "command"}
      /\ \A s \in Threads : s # t => at[s] = "out" /\ at'[s] = "out"
  BY <1>1, Alone DEF IdeInv, IdeTypeOK
<1>6. DiskDoneIsBinary' /\ ChannelOK'
  BY <1>1, <1>5 DEF IdeInv, DiskDoneIsBinary, ChannelOK
<1>7. DoneOK'
  BY <1>1, <1>5 DEF IdeInv, DoneOK, Expecting
<1>8. DiskOK' /\ TransferWhenReady'
  BY <1>1, <1>5 DEF DiskOK, TransferWhenReady, InCommand
<1>9. OneSectorOK'
  <2> SUFFICES ASSUME ~multi' PROVE OneSectorOK'
    BY DEF OneSectorOK
  <2>1. ~irq /\ Sectors(t) = 1
    BY <1>1 DEF IdeInv, OneSectorOK, InCommand
  <2>2. ~(Sectors(t) > 1)
    BY <2>1
  <2>3. ~irq'
    BY <1>1, <2>1, <2>2, Zenon
  <2>4. done' = 0
    BY <1>1, <1>5 DEF IdeInv, DoneOK, Expecting
  <2> QED
    BY <1>1, <1>5, <2>3, <2>4 DEF OneSectorOK, InCommand
<1> QED
  BY <1>4, <1>6, <1>7, <1>8, <1>9 DEF IdeInv

LEMMA WriteKeeps ==
  ASSUME IdeInv, NEW t \in Threads, write2sector(t)
  PROVE  IdeInv'
<1> USE IdeAssumption
<1>1. /\ at[t] = "transfer" /\ op[t] = "write" /\ halt = "none"
      /\ disk' = "storing" /\ left' = Sectors(t)
      /\ at' = [at EXCEPT ![t] = "down"]
      /\ UNCHANGED <<owner, expecting_intr, done, op, todo, syscall, irq, halt, multi>>
  BY DEF write2sector, At, Goto
<1>2. Sectors(t) \in 1..MaxOp /\ Sectors(t)' = Sectors(t)
  BY <1>1, SectorsIs DEF IdeInv, IdeTypeOK, Sectors, secs_op
<1>3. IdeTypeOK'
  BY <1>1, <1>2 DEF IdeInv, IdeTypeOK, Places, DiskStates, Busy
<1>4. /\ owner = t /\ at'[t] = "down"
      /\ \A s \in Threads : s # t => at[s] = "out" /\ at'[s] = "out"
  BY <1>1, Alone DEF IdeInv, IdeTypeOK
<1>5. DiskDoneIsBinary' /\ ChannelOK'
  BY <1>1, <1>4 DEF IdeInv, DiskDoneIsBinary, ChannelOK
<1>6. DoneOK'
  BY <1>1, <1>4 DEF IdeInv, DoneOK, Expecting
<1>7. DiskOK' /\ TransferWhenReady'
  BY <1>1, <1>2, <1>4 DEF DiskOK, TransferWhenReady, InCommand
<1>8. OneSectorOK'
  BY <1>1, <1>2, <1>4 DEF IdeInv, OneSectorOK, InCommand
<1> QED
  BY <1>3, <1>5, <1>6, <1>7, <1>8 DEF IdeInv

LEMMA EndKeeps ==
  ASSUME IdeInv, NEW t \in Threads, ide_end(t)
  PROVE  IdeInv'
<1> USE IdeAssumption
<1>1. /\ at[t] = "release" /\ halt = "none" /\ at' = [at EXCEPT ![t] = "out"]
      /\ owner' = NoThread /\ syscall' = NoThread
      /\ UNCHANGED <<expecting_intr, done, op, todo, disk, left, irq, halt, multi>>
  BY DEF ide_end, At, Goto
<1>2. IdeTypeOK'
  BY <1>1 DEF IdeInv, IdeTypeOK, Places
<1>3. /\ \A s \in Threads : at'[s] = "out"
      /\ \A s \in Threads : s # t => at[s] = "out"
  BY <1>1, Alone DEF IdeInv, IdeTypeOK
<1>4. DiskDoneIsBinary' /\ ChannelOK'
  BY <1>1, <1>3 DEF IdeInv, DiskDoneIsBinary, ChannelOK
<1>5. DoneOK'
  BY <1>1, <1>3 DEF IdeInv, DoneOK, Expecting
<1>6. DiskOK' /\ TransferWhenReady'
  BY <1>1, <1>3 DEF IdeInv, DiskOK, TransferWhenReady, InCommand
<1>7. OneSectorOK'
  BY <1>1, <1>3 DEF IdeInv, OneSectorOK, InCommand
<1> QED
  BY <1>2, <1>4, <1>5, <1>6, <1>7 DEF IdeInv

(***************************************************************************)
(* The interrupt handler ups disk_done only from 0.                        *)
(***************************************************************************)
LEMMA HandlerKeeps ==
  ASSUME IdeInv, intr_hd_handler
  PROVE  IdeInv'
<1>1. /\ halt = "none" /\ irq = TRUE /\ irq' = FALSE
      /\ UNCHANGED <<owner, at, op, todo, syscall, disk, left, multi>>
  BY DEF intr_hd_handler, thread, IdeInv, IdeTypeOK
<1>2. expecting_intr => done = 0 /\ \E t \in Threads : Expecting(t)
  BY DEF IdeInv, DoneOK
<1>3. \/ ~expecting_intr /\ UNCHANGED <<expecting_intr, done, halt>>
      \/ /\ expecting_intr /\ expecting_intr' = FALSE
         /\ done = 0 /\ done' = 1 /\ UNCHANGED halt
  BY <1>2 DEF intr_hd_handler
<1>4. IdeTypeOK'
  BY <1>1, <1>3 DEF IdeInv, IdeTypeOK
<1>5. DiskDoneIsBinary' /\ ChannelOK'
  BY <1>1, <1>3 DEF IdeInv, DiskDoneIsBinary, ChannelOK
<1>6. \A s \in Threads : Expecting(s)' = Expecting(s) /\ Sectors(s)' = Sectors(s)
  BY <1>1 DEF Expecting, Sectors, secs_op
<1>7. DoneOK'
  BY <1>2, <1>3, <1>6 DEF IdeInv, DoneOK
<1>8. DiskOK' /\ TransferWhenReady'
  BY <1>1, <1>3 DEF IdeInv, DiskOK, TransferWhenReady, InCommand
<1>9. OneSectorOK'
  <2> SUFFICES ASSUME ~multi PROVE OneSectorOK'
    BY <1>1 DEF OneSectorOK
  <2>1. PICK t \in Threads : InCommand(t)
    BY <1>1 DEF IdeInv, OneSectorOK
  <2>2. op[t] \in {"read", "write"} /\ \A s \in Threads : s # t => at[s] = "out"
    BY <2>1, Alone DEF IdeInv, IdeTypeOK, InCommand
  <2>3. at[t] \in {"down", "blocked"} /\ done = 0
    BY <1>1, <2>1, <2>2 DEF IdeInv, OneSectorOK, InCommand
  <2>4. done' = 1
    BY <1>3, <2>3 DEF IdeInv, DoneOK, Expecting
  <2> QED
    BY <1>1, <1>6, <2>2, <2>3, <2>4 DEF IdeInv, OneSectorOK, InCommand
<1> QED
  BY <1>4, <1>5, <1>7, <1>8, <1>9 DEF IdeInv

(***************************************************************************)
(* The disk moves on with the command it has.                              *)
(***************************************************************************)
LEMMA DiskReadKeeps ==
  ASSUME IdeInv, disk_read
  PROVE  IdeInv'
<1>1. /\ halt = "none" /\ disk = "reading" /\ disk' \in {"read_ready", "idle"}
      /\ irq' = TRUE
      /\ UNCHANGED <<owner, at, op, todo, syscall, expecting_intr, done, left,
                     halt, multi>>
  BY DEF disk_read, thread
<1>2. PICK t \in Threads : InCommand(t)
  BY <1>1 DEF IdeInv, DiskOK
<1>3. /\ op[t] = "read" /\ at[t] # "transfer"
      /\ \A s \in Threads : s # t => at[s] = "out"
  BY <1>1, <1>2, Alone DEF IdeInv, DiskOK, TransferWhenReady, InCommand
<1>4. IdeTypeOK'
  BY <1>1 DEF IdeInv, IdeTypeOK, DiskStates, Ready
<1>5. DiskDoneIsBinary' /\ ChannelOK'
  BY <1>1 DEF IdeInv, DiskDoneIsBinary, ChannelOK
<1>6. DoneOK'
  BY <1>1 DEF IdeInv, DoneOK, Expecting
<1>7. DiskOK' /\ TransferWhenReady'
  BY <1>1, <1>2, <1>3 DEF IdeInv, DiskOK, TransferWhenReady, InCommand
<1>8. OneSectorOK'
  <2> SUFFICES ASSUME ~multi PROVE OneSectorOK'
    BY <1>1 DEF OneSectorOK
  <2>1. at[t] \in {"down", "blocked"} /\ done = 0 /\ Sectors(t) = 1
    BY <1>1, <1>2, <1>3 DEF IdeInv, OneSectorOK, InCommand
  <2>2. Sectors(t)' = Sectors(t)
    BY <1>1 DEF Sectors, secs_op
  <2> QED
    BY <1>1, <1>2, <1>3, <2>1, <2>2 DEF OneSectorOK, InCommand
<1> QED
  BY <1>4, <1>5, <1>6, <1>7, <1>8 DEF IdeInv

LEMMA DiskAcceptKeeps ==
  ASSUME IdeInv, disk_accept
  PROVE  IdeInv'
<1>1. /\ halt = "none" /\ disk = "accepting" /\ disk' = "write_ready"
      /\ UNCHANGED <<owner, at, op, todo, syscall, expecting_intr, done, left, irq,
                     halt, multi>>
  BY DEF disk_accept, thread
<1>2. PICK t \in Threads : InCommand(t)
  BY <1>1 DEF IdeInv, DiskOK
<1>3. /\ op[t] = "write" /\ at[t] = "poll"
      /\ \A s \in Threads : s # t => at[s] = "out"
  BY <1>1, <1>2, Alone DEF IdeInv, DiskOK, TransferWhenReady, InCommand
<1>4. IdeTypeOK'
  BY <1>1 DEF IdeInv, IdeTypeOK, DiskStates, Ready
<1>5. DiskDoneIsBinary' /\ ChannelOK'
  BY <1>1 DEF IdeInv, DiskDoneIsBinary, ChannelOK
<1>6. DoneOK'
  BY <1>1 DEF IdeInv, DoneOK, Expecting
<1>7. DiskOK' /\ TransferWhenReady'
  BY <1>1, <1>2, <1>3 DEF IdeInv, DiskOK, TransferWhenReady, InCommand
<1>8. OneSectorOK'
  <2>1. Sectors(t)' = Sectors(t)
    BY <1>1 DEF Sectors, secs_op
  <2> QED
    BY <1>1, <1>2, <1>3, <2>1 DEF IdeInv, OneSectorOK, InCommand
<1> QED
  BY <1>4, <1>5, <1>6, <1>7, <1>8 DEF IdeInv

LEMMA DiskStoreKeeps ==
  ASSUME IdeInv, disk_store
  PROVE  IdeInv'
<1> USE IdeAssumption
<1>1. /\ halt = "none" /\ disk = "storing" /\ left' = left - 1 /\ irq' = TRUE
      /\ disk' = (IF left' = 0 THEN "idle" ELSE disk)
      /\ UNCHANGED <<owner, at, op, todo, syscall, expecting_intr, done, halt, multi>>
  BY DEF disk_store, thread
<1>2. left \in 1..MaxOp /\ left' \in 0..MaxOp /\ (disk' = "storing" => left' >= 1)
  BY <1>1 DEF IdeInv, IdeTypeOK, DiskOK
<1>3. disk' \in {"idle", "storing"}
  BY <1>1
<1>4. IdeTypeOK'
  BY <1>1, <1>2, <1>3 DEF IdeInv, IdeTypeOK, DiskStates, Busy
<1>5. DiskDoneIsBinary' /\ ChannelOK'
  BY <1>1 DEF IdeInv, DiskDoneIsBinary, ChannelOK
<1>6. DoneOK'
  BY <1>1 DEF IdeInv, DoneOK, Expecting
<1>7. \A s \in Threads : at[s] # "transfer"
  BY <1>1 DEF IdeInv, TransferWhenReady
<1>8. DiskOK' /\ TransferWhenReady'
  BY <1>1, <1>2, <1>3, <1>7 DEF DiskOK, TransferWhenReady, InCommand
<1>9. OneSectorOK'
  <2> SUFFICES ASSUME ~multi PROVE OneSectorOK'
    BY <1>1 DEF OneSectorOK
  <2>1. PICK t \in Threads : InCommand(t)
    BY <1>1 DEF IdeInv, OneSectorOK
  <2>2. op[t] \in {"read", "write"} /\ \A s \in Threads : s # t => at[s] = "out"
    BY <2>1, Alone DEF IdeInv, IdeTypeOK, InCommand
  <2>3. /\ op[t] = "write" /\ at[t] \in {"down", "blocked"}
        /\ left = 1 /\ done = 0 /\ Sectors(t) = 1
    BY <1>1, <2>1, <2>2 DEF IdeInv, OneSectorOK, InCommand
  <2>4. disk' = "idle" /\ Sectors(t)' = Sectors(t)
    BY <1>1, <2>3 DEF Sectors, secs_op
  <2> QED
    BY <1>1, <2>2, <2>3, <2>4 DEF OneSectorOK, InCommand
<1> QED
  BY <1>4, <1>5, <1>6, <1>8, <1>9 DEF IdeInv

(***************************************************************************)
(* The invariant holds at all times.                                       *)
(***************************************************************************)
LEMMA IdeInductive == IdeSpec => []IdeInv
<1>1. ASSUME IdeInv, [IdeNext]_ide_vars PROVE IdeInv'
  <2>1. ASSUME NEW t \in Threads, ide_begin(t) PROVE IdeInv'
    BY <1>1, <2>1, BeginKeeps
  <2>2. ASSUME NEW t \in Threads, Step(t) PROVE IdeInv'
    BY <1>1, <2>2, CmdOutKeeps, OutbKeeps, DownKeeps, BlockKeeps, BusyWaitKeeps,
       ReadKeeps, WriteKeeps, EndKeeps DEF Step
  <2>3. CASE intr_hd_handler
    BY <1>1, <2>3, HandlerKeeps
  <2>4. CASE disk_read \/ disk_accept \/ disk_store
    BY <1>1, <2>4, DiskReadKeeps, DiskAcceptKeeps, DiskStoreKeeps
  <2>5. CASE panic_spin \/ UNCHANGED ide_vars
    <3>1. UNCHANGED <<owner, expecting_intr, done, at, op, todo, syscall, disk,
                      left, irq, multi, halt>>
      BY <2>5 DEF panic_spin, ide_vars
    <3>2. IdeTypeOK' /\ DiskDoneIsBinary' /\ ChannelOK' /\ DoneOK'
      BY <1>1, <3>1 DEF IdeInv, IdeTypeOK, DiskDoneIsBinary, ChannelOK, DoneOK, Expecting
    <3>3. ASSUME halt' = "none" PROVE DiskOK' /\ TransferWhenReady'
      BY <1>1, <3>1, <3>3 DEF IdeInv, DiskOK, TransferWhenReady, InCommand
    <3>4. ASSUME halt' = "none" PROVE OneSectorOK'
      BY <1>1, <3>1, <3>4 DEF IdeInv, OneSectorOK, InCommand, Sectors, secs_op
    <3> QED
      BY <3>2, <3>3, <3>4 DEF IdeInv
  <2> QED
    BY <1>1, <2>1, <2>2, <2>3, <2>4, <2>5 DEF IdeNext
<1> QED
  BY <1>1, IdeInitOK, PTL DEF IdeSpec

(***************************************************************************)
(* The fields of the channel keep their types; in particular a request     *)
(* never transfers more sectors than it asked for.                         *)
(***************************************************************************)
THEOREM IdeTypeCorrect == IdeSpec => []IdeTypeOK
<1>1. IdeInv => IdeTypeOK
  BY DEF IdeInv
<1> QED
  BY <1>1, IdeInductive, PTL

(***************************************************************************)
(* sema_up's ASSERT in intr_hd_handler holds, whatever interrupts are left *)
(* over from earlier commands.                                             *)
(***************************************************************************)
THEOREM DiskDoneIsBinaryHolds == IdeSpec => []DiskDoneIsBinary
<1>1. IdeInv => DiskDoneIsBinary
  BY DEF IdeInv
<1> QED
  BY <1>1, IdeInductive, PTL

(***************************************************************************)
(* read_from_sector and write2sector find the disk asking for that         *)
(* transfer.                                                               *)
(***************************************************************************)
THEOREM TransferWhenReadyHolds == IdeSpec => []TransferWhenReady
<1>1. IdeInv => TransferWhenReady
  BY DEF IdeInv, TransferWhenReady
<1> QED
  BY <1>1, IdeInductive, PTL

(***************************************************************************)
(* With commands of one sector, cmd_out finds the disk idle, no interrupt  *)
(* latched and disk_done at 0.                                             *)
(***************************************************************************)
THEOREM CommandOnIdleDiskHolds == IdeSpec => []CommandOnIdleDisk
<1>1. ASSUME IdeInv PROVE CommandOnIdleDisk
  <2> SUFFICES ASSUME NEW t \in Threads, halt = "none", ~multi, at[t] = "outb"
               PROVE  disk = "idle" /\ ~irq /\ done = 0
    BY DEF CommandOnIdleDisk
  <2>1. \A s \in Threads : ~InCommand(s)
    BY <1>1, Alone DEF IdeInv, InCommand
  <2> QED
    BY <1>1, <2>1 DEF IdeInv, OneSectorOK
<1> QED
  BY <1>1, IdeInductive, PTL
=============================================================================
