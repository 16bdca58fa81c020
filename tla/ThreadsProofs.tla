--------------------------- MODULE ThreadsProofs ---------------------------
(***************************************************************************)
(* Safety of the lock and of the scheduler, for any threads, any locks,    *)
(* any priorities and any boot order.  The inductive invariant has two     *)
(* halves: where the threads are in the lock functions against the fields  *)
(* of struct lock, and the statuses against the lists of the scheduler.    *)
(***************************************************************************)
EXTENDS Threads, TLAPS

(***************************************************************************)
(* First half: the lock.                                                   *)
(***************************************************************************)
LockType ==
    /\ pc      \in [Threads -> LockPlaces \cup IdlePlaces \cup {"run"}]
    /\ want    \in [Threads -> Locks \cup {NoLock}]
    /\ value   \in [Locks -> {0, 1}]
    /\ holder  \in [Locks -> Threads \cup {NoThread}]
    /\ repeat  \in [Locks -> 0..MaxRepeat]

\* A thread in a lock function names a lock; idle takes none.
PlacesOK ==
    /\ \A t \in Workers : /\ pc[t] \in LockPlaces \cup {"run"}
                          /\ pc[t] # "run" => want[t] \in Locks
                          /\ pc[t] = "run" => want[t] = NoLock
    /\ pc[Idle] \in IdlePlaces
    /\ want[Idle] = NoLock

\* holder_repeat_nr by the place of the owner; it is 0 in a free lock.
RepeatCounts ==
    /\ \A t \in Workers :
          /\ pc[t] \in {"cs", "asleep", "reacquire"} => repeat[want[t]] >= 1
          /\ pc[t] = "reacquire" => repeat[want[t]] < MaxRepeat
          /\ pc[t] \in {"sethold", "setrep", "clearhold", "up"}
                => repeat[want[t]] = 0
    /\ \A l \in Locks : value[l] = 1 => repeat[l] = 0

\* Only workers hold locks.
HolderIsWorker == \A l \in Locks : holder[l] # Idle

LockIInv == /\ LockType
            /\ PlacesOK
            /\ MutualExclusion
            /\ HolderIsOwner
            /\ HolderIsWorker
            /\ RepeatCounts

lockvars == <<pc, want, value, holder, repeat>>

(***************************************************************************)
(* The kernel starts with every lock free.                                 *)
(***************************************************************************)
LEMMA LockInit == Init => LockIInv
<1> SUFFICES ASSUME Init PROVE LockIInv
  OBVIOUS
<1> USE ThreadsAssumption DEF Init, thread_init, lock_init, Threads, Workers
<1>1. LockType
  BY DEF LockType, LockPlaces, IdlePlaces
<1>2. PlacesOK
  BY DEF PlacesOK, LockPlaces, IdlePlaces
<1>3. \A t \in Workers, l \in Locks : ~Owns(t, l)
  BY DEF Owns, OwnerPlaces
<1>4. MutualExclusion
  BY <1>3 DEF MutualExclusion
<1>5. HolderIsOwner /\ HolderIsWorker
  <2>1. \A l \in Locks : holder[l] = NoThread /\ repeat[l] = 0
    OBVIOUS
  <2>2. NoThread \notin Workers /\ NoThread # Idle
    OBVIOUS
  <2> QED
    BY ONLY <1>3, <2>1, <2>2 DEF HolderIsOwner, HolderIsWorker
<1>6. RepeatCounts
  BY DEF RepeatCounts
<1> QED
  BY <1>1, <1>2, <1>4, <1>5, <1>6 DEF LockIInv

(***************************************************************************)
(* Steps of a worker inside the lock functions keep the lock's half.       *)
(***************************************************************************)
LEMMA LockStepKeeps ==
  ASSUME LockIInv, NEW t \in Workers, LockStep(t)
  PROVE  LockIInv'
<1> USE ThreadsAssumption
<1> USE DEF LockIInv, LockType, PlacesOK, MutualExclusion, HolderIsOwner,
            HolderIsWorker, RepeatCounts, Owns, OwnerPlaces, LockPlaces,
            IdlePlaces, Threads, Workers, Running, Goto
<1>1. ASSUME NEW l \in Locks, CallAcquire(t, l) PROVE LockIInv'
  BY <1>1 DEF CallAcquire, lock
<1>2. CASE CallReacquire(t)
  BY <1>2 DEF CallReacquire, lock
<1>3. CASE lock_acquire(t)
  BY <1>3 DEF lock_acquire
<1>4. CASE sema_down_wait(t)
  BY <1>4 DEF sema_down_wait
<1>5. CASE sema_down_take(t)
  BY <1>5 DEF sema_down_take
<1>6. CASE lock_acquire_holder(t)
  BY <1>6 DEF lock_acquire_holder
<1>7. CASE lock_acquire_repeat(t)
  BY <1>7 DEF lock_acquire_repeat
<1>8. CASE lock_release_inner(t)
  BY <1>8 DEF lock_release_inner
<1>9. CASE lock_release(t)
  BY <1>9 DEF lock_release
<1>10. CASE lock_release_holder(t)
  BY <1>10 DEF lock_release_holder
<1>11. CASE sema_up(t)
  <2>1. want[t] \in Locks /\ Owns(t, want[t])
    BY <1>11 DEF sema_up
  <2>2. value[want[t]] = 0
    BY <2>1
  <2>3. /\ value' = [value EXCEPT ![want[t]] = 1]
        /\ pc' = [pc EXCEPT ![t] = "run"]
        /\ want' = [want EXCEPT ![t] = NoLock]
        /\ UNCHANGED <<holder, repeat>>
    BY <1>11, <2>1, <2>2 DEF sema_up
  <2> QED
    BY <1>11, <2>1, <2>2, <2>3 DEF sema_up
<1>12. CASE BlockForDevice(t)
  BY <1>12 DEF BlockForDevice, lock
<1>13. CASE ResumeFromDevice(t)
  BY <1>13 DEF ResumeFromDevice, lock
<1>14. CASE thread_yield(t) \/ thread_exit(t)
  BY <1>14 DEF thread_yield, thread_exit, lock
<1> QED
  BY <1>1, <1>2, <1>3, <1>4, <1>5, <1>6, <1>7, <1>8, <1>9, <1>10, <1>11,
     <1>12, <1>13, <1>14 DEF LockStep

(***************************************************************************)
(* Idle and the interrupt handlers leave the locks alone, and move no      *)
(* worker.                                                                 *)
(***************************************************************************)
LEMMA LockNext ==
  ASSUME LockIInv, cur \in Threads, [Next]_vars
  PROVE  LockIInv'
<1>1. ASSUME UNCHANGED <<want, value, holder, repeat>>,
             \/ UNCHANGED pc
             \/ \E place \in IdlePlaces : pc' = [pc EXCEPT ![Idle] = place]
      PROVE  LockIInv'
  <2>1. \A t \in Workers : pc'[t] = pc[t]
    BY <1>1, ThreadsAssumption DEF LockIInv, LockType, Threads, Workers
  <2>2. /\ pc' \in [Threads -> LockPlaces \cup IdlePlaces \cup {"run"}]
        /\ pc'[Idle] \in IdlePlaces
    BY <1>1 DEF LockIInv, LockType, PlacesOK, Threads
  <2> QED
    BY <1>1, <2>1, <2>2
    DEF LockIInv, LockType, PlacesOK, MutualExclusion, HolderIsOwner,
        HolderIsWorker, RepeatCounts, Owns
<1>2. ASSUME NEW t \in Workers, LockStep(t) PROVE LockIInv'
  BY <1>2, LockStepKeeps
<1>3. CASE idle_block \/ idle_wake \/ idle_hlt
  BY <1>3, <1>1 DEF idle_block, idle_wake, idle_hlt, Goto, lock, IdlePlaces
<1>4. ASSUME AfterHlt, UNCHANGED <<want, lock>> PROVE LockIInv'
  <2>1. pc[cur] = "hlt" => cur = Idle
    BY ThreadsAssumption DEF LockIInv, PlacesOK, Threads, LockPlaces
  <2> QED
    BY <1>4, <1>1, <2>1 DEF AfterHlt, lock, IdlePlaces
<1>5. CASE intr_timer_handler
  BY <1>5, <1>4 DEF intr_timer_handler
<1>6. ASSUME NEW t \in Workers, intr_device_handler(t) PROVE LockIInv'
  BY <1>6, <1>4 DEF intr_device_handler
<1>7. CASE panic_spin \/ UNCHANGED vars
  BY <1>7, <1>1 DEF panic_spin, vars
<1> QED
  BY <1>2, <1>3, <1>5, <1>6, <1>7 DEF Next

(***************************************************************************)
(* Lists (lib/list.c).  What each operation does to membership, and that   *)
(* it does not make duplicates.                                            *)
(***************************************************************************)
LEMMA EmptyList ==
  ASSUME NEW S, NEW s \in Seq(S)
  PROVE  /\ s = << >> => \A u : ~elem_find(s, u)
         /\ s # << >> => Head(s) \in S /\ elem_find(s, Head(s))
  BY DEF elem_find

LEMMA AppendList ==
  ASSUME NEW S, NEW s \in Seq(S), NEW e \in S
  PROVE  /\ list_append(s, e) \in Seq(S)
         /\ list_append(s, e) # << >>
         /\ \A u : elem_find(list_append(s, e), u) <=> elem_find(s, u) \/ u = e
         /\ NoDuplicates(s) /\ ~elem_find(s, e)
               => NoDuplicates(list_append(s, e))
<1> DEFINE a == list_append(s, e)
<1>1. /\ a \in Seq(S) /\ Len(a) = Len(s) + 1 /\ a[Len(s) + 1] = e
      /\ \A i \in 1..Len(s) : a[i] = s[i]
  BY DEF list_append
<1>2. a # << >>
  BY <1>1
<1>3. \A u : elem_find(a, u) <=> elem_find(s, u) \/ u = e
  BY <1>1 DEF elem_find
<1>4. ASSUME NoDuplicates(s), ~elem_find(s, e) PROVE NoDuplicates(a)
  BY <1>1, <1>4 DEF NoDuplicates, elem_find
<1> QED
  BY <1>1, <1>2, <1>3, <1>4

LEMMA PushList ==
  ASSUME NEW S, NEW s \in Seq(S), NEW e \in S
  PROVE  /\ list_push(s, e) \in Seq(S)
         /\ list_push(s, e) # << >>
         /\ \A u : elem_find(list_push(s, e), u) <=> elem_find(s, u) \/ u = e
         /\ NoDuplicates(s) /\ ~elem_find(s, e)
               => NoDuplicates(list_push(s, e))
<1> DEFINE p == list_push(s, e)
<1>1. /\ p \in Seq(S) /\ Len(p) = Len(s) + 1 /\ p[1] = e
      /\ \A i \in 1..Len(s) : p[i + 1] = s[i]
      /\ \A i \in 2..Len(p) : p[i] = s[i - 1]
  BY DEF list_push
<1>2. p # << >>
  BY <1>1
<1>3. \A u : elem_find(p, u) <=> elem_find(s, u) \/ u = e
  <2> TAKE u
  <2>1. elem_find(p, u) => elem_find(s, u) \/ u = e
    <3> SUFFICES ASSUME NEW i \in 1..Len(p), p[i] = u
                 PROVE  elem_find(s, u) \/ u = e
      BY DEF elem_find
    <3>1. CASE i = 1
      BY <1>1, <3>1
    <3>2. CASE i # 1
      <4>1. i - 1 \in 1..Len(s) /\ s[i - 1] = u
        BY <1>1, <3>2
      <4> QED
        BY <4>1 DEF elem_find
    <3> QED
      BY <3>1, <3>2
  <2>2. elem_find(s, u) => elem_find(p, u)
    <3> SUFFICES ASSUME NEW i \in 1..Len(s), s[i] = u PROVE elem_find(p, u)
      BY DEF elem_find
    <3>1. i + 1 \in 1..Len(p) /\ p[i + 1] = u
      BY <1>1
    <3> QED
      BY <3>1 DEF elem_find
  <2>3. u = e => elem_find(p, u)
    <3>1. 1 \in 1..Len(p)
      BY <1>1
    <3> QED
      BY <1>1, <3>1 DEF elem_find
  <2> QED
    BY <2>1, <2>2, <2>3
<1>4. ASSUME NoDuplicates(s), ~elem_find(s, e) PROVE NoDuplicates(p)
  <2> SUFFICES ASSUME NEW i \in 1..Len(p), NEW j \in 1..Len(p), p[i] = p[j]
               PROVE  i = j
    BY DEF NoDuplicates
  <2>1. CASE i = 1 /\ j = 1
    BY <2>1
  <2>2. CASE i # 1 /\ j # 1
    <3>1. i - 1 \in 1..Len(s) /\ j - 1 \in 1..Len(s) /\ s[i - 1] = s[j - 1]
      BY <1>1, <2>2
    <3> QED
      BY <1>4, <3>1 DEF NoDuplicates
  <2>3. CASE i = 1 /\ j # 1
    <3>1. j - 1 \in 1..Len(s) /\ s[j - 1] = e
      BY <1>1, <2>3
    <3> QED
      BY <1>4, <3>1 DEF elem_find
  <2>4. CASE i # 1 /\ j = 1
    <3>1. i - 1 \in 1..Len(s) /\ s[i - 1] = e
      BY <1>1, <2>4
    <3> QED
      BY <1>4, <3>1 DEF elem_find
  <2> QED
    BY <2>1, <2>2, <2>3, <2>4
<1> QED
  BY <1>1, <1>2, <1>3, <1>4

LEMMA PopList ==
  ASSUME NEW S, NEW s \in Seq(S), s # << >>, NoDuplicates(s)
  PROVE  /\ Head(s) \in S
         /\ Tail(s) \in Seq(S)
         /\ \A u : elem_find(Tail(s), u) <=> elem_find(s, u) /\ u # Head(s)
         /\ NoDuplicates(Tail(s))
<1>1. /\ Head(s) \in S /\ Head(s) = s[1] /\ 1 \in 1..Len(s)
      /\ Tail(s) \in Seq(S) /\ Len(Tail(s)) = Len(s) - 1
      /\ \A i \in 1..Len(Tail(s)) : Tail(s)[i] = s[i + 1]
  OBVIOUS
<1>2. ASSUME NEW u PROVE elem_find(Tail(s), u) <=> elem_find(s, u) /\ u # Head(s)
  <2>1. ASSUME NEW i \in 1..Len(Tail(s)), Tail(s)[i] = u
        PROVE  elem_find(s, u) /\ u # Head(s)
    <3>1. i + 1 \in 1..Len(s) /\ s[i + 1] = u /\ i + 1 # 1
      BY <1>1, <2>1
    <3> QED
      BY <1>1, <3>1 DEF elem_find, NoDuplicates
  <2>2. ASSUME NEW i \in 1..Len(s), s[i] = u, u # Head(s)
        PROVE  elem_find(Tail(s), u)
    <3>1. i - 1 \in 1..Len(Tail(s)) /\ Tail(s)[i - 1] = u
      BY <1>1, <2>2
    <3> QED
      BY <3>1 DEF elem_find
  <2> QED
    BY <2>1, <2>2 DEF elem_find
<1>3. NoDuplicates(Tail(s))
  BY <1>1 DEF NoDuplicates
<1> QED
  BY <1>1, <1>2, <1>3

(***************************************************************************)
(* Second half: the scheduler.                                             *)
(***************************************************************************)
SchedType ==
    /\ cur     \in Threads
    /\ status  \in [Threads -> task_status]
    /\ ticks   \in [Threads -> Nat]
    /\ \A t \in Threads : ticks[t] <= Priority[t]
    /\ ready   \in Seq(Threads)
    /\ waiters \in [Locks -> Seq(Threads)]

\* The ready list r agrees with the statuses s; only cur may be RUNNING.
Agrees(r, s) ==
    /\ r \in Seq(Threads)
    /\ s \in [Threads -> task_status]
    /\ NoDuplicates(r)
    /\ \A t \in Threads : elem_find(r, t) <=> s[t] = "READY"
    /\ \A t \in Threads : s[t] = "RUNNING" => t = cur
    /\ s[Idle] # "DIED"

\* Where a thread that is off the ready list can be.
OffReady ==
    /\ status[cur] = "RUNNING"
    /\ \A t \in Threads : status[t] = "RUNNING" => t = cur
    /\ \A t \in Workers : status[t] = "BLOCKED" => pc[t] \in {"retest", "asleep"}
    /\ \A t \in Threads : status[t] = "DIED" => t = Main /\ pc[t] = "run"

SchedIInv == /\ SchedType
             /\ OffReady
             /\ OneListPerThread
             /\ NoLostWakeup
             /\ OnlyYieldPanics

(***************************************************************************)
(* schedule(): when list and statuses agree on entry, no ASSERT fails,     *)
(* they agree afterwards, and no worker's BLOCKED or DIED status changes.  *)
(***************************************************************************)
LEMMA ScheduleSafe ==
  ASSUME cur \in Threads, ticks \in [Threads -> Nat],
         \A t \in Threads : ticks[t] <= Priority[t],
         NEW r, NEW s, Agrees(r, s), NEW caller, schedule(r, s, caller)
  PROVE  /\ panic' = panic
         /\ cur' \in Threads
         /\ ticks' \in [Threads -> Nat]
         /\ \A t \in Threads : ticks'[t] <= Priority[t]
         /\ status'[cur'] = "RUNNING"
         /\ status' \in [Threads -> task_status]
         /\ ready' \in Seq(Threads)
         /\ NoDuplicates(ready')
         /\ \A t \in Threads : elem_find(ready', t) <=> status'[t] = "READY"
         /\ \A t \in Threads : status'[t] = "RUNNING" => t = cur'
         /\ \A t \in Workers : status'[t] = "BLOCKED" <=> s[t] = "BLOCKED"
         /\ \A t \in Threads : status'[t] = "DIED" <=> s[t] = "DIED"
<1> DEFINE q == Requeued(r, s)
           d == Dequeueable(q)
<1>0. Idle \in Threads /\ Workers \subseteq Threads /\ Idle \notin Workers
  BY ThreadsAssumption DEF Threads
<1>1. /\ q \in Seq(Threads) /\ NoDuplicates(q)
      /\ \A t \in Threads : elem_find(q, t) <=>
            s[t] = "READY" \/ (t = cur /\ s[t] = "RUNNING")
  <2>1. CASE s[cur] = "RUNNING"
    <3>1. ~elem_find(r, cur)
      BY <2>1 DEF Agrees
    <3>2. q = list_append(r, cur)
      BY <2>1 DEF Requeued
    <3>3. r \in Seq(Threads) /\ NoDuplicates(r)
      BY DEF Agrees
    <3>4. /\ q \in Seq(Threads) /\ NoDuplicates(q)
          /\ \A t : elem_find(q, t) <=> elem_find(r, t) \/ t = cur
      <4> HIDE DEF q
      <4> QED
        BY <3>1, <3>2, <3>3, AppendList
    <3>5. \A t \in Threads : elem_find(r, t) <=> s[t] = "READY"
      BY DEF Agrees
    <3> HIDE DEF q
    <3> QED
      BY <2>1, <3>4, <3>5
  <2>2. CASE s[cur] # "RUNNING"
    BY <2>2 DEF Requeued, Agrees
  <2> QED
    BY <2>1, <2>2
<1>2. q = << >> => s[Idle] = "BLOCKED"
  <2> SUFFICES ASSUME q = << >> PROVE s[Idle] = "BLOCKED"
    OBVIOUS
  <2>1. ~elem_find(q, Idle)
    BY <1>1, EmptyList
  <2>2. s[Idle] # "READY" /\ s[Idle] # "RUNNING"
    BY <1>0, <1>1, <2>1 DEF Agrees
  <2> QED
    BY <1>0, <2>2 DEF Agrees, task_status
<1>3. ScheduleAsserts(r, s)
  BY <1>2 DEF ScheduleAsserts, Agrees
<1>4. /\ d \in Seq(Threads) /\ NoDuplicates(d) /\ d # << >>
      /\ \A t \in Threads : elem_find(d, t) <=>
            elem_find(q, t) \/ (q = << >> /\ t = Idle)
  <2>1. CASE q = << >>
    <3>1. d = list_push(q, Idle)
      BY <2>1 DEF Dequeueable
    <3>2. \A t : ~elem_find(q, t)
      BY <1>1, <2>1, EmptyList
    <3> HIDE DEF q, d
    <3> QED
      BY <1>0, <1>1, <2>1, <3>1, <3>2, PushList
  <2>2. CASE q # << >>
    BY <1>1, <2>2 DEF Dequeueable
  <2> QED
    BY <2>1, <2>2
<1> DEFINE next == Head(d)
<1>5. /\ next \in Threads /\ Tail(d) \in Seq(Threads)
      /\ NoDuplicates(Tail(d)) /\ elem_find(d, next)
      /\ \A t \in Threads : elem_find(Tail(d), t) <=> elem_find(d, t) /\ t # next
  BY <1>4, PopList, EmptyList
<1>6. \/ s[next] = "READY"
      \/ next = cur /\ s[next] = "RUNNING"
      \/ next = Idle /\ s[next] = "BLOCKED" /\ q = << >>
  BY <1>1, <1>2, <1>4, <1>5
<1>7. /\ cur' = next
      /\ status' = [t \in Threads |->
                       IF t = next THEN "RUNNING"
                       ELSE IF t = cur /\ s[t] = "RUNNING" THEN "READY"
                       ELSE s[t]]
      /\ ticks'  = IF s[cur] = "RUNNING"
                   THEN [ticks EXCEPT ![cur] = Priority[cur]] ELSE ticks
      /\ ready'  = Tail(d)
      /\ panic' = panic
  BY <1>3 DEF schedule, NextThread
<1> HIDE DEF q, d, next
<1>8. /\ ticks' \in [Threads -> Nat]
      /\ \A t \in Threads : ticks'[t] <= Priority[t]
  BY <1>7, PriorityAssumption
<1>9. status' \in [Threads -> task_status] /\ status'[cur'] = "RUNNING"
  BY <1>5, <1>7 DEF Agrees, task_status
<1>10. \A t \in Threads : elem_find(ready', t) <=> status'[t] = "READY"
  <2> TAKE t \in Threads
  <2>1. elem_find(ready', t) <=> t # next /\ (\/ s[t] = "READY"
                                              \/ t = cur /\ s[t] = "RUNNING"
                                              \/ q = << >> /\ t = Idle)
    BY <1>1, <1>4, <1>5, <1>7
  <2>2. q = << >> => next = Idle
    <3> SUFFICES ASSUME q = << >> PROVE next = Idle
      OBVIOUS
    <3>1. ~elem_find(q, next)
      BY <1>1, EmptyList
    <3> QED
      BY <1>4, <1>5, <3>1
  <2> QED
    BY <1>7, <2>1, <2>2
<1>11. \A t \in Threads : status'[t] = "RUNNING" => t = cur'
  BY <1>7 DEF Agrees
<1>12. \A t \in Workers : status'[t] = "BLOCKED" <=> s[t] = "BLOCKED"
  BY <1>0, <1>6, <1>7
<1>13. \A t \in Threads : status'[t] = "DIED" <=> s[t] = "DIED"
  BY <1>6, <1>7
<1> QED
  BY <1>5, <1>7, <1>8, <1>9, <1>10, <1>11, <1>12, <1>13

(***************************************************************************)
(* thread_unblock of a BLOCKED thread: no ASSERT fails, list and statuses  *)
(* still agree.                                                            *)
(***************************************************************************)
LEMMA UnblockSafe ==
  ASSUME ready \in Seq(Threads), status \in [Threads -> task_status],
         NoDuplicates(ready),
         \A t \in Threads : elem_find(ready, t) <=> status[t] = "READY",
         NEW p \in Threads, status[p] = "BLOCKED", thread_unblock(p)
  PROVE  /\ panic' = panic /\ cur' = cur /\ ticks' = ticks
         /\ status' = [status EXCEPT ![p] = "READY"]
         /\ ready' \in Seq(Threads)
         /\ NoDuplicates(ready')
         /\ \A t \in Threads : elem_find(ready', t) <=> status'[t] = "READY"
<1>1. ~elem_find(ready, p)
  OBVIOUS
<1>2. /\ panic' = panic /\ cur' = cur /\ ticks' = ticks
      /\ status' = [status EXCEPT ![p] = "READY"]
      /\ ready' = list_push(ready, p)
  BY <1>1 DEF thread_unblock
<1> QED
  BY <1>1, <1>2, PushList

(***************************************************************************)
(* thread_init: main runs, everybody else is in the ready list once.       *)
(***************************************************************************)
LEMMA SchedInit == Init => SchedIInv
<1> SUFFICES ASSUME Init PROVE SchedIInv
  OBVIOUS
<1> USE ThreadsAssumption, PriorityAssumption, BootAssumption
    DEF Init, thread_init, lock_init
<1>0. Main \in Threads /\ Workers \subseteq Threads
  BY DEF Threads, Workers
<1>1. SchedType
  BY <1>0 DEF SchedType, task_status
<1>2. OffReady
  BY <1>0 DEF OffReady
<1>3. \A t \in Threads : elem_find(ready, t) <=> status[t] = "READY"
  BY DEF elem_find
<1>4. NoDuplicates(ready)
  BY DEF NoDuplicates
<1>5. ASSUME NEW l \in Locks
      PROVE  /\ NoDuplicates(waiters[l])
             /\ \A t \in Threads : ~elem_find(waiters[l], t)
             /\ waiters[l] = << >>
  BY <1>5 DEF NoDuplicates, elem_find
<1>6. \A t \in Threads : pc[t] # "retest"
  OBVIOUS
<1>7. OneListPerThread
  BY <1>3, <1>4, <1>5, <1>6 DEF OneListPerThread
<1>8. NoLostWakeup
  BY <1>5 DEF NoLostWakeup
<1>9. OnlyYieldPanics
  BY DEF OnlyYieldPanics
<1> QED
  BY <1>1, <1>2, <1>7, <1>8, <1>9 DEF SchedIInv

(***************************************************************************)
(* A step of the running thread that calls neither schedule() nor          *)
(* thread_unblock() and frees no semaphore keeps the scheduler's half.     *)
(***************************************************************************)
LEMMA QuietStep ==
  ASSUME SchedIInv, UNCHANGED <<cur, status, ticks, ready, waiters>>,
         OnlyYieldPanics',
         \A u \in Threads : u # cur => pc'[u] = pc[u] /\ want'[u] = want[u],
         \A l \in Locks : value'[l] = 1 =>
            value[l] = 1 /\ ~(want[cur] = l /\ pc[cur] = "retest")
  PROVE  SchedIInv'
<1>0. Workers \subseteq Threads
  BY DEF Threads
<1>1. SchedType'
  BY DEF SchedIInv, SchedType
<1>2. OffReady'
  BY <1>0 DEF SchedIInv, OffReady
<1>3. OneListPerThread'
  <2>1. status[cur] = "RUNNING"
    BY DEF SchedIInv, OffReady
  <2> QED
    BY <2>1 DEF SchedIInv, OneListPerThread
<1>4. NoLostWakeup'
  <2> SUFFICES ASSUME NEW l \in Locks, value'[l] = 1, waiters'[l] # << >>
               PROVE  \E u \in Workers : Woken(u, l)'
    BY DEF NoLostWakeup
  <2>1. PICK u \in Workers : Woken(u, l)
    BY DEF SchedIInv, NoLostWakeup
  <2>2. u # cur
    BY <2>1 DEF Woken
  <2> QED
    BY <1>0, <2>1, <2>2 DEF Woken
<1> QED
  BY <1>1, <1>2, <1>3, <1>4 DEF SchedIInv

(***************************************************************************)
(* A step that calls schedule() with a status s that differs from the old  *)
(* one at most for the running thread, and with a queue of waiters that    *)
(* already tells the new statuses.                                         *)
(***************************************************************************)
LEMMA ScheduleStep ==
  ASSUME SchedIInv, NEW s, NEW caller, schedule(ready, s, caller),
         s \in [Threads -> task_status],
         \A u \in Threads : u # cur => s[u] = status[u] /\ pc'[u] = pc[u],
         s[cur] \in {"RUNNING", "BLOCKED", "DIED"},
         s[cur] = "BLOCKED" /\ cur \in Workers
            => pc'[cur] \in {"retest", "asleep"},
         s[cur] = "DIED" => cur = Main /\ pc'[cur] = "run",
         want' = want, value' = value,
         waiters' \in [Locks -> Seq(Threads)],
         \A l \in Locks :
            /\ NoDuplicates(waiters'[l])
            /\ \A u \in Threads :
                  elem_find(waiters'[l], u) <=>
                     /\ u \in Workers /\ s[u] = "BLOCKED"
                     /\ pc'[u] = "retest" /\ want[u] = l,
         pc'[Idle] # "retest",
         \A l \in Locks : value[l] = 1 =>
            /\ waiters'[l] = waiters[l]
            /\ ~(want[cur] = l /\ pc[cur] = "retest")
  PROVE  SchedIInv'
<1>0. Workers \subseteq Threads /\ Idle \in Threads /\ Main # Idle
      /\ \A u \in Threads : u \in Workers \/ u = Idle
  BY ThreadsAssumption DEF Threads, Workers
<1>1. /\ cur \in Threads /\ ticks \in [Threads -> Nat]
      /\ \A t \in Threads : ticks[t] <= Priority[t]
  BY DEF SchedIInv, SchedType
<1>2. Agrees(ready, s)
  <2>1. ready \in Seq(Threads) /\ NoDuplicates(ready)
    BY DEF SchedIInv, SchedType, OneListPerThread
  <2>2. \A t \in Threads : elem_find(ready, t) <=> s[t] = "READY"
    <3>1. \A t \in Threads : elem_find(ready, t) <=> status[t] = "READY"
      BY DEF SchedIInv, OneListPerThread
    <3>2. status[cur] # "READY" /\ s[cur] # "READY"
      BY DEF SchedIInv, OffReady
    <3> QED
      BY <3>1, <3>2
  <2>3. \A t \in Threads : s[t] = "RUNNING" => t = cur
    BY DEF SchedIInv, OffReady
  <2>4. s[Idle] # "DIED"
    BY <1>0 DEF SchedIInv, OffReady
  <2> QED
    BY <2>1, <2>2, <2>3, <2>4 DEF Agrees
<1>3. /\ panic' = panic
      /\ cur' \in Threads
      /\ ticks' \in [Threads -> Nat]
      /\ \A t \in Threads : ticks'[t] <= Priority[t]
      /\ status'[cur'] = "RUNNING"
      /\ status' \in [Threads -> task_status]
      /\ ready' \in Seq(Threads)
      /\ NoDuplicates(ready')
      /\ \A t \in Threads : elem_find(ready', t) <=> status'[t] = "READY"
      /\ \A t \in Threads : status'[t] = "RUNNING" => t = cur'
      /\ \A t \in Workers : status'[t] = "BLOCKED" <=> s[t] = "BLOCKED"
      /\ \A t \in Threads : status'[t] = "DIED" <=> s[t] = "DIED"
  BY <1>1, <1>2, ScheduleSafe
<1>4. SchedType'
  BY <1>3 DEF SchedType
<1>5. OffReady'
  <2>0. /\ \A t \in Workers : status[t] = "BLOCKED" => pc[t] \in {"retest", "asleep"}
        /\ \A t \in Threads : status[t] = "DIED" => t = Main /\ pc[t] = "run"
    BY DEF SchedIInv, OffReady
  <2>1. ASSUME NEW t \in Workers, status'[t] = "BLOCKED"
        PROVE  pc'[t] \in {"retest", "asleep"}
    <3>1. s[t] = "BLOCKED" /\ t \in Threads
      BY <1>0, <1>3, <2>1
    <3> QED
      BY <2>0, <3>1
  <2>2. ASSUME NEW t \in Threads, status'[t] = "DIED"
        PROVE  t = Main /\ pc'[t] = "run"
    <3>1. s[t] = "DIED"
      BY <1>3, <2>2
    <3> QED
      BY <2>0, <3>1
  <2> QED
    BY <1>3, <2>1, <2>2 DEF OffReady
<1>6. OneListPerThread'
  BY <1>0, <1>3 DEF OneListPerThread
<1>7. NoLostWakeup'
  <2> SUFFICES ASSUME NEW l \in Locks, value'[l] = 1, waiters'[l] # << >>
               PROVE  \E u \in Workers : Woken(u, l)'
    BY DEF NoLostWakeup
  <2>1. PICK u \in Workers : Woken(u, l)
    BY DEF SchedIInv, NoLostWakeup
  <2>2. u \in Threads /\ u # cur
    BY <1>0, <2>1 DEF Woken
  <2>3. status'[u] # "BLOCKED" /\ status'[u] # "DIED"
    BY <1>3, <2>1, <2>2 DEF Woken
  <2>4. status'[u] \in {"READY", "RUNNING"}
    BY <1>3, <2>2, <2>3 DEF task_status
  <2> QED
    BY <2>1, <2>2, <2>4 DEF Woken
<1>8. OnlyYieldPanics'
  BY <1>3 DEF SchedIInv, OnlyYieldPanics
<1> QED
  BY <1>4, <1>5, <1>6, <1>7, <1>8 DEF SchedIInv

(***************************************************************************)
(* The waiters of a lock are blocked workers at the test of sema_down.     *)
(***************************************************************************)
LEMMA WaitersAreWorkers ==
  ASSUME SchedIInv, LockIInv, NEW l \in Locks
  PROVE  /\ waiters[l] \in Seq(Threads) /\ NoDuplicates(waiters[l])
         /\ \A u \in Threads : elem_find(waiters[l], u) <=>
               /\ u \in Workers /\ status[u] = "BLOCKED"
               /\ pc[u] = "retest" /\ want[u] = l
<1>1. pc[Idle] # "retest"
  BY DEF LockIInv, PlacesOK, IdlePlaces
<1> QED
  BY <1>1 DEF SchedIInv, SchedType, OneListPerThread, Threads

(***************************************************************************)
(* A call of schedule() that leaves the queues of waiters alone: the timer *)
(* at the end of a slice, sleeping for a device, idle, exit.               *)
(***************************************************************************)
LEMMA LeaveCpu ==
  ASSUME SchedIInv, LockIInv, NEW s, NEW caller, schedule(ready, s, caller),
         UNCHANGED <<want, value, waiters>>,
         s \in [Threads -> task_status],
         \A u \in Threads : u # cur => s[u] = status[u] /\ pc'[u] = pc[u],
         s[cur] \in {"RUNNING", "BLOCKED", "DIED"},
         s[cur] = "BLOCKED" /\ cur \in Workers => pc'[cur] = "asleep",
         s[cur] = "DIED" => cur = Main /\ pc'[cur] = "run",
         pc'[Idle] # "retest", pc[cur] # "retest"
  PROVE  SchedIInv'
<1>0. Workers \subseteq Threads
  BY DEF Threads
<1>1. waiters' \in [Locks -> Seq(Threads)]
  BY DEF SchedIInv, SchedType
<1>2. ASSUME NEW l \in Locks
      PROVE  /\ NoDuplicates(waiters'[l])
             /\ \A u \in Threads :
                  elem_find(waiters'[l], u) <=>
                     /\ u \in Workers /\ s[u] = "BLOCKED"
                     /\ pc'[u] = "retest" /\ want[u] = l
  BY <1>0, WaitersAreWorkers
<1> QED
  BY <1>1, <1>2, ScheduleStep

(***************************************************************************)
(* sema_down_wait: the thread queues itself and gives up the CPU.          *)
(***************************************************************************)
LEMMA DownWaitKeeps ==
  ASSUME SchedIInv, LockIInv, NEW t \in Workers, sema_down_wait(t)
  PROVE  SchedIInv'
<1> DEFINE m == want[t]
<1>s. PICK s : s = [status EXCEPT ![cur] = "BLOCKED"]
  OBVIOUS
<1>0. Workers \subseteq Threads
  BY DEF Threads
<1>1. /\ cur = t /\ t \in Threads /\ m \in Locks /\ value[m] = 0
      /\ pc \in [Threads -> LockPlaces \cup IdlePlaces \cup {"run"}]
      /\ pc' = [pc EXCEPT ![t] = "retest"]
      /\ want' = want /\ value' = value
  BY <1>0 DEF sema_down_wait, Running, Goto, LockIInv, LockType, PlacesOK
<1>2. /\ status[t] = "RUNNING" /\ status \in [Threads -> task_status]
      /\ waiters \in [Locks -> Seq(Threads)]
  BY <1>1 DEF SchedIInv, OffReady, SchedType
<1>3. ~elem_find(waiters[m], t)
  BY <1>1, <1>2, WaitersAreWorkers
<1>4. /\ waiters' = [waiters EXCEPT ![m] = list_append(@, t)]
      /\ schedule(ready, s, "schedule")
  BY <1>3, <1>s DEF sema_down_wait, thread_block
<1>5. /\ s \in [Threads -> task_status] /\ s[cur] = "BLOCKED"
      /\ \A u \in Threads : u # cur => s[u] = status[u] /\ pc'[u] = pc[u]
      /\ pc'[cur] = "retest"
  BY <1>1, <1>2, <1>s DEF task_status
<1>6. /\ list_append(waiters[m], t) \in Seq(Threads)
      /\ NoDuplicates(list_append(waiters[m], t))
      /\ \A u : elem_find(list_append(waiters[m], t), u)
                   <=> elem_find(waiters[m], u) \/ u = t
  <2>1. waiters[m] \in Seq(Threads) /\ NoDuplicates(waiters[m])
    BY <1>1, WaitersAreWorkers
  <2>2. t \in Threads
    BY <1>1
  <2> QED
    BY <1>3, <2>1, <2>2, AppendList
<1>7. /\ waiters' \in [Locks -> Seq(Threads)]
      /\ waiters'[m] = list_append(waiters[m], t)
      /\ \A l \in Locks : l # m => waiters'[l] = waiters[l]
  BY <1>1, <1>2, <1>4, <1>6
<1> HIDE DEF m
<1>8. ASSUME NEW l \in Locks
      PROVE  /\ NoDuplicates(waiters'[l])
             /\ \A u \in Threads :
                  elem_find(waiters'[l], u) <=>
                     /\ u \in Workers /\ s[u] = "BLOCKED"
                     /\ pc'[u] = "retest" /\ want[u] = l
  <2>1. CASE l = m
    BY <1>0, <1>1, <1>5, <1>6, <1>7, <2>1, WaitersAreWorkers DEF m
  <2>2. CASE l # m
    BY <1>0, <1>1, <1>2, <1>5, <1>7, <2>2, WaitersAreWorkers DEF m
  <2> QED
    BY <2>1, <2>2
<1>9. pc'[Idle] # "retest"
  BY <1>1, ThreadsAssumption DEF LockIInv, PlacesOK, IdlePlaces, Threads
<1>10. \A l \in Locks : value[l] = 1 =>
            /\ waiters'[l] = waiters[l]
            /\ ~(want[cur] = l /\ pc[cur] = "retest")
  BY <1>1, <1>7 DEF m
<1>11. /\ s[cur] \in {"RUNNING", "BLOCKED", "DIED"}
       /\ s[cur] = "BLOCKED" /\ cur \in Workers
             => pc'[cur] \in {"retest", "asleep"}
       /\ s[cur] = "DIED" => cur = Main /\ pc'[cur] = "run"
  BY <1>5
<1> QED
  <2>1. want' = want /\ value' = value
    BY <1>1
  <2>2. schedule(ready, s, "schedule")
    BY <1>4
  <2>3. s \in [Threads -> task_status] /\ waiters' \in [Locks -> Seq(Threads)]
    BY <1>5, <1>7
  <2>4. \A u \in Threads : u # cur => s[u] = status[u] /\ pc'[u] = pc[u]
    BY <1>5
  <2> QED
    BY <1>8, <1>9, <1>10, <1>11, <2>1, <2>2, <2>3, <2>4, ScheduleStep

(***************************************************************************)
(* sema_up: the first waiter leaves the queue and becomes ready, so the    *)
(* semaphore it frees has been announced.                                  *)
(***************************************************************************)
LEMMA UpKeeps ==
  ASSUME SchedIInv, LockIInv, NEW t \in Workers, sema_up(t)
  PROVE  SchedIInv'
<1> DEFINE m == want[t]
<1>0. Workers \subseteq Threads
  BY DEF Threads
<1>1. /\ cur = t /\ t \in Threads /\ m \in Locks /\ pc[t] = "up"
      /\ pc \in [Threads -> LockPlaces \cup IdlePlaces \cup {"run"}]
      /\ want \in [Threads -> Locks \cup {NoLock}]
      /\ value \in [Locks -> {0, 1}]
  BY <1>0 DEF sema_up, Running, LockIInv, LockType, PlacesOK
<1>2. value[m] = 0
  BY <1>1 DEF LockIInv, MutualExclusion, Owns, OwnerPlaces
<1>3. /\ status[t] = "RUNNING" /\ status \in [Threads -> task_status]
      /\ waiters \in [Locks -> Seq(Threads)]
      /\ ready \in Seq(Threads) /\ NoDuplicates(ready)
      /\ \A u \in Threads : elem_find(ready, u) <=> status[u] = "READY"
  BY <1>1 DEF SchedIInv, OffReady, SchedType, OneListPerThread
<1>4. /\ value' = [value EXCEPT ![m] = 1]
      /\ pc' = [pc EXCEPT ![t] = "run"]
      /\ want' = [want EXCEPT ![t] = NoLock]
  BY <1>1, <1>2 DEF sema_up, Goto
<1>5. \A u \in Threads : u # t => pc'[u] = pc[u] /\ want'[u] = want[u]
  BY <1>1, <1>4
<1>6. \A l \in Locks : l # m => value'[l] = value[l]
  BY <1>1, <1>4
<1>7. pc'[t] = "run"
  BY <1>1, <1>4
<1>8. CASE waiters[m] = << >>
  <2>1. UNCHANGED <<sched, waiters, panic>>
    BY <1>2, <1>8 DEF sema_up
  <2>2. SchedType' /\ OnlyYieldPanics'
    BY <2>1 DEF SchedIInv, SchedType, OnlyYieldPanics, sched
  <2>3. OffReady'
    BY <1>0, <1>1, <1>3, <1>5, <2>1 DEF SchedIInv, OffReady, sched
  <2>4. OneListPerThread'
    <3>1. ASSUME NEW l \in Locks
          PROVE  /\ NoDuplicates(waiters[l])
                 /\ \A u \in Threads : elem_find(waiters[l], u) <=>
                       status[u] = "BLOCKED" /\ pc'[u] = "retest" /\ want'[u] = l
      <4> HIDE DEF m
      <4> QED
        BY <1>1, <1>3, <1>5, <1>7 DEF SchedIInv, OneListPerThread
    <3> QED
      BY <1>3, <2>1, <3>1 DEF OneListPerThread, sched
  <2>5. NoLostWakeup'
    <3> SUFFICES ASSUME NEW l \in Locks, value'[l] = 1, waiters'[l] # << >>
                 PROVE  \E u \in Workers : Woken(u, l)'
      BY DEF NoLostWakeup
    <3>1. l # m
      BY <1>8, <2>1
    <3>2. PICK u \in Workers : Woken(u, l)
      BY <1>6, <2>1, <3>1 DEF SchedIInv, NoLostWakeup
    <3>3. u # t
      BY <1>1, <3>2 DEF Woken
    <3> QED
      BY <1>0, <1>5, <2>1, <3>2, <3>3 DEF Woken, sched
  <2> QED
    BY <2>2, <2>3, <2>4, <2>5 DEF SchedIInv
<1>9. CASE waiters[m] # << >>
  <2>0. PICK p : p = Head(waiters[m])
    OBVIOUS
  <2>1. /\ waiters' = [waiters EXCEPT ![m] = Tail(@)]
        /\ thread_unblock(p)
    BY <1>2, <1>9, <2>0 DEF sema_up
  <2>2. /\ p \in Threads /\ elem_find(waiters[m], p)
        /\ Tail(waiters[m]) \in Seq(Threads)
        /\ NoDuplicates(Tail(waiters[m]))
        /\ \A u : elem_find(Tail(waiters[m]), u)
                     <=> elem_find(waiters[m], u) /\ u # p
    <3>1. waiters[m] \in Seq(Threads) /\ NoDuplicates(waiters[m])
      BY <1>1, WaitersAreWorkers
    <3> QED
      BY <1>9, <2>0, <3>1, PopList, EmptyList
  <2>3. /\ p \in Workers /\ status[p] = "BLOCKED" /\ pc[p] = "retest"
        /\ want[p] = m /\ p # t
    BY <1>1, <2>2, WaitersAreWorkers
  <2>4. /\ panic' = panic /\ cur' = cur /\ ticks' = ticks
        /\ status' = [status EXCEPT ![p] = "READY"]
        /\ ready' \in Seq(Threads)
        /\ NoDuplicates(ready')
        /\ \A u \in Threads : elem_find(ready', u) <=> status'[u] = "READY"
    BY <1>3, <2>1, <2>2, <2>3, UnblockSafe
  <2>5. /\ waiters' \in [Locks -> Seq(Threads)]
        /\ waiters'[m] = Tail(waiters[m])
        /\ \A l \in Locks : l # m => waiters'[l] = waiters[l]
    BY <1>1, <1>3, <2>1, <2>2
  <2>6. /\ status'[p] = "READY" /\ status' \in [Threads -> task_status]
        /\ \A u \in Threads : u # p => status'[u] = status[u]
    BY <1>3, <2>2, <2>4 DEF task_status
  <2>7. SchedType' /\ OnlyYieldPanics'
    BY <2>4, <2>5, <2>6 DEF SchedIInv, SchedType, OnlyYieldPanics
  <2>8. OffReady'
    BY <1>0, <1>1, <1>3, <1>5, <2>3, <2>4, <2>6 DEF SchedIInv, OffReady
  <2>9. ASSUME NEW l \in Locks
        PROVE  /\ NoDuplicates(waiters'[l])
               /\ \A u \in Threads : elem_find(waiters'[l], u) <=>
                     status'[u] = "BLOCKED" /\ pc'[u] = "retest" /\ want'[u] = l
    <3>1. CASE l = m
      <4>1. \A u \in Threads : elem_find(waiters[m], u) <=>
               u \in Workers /\ status[u] = "BLOCKED" /\ pc[u] = "retest"
               /\ want[u] = m
        BY <1>1, WaitersAreWorkers
      <4>2. pc'[Idle] # "retest"
        BY <1>5, <1>7 DEF LockIInv, PlacesOK, IdlePlaces, Threads
      <4>3. ASSUME NEW u \in Threads
            PROVE  elem_find(waiters[m], u) /\ u # p <=>
                      status'[u] = "BLOCKED" /\ pc'[u] = "retest" /\ want'[u] = m
        <5> HIDE DEF m
        <5>1. CASE u = p
          BY <2>6, <5>1
        <5>2. CASE u = t
          BY <1>1, <1>7, <4>1, <5>2
        <5>3. CASE u # p /\ u # t
          <6>1. u \in Workers \/ u = Idle
            BY DEF Threads
          <6> QED
            BY <1>5, <2>6, <4>1, <4>2, <5>3, <6>1
        <5> QED
          BY <5>1, <5>2, <5>3
      <4> HIDE DEF m
      <4> QED
        BY <2>2, <2>5, <3>1, <4>3
    <3>2. CASE l # m
      <4>1. \A u \in Threads : elem_find(waiters[l], u) <=>
               u \in Workers /\ status[u] = "BLOCKED" /\ pc[u] = "retest"
               /\ want[u] = l
        BY WaitersAreWorkers
      <4>2. pc'[Idle] # "retest" /\ NoDuplicates(waiters[l])
        BY <1>5, <1>7, WaitersAreWorkers DEF LockIInv, PlacesOK, IdlePlaces, Threads
      <4> HIDE DEF m
      <4> QED
        BY <1>5, <1>7, <1>3, <2>3, <2>5, <2>6, <3>2, <4>1, <4>2 DEF Threads
    <3> QED
      BY <3>1, <3>2
  <2>10. OneListPerThread'
    BY <2>4, <2>9 DEF OneListPerThread
  <2>11. NoLostWakeup'
    <3> SUFFICES ASSUME NEW l \in Locks, value'[l] = 1, waiters'[l] # << >>
                 PROVE  \E u \in Workers : Woken(u, l)'
      BY DEF NoLostWakeup
    <3>1. CASE l = m
      <4>1. Woken(p, l)'
        BY <1>5, <2>2, <2>3, <2>6, <3>1 DEF Woken
      <4> QED
        BY <2>3, <4>1
    <3>2. CASE l # m
      <4>1. PICK u \in Workers : Woken(u, l)
        BY <1>6, <2>5, <3>2 DEF SchedIInv, NoLostWakeup
      <4>2. u # t /\ u # p
        BY <1>1, <2>3, <4>1 DEF Woken
      <4> QED
        BY <1>0, <1>5, <2>6, <4>1, <4>2 DEF Woken
    <3> QED
      BY <3>1, <3>2
  <2> QED
    BY <2>7, <2>8, <2>10, <2>11 DEF SchedIInv
<1> QED
  BY <1>8, <1>9

(***************************************************************************)
(* An interrupt handler that finds the CPU halted sends idle round its     *)
(* loop; otherwise no thread moves.                                        *)
(***************************************************************************)
LEMMA AfterHltMoves ==
  ASSUME SchedIInv, LockIInv, AfterHlt
  PROVE  /\ \A u \in Threads : u # cur => pc'[u] = pc[u]
         /\ cur \in Workers => pc'[cur] = pc[cur]
         /\ pc'[Idle] # "retest"
<1>1. /\ pc \in [Threads -> LockPlaces \cup IdlePlaces \cup {"run"}]
      /\ cur \in Threads /\ pc[Idle] \in IdlePlaces
      /\ Idle \notin Workers /\ Idle \in Threads
      /\ cur \in Workers => pc[cur] # "hlt"
  BY ThreadsAssumption
  DEF SchedIInv, SchedType, LockIInv, LockType, PlacesOK, LockPlaces, Threads
<1> QED
  BY <1>1 DEF AfterHlt, IdlePlaces

(***************************************************************************)
(* A device handler wakes a thread that sleeps with its lock held: it was  *)
(* in no queue of waiters.                                                 *)
(***************************************************************************)
LEMMA DeviceKeeps ==
  ASSUME SchedIInv, LockIInv, NEW t \in Workers, intr_device_handler(t)
  PROVE  SchedIInv'
<1>0. Workers \subseteq Threads /\ t \in Threads
  BY DEF Threads
<1>1. /\ status \in [Threads -> task_status]
      /\ ready \in Seq(Threads) /\ NoDuplicates(ready)
      /\ \A u \in Threads : elem_find(ready, u) <=> status[u] = "READY"
      /\ cur \in Threads /\ status[cur] = "RUNNING"
  BY DEF SchedIInv, OffReady, SchedType, OneListPerThread
<1>2. /\ status[t] = "BLOCKED" /\ pc[t] = "asleep" /\ t # cur
      /\ thread_unblock(t) /\ AfterHlt
      /\ UNCHANGED <<want, value, waiters>>
  BY <1>1 DEF intr_device_handler, lock
<1>3. /\ panic' = panic /\ cur' = cur /\ ticks' = ticks
      /\ status' = [status EXCEPT ![t] = "READY"]
      /\ ready' \in Seq(Threads)
      /\ NoDuplicates(ready')
      /\ \A u \in Threads : elem_find(ready', u) <=> status'[u] = "READY"
  BY <1>0, <1>1, <1>2, UnblockSafe
<1>4. /\ status'[t] = "READY" /\ status' \in [Threads -> task_status]
      /\ \A u \in Threads : u # t => status'[u] = status[u]
  BY <1>0, <1>1, <1>3 DEF task_status
<1>5. /\ \A u \in Threads : u # cur => pc'[u] = pc[u]
      /\ \A u \in Workers : pc'[u] = pc[u]
      /\ pc'[Idle] # "retest"
  BY <1>0, <1>2, AfterHltMoves
<1>6. SchedType' /\ OnlyYieldPanics'
  BY <1>2, <1>3, <1>4 DEF SchedIInv, SchedType, OnlyYieldPanics
<1>7. OffReady'
  BY <1>0, <1>1, <1>2, <1>3, <1>4, <1>5 DEF SchedIInv, OffReady
<1>8. ASSUME NEW l \in Locks
      PROVE  /\ NoDuplicates(waiters[l])
             /\ \A u \in Threads : elem_find(waiters[l], u) <=>
                   status'[u] = "BLOCKED" /\ pc'[u] = "retest" /\ want[u] = l
  <2>1. /\ NoDuplicates(waiters[l])
        /\ \A u \in Threads : elem_find(waiters[l], u) <=>
              /\ u \in Workers /\ status[u] = "BLOCKED"
              /\ pc[u] = "retest" /\ want[u] = l
    BY WaitersAreWorkers
  <2> QED
    BY <1>2, <1>4, <1>5, <2>1 DEF Threads
<1>9. OneListPerThread'
  BY <1>2, <1>3, <1>8 DEF OneListPerThread
<1>10. NoLostWakeup'
  <2> SUFFICES ASSUME NEW l \in Locks, value'[l] = 1, waiters'[l] # << >>
               PROVE  \E u \in Workers : Woken(u, l)'
    BY DEF NoLostWakeup
  <2>1. PICK u \in Workers : Woken(u, l)
    BY <1>2 DEF SchedIInv, NoLostWakeup
  <2> QED
    BY <1>0, <1>2, <1>4, <1>5, <2>1 DEF Woken
<1> QED
  BY <1>6, <1>7, <1>9, <1>10 DEF SchedIInv

(***************************************************************************)
(* thread_yield: the ASSERT of schedule() finds the thread in the list it  *)
(* was just put in, and nothing else has changed.                          *)
(***************************************************************************)
LEMMA YieldKeeps ==
  ASSUME SchedIInv, NEW t \in Workers, thread_yield(t)
  PROVE  SchedIInv'
<1>1. /\ cur = t /\ t \in Threads /\ status[t] = "RUNNING"
      /\ ready \in Seq(Threads)
  BY DEF thread_yield, Running, SchedIInv, SchedType, OffReady, Threads
<1>2. ~elem_find(ready, t)
  BY <1>1 DEF SchedIInv, OneListPerThread
<1>3. elem_find(list_append(ready, t), t)
  BY <1>1, AppendList
<1>4. ~ScheduleAsserts(list_append(ready, t), status)
  BY <1>1, <1>3 DEF ScheduleAsserts
<1>5. panic' = "thread_yield" /\ UNCHANGED <<sched, pc, want, lock>>
  BY <1>2, <1>4 DEF thread_yield, schedule
<1> QED
  BY <1>5 DEF sched, lock, SchedIInv, SchedType, OffReady, OneListPerThread,
              NoLostWakeup, OnlyYieldPanics, Woken

(***************************************************************************)
(* The lock functions' own steps: the ASSERTs of lock_acquire,             *)
(* lock_release and sema_down hold by the lock's half of the invariant.    *)
(***************************************************************************)
LEMMA LockAsserts ==
  ASSUME LockIInv, SchedIInv, NEW t \in Workers,
         \/ sema_down_take(t) \/ lock_acquire_repeat(t)
         \/ lock_release_inner(t) \/ lock_release(t)
  PROVE  panic' = panic
<1>1. /\ cur = t /\ want[t] \in Locks
      /\ pc[t] \in {"down", "retest", "setrep", "cs"}
  BY DEF LockIInv, PlacesOK, sema_down_take, lock_acquire_repeat,
         lock_release_inner, lock_release, Running
<1>2. value[want[t]] \in {0, 1} /\ value \in [Locks -> {0, 1}]
      /\ repeat[want[t]] \in Nat
  BY <1>1 DEF LockIInv, LockType
<1>3. CASE sema_down_take(t)
  BY <1>1, <1>2, <1>3 DEF sema_down_take
<1>4. CASE lock_acquire_repeat(t)
  BY <1>4 DEF lock_acquire_repeat, Running, LockIInv, RepeatCounts
<1>5. CASE lock_release_inner(t) \/ lock_release(t)
  <2>1. pc[t] = "cs"
    BY <1>5 DEF lock_release_inner, lock_release, Running
  <2>2. holder[want[t]] = t
    BY <1>1, <2>1 DEF LockIInv, HolderIsOwner, Owns, OwnerPlaces
  <2>3. repeat[want[t]] >= 1
    BY <2>1 DEF LockIInv, RepeatCounts
  <2> QED
    BY <1>2, <1>5, <2>2, <2>3 DEF lock_release_inner, lock_release
<1> QED
  BY <1>3, <1>4, <1>5

LEMMA QuietKeeps ==
  ASSUME SchedIInv, LockIInv, NEW t \in Workers,
         \/ \E l \in Locks : CallAcquire(t, l)
         \/ CallReacquire(t)
         \/ lock_acquire(t)
         \/ sema_down_take(t)
         \/ lock_acquire_holder(t)
         \/ lock_acquire_repeat(t)
         \/ lock_release_inner(t)
         \/ lock_release(t)
         \/ lock_release_holder(t)
         \/ ResumeFromDevice(t)
  PROVE  SchedIInv'
<1> USE DEF CallAcquire, CallReacquire, lock_acquire, sema_down_take,
            lock_acquire_holder, lock_acquire_repeat, lock_release_inner,
            lock_release, lock_release_holder, ResumeFromDevice, Running,
            Goto, sched, lock
<1>1. UNCHANGED <<cur, status, ticks, ready, waiters>> /\ cur = t
  OBVIOUS
<1>2. panic' = panic
  BY LockAsserts
<1>3. OnlyYieldPanics'
  BY <1>2 DEF SchedIInv, OnlyYieldPanics
<1>4. \A u \in Threads : u # cur => pc'[u] = pc[u] /\ want'[u] = want[u]
  BY <1>1 DEF LockIInv, LockType
<1>5. \A l \in Locks : value'[l] = 1 =>
         value[l] = 1 /\ ~(want[cur] = l /\ pc[cur] = "retest")
  <2>1. CASE sema_down_take(t)
    <3>1. want[t] \in Locks /\ value \in [Locks -> {0, 1}]
      BY <2>1 DEF LockIInv, LockType, PlacesOK
    <3>2. value[want[t]] = 1 /\ value' = [value EXCEPT ![want[t]] = @ - 1]
      BY <2>1, <3>1
    <3> QED
      BY <1>1, <3>1, <3>2
  <2>2. CASE ~sema_down_take(t)
    <3>1. value' = value /\ pc[t] # "retest"
      BY <2>2
    <3> QED
      BY <1>1, <3>1
  <2> QED
    BY <2>1, <2>2
<1> QED
  BY <1>1, <1>3, <1>4, <1>5, QuietStep

(***************************************************************************)
(* Every step keeps the scheduler's half of the invariant.                 *)
(***************************************************************************)
LEMMA SchedNext ==
  ASSUME SchedIInv, LockIInv, [Next]_vars
  PROVE  SchedIInv'
<1>0. /\ Workers \subseteq Threads /\ Idle \in Threads /\ Idle \notin Workers
      /\ cur \in Threads /\ status \in [Threads -> task_status]
      /\ status[cur] = "RUNNING"
      /\ pc \in [Threads -> LockPlaces \cup IdlePlaces \cup {"run"}]
      /\ pc[Idle] \in IdlePlaces
  BY ThreadsAssumption DEF Threads, SchedIInv, SchedType, OffReady, LockIInv,
                           LockType, PlacesOK
<1>1. ASSUME NEW t \in Workers, LockStep(t) PROVE SchedIInv'
  <2>1. CASE sema_down_wait(t)
    BY <2>1, DownWaitKeeps
  <2>2. CASE sema_up(t)
    BY <2>2, UpKeeps
  <2>3. CASE thread_yield(t)
    BY <2>3, YieldKeeps
  <2>4. CASE BlockForDevice(t)
    <3>1. PICK s : s = [status EXCEPT ![cur] = "BLOCKED"]
      OBVIOUS
    <3>2. schedule(ready, s, "schedule") /\ UNCHANGED <<want, value, waiters>>
      BY <2>4, <3>1 DEF BlockForDevice, thread_block, lock
    <3>3. cur = t /\ pc[cur] = "cs" /\ pc' = [pc EXCEPT ![t] = "asleep"]
      BY <2>4 DEF BlockForDevice, Running, Goto
    <3>4. /\ s \in [Threads -> task_status] /\ s[cur] = "BLOCKED"
          /\ \A u \in Threads : u # cur => s[u] = status[u] /\ pc'[u] = pc[u]
          /\ pc'[cur] = "asleep" /\ pc'[Idle] # "retest"
      BY <1>0, <3>1, <3>3 DEF task_status, IdlePlaces
    <3> QED
      BY <3>2, <3>3, <3>4, LeaveCpu
  <2>5. CASE thread_exit(t)
    <3>1. PICK s : s = [status EXCEPT ![cur] = "DIED"]
      OBVIOUS
    <3>2. cur = t /\ pc[cur] = "run" /\ pc' = pc /\ cur = Main
      BY <2>5 DEF thread_exit, Running
    <3>3. ~elem_find(ready, t)
      BY <1>0, <3>2 DEF SchedIInv, OneListPerThread
    <3>4. schedule(ready, s, "schedule") /\ UNCHANGED <<want, value, waiters>>
      BY <2>5, <3>1, <3>2, <3>3 DEF thread_exit, lock
    <3>5. /\ s \in [Threads -> task_status] /\ s[cur] = "DIED"
          /\ \A u \in Threads : u # cur => s[u] = status[u] /\ pc'[u] = pc[u]
          /\ pc'[Idle] # "retest"
      BY <1>0, <3>1, <3>2 DEF task_status, IdlePlaces
    <3> QED
      BY <3>2, <3>4, <3>5, LeaveCpu
  <2> QED
    BY <1>1, <2>1, <2>2, <2>3, <2>4, <2>5, QuietKeeps DEF LockStep
<1>2. CASE idle_block
  <2>1. PICK s : s = [status EXCEPT ![cur] = "BLOCKED"]
    OBVIOUS
  <2>2. schedule(ready, s, "schedule") /\ UNCHANGED <<want, value, waiters>>
    BY <1>2, <2>1 DEF idle_block, thread_block, lock
  <2>3. cur = Idle /\ pc[cur] = "loop" /\ pc' = [pc EXCEPT ![Idle] = "blocked"]
    BY <1>2 DEF idle_block, Running, Goto
  <2>4. /\ s \in [Threads -> task_status] /\ s[cur] = "BLOCKED"
        /\ \A u \in Threads : u # cur => s[u] = status[u] /\ pc'[u] = pc[u]
        /\ cur \notin Workers /\ pc'[Idle] # "retest"
    BY <1>0, <2>1, <2>3 DEF task_status
  <2> QED
    BY <2>2, <2>3, <2>4, LeaveCpu
<1>3. CASE idle_wake \/ idle_hlt
  <2>1. /\ cur = Idle /\ pc[cur] # "retest"
        /\ UNCHANGED <<cur, status, ticks, ready, waiters, panic, want, value>>
        /\ \A u \in Threads : u # cur => pc'[u] = pc[u]
    BY <1>0, <1>3 DEF idle_wake, idle_hlt, Running, Goto, sched, lock
  <2>2. OnlyYieldPanics'
    BY <2>1 DEF SchedIInv, OnlyYieldPanics
  <2> QED
    BY <2>1, <2>2, QuietStep
<1>4. CASE intr_timer_handler
  <2>1. /\ pc[cur] # "retest" /\ AfterHlt
        /\ UNCHANGED <<want, value, waiters>>
    BY <1>4 DEF intr_timer_handler, InterruptsOn, lock
  <2>2. /\ \A u \in Threads : u # cur => pc'[u] = pc[u]
        /\ pc'[Idle] # "retest"
    BY <2>1, AfterHltMoves
  <2>3. CASE ticks[cur] = 0
    <3>1. schedule(ready, status, "schedule")
      BY <1>4, <2>3 DEF intr_timer_handler
    <3> QED
      BY <1>0, <2>1, <2>2, <3>1, LeaveCpu
  <2>4. CASE ticks[cur] # 0
    <3>1. /\ ticks' = [ticks EXCEPT ![cur] = @ - 1]
          /\ UNCHANGED <<cur, status, ready, panic>>
      BY <1>4, <2>4 DEF intr_timer_handler
    <3>2. ticks \in [Threads -> Nat] /\ \A t \in Threads : ticks[t] <= Priority[t]
      BY DEF SchedIInv, SchedType
    <3>3. ticks' \in [Threads -> Nat] /\ \A t \in Threads : ticks'[t] <= ticks[t]
      BY <1>0, <2>4, <3>1, <3>2
    <3>4. \A t \in Threads : ticks'[t] <= Priority[t]
      BY <3>2, <3>3, PriorityAssumption
    <3>5. SchedType' /\ OnlyYieldPanics'
      BY <2>1, <3>1, <3>3, <3>4 DEF SchedIInv, SchedType, OnlyYieldPanics
    <3>6. \A u \in Workers : pc'[u] = pc[u]
      BY <1>0, <2>1, AfterHltMoves
    <3>7. OffReady'
      BY <1>0, <2>2, <3>1, <3>6 DEF SchedIInv, OffReady
    <3>8. OneListPerThread'
      BY <1>0, <2>1, <2>2, <3>1 DEF SchedIInv, OneListPerThread
    <3>9. NoLostWakeup'
      BY <2>1, <3>1, <3>6 DEF SchedIInv, NoLostWakeup, Woken
    <3> QED
      BY <3>5, <3>7, <3>8, <3>9 DEF SchedIInv
  <2> QED
    BY <2>3, <2>4
<1>5. ASSUME NEW t \in Workers, intr_device_handler(t) PROVE SchedIInv'
  BY <1>5, DeviceKeeps
<1>6. CASE panic_spin \/ UNCHANGED vars
  <2> UNCHANGED vars
    BY <1>6 DEF panic_spin
  <2> USE DEF vars, SchedIInv
  <2>1. SchedType' /\ OffReady' /\ OnlyYieldPanics'
    BY DEF SchedType, OffReady, OnlyYieldPanics
  <2>2. OneListPerThread'
    BY DEF OneListPerThread
  <2>3. NoLostWakeup'
    BY DEF NoLostWakeup, Woken
  <2> QED
    BY <2>1, <2>2, <2>3
<1> QED
  BY <1>1, <1>2, <1>3, <1>4, <1>5, <1>6 DEF Next

(***************************************************************************)
(* The inductive invariant of the whole module.                            *)
(***************************************************************************)
IInv == LockIInv /\ SchedIInv

LEMMA Inductive == Spec => []IInv
<1>1. Init => IInv
  BY LockInit, SchedInit DEF IInv
<1>2. IInv /\ [Next]_vars => IInv'
  <2> SUFFICES ASSUME IInv, [Next]_vars PROVE IInv'
    OBVIOUS
  <2>1. cur \in Threads
    BY DEF IInv, SchedIInv, SchedType
  <2> QED
    BY <2>1, LockNext, SchedNext DEF IInv
<1> QED
  BY <1>1, <1>2, PTL DEF Spec

(***************************************************************************)
(* Type correctness: statuses, lists, counters and the time slice stay in  *)
(* their ranges; in particular ticks-- in intr_timer_handler never wraps   *)
(* below 0 and holder_repeat_nr never exceeds the depth of recursion.      *)
(***************************************************************************)
THEOREM TypeCorrect == Spec => []TypeOK
<1>1. IInv => TypeOK
  BY DEF IInv, LockIInv, LockType, SchedIInv, SchedType, OnlyYieldPanics, TypeOK
<1> QED
  BY <1>1, Inductive, PTL

(***************************************************************************)
(* At most one thread is between the end of sema_down and sema_up of a     *)
(* lock, and the semaphore is 0 exactly then.                              *)
(***************************************************************************)
THEOREM MutualExclusionHolds == Spec => []MutualExclusion
<1>1. IInv => MutualExclusion
  BY DEF IInv, LockIInv
<1> QED
  BY <1>1, Inductive, PTL

(***************************************************************************)
(* The holder field, which lock_acquire reads with interrupts on, names    *)
(* nobody but the owner of the semaphore.                                  *)
(***************************************************************************)
THEOREM HolderIsOwnerHolds == Spec => []HolderIsOwner
<1>1. IInv => HolderIsOwner
  BY DEF IInv, LockIInv
<1> QED
  BY <1>1, Inductive, PTL

(***************************************************************************)
(* A thread's general_tag is in the ready list exactly when it is READY,   *)
(* in a semaphore's queue exactly when it is blocked there, never twice.   *)
(***************************************************************************)
THEOREM OneListPerThreadHolds == Spec => []OneListPerThread
<1>1. IInv => OneListPerThread
  BY DEF IInv, SchedIInv
<1> QED
  BY <1>1, Inductive, PTL

(***************************************************************************)
(* sema_up wakes one waiter per release, and that is enough: a free        *)
(* semaphore with waiters has a thread on its way to take it.              *)
(***************************************************************************)
THEOREM NoLostWakeupHolds == Spec => []NoLostWakeup
<1>1. IInv => NoLostWakeup
  BY DEF IInv, SchedIInv
<1> QED
  BY <1>1, Inductive, PTL

(***************************************************************************)
(* The ASSERTs of schedule, thread_unblock, sema_down, sema_up,            *)
(* lock_acquire and lock_release never fail on their own account: a kernel *)
(* that stopped was stopped by a call of thread_yield.                     *)
(***************************************************************************)
THEOREM OnlyYieldPanicsHolds == Spec => []OnlyYieldPanics
<1>1. IInv => OnlyYieldPanics
  BY DEF IInv, SchedIInv
<1> QED
  BY <1>1, Inductive, PTL

(***************************************************************************)
(* Only schedule() with a RUNNING caller makes the running thread READY,   *)
(* and thread_unblock() makes only BLOCKED threads READY.                  *)
(***************************************************************************)
LEMMA WhoLosesCpu ==
  ASSUME IInv, NEW t \in Threads, status[t] = "RUNNING"
  PROVE  /\ t = cur
         /\ \A s : /\ schedule(ready, s, "schedule")
                   /\ s[t] # "RUNNING" /\ s[t] # "READY"
                   => status'[t] # "READY"
         /\ \A p : thread_unblock(p) => status'[t] # "READY"
<1>1. t = cur /\ status \in [Threads -> task_status]
  BY DEF IInv, SchedIInv, OffReady, SchedType
<1>2. ASSUME NEW s, schedule(ready, s, "schedule"),
             s[t] # "RUNNING", s[t] # "READY"
      PROVE  status'[t] # "READY"
  BY <1>1, <1>2 DEF schedule, sched
<1>3. ASSUME NEW p, thread_unblock(p) PROVE status'[t] # "READY"
  BY <1>1, <1>3 DEF thread_unblock
<1> QED
  BY <1>1, <1>2, <1>3

(***************************************************************************)
(* Round robin: the timer takes the CPU from a thread that could go on     *)
(* only when its slice is used up, and schedule() refills the slice.       *)
(***************************************************************************)
THEOREM FullSliceHolds == Spec => FullSlice
<1> DEFINE P == \A t \in Threads :
                   status[t] = "RUNNING" /\ status'[t] = "READY"
                      => ticks[t] = 0 /\ ticks'[t] = Priority[t]
<1>1. ASSUME IInv, [Next]_vars PROVE P
  <2> SUFFICES ASSUME NEW t \in Threads, status[t] = "RUNNING",
                      status'[t] = "READY"
               PROVE  ticks[t] = 0 /\ ticks'[t] = Priority[t]
    BY DEF P
  <2>0. /\ t = cur /\ status \in [Threads -> task_status]
        /\ ticks \in [Threads -> Nat]
    BY <1>1 DEF IInv, SchedIInv, OffReady, SchedType
  <2>1. ~thread_block
    <3> SUFFICES ASSUME thread_block PROVE FALSE
      OBVIOUS
    <3>1. PICK s : s = [status EXCEPT ![cur] = "BLOCKED"]
      OBVIOUS
    <3>2. schedule(ready, s, "schedule") /\ s[t] = "BLOCKED"
      BY <2>0, <3>1 DEF thread_block
    <3> QED
      BY <1>1, <3>2, WhoLosesCpu
  <2>2. ASSUME NEW u \in Workers, LockStep(u) PROVE FALSE
    <3>1. CASE sema_down_wait(u) \/ BlockForDevice(u)
      <4>1. UNCHANGED status \/ thread_block
        BY <3>1 DEF sema_down_wait, BlockForDevice, sched
      <4>2. thread_block
        BY <4>1
      <4> QED
        BY <4>2, <2>1
    <3>2. CASE thread_exit(u)
      <4>1. u = cur /\ ~elem_find(ready, u)
        BY <1>1, <2>0, <3>2
        DEF thread_exit, Running, IInv, SchedIInv, OneListPerThread
      <4>2. schedule(ready, [status EXCEPT ![u] = "DIED"], "schedule")
        BY <3>2, <4>1 DEF thread_exit
      <4>3. PICK s : s = [status EXCEPT ![u] = "DIED"]
        OBVIOUS
      <4>4. schedule(ready, s, "schedule") /\ s[t] = "DIED"
        BY <2>0, <4>1, <4>2, <4>3
      <4> QED
        BY <1>1, <4>4, WhoLosesCpu
    <3>3. CASE sema_up(u)
      <4>1. UNCHANGED status \/ thread_unblock(Head(waiters[want[u]]))
        BY <3>3 DEF sema_up, sched
      <4> QED
        BY <1>1, <4>1, WhoLosesCpu
    <3>4. CASE thread_yield(u)
      <4>1. elem_find(ready, u) \/ ~ScheduleAsserts(list_append(ready, u), status)
        <5>1. u = cur /\ u \in Threads /\ ready \in Seq(Threads)
          BY <1>1, <3>4 DEF thread_yield, Running, IInv, SchedIInv, SchedType,
                            Threads
        <5>2. elem_find(list_append(ready, u), u)
          BY <5>1, AppendList
        <5> QED
          BY <2>0, <5>1, <5>2 DEF ScheduleAsserts
      <4> QED
        BY <3>4, <4>1 DEF thread_yield, schedule, sched
    <3> QED
      BY <2>2, <3>1, <3>2, <3>3, <3>4
      DEF LockStep, CallAcquire, CallReacquire, lock_acquire, sema_down_take,
          lock_acquire_holder, lock_acquire_repeat, lock_release_inner,
          lock_release, lock_release_holder, ResumeFromDevice, sched
  <2>3. CASE idle_block
    BY <2>3, <2>1 DEF idle_block
  <2>4. CASE intr_timer_handler
    <3>1. ticks[cur] = 0 /\ schedule(ready, status, "schedule")
      BY <2>4 DEF intr_timer_handler
    <3> QED
      BY <2>0, <3>1 DEF schedule, sched
  <2>5. ASSUME NEW u \in Workers, intr_device_handler(u) PROVE FALSE
    BY <1>1, <2>5, WhoLosesCpu DEF intr_device_handler
  <2>6. CASE idle_wake \/ idle_hlt \/ panic_spin \/ UNCHANGED vars
    BY <2>6 DEF idle_wake, idle_hlt, panic_spin, vars, sched
  <2> QED
    BY <1>1, <2>2, <2>3, <2>4, <2>5, <2>6 DEF Next
<1> QED
  BY <1>1, Inductive, PTL DEF Spec, FullSlice

(***************************************************************************)
(* The lock implements RecursiveLock.  What the abstract state is, by the  *)
(* thread that owns the semaphore.                                         *)
(***************************************************************************)
DepthOf(t, l) == IF pc[t] \in {"sethold", "setrep", "clearhold", "up"}
                 THEN 1 ELSE repeat[l]

OwnerIs(l) ==
    /\ \A t \in Workers : Owns(t, l) => Owner(l) = t /\ Depth(l) = DepthOf(t, l)
    /\ (\A t \in Workers : ~Owns(t, l)) => Owner(l) = NoThread /\ Depth(l) = 0

LEMMA AbstractState ==
  ASSUME MutualExclusion, NEW l \in Locks
  PROVE  OwnerIs(l)
<1>1. ASSUME NEW t \in Workers, Owns(t, l)
      PROVE  Owner(l) = t /\ Depth(l) = DepthOf(t, l)
  <2>1. \A u \in Workers : Owns(u, l) => u = t
    BY <1>1 DEF MutualExclusion
  <2>2. Owner(l) = t
    BY <1>1, <2>1, Zenon DEF Owner
  <2>3. t # NoThread
    BY ThreadsAssumption DEF Threads
  <2> QED
    BY <2>2, <2>3 DEF Depth, DepthOf
<1>2. ASSUME \A t \in Workers : ~Owns(t, l)
      PROVE  Owner(l) = NoThread /\ Depth(l) = 0
  BY <1>2, Zenon DEF Owner, Depth
<1> QED
  BY <1>1, <1>2 DEF OwnerIs

LEMMA AbstractStateNext ==
  ASSUME MutualExclusion', NEW l \in Locks
  PROVE  OwnerIs(l)'
<1>1. ASSUME NEW t \in Workers, Owns(t, l)'
      PROVE  Owner(l)' = t /\ Depth(l)' = DepthOf(t, l)'
  <2>1. \A u \in Workers : Owns(u, l)' => u = t
    BY <1>1 DEF MutualExclusion
  <2>2. Owner(l)' = t
    BY <1>1, <2>1, Zenon DEF Owner
  <2>3. t # NoThread
    BY ThreadsAssumption DEF Threads
  <2> QED
    BY <2>2, <2>3 DEF Depth, DepthOf
<1>2. ASSUME \A t \in Workers : ~Owns(t, l)'
      PROVE  Owner(l)' = NoThread /\ Depth(l)' = 0
  BY <1>2, Zenon DEF Owner, Depth
<1> QED
  BY <1>1, <1>2 DEF OwnerIs

(***************************************************************************)
(* A step that changes neither who owns l nor how deep leaves l alone.     *)
(***************************************************************************)
SameOwner(l) ==
    \A u \in Workers : /\ Owns(u, l)' <=> Owns(u, l)
                       /\ Owns(u, l) => DepthOf(u, l)' = DepthOf(u, l)

LEMMA SameOwnerSameState ==
  ASSUME NEW l \in Locks, OwnerIs(l), OwnerIs(l)', SameOwner(l)
  PROVE  Owner(l)' = Owner(l) /\ Depth(l)' = Depth(l)
<1>1. CASE \E u \in Workers : Owns(u, l)
  BY <1>1 DEF OwnerIs, SameOwner
<1>2. CASE ~(\E u \in Workers : Owns(u, l))
  BY <1>2 DEF OwnerIs, SameOwner
<1> QED
  BY <1>1, <1>2

(***************************************************************************)
(* What a step of t does to the lock it is in: it takes it, enters it      *)
(* again, leaves an inner level, gives it back, or does none of these.     *)
(***************************************************************************)
Takes(t, l)    == /\ \A u \in Workers : ~Owns(u, l)
                  /\ Owns(t, l)' /\ DepthOf(t, l)' = 1
Reenters(t, l) == /\ Owns(t, l) /\ Owns(t, l)'
                  /\ DepthOf(t, l)' = DepthOf(t, l) + 1
Leaves(t, l)   == /\ Owns(t, l) /\ Owns(t, l)' /\ DepthOf(t, l) > 1
                  /\ DepthOf(t, l)' = DepthOf(t, l) - 1
Gives(t, l)    == /\ Owns(t, l) /\ DepthOf(t, l) = 1
                  /\ \A u \in Workers : ~Owns(u, l)'

LEMMA LockStepEffect ==
  ASSUME LockIInv, NEW t \in Workers, LockStep(t)
  PROVE  \/ \A l \in Locks : SameOwner(l)
         \/ \E l \in Locks :
               /\ \/ Takes(t, l) \/ Reenters(t, l)
                  \/ Leaves(t, l) \/ Gives(t, l)
               /\ \A k \in Locks \ {l} : SameOwner(k)
<1> USE ThreadsAssumption
<1> USE DEF LockIInv, LockType, PlacesOK, MutualExclusion, HolderIsOwner,
            RepeatCounts, Owns, OwnerPlaces, DepthOf, LockPlaces,
            Threads, Workers, Running, Goto
<1> DEFINE Effect == \/ \A l \in Locks : SameOwner(l)
                     \/ \E l \in Locks :
                           /\ \/ Takes(t, l) \/ Reenters(t, l)
                              \/ Leaves(t, l) \/ Gives(t, l)
                           /\ \A k \in Locks \ {l} : SameOwner(k)
<1>1. ASSUME NEW l \in Locks, CallAcquire(t, l) PROVE Effect
  BY <1>1 DEF CallAcquire, lock, SameOwner
<1>2. CASE CallReacquire(t)
  BY <1>2 DEF CallReacquire, lock, SameOwner
<1>3. CASE lock_acquire(t)
  <2>1. CASE pc[t] = "acquire"
    <3>1. holder[want[t]] # t
      BY <2>1
    <3> QED
      BY <1>3, <2>1, <3>1 DEF lock_acquire, SameOwner
  <2>2. CASE pc[t] = "reacquire"
    <3>1. PICK l \in Locks : l = want[t] /\ Owns(t, l) /\ holder[l] = t
      BY <2>2
    <3>2. /\ pc' = [pc EXCEPT ![t] = "cs"]
          /\ repeat' = [repeat EXCEPT ![l] = repeat[l] + 1]
          /\ UNCHANGED want
      BY <1>3, <3>1 DEF lock_acquire
    <3>3. Reenters(t, l)
      BY <2>2, <3>1, <3>2 DEF Reenters
    <3>4. \A k \in Locks \ {l} : SameOwner(k)
      BY <2>2, <3>1, <3>2 DEF SameOwner
    <3> QED
      BY <3>3, <3>4
  <2> QED
    BY <1>3, <2>1, <2>2 DEF lock_acquire
<1>4. CASE sema_down_wait(t)
  BY <1>4 DEF sema_down_wait, SameOwner
<1>5. CASE sema_down_take(t)
  <2>1. PICK l \in Locks :
        /\ l = want[t] /\ pc[t] \in {"down", "retest"}
        /\ pc' = [pc EXCEPT ![t] = "sethold"] /\ UNCHANGED <<want, repeat>>
        /\ value[l] # 0
    BY <1>5 DEF sema_down_take
  <2>2. Takes(t, l)
    BY <2>1 DEF Takes
  <2>3. \A k \in Locks \ {l} : SameOwner(k)
    BY <2>1 DEF SameOwner
  <2> QED
    BY <2>2, <2>3
<1>6. CASE lock_acquire_holder(t)
  BY <1>6 DEF lock_acquire_holder, SameOwner
<1>7. CASE lock_acquire_repeat(t)
  BY <1>7 DEF lock_acquire_repeat, SameOwner
<1>8. CASE lock_release_inner(t)
  <2>1. PICK l \in Locks :
        /\ l = want[t] /\ pc[t] = "cs" /\ repeat[l] > 1
        /\ repeat' = [repeat EXCEPT ![l] = repeat[l] - 1]
        /\ UNCHANGED <<pc, want>>
    BY <1>8 DEF lock_release_inner
  <2>2. Leaves(t, l)
    BY <2>1 DEF Leaves
  <2>3. \A k \in Locks \ {l} : SameOwner(k)
    BY <2>1 DEF SameOwner
  <2> QED
    BY <2>2, <2>3
<1>9. CASE lock_release(t)
  BY <1>9 DEF lock_release, SameOwner
<1>10. CASE lock_release_holder(t)
  BY <1>10 DEF lock_release_holder, SameOwner
<1>11. CASE sema_up(t)
  <2>1. PICK l \in Locks :
        /\ l = want[t] /\ pc[t] = "up"
        /\ pc' = [pc EXCEPT ![t] = "run"] /\ UNCHANGED repeat
        /\ want' = [want EXCEPT ![t] = NoLock]
    BY <1>11 DEF sema_up
  <2>2. Gives(t, l)
    BY <2>1 DEF Gives
  <2>3. \A k \in Locks \ {l} : SameOwner(k)
    BY <2>1 DEF SameOwner
  <2> QED
    BY <2>2, <2>3
<1>12. CASE BlockForDevice(t)
  BY <1>12 DEF BlockForDevice, lock, SameOwner
<1>13. CASE ResumeFromDevice(t)
  BY <1>13 DEF ResumeFromDevice, lock, SameOwner
<1>14. CASE thread_yield(t) \/ thread_exit(t)
  BY <1>14 DEF thread_yield, thread_exit, lock, SameOwner
<1> QED
  BY <1>1, <1>2, <1>3, <1>4, <1>5, <1>6, <1>7, <1>8, <1>9, <1>10, <1>11,
     <1>12, <1>13, <1>14 DEF LockStep

(***************************************************************************)
(* Every other step leaves all locks alone.                                *)
(***************************************************************************)
LEMMA OtherStepEffect ==
  ASSUME LockIInv, cur \in Threads, NEW l \in Locks,
         \/ idle_block \/ idle_wake \/ idle_hlt \/ intr_timer_handler
         \/ \E t \in Workers : intr_device_handler(t)
         \/ panic_spin \/ UNCHANGED vars
  PROVE  SameOwner(l)
<1>1. /\ UNCHANGED <<want, value, holder, repeat>>
      /\ \/ UNCHANGED pc
         \/ \E place \in IdlePlaces : pc' = [pc EXCEPT ![Idle] = place]
  <2>1. pc[cur] = "hlt" => cur = Idle
    BY ThreadsAssumption DEF LockIInv, PlacesOK, Threads, LockPlaces
  <2> QED
    BY <2>1 DEF idle_block, idle_wake, idle_hlt, intr_timer_handler,
       intr_device_handler, AfterHlt, panic_spin, vars, Goto, lock, IdlePlaces
<1>2. \A t \in Workers : pc'[t] = pc[t]
  BY <1>1, ThreadsAssumption DEF LockIInv, LockType, Threads, Workers
<1> QED
  BY <1>1, <1>2 DEF SameOwner, Owns, DepthOf

(***************************************************************************)
(* lock_acquire and lock_release of sync.c, with their semaphore and their *)
(* unprotected fields, implement the recursive lock.                       *)
(***************************************************************************)
THEOREM ImplementsLockHolds == Spec => ImplementsLock
<1> DEFINE ow == [l \in Locks |-> Owner(l)]
           dp == [l \in Locks |-> Depth(l)]
<1>1. Init => RL!Init
  <2> SUFFICES ASSUME Init PROVE RL!Init
    OBVIOUS
  <2>1. LockIInv /\ \A t \in Workers, l \in Locks : ~Owns(t, l)
    BY LockInit, ThreadsAssumption
    DEF Init, thread_init, Owns, OwnerPlaces, Threads
  <2>2. \A l \in Locks : Owner(l) = NoThread /\ Depth(l) = 0
    BY <2>1, AbstractState DEF OwnerIs, LockIInv
  <2> QED
    BY <2>2 DEF RL!Init
<1>2. ASSUME IInv, IInv', [Next]_vars PROVE [RL!Next]_<<ow, dp>>
  <2>1. /\ LockIInv /\ cur \in Threads
        /\ \A l \in Locks : OwnerIs(l) /\ OwnerIs(l)'
    BY <1>2, AbstractState, AbstractStateNext DEF IInv, LockIInv, SchedIInv, SchedType
  <2>2. \A l \in Locks : SameOwner(l)
           => Owner(l)' = Owner(l) /\ Depth(l)' = Depth(l)
    BY <2>1, SameOwnerSameState
  <2>3. ASSUME \A l \in Locks : SameOwner(l) PROVE UNCHANGED <<ow, dp>>
    BY <2>2, <2>3
  <2>4. ASSUME NEW t \in Workers, NEW l \in Locks,
               \/ Takes(t, l) \/ Reenters(t, l) \/ Leaves(t, l) \/ Gives(t, l),
               \A k \in Locks \ {l} : SameOwner(k)
        PROVE  RL!Next
    <3>1. \A k \in Locks \ {l} : Owner(k)' = Owner(k) /\ Depth(k)' = Depth(k)
      BY <2>2, <2>4
    <3>2. /\ ow' = [ow EXCEPT ![l] = Owner(l)']
          /\ dp' = [dp EXCEPT ![l] = Depth(l)']
      BY <3>1
    <3>3. t # NoThread
      BY ThreadsAssumption DEF Threads
    <3>4. OwnerIs(l) /\ OwnerIs(l)'
      BY <2>1
    <3>5. CASE Takes(t, l)
      <4>1. Owner(l) = NoThread /\ Owner(l)' = t /\ Depth(l)' = 1
        BY <3>4, <3>5 DEF Takes, OwnerIs
      <4>2. RL!Acquire(t, l)
        BY <3>2, <4>1 DEF RL!Acquire
      <4> QED
        BY <4>2 DEF RL!Next
    <3>6. CASE Reenters(t, l)
      <4>1. Owner(l) = t /\ Owner(l)' = t /\ Depth(l)' = Depth(l) + 1
        BY <3>4, <3>6 DEF Reenters, OwnerIs
      <4>2. ow' = ow
        BY <3>1, <4>1
      <4>3. RL!Reenter(t, l)
        BY <3>2, <4>1, <4>2 DEF RL!Reenter
      <4> QED
        BY <4>3 DEF RL!Next
    <3>7. CASE Leaves(t, l)
      <4>1. Owner(l) = t /\ Owner(l)' = t /\ Depth(l) > 1 /\ Depth(l)' = Depth(l) - 1
        BY <3>4, <3>7 DEF Leaves, OwnerIs
      <4>2. ow' = ow
        BY <3>1, <4>1
      <4>3. RL!Leave(t, l)
        BY <3>2, <4>1, <4>2 DEF RL!Leave
      <4> QED
        BY <4>3 DEF RL!Next
    <3>8. CASE Gives(t, l)
      <4>1. Owner(l) = t /\ Owner(l)' = NoThread /\ Depth(l) = 1 /\ Depth(l)' = 0
        BY <3>4, <3>8 DEF Gives, OwnerIs
      <4>2. RL!Release(t, l)
        BY <3>2, <4>1 DEF RL!Release
      <4> QED
        BY <4>2 DEF RL!Next
    <3> QED
      BY <2>4, <3>5, <3>6, <3>7, <3>8
  <2>5. ASSUME NEW t \in Workers, LockStep(t) PROVE [RL!Next]_<<ow, dp>>
    BY <2>1, <2>3, <2>4, <2>5, LockStepEffect
  <2>6. ASSUME \/ idle_block \/ idle_wake \/ idle_hlt \/ intr_timer_handler
               \/ \E t \in Workers : intr_device_handler(t)
               \/ panic_spin \/ UNCHANGED vars
        PROVE  UNCHANGED <<ow, dp>>
    BY <2>1, <2>3, <2>6, OtherStepEffect
  <2> QED
    BY <1>2, <2>5, <2>6 DEF Next
<1> QED
  BY <1>1, <1>2, Inductive, PTL DEF Spec, ImplementsLock, RL!Spec
=============================================================================
