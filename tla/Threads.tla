------------------------------ MODULE Threads ------------------------------
(***************************************************************************)
(* The scheduler (thread/thread.c), the sleeping lock (thread/sync.c) and  *)
(* the interrupts that drive them (device/timer.c) on the one CPU of       *)
(* guatOS.                                                                 *)
(*                                                                         *)
(* A step is what runs without an interrupt being able to come in between. *)
(* Kernel threads (main, and init until it enters user mode) run with      *)
(* IF = 1, so the timer can preempt them between any two statements of     *)
(* lock_acquire and lock_release that are not under intr_disable().  A     *)
(* user thread takes a lock inside a system call, which enters through an  *)
(* interrupt gate: IF stays 0 until it returns, and it loses the CPU only  *)
(* where the call blocks.                                                  *)
(*                                                                         *)
(* A failed ASSERT calls panic_spin, which disables interrupts and loops   *)
(* for ever: panic names the assertion and nothing moves after it.         *)
(***************************************************************************)
EXTENDS Naturals, Sequences

CONSTANTS
    KThreads,       \* threads whose kernel code runs with IF = 1
    UThreads,       \* threads that enter the kernel by system calls
    Main,           \* main_thread, running when interrupts are first enabled
    Idle,           \* idle_thread
    NoThread,       \* the NULL task_struct pointer
    Locks,          \* struct lock objects: memory pools, channel, console, pid
    NoLock,         \* the thread is in no lock call
    Uses,           \* Uses[t], the locks that the code of t takes
    Priority,       \* priority[t], the length of a time slice
    BootOrder,      \* thread_ready_list when interrupts are first enabled
    MaxRepeat,      \* bound: deepest recursive acquisition explored
    Sleepers,       \* threads that wait for a device while they hold a lock
    Yielders        \* threads that call mtime_sleep, hence thread_yield

Workers == KThreads \cup UThreads
Threads == Workers \cup {Idle}

ASSUME ThreadsAssumption ==
    /\ Main \in KThreads
    /\ KThreads \cap UThreads = {}
    /\ Idle \notin Workers
    /\ NoThread \notin Threads
    /\ NoLock \notin Locks
    /\ Sleepers \subseteq Workers
    /\ Yielders \subseteq Workers
    /\ MaxRepeat \in Nat \ {0}

ASSUME UsesAssumption == Uses \in [Workers -> SUBSET Locks]

ASSUME PriorityAssumption == Priority \in [Threads -> Nat]

\* thread_init queues init and idle, fork the others; main is running.
ASSUME BootAssumption ==
    /\ BootOrder \in Seq(Threads)
    /\ \A t \in Threads :
          (t # Main) <=> \E i \in 1..Len(BootOrder) : BootOrder[i] = t
    /\ \A i, j \in 1..Len(BootOrder) : BootOrder[i] = BootOrder[j] => i = j

VARIABLES
    cur,        \* running_thread()
    status,     \* task_struct.status
    ticks,      \* task_struct.ticks, what is left of the time slice
    ready,      \* thread_ready_list
    pc,         \* where each thread is
    want,       \* the lock a thread is acquiring, holding or releasing
    value,      \* lock.semaphore.value
    waiters,    \* lock.semaphore.waiters
    holder,     \* lock.holder
    repeat,     \* lock.holder_repeat_nr
    panic       \* the ASSERT that failed, "none" while the kernel is alive

sched == <<cur, status, ticks, ready>>
lock  == <<value, waiters, holder, repeat>>
vars  == <<cur, status, ticks, ready, pc, want, value, waiters, holder,
           repeat, panic>>

task_status == {"RUNNING", "READY", "BLOCKED", "DIED"}

\* Places inside lock_acquire .. lock_release, then those of idle().
LockPlaces == {"acquire", "reacquire", "down", "retest", "sethold", "setrep",
               "cs", "asleep", "clearhold", "up"}
IdlePlaces == {"loop", "blocked", "on", "hlt"}

(***************************************************************************)
(* lib/list.c: a list is a sequence of the threads whose tag it links.     *)
(***************************************************************************)
elem_find(list, t)   == \E i \in 1..Len(list) : list[i] = t
list_append(list, t) == Append(list, t)
list_push(list, t)   == <<t>> \o list
list_remove(list, t) == SelectSeq(list, LAMBDA e : e # t)

lock_init ==
    /\ value   = [l \in Locks |-> 1]
    /\ waiters = [l \in Locks |-> << >>]
    /\ holder  = [l \in Locks |-> NoThread]
    /\ repeat  = [l \in Locks |-> 0]

thread_init ==
    /\ cur    = Main
    /\ status = [t \in Threads |-> IF t = Main THEN "RUNNING" ELSE "READY"]
    /\ ticks  = Priority
    /\ ready  = BootOrder
    /\ pc     = [t \in Threads |-> IF t = Idle THEN "loop" ELSE "run"]
    /\ want   = [t \in Threads |-> NoLock]

Init == thread_init /\ lock_init /\ panic = "none"

(***************************************************************************)
(* IF: off after intr_disable() inside sema_down and thread_block (a       *)
(* thread that comes back from schedule() there still has it off), and off *)
(* throughout a system call.                                               *)
(***************************************************************************)
InterruptsOn ==
    /\ pc[cur] \notin {"retest", "asleep", "blocked"}
    /\ cur \in UThreads => pc[cur] = "run"

\* The kernel has not panicked and t has the CPU at the given place.
Running(t, place) == panic = "none" /\ cur = t /\ pc[t] = place

Goto(t, place) == pc' = [pc EXCEPT ![t] = place]

(***************************************************************************)
(* schedule(), entered with ready list r and statuses s.  A thread that is *)
(* still RUNNING goes to the back with a full slice; when nobody is ready  *)
(* idle is unblocked.                                                      *)
(***************************************************************************)
Requeued(r, s)   == IF s[cur] = "RUNNING" THEN list_append(r, cur) ELSE r
Dequeueable(r)   == IF r = << >> THEN list_push(r, Idle) ELSE r
NextThread(r, s) == Head(Dequeueable(Requeued(r, s)))

ScheduleAsserts(r, s) ==
    /\ s[cur] = "RUNNING" => ~elem_find(r, cur)
    /\ Requeued(r, s) = << >> => s[Idle] = "BLOCKED"

\* Variant: a thread that blocks gets a full slice as well.
schedule_refills(r, s, caller) ==
    IF ScheduleAsserts(r, s)
    THEN LET next == NextThread(r, s)
         IN  /\ cur'    = next
             /\ status' = [t \in Threads |->
                              IF t = next THEN "RUNNING"
                              ELSE IF t = cur /\ s[t] = "RUNNING" THEN "READY"
                              ELSE s[t]]
             /\ ticks'  = [ticks EXCEPT ![cur] = Priority[cur]]
             /\ ready'  = Tail(Dequeueable(Requeued(r, s)))
             /\ UNCHANGED panic
    ELSE panic' = caller /\ UNCHANGED sched

schedule(r, s, caller) ==
    IF ScheduleAsserts(r, s)
    THEN LET next == NextThread(r, s)
         IN  /\ cur'    = next
             /\ status' = [t \in Threads |->
                              IF t = next THEN "RUNNING"
                              ELSE IF t = cur /\ s[t] = "RUNNING" THEN "READY"
                              ELSE s[t]]
             /\ ticks'  = IF s[cur] = "RUNNING"
                          THEN [ticks EXCEPT ![cur] = Priority[cur]]
                          ELSE ticks
             /\ ready'  = Tail(Dequeueable(Requeued(r, s)))
             /\ UNCHANGED panic
    ELSE panic' = caller /\ UNCHANGED sched

\* thread_block(TASK_BLOCKED) by the running thread.
thread_block == schedule(ready, [status EXCEPT ![cur] = "BLOCKED"], "schedule")

\* thread_unblock(p): the woken thread goes to the FRONT of the ready list.
thread_unblock(p) ==
    /\ IF status[p] = "BLOCKED" /\ ~elem_find(ready, p)
       THEN /\ ready'  = list_push(ready, p)
            /\ status' = [status EXCEPT ![p] = "READY"]
            /\ UNCHANGED panic
       ELSE panic' = "thread_unblock" /\ UNCHANGED <<ready, status>>
    /\ UNCHANGED <<cur, ticks>>

(***************************************************************************)
(* lock_acquire, sema_down                                                 *)
(***************************************************************************)
\* A thread calls lock_acquire(l) (for a user thread: inside a system call).
CallAcquire(t, l) ==
    /\ Running(t, "run")
    /\ t \in Workers /\ l \in Uses[t]
    /\ Goto(t, "acquire")
    /\ want' = [want EXCEPT ![t] = l]
    /\ UNCHANGED <<sched, lock, panic>>

\* The holder calls lock_acquire again, which holder_repeat_nr is there for.
CallReacquire(t) ==
    /\ Running(t, "cs")
    /\ repeat[want[t]] < MaxRepeat
    /\ Goto(t, "reacquire")
    /\ UNCHANGED <<sched, want, lock, panic>>

\* Variant: a lock without a holder is taken without its semaphore.
lock_acquire_fast(t) ==
    /\ Running(t, "acquire") \/ Running(t, "reacquire")
    /\ IF holder[want[t]] # t
       THEN /\ Goto(t, IF holder[want[t]] = NoThread THEN "sethold" ELSE "down")
            /\ UNCHANGED repeat
       ELSE Goto(t, "cs") /\ repeat' = [repeat EXCEPT ![want[t]] = @ + 1]
    /\ UNCHANGED <<sched, want, value, waiters, holder, panic>>

\* if (plock->holder != running_thread()) ... else holder_repeat_nr++
lock_acquire(t) ==
    /\ Running(t, "acquire") \/ Running(t, "reacquire")
    /\ IF holder[want[t]] # t
       THEN Goto(t, "down") /\ UNCHANGED repeat
       ELSE Goto(t, "cs") /\ repeat' = [repeat EXCEPT ![want[t]] = @ + 1]
    /\ UNCHANGED <<sched, want, value, waiters, holder, panic>>

\* The body of sema_down's while loop; the thread resumes at the loop test.
sema_down_wait(t) ==
    /\ Running(t, "down") \/ Running(t, "retest")
    /\ value[want[t]] = 0
    /\ Goto(t, "retest")
    /\ IF elem_find(waiters[want[t]], t)
       THEN panic' = "sema_down" /\ UNCHANGED <<sched, waiters>>
       ELSE /\ waiters' = [waiters EXCEPT ![want[t]] = list_append(@, t)]
            /\ thread_block
    /\ UNCHANGED <<want, value, holder, repeat>>

\* value--, ASSERT(value == 0), interrupts back to what they were.
sema_down_take(t) ==
    /\ Running(t, "down") \/ Running(t, "retest")
    /\ value[want[t]] # 0
    /\ value' = [value EXCEPT ![want[t]] = @ - 1]
    /\ panic' = IF value'[want[t]] = 0 THEN panic ELSE "sema_down"
    /\ Goto(t, "sethold")
    /\ UNCHANGED <<sched, want, waiters, holder, repeat>>

\* plock->holder = running_thread(), with interrupts as the caller had them
lock_acquire_holder(t) ==
    /\ Running(t, "sethold")
    /\ holder' = [holder EXCEPT ![want[t]] = t]
    /\ Goto(t, "setrep")
    /\ UNCHANGED <<sched, want, value, waiters, repeat, panic>>

\* ASSERT(holder_repeat_nr == 0); holder_repeat_nr = 1
lock_acquire_repeat(t) ==
    /\ Running(t, "setrep")
    /\ panic' = IF repeat[want[t]] = 0 THEN panic ELSE "lock_acquire"
    /\ repeat' = [repeat EXCEPT ![want[t]] = 1]
    /\ Goto(t, "cs")
    /\ UNCHANGED <<sched, want, value, waiters, holder>>

\* Variant: off by one in the test of holder_repeat_nr.
lock_release_inner_off_by_one(t) ==
    /\ Running(t, "cs")
    /\ repeat[want[t]] > 0
    /\ panic' = IF holder[want[t]] = t THEN panic ELSE "lock_release"
    /\ repeat' = [repeat EXCEPT ![want[t]] = @ - 1]
    /\ UNCHANGED <<sched, pc, want, value, waiters, holder>>

(***************************************************************************)
(* lock_release, sema_up                                                   *)
(***************************************************************************)
\* The inner release of a recursive acquisition.
lock_release_inner(t) ==
    /\ Running(t, "cs")
    /\ repeat[want[t]] > 1
    /\ panic' = IF holder[want[t]] = t THEN panic ELSE "lock_release"
    /\ repeat' = [repeat EXCEPT ![want[t]] = @ - 1]
    /\ UNCHANGED <<sched, pc, want, value, waiters, holder>>

\* The outer release: two ASSERTs, then holder_repeat_nr = 0.
lock_release(t) ==
    /\ Running(t, "cs")
    /\ repeat[want[t]] <= 1
    /\ panic' = IF holder[want[t]] = t /\ repeat[want[t]] = 1
                THEN panic ELSE "lock_release"
    /\ repeat' = [repeat EXCEPT ![want[t]] = 0]
    /\ Goto(t, "clearhold")
    /\ UNCHANGED <<sched, want, value, waiters, holder>>

\* Variant: holder is not reset.
lock_release_holder_kept(t) ==
    /\ Running(t, "clearhold")
    /\ Goto(t, "up")
    /\ UNCHANGED <<sched, want, value, waiters, holder, repeat, panic>>

lock_release_holder(t) ==
    /\ Running(t, "clearhold")
    /\ holder' = [holder EXCEPT ![want[t]] = NoThread]
    /\ Goto(t, "up")
    /\ UNCHANGED <<sched, want, value, waiters, repeat, panic>>

\* Variant: the waiter is read, not popped.
sema_up_no_pop(t) ==
    /\ Running(t, "up")
    /\ value' = [value EXCEPT ![want[t]] = 1]
    /\ IF waiters[want[t]] = << >> THEN UNCHANGED <<sched, panic>>
       ELSE thread_unblock(Head(waiters[want[t]]))
    /\ Goto(t, "run")
    /\ want' = [want EXCEPT ![t] = NoLock]
    /\ UNCHANGED <<waiters, holder, repeat>>

\* Variant: nobody is woken.
sema_up_no_wakeup(t) ==
    /\ Running(t, "up")
    /\ value' = [value EXCEPT ![want[t]] = 1]
    /\ Goto(t, "run")
    /\ want' = [want EXCEPT ![t] = NoLock]
    /\ UNCHANGED <<sched, waiters, holder, repeat, panic>>

\* Variant: value is not counted up when there is a waiter to wake.
sema_up_no_value(t) ==
    /\ Running(t, "up")
    /\ LET l == want[t]
       IN  IF waiters[l] = << >>
           THEN value' = [value EXCEPT ![l] = 1] /\ UNCHANGED <<sched, waiters, panic>>
           ELSE /\ waiters' = [waiters EXCEPT ![l] = Tail(@)]
                /\ thread_unblock(Head(waiters[l]))
                /\ UNCHANGED value
    /\ Goto(t, "run")
    /\ want' = [want EXCEPT ![t] = NoLock]
    /\ UNCHANGED <<holder, repeat>>

\* sema_up: one waiter, if any, becomes ready; then value++.
sema_up(t) ==
    /\ Running(t, "up")
    /\ LET l == want[t]
       IN  IF value[l] # 0
           THEN panic' = "sema_up" /\ UNCHANGED <<sched, waiters, value>>
           ELSE /\ value' = [value EXCEPT ![l] = @ + 1]
                /\ IF waiters[l] = << >>
                   THEN UNCHANGED <<sched, waiters, panic>>
                   ELSE /\ waiters' = [waiters EXCEPT ![l] = Tail(@)]
                        /\ thread_unblock(Head(waiters[l]))
    /\ Goto(t, "run")
    /\ want' = [want EXCEPT ![t] = NoLock]
    /\ UNCHANGED <<holder, repeat>>

(***************************************************************************)
(* Waiting for a device with a lock held: ide_read under channel->lock,    *)
(* ioq_wait under ioq->lock.                                               *)
(***************************************************************************)
BlockForDevice(t) ==
    /\ Running(t, "cs")
    /\ t \in Sleepers
    /\ Goto(t, "asleep")
    /\ thread_block
    /\ UNCHANGED <<want, lock>>

\* thread_block returns: intr_set_status(old_status)
ResumeFromDevice(t) ==
    /\ Running(t, "asleep")
    /\ Goto(t, "cs")
    /\ UNCHANGED <<sched, want, lock, panic>>

(***************************************************************************)
(* thread_yield appends the running thread to the ready list and leaves    *)
(* its status RUNNING when it calls schedule().  Its callers are           *)
(* mtime_sleep and, with the channel lock held, ide.c's busy_wait.         *)
(***************************************************************************)
thread_yield(t) ==
    /\ Running(t, "cs") \/ Running(t, "run")
    /\ pc[t] = "run" => t \in KThreads
    /\ t \in Yielders
    /\ IF elem_find(ready, t)
       THEN panic' = "thread_yield" /\ UNCHANGED sched
       ELSE schedule(list_append(ready, t), status, "thread_yield")
    /\ UNCHANGED <<pc, want, lock>>

\* main() ends in thread_exit(running_thread(), true).  release_pid never
\* waits there: everybody else holds pid_lock with interrupts off only.
thread_exit(t) ==
    /\ Running(t, "run")
    /\ t = Main
    /\ schedule(IF elem_find(ready, t) THEN list_remove(ready, t) ELSE ready,
                [status EXCEPT ![t] = "DIED"], "schedule")
    /\ UNCHANGED <<pc, want, lock>>

(***************************************************************************)
(* idle(): thread_block(TASK_BLOCKED); sti; hlt                            *)
(***************************************************************************)
idle_block ==
    /\ Running(Idle, "loop")
    /\ Goto(Idle, "blocked")
    /\ thread_block
    /\ UNCHANGED <<want, lock>>

\* thread_block returns with interrupts on, then the CPU halts.
idle_wake ==
    /\ Running(Idle, "blocked")
    /\ Goto(Idle, "on")
    /\ UNCHANGED <<sched, want, lock, panic>>

idle_hlt ==
    /\ Running(Idle, "on")
    /\ Goto(Idle, "hlt")
    /\ UNCHANGED <<sched, want, lock, panic>>

(***************************************************************************)
(* Interrupts.  Any of them ends a hlt: when idle next runs it goes round  *)
(* its loop.                                                               *)
(***************************************************************************)
AfterHlt == pc' = IF pc[cur] = "hlt" THEN [pc EXCEPT ![cur] = "loop"] ELSE pc

\* Variant: nobody else is ready, so the slice is not renewed.
intr_timer_handler_alone ==
    /\ panic = "none"
    /\ InterruptsOn
    /\ IF ticks[cur] = 0 /\ ready # << >>
       THEN schedule(ready, status, "schedule")
       ELSE /\ ticks' = [ticks EXCEPT ![cur] = @ - 1]
            /\ UNCHANGED <<cur, status, ready, panic>>
    /\ AfterHlt
    /\ UNCHANGED <<want, lock>>

\* Variant: preempts at every tick.
intr_timer_handler_eager ==
    /\ panic = "none"
    /\ InterruptsOn
    /\ schedule(ready, status, "schedule")
    /\ AfterHlt
    /\ UNCHANGED <<want, lock>>

intr_timer_handler ==
    /\ panic = "none"
    /\ InterruptsOn
    /\ IF ticks[cur] = 0
       THEN schedule(ready, status, "schedule")
       ELSE /\ ticks' = [ticks EXCEPT ![cur] = @ - 1]
            /\ UNCHANGED <<cur, status, ready, panic>>
    /\ AfterHlt
    /\ UNCHANGED <<want, lock>>

\* Variant: a second interrupt for a thread that is awake already.
intr_device_handler_twice(t) ==
    /\ panic = "none"
    /\ InterruptsOn
    /\ pc[t] = "asleep"
    /\ thread_unblock(t)
    /\ AfterHlt
    /\ UNCHANGED <<want, lock>>

\* A device handler wakes the thread that waits for it.
intr_device_handler(t) ==
    /\ panic = "none"
    /\ InterruptsOn
    /\ pc[t] = "asleep"
    /\ status[t] = "BLOCKED"
    /\ thread_unblock(t)
    /\ AfterHlt
    /\ UNCHANGED <<want, lock>>

\* panic_spin: intr_disable(); while (1);
panic_spin == panic # "none" /\ UNCHANGED vars

-----------------------------------------------------------------------------
LockStep(t) ==
    \/ \E l \in Locks : CallAcquire(t, l)
    \/ CallReacquire(t)
    \/ lock_acquire(t)
    \/ sema_down_wait(t)
    \/ sema_down_take(t)
    \/ lock_acquire_holder(t)
    \/ lock_acquire_repeat(t)
    \/ lock_release_inner(t)
    \/ lock_release(t)
    \/ lock_release_holder(t)
    \/ sema_up(t)
    \/ BlockForDevice(t)
    \/ ResumeFromDevice(t)
    \/ thread_yield(t)
    \/ thread_exit(t)

Next ==
    \/ \E t \in Workers : LockStep(t)
    \/ idle_block
    \/ idle_wake
    \/ idle_hlt
    \/ intr_timer_handler
    \/ \E t \in Workers : intr_device_handler(t)
    \/ panic_spin

Spec == Init /\ [][Next]_vars

(***************************************************************************)
(* Fairness.  A tick is 10 ms, thousands of instructions: a thread that    *)
(* keeps getting the CPU gets on with the lock function or the idle loop   *)
(* it is in (strong fairness, since the timer takes the CPU away in        *)
(* between).  Every critical section of the kernel ends and recurses       *)
(* finitely deep, so its outer release is not put off for ever either.     *)
(* IRQs are latched by the 8259 while IF is off and delivered when it is   *)
(* on again: strong fairness for the handlers.  Calling lock_acquire,      *)
(* sleeping, yielding and exiting are the callers' choice: no fairness.    *)
(***************************************************************************)
InLockCall(t) ==
    \/ lock_acquire(t) \/ sema_down_wait(t) \/ sema_down_take(t)
    \/ lock_acquire_holder(t) \/ lock_acquire_repeat(t)
    \/ lock_release_holder(t) \/ sema_up(t) \/ ResumeFromDevice(t)

Fairness ==
    /\ \A t \in Workers : /\ SF_vars(InLockCall(t))
                          /\ SF_vars(lock_release_inner(t))
                          /\ SF_vars(lock_release(t))
    /\ \A t \in Sleepers : SF_vars(intr_device_handler(t))
    /\ WF_vars(idle_block \/ idle_wake \/ idle_hlt)
    /\ SF_vars(intr_timer_handler)

FairSpec == Spec /\ Fairness

-----------------------------------------------------------------------------
(***************************************************************************)
(* Who is where, as the code's lists and counters should agree on it.      *)
(***************************************************************************)
\* t has taken l's semaphore and not yet given it back.
OwnerPlaces   == {"sethold", "setrep", "cs", "asleep", "reacquire",
                  "clearhold", "up"}
Owns(t, l)    == want[t] = l /\ pc[t] \in OwnerPlaces

\* t has been woken by sema_up and has yet to test the semaphore again.
Woken(t, l)   == want[t] = l /\ pc[t] = "retest"
                 /\ status[t] \in {"READY", "RUNNING"}

NoDuplicates(list) ==
    \A i, j \in 1..Len(list) : list[i] = list[j] => i = j

TypeOK ==
    /\ cur     \in Threads
    /\ status  \in [Threads -> task_status]
    /\ ticks   \in [Threads -> Nat]
    /\ \A t \in Threads : ticks[t] <= Priority[t]
    /\ ready   \in Seq(Threads)
    /\ pc      \in [Threads -> LockPlaces \cup IdlePlaces \cup {"run"}]
    /\ want    \in [Threads -> Locks \cup {NoLock}]
    /\ value   \in [Locks -> {0, 1}]
    /\ waiters \in [Locks -> Seq(Threads)]
    /\ holder  \in [Locks -> Threads \cup {NoThread}]
    /\ repeat  \in [Locks -> 0..MaxRepeat]
    /\ panic   \in {"none", "schedule", "thread_unblock", "sema_down",
                    "sema_up", "lock_acquire", "lock_release",
                    "thread_yield"}

(***************************************************************************)
(* The semaphore counts: it is 0 exactly while one thread is between the   *)
(* end of sema_down and sema_up, whoever was preempted where, and there is *)
(* never a second such thread.                                             *)
(***************************************************************************)
MutualExclusion ==
    \A l \in Locks :
        /\ value[l] = 0 <=> \E t \in Workers : Owns(t, l)
        /\ \A t, u \in Workers : Owns(t, l) /\ Owns(u, l) => t = u

(***************************************************************************)
(* lock_acquire and lock_release read holder and holder_repeat_nr with     *)
(* interrupts on: holder names a thread only from lock_acquire's           *)
(* assignment to lock_release's, the thread it names owns the semaphore,   *)
(* and a repeat count is left over from nobody.                            *)
(***************************************************************************)
HolderIsOwner ==
    \A l \in Locks :
        /\ \A t \in Workers :
              holder[l] = t <=> /\ Owns(t, l)
                                /\ pc[t] \notin {"sethold", "up"}
        /\ repeat[l] > 0 => holder[l] # NoThread

(***************************************************************************)
(* general_tag is linked into the ready list, into one semaphore's waiters *)
(* or into nothing: the lists hold the threads their statuses say, each    *)
(* once.  A waiter woken too early, or queued twice, breaks it.            *)
(***************************************************************************)
OneListPerThread ==
    /\ \A t \in Threads : elem_find(ready, t) <=> status[t] = "READY"
    /\ NoDuplicates(ready)
    /\ \A l \in Locks :
          /\ NoDuplicates(waiters[l])
          /\ \A t \in Threads :
                elem_find(waiters[l], t)
                   <=> /\ status[t] = "BLOCKED"
                       /\ pc[t] = "retest" /\ want[t] = l

(***************************************************************************)
(* No wakeup is lost: when a semaphore is free and threads still wait for  *)
(* it, sema_up has already made one of its waiters runnable.               *)
(***************************************************************************)
NoLostWakeup ==
    \A l \in Locks :
        value[l] = 1 /\ waiters[l] # << >> => \E t \in Workers : Woken(t, l)

(***************************************************************************)
(* No ASSERT of thread.c and sync.c fails, except the one in schedule()    *)
(* when it is called from thread_yield.                                    *)
(***************************************************************************)
OnlyYieldPanics == panic \in {"none", "thread_yield"}

(***************************************************************************)
(* "volunteer to give up the CPU and schedule the others thread"           *)
(* (thread.c:118-121): a call of thread_yield does not stop the kernel.    *)
(***************************************************************************)
YieldSchedules == panic # "thread_yield"

(***************************************************************************)
(* Round robin: a thread that is taken off the CPU while it could go on    *)
(* has used up its slice, and it starts the next one with a full slice.    *)
(***************************************************************************)
FullSlice ==
    [][\A t \in Threads :
          status[t] = "RUNNING" /\ status'[t] = "READY"
             => ticks[t] = 0 /\ ticks'[t] = Priority[t]]_vars

(***************************************************************************)
(* The lock of sync.c implements the recursive lock: ownership changes     *)
(* hands in sema_down and sema_up.                                         *)
(***************************************************************************)
Owner(l) == IF \E t \in Workers : Owns(t, l)
            THEN CHOOSE t \in Workers : Owns(t, l) ELSE NoThread
Depth(l) == IF Owner(l) = NoThread THEN 0
            ELSE IF pc[Owner(l)] \in {"sethold", "setrep", "clearhold", "up"}
                 THEN 1 ELSE repeat[l]

RL == INSTANCE RecursiveLock WITH owner <- [l \in Locks |-> Owner(l)],
                                  depth <- [l \in Locks |-> Depth(l)]
ImplementsLock == RL!Spec

(***************************************************************************)
(* A thread that is ready gets the CPU, although thread_unblock puts every *)
(* woken thread in front of it and several threads may be woken again and  *)
(* again: ticks is refilled only when the slice has run out, so each of    *)
(* them ends up behind the thread that waits.                              *)
(***************************************************************************)
ReadyRuns ==
    \A t \in Threads : status[t] = "READY" ~> status[t] = "RUNNING"

(***************************************************************************)
(* A lock somebody waits for becomes free: neither the holder nor the      *)
(* wakeup gets stuck, so the waiters do not wait for ever on one another.  *)
(***************************************************************************)
ContendedLockIsReleased ==
    \A l \in Locks : waiters[l] # << >> ~> value[l] = 1
=============================================================================
