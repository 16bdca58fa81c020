----------------------------- MODULE Processes -----------------------------
(***************************************************************************)
(* Process life cycle: sys_fork (userprog/fork.c), sys_wait and sys_exit   *)
(* (userprog/wait_exit.c), thread_exit and the pid pool (thread/thread.c). *)
(*                                                                         *)
(* A system call runs with interrupts off: it is one step up to the point  *)
(* where it blocks.  Which runnable process goes next is left open, so     *)
(* RUNNING and READY are one status here.  A PCB is a kernel page: after   *)
(* thread_exit has freed it, a later fork may get the same page.           *)
(***************************************************************************)
EXTENDS Integers, Sequences

CONSTANTS
    Pcbs,       \* pages available for PCBs
    InitPcb,    \* init, pid 1
    MainPcb,    \* main_thread, pid 2
    IdlePcb,    \* idle_thread, pid 3
    ShellPcb,   \* the child init forks, pid 4
    MaxPid      \* bound: size of the pid pool explored (1024 in the code)

System == {InitPcb, MainPcb, IdlePcb}
Pids   == 1..MaxPid

ASSUME ProcessesAssumption ==
    /\ System \cup {ShellPcb} \subseteq Pcbs
    /\ InitPcb # MainPcb /\ IdlePcb \notin {InitPcb, MainPcb} /\ ShellPcb \notin System
    /\ MaxPid \in Nat /\ MaxPid >= 4

VARIABLES
    status,     \* task_struct.status; RUNNING counts as READY
    pid,        \* task_struct.pid
    parent,     \* task_struct.parent_pid, -1 for none
    all_list,   \* thread_all_list
    pool,       \* pid_pool.pid_bitmap: the pids in use
    pc,         \* "user", "waiting" in sys_wait, "zombie" in sys_exit, "free"
    fault,      \* a NULL task_struct was dereferenced: page fault, CPU spins
    victims     \* history: processes reaped although they had not exited

vars == <<status, pid, parent, all_list, pool, pc, fault, victims>>

Live(p) == \E i \in 1..Len(all_list) : all_list[i] = p

\* init has forked the shell and main is about to leave.
Init ==
    /\ all_list = <<InitPcb, MainPcb, IdlePcb, ShellPcb>>
    /\ pid      = [p \in Pcbs |-> CASE p = InitPcb  -> 1
                                    [] p = MainPcb  -> 2
                                    [] p = IdlePcb  -> 3
                                    [] p = ShellPcb -> 4
                                    [] OTHER        -> 0]
    /\ parent   = [p \in Pcbs |-> IF p = ShellPcb THEN 1 ELSE -1]
    /\ status   = [p \in Pcbs |-> IF pid[p] = 0 THEN "DIED" ELSE "READY"]
    /\ pc       = [p \in Pcbs |-> IF pid[p] = 0 THEN "free" ELSE "user"]
    /\ pool     = 1..4
    /\ fault    = FALSE
    /\ victims  = {}

\* p is a process that can make a system call now.
InUser(p) == ~fault /\ p \notin {MainPcb, IdlePcb}
             /\ status[p] = "READY" /\ pc[p] = "user"

\* allocate_pid: bitmap_scan finds the lowest free bit.
allocate_pid == CHOOSE n \in Pids \ pool : \A m \in Pids \ pool : n <= m

\* list_traversal over thread_all_list: the first match, or none.
Matches(Test(_))  == {i \in 1..Len(all_list) : Test(all_list[i])}
First(S)          == all_list[CHOOSE i \in S : \A j \in S : i <= j]

find_child(p)         == Matches(LAMBDA c : parent[c] = pid[p])
find_hanging_child(p) ==
    Matches(LAMBDA c : parent[c] = pid[p] /\ status[c] = "HANGING")
pid2thread(n)         == Matches(LAMBDA c : pid[c] = n)

\* Variants: no child is handed over; pids are taken to start at 0.
init_adopt_no_child(p) == parent
init_adopt_pid_zero(p) ==
    [c \in Pcbs |-> IF Live(c) /\ parent[c] = pid[p] THEN 0 ELSE parent[c]]

\* sys_exit hands every child of p to init by writing its parent_pid.
init_adopt_a_child(p) ==
    [c \in Pcbs |-> IF Live(c) /\ parent[c] = pid[p] THEN 1 ELSE parent[c]]

\* list_remove of c's all_list_tag: what follows c moves up.
list_remove(c) ==
    LET at == CHOOSE i \in 1..Len(all_list) : all_list[i] = c
    IN  [i \in 1..(Len(all_list) - 1) |-> all_list[IF i < at THEN i ELSE i + 1]]

\* Variant: the pid is not released.
thread_exit_keeps_pid(c) ==
    /\ all_list' = list_remove(c)
    /\ UNCHANGED pool

\* thread_exit(c, ...): DIED, off the lists, PCB page freed, pid released.
thread_exit(c) ==
    /\ all_list' = list_remove(c)
    /\ pool'     = pool \ {pid[c]}

-----------------------------------------------------------------------------
\* init only waits after its fork; the page for the PCB may be any free one.
\* Names are left out: where copy_pcb's ASSERT on their length or a full pool
\* stops the kernel, the model goes on, with the fork or without it.
sys_fork(p) ==
    /\ InUser(p) /\ p # InitPcb
    /\ Pids \ pool # {}
    /\ \E c \in Pcbs \ System :
          /\ pc[c] = "free"
          /\ pid'      = [pid EXCEPT ![c] = allocate_pid]
          /\ parent'   = [parent EXCEPT ![c] = pid[p]]
          /\ status'   = [status EXCEPT ![c] = "READY"]
          /\ pc'       = [pc EXCEPT ![c] = "user"]
          /\ all_list' = Append(all_list, c)
    /\ pool' = pool \cup {allocate_pid}
    /\ UNCHANGED <<fault, victims>>

(***************************************************************************)
(* sys_wait: one round of its loop, on entry or after its thread_block     *)
(* returns.                                                                *)
(***************************************************************************)
InWait(p) == InUser(p) \/ (~fault /\ status[p] = "READY" /\ pc[p] = "waiting")

\* A child with status HANGING is taken for an exited one.
sys_wait_reap(p) ==
    /\ InWait(p)
    /\ find_hanging_child(p) # {}
    /\ LET c == First(find_hanging_child(p))
       IN  /\ thread_exit(c)
           /\ status' = [status EXCEPT ![c] = "DIED"]
           /\ pc'     = [pc EXCEPT ![c] = "free", ![p] = "user"]
           /\ victims' = IF pc[c] = "zombie" THEN victims
                         ELSE victims \cup {c}
    /\ UNCHANGED <<pid, parent, fault>>

sys_wait_block(p) ==
    /\ InWait(p)
    /\ find_hanging_child(p) = {}
    /\ find_child(p) # {}
    /\ status' = [status EXCEPT ![p] = "HANGING"]
    /\ pc'     = [pc EXCEPT ![p] = "waiting"]
    /\ UNCHANGED <<pid, parent, all_list, pool, fault, victims>>

\* return -1
sys_wait_none(p) ==
    /\ InWait(p)
    /\ find_child(p) = {}
    /\ pc' = [pc EXCEPT ![p] = "user"]
    /\ UNCHANGED <<status, pid, parent, all_list, pool, fault, victims>>

\* Variant: the parent is not woken.
sys_exit_no_wakeup(p) ==
    /\ InUser(p) /\ parent[p] # -1
    /\ parent' = init_adopt_a_child(p)
    /\ status' = [status EXCEPT ![p] = "HANGING"]
    /\ pc' = [pc EXCEPT ![p] = "zombie"]
    /\ UNCHANGED <<pid, all_list, pool, fault, victims>>

\* init's children first, then the parent is looked up and woken.
sys_exit(p) ==
    /\ InUser(p) /\ parent[p] # -1
    /\ parent' = init_adopt_a_child(p)
    /\ LET found == pid2thread(parent[p])
       IN  IF found = {}
           THEN /\ fault' = TRUE
                /\ UNCHANGED <<status, pc>>
           ELSE /\ status' = [c \in Pcbs |->
                                 IF c = p THEN "HANGING"
                                 ELSE IF c = First(found)
                                         /\ status[c] = "HANGING" THEN "READY"
                                 ELSE status[c]]
                /\ pc' = [pc EXCEPT ![p] = "zombie"]
                /\ UNCHANGED fault
    /\ UNCHANGED <<pid, all_list, pool, victims>>

\* main() leaves by thread_exit(running_thread(), true); its page stays.
main_exit ==
    /\ ~fault
    /\ status[MainPcb] = "READY"
    /\ thread_exit(MainPcb)
    /\ status' = [status EXCEPT ![MainPcb] = "DIED"]
    /\ pc'     = [pc EXCEPT ![MainPcb] = "free"]
    /\ UNCHANGED <<pid, parent, fault, victims>>

\* general_intr_handler on vector 14: while (1);
fault_spin == fault /\ UNCHANGED vars

Next ==
    \/ \E p \in Pcbs : \/ sys_fork(p)
                       \/ sys_wait_reap(p)
                       \/ sys_wait_block(p)
                       \/ sys_wait_none(p)
                       \/ sys_exit(p)
    \/ main_exit
    \/ fault_spin

Spec == Init /\ [][Next]_vars

-----------------------------------------------------------------------------
TypeOK ==
    /\ status   \in [Pcbs -> {"READY", "HANGING", "DIED"}]
    /\ pid      \in [Pcbs -> Pids \cup {0}]
    /\ parent   \in [Pcbs -> Pids \cup {-1}]
    /\ all_list \in Seq(Pcbs)
    /\ pool     \subseteq Pids
    /\ pc       \in [Pcbs -> {"user", "waiting", "zombie", "free"}]
    /\ fault    \in BOOLEAN
    /\ victims  \subseteq Pcbs

(***************************************************************************)
(* thread_all_list, the pid pool and the processes agree: every process    *)
(* that is not dead is on the list once, with a pid of its own, and the    *)
(* pool's used bits are exactly those pids, however pids are recycled.     *)
(***************************************************************************)
PidsAreUnique ==
    /\ \A i, j \in 1..Len(all_list) :
          pid[all_list[i]] = pid[all_list[j]] => i = j
    /\ {p \in Pcbs : Live(p)} = {p \in Pcbs : status[p] # "DIED"}
    /\ pool = {pid[p] : p \in {q \in Pcbs : Live(q)}}

(***************************************************************************)
(* A process that has exited never gets the CPU again: nobody unblocks it  *)
(* between its thread_block(TASK_HANGING) and thread_exit.                 *)
(***************************************************************************)
ZombieNeverRuns == \A p \in Pcbs : pc[p] = "zombie" => status[p] = "HANGING"

(***************************************************************************)
(* No exit goes unnoticed: a process other than init that sleeps in        *)
(* sys_wait has no exited child.  (Init is not woken for a child it adopts *)
(* when that child has exited already.)                                    *)
(***************************************************************************)
ExitWakesParent ==
    \A p, c \in Pcbs :
        /\ Live(p) /\ p # InitPcb /\ status[p] = "HANGING" /\ pc[p] = "waiting"
        /\ Live(c) /\ parent[c] = pid[p]
        => pc[c] # "zombie"

(***************************************************************************)
(* As long as no process was reaped alive, every process has a parent in   *)
(* thread_all_list to report to, and sys_exit never dereferences NULL.     *)
(***************************************************************************)
ParentExists ==
    victims = {} =>
        /\ ~fault
        /\ \A p \in Pcbs : Live(p) /\ parent[p] # -1
              => \E q \in Pcbs : Live(q) /\ pid[q] = parent[p]

(***************************************************************************)
(* What wait() returns is a child that has exited: main.c:80 reports it as *)
(* "i recive a child %d, status is %d".                                    *)
(***************************************************************************)
WaitReturnsExited == victims = {}
=============================================================================
