------------------------------- MODULE Pages --------------------------------
(***************************************************************************)
(* Page frames, kernel virtual pages and page tables (kernel/memory.c),    *)
(* and their life with a process: process_execute and start_process        *)
(* (process.c), sys_fork (fork.c), sys_exit and sys_wait (wait_exit.c,     *)
(* thread.c).  A system call runs with interrupts off and is one action;   *)
(* the main thread, and the first process before it enters user mode, run  *)
(* with interrupts on and may be preempted in the middle of palloc.        *)
(***************************************************************************)
EXTENDS Integers, FiniteSets

CONSTANTS
    Procs,
    First,          \* the process that process_execute makes: init
    NK, NU,         \* frames (and virtual pages) of the kernel, of the users
    NPages,         \* bound: pages of a user address space
    MaxHeap,        \* bound: pages of the kernel's heap
    PerTable,       \* pages that one page table maps
    PAGE_SIZE,      \* bytes in a page
    vaddr_btmp_bytes_len  \* bytes of a process's bitmap of virtual pages

ASSUME PagesAssumption ==
    /\ First \in Procs
    /\ NK \in Nat \ {0} /\ NU \in Nat \ {0} /\ NPages \in Nat \ {0}
    /\ MaxHeap \in Nat \ {0} /\ PerTable \in Nat \ {0}
    /\ PAGE_SIZE \in Nat \ {0} /\ vaddr_btmp_bytes_len \in Nat \ {0}

KFrames == 1..NK
UFrames == (NK + 1)..(NK + NU)
KPages  == 1..NK
UPages  == 0..(NPages - 1)
Stack   == NPages - 1                      \* USER_STACK3_VADDR
Tables  == {v \div PerTable : v \in UPages}
NoFrame == 0
Absent  == [frame |-> NoFrame, present |-> FALSE]

bitmap_pg_cnt == (vaddr_btmp_bytes_len + PAGE_SIZE - 1) \div PAGE_SIZE

VARIABLES
    mem,    \* [pool: frames in use, kvaddr: kernel pages in use, kmap: frames]
    task,   \* [Procs -> PCB]
    kheap,  \* kernel pages that the kernel's heap has
    main,   \* [frame, page] of main's preempted palloc, NoFrame if none
    exits,  \* history: processes that have exited
    stale,  \* history: an exit has freed a frame that was another's
    raced,  \* history: main and start_process have found the same frame
    panic

hist == <<exits, stale, raced>>
vars == <<mem, task, kheap, main, hist, panic>>

Idle   == [frame |-> NoFrame, page |-> 0]
NoTask == [status |-> "none", pcb |-> 0, bits |-> 0, pgdir |-> 0,
           vaddr_bitmap |-> {}, heap |-> {},
           found |-> NoFrame,     \* of a palloc that was preempted
           pde |-> [k \in Tables |-> NoFrame], pte |-> [v \in UPages |-> Absent]]

Init ==
    /\ mem   = [pool |-> {}, kvaddr |-> {}, kmap |-> [k \in KPages |-> NoFrame]]
    /\ task  = [p \in Procs |-> NoTask]
    /\ kheap = {}
    /\ main  = Idle
    /\ exits = 0
    /\ stale = FALSE
    /\ raced = FALSE
    /\ panic = FALSE

-----------------------------------------------------------------------------
Lowest(S) == CHOOSE x \in S : \A y \in S : x <= y

\* palloc: the first frame of the pool whose bit is clear
palloc(m, frames) == Lowest(frames \ m.pool)

\* Variant: the frame is handed out and its bit stays clear.
page_table_add_unmarked(m, k) == [m EXCEPT !.kmap[k] = palloc(m, KFrames)]

\* One kernel page: palloc(&kernel_pool) and page_table_add.
page_table_add(m, k) ==
    LET f == palloc(m, KFrames)
    IN  [m EXCEPT !.pool = @ \cup {f}, !.kmap[k] = f]

\* vaddr_get: the lowest run of cnt free kernel pages
Runs(m, cnt)      == {k \in KPages : k + cnt - 1 <= NK
                                     /\ (k..(k + cnt - 1)) \cap m.kvaddr = {}}
vaddr_get(m, cnt) == Lowest(Runs(m, cnt))

\* get_kernel_pages: the first page, and the memory after the call
get_kernel_pages(m, cnt) ==
    LET k == vaddr_get(m, cnt)
        after[i \in 0..cnt] ==
            IF i = 0 THEN [m EXCEPT !.kvaddr = @ \cup k..(k + cnt - 1)]
            ELSE page_table_add(after[i - 1], k + i - 1)
    IN  [addr |-> k, mem |-> after[cnt]]

\* mfree_page(PF_KERNEL, k, cnt): pfree, page_table_pte_remove, vaddr_remove
mfree_kernel(m, k, cnt) ==
    LET S == k..(k + cnt - 1)
    IN  [pool   |-> m.pool \ {m.kmap[j] : j \in S},
         kvaddr |-> m.kvaddr \ S,
         kmap   |-> [j \in KPages |-> IF j \in S THEN NoFrame ELSE m.kmap[j]]]

\* A user page: its frame, under the page table in frame t
MapUnder(x, v, t) ==
    LET f == palloc(x.mem, UFrames)
    IN  [mem  |-> [x.mem EXCEPT !.pool = @ \cup {f, t}],
         task |-> [x.task EXCEPT !.pde[v \div PerTable] = t,
                                 !.pte[v] = [frame |-> f, present |-> TRUE]]]

\* The page table is taken from the kernel's pool when there is none.
MapUser(x, v) ==
    LET t == x.task.pde[v \div PerTable]
    IN  MapUnder(x, v, IF t # NoFrame THEN t ELSE palloc(x.mem, KFrames))

\* The frames a call needs, of the kernel's and of the users' pool: the ASSERT
\* of bitmap_scan fails when a bitmap is full.
Room(m, k, u) ==
    /\ Cardinality(KFrames \ m.pool) >= k
    /\ Cardinality(UFrames \ m.pool) >= u

NewTables(t, S) == Cardinality({k \in Tables : /\ t.pde[k] = NoFrame
                                              /\ \E v \in S : v \div PerTable = k})

Stop == panic' = TRUE /\ UNCHANGED <<mem, task, kheap, main, hist>>

\* A frame with two users is overwritten by both: the model stops there.
Up         == ~panic /\ ~raced
Running(p) == Up /\ task[p].status = "running"

\* main holds kernel_pool.lock while its palloc is preempted; the calls that
\* take that lock wait for it, page_table_add, mfree_page and exit do not.
PoolUnlocked == main = Idle

-----------------------------------------------------------------------------
\* PCB, bitmap of virtual pages, page directory.  A run for the bitmap that is
\* not found is a NULL that bitmap_init writes to.
NewTask(m) ==
    LET a == get_kernel_pages(m, 1)
        b == get_kernel_pages(a.mem, bitmap_pg_cnt)
        c == get_kernel_pages(b.mem, 1)
    IN  IF Runs(a.mem, bitmap_pg_cnt) = {} THEN [found |-> FALSE]
        ELSE [found |-> TRUE, mem |-> c.mem, pcb |-> a.addr,
              bits |-> b.addr, pgdir |-> c.addr]

process_execute(p) ==
    /\ Up /\ p = First /\ task[p].status = "none" /\ PoolUnlocked
    /\ LET need == 2 + bitmap_pg_cnt
           n    == NewTask(mem)
           t    == [NoTask EXCEPT !.status = "ready", !.pcb = n.pcb,
                                  !.bits = n.bits, !.pgdir = n.pgdir]
       IN  IF /\ Room(mem, need, 0)
              /\ Cardinality(KPages \ mem.kvaddr) >= need /\ n.found
           THEN /\ mem' = n.mem /\ task' = [task EXCEPT ![p] = t]
                /\ UNCHANGED <<kheap, main, hist, panic>>
           ELSE Stop

\* get_a_page(PF_USER, v): the bit of a page that is asked for by address
get_a_page(p, v, t) ==
    LET x == MapUser([mem |-> mem, task |-> t], v)
    IN  IF Room(mem, NewTables(t, {v}), 1)
        THEN /\ mem'  = x.mem
             /\ task' = [task EXCEPT ![p] = [x.task EXCEPT !.vaddr_bitmap = @ \cup {v}]]
             /\ raced' = (raced \/ x.task.pde[v \div PerTable] = main.frame)
             /\ UNCHANGED <<kheap, main, exits, stale, panic>>
        ELSE Stop

\* start_process runs with interrupts on.  page_table_add takes the page table of
\* the stack with user_pool.lock held and without kernel_pool.lock: palloc has
\* scanned the kernel's bitmap and may be preempted before bitmap_set.
start_process(p) ==
    /\ Up /\ task[p].status = "ready" /\ task[p].found = NoFrame
    /\ IF Room(mem, 1, 1)
       THEN /\ task' = [task EXCEPT ![p].found = palloc(mem, KFrames)]
            /\ UNCHANGED <<mem, kheap, main, hist, panic>>
       ELSE Stop

\* The bit is set and the first page of the stack is mapped.  Its own frame was
\* taken before, under the lock of a pool that nobody else uses yet.
start_process_sets(p) ==
    /\ Up /\ task[p].status = "ready" /\ task[p].found # NoFrame
    /\ LET t == [task[p] EXCEPT !.status = "running", !.found = NoFrame]
           f == task[p].found
           x == MapUnder([mem |-> mem, task |-> t], Stack, f)
       IN  IF Room(mem, 0, 1)
           THEN /\ mem'  = x.mem
                /\ task' = [task EXCEPT ![p] = [x.task EXCEPT !.vaddr_bitmap = @ \cup {Stack}]]
                /\ raced' = (raced \/ f \in mem.pool \/ f = main.frame)
                /\ UNCHANGED <<kheap, main, exits, stale, panic>>
           ELSE Stop

\* malloc_page(PF_USER, 1), for the heap
malloc_page(p) ==
    /\ Running(p) /\ UPages \ task[p].vaddr_bitmap # {}
    /\ LET v == Lowest(UPages \ task[p].vaddr_bitmap)
       IN  get_a_page(p, v, [task[p] EXCEPT !.heap = @ \cup {v}])

\* Variant: the bit of the virtual page stays set.
mfree_page_keeps_bit(p, v) ==
    /\ Running(p) /\ v \in task[p].heap
    /\ mem'  = [mem EXCEPT !.pool = @ \ {task[p].pte[v].frame}]
    /\ task' = [task EXCEPT ![p].pte[v].present = FALSE, ![p].heap = @ \ {v}]
    /\ UNCHANGED <<kheap, main, hist, panic>>

\* mfree_page(PF_USER, v, 1): only the present bit of the entry is cleared.
mfree_page(p, v) ==
    /\ Running(p) /\ v \in task[p].heap
    /\ mem'  = [mem EXCEPT !.pool = @ \ {task[p].pte[v].frame}]
    /\ task' = [task EXCEPT ![p].pte[v].present = FALSE,
                            ![p].vaddr_bitmap = @ \ {v}, ![p].heap = @ \ {v}]
    /\ UNCHANGED <<kheap, main, hist, panic>>

\* A page of the kernel's heap, asked for and given back in a system call
kernel_malloc ==
    /\ Up /\ PoolUnlocked /\ Cardinality(kheap) < MaxHeap
    /\ IF Room(mem, 1, 0) /\ Runs(mem, 1) # {}
       THEN LET a == get_kernel_pages(mem, 1)
            IN  /\ mem' = a.mem /\ kheap' = kheap \cup {a.addr}
                /\ UNCHANGED <<task, main, hist, panic>>
       ELSE Stop

kernel_free(k) ==
    /\ Up /\ PoolUnlocked /\ k \in kheap
    /\ mem' = mfree_kernel(mem, k, 1) /\ kheap' = kheap \ {k}
    /\ UNCHANGED <<task, main, hist, panic>>

\* copy_body_stack3: every page whose bit is set, in the order of the bits
Copied(x, S) ==
    LET after[v \in (-1)..(NPages - 1)] ==
            IF v = -1 THEN x
            ELSE IF v \in S THEN MapUser(after[v - 1], v) ELSE after[v - 1]
    IN  after[NPages - 1]

\* Where fork's kernel pages go: PCB, buf_page, bitmap, page directory.  A run
\* for the bitmap that is not found is a NULL that fork writes to.
ForkPages(m) ==
    LET a == get_kernel_pages(m, 1)
        b == get_kernel_pages(a.mem, 1)
        c == get_kernel_pages(b.mem, bitmap_pg_cnt)
        d == get_kernel_pages(c.mem, 1)
    IN  IF Runs(b.mem, bitmap_pg_cnt) = {} THEN [found |-> FALSE]
        ELSE [found |-> TRUE, mem |-> d.mem, pcb |-> a.addr, buf |-> b.addr,
              bits |-> c.addr, pgdir |-> d.addr]

\* Everything is copied, and buf_page is given back.
sys_fork(p, c) ==
    /\ Running(p) /\ task[c].status = "none" /\ PoolUnlocked
    /\ LET S    == task[p].vaddr_bitmap
           need == 3 + bitmap_pg_cnt
           n    == ForkPages(mem)
           t    == [NoTask EXCEPT !.status = "running", !.pcb = n.pcb,
                       !.bits = n.bits, !.pgdir = n.pgdir,
                       !.vaddr_bitmap = S, !.heap = task[p].heap]
           x    == Copied([mem |-> n.mem, task |-> t], S)
       IN  IF /\ Room(mem, need + NewTables(NoTask, S), Cardinality(S))
              /\ Cardinality(KPages \ mem.kvaddr) >= need /\ n.found
           THEN /\ mem'  = mfree_kernel(x.mem, n.buf, 1)
                /\ task' = [task EXCEPT ![c] = x.task]
                /\ UNCHANGED <<kheap, main, hist, panic>>
           ELSE Stop

-----------------------------------------------------------------------------
\* The frames that release_prog_resource frees: every entry that is not 0,
\* present or not, and the tables.
UserFrames(t)  == {t.pte[v].frame : v \in UPages} \ {NoFrame}
PresentFrames(t) == {t.pte[v].frame : v \in {w \in UPages : t.pte[w].present}}
TableFrames(t) == {t.pde[k] : k \in Tables} \ {NoFrame}

\* The pages of the bitmap that are given back: the division rounds down.
release_pg_cnt == vaddr_btmp_bytes_len \div PAGE_SIZE

\* Variant: the tables are not freed.
release_prog_resource_keeps_tables(m, t) ==
    mfree_kernel([m EXCEPT !.pool = @ \ UserFrames(t)], t.bits, release_pg_cnt)

release_prog_resource(m, t) ==
    mfree_kernel([m EXCEPT !.pool = @ \ (UserFrames(t) \cup TableFrames(t))],
                 t.bits, release_pg_cnt)

Others(p) == {q \in Procs \ {p} : task[q].status \in {"ready", "running"}}

sys_exit(p) ==
    /\ Running(p) /\ p # First
    /\ mem'   = release_prog_resource(mem, task[p])
    /\ task'  = [task EXCEPT ![p] = [NoTask EXCEPT !.status = "hanging",
                                       !.pcb = task[p].pcb, !.pgdir = task[p].pgdir]]
    /\ exits' = exits + 1
    /\ stale' = (stale \/ \E q \in Others(p) :
                             UserFrames(task[p]) \cap PresentFrames(task[q]) # {})
    /\ UNCHANGED <<kheap, main, raced, panic>>

\* sys_wait: thread_exit gives back the page directory and the PCB.
thread_exit(p) ==
    /\ Up /\ task[p].status = "hanging"
    /\ mem'  = mfree_kernel(mfree_kernel(mem, task[p].pgdir, 1), task[p].pcb, 1)
    /\ task' = [task EXCEPT ![p] = NoTask]
    /\ UNCHANGED <<kheap, main, hist, panic>>

\* main's sys_malloc with interrupts on: palloc has scanned the bitmap and is
\* preempted before bitmap_set, kernel_pool.lock being held.
main_scans ==
    /\ Up /\ PoolUnlocked /\ Cardinality(kheap) < MaxHeap
    /\ Room(mem, 1, 0) /\ Runs(mem, 1) # {}
    /\ main' = [frame |-> palloc(mem, KFrames), page |-> vaddr_get(mem, 1)]
    /\ mem'  = [mem EXCEPT !.kvaddr = @ \cup {vaddr_get(mem, 1)}]
    /\ UNCHANGED <<task, kheap, hist, panic>>

main_sets ==
    /\ Up /\ ~PoolUnlocked
    /\ mem'   = [mem EXCEPT !.pool = @ \cup {main.frame}, !.kmap[main.page] = main.frame]
    /\ kheap' = kheap \cup {main.page}
    /\ main'  = Idle
    /\ UNCHANGED <<task, hist, panic>>

stopped == ~Up /\ UNCHANGED vars

Next ==
    \/ \E p \in Procs :
        \/ process_execute(p) \/ start_process(p) \/ start_process_sets(p)
        \/ malloc_page(p)
        \/ \E v \in UPages : mfree_page(p, v)
        \/ \E c \in Procs : sys_fork(p, c)
        \/ sys_exit(p) \/ thread_exit(p)
    \/ kernel_malloc \/ (\E k \in kheap : kernel_free(k))
    \/ main_scans \/ main_sets
    \/ stopped

Spec == Init /\ [][Next]_vars

-----------------------------------------------------------------------------
Living(p) == task[p].status \in {"ready", "running"}

\* Who uses frame f: a mapped kernel page, a page table, a mapped user page.
Users(f) ==
    {<<"kernel", k>> : k \in {j \in KPages : mem.kmap[j] = f}}
      \cup {<<"table", x[1], x[2]>> : x \in
               {y \in Procs \X Tables : Living(y[1]) /\ task[y[1]].pde[y[2]] = f}}
      \cup {<<"user", x[1], x[2]>> : x \in
               {y \in Procs \X UPages : /\ Living(y[1])
                                        /\ task[y[1]].pte[y[2]].present
                                        /\ task[y[1]].pte[y[2]].frame = f}}

(***************************************************************************)
(* The bitmaps of the pools say which frames are in use (memory.c:5): a    *)
(* frame that is mapped, or is a page table, has its bit set and one user. *)
(***************************************************************************)
FramesHaveOneOwner ==
    \A f \in KFrames \cup UFrames :
        /\ Cardinality(Users(f)) <= 1
        /\ Users(f) # {} => f \in mem.pool

(***************************************************************************)
(* The same until an exit has freed, through an entry that was no longer   *)
(* present, a frame that another process had been given meanwhile, or a    *)
(* page table was taken from kernel_pool, without its lock, in the middle  *)
(* of main's palloc, or main took a page in the middle of start_process's. *)
(***************************************************************************)
OneOwnerUnlessStale == stale \/ raced \/ FramesHaveOneOwner

(***************************************************************************)
(* Nothing of a process is lost but the last page of its bitmap: the       *)
(* kernel pages in use are those of the processes, of the kernel's heap    *)
(* with the one main is taking, and one for every process that has exited; *)
(* so are the frames, with the page tables, until page_table_add races.    *)
(***************************************************************************)
LeakIsOnePagePerExit ==
    LET alive  == {p \in Procs : Living(p)}
        zombie == {p \in Procs : task[p].status = "hanging"}
        pages  == Cardinality(alive) * (2 + bitmap_pg_cnt) + 2 * Cardinality(zombie)
                    + Cardinality(kheap) + (IF PoolUnlocked THEN 0 ELSE 1)
                    + exits * (bitmap_pg_cnt - release_pg_cnt)
        tables == Cardinality({x \in alive \X Tables : task[x[1]].pde[x[2]] # NoFrame})
    IN  raced \/ /\ Cardinality(mem.kvaddr) = pages
                 /\ Cardinality(mem.pool \cap KFrames) =
                       pages + tables - (IF PoolUnlocked THEN 0 ELSE 1)

(***************************************************************************)
(* A process's bitmap of virtual pages is the set of its mapped pages:     *)
(* fork reads every page whose bit is set, and would fault on another.     *)
(***************************************************************************)
BitmapIsMapping ==
    \A p \in Procs : Living(p) =>
        task[p].vaddr_bitmap = {v \in UPages : task[p].pte[v].present}
=============================================================================
