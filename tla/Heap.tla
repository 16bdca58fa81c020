-------------------------------- MODULE Heap --------------------------------
(***************************************************************************)
(* sys_malloc and sys_free (kernel/memory.c): arenas of equal blocks and   *)
(* the free lists of lib/list.c that thread through the free blocks.       *)
(*                                                                         *)
(* A list's head and tail are in a task_struct, which every address space  *)
(* sees; its elements are in user pages, of which fork makes a copy.  So   *)
(* a pointer is followed in an address space, and the model keeps one view *)
(* of all links for each process.  Physical pages are module Pages'.       *)
(***************************************************************************)
EXTENDS Integers, FiniteSets

CONSTANTS
    Progs,              \* processes; u_block_desc is theirs
    FirstProg,          \* the process that runs at the start
    Classes,            \* indices of u_block_desc
    blocks_pre_arena,   \* [Classes -> blocks in an arena of that class]
    MaxBlock,           \* blocks in an arena of the smallest blocks
    NHeap,              \* bound: pages of virtual memory for the heap
    MaxArea             \* bound: pages that one sys_malloc asks for

ASSUME HeapAssumption ==
    /\ FirstProg \in Progs
    /\ MaxBlock \in Nat /\ blocks_pre_arena \in [Classes -> 1..MaxBlock]
    /\ NHeap \in Nat /\ MaxArea \in Nat

HeapPages == 1..NHeap

\* What a struct list_elem pointer may point to.
NULL       == <<"null", 0, 0>>
head(p, d) == <<"head", p, d>>
tail(p, d) == <<"tail", p, d>>
Blocks     == {<<"block", pg, i>> : pg \in HeapPages, i \in 1..MaxBlock}
Ends       == {head(p, d) : p \in Progs, d \in Classes}
                 \cup {tail(p, d) : p \in Progs, d \in Classes}
Nodes      == Blocks \cup Ends \cup {NULL}

VARIABLES
    live,   \* processes that exist
    arena,  \* [Progs -> [mapped pages -> header: desc, cnt, large]]
    next,   \* [Progs -> [Nodes -> Nodes]]: the links as that process sees them
    prev,
    held,   \* history: the blocks and large areas a program has and may free
    foreign,\* history: a process has freed a block of another's arena
    fault   \* a failed ASSERT, or NULL followed

heap_vars == <<live, arena, next, prev, held, foreign, fault>>

\* block_desc_init: list_init of every free list of p.
block_desc_init(n, v, p) ==
    [next |-> [b \in Progs |-> [x \in Nodes |->
                 IF \E d \in Classes : x = head(p, d) THEN tail(p, x[3])
                 ELSE n[b][x]]],
     prev |-> [b \in Progs |-> [x \in Nodes |->
                 IF \E d \in Classes : x = tail(p, d) THEN head(p, x[3])
                 ELSE v[b][x]]]]

NoLinks == [p \in Progs |-> [x \in Nodes |-> NULL]]

HeapInit ==
    /\ live  = {FirstProg}
    /\ arena = [p \in Progs |-> << >>]
    /\ LET m == block_desc_init(NoLinks, NoLinks, FirstProg)
       IN  next = m.next /\ prev = m.prev
    /\ held  = [p \in Progs |-> {}]
    /\ foreign = FALSE
    /\ fault = FALSE

-----------------------------------------------------------------------------
\* Writing through a pointer in address space a: the ends are shared.
Put(f, a, x, v) ==
    [b \in Progs |-> IF b = a \/ x \in Ends THEN [f[b] EXCEPT ![x] = v]
                     ELSE f[b]]

list_insert_before(m, a, before, e) ==
    LET q == m.prev[a][before]
    IN  [next |-> Put(Put(m.next, a, q, e), a, e, before),
         prev |-> Put(Put(m.prev, a, e, q), a, before, e)]

list_append(m, a, l, e) == list_insert_before(m, a, tail(l[1], l[2]), e)

list_remove(m, a, e) ==
    LET q == m.prev[a][e]
        r == m.next[a][e]
    IN  [next |-> Put(m.next, a, q, r), prev |-> Put(m.prev, a, r, q)]

list_empty(m, a, l) == m.next[a][head(l[1], l[2])] = tail(l[1], l[2])

\* A list goes through every block at most once.
MaxChain == Cardinality(Blocks) + 1

\* The elements from the head on, until the tail or NULL, as a sequence.
Chain(m, a, l) ==
    LET path[k \in 0..MaxChain] ==
            IF k = 0 THEN head(l[1], l[2])
            ELSE IF path[k - 1] \in {tail(l[1], l[2]), NULL} THEN path[k - 1]
            ELSE m.next[a][path[k - 1]]
    IN  path

elem_find(m, a, l, e) ==
    \E k \in 1..MaxChain : Chain(m, a, l)[k] = e

Links == [next |-> next, prev |-> prev]

ArenaBlocks(pg, d) == {<<"block", pg, i>> : i \in 1..blocks_pre_arena[d]}

Zero(f, a, pg) ==
    [f EXCEPT ![a] = [x \in Nodes |->
                         IF x \in Blocks /\ x[2] = pg THEN NULL ELSE f[a][x]]]

\* memset(a, 0, PAGE_SIZE), and the loop that appends every block
Filled(m, a, pg, d) ==
    LET after[i \in 0..blocks_pre_arena[d]] ==
            IF i = 0 THEN [next |-> Zero(m.next, a, pg), prev |-> Zero(m.prev, a, pg)]
            ELSE list_append(after[i - 1], a, <<a, d>>, <<"block", pg, i>>)
    IN  after[blocks_pre_arena[d]]

\* sys_free's loop that takes every block of an arena off the free list.  The
\* page is unmapped after it, and what it held is not seen again.
Emptied(m, a, pg, l) ==
    LET after[i \in 0..blocks_pre_arena[l[2]]] ==
            IF i = 0 THEN m
            ELSE list_remove(after[i - 1], a, <<"block", pg, i>>)
        end == after[blocks_pre_arena[l[2]]]
    IN  [next |-> Zero(end.next, a, pg), prev |-> Zero(end.prev, a, pg)]

\* malloc_page of cnt pages: vaddr_get finds the lowest run that is free.
FreeRuns(p, cnt) ==
    {s \in HeapPages : s + cnt - 1 <= NHeap
                   /\ (s..(s + cnt - 1)) \cap DOMAIN arena[p] = {}}
LowestRun(S) == CHOOSE x \in S : \A y \in S : x <= y

\* After a foreign free a list has elements of two address spaces: what its
\* links lead to depends on who follows them, and the model stops.
CanCall(p) == ~fault /\ ~foreign /\ p \in live

-----------------------------------------------------------------------------
\* The block is popped and cleared; cnt is decremented in its own arena.
Popped(p, d, m, ar) ==
    LET b    == m.next[p][head(p, d)]
        left == list_remove(m, p, b)
    IN  IF b \in Blocks /\ b[2] \in DOMAIN ar
           /\ m.next[p][b] # NULL /\ m.prev[p][b] # NULL
        THEN /\ next'  = Put(left.next, p, b, NULL)
             /\ prev'  = Put(left.prev, p, b, NULL)
             /\ arena' = [arena EXCEPT ![p] = [ar EXCEPT ![b[2]].cnt = @ - 1]]
             /\ held'  = [held EXCEPT ![p] = @ \cup {b}]
             /\ UNCHANGED <<live, foreign, fault>>
        ELSE fault' = TRUE /\ UNCHANGED <<live, arena, next, prev, held, foreign>>

\* size <= 1024, a free block is there
sys_malloc(p, d) ==
    /\ CanCall(p)
    /\ ~list_empty(Links, p, <<p, d>>)
    /\ Popped(p, d, Links, arena[p])

\* size <= 1024, a new arena is needed.  No page left: see Pages.
sys_malloc_arena(p, d) ==
    /\ CanCall(p)
    /\ list_empty(Links, p, <<p, d>>)
    /\ FreeRuns(p, 1) # {}
    /\ LET pg == LowestRun(FreeRuns(p, 1))
           hd == [desc |-> <<p, d>>, cnt |-> blocks_pre_arena[d], large |-> FALSE]
       IN  Popped(p, d, Filled(Links, p, pg, d),
                  [q \in DOMAIN arena[p] \cup {pg} |->
                      IF q = pg THEN hd ELSE arena[p][q]])

\* size > 1024: an area of whole pages; NULL when no run is long enough
sys_malloc_large(p, cnt) ==
    /\ CanCall(p)
    /\ FreeRuns(p, 1) # {}
    /\ IF FreeRuns(p, cnt) = {} THEN UNCHANGED <<arena, held>>
       ELSE LET s  == LowestRun(FreeRuns(p, cnt))
                hd == [desc |-> NULL, cnt |-> cnt, large |-> TRUE]
            IN  /\ arena' = [arena EXCEPT ![p] =
                       [q \in DOMAIN arena[p] \cup (s..(s + cnt - 1)) |->
                           IF q \in DOMAIN arena[p] THEN arena[p][q] ELSE hd]]
                /\ held'  = [held EXCEPT ![p] = @ \cup {<<"area", s, cnt>>}]
    /\ UNCHANGED <<live, next, prev, foreign, fault>>

\* mfree_page
Unmapped(ar, S) == [q \in DOMAIN ar \ S |-> ar[q]]

sys_free_large(p, x) ==
    /\ CanCall(p) /\ x \in held[p] /\ x[1] = "area"
    /\ arena' = [arena EXCEPT ![p] =
                    Unmapped(@, x[2]..(x[2] + arena[p][x[2]].cnt - 1))]
    /\ held'  = [held EXCEPT ![p] = @ \ {x}]
    /\ UNCHANGED <<live, next, prev, foreign, fault>>

\* Variant: the page goes back while its blocks are still on the list.
sys_free_keeps_links(p, b) ==
    /\ CanCall(p) /\ b \in held[p] /\ b[1] = "block"
    /\ LET pg == b[2]
           l  == arena[p][pg].desc
           m  == list_append(Links, p, l, b)
       IN  /\ arena' = [arena EXCEPT ![p] =
                          IF @[pg].cnt + 1 = blocks_pre_arena[l[2]]
                          THEN Unmapped(@, {pg})
                          ELSE [@ EXCEPT ![pg].cnt = @ + 1]]
           /\ next' = m.next /\ prev' = m.prev
    /\ held' = [held EXCEPT ![p] = @ \ {b}]
    /\ UNCHANGED <<live, foreign, fault>>

\* Variant: the count is compared before it is incremented.
sys_free_post_increment(p, b) ==
    /\ CanCall(p) /\ b \in held[p] /\ b[1] = "block"
    /\ LET pg == b[2]
           m  == list_append(Links, p, arena[p][pg].desc, b)
       IN  /\ arena' = [arena EXCEPT ![p][pg].cnt = @ + 1]
           /\ next' = m.next /\ prev' = m.prev
    /\ held' = [held EXCEPT ![p] = @ \ {b}]
    /\ UNCHANGED <<live, foreign, fault>>

\* A block goes to the list its arena names; a full arena goes back.
sys_free(p, b) ==
    /\ CanCall(p) /\ b \in held[p] /\ b[1] = "block"
    /\ LET pg   == b[2]
           l    == arena[p][pg].desc
           cnt  == arena[p][pg].cnt + 1
           m    == list_append(Links, p, l, b)
           full == cnt = blocks_pre_arena[l[2]]
           e    == Emptied(m, p, pg, l)
       IN  IF full /\ \E c \in ArenaBlocks(pg, l[2]) : ~elem_find(m, p, l, c)
           THEN fault' = TRUE /\ UNCHANGED <<arena, next, prev, held>>
           ELSE /\ arena' = [arena EXCEPT ![p] =
                               IF full THEN Unmapped(@, {pg})
                               ELSE [@ EXCEPT ![pg].cnt = cnt]]
                /\ next'  = IF full THEN e.next ELSE m.next
                /\ prev'  = IF full THEN e.prev ELSE m.prev
                /\ held'  = [held EXCEPT ![p] = @ \ {b}]
                /\ UNCHANGED fault
    /\ foreign' = (foreign \/ arena[p][b[2]].desc[1] # p)
    /\ UNCHANGED live

\* fork.c: the pages are copied as they are, u_block_desc is initialised.
copy_process(p, c) ==
    /\ CanCall(p) /\ c \notin live
    /\ live'  = live \cup {c}
    /\ arena' = [arena EXCEPT ![c] = arena[p]]
    /\ held'  = [held EXCEPT ![c] = held[p]]
    /\ LET copy(f) == [f EXCEPT ![c] = [x \in Nodes |->
                          IF x \in Blocks THEN f[p][x] ELSE f[c][x]]]
           m == block_desc_init(copy(next), copy(prev), c)
       IN  next' = m.next /\ prev' = m.prev
    /\ UNCHANGED <<foreign, fault>>

heap_stopped == (fault \/ foreign) /\ UNCHANGED heap_vars

HeapNext ==
    \E p \in Progs :
        \/ \E d \in Classes : sys_malloc(p, d) \/ sys_malloc_arena(p, d)
        \/ \E cnt \in 1..MaxArea : sys_malloc_large(p, cnt)
        \/ \E x \in held[p] : sys_free(p, x) \/ sys_free_large(p, x)
        \/ \E c \in Progs : copy_process(p, c)
        \/ heap_stopped

HeapSpec == HeapInit /\ [][HeapNext]_heap_vars

-----------------------------------------------------------------------------
FreeBlocks(p, d) == {b \in Blocks : /\ b[2] \in DOMAIN arena[p]
                              /\ arena[p][b[2]].desc = <<p, d>>
                              /\ b[3] <= blocks_pre_arena[d]
                              /\ b \notin held[p]}

(***************************************************************************)
(* Every free list is a chain from head to tail, the same in both          *)
(* directions, through exactly the blocks that no program has: nothing     *)
(* handed out can be handed out again, and no free block is lost.  It      *)
(* ends when a child frees a block that fork gave it: the arena names the  *)
(* parent's list.  No ASSERT of sys_malloc or sys_free fails before that.  *)
(***************************************************************************)
FreeListSound ==
    ~foreign => ~fault /\ \A p \in live, d \in Classes :
        LET path == Chain(Links, p, <<p, d>>)
            n    == Cardinality(FreeBlocks(p, d))
        IN  /\ {path[k] : k \in 1..n} = FreeBlocks(p, d)
            /\ path[n + 1] = tail(p, d)
            /\ \A k \in 1..(n + 1) : prev[p][path[k]] = path[k - 1]

(***************************************************************************)
(* The count in an arena's header is the number of its free blocks, and an *)
(* arena that has become all free does not stay mapped, in a process that  *)
(* was forked too, until it frees a block of the arenas it was given.      *)
(***************************************************************************)
ArenaCounts ==
    ~foreign => \A p \in live : \A pg \in DOMAIN arena[p] :
        LET a == arena[p][pg]
        IN  ~a.large =>
              /\ a.cnt = Cardinality(ArenaBlocks(pg, a.desc[2]) \ held[p])
              /\ a.cnt < blocks_pre_arena[a.desc[2]]
=============================================================================
