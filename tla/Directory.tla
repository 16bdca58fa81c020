----------------------------- MODULE Directory ------------------------------
(***************************************************************************)
(* The entries of one directory: search_dir_entry, sync_dir_entry,         *)
(* delete_dir_entry, dir_read, dir_is_empty and the assertion of           *)
(* dir_remove (direct.c), called by two processes.                         *)
(*                                                                         *)
(* A call looks at the blocks, is given the CPU back with one of them in   *)
(* io_buf, changes that block, and after the wait for that write counts    *)
(* the entry in i_size: three actions.  The entries "." and ".." are never *)
(* added or deleted and take one slot together.  A block is written in     *)
(* full when it is taken, so what it held before is not kept.  The waits   *)
(* of bitmap_sync are not steps of their own.                              *)
(***************************************************************************)
EXTENDS Integers, FiniteSets

CONSTANTS
    Procs,
    Names,          \* entries, each with the inode of its name
    Slots,          \* dir_entrys_per_sec
    Direct,         \* 12
    Indirect,       \* 128
    NBlocks         \* blocks of the partition

None == "free"
Dots == "dots"
Lbas == 1..NBlocks
Idxs == 0..(Direct + Indirect - 1)

ASSUME DirectoryAssumption ==
    /\ Slots \in Nat \ {0} /\ NBlocks \in Nat \ {0}
    /\ Direct \in Nat \ {0} /\ Indirect \in Nat \ {0}
    /\ Names \cap {None, Dots} = {} /\ IsFiniteSet(Procs)

VARIABLES
    i_size,         \* in entries
    i_sectors,      \* [0..Direct -> LBA or 0]
    table,          \* what the indirect table at i_sectors[Direct] holds
    block,          \* [Lbas -> [1..Slots -> entry]]
    block_bitmap,   \* LBAs taken
    pc,             \* the call in progress and its local variables
    broken          \* "none", or what went wrong; followed up to there

vars == <<i_size, i_sectors, table, block, block_bitmap, pc, broken>>

Empty   == [s \in 1..Slots |-> None]
NoTable == [i \in 0..(Indirect - 1) |-> 0]
Out     == [at |-> "out", name |-> None, idx |-> 0, lba |-> 0, tab |-> 0, buf |-> Empty]

Init ==
    /\ i_size = 1
    /\ i_sectors = [i \in 0..Direct |-> IF i = 0 THEN 1 ELSE 0]
    /\ table = NoTable
    /\ block = [a \in Lbas |-> IF a = 1 THEN [Empty EXCEPT ![1] = Dots] ELSE Empty]
    /\ block_bitmap = {1}
    /\ pc = [p \in Procs |-> Out]
    /\ broken = "none"

-----------------------------------------------------------------------------
Runs(p, at) == broken = "none" /\ pc[p].at = at
Lowest(S)   == CHOOSE x \in S : \A y \in S : x <= y
Free        == Lbas \ block_bitmap
Second(S)   == Lowest(S \ {Lowest(S)})

\* all_blocks of search_dir_entry, delete_dir_entry and dir_read
all_blocks ==
    [i \in Idxs |-> IF i < Direct THEN i_sectors[i]
                    ELSE IF i_sectors[Direct] = 0 THEN 0 ELSE table[i - Direct]]

Holds(a, name) == a # 0 /\ \E s \in 1..Slots : block[a][s] = name
search_dir_entry(name) == \E i \in Idxs : Holds(all_blocks[i], name)

Hole(buf) == {s \in 1..Slots : buf[s] = None}

\* sync_dir_entry, whose caller has found that the name is not there: the first
\* block that has room or is not there yet.  It does not read the table, so
\* the first indirect block is never there.
room == {i \in 0..(Direct - 1) : i_sectors[i] = 0 \/ Hole(block[i_sectors[i]]) # {}}

sync_dir_entry_read(p, name) ==
    LET i     == IF room = {} THEN Direct ELSE Lowest(room)
        fresh == i = Direct \/ i_sectors[i] = 0
        need  == IF i = Direct THEN 2 ELSE IF fresh THEN 1 ELSE 0
        tab   == IF i = Direct THEN Lowest(Free) ELSE 0
        lba   == IF i = Direct THEN Second(Free)
                 ELSE IF fresh THEN Lowest(Free) ELSE i_sectors[i]
    IN  /\ Runs(p, "out") /\ ~search_dir_entry(name)
        /\ IF need > Cardinality(Free)
           THEN broken' = "panic" /\ UNCHANGED <<block_bitmap, pc>>
           ELSE /\ block_bitmap' = (block_bitmap \cup {lba, tab}) \ {0}
                /\ pc' = [pc EXCEPT ![p] =
                             [at |-> "insert", name |-> name, idx |-> i, lba |-> lba,
                              tab |-> tab, buf |-> IF fresh THEN Empty ELSE block[lba]]]
                /\ UNCHANGED broken
        /\ UNCHANGED <<i_size, i_sectors, table, block>>

\* Whether another call has changed what this one has looked at
Stale(c) ==
    IF c.tab # 0 \/ c.buf = Empty
    THEN c.idx < Direct /\ i_sectors[c.idx] # 0
    ELSE all_blocks[c.idx] # c.lba \/ block[c.lba] # c.buf

\* The entry is written; the inode gets a block that is new.  A table that was
\* there already is forgotten with the entries it led to.
sync_dir_entry_write(p) ==
    LET c == pc[p]
    IN  /\ Runs(p, "insert")
        /\ block' = [block EXCEPT ![c.lba] = [c.buf EXCEPT ![Lowest(Hole(c.buf))] = c.name]]
        /\ i_sectors' = IF c.idx < Direct THEN [i_sectors EXCEPT ![c.idx] = c.lba]
                        ELSE [i_sectors EXCEPT ![Direct] = c.tab]
        /\ table' = IF c.tab = 0 THEN table ELSE [NoTable EXCEPT ![0] = c.lba]
        /\ broken' = IF c.tab # 0 /\ i_sectors[Direct] # 0 THEN "lost"
                     ELSE IF Stale(c) \/ search_dir_entry(c.name) THEN "raced" ELSE "none"
        /\ pc' = [pc EXCEPT ![p] = [Out EXCEPT !.at = "inserted"]]
        /\ UNCHANGED <<i_size, block_bitmap>>

\* Variant: the size stays.
sync_dir_entry_uncounted(p) ==
    /\ Runs(p, "inserted")
    /\ pc' = [pc EXCEPT ![p] = Out]
    /\ UNCHANGED <<i_size, i_sectors, table, block, block_bitmap, broken>>

\* The write has ended.
sync_dir_entry_count(p) ==
    /\ Runs(p, "inserted")
    /\ i_size' = i_size + 1
    /\ pc' = [pc EXCEPT ![p] = Out]
    /\ UNCHANGED <<i_sectors, table, block, block_bitmap, broken>>

-----------------------------------------------------------------------------
\* delete_dir_entry: the block that holds the entry of this inode
delete_dir_entry_read(p, name) ==
    /\ Runs(p, "out") /\ search_dir_entry(name)
    /\ LET i == Lowest({j \in Idxs : Holds(all_blocks[j], name)})
       IN  pc' = [pc EXCEPT ![p] = [at |-> "delete", name |-> name, idx |-> i, tab |-> 0,
                                    lba |-> all_blocks[i], buf |-> block[all_blocks[i]]]]
    /\ UNCHANGED <<i_size, i_sectors, table, block, block_bitmap, broken>>

Others(c) == {s \in 1..Slots : c.buf[s] \notin {None, c.name}}

\* Variant: a block that has lost its last entry is kept.
delete_dir_entry_keeps_block(p) ==
    LET c == pc[p]
    IN  /\ Runs(p, "delete")
        /\ block' = [block EXCEPT ![c.lba] = [s \in 1..Slots |->
                        IF c.buf[s] = c.name THEN None ELSE c.buf[s]]]
        /\ broken' = IF Stale(c) THEN "raced" ELSE "none"
        /\ pc' = [pc EXCEPT ![p] = [Out EXCEPT !.at = "deleted"]]
        /\ UNCHANGED <<i_size, i_sectors, table, block_bitmap>>

\* The entry is cleared and its block written, or given back if nothing else is
\* in it: then i_sectors and i_size change without a wait between.  An indirect
\* block is not given back: the loop that counts them (direct.c:266) is endless.
delete_dir_entry_write(p) ==
    LET c    == pc[p]
        sole == Others(c) = {}
    IN  /\ Runs(p, "delete")
        /\ block' = [block EXCEPT ![c.lba] = [s \in 1..Slots |->
                        IF sole \/ c.buf[s] = c.name THEN None ELSE c.buf[s]]]
        /\ block_bitmap' = IF sole THEN block_bitmap \ {c.lba} ELSE block_bitmap
        /\ i_sectors' = IF sole /\ c.idx < Direct THEN [i_sectors EXCEPT ![c.idx] = 0]
                        ELSE i_sectors
        /\ broken' = IF sole /\ c.idx >= Direct THEN "endless"
                     ELSE IF Stale(c) THEN "raced" ELSE "none"
        /\ i_size' = IF sole /\ c.idx < Direct THEN i_size - 1 ELSE i_size
        /\ pc' = [pc EXCEPT ![p] = IF sole THEN Out ELSE [Out EXCEPT !.at = "deleted"]]
        /\ UNCHANGED table

\* The write has ended.
delete_dir_entry_count(p) ==
    /\ Runs(p, "deleted")
    /\ i_size' = i_size - 1
    /\ pc' = [pc EXCEPT ![p] = Out]
    /\ UNCHANGED <<i_sectors, table, block, block_bitmap, broken>>

stopped == broken # "none" /\ UNCHANGED vars

Next ==
    \/ \E p \in Procs :
        \/ \E n \in Names : sync_dir_entry_read(p, n) \/ delete_dir_entry_read(p, n)
        \/ sync_dir_entry_write(p) \/ sync_dir_entry_count(p)
        \/ delete_dir_entry_write(p) \/ delete_dir_entry_count(p)
    \/ stopped

Spec == Init /\ [][Next]_vars

-----------------------------------------------------------------------------
\* The slots in the order dir_read meets them, and the entry it returns for
\* dir_pos = k: the first one after k others
Places == {x \in Idxs \X (1..Slots) :
              /\ all_blocks[x[1]] # 0
              /\ block[all_blocks[x[1]]][x[2]] # None}
Before(x, y) == x[1] < y[1] \/ (x[1] = y[1] /\ x[2] < y[2])
dir_read(k) ==
    LET x == CHOOSE y \in Places : Cardinality({z \in Places : Before(z, y)}) = k
    IN  block[all_blocks[x[1]]][x[2]]

\* Calls whose entry is written and not counted
Inserted == {p \in Procs : pc[p].at = "inserted"}
Deleted  == {p \in Procs : pc[p].at = "deleted"}

(***************************************************************************)
(* After any inserts and deletes that no other call came between, reading  *)
(* the directory to its size meets every entry that can be found, and none *)
(* twice: dir_read stops at i_size and nowhere else.  (While a call waits  *)
(* for the write of its entry, the size is one off.)                       *)
(***************************************************************************)
ListingComplete ==
    broken = "none" =>
        /\ i_size + Cardinality(Inserted) = Cardinality(Places) + Cardinality(Deleted)
        /\ Inserted \cup Deleted = {} =>
              \A n \in Names : search_dir_entry(n) =>
                 Cardinality({k \in 0..(i_size - 1) : dir_read(k) = n}) = 1

(***************************************************************************)
(* dir_remove asserts that a directory which dir_is_empty accepts has no   *)
(* block but its first: after every sequence of deletes that is so, unless *)
(* an insert waits for the write of its entry, and every block the         *)
(* directory names is marked and named once.                               *)
(***************************************************************************)
EmptyHasOneBlock ==
    broken = "none" =>
        /\ i_size = 1 /\ Inserted = {} => \A i \in 1..Direct : i_sectors[i] = 0
        /\ \A i \in Idxs : all_blocks[i] # 0 =>
              /\ all_blocks[i] \in block_bitmap
              /\ \A j \in Idxs \ {i} : all_blocks[i] # all_blocks[j]
=============================================================================
