----------------------------- MODULE OpenFiles ------------------------------
(***************************************************************************)
(* Descriptors, file_table and the list of open inodes: sys_open,          *)
(* sys_close, sys_unlink (fs.c), file_create, file_open, file_close        *)
(* (file.c), inode_open and inode_close (inode.c), and what fork and exit  *)
(* do to them.  The files are in one directory; its blocks are module      *)
(* Directory's and the files' blocks FileData's.                           *)
(*                                                                         *)
(* The callers are processes: a system call runs with interrupts off but   *)
(* gives up the CPU in every ide_read and ide_write, and the file system   *)
(* has no lock, so a call is one action from one disk access that matters  *)
(* to the next.  The calls that main makes before it exits, with           *)
(* interrupts on, are over: Init has the files it and earlier boots left.  *)
(***************************************************************************)
EXTENDS Integers, FiniteSets

CONSTANTS
    Procs, First,   \* processes; the one that runs first
    Files,          \* names
    OnDisk,         \* [Files -> inode number or 0]: the files that exist at first
    NInodes,        \* inode numbers
    NSlots,         \* slots of file_table that are not standard streams
    NFds,           \* descriptors of a process that are not standard streams
    NObjs           \* bound: in-memory inodes

ASSUME OpenFilesAssumption ==
    /\ IsFiniteSet(Procs) /\ First \in Procs /\ 0 \notin Procs
    /\ NInodes \in Nat /\ NSlots \in Nat /\ NFds \in Nat /\ NObjs \in Nat
    /\ OnDisk \in [Files -> 0..NInodes]
    /\ \A f, g \in Files : OnDisk[f] = OnDisk[g] /\ OnDisk[f] # 0 => f = g

Inodes == 1..NInodes
Slots  == 1..NSlots
Fds    == 1..NFds
Objs   == 1..NObjs
None   == 0

VARIABLES
    dir,        \* [Files -> inode number or None]: the entries on disk
    inode_bitmap,
    inode,      \* [Objs -> in-memory inode]
    file_table, \* [Slots -> in-memory inode or None]: fd_inode
    fd_table,   \* [Procs -> [Fds -> slot or None]]
    pc,         \* where a process waits for the disk, and its local variables
    live,       \* processes that exist
    broken      \* why the tables are wrong or the kernel has panicked, "none"
                \* at first; a behaviour is followed up to there

tables == <<inode, file_table, fd_table>>
vars   == <<dir, inode_bitmap, inode, file_table, fd_table, pc, live, broken>>

\* heap: the process in whose heap it is, None for the kernel's
NoInode == [no |-> None, i_open_cnts |-> 0, write_deny |-> FALSE,
            listed |-> FALSE, heap |-> None]
Out     == [at |-> "out", file |-> None, slot |-> None, obj |-> None,
            no |-> None, write |-> FALSE]

Init ==
    /\ dir          = OnDisk
    /\ inode_bitmap = {OnDisk[f] : f \in Files} \ {None}
    /\ inode        = [o \in Objs |-> NoInode]
    /\ file_table   = [s \in Slots |-> None]
    /\ fd_table     = [p \in Procs |-> [d \in Fds |-> None]]
    /\ pc           = [p \in Procs |-> Out]
    /\ live         = {First}
    /\ broken       = "none"

-----------------------------------------------------------------------------
Lowest(S) == CHOOSE x \in S : \A y \in S : x <= y

Runs(p, at) == broken = "none" /\ p \in live /\ pc[p].at = at

\* get_free_slot_in_global, pcb_fd_install, and where sys_malloc puts an inode
FreeSlots     == {s \in Slots : file_table[s] = None}
FreeObjs      == {o \in Objs : inode[o] = NoInode}
get_free_slot == Lowest(FreeSlots)
Installed(p, s) ==
    LET free == {d \in Fds : fd_table[p][d] = None}
    IN  IF free = {} THEN fd_table ELSE [fd_table EXCEPT ![p][Lowest(free)] = s]

\* inode_open: the listed inodes of that number
Listed(no) == {o \in Objs : inode[o].listed /\ inode[o].no = no}

\* A pointer to an inode in another process's heap leads astray.
Foreign(p, o) == inode[o].heap \notin {None, p}
NoneForeign(p) == \A o \in Objs : inode[o].listed => ~Foreign(p, o)

Broken(why, cond) == broken' = IF cond THEN why ELSE broken

\* Where the list stands in memory is not modelled: a call meets a foreign inode
\* on its way along the list or the slots, or next to one it links or unlinks, or
\* it does not.  The calls below say when it must.
foreign(p) ==
    /\ broken = "none" /\ p \in live
    /\ \E o \in Objs : /\ Foreign(p, o)
                       /\ inode[o].listed \/ \E s \in Slots : file_table[s] = o
    /\ broken' = "foreign"
    /\ UNCHANGED <<dir, inode_bitmap, tables, pc, live>>

\* The slot is filled, and write_deny is tested and set for a writer; one that
\* is denied keeps the slot and the inode.
Filled(p, s, o, ino, w) ==
    LET deny == w /\ ino[o].write_deny
    IN  /\ inode'      = IF w THEN [ino EXCEPT ![o].write_deny = TRUE] ELSE ino
        /\ file_table' = [file_table EXCEPT ![s] = o]
        /\ fd_table'   = IF deny THEN fd_table ELSE Installed(p, s)

\* inode_release has opened the inode of the file that it deletes.
Releases(q) == pc[q].at \in {"releasing", "deleting"}

\* Variant: a hit does not count.
file_open_hit_uncounted(p, f, w) ==
    /\ Runs(p, "out") /\ dir[f] # None /\ FreeSlots # {} /\ Listed(dir[f]) # {}
    /\ LET o == Lowest(Listed(dir[f]))
       IN  /\ ~Foreign(p, o)
           /\ Filled(p, get_free_slot, o, inode, w)
           /\ Broken("unlink", \E q \in Procs : Releases(q) /\ pc[q].obj = o)
    /\ UNCHANGED <<dir, inode_bitmap, pc, live>>

\* sys_open of a file whose inode is on the list
file_open_hit(p, f, w) ==
    /\ Runs(p, "out") /\ dir[f] # None /\ FreeSlots # {} /\ Listed(dir[f]) # {}
    /\ LET o == Lowest(Listed(dir[f]))
       IN  /\ ~Foreign(p, o)
           /\ Filled(p, get_free_slot, o, [inode EXCEPT ![o].i_open_cnts = @ + 1], w)
           /\ Broken("unlink", \E q \in Procs : Releases(q) /\ pc[q].obj = o)
    /\ UNCHANGED <<dir, inode_bitmap, pc, live>>

\* Its inode has to be read; the slot is chosen and not taken.
file_open_miss(p, f, w) ==
    /\ Runs(p, "out") /\ dir[f] # None /\ FreeSlots # {} /\ Listed(dir[f]) = {}
    /\ NoneForeign(p)
    /\ pc' = [pc EXCEPT ![p] = [Out EXCEPT !.at = "reading", !.file = f,
                       !.slot = get_free_slot, !.no = dir[f], !.write = w]]
    /\ UNCHANGED <<dir, inode_bitmap, tables, live, broken>>

NewInode(no) == [no |-> no, i_open_cnts |-> 1, write_deny |-> FALSE,
                 listed |-> TRUE, heap |-> None]

\* The disk answers: the inode is listed, whatever has happened meanwhile.
file_open_end(p) ==
    /\ Runs(p, "reading") /\ FreeObjs # {}
    /\ LET r == pc[p]
           o == Lowest(FreeObjs)
       IN  /\ Filled(p, r.slot, o, [inode EXCEPT ![o] = NewInode(r.no)], r.write)
           /\ Broken("open", \/ file_table[r.slot] # None
                             \/ Listed(r.no) # {} \/ dir[r.file] # r.no)
    /\ pc' = [pc EXCEPT ![p] = Out]
    /\ UNCHANGED <<dir, inode_bitmap, live>>

-----------------------------------------------------------------------------
\* file_create until sync_dir_entry: number, inode and slot are taken.  The
\* inode is in the heap of the caller.
file_create(p, f) ==
    /\ Runs(p, "out") /\ dir[f] = None /\ FreeSlots # {} /\ FreeObjs # {}
    /\ Inodes \ inode_bitmap # {}
    /\ LET no == Lowest(Inodes \ inode_bitmap)
           o  == Lowest(FreeObjs)
           s  == get_free_slot
       IN  /\ inode_bitmap' = inode_bitmap \cup {no}
           /\ inode'        = [inode EXCEPT ![o] = [NoInode EXCEPT !.no = no, !.heap = p]]
           /\ file_table'   = [file_table EXCEPT ![s] = o]
           /\ pc'           = [pc EXCEPT ![p] = [Out EXCEPT !.at = "creating",
                                  !.file = f, !.slot = s, !.obj = o, !.no = no]]
    /\ UNCHANGED <<dir, fd_table, live, broken>>

\* No free slot: file_open returns, file_create gives the number back.
no_slot(p) == Runs(p, "out") /\ FreeSlots = {} /\ UNCHANGED vars

\* sync_dir_entry finds the directory full: steps 3 to 1 of the rollback
file_create_rollback(p) ==
    /\ Runs(p, "creating")
    /\ file_table'   = [file_table EXCEPT ![pc[p].slot] = None]
    /\ inode'        = [inode EXCEPT ![pc[p].obj] = NoInode]
    /\ inode_bitmap' = inode_bitmap \ {pc[p].no}
    /\ pc'           = [pc EXCEPT ![p] = Out]
    /\ Broken("create", file_table[pc[p].slot] # pc[p].obj)
    /\ UNCHANGED <<dir, fd_table, live>>

\* sync_dir_entry: the name is there for all to see.
file_create_entry(p) ==
    /\ Runs(p, "creating")
    /\ Broken("create", dir[pc[p].file] # None)
    /\ dir' = [dir EXCEPT ![pc[p].file] = pc[p].no]
    /\ pc'  = [pc EXCEPT ![p].at = "created"]
    /\ UNCHANGED <<inode_bitmap, tables, live>>

\* After both inode_sync and bitmap_sync: the inode is listed.
file_create_end(p) ==
    /\ Runs(p, "created")
    /\ inode' = [inode EXCEPT ![pc[p].obj].listed = TRUE,
                              ![pc[p].obj].i_open_cnts = 1]
    /\ Broken("create", Listed(pc[p].no) # {} \/ pc[p].no \notin inode_bitmap)
    /\ fd_table' = Installed(p, pc[p].slot)
    /\ pc' = [pc EXCEPT ![p] = Out]
    /\ UNCHANGED <<dir, inode_bitmap, file_table, live>>

-----------------------------------------------------------------------------
\* inode_close: sys_free of an inode in a process's heap fails its ASSERT.
Closed(ino, o) ==
    IF ino[o].i_open_cnts = 1 THEN [ino EXCEPT ![o] = NoInode]
    ELSE [ino EXCEPT ![o].i_open_cnts = @ - 1]
CloseFails(o) == o = None \/ (inode[o].i_open_cnts = 1 /\ inode[o].heap # None)

Names(s) == {x \in Procs \X Fds : fd_table[x[1]][x[2]] = s}

\* write_deny is cleared whoever closes, the slot whoever else names it.
sys_close(p, d) ==
    /\ Runs(p, "out") /\ fd_table[p][d] # None
    /\ LET s == fd_table[p][d]
           o == file_table[s]
       IN  IF CloseFails(o)
           THEN broken' = "panic" /\ UNCHANGED tables
           ELSE /\ inode' = Closed([inode EXCEPT ![o].write_deny = FALSE], o)
                /\ file_table' = [file_table EXCEPT ![s] = None]
                /\ fd_table' = [fd_table EXCEPT ![p][d] = None]
                /\ Broken("fork", Cardinality(Names(s)) > 1)
    /\ UNCHANGED <<dir, inode_bitmap, pc, live>>

\* Variant: the last slot is not looked at.
InUse_but_last(no) == \E s \in Slots \ {NSlots} : /\ file_table[s] # None
                                                 /\ inode[file_table[s]].no = no

\* sys_unlink: a file that some slot names is in use.
InUse(no) == \E s \in Slots : /\ file_table[s] # None
                              /\ inode[file_table[s]].no = no

sys_unlink(p, f) ==
    /\ Runs(p, "out") /\ dir[f] # None /\ ~InUse(dir[f])
    /\ \A s \in Slots : file_table[s] # None => ~Foreign(p, file_table[s])
    /\ pc' = [pc EXCEPT ![p] = [Out EXCEPT !.at = "unlinking", !.file = f, !.no = dir[f]]]
    /\ UNCHANGED <<dir, inode_bitmap, tables, live, broken>>

delete_dir_entry(p) ==
    /\ Runs(p, "unlinking")
    /\ Broken("unlink", dir[pc[p].file] # pc[p].no \/ InUse(pc[p].no))
    /\ dir' = [dir EXCEPT ![pc[p].file] = None]
    /\ pc'  = [pc EXCEPT ![p].at = "unlinked"]
    /\ UNCHANGED <<inode_bitmap, tables, live>>

\* inode_release opens the inode: it is not on the list and has to be read.
inode_release_walk(p) ==
    /\ Runs(p, "unlinked") /\ NoneForeign(p)
    /\ Broken("unlink", Listed(pc[p].no) # {})
    /\ pc' = [pc EXCEPT ![p].at = "opening"]
    /\ UNCHANGED <<dir, inode_bitmap, tables, live>>

inode_release_opened(p) ==
    /\ Runs(p, "opening") /\ FreeObjs # {}
    /\ LET o == Lowest(FreeObjs)
       IN  /\ inode' = [inode EXCEPT ![o] = NewInode(pc[p].no)]
           /\ pc'    = [pc EXCEPT ![p].at = "releasing", ![p].obj = o]
    /\ Broken("unlink", Listed(pc[p].no) # {})
    /\ UNCHANGED <<dir, inode_bitmap, file_table, fd_table, live>>

\* The blocks are free, and now the number; the inode on disk is still there.
inode_release_number(p) ==
    /\ Runs(p, "releasing")
    /\ inode_bitmap' = inode_bitmap \ {pc[p].no}
    /\ pc' = [pc EXCEPT ![p].at = "deleting"]
    /\ UNCHANGED <<dir, tables, live, broken>>

\* inode_delete has overwritten it, whoever has the number now; inode_close.
sys_unlink_end(p) ==
    /\ Runs(p, "deleting")
    /\ Broken("unlink", pc[p].no \in inode_bitmap)
    /\ inode' = Closed(inode, pc[p].obj)
    /\ pc' = [pc EXCEPT ![p] = Out]
    /\ UNCHANGED <<dir, inode_bitmap, file_table, fd_table, live>>

-----------------------------------------------------------------------------
Owns(p) == \E o \in Objs : inode[o].heap = p

\* copy_pcb and updata_inode_open: the slots are shared, the inodes counted.  One
\* in the parent's heap was copied with its pages and now has two counts.
sys_fork(p, c) ==
    /\ Runs(p, "out") /\ c \notin live
    /\ \A d \in Fds : fd_table[p][d] # None => file_table[fd_table[p][d]] # None
    /\ live' = live \cup {c}
    /\ fd_table' = [fd_table EXCEPT ![c] = fd_table[p]]
    /\ inode' = [o \in Objs |-> [inode[o] EXCEPT !.i_open_cnts = @ + Cardinality(
                   {d \in Fds : /\ fd_table[p][d] # None
                                /\ file_table[fd_table[p][d]] = o})]]
    /\ Broken("foreign", Owns(p))
    /\ UNCHANGED <<dir, inode_bitmap, file_table, pc>>

\* sys_exit, once release_prog_resource has closed every descriptor.  An inode in
\* the heap, kept by an open that was denied, goes with the heap.
sys_exit(p) ==
    /\ Runs(p, "out") /\ p # First
    /\ \A d \in Fds : fd_table[p][d] = None
    /\ live' = live \ {p}
    /\ Broken("foreign", Owns(p))
    /\ UNCHANGED <<dir, inode_bitmap, tables, pc>>

\* panic_spin, and the end of what is followed
stopped == broken # "none" /\ UNCHANGED vars

Next ==
    \/ \E p \in Procs :
        \/ \E f \in Files :
            \/ \E w \in BOOLEAN : file_open_hit(p, f, w) \/ file_open_miss(p, f, w)
            \/ file_create(p, f) \/ sys_unlink(p, f)
        \/ no_slot(p) \/ file_create_rollback(p)
        \/ file_open_end(p) \/ file_create_entry(p) \/ file_create_end(p)
        \/ delete_dir_entry(p) \/ inode_release_walk(p) \/ inode_release_opened(p)
        \/ inode_release_number(p) \/ sys_unlink_end(p) \/ foreign(p)
        \/ \E d \in Fds : sys_close(p, d)
        \/ \E c \in Procs : sys_fork(p, c)
        \/ sys_exit(p)
    \/ stopped

Spec == Init /\ [][Next]_vars

-----------------------------------------------------------------------------
(***************************************************************************)
(* While no two calls have met between disk accesses, no shared slot was   *)
(* closed and no pointer led into another heap, a number has one listed    *)
(* inode, and its count is what inode_close relies on to free it: the      *)
(* descriptors that lead to it, the slots that failed opens have left      *)
(* behind, and the inode_release that deletes it.                          *)
(***************************************************************************)
OpenCounts ==
    broken = "none" =>
        /\ \A no \in Inodes : Cardinality(Listed(no)) <= 1
        /\ \A o \in Objs : inode[o].listed =>
              LET slots == {s \in Slots : file_table[s] = o}
              IN  inode[o].i_open_cnts =
                     Cardinality(UNION {Names(s) : s \in slots})
                       + Cardinality({s \in slots : Names(s) = {}})
                       + Cardinality({q \in Procs : Releases(q) /\ pc[q].obj = o})

(***************************************************************************)
(* Under the same condition a descriptor leads to an inode that is listed  *)
(* and whose file still has its name and its number: nobody else is given  *)
(* the number or the blocks of a file that is open.                        *)
(***************************************************************************)
OpenFilesExist ==
    broken = "none" =>
        \A p \in Procs, d \in Fds : fd_table[p][d] # None =>
            LET o == file_table[fd_table[p][d]]
            IN  /\ o # None /\ inode[o].listed
                /\ inode[o].no \in inode_bitmap
                /\ \E f \in Files : dir[f] = inode[o].no
=============================================================================
