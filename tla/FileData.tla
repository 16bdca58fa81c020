------------------------------ MODULE FileData ------------------------------
(***************************************************************************)
(* The bytes of regular files: file_write and file_read (file.c),          *)
(* sys_lseek (fs.c), inode_sync, inode_release and inode_delete (inode.c), *)
(* with the block bitmap and the inodes in memory and on disk, and what    *)
(* mount_partition finds after a crash at any disk access.                 *)
(*                                                                         *)
(* A file has one descriptor and one process at a time working on it       *)
(* (module OpenFiles is about the others); two files are worked on at      *)
(* once.  Their inodes are in one sector of the inode table.  Byte i of    *)
(* file f is <<f, i>>.  Data block b of the partition is at LBA b + 1;     *)
(* block 0 is the root directory's and LBA 0 is the boot sector.           *)
(*                                                                         *)
(* The callers are processes, so a call is left at disk accesses only; the *)
(* calls main makes at start-up, with interrupts on, are over.  The writes *)
(* of the block bitmap within one file_write are one step, its first: what *)
(* other calls allocate between them is a matter of which blocks are free, *)
(* and bits that are on disk ahead of the inode cover blocks nobody names. *)
(***************************************************************************)
EXTENDS Integers, FiniteSets

CONSTANTS
    Regular,        \* files
    Watched,        \* the file whose descriptor's position is followed
    Deleted,        \* bound: files that are unlinked and created again
    BlockSize,      \* BLOCK_SIZE: bytes of a block
    Direct,         \* 12
    Indirect,       \* 128: entries of the indirect table
    NBlocks,        \* bits of block_bitmap
    SectorBits,     \* bits of block_bitmap that bitmap_sync writes at once
    Counts,         \* bound: [Regular -> sizes of a read or a write]
    PosBits         \* bound: width of fd_pos

ASSUME FileDataAssumption ==
    /\ Watched \in Regular /\ Deleted \subseteq Regular
    /\ BlockSize \in Nat \ {0} /\ Direct \in Nat \ {0} /\ Indirect \in Nat \ {0}
    /\ NBlocks \in Nat \ {0} /\ SectorBits \in Nat \ {0} /\ PosBits \in Nat
    /\ \A f \in Regular : Counts[f] \subseteq Nat

MaxBlocks == Direct + Indirect
Lbas      == 0..NBlocks
Zero      == <<>>                       \* a byte nobody wrote
Off       == 0..(BlockSize - 1)

VARIABLES
    minode,         \* [Regular -> [i_size, i_sectors]] in memory
    dinode,         \* the same on disk
    entry,          \* files that have a directory entry, on disk
    block_bitmap,   \* blocks taken, in memory
    disk_bitmap,    \* and on disk
    data, table,    \* blocks by LBA: as bytes, as indirect table
    fd_pos,         \* of the descriptor of Watched
    call,           \* the call in progress on a file, and its local variables
    acked,          \* history: bytes that file_write has said are written
    crossed,        \* history: files that went from direct to indirect blocks
    lost            \* "none", or why the disk is wrong or the kernel panicked;
                    \* a behaviour is followed up to there

mem  == <<minode, block_bitmap, fd_pos>>
disk == <<dinode, entry, disk_bitmap, data, table>>
hist == <<acked, crossed, lost>>
data_vars == <<mem, disk, call, hist>>

EmptyInode == [i_size |-> 0, i_sectors |-> [i \in 0..Direct |-> 0]]
NoBlocks   == [i \in 0..(MaxBlocks - 1) |-> 0]
NoCall     == [at |-> "out", left |-> 0, blocks |-> NoBlocks, count |-> 0, buf |-> <<>>]

DataInit ==
    /\ minode = [f \in Regular |-> EmptyInode] /\ dinode = minode
    /\ entry = Regular
    /\ block_bitmap = {0} /\ disk_bitmap = {0}
    /\ data  = [a \in Lbas |-> [o \in Off |-> Zero]]
    /\ table = [a \in Lbas |-> [i \in 0..(Indirect - 1) |-> 0]]
    /\ fd_pos = 0
    /\ call   = [f \in Regular |-> NoCall]
    /\ acked  = [f \in Regular |-> 0]
    /\ crossed = {} /\ lost = "none"

At(f, at) == lost = "none" /\ call[f].at = at

Seek(f, pos) == fd_pos' = IF f = Watched THEN pos % 2^PosBits ELSE fd_pos

-----------------------------------------------------------------------------
\* block_bitmap_alloc n times: the lowest free blocks, as LBAs in order
Free    == (0..(NBlocks - 1)) \ block_bitmap
Taken(n) ==
    [k \in 1..n |-> 1 + CHOOSE b \in Free : Cardinality({c \in Free : c < b}) = k - 1]
Blocks(lbas) == {a - 1 : a \in lbas}

\* Variant: nothing is written.
bitmap_sync_none(on_disk, bitmap, bits) == on_disk

\* bitmap_sync: the sectors that hold these bits are written.
bitmap_sync(on_disk, bitmap, bits) ==
    LET written == {b \in 0..(NBlocks - 1) :
                       \E c \in bits : c \div SectorBits = b \div SectorBits}
    IN  (on_disk \ written) \cup (bitmap \cap written)

\* How many blocks file_write needs, from sizes before and after
UsedBlocks(size) == size \div BlockSize + 1

\* file_write, file.c:233-327: the i_sectors, all_blocks and indirect table that
\* the write of n bytes ends up with, "fresh" being the blocks it is given.
\* The block that holds the present end of the file is in all_blocks unless the
\* write is the one that crosses to indirect blocks.
Grown(ino, n, fresh) ==
    LET has    == UsedBlocks(ino.i_size)
        will   == UsedBlocks(ino.i_size + n)
        first  == IF ino.i_sectors[0] = 0 THEN 1 ELSE 0
        cross  == has <= Direct /\ will > Direct
        next   == first + (IF cross THEN 1 ELSE 0)  \* fresh blocks used before
        new(i) == fresh[next + i - has + 1]         \* the one at index i
        old(i) == IF first = 1 /\ i = 0 THEN fresh[1] ELSE ino.i_sectors[i]
        ind    == IF cross THEN fresh[next] ELSE ino.i_sectors[Direct]
        tab    == [i \in 0..(Indirect - 1) |->
                      IF cross THEN IF Direct + i < will THEN new(Direct + i) ELSE 0
                      ELSE table[ind][i]]
    IN  [sectors |-> [i \in 0..Direct |->
                         IF i = Direct THEN ind
                         ELSE IF i \in has..(will - 1) THEN new(i) ELSE old(i)],
         table   |-> tab,
         blocks  |-> [i \in 0..(MaxBlocks - 1) |->
                         CASE i \in has..(will - 1) -> new(i)
                           [] i = has - 1 /\ will <= Direct -> old(i)
                           [] i >= Direct /\ has > Direct -> tab[i - Direct]
                           [] OTHER -> 0]]

\* Blocks to allocate.  Growth within the indirect table never ends: the loop
\* of file.c:315 does not advance block_idx.
Needed(ino, n) ==
    LET has  == UsedBlocks(ino.i_size)
        will == UsedBlocks(ino.i_size + n)
    IN  (IF ino.i_sectors[0] = 0 THEN 1 ELSE 0)
        + (IF has <= Direct /\ will > Direct THEN 1 ELSE 0)
        + (IF has > Direct /\ will > has THEN NBlocks + 1 ELSE will - has)

\* file_write until its first chunk.  A write of no bytes takes a block too.
file_write(f, n) ==
    LET ino   == minode[f]
        need  == Needed(ino, n)
        fresh == Taken(need)
        g     == Grown(ino, n, fresh)
        used  == Blocks({fresh[k] : k \in 1..need})
        cross == UsedBlocks(ino.i_size) <= Direct /\ g.sectors[Direct] # ino.i_sectors[Direct]
        first == IF ino.i_sectors[0] = 0 THEN Blocks({fresh[1]}) ELSE {}
        last  == used \ (first \cup IF cross THEN Blocks({g.sectors[Direct]}) ELSE {})
    IN  /\ At(f, "out") /\ f \in entry
        /\ ino.i_size + n < BlockSize * MaxBlocks
        /\ need <= Cardinality(Free)
        /\ minode' = [minode EXCEPT ![f].i_sectors = g.sectors]
        /\ block_bitmap' = block_bitmap \cup used
        /\ disk_bitmap'  = bitmap_sync(bitmap_sync(disk_bitmap, block_bitmap \cup first, first),
                                        block_bitmap', last)
        /\ table' = IF cross THEN [table EXCEPT ![g.sectors[Direct]] = g.table] ELSE table
        /\ crossed' = IF cross THEN crossed \cup {f} ELSE crossed
        /\ Seek(f, ino.i_size - 1)
        /\ call' = [call EXCEPT ![f] = [NoCall EXCEPT !.at = IF n = 0 THEN "sync" ELSE "chunk",
                                       !.left = n, !.count = n, !.blocks = g.blocks]]
        /\ UNCHANGED <<dinode, entry, data, acked, lost>>

\* The assertions of file_write and of bitmap_scan: a file of the largest size
\* would need one block too many, and a full partition has none to give.
file_write_panics(f, n) ==
    LET ino == minode[f]
        need == Needed(ino, n)
        cross == UsedBlocks(ino.i_size) <= Direct /\ UsedBlocks(ino.i_size + n) > Direct
    IN  /\ At(f, "out") /\ f \in entry
        /\ \/ /\ ino.i_size + n = BlockSize * MaxBlocks
              /\ UNCHANGED disk_bitmap
           \/ /\ ino.i_size + n < BlockSize * MaxBlocks /\ need > Cardinality(Free)
              /\ \E unsynced \in {{}} \cup {{b} : b \in IF cross THEN Free ELSE {}} :
                    disk_bitmap' = bitmap_sync(disk_bitmap, block_bitmap \cup Free, Free \ unsynced)
        /\ lost' = "panic"
        /\ UNCHANGED <<mem, dinode, entry, data, table, call, acked, crossed>>

\* One turn of the loop of file.c:331: read the block first, once; write it.
file_write_chunk(f) ==
    LET c    == call[f]
        size == minode[f].i_size
        a    == c.blocks[size \div BlockSize]
        off  == size % BlockSize
        n    == IF c.left < BlockSize - off THEN c.left ELSE BlockSize - off
    IN  /\ At(f, "chunk")
        /\ data' = [data EXCEPT ![a] = [o \in Off |->
                       IF o \in off..(off + n - 1) THEN <<f, size + o - off>>
                       ELSE IF c.left = c.count THEN data[a][o] ELSE Zero]]
        /\ minode' = [minode EXCEPT ![f].i_size = @ + n]
        /\ Seek(f, fd_pos + n)
        /\ call' = [call EXCEPT ![f].left = @ - n, ![f].at = IF c.left = n THEN "sync" ELSE @]
        /\ UNCHANGED <<dinode, entry, disk_bitmap, table, block_bitmap, hist>>

\* inode_sync and inode_delete: the sector is read ...
inode_sync_read(f) ==
    /\ At(f, "sync")
    /\ call' = [call EXCEPT ![f].at = "synced", ![f].buf = dinode]
    /\ UNCHANGED <<mem, disk, hist>>

\* Variant: the inode is not written back.
inode_sync_lost(f) ==
    /\ At(f, "synced")
    /\ acked'  = [acked EXCEPT ![f] = minode[f].i_size]
    /\ call'   = [call EXCEPT ![f] = NoCall]
    /\ UNCHANGED <<mem, disk, crossed, lost>>

\* ... and written back with this inode changed; the call returns.
inode_sync_write(f) ==
    /\ At(f, "synced")
    /\ dinode' = [call[f].buf EXCEPT ![f] = minode[f]]
    /\ lost' = IF \E g \in Regular \ {f} : call[f].buf[g] # dinode[g] THEN "raced" ELSE "none"
    /\ acked'  = [acked EXCEPT ![f] = minode[f].i_size]
    /\ call'   = [call EXCEPT ![f] = NoCall]
    /\ UNCHANGED <<mem, entry, disk_bitmap, data, table, crossed>>

-----------------------------------------------------------------------------
\* all_blocks of file_read
ReadBlocks(ino) ==
    [i \in 0..(MaxBlocks - 1) |-> IF i < Direct THEN ino.i_sectors[i]
                                  ELSE table[ino.i_sectors[Direct]][i - Direct]]

\* Byte i of a file as file_read finds it
ByteAt(ino, i) == data[ReadBlocks(ino)[i \div BlockSize]][i % BlockSize]

\* file_read: bytes to read from pos, cut at the end of the file
ReadSize(ino, pos, n) ==
    IF (pos + n) % 2^PosBits > ino.i_size THEN (ino.i_size - pos) % 2^PosBits ELSE n

ReadAsserts(ino, pos, n) ==
    /\ pos \div BlockSize < MaxBlocks - 1
    /\ ((pos + ReadSize(ino, pos, n)) % 2^PosBits) \div BlockSize < MaxBlocks - 1

\* sys_read; nothing happens at the end of the file.
sys_read(n) ==
    LET size == ReadSize(minode[Watched], fd_pos, n)
    IN  /\ At(Watched, "out") /\ Watched \in entry
        /\ size > 0 /\ ReadAsserts(minode[Watched], fd_pos, n)
        /\ fd_pos' = (fd_pos + size) % 2^PosBits
        /\ UNCHANGED <<minode, block_bitmap, disk, call, hist>>

sys_read_panics(n) ==
    /\ At(Watched, "out") /\ Watched \in entry
    /\ ReadSize(minode[Watched], fd_pos, n) > 0 /\ ~ReadAsserts(minode[Watched], fd_pos, n)
    /\ lost' = "panic"
    /\ UNCHANGED <<mem, disk, call, acked, crossed>>

\* sys_lseek: any whence and offset that stay before the last byte
sys_lseek(pos) ==
    /\ At(Watched, "out") /\ Watched \in entry
    /\ pos <= minode[Watched].i_size - 1
    /\ fd_pos' = pos
    /\ UNCHANGED <<minode, block_bitmap, disk, call, hist>>

\* The last close, and an open that reads the inode again
sys_open(f) ==
    /\ At(f, "out") /\ f \in entry
    /\ minode' = [minode EXCEPT ![f] = dinode[f]]
    /\ Seek(f, 0)
    /\ UNCHANGED <<block_bitmap, disk, call, hist>>

-----------------------------------------------------------------------------
Refs(ino) ==
    Blocks(({ino.i_sectors[i] : i \in 0..Direct}
            \cup (IF ino.i_sectors[Direct] = 0 THEN {}
                  ELSE {table[ino.i_sectors[Direct]][i] : i \in 0..(Indirect - 1)})) \ {0})

\* sys_unlink: delete_dir_entry first,
sys_unlink_entry(f) ==
    /\ At(f, "out") /\ f \in entry \cap Deleted
    /\ entry' = entry \ {f}
    /\ call' = [call EXCEPT ![f] = [NoCall EXCEPT !.at = "release"]]
    /\ UNCHANGED <<mem, dinode, disk_bitmap, data, table, hist>>

\* then inode_release, which gives the blocks back and ends in inode_delete.
inode_release(f) ==
    LET freed == Refs(dinode[f])
    IN  /\ At(f, "release")
        /\ block_bitmap' = block_bitmap \ freed
        /\ disk_bitmap'  = bitmap_sync(disk_bitmap, block_bitmap', freed)
        /\ minode' = [minode EXCEPT ![f] = EmptyInode]
        /\ call' = [call EXCEPT ![f].at = "sync"]
        /\ crossed' = crossed \ {f}
        /\ UNCHANGED <<dinode, entry, data, table, fd_pos, acked, lost>>

\* file_create: the entry is on disk before the inode is.
file_create_empty(f) ==
    /\ At(f, "out") /\ f \notin entry
    /\ entry'  = entry \cup {f}
    /\ minode' = [minode EXCEPT ![f] = EmptyInode]
    /\ Seek(f, 0)
    /\ call' = [call EXCEPT ![f] = [NoCall EXCEPT !.at = "sync", !.count = -1]]
    /\ UNCHANGED <<dinode, disk_bitmap, data, table, block_bitmap, hist>>

-----------------------------------------------------------------------------
\* The power fails, at any disk access or after a panic; mount_partition reads
\* the bitmap and inode_open the inodes.
Creating(f) == call[f].count = -1
Torn     == \E f \in entry : Creating(f)
Unmarked == \E f \in entry : ~(Refs(dinode[f]) \subseteq disk_bitmap)

reboot ==
    /\ lost \in {"none", "panic"}
    /\ minode' = dinode /\ block_bitmap' = disk_bitmap
    /\ fd_pos' = 0
    /\ call' = [f \in Regular |-> NoCall]
    /\ acked' = [f \in Regular |-> IF f \in entry THEN acked[f] ELSE 0]
    /\ lost' = IF Torn THEN "torn" ELSE IF Unmarked THEN "unmarked" ELSE "none"
    /\ UNCHANGED <<disk, crossed>>

data_stopped == lost \notin {"none", "panic"} /\ UNCHANGED data_vars

DataNext ==
    \/ \E f \in Regular :
        \/ \E n \in Counts[f] : file_write(f, n) \/ file_write_panics(f, n)
        \/ file_write_chunk(f) \/ inode_sync_read(f) \/ inode_sync_write(f)
        \/ sys_open(f) \/ sys_unlink_entry(f) \/ inode_release(f) \/ file_create_empty(f)
    \/ \E n \in Counts[Watched] : sys_read(n) \/ sys_read_panics(n)
    \/ \E pos \in 0..(BlockSize * MaxBlocks - 1) : sys_lseek(pos)
    \/ reboot \/ data_stopped

DataSpec == DataInit /\ [][DataNext]_data_vars

-----------------------------------------------------------------------------
ReadsBack(f) == \A i \in 0..(minode[f].i_size - 1) : ByteAt(minode[f], i) = <<f, i>>

(***************************************************************************)
(* What file_write has reported as written is in the file, and every byte  *)
(* of the file reads back as written there, whatever is done meanwhile to  *)
(* the other file and wherever the power failed in between; files that     *)
(* have crossed to indirect blocks excepted.                               *)
(***************************************************************************)
WritesSurvive ==
    lost = "none" =>
        \A f \in entry \ crossed : /\ call[f].at = "out" => minode[f].i_size >= acked[f]
                                   /\ ReadsBack(f)

(***************************************************************************)
(* No block belongs to two files or to a file and the root directory, and  *)
(* a block of a file is marked, in memory and on disk: the next mount does *)
(* not give it away again.  Only a file with an indirect table, whose bit  *)
(* file_write does not write, may lose a mark, and only a file that is     *)
(* being created may still have an older one's inode on disk.              *)
(***************************************************************************)
BlocksOwned ==
    /\ lost = "unmarked" => crossed # {}
    /\ lost = "none" /\ crossed = {} =>
        \A f \in entry :
            /\ ~Creating(f) => Refs(dinode[f]) \subseteq disk_bitmap \ {0}
            /\ Refs(minode[f]) \subseteq block_bitmap \ {0}
            /\ \A g \in entry \ {f} : Refs(minode[f]) \cap Refs(minode[g]) = {}

(***************************************************************************)
(* A file may have up to BLOCK_SIZE * 140 bytes ("exceed max file_size     *)
(* 71680 bytes, write failed"): one that is smaller reads back.            *)
(***************************************************************************)
LargeFilesReadBack == lost = "none" => \A f \in entry : ReadsBack(f)
=============================================================================
