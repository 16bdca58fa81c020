------------------------------- MODULE Layout -------------------------------
(***************************************************************************)
(* Where partition_format (fs.c) puts the parts of a partition, and where  *)
(* inode_locate and inode_sync (inode.c) put an inode.  Sizes are those of *)
(* the source; an inode number is given out by inode_bitmap_alloc.         *)
(***************************************************************************)
EXTENDS Integers

CONSTANT Sizes      \* sectors of a partition

SECTOR_SIZE        == 512
BITS_PER_SECTOR    == 4096
MAX_FILES_PER_PART == 4096
InodeSize          == 76        \* sizeof(struct inode)
StartLba           == 2048      \* start_lba of the partition

VARIABLES
    sb,             \* the super block, NoFileSystem before partition_format
    inode_bitmap,   \* numbers below this one are taken
    written         \* sectors the last inode_sync has written

vars == <<sb, inode_bitmap, written>>

NoFileSystem == [inode_table_lba |-> 0, data_start_lba |-> 0]

Init == sb = NoFileSystem /\ inode_bitmap = 0 /\ written = {}

DIV_ROUND_UP(x, step) == (x + step - 1) \div step

\* The size of the inode table is counted in used_sects; the super block gets
\* the size of the inode bitmap in its place (fs.c:58).
partition_format(sec_cnt) ==
    LET inode_bitmap_sects == DIV_ROUND_UP(MAX_FILES_PER_PART, BITS_PER_SECTOR)
        inode_table_sects  == DIV_ROUND_UP(InodeSize * MAX_FILES_PER_PART, SECTOR_SIZE)
        free_sects  == sec_cnt - (2 + inode_table_sects + inode_bitmap_sects)
        bit_len     == free_sects - DIV_ROUND_UP(free_sects, BITS_PER_SECTOR)
        block_bitmap_sects == DIV_ROUND_UP(bit_len, BITS_PER_SECTOR)
        table_lba   == StartLba + 2 + block_bitmap_sects + inode_bitmap_sects
    IN  /\ sb = NoFileSystem
        /\ sb' = [inode_table_lba |-> table_lba,
                  data_start_lba  |-> table_lba + inode_bitmap_sects]
        /\ inode_bitmap' = 1        \* the root's
        /\ UNCHANGED written

\* inode_locate: one sector, or two when the inode lies across their boundary
inode_locate(no) ==
    LET off == no * InodeSize
        sec == sb.inode_table_lba + off \div SECTOR_SIZE
    IN  IF SECTOR_SIZE - (off % SECTOR_SIZE) < InodeSize THEN {sec, sec + 1} ELSE {sec}

\* A new file or directory; inode_sync keeps the number in eight bits.
inode_sync ==
    /\ sb # NoFileSystem /\ inode_bitmap < MAX_FILES_PER_PART
    /\ written' = inode_locate(inode_bitmap % 256)
    /\ inode_bitmap' = inode_bitmap + 1
    /\ UNCHANGED sb

Next == (\E n \in Sizes : partition_format(n)) \/ inode_sync

Spec == Init /\ [][Next]_vars

-----------------------------------------------------------------------------
(***************************************************************************)
(* Every inode number below MAX_FILES_PER_PART, which is what inode_locate *)
(* asserts, has its place in the inode table: writing an inode leaves the  *)
(* data blocks alone, the first of which is the root directory's.          *)
(***************************************************************************)
InodesOutsideData == \A s \in written : s < sb.data_start_lba
=============================================================================
