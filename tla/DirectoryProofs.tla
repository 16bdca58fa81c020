-------------------------- MODULE DirectoryProofs ---------------------------
(***************************************************************************)
(* The entries of a directory, for any number of processes, names, blocks  *)
(* and entries to a block: while no call has come between the parts of     *)
(* another, i_size is the number of entries, reading to it meets every     *)
(* entry once, and no block is empty, unmarked or named twice.             *)
(***************************************************************************)
EXTENDS Directory, FiniteSetTheorems, WellFoundedInduction, TLAPS

(***************************************************************************)
(* The ranges of the state.                                                *)
(***************************************************************************)
Entries == Names \cup {None, Dots}
Buffers == [1..Slots -> Entries]
Calls   == [at : {"out", "insert", "inserted", "delete", "deleted"}, name : Names \cup {None}, idx : Idxs,
            lba : 0..NBlocks, tab : 0..NBlocks, buf : Buffers]

DirectoryTypeOK ==
    /\ i_size \in Int
    /\ i_sectors \in [0..Direct -> 0..NBlocks]
    /\ table \in [0..(Indirect - 1) -> 0..NBlocks]
    /\ block \in [Lbas -> Buffers]
    /\ block_bitmap \subseteq Lbas
    /\ pc \in [Procs -> Calls]
    /\ broken \in {"none", "panic", "lost", "raced", "endless"}

-----------------------------------------------------------------------------
(***************************************************************************)
(* The inductive invariant.                                                *)
(***************************************************************************)
Entry(x) == block[all_blocks[x[1]]][x[2]]

\* A block the directory names is marked, named once and not empty.
BlocksOK ==
    \A i \in Idxs : all_blocks[i] # 0 =>
        /\ all_blocks[i] \in block_bitmap
        /\ \A j \in Idxs \ {i} : all_blocks[i] # all_blocks[j]
        /\ \E s \in 1..Slots : block[all_blocks[i]][s] # None

\* "." and ".." are in the first block.
DotsOK == all_blocks[0] # 0 /\ \E s \in 1..Slots : block[all_blocks[0]][s] = Dots

\* There is a table only with a block in it, its first.
TableOK == /\ i_sectors[Direct] # 0 => table[0] # 0
           /\ \A i \in 1..(Indirect - 1) : table[i] = 0

\* A name is in one place.
NamesOK == \A x, y \in Places : Entry(x) = Entry(y) /\ Entry(x) \in Names => x = y

\* The size counts the entries, but for the calls that have not got that far.
SizeOK == i_size + Cardinality(Inserted) = Cardinality(Places) + Cardinality(Deleted)

\* An insert that has taken a block, which nobody else knows of
Fresh(c) == c.at = "insert" /\ c.buf = Empty

CallsOK ==
    \A p \in Procs : pc[p].at \in {"insert", "delete"} =>
        /\ pc[p].name \in Names /\ pc[p].lba \in Lbas
        /\ pc[p].at = "insert" =>
            /\ IF pc[p].tab = 0 THEN pc[p].idx < Direct ELSE pc[p].idx = Direct /\ Fresh(pc[p])
            /\ \E s \in 1..Slots : pc[p].buf[s] = None
        /\ pc[p].at = "delete" =>
            pc[p].tab = 0 /\ \E s \in 1..Slots : pc[p].buf[s] = pc[p].name

FreshOK ==
    \A p \in Procs : Fresh(pc[p]) =>
        /\ pc[p].lba \in block_bitmap
        /\ \A i \in Idxs : all_blocks[i] # pc[p].lba
        /\ \A q \in Procs \ {p} : Fresh(pc[q]) => pc[q].lba # pc[p].lba

IInv ==
    /\ DirectoryTypeOK
    /\ broken = "none" => /\ BlocksOK /\ DotsOK /\ TableOK /\ NamesOK /\ SizeOK
                          /\ CallsOK /\ FreshOK

-----------------------------------------------------------------------------
(***************************************************************************)
(* Facts about the constants and about the blocks of the directory.        *)
(***************************************************************************)
LEMMA ConstantsAre ==
  /\ Slots \in Nat /\ Slots > 0 /\ Direct \in Nat /\ Direct > 0
  /\ Indirect \in Nat /\ Indirect > 0 /\ NBlocks \in Nat /\ NBlocks > 0
  /\ None \notin Names /\ Dots \notin Names /\ None # Dots
  /\ Direct \in Idxs /\ 0 \in Idxs /\ Idxs \subseteq Nat /\ 0 \notin Lbas
  /\ Lbas \subseteq 0..NBlocks /\ 0 \in 0..NBlocks
BY DirectoryAssumption DEF None, Dots, Idxs, Lbas

LEMMA LowestIs ==
  ASSUME NEW S, S \subseteq Nat, S # {}
  PROVE  Lowest(S) \in S /\ \A y \in S : Lowest(S) <= y
<1>1. PICK x \in S : \A y \in S : ~(<<y, x>> \in OpToRel(<, Nat))
  BY NatLessThanWellFounded, WFMin, Zenon
<1>2. ASSUME NEW y \in S PROVE x <= y
  <2>1. ~(y < x)
    BY <1>1 DEF OpToRel
  <2> QED
    BY <2>1
<1> QED
  BY <1>2 DEF Lowest

LEMMA AllBlocksIs ==
  ASSUME DirectoryTypeOK
  PROVE  /\ all_blocks \in [Idxs -> 0..NBlocks]
         /\ \A i \in Idxs : i < Direct => all_blocks[i] = i_sectors[i]
         /\ \A i \in Idxs : i >= Direct /\ i_sectors[Direct] # 0 =>
                all_blocks[i] = table[i - Direct]
         /\ \A i \in Idxs : i >= Direct /\ i_sectors[Direct] = 0 => all_blocks[i] = 0
<1> USE ConstantsAre
<1>1. ASSUME NEW i \in Idxs
      PROVE  /\ i < Direct => i \in 0..Direct
             /\ i >= Direct => i - Direct \in 0..(Indirect - 1)
  BY DEF Idxs
<1>2. all_blocks \in [Idxs -> 0..NBlocks]
  BY <1>1 DEF DirectoryTypeOK, all_blocks
<1> QED
  BY <1>1, <1>2 DEF all_blocks

LEMMA PlacesAre ==
  /\ Places \in SUBSET (Idxs \X (1..Slots))
  /\ IsFiniteSet(Places) /\ Cardinality(Places) \in Nat
<1>1. Places \in SUBSET (Idxs \X (1..Slots))
  BY DEF Places
<1>2. IsFiniteSet(Idxs) /\ IsFiniteSet(1..Slots)
  <2>1. Direct + Indirect - 1 \in Int /\ 1 \in Int /\ Slots \in Int /\ 0 \in Int
    BY ConstantsAre
  <2> QED
    BY <2>1, FS_Interval DEF Idxs
<1> QED
  BY <1>1, <1>2, FS_Product, FS_Subset, FS_CardinalityType

LEMMA CountedAre ==
  /\ IsFiniteSet(Inserted) /\ Cardinality(Inserted) \in Nat
  /\ IsFiniteSet(Deleted) /\ Cardinality(Deleted) \in Nat
<1>1. IsFiniteSet(Procs) /\ Inserted \in SUBSET Procs /\ Deleted \in SUBSET Procs
  BY DirectoryAssumption DEF Inserted, Deleted
<1> QED
  BY <1>1, FS_Subset, FS_CardinalityType

-----------------------------------------------------------------------------
(***************************************************************************)
(* dir_read meets every entry once.  The places are ordered, so each has a *)
(* rank of its own below their number, and every such number is a rank.    *)
(***************************************************************************)
Rank(x) == Cardinality({z \in Places : Before(z, x)})

LEMMA BeforeIsOrder ==
  ASSUME NEW x \in Places, NEW y \in Places
  PROVE  /\ ~Before(x, x)
         /\ x # y => Before(x, y) \/ Before(y, x)
         /\ \A z \in Places : Before(z, x) /\ Before(x, y) => Before(z, y)
<1>1. ASSUME NEW u \in Places
      PROVE  u[1] \in Int /\ u[2] \in Int /\ u = <<u[1], u[2]>>
  BY PlacesAre, ConstantsAre DEF Idxs
<1>2. ~Before(x, x)
  BY <1>1 DEF Before
<1>3. ASSUME x # y PROVE Before(x, y) \/ Before(y, x)
  <2>1. x[1] # y[1] \/ x[2] # y[2]
    BY <1>1, <1>3, Zenon
  <2> QED
    BY <1>1, <2>1 DEF Before
<1>4. ASSUME NEW z \in Places, Before(z, x), Before(x, y) PROVE Before(z, y)
  BY <1>1, <1>4 DEF Before
<1> QED
  BY <1>2, <1>3, <1>4

LEMMA RankIs ==
  ASSUME NEW x \in Places
  PROVE  Rank(x) \in 0..(Cardinality(Places) - 1)
<1> DEFINE A == {z \in Places : Before(z, x)}
<1>1. A \in SUBSET (Places \ {x})
  BY BeforeIsOrder
<1>2. IsFiniteSet(Places \ {x}) /\ Cardinality(Places \ {x}) = Cardinality(Places) - 1
  BY PlacesAre, FS_RemoveElement
<1>3. Cardinality(A) \in Nat /\ Cardinality(A) <= Cardinality(Places \ {x})
  BY <1>1, <1>2, FS_Subset, FS_CardinalityType
<1>4. Cardinality(A) \in 0..(Cardinality(Places) - 1)
  BY <1>2, <1>3, PlacesAre
<1> QED
  BY <1>4 DEF Rank

LEMMA RankGrows ==
  ASSUME NEW x \in Places, NEW y \in Places, Before(x, y)
  PROVE  Rank(x) < Rank(y)
<1> DEFINE A == {z \in Places : Before(z, x)}
           B == {z \in Places : Before(z, y)}
<1>1. A \cup {x} \in SUBSET B /\ x \notin A
  BY BeforeIsOrder
<1>2. A \in SUBSET Places /\ B \in SUBSET Places
  OBVIOUS
<1>3. IsFiniteSet(A) /\ IsFiniteSet(B)
  BY <1>2, PlacesAre, FS_Subset
<1>4. Cardinality(A \cup {x}) = Cardinality(A) + 1
  BY <1>1, <1>3, FS_AddElement
<1>5. Cardinality(A \cup {x}) <= Cardinality(B)
  BY <1>1, <1>3, FS_Subset
<1>6. Cardinality(A) \in Nat /\ Cardinality(B) \in Nat
  BY <1>3, FS_CardinalityType
<1>7. Cardinality(A) < Cardinality(B)
  BY <1>4, <1>5, <1>6
<1> QED
  BY <1>7 DEF Rank

LEMMA RankIsOnto ==
  /\ \A x, y \in Places : Rank(x) = Rank(y) => x = y
  /\ \A k \in 0..(Cardinality(Places) - 1) : \E x \in Places : Rank(x) = k
<1> DEFINE N == Cardinality(Places)
           T == 0..(N - 1)
           f == [x \in Places |-> Rank(x)]
<1>1. ASSUME NEW x \in Places, NEW y \in Places, Rank(x) = Rank(y) PROVE x = y
  <2>1. Rank(x) \in Int /\ Rank(y) \in Int
    BY RankIs
  <2>2. ~(Rank(x) < Rank(y)) /\ ~(Rank(y) < Rank(x))
    BY <1>1, <2>1
  <2> QED
    BY <2>2, RankGrows, BeforeIsOrder
<1>2. f \in [Places -> T]
  BY RankIs
<1>3. f \in Injection(Places, T)
  BY <1>1, <1>2 DEF Injection, IsInjective
<1>4. IsFiniteSet(T) /\ Cardinality(T) = N
  <2>1. N \in Nat
    BY PlacesAre
  <2>2. 0 \in Int /\ N - 1 \in Int
    BY <2>1
  <2>3. IsFiniteSet(T) /\ Cardinality(T) = IF 0 > N - 1 THEN 0 ELSE (N - 1) - 0 + 1
    BY <2>2, FS_Interval
  <2> QED
    BY <2>1, <2>3
<1>5. f \in Surjection(Places, T)
  BY <1>3, <1>4, FS_Injection
<1>6. \A k \in T : \E x \in Places : Rank(x) = k
  BY <1>5 DEF Surjection
<1> QED
  BY <1>1, <1>6

LEMMA DirReadIs ==
  ASSUME NEW x \in Places, NEW k, Rank(x) = k
  PROVE  dir_read(k) = Entry(x)
<1> DEFINE c == CHOOSE y \in Places : Cardinality({z \in Places : Before(z, y)}) = k
<1>1. c \in Places /\ Rank(c) = k
  BY DEF Rank
<1>2. c = x
  BY <1>1, RankIsOnto
<1> QED
  BY <1>2 DEF dir_read, Entry

\* A name that search_dir_entry finds is the entry of a place.
LEMMA FoundIs ==
  ASSUME DirectoryTypeOK, NEW n \in Names
  PROVE  search_dir_entry(n) <=> \E x \in Places : Entry(x) = n
<1>1. ASSUME NEW i \in Idxs, NEW s \in 1..Slots
      PROVE  /\ <<i, s>> \in Places <=> all_blocks[i] # 0 /\ block[all_blocks[i]][s] # None
             /\ Entry(<<i, s>>) = block[all_blocks[i]][s]
  BY DEF Places, Entry
<1>2. ASSUME search_dir_entry(n) PROVE \E x \in Places : Entry(x) = n
  <2>1. PICK i \in Idxs, s \in 1..Slots : all_blocks[i] # 0 /\ block[all_blocks[i]][s] = n
    BY <1>2 DEF search_dir_entry, Holds
  <2>2. <<i, s>> \in Places /\ Entry(<<i, s>>) = n
    BY <1>1, <2>1, ConstantsAre
  <2> QED
    BY <2>2
<1>3. ASSUME NEW x \in Places, Entry(x) = n PROVE search_dir_entry(n)
  <2>1. x[1] \in Idxs /\ x[2] \in 1..Slots /\ all_blocks[x[1]] # 0
    BY PlacesAre DEF Places
  <2> QED
    BY <1>3, <2>1 DEF Entry, search_dir_entry, Holds
<1> QED
  BY <1>2, <1>3

LEMMA ListingFollows == IInv => ListingComplete
<1> SUFFICES ASSUME IInv, broken = "none" PROVE ListingComplete
  BY DEF ListingComplete
<1>0. i_size + Cardinality(Inserted) = Cardinality(Places) + Cardinality(Deleted)
  BY DEF IInv, SizeOK
<1>2. ASSUME Inserted \cup Deleted = {}, NEW n \in Names, search_dir_entry(n)
      PROVE  Cardinality({k \in 0..(i_size - 1) : dir_read(k) = n}) = 1
  <2> DEFINE K == {k \in 0..(i_size - 1) : dir_read(k) = n}
  <2>0. i_size = Cardinality(Places)
    <3>1. Inserted = {} /\ Deleted = {}
      BY <1>2
    <3> QED
      BY <1>0, <3>1, PlacesAre, FS_EmptySet DEF IInv, DirectoryTypeOK
  <2>1. PICK x \in Places : Entry(x) = n
    BY <1>2, FoundIs DEF IInv
  <2>2. Rank(x) \in K
    BY <2>0, <2>1, RankIs, DirReadIs
  <2>3. ASSUME NEW k \in K PROVE k = Rank(x)
    <3>1. PICK y \in Places : Rank(y) = k
      BY <2>0, RankIsOnto
    <3>2. Entry(y) = n
      BY <3>1, DirReadIs
    <3>3. y = x
      BY <2>1, <3>2 DEF IInv, NamesOK
    <3> QED
      BY <3>1, <3>3
  <2>4. K = {Rank(x)}
    BY <2>2, <2>3
  <2>5. Cardinality({Rank(x)}) = 1
    BY FS_Singleton
  <2> QED
    BY <2>4, <2>5
<1> QED
  BY <1>0, <1>2 DEF ListingComplete

(***************************************************************************)
(* A directory of one entry has one block: the others would have entries.  *)
(***************************************************************************)
LEMMA OneBlockFollows == IInv => EmptyHasOneBlock
<1> SUFFICES ASSUME IInv, broken = "none" PROVE EmptyHasOneBlock
  BY DEF EmptyHasOneBlock
<1> USE ConstantsAre
<1>1. ASSUME i_size = 1, Inserted = {}, NEW i \in Idxs, i # 0 PROVE all_blocks[i] = 0
  <2> SUFFICES ASSUME all_blocks[i] # 0 PROVE FALSE
    OBVIOUS
  <2>1. PICK s \in 1..Slots : block[all_blocks[i]][s] # None
    BY DEF IInv, BlocksOK
  <2>2. PICK d \in 1..Slots : block[all_blocks[0]][d] = Dots
    BY DEF IInv, DotsOK
  <2>3. <<i, s>> \in Places /\ <<0, d>> \in Places
    BY <2>1, <2>2 DEF Places, IInv, DotsOK
  <2>4. PICK x : Places = {x}
    <3>1. Cardinality(Places) + Cardinality(Deleted) = 1
      BY <1>1, FS_EmptySet DEF IInv, SizeOK
    <3>2. Cardinality(Places) # 0
      BY <2>3, PlacesAre, FS_EmptySet
    <3>3. Cardinality(Places) = 1
      BY <3>1, <3>2, PlacesAre, CountedAre
    <3> QED
      BY <3>3, PlacesAre, FS_Singleton
  <2>5. <<i, s>> = <<0, d>>
    BY <2>3, <2>4
  <2> QED
    BY <1>1, <2>5
<1>2. ASSUME i_size = 1, Inserted = {}, NEW i \in 1..Direct PROVE i_sectors[i] = 0
  <2>1. i \in Idxs /\ i # 0
    BY DEF Idxs
  <2>2. all_blocks[i] = 0 /\ all_blocks[Direct] = 0
    BY <1>1, <1>2, <2>1
  <2>3. CASE i < Direct
    BY <2>1, <2>2, <2>3, AllBlocksIs DEF IInv
  <2>4. CASE i = Direct
    <3>1. i_sectors[Direct] # 0 => all_blocks[Direct] = table[0]
      BY AllBlocksIs DEF IInv
    <3> QED
      BY <2>2, <2>4, <3>1 DEF IInv, TableOK
  <2> QED
    BY <2>3, <2>4
<1> QED
  BY <1>2 DEF EmptyHasOneBlock, IInv, BlocksOK

-----------------------------------------------------------------------------
(***************************************************************************)
(* A new directory has one block, which holds its dots.                    *)
(***************************************************************************)
LEMMA EmptyIs ==
  /\ Empty \in Buffers /\ \A s \in 1..Slots : Empty[s] = None
  /\ Out \in Calls /\ Out.at = "out"
  /\ \A x \in {"inserted", "deleted"} :
        [Out EXCEPT !.at = x] \in Calls /\ [Out EXCEPT !.at = x].at = x
<1> USE ConstantsAre
<1>1. Empty \in Buffers /\ \A s \in 1..Slots : Empty[s] = None
  BY DEF Empty, Buffers, Entries
<1> QED
  BY <1>1 DEF Out, Calls

LEMMA InitHolds == Init => IInv
<1> SUFFICES ASSUME Init PROVE IInv
  OBVIOUS
<1> USE ConstantsAre
<1>1. 1 \in Lbas /\ 1 \in 1..Slots /\ 1 \in 0..NBlocks /\ 0 \in 0..Direct
  BY DEF Lbas
<1>2. /\ i_sectors \in [0..Direct -> 0..NBlocks] /\ i_sectors[0] = 1
      /\ \A i \in 0..Direct : i # 0 => i_sectors[i] = 0
  BY <1>1 DEF Init
<1>3. table \in [0..(Indirect - 1) -> 0..NBlocks] /\ \A i \in 0..(Indirect - 1) : table[i] = 0
  BY DEF Init, NoTable
<1>4. [Empty EXCEPT ![1] = Dots] \in Buffers
  BY <1>1, EmptyIs DEF Buffers, Entries
<1>5. block \in [Lbas -> Buffers]
  BY <1>4, EmptyIs DEF Init
<1>6. block[1][1] = Dots /\ \A s \in 1..Slots : s # 1 => block[1][s] = None
  <2>1. block[1] = [Empty EXCEPT ![1] = Dots]
    BY <1>1 DEF Init
  <2> QED
    BY <2>1, <1>1, EmptyIs DEF Buffers
<1>7. DirectoryTypeOK
  <2>1. i_size \in Int /\ block_bitmap \subseteq Lbas /\ broken = "none"
    BY <1>1 DEF Init
  <2>2. pc \in [Procs -> Calls]
    BY EmptyIs DEF Init
  <2> QED
    BY <1>2, <1>3, <1>5, <2>1, <2>2 DEF DirectoryTypeOK
<1>8. all_blocks[0] = 1 /\ \A i \in Idxs : i # 0 => all_blocks[i] = 0
  <2>1. all_blocks[0] = 1
    BY <1>2, <1>7, AllBlocksIs
  <2>2. ASSUME NEW i \in Idxs, i # 0 PROVE all_blocks[i] = 0
    <3>1. CASE i < Direct
      BY <1>2, <1>7, <2>2, <3>1, AllBlocksIs
    <3>2. CASE i >= Direct
      BY <1>2, <1>7, <2>2, <3>2, AllBlocksIs
    <3> QED
      BY <3>1, <3>2
  <2> QED
    BY <2>1, <2>2
<1>9. Places = {<<0, 1>>}
  <2>1. ASSUME NEW x \in Places PROVE x = <<0, 1>>
    <3>1. x[1] \in Idxs /\ x[2] \in 1..Slots /\ x = <<x[1], x[2]>>
          /\ all_blocks[x[1]] # 0 /\ block[all_blocks[x[1]]][x[2]] # None
      BY PlacesAre DEF Places
    <3>2. x[1] = 0
      BY <3>1, <1>8
    <3>3. x[2] = 1
      BY <3>1, <3>2, <1>8, <1>6
    <3> QED
      BY <3>1, <3>2, <3>3
  <2>2. <<0, 1>> \in Places
    BY <1>1, <1>6, <1>8 DEF Places
  <2> QED
    BY <2>1, <2>2
<1>10. SizeOK
  <2>1. Inserted = {} /\ Deleted = {}
    BY EmptyIs DEF Init, Inserted, Deleted
  <2> QED
    BY <1>9, <2>1, FS_Singleton, FS_EmptySet DEF SizeOK, Init
<1>11. BlocksOK /\ DotsOK /\ TableOK /\ NamesOK
  <2>1. BlocksOK
    BY <1>1, <1>6, <1>8 DEF BlocksOK, Init
  <2>2. DotsOK
    BY <1>1, <1>6, <1>8 DEF DotsOK
  <2>3. TableOK
    BY <1>2, <1>3 DEF TableOK
  <2>4. NamesOK
    BY <1>9 DEF NamesOK
  <2> QED
    BY <2>1, <2>2, <2>3, <2>4
<1>12. \A p \in Procs : pc[p].at = "out"
  BY DEF Init, Out
<1>13. CallsOK /\ FreshOK
  BY <1>12 DEF CallsOK, FreshOK, Fresh
<1> QED
  BY <1>7, <1>10, <1>11, <1>13 DEF IInv

-----------------------------------------------------------------------------
(***************************************************************************)
(* The first parts of the calls change no block.                           *)
(***************************************************************************)
StoreOK == BlocksOK /\ DotsOK /\ TableOK /\ NamesOK /\ SizeOK
Looks   == UNCHANGED <<i_size, i_sectors, table, block>> /\ block_bitmap \subseteq block_bitmap'

LEMMA LooksKeeps ==
  ASSUME StoreOK, Looks, Inserted' = Inserted, Deleted' = Deleted
  PROVE  StoreOK' /\ all_blocks' = all_blocks
<1>1. UNCHANGED <<i_size, i_sectors, table, block>> /\ block_bitmap \subseteq block_bitmap'
  BY DEF Looks
<1>2. all_blocks' = all_blocks
  BY <1>1 DEF all_blocks
<1>3. Places' = Places
  BY <1>1, <1>2 DEF Places
<1>4. BlocksOK' /\ DotsOK' /\ TableOK'
  BY <1>1, <1>2 DEF StoreOK, BlocksOK, DotsOK, TableOK
<1>5. NamesOK'
  BY <1>1, <1>2, <1>3 DEF StoreOK, NamesOK, Entry
<1>6. SizeOK'
  BY <1>1, <1>3 DEF StoreOK, SizeOK
<1> QED
  BY <1>2, <1>4, <1>5, <1>6 DEF StoreOK

\* The calls of the other processes stay as they are.
Only(p) == pc' \in [Procs -> Calls] /\ \A q \in Procs \ {p} : pc'[q] = pc[q]

LEMMA OnlyIs ==
  ASSUME NEW p \in Procs, Only(p)
  PROVE  /\ Inserted' = IF pc'[p].at = "inserted" THEN Inserted \cup {p} ELSE Inserted \ {p}
         /\ Deleted' = IF pc'[p].at = "deleted" THEN Deleted \cup {p} ELSE Deleted \ {p}
BY DEF Only, Inserted, Deleted

CallOK(c) ==
    /\ c.name \in Names /\ c.lba \in Lbas
    /\ c.at = "insert" =>
        /\ IF c.tab = 0 THEN c.idx < Direct ELSE c.idx = Direct /\ Fresh(c)
        /\ \E s \in 1..Slots : c.buf[s] = None
    /\ c.at = "delete" => c.tab = 0 /\ \E s \in 1..Slots : c.buf[s] = c.name

LEMMA LookStep ==
  ASSUME IInv, broken = "none", UNCHANGED broken, Looks, block_bitmap' \subseteq Lbas,
         NEW p \in Procs, Only(p), CallOK(pc'[p]),
         pc[p].at = "out", pc'[p].at \in {"insert", "delete"},
         Fresh(pc'[p]) => pc'[p].lba \in block_bitmap' \ block_bitmap
  PROVE  IInv'
<1>1. UNCHANGED <<i_size, i_sectors, table, block, broken>> /\ block_bitmap \subseteq block_bitmap'
  BY DEF Looks
<1>2. DirectoryTypeOK'
  BY <1>1 DEF IInv, DirectoryTypeOK, Only
<1>3. StoreOK' /\ all_blocks' = all_blocks
  <2>1. Inserted' = Inserted /\ Deleted' = Deleted
    BY OnlyIs DEF Inserted, Deleted
  <2> QED
    BY <2>1, LooksKeeps DEF IInv, StoreOK
<1>4. ASSUME NEW q \in Procs, pc'[q].at \in {"insert", "delete"} PROVE CallOK(pc'[q])
  <2>1. CASE q = p
    BY <2>1
  <2>2. CASE q # p
    <3>1. pc'[q] = pc[q]
      BY <2>2 DEF Only
    <3>2. pc[q].at \in {"insert", "delete"} => CallOK(pc[q])
      BY DEF IInv, CallsOK, CallOK
    <3> QED
      BY <1>4, <3>1, <3>2
  <2> QED
    BY <2>1, <2>2
<1>5. CallsOK'
  BY <1>4 DEF CallsOK, CallOK, Fresh
<1>6. ASSUME NEW q \in Procs, Fresh(pc'[q])
      PROVE  /\ pc'[q].lba \in block_bitmap'
             /\ \A i \in Idxs : all_blocks[i] # pc'[q].lba
             /\ \A r \in Procs \ {q} : Fresh(pc'[r]) => pc'[r].lba # pc'[q].lba
  <2>1. \A r \in Procs \ {p} : pc'[r] = pc[r]
    BY DEF Only
  <2>2. \A r \in Procs : Fresh(pc[r]) => /\ pc[r].lba \in block_bitmap
                                         /\ \A i \in Idxs : all_blocks[i] # pc[r].lba
    BY DEF IInv, FreshOK
  <2>3. CASE q = p
    <3>1. pc'[q].lba \in block_bitmap' \ block_bitmap /\ pc'[q].lba \in Lbas
      BY <1>6, <2>3 DEF CallOK
    <3>2. \A i \in Idxs : all_blocks[i] # pc'[q].lba
      BY <3>1, ConstantsAre DEF IInv, BlocksOK
    <3> QED
      BY <2>1, <2>2, <2>3, <3>1, <3>2
  <2>4. CASE q # p
    <3>1. pc'[q] = pc[q] /\ Fresh(pc[q])
      BY <1>6, <2>1, <2>4
    <3>2. ASSUME NEW r \in Procs \ {q}, Fresh(pc'[r]) PROVE pc'[r].lba # pc[q].lba
      <4>1. CASE r = p
        BY <2>2, <3>1, <3>2, <4>1
      <4>2. CASE r # p
        BY <2>1, <3>1, <3>2, <4>2 DEF IInv, FreshOK
      <4> QED
        BY <4>1, <4>2
    <3> QED
      BY <1>1, <2>2, <3>1, <3>2
  <2> QED
    BY <2>3, <2>4
<1>7. FreshOK'
  BY <1>3, <1>6 DEF FreshOK, Fresh
<1> QED
  BY <1>2, <1>3, <1>5, <1>7 DEF IInv, StoreOK

(***************************************************************************)
(* delete_dir_entry finds the block.                                       *)
(***************************************************************************)
LEMMA BlockIs ==
  ASSUME DirectoryTypeOK, NEW i \in Idxs, all_blocks[i] # 0
  PROVE  all_blocks[i] \in Lbas /\ block[all_blocks[i]] \in Buffers
<1>1. all_blocks[i] \in 0..NBlocks
  BY AllBlocksIs
<1>2. all_blocks[i] \in Lbas
  BY <1>1, ConstantsAre DEF Lbas
<1> QED
  BY <1>2 DEF DirectoryTypeOK

LEMMA DeleteReadStep ==
  ASSUME IInv, NEW p \in Procs, NEW n \in Names, delete_dir_entry_read(p, n)
  PROVE  IInv'
<1> DEFINE S == {j \in Idxs : Holds(all_blocks[j], n)}
           i == Lowest(S)
           c == [at |-> "delete", name |-> n, idx |-> i, tab |-> 0,
                 lba |-> all_blocks[i], buf |-> block[all_blocks[i]]]
<1>1. /\ broken = "none" /\ pc[p].at = "out" /\ S # {} /\ pc' = [pc EXCEPT ![p] = c]
      /\ UNCHANGED <<i_size, i_sectors, table, block, block_bitmap, broken>>
  BY DEF delete_dir_entry_read, Runs, search_dir_entry
<1>2. i \in Idxs /\ Holds(all_blocks[i], n)
  <2>1. S \subseteq Nat
    BY ConstantsAre
  <2>2. i \in S
    BY <1>1, <2>1, LowestIs
  <2> QED
    BY <2>2
<1> HIDE DEF i
<1>3. all_blocks[i] \in Lbas /\ block[all_blocks[i]] \in Buffers
      /\ \E s \in 1..Slots : block[all_blocks[i]][s] = n
  BY <1>2, BlockIs DEF IInv, Holds
<1>4. c \in Calls
  BY <1>2, <1>3, ConstantsAre DEF Calls
<1>5. /\ c.at = "delete" /\ c.name = n /\ c.tab = 0 /\ c.lba \in Lbas
      /\ \E s \in 1..Slots : c.buf[s] = n
  BY <1>3
<1> HIDE DEF c
<1>6. pc'[p] = c /\ Only(p)
  BY <1>1, <1>4 DEF IInv, DirectoryTypeOK, Only
<1>7. CallOK(c) /\ ~Fresh(c)
  BY <1>5 DEF CallOK, Fresh
<1>8. Looks /\ block_bitmap' \subseteq Lbas
  BY <1>1 DEF Looks, IInv, DirectoryTypeOK
<1> QED
  BY <1>1, <1>5, <1>6, <1>7, <1>8, LookStep

(***************************************************************************)
(* sync_dir_entry finds a block, or takes one, or two with a table.        *)
(***************************************************************************)
LEMMA FreeIs ==
  /\ Cardinality(Free) >= 1 => Lowest(Free) \in Free
  /\ Cardinality(Free) >= 2 => /\ Lowest(Free) \in Free
                               /\ Second(Free) \in Free \ {Lowest(Free)}
<1>1. Free \in SUBSET Lbas /\ Free \subseteq Nat
  BY ConstantsAre DEF Free, Lbas
<1>2. IsFiniteSet(Lbas)
  <2>1. 1 \in Int /\ NBlocks \in Int
    BY ConstantsAre
  <2> QED
    BY <2>1, FS_Interval DEF Lbas
<1>3. IsFiniteSet(Free)
  BY <1>1, <1>2, FS_Subset
<1>4. Cardinality(Free) >= 1 => Lowest(Free) \in Free
  <2>1. Cardinality(Free) >= 1 => Free # {}
    BY <1>3, FS_EmptySet
  <2> QED
    BY <1>1, <2>1, LowestIs
<1>5. ASSUME Cardinality(Free) >= 2
      PROVE  Lowest(Free) \in Free /\ Second(Free) \in Free \ {Lowest(Free)}
  <2>1. Lowest(Free) \in Free
    BY <1>3, <1>4, <1>5, FS_CardinalityType
  <2> DEFINE rest == Free \ {Lowest(Free)}
  <2>2. IsFiniteSet(rest) /\ Cardinality(rest) = Cardinality(Free) - 1
    BY <1>3, <2>1, FS_RemoveElement
  <2>3. rest # {}
    BY <1>3, <1>5, <2>2, FS_EmptySet, FS_CardinalityType
  <2>4. rest \subseteq Nat
    BY <1>1
  <2>5. Lowest(rest) \in rest
    BY <2>3, <2>4, LowestIs
  <2> QED
    BY <2>1, <2>5 DEF Second
<1> QED
  BY <1>4, <1>5

LEMMA RoomIs ==
  ASSUME DirectoryTypeOK, room # {}
  PROVE  /\ Lowest(room) \in Idxs /\ Lowest(room) \in 0..Direct /\ Lowest(room) < Direct
         /\ i_sectors[Lowest(room)] # 0 =>
                \E s \in 1..Slots : block[i_sectors[Lowest(room)]][s] = None
<1>1. room \subseteq Nat
  BY DEF room
<1>2. Lowest(room) \in room
  BY <1>1, LowestIs
<1>3. Lowest(room) \in 0..(Direct - 1)
      /\ (i_sectors[Lowest(room)] = 0 \/ Hole(block[i_sectors[Lowest(room)]]) # {})
  BY <1>2 DEF room
<1> QED
  BY <1>3, ConstantsAre DEF Idxs, Hole

LEMMA SyncReadStep ==
  ASSUME IInv, NEW p \in Procs, NEW n \in Names, sync_dir_entry_read(p, n)
  PROVE  IInv'
<1> DEFINE i     == IF room = {} THEN Direct ELSE Lowest(room)
           fresh == i = Direct \/ i_sectors[i] = 0
           need  == IF i = Direct THEN 2 ELSE IF fresh THEN 1 ELSE 0
           tab   == IF i = Direct THEN Lowest(Free) ELSE 0
           lba   == IF i = Direct THEN Second(Free)
                    ELSE IF fresh THEN Lowest(Free) ELSE i_sectors[i]
           c     == [at |-> "insert", name |-> n, idx |-> i, lba |-> lba,
                     tab |-> tab, buf |-> IF fresh THEN Empty ELSE block[lba]]
<1>1. /\ broken = "none" /\ pc[p].at = "out"
      /\ IF need > Cardinality(Free)
         THEN broken' = "panic" /\ UNCHANGED <<block_bitmap, pc>>
         ELSE /\ block_bitmap' = (block_bitmap \cup {lba, tab}) \ {0}
              /\ pc' = [pc EXCEPT ![p] = c]
              /\ UNCHANGED broken
      /\ UNCHANGED <<i_size, i_sectors, table, block>>
  BY DEF sync_dir_entry_read, Runs
<1>2. CASE need > Cardinality(Free)
  <2>1. broken' = "panic" /\ UNCHANGED <<i_size, i_sectors, table, block, block_bitmap, pc>>
    BY <1>1, <1>2
  <2>2. DirectoryTypeOK'
    BY <2>1 DEF IInv, DirectoryTypeOK
  <2> QED
    BY <2>1, <2>2 DEF IInv
<1>3. CASE ~(need > Cardinality(Free))
  <2>1. Cardinality(Free) \in Nat
    <3>1. Free \in SUBSET Lbas
      BY DEF Free
    <3>2. 1 \in Int /\ NBlocks \in Int
      BY ConstantsAre
    <3> QED
      BY <3>1, <3>2, FS_Interval, FS_Subset, FS_CardinalityType DEF Lbas
  <2>2. Free \subseteq Lbas /\ Free \cap block_bitmap = {} /\ block_bitmap \subseteq Lbas
    BY DEF Free, IInv, DirectoryTypeOK
  <2>3. i \in Idxs /\ (i < Direct \/ i = Direct)
    BY RoomIs, ConstantsAre DEF IInv
  <2>4. CASE i = Direct
    <3>1. tab \in Free /\ lba \in Free \ {tab} /\ c.buf = Empty
      BY <1>3, <2>1, <2>4, FreeIs
    <3>2. tab \in 1..NBlocks /\ lba \in Lbas \ block_bitmap
      BY <2>2, <3>1 DEF Lbas
    <3> HIDE DEF tab, lba, i
    <3>3. /\ c \in Calls /\ c.at = "insert" /\ c.name = n /\ c.lba = lba
          /\ c.tab # 0 /\ c.idx = Direct
      <4>1. tab \in 0..NBlocks /\ tab # 0 /\ lba \in 0..NBlocks /\ n \in Names \cup {None}
        BY <3>2, ConstantsAre
      <4>2. fresh
        BY <2>4
      <4> HIDE DEF fresh
      <4> QED
        BY <2>3, <2>4, <4>1, <4>2, EmptyIs DEF Calls
    <3> HIDE DEF c
    <3>4. CallOK(c)
      BY <3>1, <3>2, <3>3, EmptyIs, ConstantsAre DEF CallOK, Fresh
    <3>5. pc'[p] = c /\ Only(p)
      BY <1>1, <1>3, <3>3 DEF IInv, DirectoryTypeOK, Only
    <3>6. Looks /\ block_bitmap' \subseteq Lbas /\ lba \in block_bitmap' \ block_bitmap
      BY <1>1, <1>3, <2>2, <3>2, ConstantsAre DEF Looks, Lbas
    <3> QED
      BY <1>1, <1>3, <3>3, <3>4, <3>5, <3>6, LookStep
  <2>5. CASE i < Direct /\ i_sectors[i] = 0
    <3>1. tab = 0 /\ lba \in Free /\ c.buf = Empty
      BY <1>3, <2>1, <2>3, <2>5, FreeIs, ConstantsAre
    <3>2. lba \in Lbas \ block_bitmap
      BY <2>2, <3>1
    <3> HIDE DEF tab, lba
    <3>3. /\ c \in Calls /\ c.at = "insert" /\ c.name = n /\ c.lba = lba
          /\ c.tab = 0 /\ c.idx < Direct
      <4> HIDE DEF i
      <4> QED
        BY <2>3, <2>5, <3>1, <3>2, EmptyIs, ConstantsAre DEF Calls
    <3> HIDE DEF c
    <3>4. CallOK(c)
      BY <3>1, <3>2, <3>3, EmptyIs, ConstantsAre DEF CallOK, Fresh
    <3>5. pc'[p] = c /\ Only(p)
      BY <1>1, <1>3, <3>3 DEF IInv, DirectoryTypeOK, Only
    <3>6. Looks /\ block_bitmap' \subseteq Lbas /\ lba \in block_bitmap' \ block_bitmap
      BY <1>1, <1>3, <2>2, <3>1, <3>2, ConstantsAre DEF Looks, Lbas
    <3> QED
      BY <1>1, <1>3, <3>3, <3>4, <3>5, <3>6, LookStep
  <2>6. CASE i < Direct /\ i_sectors[i] # 0
    <3>1. tab = 0 /\ lba = i_sectors[i] /\ c.buf = block[lba]
      BY <2>3, <2>6, ConstantsAre
    <3>2. \E s \in 1..Slots : block[lba][s] = None
      BY <2>6, <3>1, RoomIs, ConstantsAre DEF IInv
    <3> HIDE DEF tab, lba, i
    <3>3. all_blocks[i] = lba /\ lba # 0
      BY <2>3, <2>6, <3>1, AllBlocksIs DEF IInv
    <3>4. lba \in Lbas /\ block[lba] \in Buffers /\ lba \in block_bitmap
          /\ \E s \in 1..Slots : block[lba][s] # None
      BY <1>1, <2>3, <3>3, BlockIs DEF IInv, BlocksOK
    <3>5. /\ c \in Calls /\ c.at = "insert" /\ c.name = n /\ c.lba = lba
          /\ c.tab = 0 /\ c.idx < Direct /\ c.buf # Empty
      <4>1. block[lba] # Empty
        BY <3>4, EmptyIs
      <4> QED
        BY <2>3, <2>6, <3>1, <3>4, <4>1, ConstantsAre DEF Calls
    <3> HIDE DEF c
    <3>6. CallOK(c) /\ ~Fresh(c)
      BY <3>1, <3>2, <3>4, <3>5 DEF CallOK, Fresh
    <3>7. pc'[p] = c /\ Only(p)
      BY <1>1, <1>3, <3>5 DEF IInv, DirectoryTypeOK, Only
    <3>8. Looks /\ block_bitmap' \subseteq Lbas
      BY <1>1, <1>3, <2>2, <3>1, <3>4, ConstantsAre DEF Looks, Lbas
    <3> QED
      BY <1>1, <1>3, <3>5, <3>6, <3>7, <3>8, LookStep
  <2> QED
    BY <2>3, <2>4, <2>5, <2>6
<1> QED
  BY <1>2, <1>3

-----------------------------------------------------------------------------
(***************************************************************************)
(* The second parts.  An entry is added at slot h of block a, which is     *)
(* block i of the directory from then on if it was not before.             *)
(***************************************************************************)
PlaceIs(i, s) == all_blocks[i] # 0 /\ block[all_blocks[i]][s] # None

LEMMA InPlaces ==
  /\ \A i \in Idxs, s \in 1..Slots : <<i, s>> \in Places <=> PlaceIs(i, s)
  /\ \A i \in Idxs, s \in 1..Slots : Entry(<<i, s>>) = block[all_blocks[i]][s]
BY DEF Places, PlaceIs, Entry

LEMMA PairIs ==
  ASSUME NEW x \in Idxs \X (1..Slots)
  PROVE  \E j \in Idxs, s \in 1..Slots : x = <<j, s>>
<1>1. x[1] \in Idxs /\ x[2] \in 1..Slots /\ x = <<x[1], x[2]>>
  OBVIOUS
<1> DEFINE j == x[1]
           s == x[2]
<1>2. j \in Idxs /\ s \in 1..Slots /\ x = <<j, s>>
  BY <1>1
<1> HIDE DEF j, s
<1> QED
  BY <1>2

Inserts(i, a, h, n) ==
    /\ a # 0
    /\ all_blocks'[i] = a /\ \A j \in Idxs \ {i} : all_blocks'[j] = all_blocks[j]
    /\ all_blocks[i] \in {0, a} /\ \A j \in Idxs \ {i} : all_blocks[j] # a
    /\ block'[a][h] = n
    /\ \A s \in (1..Slots) \ {h} :
          block'[a][s] = IF all_blocks[i] = 0 THEN None ELSE block[a][s]
    /\ all_blocks[i] = a => block[a][h] = None
    /\ \A b \in Lbas \ {a} : block'[b] = block[b]

LEMMA InsertedPlaces ==
  ASSUME DirectoryTypeOK, NEW i \in Idxs, NEW a \in Lbas, NEW h \in 1..Slots, NEW n \in Names,
         Inserts(i, a, h, n)
  PROVE  /\ <<i, h>> \notin Places /\ Places' = Places \cup {<<i, h>>}
         /\ \A x \in Places : Entry(x)' = Entry(x)
         /\ Entry(<<i, h>>)' = n
         /\ \A j \in Idxs, s \in 1..Slots : PlaceIs(j, s) => block'[all_blocks'[j]][s] =
                                                              block[all_blocks[j]][s]
<1> USE ConstantsAre
<1>1. ASSUME NEW j \in Idxs, NEW s \in 1..Slots
      PROVE  /\ PlaceIs(j, s)' <=> PlaceIs(j, s) \/ (j = i /\ s = h)
             /\ PlaceIs(j, s) => block'[all_blocks'[j]][s] = block[all_blocks[j]][s]
  <2>1. CASE j = i
    <3>1. CASE s = h
      BY <2>1, <3>1 DEF Inserts, PlaceIs
    <3>2. CASE s # h
      BY <2>1, <3>2 DEF Inserts, PlaceIs
    <3> QED
      BY <3>1, <3>2
  <2>2. CASE j # i
    <3>1. all_blocks'[j] = all_blocks[j] /\ all_blocks[j] # a
      BY <2>2 DEF Inserts
    <3>2. all_blocks[j] # 0 => all_blocks[j] \in Lbas
      BY BlockIs
    <3>3. all_blocks[j] # 0 => block'[all_blocks[j]] = block[all_blocks[j]]
      BY <3>1, <3>2 DEF Inserts
    <3> QED
      BY <2>2, <3>1, <3>3 DEF PlaceIs
  <2> QED
    BY <2>1, <2>2
<1>2. /\ \A j \in Idxs, s \in 1..Slots : <<j, s>> \in Places' <=> PlaceIs(j, s)'
      /\ \A j \in Idxs, s \in 1..Slots : Entry(<<j, s>>)' = block'[all_blocks'[j]][s]
  BY DEF Places, PlaceIs, Entry
<1>3. Places \subseteq Idxs \X (1..Slots) /\ Places' \subseteq Idxs \X (1..Slots)
  BY DEF Places
<1>4. ~PlaceIs(i, h)
  BY DEF Inserts, PlaceIs
<1>5. ASSUME NEW j \in Idxs, NEW s \in 1..Slots
      PROVE  <<j, s>> \in Places' <=> <<j, s>> \in Places \cup {<<i, h>>}
  <2>1. <<j, s>> = <<i, h>> <=> j = i /\ s = h
    OBVIOUS
  <2> QED
    BY <1>1, <1>2, <2>1, InPlaces
<1>6. Places' = Places \cup {<<i, h>>}
  <2>1. \A x \in Idxs \X (1..Slots) : x \in Places' <=> x \in Places \cup {<<i, h>>}
    <3> TAKE x \in Idxs \X (1..Slots)
    <3>1. PICK j \in Idxs, s \in 1..Slots : x = <<j, s>>
      BY PairIs
    <3>2. <<j, s>> \in Places' <=> <<j, s>> \in Places \cup {<<i, h>>}
      BY <1>5
    <3> QED
      BY <3>1, <3>2
  <2> QED
    BY <1>3, <2>1
<1>7. ASSUME NEW x \in Places PROVE Entry(x)' = Entry(x)
  <2>1. PICK j \in Idxs, s \in 1..Slots : x = <<j, s>>
    BY <1>3, PairIs
  <2>2. PlaceIs(j, s)
    BY <2>1, InPlaces
  <2>3. Entry(<<j, s>>)' = Entry(<<j, s>>)
    BY <1>1, <1>2, <2>2, InPlaces
  <2> QED
    BY <2>1, <2>3
<1>8. Entry(<<i, h>>)' = n
  BY <1>2 DEF Inserts
<1> QED
  BY <1>1, <1>4, <1>6, <1>7, <1>8, InPlaces

LEMMA InsertedStore ==
  ASSUME IInv, broken = "none", DirectoryTypeOK', NEW i \in Idxs, NEW a \in Lbas, NEW h \in 1..Slots, NEW n \in Names,
         Inserts(i, a, h, n), ~search_dir_entry(n), i_size' = i_size,
         Cardinality(Inserted)' = Cardinality(Inserted) + 1, Deleted' = Deleted,
         a \in block_bitmap, UNCHANGED block_bitmap
  PROVE  BlocksOK' /\ DotsOK' /\ NamesOK' /\ SizeOK'
<1> USE ConstantsAre
<1>1. /\ <<i, h>> \notin Places /\ Places' = Places \cup {<<i, h>>}
      /\ \A x \in Places : Entry(x)' = Entry(x)
      /\ Entry(<<i, h>>)' = n
      /\ \A j \in Idxs, s \in 1..Slots : PlaceIs(j, s) => block'[all_blocks'[j]][s] =
                                                           block[all_blocks[j]][s]
  BY InsertedPlaces DEF IInv
<1>2. SizeOK'
  <2>1. Cardinality(Places \cup {<<i, h>>}) = Cardinality(Places) + 1
    BY <1>1, PlacesAre, FS_AddElement
  <2>2. i_size + Cardinality(Inserted) = Cardinality(Places) + Cardinality(Deleted)
        /\ i_size \in Int
    BY DEF IInv, SizeOK, DirectoryTypeOK
  <2>3. Cardinality(Places') = Cardinality(Places) + 1 /\ Cardinality(Deleted') = Cardinality(Deleted)
    BY <1>1, <2>1
  <2>4. i_size' + Cardinality(Inserted)' = Cardinality(Places') + Cardinality(Deleted')
    BY <2>2, <2>3, PlacesAre, CountedAre
  <2> QED
    BY <2>4 DEF SizeOK
<1>3. NamesOK'
  <2>1. \A x \in Places : Entry(x) # n
    BY FoundIs DEF IInv
  <2>2. ASSUME NEW x \in Places', NEW y \in Places', Entry(x)' = Entry(y)', Entry(x)' \in Names
        PROVE  x = y
    <3>1. CASE x \in Places /\ y \in Places
      BY <1>1, <2>2, <3>1 DEF IInv, NamesOK
    <3>2. CASE x = <<i, h>> /\ y \in Places
      BY <1>1, <2>1, <2>2, <3>2
    <3>3. CASE x \in Places /\ y = <<i, h>>
      BY <1>1, <2>1, <2>2, <3>3
    <3> QED
      BY <1>1, <3>1, <3>2, <3>3
  <2> QED
    BY <2>2 DEF NamesOK
<1>4. BlocksOK'
  <2> SUFFICES ASSUME NEW j \in Idxs, all_blocks'[j] # 0
               PROVE  /\ all_blocks'[j] \in block_bitmap'
                      /\ \A k \in Idxs \ {j} : all_blocks'[j] # all_blocks'[k]
                      /\ \E s \in 1..Slots : block'[all_blocks'[j]][s] # None
    BY DEF BlocksOK
  <2>1. CASE j = i
    <3>1. all_blocks'[j] = a /\ block'[a][h] = n /\ \A k \in Idxs \ {j} : all_blocks'[k] # a
      BY <2>1 DEF Inserts
    <3> QED
      BY <3>1
  <2>2. CASE j # i
    <3>1. all_blocks'[j] = all_blocks[j] /\ all_blocks[j] # a /\ all_blocks'[i] = a
      BY <2>2 DEF Inserts
    <3>2. \A k \in Idxs \ {j} : all_blocks'[j] # all_blocks'[k]
      BY <2>2, <3>1 DEF IInv, BlocksOK, Inserts
    <3>3. PICK s \in 1..Slots : block[all_blocks[j]][s] # None
      BY <3>1 DEF IInv, BlocksOK
    <3>4. block'[all_blocks'[j]][s] # None
      BY <1>1, <3>1, <3>3 DEF PlaceIs
    <3>5. all_blocks'[j] \in block_bitmap'
      BY <3>1 DEF IInv, BlocksOK
    <3> QED
      BY <3>2, <3>4, <3>5
  <2> QED
    BY <2>1, <2>2
<1>5. DotsOK'
  <2>1. PICK s \in 1..Slots : block[all_blocks[0]][s] = Dots /\ all_blocks[0] # 0
    BY DEF IInv, DotsOK
  <2>2. PlaceIs(0, s)
    BY <2>1 DEF PlaceIs
  <2>3. block'[all_blocks'[0]][s] = Dots
    BY <1>1, <2>1, <2>2
  <2>4. all_blocks'[0] # 0
    BY <2>1 DEF Inserts
  <2> QED
    BY <2>3, <2>4 DEF DotsOK
<1> QED
  BY <1>2, <1>3, <1>4, <1>5

LEMMA AllBlocksNext ==
  ASSUME DirectoryTypeOK'
  PROVE  /\ \A i \in Idxs : i < Direct => all_blocks'[i] = i_sectors'[i]
         /\ \A i \in Idxs : i >= Direct /\ i_sectors'[Direct] # 0 =>
                all_blocks'[i] = table'[i - Direct]
         /\ \A i \in Idxs : i >= Direct /\ i_sectors'[Direct] = 0 => all_blocks'[i] = 0
BY ConstantsAre DEF all_blocks, Idxs

\* The call has written; a block that another one has taken stays its own.
LEMMA WriteCalls ==
  ASSUME IInv, broken = "none", NEW p \in Procs, Only(p),
         pc'[p].at \in {"out", "inserted", "deleted"},
         \A q \in Procs \ {p} : Fresh(pc[q]) =>
            pc[q].lba \in block_bitmap' /\ \A i \in Idxs : all_blocks'[i] # pc[q].lba
  PROVE  CallsOK' /\ FreshOK'
<1>1. pc'[p].at \notin {"insert", "delete"} /\ \A q \in Procs \ {p} : pc'[q] = pc[q]
  BY DEF Only
<1>2. CallsOK'
  BY <1>1 DEF IInv, CallsOK, Fresh
<1>3. ASSUME NEW q \in Procs, Fresh(pc'[q])
      PROVE  /\ q # p /\ pc'[q] = pc[q] /\ Fresh(pc[q])
  BY <1>1, <1>3 DEF Fresh
<1>4. ASSUME NEW q \in Procs, Fresh(pc'[q])
      PROVE  /\ pc'[q].lba \in block_bitmap'
             /\ \A i \in Idxs : all_blocks'[i] # pc'[q].lba
             /\ \A r \in Procs \ {q} : Fresh(pc'[r]) => pc'[r].lba # pc'[q].lba
  BY <1>3, <1>4 DEF IInv, FreshOK
<1>5. FreshOK'
  BY <1>4 DEF FreshOK, Fresh
<1> QED
  BY <1>2, <1>5

LEMMA HoleIs ==
  ASSUME NEW b, \E s \in 1..Slots : b[s] = None
  PROVE  Lowest(Hole(b)) \in 1..Slots /\ b[Lowest(Hole(b))] = None
<1>1. Hole(b) \subseteq Nat /\ Hole(b) # {}
  BY DEF Hole
<1>2. Lowest(Hole(b)) \in Hole(b)
  BY <1>1, LowestIs
<1> QED
  BY <1>2 DEF Hole

\* What sync_dir_entry writes, without the EXCEPTs
Writes(c, h) ==
    /\ block'[c.lba][h] = c.name
    /\ \A s \in (1..Slots) \ {h} : block'[c.lba][s] = c.buf[s]
    /\ \A b \in Lbas \ {c.lba} : block'[b] = block[b]
    /\ c.idx < Direct => /\ i_sectors'[c.idx] = c.lba
                         /\ \A j \in (0..Direct) \ {c.idx} : i_sectors'[j] = i_sectors[j]
    /\ c.idx >= Direct => /\ i_sectors'[Direct] = c.tab
                          /\ \A j \in 0..Direct : j < Direct => i_sectors'[j] = i_sectors[j]
    /\ c.tab = 0 => table' = table
    /\ c.tab # 0 => table'[0] = c.lba /\ \A j \in 1..(Indirect - 1) : table'[j] = 0

LEMMA WrittenIs ==
  ASSUME IInv, NEW p \in Procs, sync_dir_entry_write(p)
  PROVE  /\ DirectoryTypeOK'
         /\ pc[p] \in Calls /\ pc[p].at = "insert" /\ CallOK(pc[p])
         /\ Only(p) /\ pc'[p].at = "inserted"
         /\ \E h \in 1..Slots : pc[p].buf[h] = None /\ Writes(pc[p], h)
<1> USE ConstantsAre
<1> DEFINE c == pc[p]
           h == Lowest(Hole(c.buf))
           nb == [c.buf EXCEPT ![h] = c.name]
<1>1. /\ broken = "none" /\ c.at = "insert"
      /\ block' = [block EXCEPT ![c.lba] = nb]
      /\ i_sectors' = IF c.idx < Direct THEN [i_sectors EXCEPT ![c.idx] = c.lba]
                      ELSE [i_sectors EXCEPT ![Direct] = c.tab]
      /\ table' = IF c.tab = 0 THEN table ELSE [NoTable EXCEPT ![0] = c.lba]
      /\ broken' \in {"none", "lost", "raced"}
      /\ pc' = [pc EXCEPT ![p] = [Out EXCEPT !.at = "inserted"]]
      /\ UNCHANGED <<i_size, block_bitmap>>
  BY DEF sync_dir_entry_write, Runs
<1>2. c \in Calls /\ CallOK(c)
  BY <1>1 DEF IInv, DirectoryTypeOK, CallsOK, CallOK
<1>3. /\ c.buf \in Buffers /\ c.lba \in Lbas /\ c.idx \in Idxs /\ c.tab \in 0..NBlocks
      /\ c.name \in Names /\ \E s \in 1..Slots : c.buf[s] = None
  BY <1>1, <1>2 DEF Calls, CallOK
<1> HIDE DEF c
<1>4. h \in 1..Slots /\ c.buf[h] = None
  BY <1>3, HoleIs
<1> HIDE DEF h
<1>5. nb \in Buffers /\ nb[h] = c.name /\ \A s \in (1..Slots) \ {h} : nb[s] = c.buf[s]
  BY <1>3, <1>4 DEF Buffers, Entries
<1> HIDE DEF nb
<1>6. /\ block' \in [Lbas -> Buffers] /\ block'[c.lba] = nb
      /\ \A b \in Lbas \ {c.lba} : block'[b] = block[b]
  BY <1>1, <1>3, <1>5 DEF IInv, DirectoryTypeOK
<1>7. /\ i_sectors' \in [0..Direct -> 0..NBlocks]
      /\ c.idx < Direct => /\ i_sectors'[c.idx] = c.lba
                           /\ \A j \in (0..Direct) \ {c.idx} : i_sectors'[j] = i_sectors[j]
      /\ c.idx >= Direct => /\ i_sectors'[Direct] = c.tab
                            /\ \A j \in 0..Direct : j < Direct => i_sectors'[j] = i_sectors[j]
  <2>0. i_sectors \in [0..Direct -> 0..NBlocks] /\ c.lba \in 0..NBlocks
    BY <1>3 DEF IInv, DirectoryTypeOK
  <2>1. CASE c.idx < Direct
    <3>1. i_sectors' = [i_sectors EXCEPT ![c.idx] = c.lba] /\ c.idx \in 0..Direct
      BY <1>1, <1>3, <2>1 DEF Idxs
    <3> QED
      BY <2>0, <2>1, <3>1
  <2>2. CASE ~(c.idx < Direct)
    <3>1. i_sectors' = [i_sectors EXCEPT ![Direct] = c.tab] /\ Direct \in 0..Direct
      BY <1>1, <2>2
    <3> QED
      BY <1>3, <2>0, <2>2, <3>1
  <2> QED
    BY <2>1, <2>2
<1>8. /\ table' \in [0..(Indirect - 1) -> 0..NBlocks]
      /\ c.tab = 0 => table' = table
      /\ c.tab # 0 => table'[0] = c.lba /\ \A j \in 1..(Indirect - 1) : table'[j] = 0
  <2>1. CASE c.tab = 0
    BY <1>1, <2>1 DEF IInv, DirectoryTypeOK
  <2>2. CASE c.tab # 0
    <3>1. table' = [NoTable EXCEPT ![0] = c.lba]
      BY <1>1, <2>2, Zenon
    <3>2. c.lba \in 0..NBlocks
      BY <1>3
    <3>3. 0 \in 0..(Indirect - 1) /\ \A j \in 1..(Indirect - 1) : j \in 0..(Indirect - 1)
      BY ConstantsAre
    <3> QED
      BY <2>2, <3>1, <3>2, <3>3 DEF NoTable
  <2> QED
    BY <2>1, <2>2
<1>9. Only(p) /\ pc'[p].at = "inserted"
  BY <1>1, EmptyIs DEF IInv, DirectoryTypeOK, Only
<1>10. DirectoryTypeOK'
  <2>1. i_size' \in Int /\ block_bitmap' \subseteq Lbas
        /\ broken' \in {"none", "panic", "lost", "raced", "endless"}
    BY <1>1 DEF IInv, DirectoryTypeOK
  <2> QED
    BY <1>6, <1>7, <1>8, <1>9, <2>1 DEF DirectoryTypeOK, Only
<1>11. Writes(c, h)
  BY <1>5, <1>6, <1>7, <1>8 DEF Writes
<1>12. c = pc[p]
  BY DEF c
<1> QED
  BY <1>1, <1>2, <1>4, <1>9, <1>10, <1>11, <1>12

LEMMA SyncWriteStep ==
  ASSUME IInv, NEW p \in Procs, sync_dir_entry_write(p)
  PROVE  IInv'
<1> USE ConstantsAre
<1> DEFINE c == pc[p]
           i == c.idx
           a == c.lba
           n == c.name
<1>1. /\ DirectoryTypeOK' /\ c \in Calls /\ c.at = "insert" /\ CallOK(c)
      /\ Only(p) /\ pc'[p].at = "inserted"
  BY WrittenIs
<1>2. PICK h \in 1..Slots : c.buf[h] = None /\ Writes(c, h)
  BY WrittenIs
<1>3. /\ broken = "none" /\ UNCHANGED <<i_size, block_bitmap>>
      /\ broken' = "none" => /\ ~(c.tab # 0 /\ i_sectors[Direct] # 0)
                             /\ ~Stale(c) /\ ~search_dir_entry(n)
  BY DEF sync_dir_entry_write, Runs
<1> SUFFICES ASSUME broken' = "none" PROVE StoreOK' /\ CallsOK' /\ FreshOK'
  BY <1>1 DEF IInv, StoreOK
<1>4. /\ i \in Idxs /\ a \in Lbas /\ n \in Names /\ a # 0
      /\ IF c.tab = 0 THEN i < Direct ELSE i = Direct /\ Fresh(c)
  BY <1>1 DEF CallOK, Calls
<1>5. Fresh(c) => /\ a \in block_bitmap /\ \A j \in Idxs : all_blocks[j] # a
                  /\ \A s \in 1..Slots : c.buf[s] = None
                  /\ all_blocks[i] = 0
  <2> SUFFICES ASSUME Fresh(c)
               PROVE  /\ a \in block_bitmap /\ \A j \in Idxs : all_blocks[j] # a
                      /\ \A s \in 1..Slots : c.buf[s] = None
                      /\ all_blocks[i] = 0
    OBVIOUS
  <2>1. a \in block_bitmap /\ \A j \in Idxs : all_blocks[j] # a
    BY <1>3 DEF IInv, FreshOK
  <2>2. \A s \in 1..Slots : c.buf[s] = None
    BY EmptyIs DEF Fresh
  <2>3. CASE c.tab = 0
    <3>1. i_sectors[i] = 0 /\ i < Direct
      BY <1>3, <1>4, <2>3 DEF Stale, Fresh
    <3> QED
      BY <1>4, <2>1, <2>2, <3>1, AllBlocksIs DEF IInv
  <2>4. CASE c.tab # 0
    <3>1. i_sectors[Direct] = 0 /\ i = Direct
      BY <1>3, <1>4, <2>4
    <3> QED
      BY <1>4, <2>1, <2>2, <3>1, AllBlocksIs DEF IInv
  <2> QED
    BY <2>1, <2>2, <2>3, <2>4
<1>6. ~Fresh(c) => /\ all_blocks[i] = a /\ block[a] = c.buf /\ a \in block_bitmap
                   /\ \A j \in Idxs \ {i} : all_blocks[j] # a
  <2> SUFFICES ASSUME ~Fresh(c)
               PROVE  /\ all_blocks[i] = a /\ block[a] = c.buf /\ a \in block_bitmap
                      /\ \A j \in Idxs \ {i} : all_blocks[j] # a
    OBVIOUS
  <2>1. all_blocks[i] = a /\ block[a] = c.buf
    BY <1>1, <1>3, <1>4 DEF Stale, Fresh
  <2> QED
    BY <1>3, <1>4, <2>1 DEF IInv, BlocksOK
<1> HIDE DEF c
<1>7. all_blocks'[i] = a /\ \A j \in Idxs \ {i} : all_blocks'[j] = all_blocks[j]
  <2>1. CASE c.tab = 0
    <3>1. /\ i < Direct /\ i_sectors'[i] = a /\ table' = table
          /\ \A j \in (0..Direct) \ {i} : i_sectors'[j] = i_sectors[j]
      BY <1>2, <1>4, <2>1 DEF Writes
    <3>2. i_sectors'[Direct] = i_sectors[Direct]
      BY <3>1
    <3>3. all_blocks'[i] = a
      BY <1>1, <1>4, <3>1, AllBlocksNext
    <3>4. ASSUME NEW j \in Idxs \ {i} PROVE all_blocks'[j] = all_blocks[j]
      <4>0. j < Direct \/ j >= Direct
        BY DEF Idxs
      <4>1. CASE j < Direct
        <5>1. i_sectors'[j] = i_sectors[j]
          BY <3>1, <4>1 DEF Idxs
        <5> QED
          BY <1>1, <4>1, <5>1, AllBlocksIs, AllBlocksNext DEF IInv
      <4>2. CASE j >= Direct
        BY <1>1, <3>1, <3>2, <4>2, AllBlocksIs, AllBlocksNext DEF IInv
      <4> QED
        BY <4>0, <4>1, <4>2
    <3> QED
      BY <3>3, <3>4
  <2>2. CASE c.tab # 0
    <3>1. /\ i = Direct /\ i_sectors'[Direct] = c.tab /\ i_sectors[Direct] = 0
          /\ \A j \in 0..Direct : j < Direct => i_sectors'[j] = i_sectors[j]
          /\ table'[0] = a /\ \A j \in 1..(Indirect - 1) : table'[j] = 0
      BY <1>2, <1>3, <1>4, <2>2 DEF Writes
    <3>2. all_blocks'[i] = a
      BY <1>1, <1>4, <2>2, <3>1, AllBlocksNext
    <3>3. ASSUME NEW j \in Idxs \ {i} PROVE all_blocks'[j] = all_blocks[j]
      <4>0. j < Direct \/ j >= Direct
        BY DEF Idxs
      <4>1. CASE j < Direct
        <5>1. i_sectors'[j] = i_sectors[j]
          BY <3>1, <4>1 DEF Idxs
        <5> QED
          BY <1>1, <4>1, <5>1, AllBlocksIs, AllBlocksNext DEF IInv
      <4>2. CASE j > Direct
        <5>1. j - Direct \in 1..(Indirect - 1)
          BY <4>2 DEF Idxs
        <5>2. all_blocks'[j] = 0
          BY <1>1, <2>2, <3>1, <4>2, <5>1, AllBlocksNext
        <5> QED
          BY <3>1, <4>2, <5>2, AllBlocksIs DEF IInv
      <4> QED
        BY <3>1, <4>1, <4>2 DEF Idxs
    <3> QED
      BY <3>2, <3>3
  <2> QED
    BY <2>1, <2>2
<1>8. TableOK'
  <2>1. CASE c.tab = 0
    <3>1. i_sectors'[Direct] = i_sectors[Direct] /\ table' = table
      BY <1>2, <1>4, <2>1 DEF Writes
    <3> QED
      BY <1>3, <3>1 DEF IInv, TableOK
  <2>2. CASE c.tab # 0
    BY <1>2, <1>4, <2>2 DEF Writes, TableOK
  <2> QED
    BY <2>1, <2>2
<1>9. Inserts(i, a, h, n)
  <2>1. /\ block'[a][h] = n /\ \A s \in (1..Slots) \ {h} : block'[a][s] = c.buf[s]
        /\ \A b \in Lbas \ {a} : block'[b] = block[b]
    BY <1>2 DEF Writes
  <2>2. CASE Fresh(c)
    BY <1>4, <1>5, <1>7, <2>1, <2>2 DEF Inserts
  <2>3. CASE ~Fresh(c)
    BY <1>2, <1>4, <1>6, <1>7, <2>1, <2>3 DEF Inserts
  <2> QED
    BY <2>2, <2>3
<1>10. BlocksOK' /\ DotsOK' /\ NamesOK' /\ SizeOK'
  <2>1. pc[p].at = "insert"
    BY <1>1 DEF c
  <2>2. p \notin Inserted /\ p \notin Deleted
    BY <2>1 DEF Inserted, Deleted
  <2>3. Inserted' = Inserted \cup {p} /\ Deleted' = Deleted
    BY <1>1, <2>2, OnlyIs
  <2>4. Cardinality(Inserted)' = Cardinality(Inserted) + 1
    BY <2>2, <2>3, CountedAre, FS_AddElement
  <2> QED
    BY <1>1, <1>3, <1>4, <1>5, <1>6, <1>9, <2>3, <2>4, InsertedStore
<1>11. ASSUME NEW q \in Procs \ {p}, Fresh(pc[q])
       PROVE  pc[q].lba \in block_bitmap' /\ \A j \in Idxs : all_blocks'[j] # pc[q].lba
  <2>1. pc[q].lba \in block_bitmap /\ \A j \in Idxs : all_blocks[j] # pc[q].lba
    BY <1>3, <1>11 DEF IInv, FreshOK
  <2>2. a # pc[q].lba
    <3>1. CASE Fresh(c)
      BY <1>3, <1>11, <3>1 DEF IInv, FreshOK, c
    <3>2. CASE ~Fresh(c)
      BY <1>4, <1>6, <2>1, <3>2
    <3> QED
      BY <3>1, <3>2
  <2> QED
    BY <1>3, <1>7, <2>1, <2>2
<1>12. CallsOK' /\ FreshOK'
  BY <1>1, <1>3, <1>11, WriteCalls
<1> QED
  BY <1>8, <1>10, <1>12 DEF StoreOK

(***************************************************************************)
(* An entry is taken out of slot h of block a, and the block out of the    *)
(* directory if that was its last.                                         *)
(***************************************************************************)
Deletes(i, a, h, n) ==
    /\ a # 0 /\ all_blocks[i] = a /\ block[a][h] = n
    /\ \A j \in Idxs \ {i} : all_blocks[j] # a /\ all_blocks'[j] = all_blocks[j]
    /\ \A b \in Lbas \ {a} : block'[b] = block[b]
    /\ \/ /\ all_blocks'[i] = a /\ block'[a][h] = None
          /\ \A s \in (1..Slots) \ {h} : block'[a][s] = block[a][s]
          /\ \E s \in (1..Slots) \ {h} : block[a][s] # None
       \/ all_blocks'[i] = 0 /\ \A s \in (1..Slots) \ {h} : block[a][s] = None

LEMMA DeletedPlaces ==
  ASSUME DirectoryTypeOK, NEW i \in Idxs, NEW a \in Lbas, NEW h \in 1..Slots, NEW n \in Names,
         Deletes(i, a, h, n)
  PROVE  /\ <<i, h>> \in Places /\ Places' = Places \ {<<i, h>>}
         /\ \A x \in Places' : Entry(x)' = Entry(x)
         /\ \A j \in Idxs, s \in 1..Slots : PlaceIs(j, s) /\ <<j, s>> # <<i, h>> =>
                PlaceIs(j, s)' /\ block'[all_blocks'[j]][s] = block[all_blocks[j]][s]
<1> USE ConstantsAre
<1>1. ASSUME NEW j \in Idxs, NEW s \in 1..Slots
      PROVE  /\ PlaceIs(j, s)' <=> PlaceIs(j, s) /\ ~(j = i /\ s = h)
             /\ PlaceIs(j, s)' => block'[all_blocks'[j]][s] = block[all_blocks[j]][s]
  <2>1. CASE j = i
    <3>1. CASE s = h
      BY <2>1, <3>1 DEF Deletes, PlaceIs
    <3>2. CASE s # h
      BY <2>1, <3>2 DEF Deletes, PlaceIs
    <3> QED
      BY <3>1, <3>2
  <2>2. CASE j # i
    <3>1. all_blocks'[j] = all_blocks[j] /\ all_blocks[j] # a
      BY <2>2 DEF Deletes
    <3>2. all_blocks[j] # 0 => all_blocks[j] \in Lbas
      BY BlockIs
    <3>3. all_blocks[j] # 0 => block'[all_blocks[j]] = block[all_blocks[j]]
      BY <3>1, <3>2 DEF Deletes
    <3> QED
      BY <2>2, <3>1, <3>3 DEF PlaceIs
  <2> QED
    BY <2>1, <2>2
<1>2. /\ \A j \in Idxs, s \in 1..Slots : <<j, s>> \in Places' <=> PlaceIs(j, s)'
      /\ \A j \in Idxs, s \in 1..Slots : Entry(<<j, s>>)' = block'[all_blocks'[j]][s]
  BY DEF Places, PlaceIs, Entry
<1>3. Places \subseteq Idxs \X (1..Slots) /\ Places' \subseteq Idxs \X (1..Slots)
  BY DEF Places
<1>4. PlaceIs(i, h)
  BY DEF Deletes, PlaceIs
<1>5. ASSUME NEW j \in Idxs, NEW s \in 1..Slots
      PROVE  <<j, s>> \in Places' <=> <<j, s>> \in Places \ {<<i, h>>}
  <2>1. <<j, s>> = <<i, h>> <=> j = i /\ s = h
    OBVIOUS
  <2> QED
    BY <1>1, <1>2, <2>1, InPlaces
<1>6. Places' = Places \ {<<i, h>>}
  <2>1. \A x \in Idxs \X (1..Slots) : x \in Places' <=> x \in Places \ {<<i, h>>}
    <3> TAKE x \in Idxs \X (1..Slots)
    <3>1. PICK j \in Idxs, s \in 1..Slots : x = <<j, s>>
      BY PairIs
    <3>2. <<j, s>> \in Places' <=> <<j, s>> \in Places \ {<<i, h>>}
      BY <1>5
    <3> QED
      BY <3>1, <3>2
  <2> QED
    BY <1>3, <2>1
<1>7. ASSUME NEW x \in Places' PROVE Entry(x)' = Entry(x)
  <2>1. PICK j \in Idxs, s \in 1..Slots : x = <<j, s>>
    BY <1>3, PairIs
  <2>2. PlaceIs(j, s)'
    BY <1>2, <2>1
  <2>3. Entry(<<j, s>>)' = Entry(<<j, s>>)
    BY <1>1, <1>2, <2>2, InPlaces
  <2> QED
    BY <2>1, <2>3
<1> QED
  BY <1>1, <1>4, <1>6, <1>7, InPlaces

LEMMA DeletedStore ==
  ASSUME IInv, broken = "none", DirectoryTypeOK', NEW i \in Idxs, NEW a \in Lbas,
         NEW h \in 1..Slots, NEW n \in Names, Deletes(i, a, h, n), Inserted' = Inserted,
         i_size' - Cardinality(Deleted)' = i_size - Cardinality(Deleted) - 1,
         Cardinality(Deleted)' \in Nat,
         \A b \in block_bitmap : b # a \/ all_blocks'[i] = a => b \in block_bitmap'
  PROVE  BlocksOK' /\ DotsOK' /\ NamesOK' /\ SizeOK'
<1> USE ConstantsAre
<1>1. /\ <<i, h>> \in Places /\ Places' = Places \ {<<i, h>>}
      /\ \A x \in Places' : Entry(x)' = Entry(x)
      /\ \A j \in Idxs, s \in 1..Slots : PlaceIs(j, s) /\ <<j, s>> # <<i, h>> =>
             PlaceIs(j, s)' /\ block'[all_blocks'[j]][s] = block[all_blocks[j]][s]
  BY DeletedPlaces DEF IInv
<1>2. SizeOK'
  <2>1. Cardinality(Places \ {<<i, h>>}) = Cardinality(Places) - 1
    BY <1>1, PlacesAre, FS_RemoveElement
  <2>2. i_size + Cardinality(Inserted) = Cardinality(Places) + Cardinality(Deleted)
        /\ i_size \in Int /\ i_size' \in Int
    BY DEF IInv, SizeOK, DirectoryTypeOK
  <2>3. Cardinality(Places') = Cardinality(Places) - 1
        /\ Cardinality(Inserted') = Cardinality(Inserted)
    BY <1>1, <2>1
  <2>4. i_size' + Cardinality(Inserted') = Cardinality(Places') + Cardinality(Deleted)'
    BY <2>2, <2>3, PlacesAre, CountedAre
  <2> QED
    BY <2>4 DEF SizeOK
<1>3. NamesOK'
  BY <1>1 DEF IInv, NamesOK
<1>4. BlocksOK'
  <2> SUFFICES ASSUME NEW j \in Idxs, all_blocks'[j] # 0
               PROVE  /\ all_blocks'[j] \in block_bitmap'
                      /\ \A k \in Idxs \ {j} : all_blocks'[j] # all_blocks'[k]
                      /\ \E s \in 1..Slots : block'[all_blocks'[j]][s] # None
    BY DEF BlocksOK
  <2>1. CASE j = i
    <3>1. /\ all_blocks'[j] = a /\ \A k \in Idxs \ {j} : all_blocks'[k] # a
          /\ \E s \in 1..Slots : block'[a][s] # None
      BY <2>1 DEF Deletes
    <3>2. a \in block_bitmap
      BY DEF IInv, BlocksOK, Deletes
    <3> QED
      BY <2>1, <3>1, <3>2
  <2>2. CASE j # i
    <3>1. all_blocks'[j] = all_blocks[j] /\ all_blocks[j] # a /\ all_blocks'[i] \in {0, a}
          /\ \A k \in Idxs \ {i} : all_blocks'[k] = all_blocks[k]
      BY <2>2 DEF Deletes
    <3>2. \A k \in Idxs \ {j} : all_blocks'[j] # all_blocks'[k]
      BY <2>2, <3>1 DEF IInv, BlocksOK
    <3>3. PICK s \in 1..Slots : block[all_blocks[j]][s] # None
      BY <3>1 DEF IInv, BlocksOK
    <3>4. block'[all_blocks'[j]][s] # None
      BY <1>1, <2>2, <3>1, <3>3 DEF PlaceIs
    <3>5. all_blocks'[j] \in block_bitmap'
      BY <3>1 DEF IInv, BlocksOK
    <3> QED
      BY <3>2, <3>4, <3>5
  <2> QED
    BY <2>1, <2>2
<1>5. DotsOK'
  <2>1. PICK s \in 1..Slots : block[all_blocks[0]][s] = Dots /\ all_blocks[0] # 0
    BY DEF IInv, DotsOK
  <2>2. PlaceIs(0, s) /\ ~(i = 0 /\ s = h)
    BY <2>1 DEF PlaceIs, Deletes
  <2>3. PlaceIs(0, s)' /\ block'[all_blocks'[0]][s] = Dots
    BY <1>1, <2>1, <2>2
  <2> QED
    BY <2>3 DEF DotsOK, PlaceIs
<1> QED
  BY <1>2, <1>3, <1>4, <1>5

\* What delete_dir_entry writes, without the EXCEPTs
Clears(c) ==
    /\ \A s \in 1..Slots : block'[c.lba][s] =
          IF Others(c) = {} \/ c.buf[s] = c.name THEN None ELSE c.buf[s]
    /\ \A b \in Lbas \ {c.lba} : block'[b] = block[b]
    /\ Others(c) = {} => block_bitmap' = block_bitmap \ {c.lba}
    /\ Others(c) # {} => block_bitmap' = block_bitmap /\ i_sectors' = i_sectors
    /\ Others(c) = {} /\ c.idx < Direct =>
          /\ i_sectors'[c.idx] = 0
          /\ \A j \in (0..Direct) \ {c.idx} : i_sectors'[j] = i_sectors[j]

LEMMA ClearedIs ==
  ASSUME IInv, NEW p \in Procs, delete_dir_entry_write(p)
  PROVE  /\ DirectoryTypeOK'
         /\ pc[p] \in Calls /\ pc[p].at = "delete" /\ CallOK(pc[p])
         /\ Only(p) /\ pc'[p].at = IF Others(pc[p]) = {} THEN "out" ELSE "deleted"
         /\ Clears(pc[p])
<1> USE ConstantsAre
<1> DEFINE c == pc[p]
           nb == [s \in 1..Slots |-> IF Others(c) = {} \/ c.buf[s] = c.name THEN None ELSE c.buf[s]]
<1>1. /\ broken = "none" /\ c.at = "delete"
      /\ block' = [block EXCEPT ![c.lba] = nb]
      /\ block_bitmap' = IF Others(c) = {} THEN block_bitmap \ {c.lba} ELSE block_bitmap
      /\ i_sectors' = IF Others(c) = {} /\ c.idx < Direct THEN [i_sectors EXCEPT ![c.idx] = 0]
                      ELSE i_sectors
      /\ broken' \in {"none", "endless", "raced"}
      /\ i_size' \in {i_size, i_size - 1}
      /\ pc' = [pc EXCEPT ![p] = IF Others(c) = {} THEN Out ELSE [Out EXCEPT !.at = "deleted"]]
      /\ UNCHANGED table
  BY DEF delete_dir_entry_write, Runs
<1>2. c \in Calls /\ CallOK(c)
  BY <1>1 DEF IInv, DirectoryTypeOK, CallsOK, CallOK
<1>3. c.buf \in Buffers /\ c.lba \in Lbas /\ c.idx \in Idxs /\ c.name \in Names
  BY <1>2 DEF Calls, CallOK
<1> HIDE DEF c
<1>4. /\ nb \in Buffers
      /\ \A s \in 1..Slots : nb[s] =
            IF Others(c) = {} \/ c.buf[s] = c.name THEN None ELSE c.buf[s]
  BY <1>3 DEF Buffers, Entries
<1> HIDE DEF nb
<1>5. /\ block' \in [Lbas -> Buffers] /\ block'[c.lba] = nb
      /\ \A b \in Lbas \ {c.lba} : block'[b] = block[b]
  BY <1>1, <1>3, <1>4 DEF IInv, DirectoryTypeOK
<1>6. /\ i_sectors' \in [0..Direct -> 0..NBlocks]
      /\ Others(c) # {} => i_sectors' = i_sectors
      /\ Others(c) = {} /\ c.idx < Direct =>
            /\ i_sectors'[c.idx] = 0
            /\ \A j \in (0..Direct) \ {c.idx} : i_sectors'[j] = i_sectors[j]
  <2>0. i_sectors \in [0..Direct -> 0..NBlocks]
    BY DEF IInv, DirectoryTypeOK
  <2>1. CASE Others(c) = {} /\ c.idx < Direct
    <3>1. i_sectors' = [i_sectors EXCEPT ![c.idx] = 0] /\ c.idx \in 0..Direct
      BY <1>1, <1>3, <2>1 DEF Idxs
    <3> QED
      BY <2>0, <2>1, <3>1
  <2>2. CASE ~(Others(c) = {} /\ c.idx < Direct)
    <3>1. i_sectors' = i_sectors
      BY <1>1, <2>2, Zenon
    <3> QED
      BY <2>0, <2>2, <3>1
  <2> QED
    BY <2>1, <2>2
<1>7. Only(p) /\ pc'[p].at = IF Others(c) = {} THEN "out" ELSE "deleted"
  <2>1. pc \in [Procs -> Calls]
    BY DEF IInv, DirectoryTypeOK
  <2>2. CASE Others(c) = {}
    <3>1. pc' = [pc EXCEPT ![p] = Out]
      BY <1>1, <2>2, Zenon
    <3> QED
      BY <2>1, <2>2, <3>1, EmptyIs DEF Only
  <2>3. CASE Others(c) # {}
    <3>1. pc' = [pc EXCEPT ![p] = [Out EXCEPT !.at = "deleted"]]
      BY <1>1, <2>3, Zenon
    <3> QED
      BY <2>1, <2>3, <3>1, EmptyIs DEF Only
  <2> QED
    BY <2>2, <2>3
<1>8. DirectoryTypeOK'
  <2>1. i_size' \in Int
    BY <1>1 DEF IInv, DirectoryTypeOK
  <2>2. block_bitmap' \subseteq Lbas
    BY <1>1 DEF IInv, DirectoryTypeOK
  <2>3. table' \in [0..(Indirect - 1) -> 0..NBlocks]
        /\ broken' \in {"none", "panic", "lost", "raced", "endless"}
    BY <1>1 DEF IInv, DirectoryTypeOK
  <2> QED
    BY <1>5, <1>6, <1>7, <2>1, <2>2, <2>3 DEF DirectoryTypeOK, Only
<1>9. /\ Others(c) = {} => block_bitmap' = block_bitmap \ {c.lba}
      /\ Others(c) # {} => block_bitmap' = block_bitmap
  BY <1>1
<1>10. Clears(c)
  BY <1>4, <1>5, <1>6, <1>9 DEF Clears
<1>11. c = pc[p]
  BY DEF c
<1> QED
  BY <1>1, <1>2, <1>7, <1>8, <1>10, <1>11

LEMMA DeleteWriteStep ==
  ASSUME IInv, NEW p \in Procs, delete_dir_entry_write(p)
  PROVE  IInv'
<1> USE ConstantsAre
<1> DEFINE c == pc[p]
           i == c.idx
           a == c.lba
           n == c.name
<1>1. /\ DirectoryTypeOK' /\ c \in Calls /\ c.at = "delete" /\ CallOK(c) /\ Clears(c)
      /\ Only(p) /\ pc'[p].at = IF Others(c) = {} THEN "out" ELSE "deleted"
  BY ClearedIs
<1>2. /\ broken = "none" /\ UNCHANGED table
      /\ broken' = "none" => ~(Others(c) = {} /\ i >= Direct) /\ ~Stale(c)
      /\ i_size' = IF Others(c) = {} /\ i < Direct THEN i_size - 1 ELSE i_size
  BY DEF delete_dir_entry_write, Runs
<1> SUFFICES ASSUME broken' = "none" PROVE StoreOK' /\ CallsOK' /\ FreshOK'
  BY <1>1 DEF IInv, StoreOK
<1>3. /\ i \in Idxs /\ a \in Lbas /\ n \in Names /\ a # 0 /\ c.tab = 0 /\ i \in Int
      /\ \E s \in 1..Slots : c.buf[s] = n
  BY <1>1 DEF CallOK, Calls, Idxs
<1>4. all_blocks[i] = a /\ block[a] = c.buf
  <2>1. c.buf # Empty
    BY <1>3, EmptyIs
  <2> QED
    BY <1>2, <1>3, <2>1 DEF Stale
<1>5. a \in block_bitmap /\ \A j \in Idxs \ {i} : all_blocks[j] # a
  BY <1>2, <1>3, <1>4 DEF IInv, BlocksOK
<1> HIDE DEF c
<1>6. PICK h \in 1..Slots : block[a][h] = n
  BY <1>3, <1>4
<1>7. \A s \in 1..Slots : block[a][s] = n => s = h
  <2>1. \A s \in 1..Slots : block[a][s] = n => <<i, s>> \in Places /\ Entry(<<i, s>>) = n
    BY <1>3, <1>4, InPlaces DEF PlaceIs
  <2>2. ASSUME NEW s \in 1..Slots, block[a][s] = n PROVE s = h
    <3>1. <<i, s>> = <<i, h>>
      BY <1>2, <1>3, <1>6, <2>1, <2>2 DEF IInv, NamesOK
    <3> QED
      BY <3>1
  <2> QED
    BY <2>2
<1>8. Others(c) = {s \in 1..Slots : block[a][s] # None} \ {h}
  BY <1>3, <1>4, <1>6, <1>7 DEF Others
<1>9. /\ \A j \in Idxs \ {i} : all_blocks'[j] = all_blocks[j]
      /\ all_blocks'[i] = IF Others(c) = {} THEN 0 ELSE a
      /\ i_sectors'[Direct] = i_sectors[Direct]
  <2>1. CASE Others(c) # {}
    <3>1. i_sectors' = i_sectors /\ table' = table
      BY <1>1, <1>2, <2>1 DEF Clears
    <3>2. all_blocks' = all_blocks
      BY <3>1 DEF all_blocks
    <3> QED
      BY <1>4, <2>1, <3>1, <3>2
  <2>2. CASE Others(c) = {}
    <3>1. /\ i < Direct /\ i_sectors'[i] = 0 /\ table' = table
          /\ \A j \in (0..Direct) \ {i} : i_sectors'[j] = i_sectors[j]
      BY <1>1, <1>2, <1>3, <2>2 DEF Clears
    <3>2. i_sectors'[Direct] = i_sectors[Direct]
      BY <1>3, <3>1
    <3>3. all_blocks'[i] = 0
      BY <1>1, <1>3, <3>1, AllBlocksNext
    <3>4. ASSUME NEW j \in Idxs \ {i} PROVE all_blocks'[j] = all_blocks[j]
      <4>0. j < Direct \/ j >= Direct
        BY DEF Idxs
      <4>1. CASE j < Direct
        <5>1. i_sectors'[j] = i_sectors[j]
          BY <3>1, <4>1 DEF Idxs
        <5> QED
          BY <1>1, <4>1, <5>1, AllBlocksIs, AllBlocksNext DEF IInv
      <4>2. CASE j >= Direct
        BY <1>1, <3>1, <3>2, <4>2, AllBlocksIs, AllBlocksNext DEF IInv
      <4> QED
        BY <4>1, <4>2 DEF Idxs
    <3> QED
      BY <2>2, <3>2, <3>3, <3>4
  <2> QED
    BY <2>1, <2>2
<1>10. TableOK'
  BY <1>2, <1>9 DEF IInv, TableOK
<1>11. Deletes(i, a, h, n)
  <2>1. /\ \A b \in Lbas \ {a} : block'[b] = block[b]
        /\ \A s \in 1..Slots : block'[a][s] =
              IF Others(c) = {} \/ block[a][s] = n THEN None ELSE block[a][s]
    BY <1>1, <1>4 DEF Clears
  <2>2. CASE Others(c) = {}
    <3>1. \A s \in (1..Slots) \ {h} : block[a][s] = None
      BY <1>8, <2>2
    <3> QED
      BY <1>3, <1>4, <1>5, <1>6, <1>9, <2>1, <2>2, <3>1 DEF Deletes
  <2>3. CASE Others(c) # {}
    <3>1. \E s \in (1..Slots) \ {h} : block[a][s] # None
      BY <1>8, <2>3
    <3>2. block'[a][h] = None /\ \A s \in (1..Slots) \ {h} : block'[a][s] = block[a][s]
      BY <1>6, <1>7, <2>1, <2>3
    <3> QED
      BY <1>3, <1>4, <1>5, <1>6, <1>9, <2>1, <2>3, <3>1, <3>2 DEF Deletes
  <2> QED
    BY <2>2, <2>3
<1>12. \A b \in block_bitmap : b # a \/ all_blocks'[i] = a => b \in block_bitmap'
  BY <1>1, <1>3, <1>9 DEF Clears
<1>13. BlocksOK' /\ DotsOK' /\ NamesOK' /\ SizeOK'
  <2>1. pc[p].at = "delete"
    BY <1>1 DEF c
  <2>2. p \notin Inserted /\ p \notin Deleted
    BY <2>1 DEF Inserted, Deleted
  <2>3. Inserted' = Inserted
    BY <1>1, <2>2, OnlyIs
  <2>4. /\ i_size' - Cardinality(Deleted)' = i_size - Cardinality(Deleted) - 1
        /\ Cardinality(Deleted)' \in Nat
    <3>0. i_size \in Int
      BY DEF IInv, DirectoryTypeOK
    <3>1. CASE Others(c) = {}
      <4>1. Deleted' = Deleted /\ i_size' = i_size - 1
        BY <1>1, <1>2, <1>3, <2>2, <3>1, OnlyIs
      <4> QED
        BY <3>0, <4>1, CountedAre
    <3>2. CASE Others(c) # {}
      <4>1. Deleted' = Deleted \cup {p} /\ i_size' = i_size
        BY <1>1, <1>2, <3>2, OnlyIs
      <4>2. Cardinality(Deleted)' = Cardinality(Deleted) + 1
        BY <2>2, <4>1, CountedAre, FS_AddElement
      <4> QED
        BY <3>0, <4>1, <4>2, CountedAre
    <3> QED
      BY <3>1, <3>2
  <2> QED
    BY <1>1, <1>2, <1>3, <1>11, <1>12, <2>3, <2>4, DeletedStore
<1>14. ASSUME NEW q \in Procs \ {p}, Fresh(pc[q])
       PROVE  pc[q].lba \in block_bitmap' /\ \A j \in Idxs : all_blocks'[j] # pc[q].lba
  <2>1. /\ pc[q].lba \in block_bitmap /\ \A j \in Idxs : all_blocks[j] # pc[q].lba
        /\ pc[q].lba # 0
    BY <1>2, <1>14 DEF IInv, FreshOK, DirectoryTypeOK
  <2> QED
    BY <1>3, <1>4, <1>9, <1>12, <2>1
<1>15. CallsOK' /\ FreshOK'
  BY <1>1, <1>2, <1>14, WriteCalls
<1> QED
  BY <1>10, <1>13, <1>15 DEF StoreOK

-----------------------------------------------------------------------------
(***************************************************************************)
(* The last parts: the entry is counted.                                   *)
(***************************************************************************)
LEMMA CountStep ==
  ASSUME IInv, NEW p \in Procs, sync_dir_entry_count(p) \/ delete_dir_entry_count(p)
  PROVE  IInv'
<1> USE ConstantsAre
<1>1. /\ broken = "none" /\ pc' = [pc EXCEPT ![p] = Out]
      /\ UNCHANGED <<i_sectors, table, block, block_bitmap, broken>>
      /\ \/ pc[p].at = "inserted" /\ i_size' = i_size + 1
         \/ pc[p].at = "deleted" /\ i_size' = i_size - 1
  BY DEF sync_dir_entry_count, delete_dir_entry_count, Runs
<1>2. Only(p) /\ pc'[p].at = "out"
  BY <1>1, EmptyIs DEF IInv, DirectoryTypeOK, Only
<1>3. DirectoryTypeOK'
  BY <1>1, <1>2 DEF IInv, DirectoryTypeOK, Only
<1>4. all_blocks' = all_blocks
  BY <1>1 DEF all_blocks
<1>5. Places' = Places
  BY <1>1, <1>4 DEF Places
<1>6. BlocksOK' /\ DotsOK' /\ TableOK'
  BY <1>1, <1>4 DEF IInv, BlocksOK, DotsOK, TableOK
<1>7. NamesOK'
  BY <1>1, <1>4, <1>5 DEF IInv, NamesOK, Entry
<1>8. SizeOK'
  <2>0. i_size \in Int /\ i_size + Cardinality(Inserted) = Cardinality(Places) + Cardinality(Deleted)
    BY <1>1 DEF IInv, DirectoryTypeOK, SizeOK
  <2>1. Inserted' = Inserted \ {p} /\ Deleted' = Deleted \ {p}
    BY <1>2, OnlyIs
  <2>2. CASE pc[p].at = "inserted"
    <3>1. p \in Inserted /\ p \notin Deleted /\ i_size' = i_size + 1
      BY <1>1, <2>2 DEF Inserted, Deleted
    <3>2. Deleted' = Deleted
      BY <2>1, <3>1
    <3>3. /\ Cardinality(Inserted') = Cardinality(Inserted) - 1
          /\ Cardinality(Inserted) \in Nat /\ Cardinality(Inserted') \in Nat
      <4>1. Cardinality(Inserted \ {p}) = Cardinality(Inserted) - 1
        BY <3>1, CountedAre, FS_RemoveElement
      <4>2. IsFiniteSet(Inserted \ {p})
        BY CountedAre, FS_RemoveElement
      <4> QED
        BY <2>1, <4>1, <4>2, CountedAre, FS_CardinalityType
    <3>4. Cardinality(Places) \in Nat /\ Cardinality(Inserted) \in Nat
          /\ Cardinality(Deleted) \in Nat
      BY PlacesAre, CountedAre, FS_CardinalityType
    <3>5. i_size' + Cardinality(Inserted') = Cardinality(Places) + Cardinality(Deleted')
      BY <2>0, <3>1, <3>2, <3>3, <3>4
    <3> QED
      BY <1>5, <3>5 DEF SizeOK
  <2>3. CASE pc[p].at = "deleted"
    <3>1. p \in Deleted /\ p \notin Inserted /\ i_size' = i_size - 1
      BY <1>1, <2>3 DEF Inserted, Deleted
    <3>2. Inserted' = Inserted
      BY <2>1, <3>1
    <3>3. /\ Cardinality(Deleted') = Cardinality(Deleted) - 1
          /\ Cardinality(Deleted) \in Nat /\ Cardinality(Deleted') \in Nat
      <4>1. Cardinality(Deleted \ {p}) = Cardinality(Deleted) - 1
        BY <3>1, CountedAre, FS_RemoveElement
      <4>2. IsFiniteSet(Deleted \ {p})
        BY CountedAre, FS_RemoveElement
      <4> QED
        BY <2>1, <4>1, <4>2, CountedAre, FS_CardinalityType
    <3>4. Cardinality(Places) \in Nat /\ Cardinality(Inserted) \in Nat
          /\ Cardinality(Deleted) \in Nat
      BY PlacesAre, CountedAre, FS_CardinalityType
    <3>5. i_size' + Cardinality(Inserted') = Cardinality(Places) + Cardinality(Deleted')
      BY <2>0, <3>1, <3>2, <3>3, <3>4
    <3> QED
      BY <1>5, <3>5 DEF SizeOK
  <2> QED
    BY <1>1, <2>2, <2>3
<1>9. CallsOK' /\ FreshOK'
  <2>1. \A q \in Procs \ {p} : Fresh(pc[q]) =>
            pc[q].lba \in block_bitmap' /\ \A i \in Idxs : all_blocks'[i] # pc[q].lba
    BY <1>1, <1>4 DEF IInv, FreshOK
  <2> QED
    BY <1>1, <1>2, <2>1, WriteCalls
<1> QED
  BY <1>3, <1>6, <1>7, <1>8, <1>9 DEF IInv

-----------------------------------------------------------------------------
(***************************************************************************)
(* The invariant holds at all times.                                       *)
(***************************************************************************)
LEMMA NextHolds == IInv /\ [Next]_vars => IInv'
<1> SUFFICES ASSUME IInv, [Next]_vars PROVE IInv'
  OBVIOUS
<1>1. ASSUME NEW p \in Procs, NEW n \in Names, sync_dir_entry_read(p, n) PROVE IInv'
  BY <1>1, SyncReadStep
<1>2. ASSUME NEW p \in Procs, NEW n \in Names, delete_dir_entry_read(p, n) PROVE IInv'
  BY <1>2, DeleteReadStep
<1>3. ASSUME NEW p \in Procs, sync_dir_entry_write(p) PROVE IInv'
  BY <1>3, SyncWriteStep
<1>4. ASSUME NEW p \in Procs, delete_dir_entry_write(p) PROVE IInv'
  BY <1>4, DeleteWriteStep
<1>0. ASSUME NEW p \in Procs, sync_dir_entry_count(p) \/ delete_dir_entry_count(p)
      PROVE  IInv'
  BY <1>0, CountStep
<1>5. CASE UNCHANGED vars
  <2>1. UNCHANGED <<i_size, i_sectors, table, block, block_bitmap, pc, broken>>
    BY <1>5 DEF vars
  <2>2. DirectoryTypeOK'
    BY <2>1 DEF IInv, DirectoryTypeOK
  <2>3. CASE broken = "none"
    <3>1. StoreOK' /\ all_blocks' = all_blocks
      BY <2>1, <2>3, LooksKeeps DEF IInv, StoreOK, Looks, Inserted, Deleted
    <3>2. CallsOK' /\ FreshOK'
      BY <2>1, <2>3, <3>1 DEF IInv, CallsOK, FreshOK, Fresh
    <3> QED
      BY <2>2, <3>1, <3>2 DEF IInv, StoreOK
  <2> QED
    BY <2>1, <2>2, <2>3 DEF IInv
<1> QED
  BY <1>0, <1>1, <1>2, <1>3, <1>4, <1>5 DEF Next, stopped

THEOREM Inductive == Spec => []IInv
<1> QED
  BY InitHolds, NextHolds, PTL DEF Spec

(***************************************************************************)
(* Reading a directory to i_size with dir_read meets every entry that can  *)
(* be found, and none twice, after any calls that no other came between.   *)
(***************************************************************************)
THEOREM ListingCompleteHolds == Spec => []ListingComplete
<1> QED
  BY Inductive, ListingFollows, PTL

(***************************************************************************)
(* The ASSERT of dir_remove: a directory that dir_is_empty accepts has one *)
(* block; and the blocks of a directory are marked and named once.         *)
(***************************************************************************)
THEOREM EmptyHasOneBlockHolds == Spec => []EmptyHasOneBlock
<1> QED
  BY Inductive, OneBlockFollows, PTL
=============================================================================
