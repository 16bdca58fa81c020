---------------------------- MODULE FilesProofs -----------------------------
(***************************************************************************)
(* Proofs about open files and about what is in them.                      *)
(*                                                                         *)
(* OpenFiles, for any number of processes, files, slots and descriptors:   *)
(* until two calls meet between disk accesses or a fork shares a slot that *)
(* is then closed, an inode's count is the number of its users, and an     *)
(* open file keeps its name and its number.                                *)
(*                                                                         *)
(* FileData, for any number of files, any sizes of block, inode, table,    *)
(* partition and bitmap sector, and any writes: a block has one owner and  *)
(* is marked, and what was written reads back, also after power cuts.      *)
(***************************************************************************)
EXTENDS OpenFiles, FileData, FiniteSetTheorems, WellFoundedInduction, TLAPS

(***************************************************************************)
(* The ranges of the state.                                                *)
(***************************************************************************)
InodeRec == [no : 0..NInodes, i_open_cnts : Int, write_deny : BOOLEAN,
             listed : BOOLEAN, heap : Procs \cup {None}]

Call == [at : {"out", "reading", "creating", "created", "unlinking", "unlinked",
               "opening", "releasing", "deleting"},
         file : Files \cup {None}, slot : 0..NSlots, obj : 0..NObjs,
         no : 0..NInodes, write : BOOLEAN]

\* What a call that waits for the disk has in its local variables
CallOK(c) ==
    /\ c.at # "out" => c.file \in Files /\ c.no \in Inodes
    /\ c.at \in {"reading", "creating", "created"} => c.slot \in Slots
    /\ c.at \in {"creating", "created", "releasing", "deleting"} => c.obj \in Objs

OpenFilesTypeOK ==
    /\ dir \in [Files -> 0..NInodes]
    /\ inode_bitmap \subseteq Inodes
    /\ inode \in [Objs -> InodeRec]
    /\ file_table \in [Slots -> 0..NObjs]
    /\ fd_table \in [Procs -> [Fds -> 0..NSlots]]
    /\ pc \in [Procs -> Call]
    /\ \A p \in Procs : CallOK(pc[p])
    /\ live \subseteq Procs
    /\ broken \in {"none", "open", "create", "panic", "fork", "unlink", "foreign"}

-----------------------------------------------------------------------------
(***************************************************************************)
(* The inductive invariant.  A name has a number of its own that is taken. *)
(***************************************************************************)
DirOK ==
    /\ \A f \in Files : dir[f] # None => dir[f] \in inode_bitmap
    /\ \A f, g \in Files : dir[f] = dir[g] /\ dir[f] # None => f = g

(***************************************************************************)
(* A call in file_create has a slot, an inode and a number that nobody     *)
(* else has; the number is in the directory once the entry is written.     *)
(***************************************************************************)
Creates(p) == pc[p].at \in {"creating", "created"}

CreatorsOK ==
    /\ \A p \in Procs : Creates(p) =>
          /\ file_table[pc[p].slot] = pc[p].obj
          /\ \A s \in Slots : file_table[s] = pc[p].obj => s = pc[p].slot
          /\ inode[pc[p].obj].no = pc[p].no
          /\ ~inode[pc[p].obj].listed
          /\ pc[p].at = "creating" => /\ pc[p].no \in inode_bitmap
                                      /\ \A f \in Files : dir[f] # pc[p].no
          /\ pc[p].at = "created" => dir[pc[p].file] = pc[p].no
    /\ \A p, q \in Procs :
          Creates(p) /\ Creates(q) /\ p # q => /\ pc[p].obj # pc[q].obj
                                               /\ pc[p].no # pc[q].no

(***************************************************************************)
(* A slot that is taken has an inode; one that is listed has a file.       *)
(***************************************************************************)
Exists(no) == no \in inode_bitmap /\ \E f \in Files : dir[f] = no

SlotsOK ==
    \A s \in Slots : file_table[s] # None =>
        /\ inode[file_table[s]].no # None
        /\ inode[file_table[s]].listed => Exists(inode[file_table[s]].no)

(***************************************************************************)
(* A descriptor leads to a listed inode; who does not exist has none.      *)
(***************************************************************************)
FdsOK ==
    /\ \A p \in Procs, d \in Fds : fd_table[p][d] # None =>
          file_table[fd_table[p][d]] # None /\ inode[file_table[fd_table[p][d]]].listed
    /\ \A p \in Procs \ live, d \in Fds : fd_table[p][d] = None

ListedOK == \A o, q \in Objs :
    inode[o].listed /\ inode[q].listed /\ inode[o].no = inode[q].no => o = q

(***************************************************************************)
(* Who uses the inode o when the descriptors are F and the slots are T:    *)
(* descriptors that lead to it, slots of it that no descriptor names.      *)
(***************************************************************************)
FdRefs(F, T, o)   == {x \in Procs \X Fds : F[x[1]][x[2]] # None /\ T[F[x[1]][x[2]]] = o}
BareRefs(F, T, o) == {s \in Slots : T[s] = o /\ \A p \in Procs, d \in Fds : F[p][d] # s}
Users(F, T, o)    == Cardinality(FdRefs(F, T, o)) + Cardinality(BareRefs(F, T, o))

\* inode_release has opened it
Held(o) == \E q \in Procs : Releases(q) /\ pc[q].obj = o

CountsOK == \A o \in Objs :
    inode[o].listed /\ ~Held(o) => inode[o].i_open_cnts = Users(fd_table, file_table, o)

Good == DirOK /\ CreatorsOK /\ SlotsOK /\ FdsOK /\ ListedOK /\ CountsOK

(***************************************************************************)
(* From the removal of the entry until inode_release gives it back, the    *)
(* number is taken, and neither a name nor a slot leads to it.  The inode  *)
(* that inode_release has opened has no other user.                        *)
(***************************************************************************)
Deletes(p) == pc[p].at \in {"unlinked", "opening", "releasing"}

Spared(p) ==
    /\ Deletes(p) => /\ pc[p].no \in inode_bitmap
                     /\ \A f \in Files : dir[f] # pc[p].no
                     /\ \A s \in Slots : file_table[s] # None =>
                           inode[file_table[s]].no # pc[p].no
    /\ Releases(p) => /\ inode[pc[p].obj].listed /\ inode[pc[p].obj].i_open_cnts = 1
                      /\ \A s \in Slots : file_table[s] # pc[p].obj

UnlinkersOK ==
    /\ \A p \in Procs : Spared(p)
    /\ \A p, q \in Procs : Deletes(p) /\ Deletes(q) /\ p # q => pc[p].no # pc[q].no
    /\ \A p, q \in Procs : Releases(p) /\ Releases(q) /\ p # q => pc[p].obj # pc[q].obj

IInv == OpenFilesTypeOK /\ (broken = "none" => Good /\ UnlinkersOK)

-----------------------------------------------------------------------------
LEMMA ConstantsAre ==
  /\ NInodes \in Nat /\ NSlots \in Nat /\ NFds \in Nat /\ NObjs \in Nat
  /\ Slots \subseteq Nat /\ Slots = (0..NSlots) \ {None}
  /\ Objs \subseteq Nat /\ Objs = (0..NObjs) \ {None}
  /\ Inodes \subseteq Nat /\ Inodes = (0..NInodes) \ {None}
  /\ Fds \subseteq Nat /\ None = 0
  BY OpenFilesAssumption DEF Slots, Objs, Inodes, Fds, None

LEMMA TablesAreFinite ==
  /\ IsFiniteSet(Slots) /\ IsFiniteSet(Fds) /\ IsFiniteSet(Procs \X Fds)
  <1>1. IsFiniteSet(Slots) /\ IsFiniteSet(Fds)
    BY OpenFilesAssumption, FS_Interval DEF Slots, Fds
  <1> QED
    BY <1>1, OpenFilesAssumption, FS_Product

(***************************************************************************)
(* get_free_slot, pcb_fd_install, sys_malloc and the inode bitmap give the *)
(* lowest that is free.                                                    *)
(***************************************************************************)
LEMMA LowestIs ==
  ASSUME NEW S, S \subseteq Nat, S # {}
  PROVE  Lowest(S) \in S
<1>1. PICK x \in S : \A y \in S : ~(<<y, x>> \in OpToRel(<, Nat))
  BY NatLessThanWellFounded, WFMin, Zenon
<1>2. ASSUME NEW y \in S PROVE x <= y
  <2>1. ~(y < x)
    BY <1>1 DEF OpToRel
  <2> QED
    BY <2>1
<1> QED
  BY <1>2 DEF Lowest

LEMMA FreeSlotIs ==
  ASSUME FreeSlots # {}
  PROVE  get_free_slot \in Slots /\ file_table[get_free_slot] = None
<1>1. FreeSlots \subseteq Slots /\ FreeSlots \subseteq Nat
  BY ConstantsAre DEF FreeSlots
<1>2. get_free_slot \in FreeSlots
  BY <1>1, LowestIs DEF get_free_slot
<1> QED
  BY <1>2 DEF FreeSlots

LEMMA FreeObjIs ==
  ASSUME FreeObjs # {}
  PROVE  Lowest(FreeObjs) \in Objs /\ inode[Lowest(FreeObjs)] = NoInode
<1>1. FreeObjs \subseteq Nat
  BY ConstantsAre DEF FreeObjs
<1>2. Lowest(FreeObjs) \in FreeObjs
  BY <1>1, LowestIs
<1> QED
  BY <1>2 DEF FreeObjs

LEMMA ListedIs ==
  ASSUME NEW no, Listed(no) # {}
  PROVE  /\ Lowest(Listed(no)) \in Objs
         /\ inode[Lowest(Listed(no))].listed /\ inode[Lowest(Listed(no))].no = no
<1>1. Listed(no) \subseteq Nat
  BY ConstantsAre DEF Listed
<1>2. Lowest(Listed(no)) \in Listed(no)
  BY <1>1, LowestIs
<1> QED
  BY <1>2 DEF Listed

LEMMA InstalledIs ==
  ASSUME NEW p \in Procs, NEW s
  PROVE  \/ Installed(p, s) = fd_table
         \/ \E d \in Fds : /\ fd_table[p][d] = None
                           /\ Installed(p, s) = [fd_table EXCEPT ![p][d] = s]
<1> DEFINE free == {d \in Fds : fd_table[p][d] = None}
<1>1. CASE free = {}
  BY <1>1 DEF Installed
<1>2. CASE free # {}
  <2>1. free \subseteq Nat
    BY ConstantsAre
  <2>2. Lowest(free) \in free
    BY <1>2, <2>1, LowestIs
  <2>3. Installed(p, s) = [fd_table EXCEPT ![p][Lowest(free)] = s]
    BY <1>2 DEF Installed
  <2> QED
    BY <2>2, <2>3
<1> QED
  BY <1>1, <1>2

-----------------------------------------------------------------------------
(***************************************************************************)
(* How the users of an inode change when a slot is filled, when a          *)
(* descriptor is made to name it, and when a process is copied.            *)
(***************************************************************************)
Descriptors == [Procs -> [Fds -> 0..NSlots]]
Table       == [Slots -> 0..NObjs]
Unnamed(F, s) == \A p \in Procs, d \in Fds : F[p][d] # s

LEMMA UsersIs ==
  ASSUME NEW F, NEW T, NEW o
  PROVE  /\ IsFiniteSet(FdRefs(F, T, o)) /\ IsFiniteSet(BareRefs(F, T, o))
         /\ Cardinality(FdRefs(F, T, o)) \in Nat /\ Cardinality(BareRefs(F, T, o)) \in Nat
         /\ Users(F, T, o) \in Nat
<1>1. FdRefs(F, T, o) \subseteq Procs \X Fds /\ BareRefs(F, T, o) \subseteq Slots
  BY DEF FdRefs, BareRefs
<1>2. IsFiniteSet(FdRefs(F, T, o)) /\ IsFiniteSet(BareRefs(F, T, o))
  BY <1>1, TablesAreFinite, FS_Subset
<1>3. Cardinality(FdRefs(F, T, o)) \in Nat /\ Cardinality(BareRefs(F, T, o)) \in Nat
  BY <1>2, FS_CardinalityType
<1> QED
  BY <1>2, <1>3 DEF Users

\* U is T but for slot s, which is empty in T and has o in U
Fills(U, T, s, o) == /\ T[s] = None /\ U[s] = o
                     /\ \A r \in Slots : r # s => U[r] = T[r]

LEMMA FillSlot ==
  ASSUME NEW F \in Descriptors, NEW T \in Table, NEW s \in Slots, NEW o \in Objs,
         Unnamed(F, s), NEW U \in Table, Fills(U, T, s, o)
  PROVE  /\ Users(F, U, o) = Users(F, T, o) + 1
         /\ \A q \in Objs : q # o => Users(F, U, q) = Users(F, T, q)
<1>1. /\ T[s] = None /\ U[s] = o /\ o # None
      /\ \A r \in Slots : r # s => U[r] = T[r]
  BY ConstantsAre DEF Fills
<1>2. ASSUME NEW q \in Objs PROVE FdRefs(F, U, q) = FdRefs(F, T, q)
  <2>1. ASSUME NEW x \in Procs \X Fds, F[x[1]][x[2]] # None
        PROVE  U[F[x[1]][x[2]]] = T[F[x[1]][x[2]]]
    <3>1. x[1] \in Procs /\ x[2] \in Fds
      OBVIOUS
    <3>2. F[x[1]][x[2]] \in Slots /\ F[x[1]][x[2]] # s
      BY <2>1, <3>1, ConstantsAre DEF Descriptors, Unnamed
    <3> QED
      BY <3>2, <1>1
  <2> QED
    BY <2>1, Zenon DEF FdRefs
<1>3. ASSUME NEW q \in Objs, q # o PROVE BareRefs(F, U, q) = BareRefs(F, T, q)
  <2>1. T[s] # q
    BY <1>1, ConstantsAre
  <2> QED
    BY <1>1, <1>3, <2>1 DEF BareRefs
<1>4. BareRefs(F, U, o) = BareRefs(F, T, o) \cup {s} /\ s \notin BareRefs(F, T, o)
  BY <1>1 DEF BareRefs, Unnamed
<1>5. Cardinality(BareRefs(F, U, o)) = Cardinality(BareRefs(F, T, o)) + 1
  BY <1>4, UsersIs, FS_AddElement
<1>6. ASSUME NEW q \in Objs, q # o PROVE Users(F, U, q) = Users(F, T, q)
  BY <1>2, <1>3, <1>6 DEF Users
<1>7. Users(F, U, o) = Users(F, T, o) + 1
  <2>1. FdRefs(F, U, o) = FdRefs(F, T, o)
    BY <1>2
  <2> QED
    BY <2>1, <1>5, UsersIs DEF Users
<1> QED
  BY <1>6, <1>7, Zenon

\* G is F but for descriptor d of p, which names slot s
NamesToo(G, F, p, d, s) ==
    /\ G[p][d] = s
    /\ \A x \in Procs, e \in Fds : x # p \/ e # d => G[x][e] = F[x][e]

LEMMA NameSlot ==
  ASSUME NEW F \in Descriptors, NEW T \in Table, NEW s \in Slots,
         NEW p \in Procs, NEW d \in Fds, F[p][d] = None, Unnamed(F, s), NEW q \in Objs,
         NEW G, NamesToo(G, F, p, d, s)
  PROVE  Users(G, T, q) = Users(F, T, q)
<1>1. /\ G[p][d] = s /\ s # None
      /\ \A x \in Procs, e \in Fds : <<x, e>> # <<p, d>> => G[x][e] = F[x][e]
  BY ConstantsAre DEF NamesToo
<1>2. CASE T[s] = q
  <2>1. FdRefs(G, T, q) = FdRefs(F, T, q) \cup {<<p, d>>} /\ <<p, d>> \notin FdRefs(F, T, q)
    BY <1>1, <1>2 DEF FdRefs
  <2>2. BareRefs(G, T, q) = BareRefs(F, T, q) \ {s} /\ s \in BareRefs(F, T, q)
    <3>1. s \in BareRefs(F, T, q)
      BY <1>2 DEF BareRefs, Unnamed
    <3>2. ASSUME NEW r \in Slots, r # s
          PROVE  (\A x \in Procs, e \in Fds : G[x][e] # r) <=> (\A x \in Procs, e \in Fds : F[x][e] # r)
      <4>1. F[p][d] # r /\ G[p][d] # r
        BY <1>1, <3>2, ConstantsAre
      <4> QED
        BY <4>1, <1>1
    <3>3. s \notin BareRefs(G, T, q)
      BY <1>1 DEF BareRefs
    <3> QED
      BY <3>1, <3>2, <3>3 DEF BareRefs
  <2>3. Cardinality(FdRefs(G, T, q)) = Cardinality(FdRefs(F, T, q)) + 1
    BY <2>1, UsersIs, FS_AddElement
  <2>4. Cardinality(BareRefs(G, T, q)) = Cardinality(BareRefs(F, T, q)) - 1
    <3>1. IsFiniteSet(BareRefs(F, T, q))
      BY UsersIs
    <3>2. \A S : IsFiniteSet(S) /\ s \in S => Cardinality(S \ {s}) = Cardinality(S) - 1
      BY FS_RemoveElement
    <3> QED
      BY <2>2, <3>1, <3>2
  <2> QED
    BY <2>3, <2>4, UsersIs DEF Users
<1>3. CASE T[s] # q
  <2>1. FdRefs(G, T, q) = FdRefs(F, T, q)
    BY <1>1, <1>3 DEF FdRefs
  <2>2. BareRefs(G, T, q) = BareRefs(F, T, q)
    <3>1. ASSUME NEW r \in Slots, r # s
          PROVE  (\A x \in Procs, e \in Fds : G[x][e] # r) <=> (\A x \in Procs, e \in Fds : F[x][e] # r)
      <4>1. F[p][d] # r /\ G[p][d] # r
        BY <1>1, <3>1, ConstantsAre
      <4> QED
        BY <4>1, <1>1
    <3> QED
      BY <1>3, <3>1 DEF BareRefs
  <2> QED
    BY <2>1, <2>2 DEF Users
<1> QED
  BY <1>2, <1>3

\* The descriptors of p that lead to o
Leads(F, T, p, o) == {d \in Fds : F[p][d] # None /\ T[F[p][d]] = o}

\* G is F with the descriptors of p copied to c
Copies(G, F, p, c) == /\ \A d \in Fds : G[c][d] = F[p][d]
                      /\ \A x \in Procs, d \in Fds : x # c => G[x][d] = F[x][d]

LEMMA CopyProcess ==
  ASSUME NEW F \in Descriptors, NEW T \in Table, NEW p \in Procs, NEW c \in Procs,
         \A d \in Fds : F[c][d] = None, p # c, NEW o \in Objs,
         NEW G, Copies(G, F, p, c)
  PROVE  Users(G, T, o) = Users(F, T, o) + Cardinality(Leads(F, T, p, o))
<1> DEFINE A == {d \in Fds : F[p][d] # None /\ T[F[p][d]] = o}
<1>1. /\ \A d \in Fds : G[c][d] = F[p][d]
      /\ \A x \in Procs, d \in Fds : x # c => G[x][d] = F[x][d]
  BY DEF Copies
<1>2. IsFiniteSet(A) /\ Cardinality(A) \in Nat
  <2>1. A \subseteq Fds
    OBVIOUS
  <2> QED
    BY <2>1, TablesAreFinite, FS_Subset, FS_CardinalityType
<1>3. IsFiniteSet({c} \X A) /\ Cardinality({c} \X A) = Cardinality(A)
  <2>1. IsFiniteSet({c}) /\ Cardinality({c}) = 1
    BY FS_Singleton
  <2>2. IsFiniteSet({c} \X A) /\ Cardinality({c} \X A) = Cardinality({c}) * Cardinality(A)
    BY <1>2, <2>1, FS_Product
  <2> QED
    BY <1>2, <2>1, <2>2
<1>4. FdRefs(G, T, o) = FdRefs(F, T, o) \cup ({c} \X A)
  BY <1>1 DEF FdRefs
<1>5. FdRefs(F, T, o) \cap ({c} \X A) = {}
  BY DEF FdRefs
<1>6. BareRefs(G, T, o) = BareRefs(F, T, o)
  <2>1. ASSUME NEW r \in Slots
        PROVE  (\A x \in Procs, e \in Fds : G[x][e] # r) <=> (\A x \in Procs, e \in Fds : F[x][e] # r)
    <3>1. \A e \in Fds : F[c][e] # r
      BY ConstantsAre
    <3> QED
      BY <3>1, <1>1
  <2> QED
    BY <2>1 DEF BareRefs
<1>7. Cardinality(FdRefs(G, T, o)) = Cardinality(FdRefs(F, T, o)) + Cardinality(A)
  <2>1. Cardinality(FdRefs(F, T, o) \cup ({c} \X A)) =
          Cardinality(FdRefs(F, T, o)) + Cardinality({c} \X A)
            - Cardinality(FdRefs(F, T, o) \cap ({c} \X A))
    BY <1>3, UsersIs, FS_Union
  <2>2. Cardinality(FdRefs(F, T, o) \cap ({c} \X A)) = 0
    BY <1>5, FS_EmptySet
  <2> HIDE DEF A
  <2> QED
    BY <2>1, <2>2, <1>2, <1>3, <1>4, UsersIs
<1> QED
  BY <1>2, <1>6, <1>7, UsersIs DEF Users, Leads

-----------------------------------------------------------------------------
(***************************************************************************)
(* What the parts of the invariant say of the inodes that are not in use.  *)
(***************************************************************************)
LEMMA NoInodeIs ==
  /\ NoInode \in InodeRec /\ NoInode.no = None /\ NoInode.listed = FALSE
  /\ Out \in Call /\ Out.at = "out" /\ CallOK(Out)
  BY ConstantsAre DEF NoInode, InodeRec, Out, Call, CallOK

\* The callers of inode_release are where they were, or are out of it.
Keeps == /\ \A q \in Procs : Deletes(q)' => Deletes(q) /\ pc'[q].no = pc[q].no
         /\ \A q \in Procs : Releases(q)' => Releases(q) /\ pc'[q].obj = pc[q].obj

LEMMA UnlinkersKept ==
  ASSUME UnlinkersOK, Keeps, \A q \in Procs : Spared(q)'
  PROVE  UnlinkersOK'
<1>1. \A q, r \in Procs : Deletes(q)' /\ Deletes(r)' /\ q # r => pc'[q].no # pc'[r].no
  BY DEF UnlinkersOK, Keeps
<1>2. \A q, r \in Procs : Releases(q)' /\ Releases(r)' /\ q # r => pc'[q].obj # pc'[r].obj
  BY DEF UnlinkersOK, Keeps
<1> QED
  BY <1>1, <1>2 DEF UnlinkersOK

\* Nobody enters or leaves inode_release.
Stays == \A q \in Procs : pc'[q] = pc[q] \/ ~(\/ Deletes(q) \/ Deletes(q)'
                                              \/ Releases(q) \/ Releases(q)')

LEMMA StaysIs ==
  ASSUME Stays
  PROVE  Keeps /\ \A o : Held(o)' <=> Held(o)
<1>1. Keeps
  BY DEF Stays, Keeps, Deletes, Releases
<1>2. \A q \in Procs : Releases(q) <=> Releases(q)'
  BY DEF Stays, Releases
<1>3. \A q \in Procs : Releases(q) => pc'[q] = pc[q]
  BY DEF Stays
<1> QED
  BY <1>1, <1>2, <1>3 DEF Held

LEMMA OutStays ==
  ASSUME OpenFilesTypeOK, NEW p \in Procs, pc' \in [Procs -> Call],
         \A q \in Procs : q # p => pc'[q] = pc[q],
         pc[p].at \in {"out", "reading", "creating", "created"},
         pc'[p].at \in {"out", "reading", "creating", "created", "unlinking"}
  PROVE  Stays
  BY DEF Stays, Deletes, Releases

LEMMA FdsAreSlots ==
  ASSUME OpenFilesTypeOK, NEW p \in Procs, NEW d \in Fds, fd_table[p][d] # None
  PROVE  fd_table[p][d] \in Slots
  BY ConstantsAre DEF OpenFilesTypeOK

LEMMA FreeSlotUnnamed ==
  ASSUME OpenFilesTypeOK, FdsOK, NEW s \in Slots, file_table[s] = None
  PROVE  Unnamed(fd_table, s)
  BY ConstantsAre DEF OpenFilesTypeOK, FdsOK, Unnamed

LEMMA FreeObjUnused ==
  ASSUME OpenFilesTypeOK, SlotsOK, CreatorsOK, NEW o \in Objs, inode[o] = NoInode
  PROVE  /\ \A s \in Slots : file_table[s] # o
         /\ \A p \in Procs : Creates(p) => pc[p].obj # o
         /\ Users(fd_table, file_table, o) = 0
<1>1. \A s \in Slots : file_table[s] # o
  BY NoInodeIs, ConstantsAre DEF SlotsOK
<1>2. \A p \in Procs : Creates(p) => pc[p].obj # o
  BY NoInodeIs, ConstantsAre DEF CreatorsOK, OpenFilesTypeOK, CallOK, Creates
<1>3. FdRefs(fd_table, file_table, o) = {}
  <2>1. ASSUME NEW x \in Procs \X Fds, fd_table[x[1]][x[2]] # None
        PROVE  file_table[fd_table[x[1]][x[2]]] # o
    <3>1. x[1] \in Procs /\ x[2] \in Fds
      OBVIOUS
    <3>2. fd_table[x[1]][x[2]] \in Slots
      BY <2>1, <3>1, FdsAreSlots
    <3> QED
      BY <3>2, <1>1
  <2> QED
    BY <2>1 DEF FdRefs
<1>4. BareRefs(fd_table, file_table, o) = {}
  BY <1>1 DEF BareRefs
<1>5. Users(fd_table, file_table, o) = 0
  BY <1>3, <1>4, FS_EmptySet DEF Users
<1> QED
  BY <1>1, <1>2, <1>5

(***************************************************************************)
(* The end of sys_open, whether the inode was found or read.               *)
(***************************************************************************)
LEMMA FilledIs ==
  ASSUME OpenFilesTypeOK, NEW p \in Procs, NEW s \in Slots, NEW o \in Objs,
         NEW ino \in [Objs -> InodeRec], NEW w \in BOOLEAN, Filled(p, s, o, ino, w)
  PROVE  /\ inode' \in [Objs -> InodeRec]
         /\ \A x \in Objs : /\ inode'[x].no = ino[x].no
                            /\ inode'[x].listed = ino[x].listed
                            /\ inode'[x].i_open_cnts = ino[x].i_open_cnts
         /\ file_table' = [file_table EXCEPT ![s] = o]
         /\ file_table' \in Table
         /\ \/ fd_table' = fd_table
            \/ \E d \in Fds : /\ fd_table[p][d] = None
                              /\ fd_table' = [fd_table EXCEPT ![p][d] = s]
         /\ fd_table' \in Descriptors
         /\ \A x \in Procs, e \in Fds :
               fd_table'[x][e] = fd_table[x][e] \/ (x = p /\ fd_table'[x][e] = s)
<1>1. inode' = ino \/ inode' = [ino EXCEPT ![o].write_deny = TRUE]
  BY DEF Filled
<1>2. /\ inode' \in [Objs -> InodeRec]
      /\ \A x \in Objs : /\ inode'[x].no = ino[x].no
                         /\ inode'[x].listed = ino[x].listed
                         /\ inode'[x].i_open_cnts = ino[x].i_open_cnts
  <2>1. CASE inode' = ino
    BY <2>1
  <2>2. CASE inode' = [ino EXCEPT ![o].write_deny = TRUE]
    <3>1. \A x \in Objs : x # o => inode'[x] = ino[x]
      BY <2>2
    <3>2. inode'[o] = [ino[o] EXCEPT !.write_deny = TRUE] /\ ino[o] \in InodeRec
      BY <2>2
    <3>3. /\ inode'[o] \in InodeRec /\ inode'[o].no = ino[o].no
          /\ inode'[o].listed = ino[o].listed
          /\ inode'[o].i_open_cnts = ino[o].i_open_cnts
      BY <3>2 DEF InodeRec
    <3>4. inode' = [x \in Objs |-> inode'[x]]
      BY <2>2
    <3> QED
      BY <3>1, <3>3, <3>4
  <2> QED
    BY <1>1, <2>1, <2>2
<1>3. file_table' = [file_table EXCEPT ![s] = o]
  BY DEF Filled
<1>4. file_table' \in Table
  BY <1>3, ConstantsAre DEF OpenFilesTypeOK, Table
<1>5. \/ fd_table' = fd_table
      \/ \E d \in Fds : /\ fd_table[p][d] = None
                        /\ fd_table' = [fd_table EXCEPT ![p][d] = s]
  <2>1. fd_table' = fd_table \/ fd_table' = Installed(p, s)
    BY DEF Filled
  <2> QED
    BY <2>1, InstalledIs
<1>6. fd_table \in Descriptors
  BY DEF OpenFilesTypeOK, Descriptors
<1>7. /\ fd_table' \in Descriptors
      /\ \A x \in Procs, e \in Fds :
            fd_table'[x][e] = fd_table[x][e] \/ (x = p /\ fd_table'[x][e] = s)
  BY <1>5, <1>6, ConstantsAre DEF Descriptors
<1> QED
  BY <1>2, <1>3, <1>4, <1>5, <1>7

LEMMA FilledUsers ==
  ASSUME OpenFilesTypeOK, FdsOK, NEW p \in Procs, NEW s \in Slots, NEW o \in Objs,
         NEW ino \in [Objs -> InodeRec], NEW w \in BOOLEAN, Filled(p, s, o, ino, w),
         file_table[s] = None
  PROVE  /\ Users(fd_table', file_table', o) = Users(fd_table, file_table, o) + 1
         /\ \A q \in Objs : q # o =>
               Users(fd_table', file_table', q) = Users(fd_table, file_table, q)
<1>1. Unnamed(fd_table, s)
  BY FreeSlotUnnamed
<1>2. fd_table \in Descriptors /\ file_table \in Table
  BY DEF OpenFilesTypeOK, Descriptors, Table
<1>3. file_table' = [file_table EXCEPT ![s] = o] /\ file_table' \in Table
  BY FilledIs
<1>4. /\ Users(fd_table, file_table', o) = Users(fd_table, file_table, o) + 1
      /\ \A q \in Objs : q # o =>
            Users(fd_table, file_table', q) = Users(fd_table, file_table, q)
  <2>1. Fills(file_table', file_table, s, o)
    BY <1>2, <1>3 DEF Table, Fills
  <2>2. file_table' \in Table
    BY <1>3
  <2> QED
    BY <1>1, <1>2, <2>1, <2>2, FillSlot
<1>5. ASSUME NEW q \in Objs
      PROVE  Users(fd_table', file_table', q) = Users(fd_table, file_table', q)
  <2>1. \/ fd_table' = fd_table
        \/ \E d \in Fds : /\ fd_table[p][d] = None
                          /\ fd_table' = [fd_table EXCEPT ![p][d] = s]
    BY FilledIs
  <2>2. CASE fd_table' = fd_table
    BY <2>2
  <2>3. ASSUME NEW d \in Fds, fd_table[p][d] = None,
               fd_table' = [fd_table EXCEPT ![p][d] = s]
        PROVE  Users(fd_table', file_table', q) = Users(fd_table, file_table', q)
    <3>1. NamesToo(fd_table', fd_table, p, d, s)
      BY <1>2, <2>3 DEF NamesToo, Descriptors
    <3> QED
      BY <1>1, <1>2, <1>3, <2>3, <3>1, NameSlot
  <2> QED
    BY <2>1, <2>2, <2>3
<1> QED
  BY <1>4, <1>5

LEMMA OpenedGood ==
  ASSUME OpenFilesTypeOK, Good, UnlinkersOK, NEW p \in Procs, NEW s \in Slots, NEW o \in Objs,
         NEW ino \in [Objs -> InodeRec], NEW w \in BOOLEAN, Filled(p, s, o, ino, w),
         file_table[s] = None, p \in live,
         \A x \in Objs : x # o => ino[x] = inode[x],
         ino[o].listed, ino[o].no # None, Exists(ino[o].no),
         ino[o].i_open_cnts = Users(fd_table, file_table, o) + 1,
         \A x \in Objs : inode[x].listed /\ inode[x].no = ino[o].no => x = o,
         \A q \in Procs : Creates(q) => pc[q].obj # o,
         \A q \in Procs : pc'[q] = pc[q] \/ pc'[q].at = "out",
         ~Held(o), Stays,
         UNCHANGED <<dir, inode_bitmap, live>>
  PROVE  Good' /\ UnlinkersOK'
<1>1. /\ \A x \in Objs : /\ inode'[x].no = ino[x].no
                         /\ inode'[x].listed = ino[x].listed
                         /\ inode'[x].i_open_cnts = ino[x].i_open_cnts
      /\ file_table' = [file_table EXCEPT ![s] = o]
      /\ \A x \in Procs, e \in Fds :
            fd_table'[x][e] = fd_table[x][e] \/ (x = p /\ fd_table'[x][e] = s)
  BY FilledIs
<1>2. file_table'[s] = o /\ \A r \in Slots : r # s => file_table'[r] = file_table[r]
  BY <1>1 DEF OpenFilesTypeOK
<1>3. DirOK'
  BY DEF DirOK, Good
<1>4. \A q \in Procs : Creates(q)' => Creates(q) /\ pc'[q] = pc[q]
  BY DEF Creates
<1>5. \A q \in Procs : Creates(q) => pc[q].obj \in Objs /\ pc[q].slot \in Slots
  BY DEF Creates, OpenFilesTypeOK, CallOK
<1>6. CreatorsOK'
  <2>1. ASSUME NEW q \in Procs, Creates(q)'
        PROVE  /\ file_table'[pc'[q].slot] = pc'[q].obj
               /\ \A r \in Slots : file_table'[r] = pc'[q].obj => r = pc'[q].slot
               /\ inode'[pc'[q].obj].no = pc'[q].no
               /\ ~inode'[pc'[q].obj].listed
               /\ pc'[q].at = "creating" => /\ pc'[q].no \in inode_bitmap'
                                            /\ \A f \in Files : dir'[f] # pc'[q].no
               /\ pc'[q].at = "created" => dir'[pc'[q].file] = pc'[q].no
    <3>1. Creates(q) /\ pc'[q] = pc[q] /\ pc[q].obj # o
          /\ pc[q].obj \in Objs /\ pc[q].slot \in Slots
      BY <2>1, <1>4, <1>5
    <3>2. file_table[pc[q].slot] = pc[q].obj /\ pc[q].slot # s
      BY <3>1, ConstantsAre DEF Good, CreatorsOK
    <3> QED
      BY <1>1, <1>2, <3>1, <3>2 DEF Good, CreatorsOK
  <2>2. ASSUME NEW q \in Procs, NEW r \in Procs, Creates(q)', Creates(r)', q # r
        PROVE  pc'[q].obj # pc'[r].obj /\ pc'[q].no # pc'[r].no
    BY <2>2, <1>4 DEF Good, CreatorsOK
  <2> QED
    BY <2>1, <2>2 DEF CreatorsOK
<1>7. SlotsOK'
  <2>1. ASSUME NEW r \in Slots, file_table'[r] # None
        PROVE  /\ inode'[file_table'[r]].no # None
               /\ inode'[file_table'[r]].listed => Exists(inode'[file_table'[r]].no)
    <3>1. CASE file_table'[r] = o
      BY <3>1, <1>1
    <3>2. CASE file_table'[r] # o
      <4>1. r # s /\ file_table'[r] = file_table[r] /\ file_table[r] \in Objs
        BY <2>1, <3>2, <1>2, ConstantsAre DEF OpenFilesTypeOK
      <4> QED
        BY <2>1, <3>2, <4>1, <1>1 DEF Good, SlotsOK
    <3> QED
      BY <3>1, <3>2
  <2> QED
    BY <2>1 DEF SlotsOK, Exists
<1>8. FdsOK'
  <2>1. ASSUME NEW x \in Procs, NEW e \in Fds, fd_table'[x][e] # None
        PROVE  /\ file_table'[fd_table'[x][e]] # None
               /\ inode'[file_table'[fd_table'[x][e]]].listed
    <3>1. CASE fd_table'[x][e] = s
      BY <3>1, <1>1, <1>2, ConstantsAre
    <3>2. CASE fd_table'[x][e] # s
      <4>1. fd_table'[x][e] = fd_table[x][e] /\ fd_table[x][e] \in Slots
        BY <2>1, <3>2, <1>1, ConstantsAre DEF OpenFilesTypeOK
      <4>2. /\ file_table'[fd_table'[x][e]] = file_table[fd_table[x][e]]
            /\ file_table[fd_table[x][e]] \in Objs
            /\ inode[file_table[fd_table[x][e]]].listed
        BY <2>1, <3>2, <4>1, <1>2, ConstantsAre DEF Good, FdsOK, OpenFilesTypeOK
      <4> QED
        BY <4>2, <1>1, ConstantsAre
    <3> QED
      BY <3>1, <3>2
  <2>2. ASSUME NEW x \in Procs \ live', NEW e \in Fds PROVE fd_table'[x][e] = None
    BY <2>2, <1>1 DEF Good, FdsOK
  <2> QED
    BY <2>1, <2>2 DEF FdsOK
<1>9. ListedOK'
  BY <1>1 DEF Good, ListedOK
<1>10. CountsOK'
  <2>1. /\ Users(fd_table', file_table', o) = Users(fd_table, file_table, o) + 1
        /\ \A q \in Objs : q # o =>
              Users(fd_table', file_table', q) = Users(fd_table, file_table, q)
    BY FilledUsers DEF Good
  <2>2. ASSUME NEW q \in Objs, inode'[q].listed, ~Held(q)'
        PROVE  inode'[q].i_open_cnts = Users(fd_table', file_table', q)
    <3>1. CASE q = o
      BY <3>1, <2>1, <1>1
    <3>2. CASE q # o
      <4>1. ino[q] = inode[q] /\ inode[q].listed /\ ~Held(q)
        BY <3>2, <2>2, <1>1, StaysIs
      <4>2. inode[q].i_open_cnts = Users(fd_table, file_table, q)
        BY <4>1 DEF Good, CountsOK
      <4>3. Users(fd_table', file_table', q) = Users(fd_table, file_table, q)
        BY <3>2, <2>1
      <4>4. inode'[q].i_open_cnts = inode[q].i_open_cnts
        BY <4>1, <1>1
      <4> QED
        BY <4>2, <4>3, <4>4
    <3> QED
      BY <3>1, <3>2
  <2> QED
    BY <2>2 DEF CountsOK, Users, FdRefs, BareRefs
<1>11. UnlinkersOK'
  <2>1. ASSUME NEW q \in Procs PROVE Spared(q)'
    <3>1. ASSUME Deletes(q)'
          PROVE  /\ pc'[q].no \in inode_bitmap' /\ \A f \in Files : dir'[f] # pc'[q].no
                 /\ \A r \in Slots : file_table'[r] # None =>
                       inode'[file_table'[r]].no # pc'[q].no
      <4>1. Deletes(q) /\ pc'[q].no = pc[q].no
        BY <3>1, StaysIs DEF Keeps
      <4>2. /\ pc[q].no \in inode_bitmap /\ \A f \in Files : dir[f] # pc[q].no
            /\ \A r \in Slots : file_table[r] # None => inode[file_table[r]].no # pc[q].no
        BY <4>1 DEF UnlinkersOK, Spared
      <4>3. inode'[o].no # pc[q].no
        BY <1>1, <4>2 DEF Exists
      <4>4. ASSUME NEW r \in Slots, r # s, file_table[r] # None
            PROVE  inode'[file_table[r]].no # pc[q].no
        <5>1. file_table[r] \in Objs
          BY <4>4, ConstantsAre DEF OpenFilesTypeOK
        <5>2. file_table[r] # o => inode'[file_table[r]].no = inode[file_table[r]].no
          BY <5>1, <1>1
        <5> QED
          BY <4>2, <4>3, <4>4, <5>2
      <4> QED
        BY <1>2, <4>1, <4>2, <4>3, <4>4
    <3>2. ASSUME Releases(q)'
          PROVE  /\ inode'[pc'[q].obj].listed /\ inode'[pc'[q].obj].i_open_cnts = 1
                 /\ \A r \in Slots : file_table'[r] # pc'[q].obj
      <4>1. Releases(q) /\ pc'[q].obj = pc[q].obj
        BY <3>2, StaysIs DEF Keeps
      <4>2. /\ inode[pc[q].obj].listed /\ inode[pc[q].obj].i_open_cnts = 1
            /\ \A r \in Slots : file_table[r] # pc[q].obj
        BY <4>1 DEF UnlinkersOK, Spared
      <4>3. pc[q].obj # o /\ pc[q].obj \in Objs
        BY <4>1 DEF Held, Releases, OpenFilesTypeOK, CallOK
      <4> QED
        BY <1>1, <1>2, <4>1, <4>2, <4>3
    <3> QED
      BY <3>1, <3>2 DEF Spared
  <2> QED
    BY <2>1, StaysIs, UnlinkersKept
<1> QED
  BY <1>3, <1>6, <1>7, <1>8, <1>9, <1>10, <1>11 DEF Good

-----------------------------------------------------------------------------
(***************************************************************************)
(* Steps that leave the directory and the tables alone.                    *)
(***************************************************************************)
LEMMA CallGood ==
  ASSUME Good, UnlinkersOK, UNCHANGED <<dir, inode_bitmap, tables>>, Stays,
         \A q \in Procs : pc'[q] = pc[q] \/ ~Creates(q)',
         \A q \in Procs \ live', d \in Fds : fd_table[q][d] = None
  PROVE  Good' /\ UnlinkersOK'
<1>1. UNCHANGED <<inode, file_table, fd_table>>
  BY DEF tables
<1>2. DirOK' /\ SlotsOK' /\ FdsOK' /\ ListedOK'
  BY <1>1 DEF Good, DirOK, SlotsOK, Exists, FdsOK, ListedOK
<1>3. CountsOK'
  <2>1. \A o : Held(o)' <=> Held(o)
    BY StaysIs
  <2> QED
    BY <1>1, <2>1 DEF Good, CountsOK, Users, FdRefs, BareRefs
<1>4. \A q \in Procs : Creates(q)' => Creates(q) /\ pc'[q] = pc[q]
  BY DEF Creates
<1>5. CreatorsOK'
  BY <1>1, <1>4 DEF Good, CreatorsOK
<1>6. UnlinkersOK'
  <2>1. ASSUME NEW q \in Procs PROVE Spared(q)'
    BY <1>1, StaysIs DEF UnlinkersOK, Spared, Keeps
  <2> QED
    BY <2>1, StaysIs, UnlinkersKept
<1> QED
  BY <1>2, <1>3, <1>5, <1>6 DEF Good

LEMMA CallType ==
  ASSUME OpenFilesTypeOK, NEW p \in Procs, NEW c \in Call, CallOK(c),
         pc' = [pc EXCEPT ![p] = c]
  PROVE  pc' \in [Procs -> Call] /\ \A q \in Procs : CallOK(pc'[q])
  BY DEF OpenFilesTypeOK

LEMMA MissStep ==
  ASSUME IInv, NEW p \in Procs, NEW f \in Files, NEW w \in BOOLEAN,
         file_open_miss(p, f, w)
  PROVE  IInv'
<1> DEFINE c == [Out EXCEPT !.at = "reading", !.file = f,
                       !.slot = get_free_slot, !.no = dir[f], !.write = w]
<1>1. OpenFilesTypeOK /\ Good /\ UnlinkersOK /\ pc[p].at = "out" /\ pc' = [pc EXCEPT ![p] = c]
      /\ UNCHANGED <<dir, inode_bitmap, tables, live, broken>>
  BY DEF IInv, file_open_miss, Runs
<1>2. c \in Call /\ CallOK(c) /\ c.at = "reading"
  <2>1. get_free_slot \in Slots /\ get_free_slot \in 0..NSlots
    BY FreeSlotIs, ConstantsAre DEF file_open_miss
  <2>2. dir[f] \in Inodes /\ dir[f] \in 0..NInodes
    BY <1>1, ConstantsAre DEF file_open_miss, OpenFilesTypeOK
  <2>3. c \in Call /\ c.at = "reading" /\ c.file = f /\ c.slot = get_free_slot /\ c.no = dir[f]
    BY <2>1, <2>2, NoInodeIs DEF Call
  <2> HIDE DEF c
  <2> QED
    BY <2>1, <2>2, <2>3 DEF CallOK
<1>3. OpenFilesTypeOK'
  BY <1>1, <1>2, CallType DEF OpenFilesTypeOK, tables
<1>4. \A q \in Procs : pc'[q] = pc[q] \/ ~Creates(q)'
  BY <1>1, <1>2 DEF Creates, OpenFilesTypeOK
<1>5. Stays
  BY <1>1, <1>2 DEF Stays, Deletes, Releases, OpenFilesTypeOK
<1>6. Good' /\ UnlinkersOK'
  BY <1>1, <1>4, <1>5, CallGood DEF Good, FdsOK
<1> QED
  BY <1>3, <1>6 DEF IInv

LEMMA UnlinkStep ==
  ASSUME IInv, NEW p \in Procs, NEW f \in Files, sys_unlink(p, f)
  PROVE  IInv'
<1> DEFINE c == [Out EXCEPT !.at = "unlinking", !.file = f, !.no = dir[f]]
<1>1. OpenFilesTypeOK /\ Good /\ UnlinkersOK /\ pc[p].at = "out" /\ pc' = [pc EXCEPT ![p] = c]
      /\ UNCHANGED <<dir, inode_bitmap, tables, live, broken>>
  BY DEF IInv, sys_unlink, Runs
<1>2. c \in Call /\ CallOK(c) /\ c.at = "unlinking"
  <2>1. dir[f] \in Inodes /\ dir[f] \in 0..NInodes
    BY <1>1, ConstantsAre DEF sys_unlink, OpenFilesTypeOK
  <2>2. c \in Call /\ c.at = "unlinking" /\ c.file = f /\ c.no = dir[f]
    BY <2>1, NoInodeIs DEF Call
  <2> HIDE DEF c
  <2> QED
    BY <2>1, <2>2 DEF CallOK
<1>3. OpenFilesTypeOK'
  BY <1>1, <1>2, CallType DEF OpenFilesTypeOK, tables
<1>4. \A q \in Procs : pc'[q] = pc[q] \/ ~Creates(q)'
  BY <1>1, <1>2 DEF Creates, OpenFilesTypeOK
<1>5. Stays
  BY <1>1, <1>2 DEF Stays, Deletes, Releases, OpenFilesTypeOK
<1>6. Good' /\ UnlinkersOK'
  BY <1>1, <1>4, <1>5, CallGood DEF Good, FdsOK
<1> QED
  BY <1>3, <1>6 DEF IInv

LEMMA ExitStep ==
  ASSUME IInv, NEW p \in Procs, sys_exit(p)
  PROVE  IInv'
<1>1. OpenFilesTypeOK /\ Good /\ UnlinkersOK /\ live' = live \ {p}
      /\ UNCHANGED <<dir, inode_bitmap, tables, pc>> /\ broken' \in {broken, "foreign"}
      /\ \A d \in Fds : fd_table[p][d] = None
  BY DEF IInv, sys_exit, Runs, Broken
<1>2. OpenFilesTypeOK'
  BY <1>1 DEF OpenFilesTypeOK, tables
<1>3. \A q \in Procs \ live', d \in Fds : fd_table[q][d] = None
  BY <1>1 DEF Good, FdsOK
<1>4. Good' /\ UnlinkersOK'
  <2>1. Stays
    BY <1>1 DEF Stays
  <2> QED
    BY <1>1, <1>3, <2>1, CallGood
<1> QED
  BY <1>2, <1>4 DEF IInv

LEMMA StutterStep ==
  ASSUME IInv, UNCHANGED vars
  PROVE  IInv'
  BY DEF IInv, vars, OpenFilesTypeOK, Good, DirOK, CreatorsOK, Creates, SlotsOK,
         Exists, FdsOK, ListedOK, CountsOK, Held, Users, FdRefs, BareRefs, UnlinkersOK,
         Spared, Deletes, Releases

LEMMA ForeignStep ==
  ASSUME IInv, NEW p \in Procs, foreign(p)
  PROVE  IInv'
  BY DEF IInv, foreign, OpenFilesTypeOK, tables

-----------------------------------------------------------------------------
(***************************************************************************)
(* sys_open.                                                               *)
(***************************************************************************)
LEMMA HitStep ==
  ASSUME IInv, NEW p \in Procs, NEW f \in Files, NEW w \in BOOLEAN,
         file_open_hit(p, f, w)
  PROVE  IInv'
<1> DEFINE s == get_free_slot
           o == Lowest(Listed(dir[f]))
           ino == [inode EXCEPT ![o].i_open_cnts = @ + 1]
<1>1. /\ OpenFilesTypeOK /\ Good /\ p \in live /\ dir[f] # None
      /\ Filled(p, s, o, ino, w)
      /\ UNCHANGED <<dir, inode_bitmap, pc, live>>
      /\ UnlinkersOK /\ broken = "none" /\ Broken("unlink", Held(o))
  BY DEF IInv, file_open_hit, Runs, Held
<1>2. s \in Slots /\ file_table[s] = None
  BY FreeSlotIs DEF file_open_hit
<1>3. o \in Objs /\ inode[o].listed /\ inode[o].no = dir[f]
  BY ListedIs DEF file_open_hit
<1> HIDE DEF s, o
<1>4. /\ ino \in [Objs -> InodeRec]
      /\ \A x \in Objs : x # o => ino[x] = inode[x]
      /\ ino[o].listed = inode[o].listed /\ ino[o].no = inode[o].no
      /\ ino[o].i_open_cnts = inode[o].i_open_cnts + 1
  <2>1. inode \in [Objs -> InodeRec]
    BY <1>1 DEF OpenFilesTypeOK
  <2>2. ino[o] = [inode[o] EXCEPT !.i_open_cnts = @ + 1] /\ inode[o] \in InodeRec
    BY <1>3, <2>1
  <2>3. \A x \in Objs : x # o => ino[x] = inode[x]
    BY <1>3, <2>1
  <2>4. ino = [x \in Objs |-> ino[x]]
    BY <2>1
  <2> HIDE DEF ino
  <2>5. /\ ino[o] \in InodeRec
        /\ ino[o].listed = inode[o].listed /\ ino[o].no = inode[o].no
        /\ ino[o].i_open_cnts = inode[o].i_open_cnts + 1
    BY <2>2 DEF InodeRec
  <2> QED
    BY <2>1, <2>3, <2>4, <2>5
<1> HIDE DEF ino
<1>5. OpenFilesTypeOK'
  <2>1. inode' \in [Objs -> InodeRec] /\ file_table' \in Table /\ fd_table' \in Descriptors
    BY <1>1, <1>2, <1>3, <1>4, FilledIs
  <2> QED
    BY <1>1, <2>1 DEF OpenFilesTypeOK, Table, Descriptors, Broken
<1>6. ASSUME broken' = "none" PROVE Good' /\ UnlinkersOK'
  <2>a. ~Held(o) /\ Stays
    BY <1>1, <1>6 DEF Broken, Stays
  <2>1. Exists(ino[o].no)
    BY <1>1, <1>3, <1>4 DEF Exists, Good, DirOK
  <2>2. ino[o].i_open_cnts = Users(fd_table, file_table, o) + 1
    BY <1>1, <1>3, <1>4, <2>a DEF Good, CountsOK
  <2>3. \A x \in Objs : inode[x].listed /\ inode[x].no = ino[o].no => x = o
    BY <1>1, <1>3, <1>4 DEF Good, ListedOK
  <2>4. \A q \in Procs : Creates(q) => pc[q].obj # o
    BY <1>1, <1>3 DEF Good, CreatorsOK
  <2>5. ino[o].listed /\ ino[o].no # None
    BY <1>1, <1>3, <1>4
  <2> QED
    BY <1>1, <1>2, <1>3, <1>4, <2>a, <2>1, <2>2, <2>3, <2>4, <2>5, OpenedGood
<1> QED
  BY <1>5, <1>6 DEF IInv

LEMMA OpenEndStep ==
  ASSUME IInv, NEW p \in Procs, file_open_end(p)
  PROVE  IInv'
<1> DEFINE r == pc[p]
           o == Lowest(FreeObjs)
           ino == [inode EXCEPT ![o] = NewInode(r.no)]
<1>1. /\ OpenFilesTypeOK /\ Good /\ UnlinkersOK /\ p \in live /\ r.at = "reading" /\ broken = "none"
      /\ Filled(p, r.slot, o, ino, r.write)
      /\ Broken("open", \/ file_table[r.slot] # None
                        \/ Listed(r.no) # {} \/ dir[r.file] # r.no)
      /\ pc' = [pc EXCEPT ![p] = Out]
      /\ UNCHANGED <<dir, inode_bitmap, live>>
  BY DEF IInv, file_open_end, Runs
<1>2. /\ r.slot \in Slots /\ r.no \in Inodes /\ r.file \in Files /\ r.write \in BOOLEAN
      /\ r.no \in 0..NInodes /\ r.no # None
  BY <1>1, ConstantsAre DEF OpenFilesTypeOK, CallOK, Call
<1>3. o \in Objs /\ inode[o] = NoInode
  BY FreeObjIs DEF file_open_end
<1> HIDE DEF r, o
<1>4. /\ ino \in [Objs -> InodeRec]
      /\ \A x \in Objs : x # o => ino[x] = inode[x]
      /\ ino[o].listed /\ ino[o].no = r.no /\ ino[o].i_open_cnts = 1
  <2>1. inode \in [Objs -> InodeRec]
    BY <1>1 DEF OpenFilesTypeOK
  <2>2. ino[o] = NewInode(r.no)
    BY <1>3, <2>1
  <2> QED
    BY <1>2, <1>3, <2>1, <2>2 DEF InodeRec, NewInode
<1> HIDE DEF ino
<1>5. OpenFilesTypeOK'
  <2>1. inode' \in [Objs -> InodeRec] /\ file_table' \in Table /\ fd_table' \in Descriptors
    BY <1>1, <1>2, <1>3, <1>4, FilledIs
  <2>2. pc' \in [Procs -> Call] /\ \A q \in Procs : CallOK(pc'[q])
    BY <1>1, NoInodeIs, CallType
  <2> QED
    BY <1>1, <2>1, <2>2 DEF OpenFilesTypeOK, Table, Descriptors, Broken
<1>6. ASSUME broken' = "none" PROVE Good' /\ UnlinkersOK'
  <2>1. file_table[r.slot] = None /\ Listed(r.no) = {} /\ dir[r.file] = r.no
    BY <1>1, <1>6 DEF Broken
  <2>2. Exists(ino[o].no)
    BY <1>1, <1>2, <1>4, <2>1 DEF Exists, Good, DirOK
  <2>3. Users(fd_table, file_table, o) = 0 /\ \A q \in Procs : Creates(q) => pc[q].obj # o
    BY <1>1, <1>3, FreeObjUnused DEF Good
  <2>4. ino[o].i_open_cnts = Users(fd_table, file_table, o) + 1
    BY <2>3, <1>4
  <2>5. \A x \in Objs : inode[x].listed /\ inode[x].no = ino[o].no => x = o
    BY <2>1, <1>4 DEF Listed
  <2>6. \A q \in Procs : pc'[q] = pc[q] \/ pc'[q].at = "out"
    BY <1>1, NoInodeIs DEF OpenFilesTypeOK
  <2>7. ino[o].listed /\ ino[o].no # None
    BY <1>2, <1>4
  <2>8. ~Held(o)
    BY <1>1, <1>3, NoInodeIs DEF Held, UnlinkersOK, Spared
  <2>9. Stays
    <3>1. pc' \in [Procs -> Call] /\ pc'[p] = Out /\ \A q \in Procs : q # p => pc'[q] = pc[q]
      BY <1>1, NoInodeIs DEF OpenFilesTypeOK
    <3> QED
      BY <1>1, <3>1, OutStays, NoInodeIs DEF r
  <2> QED
    BY <1>1, <1>2, <1>3, <1>4, <2>1, <2>2, <2>3, <2>4, <2>5, <2>6, <2>7, <2>8, <2>9,
       OpenedGood
<1> QED
  BY <1>5, <1>6 DEF IInv

-----------------------------------------------------------------------------
(***************************************************************************)
(* sys_fork and sys_close.                                                 *)
(***************************************************************************)
LEMMA ForkStep ==
  ASSUME IInv, NEW p \in Procs, NEW c \in Procs, sys_fork(p, c)
  PROVE  IInv'
<1> DEFINE A(o) == Leads(fd_table, file_table, p, o)
<1>1. /\ OpenFilesTypeOK /\ Good /\ UnlinkersOK /\ p \in live /\ c \notin live /\ live' = live \cup {c}
      /\ fd_table' = [fd_table EXCEPT ![c] = fd_table[p]]
      /\ inode' = [o \in Objs |-> [inode[o] EXCEPT !.i_open_cnts = @ + Cardinality(A(o))]]
      /\ UNCHANGED <<dir, inode_bitmap, file_table, pc>> /\ broken' \in {broken, "foreign"}
  BY DEF IInv, sys_fork, Runs, Leads, Broken
<1>2. ASSUME NEW o \in Objs PROVE Cardinality(A(o)) \in Nat
  <2>1. A(o) \subseteq Fds
    BY DEF Leads
  <2> QED
    BY <2>1, TablesAreFinite, FS_Subset, FS_CardinalityType
<1> HIDE DEF A
<1>3. ASSUME NEW o \in Objs
      PROVE  /\ inode'[o] \in InodeRec /\ inode'[o].no = inode[o].no
             /\ inode'[o].listed = inode[o].listed
             /\ inode'[o].i_open_cnts = inode[o].i_open_cnts + Cardinality(A(o))
  <2>1. inode'[o] = [inode[o] EXCEPT !.i_open_cnts = @ + Cardinality(A(o))]
    BY <1>1
  <2>2. inode[o] \in InodeRec
    BY <1>1 DEF OpenFilesTypeOK
  <2> QED
    BY <2>1, <2>2, <1>2 DEF InodeRec
<1>4. fd_table \in Descriptors /\ fd_table' \in Descriptors /\ file_table \in Table
  BY <1>1 DEF OpenFilesTypeOK, Descriptors, Table
<1>5. /\ \A d \in Fds : fd_table'[c][d] = fd_table[p][d]
      /\ \A x \in Procs, d \in Fds : x # c => fd_table'[x][d] = fd_table[x][d]
  BY <1>1, <1>4 DEF Descriptors
<1>6. OpenFilesTypeOK'
  <2>1. inode' \in [Objs -> InodeRec]
    BY <1>1, <1>3
  <2> QED
    BY <1>1, <1>4, <2>1 DEF OpenFilesTypeOK, Descriptors
<1>7. DirOK'
  BY <1>1 DEF Good, DirOK
<1>8. CreatorsOK'
  <2>1. \A q \in Procs : Creates(q) => pc[q].obj \in Objs
    BY <1>1 DEF Creates, OpenFilesTypeOK, CallOK
  <2>2. \A q \in Procs : Creates(q)' <=> Creates(q)
    BY <1>1 DEF Creates
  <2> QED
    BY <1>1, <1>3, <2>1, <2>2 DEF Good, CreatorsOK
<1>9. SlotsOK'
  <2>1. \A s \in Slots : file_table[s] # None => file_table[s] \in Objs
    BY <1>1, ConstantsAre DEF OpenFilesTypeOK
  <2> QED
    BY <1>1, <1>3, <2>1 DEF Good, SlotsOK, Exists
<1>10. FdsOK'
  <2>1. ASSUME NEW x \in Procs, NEW d \in Fds, fd_table'[x][d] # None
        PROVE  /\ file_table[fd_table'[x][d]] # None
               /\ inode'[file_table[fd_table'[x][d]]].listed
    <3>1. PICK y \in Procs : fd_table'[x][d] = fd_table[y][d]
      BY <1>5
    <3>2. fd_table[y][d] \in Slots
      BY <2>1, <3>1, <1>1, FdsAreSlots
    <3>3. /\ file_table[fd_table[y][d]] # None /\ inode[file_table[fd_table[y][d]]].listed
          /\ file_table[fd_table[y][d]] \in Objs
      BY <2>1, <3>1, <3>2, <1>1, ConstantsAre DEF Good, FdsOK, OpenFilesTypeOK
    <3> QED
      BY <3>1, <3>3, <1>3
  <2>2. ASSUME NEW x \in Procs \ live', NEW d \in Fds PROVE fd_table'[x][d] = None
    BY <1>1, <1>5 DEF Good, FdsOK
  <2>3. file_table' = file_table
    BY <1>1
  <2> QED
    BY <2>1, <2>2, <2>3 DEF FdsOK
<1>11. ListedOK'
  BY <1>1, <1>3 DEF Good, ListedOK
<1>12. CountsOK'
  <2>1. ASSUME NEW o \in Objs, inode'[o].listed, ~Held(o)'
        PROVE  inode'[o].i_open_cnts = Users(fd_table', file_table', o)
    <3>1. inode[o].i_open_cnts = Users(fd_table, file_table, o)
      <4>1. ~Held(o)
        BY <1>1, <2>1 DEF Held, Releases
      <4> QED
        BY <1>1, <1>3, <2>1, <4>1 DEF Good, CountsOK
    <3>2. Users(fd_table', file_table, o) = Users(fd_table, file_table, o) + Cardinality(A(o))
      <4>1. (\A d \in Fds : fd_table[c][d] = None) /\ p # c
        BY <1>1 DEF Good, FdsOK
      <4> QED
        BY <1>4, <1>5, <4>1, CopyProcess DEF A, Copies
    <3> QED
      BY <3>1, <3>2, <1>1, <1>3
  <2> QED
    BY <2>1 DEF CountsOK, Users, FdRefs, BareRefs
<1>13. UnlinkersOK'
  <2>1. Stays
    BY <1>1 DEF Stays
  <2>2. ASSUME NEW q \in Procs PROVE Spared(q)'
    <3>1. \A s \in Slots : file_table[s] # None => file_table[s] \in Objs
      BY <1>1, ConstantsAre DEF OpenFilesTypeOK
    <3>2. ASSUME Releases(q)
          PROVE  pc[q].obj \in Objs /\ inode'[pc[q].obj].i_open_cnts = 1
      <4>1. /\ pc[q].obj \in Objs /\ inode[pc[q].obj].i_open_cnts = 1
            /\ \A s \in Slots : file_table[s] # pc[q].obj
        BY <1>1, <3>2 DEF UnlinkersOK, Spared, Releases, OpenFilesTypeOK, CallOK
      <4>2. A(pc[q].obj) = {}
        <5>1. \A d \in Fds : fd_table[p][d] # None => fd_table[p][d] \in Slots
          BY <1>1, FdsAreSlots
        <5> QED
          BY <4>1, <5>1 DEF A, Leads
      <4>3. Cardinality(A(pc[q].obj)) = 0
        BY <4>2, FS_EmptySet
      <4> QED
        BY <1>3, <4>1, <4>3
    <3> QED
      BY <1>1, <1>3, <3>1, <3>2 DEF UnlinkersOK, Spared, Deletes, Releases
  <2> QED
    BY <1>1, <2>1, <2>2, StaysIs, UnlinkersKept
<1> QED
  BY <1>6, <1>7, <1>8, <1>9, <1>10, <1>11, <1>12, <1>13 DEF IInv, Good

(***************************************************************************)
(* A count of one is the descriptor that is closed: no other slot has the  *)
(* inode.                                                                  *)
(***************************************************************************)
LEMMA LastUser ==
  ASSUME OpenFilesTypeOK, NEW p \in Procs, NEW d \in Fds, fd_table[p][d] # None,
         NEW o \in Objs, file_table[fd_table[p][d]] = o,
         Users(fd_table, file_table, o) = 1,
         NEW r \in Slots, file_table[r] = o
  PROVE  r = fd_table[p][d]
<1> DEFINE A == FdRefs(fd_table, file_table, o)
           B == BareRefs(fd_table, file_table, o)
<1>1. IsFiniteSet(A) /\ IsFiniteSet(B) /\ Cardinality(A) \in Nat /\ Cardinality(B) \in Nat
  BY UsersIs
<1>2. <<p, d>> \in A
  BY DEF FdRefs
<1>3. Cardinality(A \ {<<p, d>>}) = Cardinality(A) - 1 /\ IsFiniteSet(A \ {<<p, d>>})
  BY <1>1, <1>2, FS_RemoveElement
<1>4. Cardinality(A) + Cardinality(B) = 1
  BY DEF Users
<1> HIDE DEF A, B
<1>5. Cardinality(A \ {<<p, d>>}) = 0 /\ Cardinality(B) = 0
  <2>1. Cardinality(A \ {<<p, d>>}) \in Nat
    BY <1>3, FS_CardinalityType
  <2> QED
    BY <2>1, <1>1, <1>3, <1>4
<1>6. A \ {<<p, d>>} = {} /\ B = {}
  BY <1>1, <1>3, <1>5, FS_EmptySet
<1>7. r \notin B
  BY <1>6
<1>8. PICK x \in Procs, e \in Fds : fd_table[x][e] = r
  BY <1>7 DEF B, BareRefs
<1>9. <<x, e>> \in A
  BY <1>8, ConstantsAre DEF A, FdRefs
<1> QED
  BY <1>6, <1>8, <1>9

Closes(jno, ino, o) == jno = Closed([ino EXCEPT ![o].write_deny = FALSE], o)

OneLess(jno, ino, o) ==
    /\ jno \in [Objs -> InodeRec]
    /\ \A x \in Objs : x # o => jno[x] = ino[x]
    /\ ino[o].i_open_cnts = 1 => jno[o] = NoInode
    /\ ino[o].i_open_cnts # 1 => /\ jno[o].no = ino[o].no
                                 /\ jno[o].listed = ino[o].listed
                                 /\ jno[o].i_open_cnts = ino[o].i_open_cnts - 1

LEMMA ClosedIs ==
  ASSUME NEW ino \in [Objs -> InodeRec], NEW o \in Objs, NEW jno, Closes(jno, ino, o)
  PROVE  OneLess(jno, ino, o)
<1> DEFINE kno == [ino EXCEPT ![o].write_deny = FALSE]
<1>1. /\ kno[o] = [ino[o] EXCEPT !.write_deny = FALSE] /\ ino[o] \in InodeRec
      /\ \A x \in Objs : x # o => kno[x] = ino[x]
      /\ kno = [x \in Objs |-> kno[x]]
  OBVIOUS
<1> HIDE DEF kno
<1>2. /\ kno[o] \in InodeRec /\ kno[o].no = ino[o].no /\ kno[o].listed = ino[o].listed
      /\ kno[o].i_open_cnts = ino[o].i_open_cnts
  BY <1>1 DEF InodeRec
<1>3. kno \in [Objs -> InodeRec]
  BY <1>1, <1>2
<1>4. CASE ino[o].i_open_cnts = 1
  <2>1. jno = [kno EXCEPT ![o] = NoInode]
    BY <1>2, <1>4 DEF Closes, Closed, kno
  <2> QED
    BY <1>1, <1>3, <1>4, <2>1, NoInodeIs DEF OneLess
<1>5. CASE ino[o].i_open_cnts # 1
  <2>1. jno = [kno EXCEPT ![o].i_open_cnts = @ - 1]
    BY <1>2, <1>5 DEF Closes, Closed, kno
  <2>2. /\ jno[o] = [kno[o] EXCEPT !.i_open_cnts = @ - 1]
        /\ \A x \in Objs : x # o => jno[x] = kno[x]
        /\ jno = [x \in Objs |-> jno[x]]
    BY <1>3, <2>1
  <2>3. /\ jno[o] \in InodeRec /\ jno[o].no = kno[o].no /\ jno[o].listed = kno[o].listed
        /\ jno[o].i_open_cnts = kno[o].i_open_cnts - 1
    BY <1>2, <2>2 DEF InodeRec
  <2> QED
    BY <1>1, <1>2, <1>3, <1>5, <2>2, <2>3 DEF OneLess
<1> QED
  BY <1>4, <1>5

LEMMA OneName ==
  ASSUME NEW s, NEW x \in Names(s), ~(Cardinality(Names(s)) > 1)
  PROVE  \A y \in Names(s) : y = x
<1>1. IsFiniteSet(Names(s)) /\ Cardinality(Names(s)) \in Nat
  <2>1. Names(s) \subseteq Procs \X Fds
    BY DEF Names
  <2> QED
    BY <2>1, TablesAreFinite, FS_Subset, FS_CardinalityType
<1>2. IsFiniteSet(Names(s) \ {x}) /\ Cardinality(Names(s) \ {x}) = Cardinality(Names(s)) - 1
  BY <1>1, FS_RemoveElement
<1>3. Cardinality(Names(s) \ {x}) \in Nat
  BY <1>2, FS_CardinalityType
<1>4. Cardinality(Names(s) \ {x}) = 0
  BY <1>1, <1>2, <1>3
<1> QED
  BY <1>2, <1>4, FS_EmptySet

LEMMA CloseStep ==
  ASSUME IInv, NEW p \in Procs, NEW d \in Fds, sys_close(p, d)
  PROVE  IInv'
<1> DEFINE s == fd_table[p][d]
           o == file_table[s]
<1>1. /\ OpenFilesTypeOK /\ Good /\ UnlinkersOK /\ s # None /\ broken = "none"
      /\ UNCHANGED <<dir, inode_bitmap, pc, live>>
  BY DEF IInv, sys_close, Runs
<1>2. s \in Slots /\ o \in Objs /\ inode[o].listed
  <2>1. s \in Slots
    BY <1>1, FdsAreSlots
  <2> QED
    BY <1>1, <2>1, ConstantsAre DEF Good, FdsOK, OpenFilesTypeOK
<1>3. CASE CloseFails(o)
  <2>1. broken' = "panic" /\ UNCHANGED tables
    BY <1>3 DEF sys_close
  <2> QED
    BY <1>1, <2>1 DEF IInv, OpenFilesTypeOK, tables
<1>4. CASE ~CloseFails(o)
  <2>1. /\ inode' = Closed([inode EXCEPT ![o].write_deny = FALSE], o)
        /\ file_table' = [file_table EXCEPT ![s] = None]
        /\ fd_table' = [fd_table EXCEPT ![p][d] = None]
        /\ Broken("fork", Cardinality(Names(s)) > 1)
    BY <1>4 DEF sys_close
  <2>2. fd_table \in Descriptors /\ file_table \in Table /\ inode \in [Objs -> InodeRec]
    BY <1>1 DEF OpenFilesTypeOK, Descriptors, Table
  <2>3. /\ inode' \in [Objs -> InodeRec]
        /\ \A x \in Objs : x # o => inode'[x] = inode[x]
        /\ inode[o].i_open_cnts = 1 => inode'[o] = NoInode
        /\ inode[o].i_open_cnts # 1 => /\ inode'[o].no = inode[o].no
                                       /\ inode'[o].listed = inode[o].listed
                                       /\ inode'[o].i_open_cnts = inode[o].i_open_cnts - 1
    <3>1. Closes(inode', inode, o)
      BY <2>1 DEF Closes
    <3>2. inode \in [Objs -> InodeRec] /\ o \in Objs
      BY <1>2, <2>2
    <3> HIDE DEF o
    <3> QED
      BY <3>1, <3>2, ClosedIs DEF OneLess
  <2>4. /\ fd_table' \in Descriptors /\ fd_table'[p][d] = None
        /\ \A x \in Procs, e \in Fds : x # p \/ e # d => fd_table'[x][e] = fd_table[x][e]
    BY <2>1, <2>2, ConstantsAre DEF Descriptors
  <2>5. /\ file_table' \in Table /\ file_table'[s] = None
        /\ \A r \in Slots : r # s => file_table'[r] = file_table[r]
    BY <2>1, <2>2, <1>2, ConstantsAre DEF Table
  <2>6. OpenFilesTypeOK'
    BY <1>1, <2>1, <2>3, <2>4, <2>5 DEF OpenFilesTypeOK, Descriptors, Table, Broken
  <2> HIDE DEF o
  <2>7. ASSUME broken' = "none" PROVE Good' /\ UnlinkersOK'
    <3>1. \A x \in Procs, e \in Fds : fd_table[x][e] = s => x = p /\ e = d
      <4>1. ~(Cardinality(Names(s)) > 1)
        BY <1>1, <2>1, <2>7 DEF Broken
      <4>2. <<p, d>> \in Names(s)
        BY DEF Names
      <4>3. \A y \in Names(s) : y = <<p, d>>
        BY <4>1, <4>2, OneName
      <4>4. ASSUME NEW x \in Procs, NEW e \in Fds, fd_table[x][e] = s
            PROVE  <<x, e>> \in Names(s)
        BY <4>4 DEF Names
      <4> HIDE DEF s
      <4> QED
        BY <4>3, <4>4
    <3> HIDE DEF s
    <3>2. /\ Unnamed(fd_table', s) /\ Fills(file_table, file_table', s, o)
          /\ NamesToo(fd_table, fd_table', p, d, s)
      BY <3>1, <2>4, <2>5, <1>2, ConstantsAre DEF Unnamed, Fills, NamesToo, o, s
    <3>3. ASSUME NEW q \in Objs
          PROVE  /\ Users(fd_table, file_table, q) = Users(fd_table', file_table, q)
                 /\ q # o => Users(fd_table', file_table, q) = Users(fd_table', file_table', q)
                 /\ Users(fd_table', file_table, o) = Users(fd_table', file_table', o) + 1
      <4>1. Users(fd_table, file_table, q) = Users(fd_table', file_table, q)
        BY <3>2, <2>2, <2>4, <1>2, NameSlot
      <4>2. /\ q # o => Users(fd_table', file_table, q) = Users(fd_table', file_table', q)
            /\ Users(fd_table', file_table, o) = Users(fd_table', file_table', o) + 1
        BY <3>2, <2>2, <2>4, <2>5, <1>2, FillSlot
      <4> QED
        BY <4>1, <4>2
    <3>4. inode[o].i_open_cnts = Users(fd_table, file_table, o)
      <4>1. file_table[s] = o
        BY DEF o
      <4>2. ~Held(o)
        BY <1>1, <1>2, <4>1 DEF Held, UnlinkersOK, Spared
      <4> QED
        BY <1>1, <1>2, <4>2 DEF Good, CountsOK
    <3>5. inode[o].i_open_cnts = 1 => \A r \in Slots : file_table[r] = o => r = s
      <4>1. ASSUME inode[o].i_open_cnts = 1, NEW r \in Slots, file_table[r] = o
            PROVE  r = s
        <5>1. Users(fd_table, file_table, o) = 1
          BY <3>4, <4>1
        <5>2. file_table[fd_table[p][d]] = o /\ fd_table[p][d] # None
          BY <1>1 DEF o, s
        <5>3. r = fd_table[p][d]
          BY <1>1, <1>2, <4>1, <5>1, <5>2, LastUser
        <5> QED
          BY <5>3 DEF s
      <4> QED
        BY <4>1
    <3>6. ASSUME NEW r \in Slots, file_table'[r] # None
          PROVE  /\ r # s /\ file_table'[r] = file_table[r] /\ file_table[r] \in Objs
                 /\ inode'[file_table[r]].no = inode[file_table[r]].no
                 /\ inode'[file_table[r]].listed = inode[file_table[r]].listed
      <4>1. r # s /\ file_table'[r] = file_table[r] /\ file_table[r] \in Objs
        BY <3>6, <2>2, <2>5, ConstantsAre DEF Table
      <4>2. CASE file_table[r] = o
        <5>1. inode[o].i_open_cnts # 1
          BY <3>5, <4>1, <4>2
        <5> QED
          BY <4>1, <4>2, <5>1, <2>3
      <4>3. CASE file_table[r] # o
        BY <4>1, <4>3, <2>3
      <4> QED
        BY <4>1, <4>2, <4>3
    <3>7. \A x \in Objs : inode'[x].listed =>
              inode[x].listed /\ inode'[x].no = inode[x].no
      BY <2>3, <1>2, NoInodeIs
    <3>8. DirOK'
      BY <1>1 DEF Good, DirOK
    <3>9. CreatorsOK'
      <4>1. \A q \in Procs : Creates(q)' <=> Creates(q)
        BY <1>1 DEF Creates
      <4>2. ASSUME NEW q \in Procs, Creates(q)
            PROVE  pc[q].obj \in Objs /\ pc[q].slot \in Slots /\ pc[q].obj # o
        BY <4>2, <1>1, <1>2 DEF Creates, OpenFilesTypeOK, CallOK, Good, CreatorsOK
      <4>3. ASSUME NEW q \in Procs, Creates(q)
            PROVE  /\ file_table'[pc[q].slot] = pc[q].obj
                   /\ \A r \in Slots : file_table'[r] = pc[q].obj => r = pc[q].slot
                   /\ inode'[pc[q].obj].no = pc[q].no
                   /\ ~inode'[pc[q].obj].listed
        <5>1. /\ file_table[pc[q].slot] = pc[q].obj
              /\ \A r \in Slots : file_table[r] = pc[q].obj => r = pc[q].slot
              /\ inode[pc[q].obj].no = pc[q].no
              /\ ~inode[pc[q].obj].listed
          BY <1>1, <4>3 DEF Good, CreatorsOK
        <5>2. file_table[s] = o
          BY DEF o
        <5> QED
          BY <4>2, <4>3, <5>1, <5>2, <2>3, <2>5, ConstantsAre
      <4> QED
        BY <1>1, <4>1, <4>3 DEF Good, CreatorsOK
    <3>10. SlotsOK'
      BY <1>1, <3>6 DEF Good, SlotsOK, Exists
    <3>11. FdsOK'
      <4>1. ASSUME NEW x \in Procs, NEW e \in Fds, fd_table'[x][e] # None
            PROVE  /\ file_table'[fd_table'[x][e]] # None
                   /\ inode'[file_table'[fd_table'[x][e]]].listed
        <5>1. fd_table'[x][e] = fd_table[x][e] /\ fd_table[x][e] # s
          BY <4>1, <2>4, <3>1
        <5>2. fd_table[x][e] \in Slots
          BY <1>1, <4>1, <5>1, FdsAreSlots
        <5>3. file_table[fd_table[x][e]] # None /\ inode[file_table[fd_table[x][e]]].listed
          BY <1>1, <4>1, <5>1 DEF Good, FdsOK
        <5>4. file_table'[fd_table[x][e]] = file_table[fd_table[x][e]]
          BY <5>1, <5>2, <2>5
        <5> QED
          BY <5>1, <5>2, <5>3, <5>4, <3>6
      <4>2. ASSUME NEW x \in Procs \ live', NEW e \in Fds PROVE fd_table'[x][e] = None
        BY <1>1, <2>4 DEF Good, FdsOK
      <4> QED
        BY <4>1, <4>2 DEF FdsOK
    <3>12. ListedOK'
      BY <1>1, <3>7 DEF Good, ListedOK
    <3>13. CountsOK'
      <4>1. ASSUME NEW q \in Objs, inode'[q].listed, ~Held(q)'
            PROVE  inode'[q].i_open_cnts = Users(fd_table', file_table', q)
        <5>a. ~Held(q)
          BY <1>1, <4>1 DEF Held, Releases
        <5>1. inode[q].i_open_cnts = Users(fd_table, file_table, q)
          BY <1>1, <3>7, <4>1, <5>a DEF Good, CountsOK
        <5>2. CASE q = o
          <6>1. inode'[o].i_open_cnts = inode[o].i_open_cnts - 1
            BY <4>1, <5>2, <2>3, NoInodeIs
          <6> QED
            BY <5>1, <5>2, <6>1, <3>3, UsersIs
        <5>3. CASE q # o
          BY <5>1, <5>3, <2>3, <3>3
        <5> QED
          BY <5>2, <5>3
      <4> QED
        BY <4>1 DEF CountsOK, Users, FdRefs, BareRefs
    <3>14. UnlinkersOK'
      <4>1. Stays
        BY <1>1 DEF Stays
      <4>2. file_table[s] = o
        BY DEF o
      <4>3. ASSUME NEW q \in Procs, Releases(q)
            PROVE  /\ inode'[pc[q].obj].listed /\ inode'[pc[q].obj].i_open_cnts = 1
                   /\ \A r \in Slots : file_table'[r] # pc[q].obj
        <5>1. /\ inode[pc[q].obj].listed /\ inode[pc[q].obj].i_open_cnts = 1
              /\ \A r \in Slots : file_table[r] # pc[q].obj
          BY <1>1, <4>3 DEF UnlinkersOK, Spared
        <5>2. pc[q].obj \in Objs /\ pc[q].obj # o /\ pc[q].obj # None
          BY <1>1, <1>2, <4>2, <4>3, <5>1, ConstantsAre DEF Releases, OpenFilesTypeOK, CallOK
        <5> QED
          BY <2>3, <2>5, <5>1, <5>2
      <4>4. ASSUME NEW q \in Procs PROVE Spared(q)'
        BY <1>1, <3>6, <4>3 DEF UnlinkersOK, Spared, Deletes, Releases
      <4> QED
        BY <1>1, <4>1, <4>4, StaysIs, UnlinkersKept
    <3> QED
      BY <3>8, <3>9, <3>10, <3>11, <3>12, <3>13, <3>14 DEF Good
  <2> QED
    BY <2>6, <2>7 DEF IInv
<1> QED
  BY <1>3, <1>4

-----------------------------------------------------------------------------
(***************************************************************************)
(* The rest of sys_unlink: nobody has the number that it frees.            *)
(***************************************************************************)
Waits == {"unlinked", "opening", "releasing", "deleting"}

MovedTo(d, c, a, o) == d = [c EXCEPT !.at = a, !.obj = o]

LEMMA CallAt ==
  ASSUME NEW c \in Call, NEW a \in Waits, NEW o \in 0..NObjs, NEW d, MovedTo(d, c, a, o)
  PROVE  d \in Call /\ d.at = a /\ d.obj = o /\ d.no = c.no /\ d.file = c.file
<1>1. PICK e : e = [c EXCEPT !.at = a]
  OBVIOUS
<1>2. e \in Call /\ e.at = a /\ e.file = c.file /\ e.no = c.no
  BY <1>1 DEF Call, Waits
<1>3. d = [e EXCEPT !.obj = o]
  BY <1>1, Zenon DEF MovedTo
<1> QED
  BY <1>2, <1>3 DEF Call

\* A call goes on to the next wait, with inode o.
Advances(p, a, o) == pc' = [pc EXCEPT ![p].at = a, ![p].obj = o]

LEMMA NextWait ==
  ASSUME OpenFilesTypeOK, NEW p \in Procs, pc[p].at # "out", NEW o \in 0..NObjs,
         NEW a \in {"unlinked", "opening", "releasing", "deleting"},
         a \in {"releasing", "deleting"} => o \in Objs,
         Advances(p, a, o)
  PROVE  /\ pc' \in [Procs -> Call] /\ \A q \in Procs : CallOK(pc'[q])
         /\ pc'[p].at = a /\ pc'[p].obj = o /\ pc'[p].no = pc[p].no
         /\ \A q \in Procs : q # p => pc'[q] = pc[q]
<1>1. pc \in [Procs -> Call] /\ pc[p] \in Call /\ CallOK(pc[p])
  BY DEF OpenFilesTypeOK
<1>2. /\ pc'[p] = [pc[p] EXCEPT !.at = a, !.obj = o]
      /\ \A q \in Procs : q # p => pc'[q] = pc[q]
      /\ pc' = [q \in Procs |-> pc'[q]]
  BY <1>1 DEF Advances
<1>6. /\ pc'[p] \in Call /\ pc'[p].at = a /\ pc'[p].obj = o /\ pc'[p].no = pc[p].no
      /\ pc'[p].file = pc[p].file
  <2>1. PICK d : d = pc'[p]
    OBVIOUS
  <2>2. d = [pc[p] EXCEPT !.at = a, !.obj = o]
    BY <1>2, <2>1, Zenon
  <2>3. d \in Call /\ d.at = a /\ d.obj = o /\ d.no = pc[p].no /\ d.file = pc[p].file
    <3>1. PICK c : c = pc[p]
      OBVIOUS
    <3>2. c \in Call
      BY <1>1, <3>1
    <3>3. MovedTo(d, c, a, o)
      BY <2>2, <3>1, Zenon DEF MovedTo
    <3>4. a \in Waits
      BY DEF Waits
    <3>5. d \in Call /\ d.at = a /\ d.obj = o /\ d.no = c.no /\ d.file = c.file
      <4>1. o \in 0..NObjs
        OBVIOUS
      <4> QED
        BY <3>2, <3>3, <3>4, <4>1, CallAt
    <3> QED
      BY <3>1, <3>5
  <2> QED
    BY <2>1, <2>3, Zenon
<1>7. CallOK(pc'[p])
  BY <1>1, <1>6 DEF CallOK
<1>8. \A q \in Procs : pc'[q] \in Call /\ CallOK(pc'[q])
  BY <1>2, <1>6, <1>7 DEF OpenFilesTypeOK
<1>9. pc' \in [Procs -> Call]
  BY <1>2, <1>8, Zenon
<1> QED
  BY <1>2, <1>6, <1>8, <1>9, Zenon

\* The same inode
LEMMA SameInode ==
  ASSUME OpenFilesTypeOK, NEW p \in Procs, NEW a, pc' = [pc EXCEPT ![p].at = a]
  PROVE  Advances(p, a, pc[p].obj) /\ pc[p].obj \in 0..NObjs
<1>1. pc \in [Procs -> Call] /\ pc[p] \in Call
  BY DEF OpenFilesTypeOK
<1>2. pc[p].obj \in 0..NObjs
  BY <1>1 DEF Call
<1>3. PICK c : c = [pc[p] EXCEPT !.at = a]
  OBVIOUS
<1>4. [c EXCEPT !.obj = pc[p].obj] = c
  BY <1>1, <1>3 DEF Call
<1>5. pc' = [pc EXCEPT ![p] = c]
  BY <1>3, Zenon
<1>6. [pc EXCEPT ![p].at = a, ![p].obj = pc[p].obj] = [pc EXCEPT ![p] = [c EXCEPT !.obj = pc[p].obj]]
  BY <1>1, <1>3
<1> QED
  BY <1>2, <1>4, <1>5, <1>6 DEF Advances

LEMMA DeleteEntryStep ==
  ASSUME IInv, NEW p \in Procs, delete_dir_entry(p)
  PROVE  IInv'
<1> DEFINE g == pc[p].file
           n == pc[p].no
<1>1. /\ OpenFilesTypeOK /\ Good /\ UnlinkersOK /\ pc[p].at = "unlinking"
      /\ broken = "none" /\ Broken("unlink", dir[g] # n \/ InUse(n))
      /\ dir' = [dir EXCEPT ![g] = None]
      /\ pc' = [pc EXCEPT ![p].at = "unlinked"]
      /\ UNCHANGED <<inode_bitmap, inode, file_table, fd_table, live>>
  BY DEF IInv, delete_dir_entry, Runs, tables
<1>a. /\ pc' \in [Procs -> Call] /\ \A q \in Procs : CallOK(pc'[q])
      /\ pc'[p].at = "unlinked" /\ pc'[p].no = n
      /\ \A q \in Procs : q # p => pc'[q] = pc[q]
  <2>1. /\ Advances(p, "unlinked", pc[p].obj)
        /\ pc[p].obj \in 0..NObjs
    BY <1>1, SameInode
  <2>2. pc[p].at # "out" /\ OpenFilesTypeOK
    BY <1>1
  <2> QED
    BY <2>1, <2>2, NextWait, Zenon
<1>2. g \in Files /\ n \in Inodes
  BY <1>1 DEF OpenFilesTypeOK, CallOK
<1> HIDE DEF g, n
<1>3. /\ dir' \in [Files -> 0..NInodes] /\ dir'[g] = None
      /\ \A f \in Files : f # g => dir'[f] = dir[f]
  BY <1>1, <1>2, ConstantsAre DEF OpenFilesTypeOK
<1>4. OpenFilesTypeOK'
  BY <1>1, <1>3, <1>a DEF OpenFilesTypeOK, Broken
<1>5. ASSUME broken' = "none" PROVE Good' /\ UnlinkersOK'
  <2>1. dir[g] = n /\ ~InUse(n) /\ n # None
    BY <1>1, <1>2, <1>5, ConstantsAre DEF Broken
  <2>2. \A f \in Files : f # g => dir[f] # n
    BY <1>1, <1>2, <2>1 DEF Good, DirOK
  <2>3. DirOK'
    BY <1>1, <1>3, <2>2 DEF Good, DirOK
  <2>4. ASSUME NEW q \in Procs, Creates(q)'
        PROVE  Creates(q) /\ pc'[q] = pc[q] /\ pc[q].no # n
    <3>1. Creates(q) /\ pc'[q] = pc[q]
      BY <1>a, <2>4 DEF Creates
    <3>2. pc[q].slot \in Slots /\ pc[q].obj \in Objs
      BY <1>1, <3>1 DEF Creates, OpenFilesTypeOK, CallOK
    <3>3. file_table[pc[q].slot] = pc[q].obj /\ inode[pc[q].obj].no = pc[q].no
      BY <1>1, <3>1 DEF Good, CreatorsOK
    <3> QED
      BY <2>1, <3>1, <3>2, <3>3, ConstantsAre DEF InUse
  <2>5. CreatorsOK'
    <3>1. ASSUME NEW q \in Procs, Creates(q)'
          PROVE  /\ file_table[pc'[q].slot] = pc'[q].obj
                 /\ \A s \in Slots : file_table[s] = pc'[q].obj => s = pc'[q].slot
                 /\ inode[pc'[q].obj].no = pc'[q].no
                 /\ ~inode[pc'[q].obj].listed
      BY <1>1, <2>4, <3>1 DEF Good, CreatorsOK
    <3>2. ASSUME NEW q \in Procs, Creates(q)', pc'[q].at = "creating"
          PROVE  pc'[q].no \in inode_bitmap' /\ \A f \in Files : dir'[f] # pc'[q].no
      <4>1. /\ pc[q].no \in inode_bitmap /\ pc[q].no # n /\ pc'[q] = pc[q]
            /\ \A f \in Files : dir[f] # pc[q].no
        BY <1>1, <2>4, <3>2 DEF Good, CreatorsOK
      <4>2. pc[q].no # None
        BY <1>1, <4>1, ConstantsAre DEF OpenFilesTypeOK
      <4> QED
        BY <1>1, <1>3, <4>1, <4>2
    <3>3. ASSUME NEW q \in Procs, Creates(q)', pc'[q].at = "created"
          PROVE  dir'[pc'[q].file] = pc'[q].no
      <4>1. /\ pc[q].no # n /\ pc'[q] = pc[q] /\ dir[pc[q].file] = pc[q].no
        BY <1>1, <2>4, <3>3 DEF Good, CreatorsOK
      <4>2. pc[q].file \in Files
        BY <1>1, <3>3, <4>1 DEF OpenFilesTypeOK, CallOK
      <4> QED
        BY <1>3, <2>1, <4>1, <4>2
    <3>4. \A q, r \in Procs : Creates(q)' /\ Creates(r)' /\ q # r =>
              pc'[q].obj # pc'[r].obj /\ pc'[q].no # pc'[r].no
      BY <1>1, <2>4 DEF Good, CreatorsOK
    <3> QED
      BY <1>1, <3>1, <3>2, <3>3, <3>4 DEF CreatorsOK
  <2>6. SlotsOK'
    <3>1. ASSUME NEW s \in Slots, file_table[s] # None, inode[file_table[s]].listed
          PROVE  Exists(inode[file_table[s]].no)'
      <4> DEFINE m == inode[file_table[s]].no
      <4>1. m # n
        BY <2>1, <3>1 DEF InUse
      <4>2. m \in inode_bitmap /\ \E f \in Files : dir[f] = m
        BY <1>1, <3>1 DEF Good, SlotsOK, Exists
      <4>3. PICK f \in Files : dir[f] = m
        BY <4>2
      <4>4. dir'[f] = m
        BY <1>3, <2>1, <4>1, <4>3
      <4>5. m \in inode_bitmap'
        BY <1>1, <4>1, <4>2
      <4> QED
        BY <1>1, <4>4, <4>5 DEF Exists
    <3> QED
      BY <1>1, <3>1 DEF Good, SlotsOK
  <2>7. FdsOK' /\ ListedOK'
    BY <1>1 DEF Good, FdsOK, ListedOK
  <2>8. \A q \in Procs : /\ Releases(q)' <=> Releases(q)
                         /\ Releases(q) => pc'[q].obj = pc[q].obj
    BY <1>1, <1>a DEF Releases
  <2>9. CountsOK'
    <3>1. \A o : Held(o)' <=> Held(o)
      BY <2>8 DEF Held
    <3> QED
      BY <1>1, <3>1 DEF Good, CountsOK, Users, FdRefs, BareRefs
  <2>10. UnlinkersOK'
    <3>1. \A q \in Procs : q # p => (Deletes(q)' <=> Deletes(q)) /\ pc'[q].no = pc[q].no
      BY <1>a DEF Deletes
    <3>2. Spared(p)'
      <4>1. n \in inode_bitmap
        BY <1>1, <1>2, <2>1 DEF Good, DirOK
      <4>2. \A s \in Slots : file_table[s] # None => inode[file_table[s]].no # n
        BY <2>1 DEF InUse
      <4>3. ~Releases(p)'
        BY <1>a DEF Releases
      <4> QED
        BY <1>1, <1>3, <1>a, <2>1, <2>2, <4>1, <4>2, <4>3 DEF Spared
    <3>3. ASSUME NEW q \in Procs, q # p PROVE Spared(q)'
      <4>1. Spared(q)
        BY <1>1 DEF UnlinkersOK
      <4>2. Deletes(q) => \A f \in Files : dir'[f] # pc[q].no
        <5>1. ASSUME Deletes(q) PROVE pc[q].no # None
          BY <1>1, <5>1, ConstantsAre DEF Deletes, OpenFilesTypeOK, CallOK
        <5> QED
          BY <1>3, <4>1, <5>1 DEF Spared
      <4> QED
        BY <1>1, <2>8, <3>1, <3>3, <4>1, <4>2 DEF Spared
    <3>4. \A q \in Procs : q # p /\ Deletes(q) => pc[q].no # n
      BY <1>1, <1>2, <2>1 DEF UnlinkersOK, Spared
    <3>5. ASSUME NEW q \in Procs, NEW r \in Procs, Deletes(q)', Deletes(r)', q # r
          PROVE  pc'[q].no # pc'[r].no
      BY <1>1, <1>a, <3>1, <3>4, <3>5 DEF UnlinkersOK
    <3>6. ASSUME NEW q \in Procs, NEW r \in Procs, Releases(q)', Releases(r)', q # r
          PROVE  pc'[q].obj # pc'[r].obj
      BY <1>1, <2>8, <3>6 DEF UnlinkersOK
    <3> QED
      BY <3>2, <3>3, <3>5, <3>6 DEF UnlinkersOK
  <2> QED
    BY <2>3, <2>5, <2>6, <2>7, <2>9, <2>10 DEF Good
<1> QED
  BY <1>4, <1>5 DEF IInv

LEMMA WalkStep ==
  ASSUME IInv, NEW p \in Procs, inode_release_walk(p)
  PROVE  IInv'
<1>1. /\ OpenFilesTypeOK /\ Good /\ UnlinkersOK /\ pc[p].at = "unlinked"
      /\ broken = "none" /\ broken' \in {broken, "unlink"}
      /\ pc' = [pc EXCEPT ![p].at = "opening"]
      /\ UNCHANGED <<dir, inode_bitmap, inode, file_table, fd_table, live>>
  BY DEF IInv, inode_release_walk, Runs, tables, Broken
<1>2. /\ pc' \in [Procs -> Call] /\ \A q \in Procs : CallOK(pc'[q])
      /\ pc'[p].at = "opening" /\ pc'[p].no = pc[p].no
      /\ \A q \in Procs : q # p => pc'[q] = pc[q]
  <2>1. /\ Advances(p, "opening", pc[p].obj)
        /\ pc[p].obj \in 0..NObjs
    BY <1>1, SameInode
  <2>2. pc[p].at # "out" /\ OpenFilesTypeOK
    BY <1>1
  <2> QED
    BY <2>1, <2>2, NextWait, Zenon
<1>3. OpenFilesTypeOK'
  BY <1>1, <1>2 DEF OpenFilesTypeOK
<1>4. \A q \in Procs : /\ Deletes(q)' <=> Deletes(q)
                       /\ pc'[q].no = pc[q].no
                       /\ Releases(q)' <=> Releases(q)
                       /\ Releases(q) => pc'[q].obj = pc[q].obj
  BY <1>1, <1>2 DEF Deletes, Releases
<1>5. DirOK' /\ SlotsOK' /\ FdsOK' /\ ListedOK'
  BY <1>1 DEF Good, DirOK, SlotsOK, Exists, FdsOK, ListedOK
<1>6. CountsOK'
  <2>1. \A o : Held(o)' <=> Held(o)
    BY <1>4 DEF Held
  <2> QED
    BY <1>1, <2>1 DEF Good, CountsOK, Users, FdRefs, BareRefs
<1>7. CreatorsOK'
  <2>1. \A q \in Procs : Creates(q)' => Creates(q) /\ pc'[q] = pc[q]
    BY <1>2 DEF Creates
  <2> QED
    BY <1>1, <2>1 DEF Good, CreatorsOK
<1>8. UnlinkersOK'
  <2>1. Keeps
    BY <1>4 DEF Keeps
  <2>2. ASSUME NEW q \in Procs PROVE Spared(q)'
    BY <1>1, <1>4 DEF UnlinkersOK, Spared
  <2> QED
    BY <1>1, <2>1, <2>2, UnlinkersKept
<1> QED
  BY <1>3, <1>5, <1>6, <1>7, <1>8 DEF IInv, Good

LEMMA OpenedStep ==
  ASSUME IInv, NEW p \in Procs, inode_release_opened(p)
  PROVE  IInv'
<1> DEFINE o == Lowest(FreeObjs)
           n == pc[p].no
<1>1. /\ OpenFilesTypeOK /\ Good /\ UnlinkersOK /\ pc[p].at = "opening"
      /\ broken = "none" /\ Broken("unlink", Listed(n) # {})
      /\ inode' = [inode EXCEPT ![o] = NewInode(n)]
      /\ pc' = [pc EXCEPT ![p].at = "releasing", ![p].obj = o]
      /\ UNCHANGED <<dir, inode_bitmap, file_table, fd_table, live>>
  BY DEF IInv, inode_release_opened, Runs
<1>2. o \in Objs /\ o \in 0..NObjs /\ inode[o] = NoInode
  BY FreeObjIs, ConstantsAre DEF inode_release_opened
<1>3. n \in 0..NInodes
  BY <1>1 DEF OpenFilesTypeOK, Call
<1> HIDE DEF o, n
<1>4. /\ pc' \in [Procs -> Call] /\ \A q \in Procs : CallOK(pc'[q])
      /\ pc'[p].at = "releasing" /\ pc'[p].obj = o /\ pc'[p].no = n
      /\ \A q \in Procs : q # p => pc'[q] = pc[q]
  <2>1. Advances(p, "releasing", o) /\ OpenFilesTypeOK /\ pc[p].at # "out"
    BY <1>1 DEF Advances
  <2> QED
    BY <1>2, <2>1, NextWait DEF n
<1>5. /\ inode' \in [Objs -> InodeRec] /\ inode'[o].listed /\ inode'[o].no = n
      /\ inode'[o].i_open_cnts = 1
      /\ \A x \in Objs : x # o => inode'[x] = inode[x]
  <2>1. NewInode(n) \in InodeRec /\ NewInode(n).listed /\ NewInode(n).no = n
        /\ NewInode(n).i_open_cnts = 1
    BY <1>3 DEF NewInode, InodeRec
  <2>2. inode \in [Objs -> InodeRec]
    BY <1>1 DEF OpenFilesTypeOK
  <2>3. inode'[o] = NewInode(n) /\ \A x \in Objs : x # o => inode'[x] = inode[x]
    BY <1>1, <1>2, <2>2
  <2>4. inode' \in [Objs -> InodeRec]
    BY <1>1, <2>1, <2>2
  <2> QED
    BY <2>1, <2>3, <2>4
<1>6. OpenFilesTypeOK'
  BY <1>1, <1>4, <1>5 DEF OpenFilesTypeOK, Broken
<1>7. ASSUME broken' = "none" PROVE Good' /\ UnlinkersOK'
  <2>1. /\ \A s \in Slots : file_table[s] # o
        /\ \A q \in Procs : Creates(q) => pc[q].obj # o
    BY <1>1, <1>2, FreeObjUnused DEF Good
  <2>2. ~Held(o)
    BY <1>1, <1>2, NoInodeIs DEF Held, UnlinkersOK, Spared
  <2>3. \A s \in Slots : file_table[s] # None =>
            file_table[s] \in Objs /\ inode'[file_table[s]] = inode[file_table[s]]
    BY <1>1, <1>5, <2>1, ConstantsAre DEF OpenFilesTypeOK
  <2>4. DirOK'
    BY <1>1 DEF Good, DirOK
  <2>5. CreatorsOK'
    <3>1. \A q \in Procs : Creates(q)' => Creates(q) /\ pc'[q] = pc[q]
      BY <1>4 DEF Creates
    <3>2. \A q \in Procs : Creates(q) => inode'[pc[q].obj] = inode[pc[q].obj]
      BY <1>1, <1>5, <2>1 DEF Creates, OpenFilesTypeOK, CallOK
    <3>3. Good /\ UNCHANGED <<dir, inode_bitmap, file_table>>
      BY <1>1
    <3>4. ASSUME NEW q \in Procs, Creates(q)'
          PROVE  /\ file_table[pc'[q].slot] = pc'[q].obj
                 /\ \A s \in Slots : file_table[s] = pc'[q].obj => s = pc'[q].slot
                 /\ inode'[pc'[q].obj].no = pc'[q].no
                 /\ ~inode'[pc'[q].obj].listed
                 /\ pc'[q].at = "creating" => /\ pc'[q].no \in inode_bitmap
                                              /\ \A f \in Files : dir[f] # pc'[q].no
                 /\ pc'[q].at = "created" => dir[pc'[q].file] = pc'[q].no
      <4>1. Creates(q) /\ pc'[q] = pc[q] /\ inode'[pc[q].obj] = inode[pc[q].obj]
        BY <3>1, <3>2, <3>4
      <4> QED
        BY <3>3, <4>1 DEF Good, CreatorsOK
    <3>5. \A q, r \in Procs : Creates(q)' /\ Creates(r)' /\ q # r =>
              pc'[q].obj # pc'[r].obj /\ pc'[q].no # pc'[r].no
      BY <3>1, <3>3 DEF Good, CreatorsOK
    <3> QED
      BY <3>3, <3>4, <3>5 DEF CreatorsOK
  <2>6. SlotsOK'
    BY <1>1, <2>3 DEF Good, SlotsOK, Exists
  <2>7. FdsOK'
    <3>1. \A x \in Procs, d \in Fds : fd_table[x][d] # None => fd_table[x][d] \in Slots
      BY <1>1, FdsAreSlots
    <3> QED
      BY <1>1, <2>3, <3>1 DEF Good, FdsOK
  <2>8. ListedOK'
    <3>1. \A x \in Objs : x # o /\ inode[x].listed => inode[x].no # n
      BY <1>1, <1>7 DEF Broken, Listed
    <3> QED
      BY <1>1, <1>5, <3>1 DEF Good, ListedOK
  <2>9. \A q \in Procs : q # p => /\ Deletes(q)' <=> Deletes(q)
                                  /\ Releases(q)' <=> Releases(q)
    BY <1>4 DEF Deletes, Releases
  <2>10. /\ Deletes(p) /\ Deletes(p)' /\ ~Releases(p) /\ Releases(p)'
    BY <1>1, <1>4 DEF Deletes, Releases
  <2>11. CountsOK'
    <3>1. ASSUME NEW x \in Objs, inode'[x].listed, ~Held(x)'
          PROVE  inode'[x].i_open_cnts = Users(fd_table, file_table, x)
      <4>1. x # o
        BY <1>4, <2>10, <3>1 DEF Held
      <4>2. ~Held(x)
        BY <1>4, <2>9, <2>10, <3>1 DEF Held
      <4> QED
        BY <1>1, <1>5, <3>1, <4>1, <4>2 DEF Good, CountsOK
    <3> QED
      BY <1>1, <3>1 DEF CountsOK, Users, FdRefs, BareRefs
  <2>12. UnlinkersOK'
    <3>1. Spared(p)'
      <4>1. Spared(p)
        BY <1>1 DEF UnlinkersOK
      <4> QED
        BY <1>1, <1>4, <1>5, <2>1, <2>3, <2>10, <4>1 DEF Spared, n
    <3>2. ASSUME NEW q \in Procs, q # p PROVE Spared(q)'
      <4>1. Spared(q) /\ pc'[q] = pc[q]
        BY <1>1, <1>4, <3>2 DEF UnlinkersOK
      <4>2. Releases(q) => pc[q].obj \in Objs /\ pc[q].obj # o
        BY <1>1, <2>2 DEF Held, Releases, OpenFilesTypeOK, CallOK
      <4>3. UNCHANGED <<dir, inode_bitmap, file_table>>
        BY <1>1
      <4>4. Deletes(q)' => /\ pc'[q].no \in inode_bitmap'
                           /\ \A f \in Files : dir'[f] # pc'[q].no
                           /\ \A s \in Slots : file_table'[s] # None =>
                                 inode'[file_table'[s]].no # pc'[q].no
        BY <2>3, <2>9, <3>2, <4>1, <4>3 DEF Spared
      <4>5. Releases(q)' => /\ inode'[pc'[q].obj].listed /\ inode'[pc'[q].obj].i_open_cnts = 1
                            /\ \A s \in Slots : file_table'[s] # pc'[q].obj
        BY <1>5, <2>9, <3>2, <4>1, <4>2, <4>3 DEF Spared
      <4> QED
        BY <4>4, <4>5 DEF Spared
    <3>3. ASSUME NEW q \in Procs, NEW r \in Procs, Deletes(q)', Deletes(r)', q # r
          PROVE  pc'[q].no # pc'[r].no
      <4>1. Deletes(q) /\ Deletes(r) /\ pc'[q].no = pc[q].no /\ pc'[r].no = pc[r].no
        BY <1>4, <2>9, <2>10, <3>3 DEF n
      <4> QED
        BY <1>1, <3>3, <4>1 DEF UnlinkersOK
    <3>4. ASSUME NEW q \in Procs, NEW r \in Procs, Releases(q)', Releases(r)', q # r
          PROVE  pc'[q].obj # pc'[r].obj
      BY <1>1, <1>4, <2>2, <2>9, <3>4 DEF UnlinkersOK, Held
    <3> QED
      BY <3>1, <3>2, <3>3, <3>4 DEF UnlinkersOK
  <2> QED
    BY <2>4, <2>5, <2>6, <2>7, <2>8, <2>11, <2>12 DEF Good
<1> QED
  BY <1>6, <1>7 DEF IInv

LEMMA NumberStep ==
  ASSUME IInv, NEW p \in Procs, inode_release_number(p)
  PROVE  IInv'
<1> DEFINE n == pc[p].no
<1>1. /\ OpenFilesTypeOK /\ Good /\ UnlinkersOK /\ pc[p].at = "releasing"
      /\ inode_bitmap' = inode_bitmap \ {n}
      /\ pc' = [pc EXCEPT ![p].at = "deleting"]
      /\ UNCHANGED <<dir, inode, file_table, fd_table, live, broken>>
  BY DEF IInv, inode_release_number, Runs, tables
<1>2. pc[p].obj \in Objs
  BY <1>1 DEF OpenFilesTypeOK, CallOK
<1>3. /\ pc' \in [Procs -> Call] /\ \A q \in Procs : CallOK(pc'[q])
      /\ pc'[p].at = "deleting" /\ pc'[p].obj = pc[p].obj
      /\ \A q \in Procs : q # p => pc'[q] = pc[q]
  <2>1. Advances(p, "deleting", pc[p].obj)
        /\ pc[p].obj \in 0..NObjs
    BY <1>1, SameInode
  <2> QED
    BY <1>1, <1>2, <2>1, NextWait
<1>4. OpenFilesTypeOK'
  BY <1>1, <1>3 DEF OpenFilesTypeOK
<1>5. /\ Deletes(p) /\ ~Deletes(p)'
      /\ \A q \in Procs : /\ q # p => (Deletes(q)' <=> Deletes(q)) /\ pc'[q].no = pc[q].no
                          /\ Releases(q)' <=> Releases(q)
                          /\ pc'[q].obj = pc[q].obj
  BY <1>1, <1>3 DEF Deletes, Releases
<1>6. /\ \A f \in Files : dir[f] # n
      /\ \A s \in Slots : file_table[s] # None => inode[file_table[s]].no # n
  BY <1>1, <1>5 DEF UnlinkersOK, Spared
<1> HIDE DEF n
<1>7. DirOK'
  BY <1>1, <1>6 DEF Good, DirOK
<1>8. CreatorsOK'
  <2>1. ASSUME NEW q \in Procs, Creates(q)'
        PROVE  Creates(q) /\ pc'[q] = pc[q] /\ pc[q].no # n
    <3>1. Creates(q) /\ pc'[q] = pc[q]
      BY <1>3, <2>1 DEF Creates
    <3>2. pc[q].slot \in Slots /\ pc[q].obj \in Objs
      BY <1>1, <3>1 DEF Creates, OpenFilesTypeOK, CallOK
    <3>3. file_table[pc[q].slot] = pc[q].obj /\ inode[pc[q].obj].no = pc[q].no
      BY <1>1, <3>1 DEF Good, CreatorsOK
    <3> QED
      BY <1>6, <3>1, <3>2, <3>3, ConstantsAre
  <2> QED
    BY <1>1, <2>1 DEF Good, CreatorsOK
<1>9. SlotsOK'
  BY <1>1, <1>6 DEF Good, SlotsOK, Exists
<1>10. FdsOK' /\ ListedOK'
  BY <1>1 DEF Good, FdsOK, ListedOK
<1>11. CountsOK'
  <2>1. \A o : Held(o)' <=> Held(o)
    BY <1>5 DEF Held
  <2> QED
    BY <1>1, <2>1 DEF Good, CountsOK, Users, FdRefs, BareRefs
<1>12. UnlinkersOK'
  <2>1. Keeps
    BY <1>5 DEF Keeps
  <2>2. \A q \in Procs : q # p /\ Deletes(q) => pc[q].no # n
    BY <1>1, <1>5 DEF UnlinkersOK, n
  <2>3. ASSUME NEW q \in Procs PROVE Spared(q)'
    <3>1. Spared(q)
      BY <1>1 DEF UnlinkersOK
    <3>2. Deletes(q)' => q # p /\ Deletes(q) /\ pc'[q].no = pc[q].no /\ pc[q].no # n
      BY <1>5, <2>2
    <3> QED
      BY <1>1, <1>5, <3>1, <3>2 DEF Spared
  <2> QED
    BY <1>1, <2>1, <2>3, UnlinkersKept
<1> QED
  BY <1>1, <1>4, <1>7, <1>8, <1>9, <1>10, <1>11, <1>12 DEF IInv, Good

LEMMA UnlinkEndStep ==
  ASSUME IInv, NEW p \in Procs, sys_unlink_end(p)
  PROVE  IInv'
<1> DEFINE o == pc[p].obj
<1>1. /\ OpenFilesTypeOK /\ Good /\ UnlinkersOK /\ pc[p].at = "deleting"
      /\ broken' \in {broken, "unlink"}
      /\ inode' = Closed(inode, o)
      /\ pc' = [pc EXCEPT ![p] = Out]
      /\ UNCHANGED <<dir, inode_bitmap, file_table, fd_table, live>>
  BY DEF IInv, sys_unlink_end, Runs, Broken
<1>2. o \in Objs
  BY <1>1 DEF OpenFilesTypeOK, CallOK
<1>3. Releases(p) /\ ~Deletes(p)
  BY <1>1 DEF Releases, Deletes
<1>4. /\ inode[o].listed /\ inode[o].i_open_cnts = 1
      /\ \A s \in Slots : file_table[s] # o
  BY <1>1, <1>3 DEF UnlinkersOK, Spared
<1>5. \A q \in Procs : q # p /\ Releases(q) => pc[q].obj # o
  BY <1>1, <1>3 DEF UnlinkersOK
<1> HIDE DEF o
<1>6. /\ inode' \in [Objs -> InodeRec] /\ inode'[o] = NoInode
      /\ \A x \in Objs : x # o => inode'[x] = inode[x]
  <2>1. inode' = [inode EXCEPT ![o] = NoInode]
    BY <1>1, <1>4 DEF Closed
  <2> QED
    BY <1>1, <1>2, <2>1, NoInodeIs DEF OpenFilesTypeOK
<1>7. pc'[p] = Out /\ \A q \in Procs : q # p => pc'[q] = pc[q]
  BY <1>1 DEF OpenFilesTypeOK
<1>8. OpenFilesTypeOK'
  <2>1. pc' \in [Procs -> Call] /\ \A q \in Procs : CallOK(pc'[q])
    BY <1>1, NoInodeIs, CallType
  <2> QED
    BY <1>1, <1>6, <2>1 DEF OpenFilesTypeOK
<1>9. \A s \in Slots : file_table[s] # None =>
          file_table[s] \in Objs /\ inode'[file_table[s]] = inode[file_table[s]]
  BY <1>1, <1>4, <1>6, ConstantsAre DEF OpenFilesTypeOK
<1>10. DirOK'
  BY <1>1 DEF Good, DirOK
<1>11. CreatorsOK'
  <2>1. \A q \in Procs : Creates(q)' => Creates(q) /\ pc'[q] = pc[q]
    BY <1>7, NoInodeIs DEF Creates
  <2>2. ASSUME NEW q \in Procs, Creates(q) PROVE inode'[pc[q].obj] = inode[pc[q].obj]
    <3>1. pc[q].obj \in Objs /\ ~inode[pc[q].obj].listed
      BY <1>1, <2>2 DEF Creates, OpenFilesTypeOK, CallOK, Good, CreatorsOK
    <3> QED
      BY <1>4, <1>6, <3>1
  <2> QED
    BY <1>1, <2>1, <2>2 DEF Good, CreatorsOK
<1>12. SlotsOK'
  BY <1>1, <1>9 DEF Good, SlotsOK, Exists
<1>13. FdsOK'
  <2>1. \A x \in Procs, d \in Fds : fd_table[x][d] # None => fd_table[x][d] \in Slots
    BY <1>1, FdsAreSlots
  <2> QED
    BY <1>1, <1>9, <2>1 DEF Good, FdsOK
<1>14. ListedOK'
  BY <1>1, <1>6, NoInodeIs DEF Good, ListedOK
<1>15. \A q \in Procs : /\ Releases(q)' => q # p /\ Releases(q) /\ pc'[q] = pc[q]
                        /\ Deletes(q)' => q # p /\ Deletes(q) /\ pc'[q] = pc[q]
                        /\ q # p /\ Releases(q) => Releases(q)'
  BY <1>7, NoInodeIs DEF Deletes, Releases
<1>16. CountsOK'
  <2>1. ASSUME NEW x \in Objs, inode'[x].listed, ~Held(x)'
        PROVE  inode'[x].i_open_cnts = Users(fd_table, file_table, x)
    <3>1. x # o
      BY <1>6, <2>1, NoInodeIs
    <3>2. ~Held(x)
      BY <1>7, <1>15, <2>1, <3>1 DEF Held, o
    <3> QED
      BY <1>1, <1>6, <2>1, <3>1, <3>2 DEF Good, CountsOK
  <2> QED
    BY <1>1, <2>1 DEF CountsOK, Users, FdRefs, BareRefs
<1>17. UnlinkersOK'
  <2>1. Keeps
    BY <1>15 DEF Keeps
  <2>2. ASSUME NEW q \in Procs PROVE Spared(q)'
    <3>1. Spared(q)
      BY <1>1 DEF UnlinkersOK
    <3>2. Releases(q)' => pc[q].obj \in Objs /\ pc[q].obj # o
      BY <1>1, <1>5, <1>15 DEF Releases, OpenFilesTypeOK, CallOK
    <3> QED
      BY <1>1, <1>6, <1>9, <1>15, <3>1, <3>2 DEF Spared
  <2> QED
    BY <1>1, <2>1, <2>2, UnlinkersKept
<1> QED
  BY <1>8, <1>10, <1>11, <1>12, <1>13, <1>14, <1>16, <1>17 DEF IInv, Good

-----------------------------------------------------------------------------
(***************************************************************************)
(* file_create.                                                            *)
(***************************************************************************)
LEMMA EntryStep ==
  ASSUME IInv, NEW p \in Procs, file_create_entry(p)
  PROVE  IInv'
<1> DEFINE g == pc[p].file
           n == pc[p].no
<1>1. /\ OpenFilesTypeOK /\ Good /\ UnlinkersOK /\ pc[p].at = "creating" /\ broken = "none"
      /\ Broken("create", dir[g] # None)
      /\ dir' = [dir EXCEPT ![g] = n]
      /\ pc' = [pc EXCEPT ![p].at = "created"]
      /\ UNCHANGED <<inode_bitmap, inode, file_table, fd_table, live>>
  BY DEF IInv, file_create_entry, Runs, tables
<1>2. /\ g \in Files /\ n \in Inodes /\ n \in 0..NInodes /\ n # None
      /\ pc[p].slot \in Slots /\ pc[p].obj \in Objs /\ pc[p] \in Call
  BY <1>1, ConstantsAre DEF OpenFilesTypeOK, CallOK
<1>3. /\ pc'[p] \in Call /\ pc'[p].at = "created" /\ pc'[p].file = g /\ pc'[p].no = n
      /\ pc'[p].slot = pc[p].slot /\ pc'[p].obj = pc[p].obj
      /\ \A q \in Procs : q # p => pc'[q] = pc[q]
      /\ pc' \in [Procs -> Call]
  <2>1. pc'[p] = [pc[p] EXCEPT !.at = "created"] /\ \A q \in Procs : q # p => pc'[q] = pc[q]
    BY <1>1 DEF OpenFilesTypeOK
  <2>2. /\ pc'[p] \in Call /\ pc'[p].at = "created" /\ pc'[p].file = g /\ pc'[p].no = n
        /\ pc'[p].slot = pc[p].slot /\ pc'[p].obj = pc[p].obj
    BY <2>1, <1>2 DEF Call
  <2>3. \A q \in Procs : pc'[q] \in Call
    BY <2>1, <2>2, <1>1 DEF OpenFilesTypeOK
  <2>4. pc' \in [Procs -> Call]
    <3>1. pc' = [q \in Procs |-> pc'[q]]
      BY <1>1 DEF OpenFilesTypeOK
    <3> QED
      BY <2>3, <3>1, Zenon
  <2> QED
    BY <2>1, <2>2, <2>4, Zenon
<1> HIDE DEF g, n
<1>4. /\ dir' \in [Files -> 0..NInodes] /\ dir'[g] = n
      /\ \A f \in Files : f # g => dir'[f] = dir[f]
  BY <1>1, <1>2 DEF OpenFilesTypeOK
<1>5. OpenFilesTypeOK'
  <2>1. \A q \in Procs : CallOK(pc'[q])
    BY <1>1, <1>2, <1>3 DEF CallOK, OpenFilesTypeOK
  <2> QED
    BY <1>1, <1>3, <1>4, <2>1 DEF OpenFilesTypeOK, Broken
<1>6. ASSUME broken' = "none" PROVE Good' /\ UnlinkersOK'
  <2>1. dir[g] = None
    BY <1>1, <1>6 DEF Broken
  <2>2. Creates(p) /\ Creates(p)'
    BY <1>1, <1>3 DEF Creates
  <2>3. n \in inode_bitmap /\ \A f \in Files : dir[f] # n
    BY <1>1, <2>2 DEF Good, CreatorsOK, n
  <2>4. DirOK'
    BY <1>1, <1>4, <2>3 DEF Good, DirOK
  <2>5. \A q \in Procs : q # p => (Creates(q)' <=> Creates(q))
    BY <1>3 DEF Creates
  <2>6. CreatorsOK'
    <3>1. ASSUME NEW q \in Procs, Creates(q)'
          PROVE  /\ file_table[pc'[q].slot] = pc'[q].obj
                 /\ \A s \in Slots : file_table[s] = pc'[q].obj => s = pc'[q].slot
                 /\ inode[pc'[q].obj].no = pc'[q].no
                 /\ ~inode[pc'[q].obj].listed
      <4>1. Creates(q) /\ pc'[q].slot = pc[q].slot /\ pc'[q].obj = pc[q].obj
            /\ pc'[q].no = pc[q].no
        BY <3>1, <2>2, <2>5, <1>3 DEF n
      <4> QED
        BY <1>1, <4>1 DEF Good, CreatorsOK
    <3>2. ASSUME NEW q \in Procs, Creates(q)', pc'[q].at = "creating"
          PROVE  pc'[q].no \in inode_bitmap' /\ \A f \in Files : dir'[f] # pc'[q].no
      <4>1. q # p /\ Creates(q) /\ pc'[q] = pc[q]
        BY <3>2, <1>3, <2>5
      <4>2. pc[q].no # n
        BY <1>1, <2>2, <4>1 DEF Good, CreatorsOK, n
      <4>3. pc[q].no \in inode_bitmap /\ \A f \in Files : dir[f] # pc[q].no
        BY <1>1, <3>2, <4>1 DEF Good, CreatorsOK
      <4> QED
        BY <1>1, <1>4, <4>1, <4>2, <4>3
    <3>3. ASSUME NEW q \in Procs, Creates(q)', pc'[q].at = "created"
          PROVE  dir'[pc'[q].file] = pc'[q].no
      <4>1. CASE q = p
        BY <4>1, <1>3, <1>4
      <4>2. CASE q # p
        <5>1. pc'[q] = pc[q] /\ dir[pc[q].file] = pc[q].no
          BY <1>1, <1>3, <2>5, <3>3, <4>2 DEF Good, CreatorsOK
        <5>2. pc[q].file \in Files /\ pc[q].no # None
          BY <1>1, <3>3, <5>1, ConstantsAre DEF OpenFilesTypeOK, CallOK
        <5> QED
          BY <5>1, <5>2, <1>4, <2>1
      <4> QED
        BY <4>1, <4>2
    <3>4. ASSUME NEW q \in Procs, NEW r \in Procs, Creates(q)', Creates(r)', q # r
          PROVE  pc'[q].obj # pc'[r].obj /\ pc'[q].no # pc'[r].no
      <4>1. /\ Creates(q) /\ Creates(r)
            /\ pc'[q].obj = pc[q].obj /\ pc'[q].no = pc[q].no
            /\ pc'[r].obj = pc[r].obj /\ pc'[r].no = pc[r].no
        BY <3>4, <2>2, <2>5, <1>3 DEF n
      <4> QED
        BY <1>1, <3>4, <4>1 DEF Good, CreatorsOK
    <3> QED
      BY <1>1, <3>1, <3>2, <3>3, <3>4 DEF CreatorsOK
  <2>7. SlotsOK'
    <3>1. \A m : Exists(m) => Exists(m)' \/ m = None
      BY <1>1, <1>4, <2>1 DEF Exists
    <3> QED
      BY <1>1, <3>1 DEF Good, SlotsOK
  <2>8. FdsOK' /\ ListedOK'
    BY <1>1 DEF Good, FdsOK, ListedOK
  <2>a. Stays
    BY <1>1, <1>3, OutStays
  <2>9. CountsOK'
    <3>1. \A o : Held(o)' <=> Held(o)
      BY <2>a, StaysIs
    <3> QED
      BY <1>1, <3>1 DEF Good, CountsOK, Users, FdRefs, BareRefs
  <2>10. UnlinkersOK'
    <3>1. ASSUME NEW q \in Procs, Deletes(q) PROVE pc[q].no # n
      <4>1. file_table[pc[p].slot] = pc[p].obj /\ inode[pc[p].obj].no = n
        BY <1>1, <2>2 DEF Good, CreatorsOK, n
      <4> QED
        BY <1>1, <1>2, <3>1, <4>1, ConstantsAre DEF UnlinkersOK, Spared
    <3>2. ASSUME NEW q \in Procs PROVE Spared(q)'
      <4>1. Spared(q)
        BY <1>1 DEF UnlinkersOK
      <4>2. /\ Deletes(q)' => Deletes(q) /\ pc'[q].no = pc[q].no
            /\ Releases(q)' => Releases(q) /\ pc'[q].obj = pc[q].obj
        BY <2>a, StaysIs DEF Keeps
      <4> QED
        BY <1>1, <1>4, <3>1, <4>1, <4>2 DEF Spared
    <3> QED
      BY <1>1, <2>a, <3>2, StaysIs, UnlinkersKept
  <2> QED
    BY <2>4, <2>6, <2>7, <2>8, <2>9, <2>10 DEF Good
<1> QED
  BY <1>5, <1>6 DEF IInv

LEMMA CreateStep ==
  ASSUME IInv, NEW p \in Procs, NEW f \in Files, file_create(p, f)
  PROVE  IInv'
<1> DEFINE n == Lowest(Inodes \ inode_bitmap)
           o == Lowest(FreeObjs)
           s == get_free_slot
           rec == [NoInode EXCEPT !.no = n, !.heap = p]
           c == [Out EXCEPT !.at = "creating", !.file = f, !.slot = s, !.obj = o, !.no = n]
<1>1. /\ OpenFilesTypeOK /\ Good /\ UnlinkersOK /\ pc[p].at = "out" /\ dir[f] = None /\ broken = "none"
      /\ inode_bitmap' = inode_bitmap \cup {n}
      /\ inode' = [inode EXCEPT ![o] = rec]
      /\ file_table' = [file_table EXCEPT ![s] = o]
      /\ pc' = [pc EXCEPT ![p] = c]
      /\ UNCHANGED <<dir, fd_table, live, broken>>
  BY DEF IInv, file_create, Runs
<1>2. s \in Slots /\ file_table[s] = None
  BY FreeSlotIs DEF file_create
<1>3. o \in Objs /\ inode[o] = NoInode
  BY FreeObjIs DEF file_create
<1>4. n \in Inodes /\ n \notin inode_bitmap
  <2>1. Inodes \ inode_bitmap \subseteq Nat /\ Inodes \ inode_bitmap # {}
    BY ConstantsAre DEF file_create
  <2> QED
    BY <2>1, LowestIs
<1> HIDE DEF n, o, s
<1>5. /\ n # None /\ n \in 0..NInodes /\ s # None /\ s \in 0..NSlots
      /\ o # None /\ o \in 0..NObjs
  BY <1>2, <1>3, <1>4, ConstantsAre
<1>6. rec \in InodeRec /\ rec.no = n /\ rec.listed = FALSE
  <2>1. PICK r : r = [NoInode EXCEPT !.no = n]
    OBVIOUS
  <2>2. r \in InodeRec /\ r.no = n /\ r.listed = FALSE
    BY <1>5, <2>1, NoInodeIs DEF InodeRec
  <2>3. rec = [r EXCEPT !.heap = p]
    BY <2>1, Zenon
  <2> HIDE DEF rec
  <2> QED
    BY <2>2, <2>3 DEF InodeRec
<1>7. /\ c \in Call /\ c.at = "creating" /\ c.file = f /\ c.slot = s /\ c.obj = o /\ c.no = n
  BY <1>5, NoInodeIs DEF Call
<1> HIDE DEF rec, c
<1>8. /\ inode' \in [Objs -> InodeRec] /\ inode'[o] = rec
      /\ \A x \in Objs : x # o => inode'[x] = inode[x]
  BY <1>1, <1>3, <1>6 DEF OpenFilesTypeOK
<1>9. /\ file_table' \in Table /\ file_table'[s] = o
      /\ \A r \in Slots : r # s => file_table'[r] = file_table[r]
  BY <1>1, <1>2, <1>5 DEF OpenFilesTypeOK, Table
<1>10. pc'[p] = c /\ \A q \in Procs : q # p => pc'[q] = pc[q]
  BY <1>1 DEF OpenFilesTypeOK
<1>11. OpenFilesTypeOK'
  <2>1. CallOK(c)
    BY <1>2, <1>3, <1>4, <1>7 DEF CallOK
  <2>2. pc' \in [Procs -> Call] /\ \A q \in Procs : CallOK(pc'[q])
    BY <1>1, <1>7, <2>1, CallType
  <2> QED
    BY <1>1, <1>4, <1>8, <1>9, <2>2 DEF OpenFilesTypeOK, Table
<1>12. \A x \in Objs : inode'[x].listed =>
          x # o /\ inode[x].listed /\ inode'[x] = inode[x]
  BY <1>6, <1>8
<1>13. /\ \A r \in Slots : file_table[r] # o
       /\ \A q \in Procs : Creates(q) => pc[q].obj # o
  BY <1>1, <1>3, FreeObjUnused DEF Good
<1>14. DirOK'
  BY <1>1 DEF Good, DirOK
<1>15. ASSUME NEW q \in Procs, q # p, Creates(q)'
       PROVE  /\ Creates(q) /\ pc'[q] = pc[q] /\ pc[q].obj # o /\ pc[q].slot # s
              /\ pc[q].no # n /\ pc[q].obj \in Objs /\ pc[q].slot \in Slots
  <2>1. Creates(q) /\ pc'[q] = pc[q]
    BY <1>15, <1>10 DEF Creates
  <2>2. /\ pc[q].obj \in Objs /\ pc[q].slot \in Slots /\ pc[q].file \in Files
        /\ pc[q].no \in Inodes
    BY <1>1, <2>1 DEF Creates, OpenFilesTypeOK, CallOK
  <2>3. file_table[pc[q].slot] = pc[q].obj
    BY <1>1, <2>1 DEF Good, CreatorsOK
  <2>4. pc[q].no \in inode_bitmap
    <3>1. CASE pc[q].at = "creating"
      BY <1>1, <2>1, <3>1 DEF Good, CreatorsOK
    <3>2. CASE pc[q].at = "created"
      <4>1. dir[pc[q].file] = pc[q].no
        BY <1>1, <2>1, <3>2 DEF Good, CreatorsOK
      <4> QED
        BY <1>1, <2>2, <4>1, ConstantsAre DEF Good, DirOK
    <3> QED
      BY <2>1, <3>1, <3>2 DEF Creates
  <2> QED
    BY <1>2, <1>4, <1>13, <2>1, <2>2, <2>3, <2>4, ConstantsAre
<1>16. CreatorsOK'
  <2>1. ASSUME NEW q \in Procs, Creates(q)'
        PROVE  /\ file_table'[pc'[q].slot] = pc'[q].obj
               /\ \A r \in Slots : file_table'[r] = pc'[q].obj => r = pc'[q].slot
               /\ inode'[pc'[q].obj].no = pc'[q].no
               /\ ~inode'[pc'[q].obj].listed
               /\ pc'[q].at = "creating" => /\ pc'[q].no \in inode_bitmap'
                                            /\ \A g \in Files : dir'[g] # pc'[q].no
               /\ pc'[q].at = "created" => dir'[pc'[q].file] = pc'[q].no
    <3>1. CASE q = p
      <4>1. \A g \in Files : dir[g] # n
        BY <1>1, <1>4, <1>5 DEF Good, DirOK
      <4>2. n \in inode_bitmap'
        BY <1>1
      <4>3. \A r \in Slots : file_table'[r] = o => r = s
        BY <1>9, <1>13
      <4>4. pc'[q] = c
        BY <3>1, <1>10
      <4> QED
        BY <1>1, <1>6, <1>7, <1>8, <1>9, <4>1, <4>2, <4>3, <4>4
    <3>2. CASE q # p
      <4>1. /\ Creates(q) /\ pc'[q] = pc[q] /\ pc[q].obj # o /\ pc[q].slot # s
            /\ pc[q].obj \in Objs /\ pc[q].slot \in Slots
        BY <1>15, <2>1, <3>2
      <4>2. inode_bitmap \subseteq inode_bitmap' /\ dir' = dir
        BY <1>1
      <4>3. /\ file_table[pc[q].slot] = pc[q].obj
            /\ \A r \in Slots : file_table[r] = pc[q].obj => r = pc[q].slot
            /\ inode[pc[q].obj].no = pc[q].no
            /\ ~inode[pc[q].obj].listed
            /\ pc[q].at = "creating" => /\ pc[q].no \in inode_bitmap
                                        /\ \A g \in Files : dir[g] # pc[q].no
            /\ pc[q].at = "created" => dir[pc[q].file] = pc[q].no
        BY <1>1, <4>1 DEF Good, CreatorsOK
      <4> QED
        BY <1>8, <1>9, <4>1, <4>2, <4>3
    <3> QED
      BY <3>1, <3>2
  <2>2. ASSUME NEW q \in Procs, NEW r \in Procs, Creates(q)', Creates(r)', q # r
        PROVE  pc'[q].obj # pc'[r].obj /\ pc'[q].no # pc'[r].no
    <3>1. CASE q = p
      BY <2>2, <3>1, <1>7, <1>10, <1>15
    <3>2. CASE r = p
      BY <2>2, <3>2, <1>7, <1>10, <1>15
    <3>3. CASE q # p /\ r # p
      BY <1>1, <2>2, <3>3, <1>15 DEF Good, CreatorsOK
    <3> QED
      BY <3>1, <3>2, <3>3
  <2> QED
    BY <2>1, <2>2 DEF CreatorsOK
<1>17. SlotsOK'
  <2>1. ASSUME NEW r \in Slots, file_table'[r] # None
        PROVE  /\ inode'[file_table'[r]].no # None
               /\ inode'[file_table'[r]].listed => Exists(inode[file_table[r]].no)'
    <3>1. CASE r = s
      BY <3>1, <1>5, <1>6, <1>8, <1>9
    <3>2. CASE r # s
      <4>1. file_table'[r] = file_table[r] /\ file_table[r] # o /\ file_table[r] \in Objs
        BY <1>1, <2>1, <3>2, <1>9, <1>13, ConstantsAre DEF OpenFilesTypeOK
      <4>2. inode'[file_table'[r]] = inode[file_table[r]]
        BY <4>1, <1>8
      <4>3. /\ inode[file_table[r]].no # None
            /\ inode[file_table[r]].listed => Exists(inode[file_table[r]].no)
        BY <1>1, <2>1, <4>1 DEF Good, SlotsOK
      <4> QED
        BY <1>1, <4>2, <4>3 DEF Exists
    <3> QED
      BY <3>1, <3>2
  <2> QED
    BY <2>1 DEF SlotsOK
<1>18. FdsOK'
  <2>1. ASSUME NEW x \in Procs, NEW e \in Fds, fd_table[x][e] # None
        PROVE  /\ file_table'[fd_table[x][e]] # None
               /\ inode'[file_table'[fd_table[x][e]]].listed
    <3>1. fd_table[x][e] \in Slots
      BY <1>1, <2>1, FdsAreSlots
    <3>2. /\ file_table[fd_table[x][e]] # None /\ inode[file_table[fd_table[x][e]]].listed
          /\ file_table[fd_table[x][e]] \in Objs
      BY <1>1, <2>1, <3>1, ConstantsAre DEF Good, FdsOK, OpenFilesTypeOK
    <3>3. file_table'[fd_table[x][e]] = file_table[fd_table[x][e]]
      BY <1>2, <1>9, <3>1, <3>2
    <3>4. file_table[fd_table[x][e]] # o
      BY <1>13, <3>1
    <3> QED
      BY <1>8, <3>2, <3>3, <3>4
  <2> QED
    BY <1>1, <2>1 DEF Good, FdsOK
<1>19. ListedOK'
  BY <1>1, <1>12 DEF Good, ListedOK
<1>a. Stays /\ ~Held(o)
  <2>1. Stays
    BY <1>1, <1>7, <1>10, <1>11, OutStays DEF OpenFilesTypeOK
  <2>2. ~Held(o)
    BY <1>1, <1>3, NoInodeIs DEF Held, UnlinkersOK, Spared
  <2> QED
    BY <2>1, <2>2
<1>20. CountsOK'
  <2>1. \A q \in Objs : q # o =>
            Users(fd_table, file_table', q) = Users(fd_table, file_table, q)
    <3>1. Unnamed(fd_table, s)
      BY <1>1, <1>2, FreeSlotUnnamed DEF Good
    <3>2. Fills(file_table', file_table, s, o)
      BY <1>2, <1>9 DEF Fills
    <3>3. fd_table \in Descriptors /\ file_table \in Table /\ file_table' \in Table
      BY <1>1, <1>9 DEF OpenFilesTypeOK, Descriptors, Table
    <3> QED
      BY <1>2, <1>3, <3>1, <3>2, <3>3, FillSlot
  <2>2. ASSUME NEW q \in Objs, inode'[q].listed, ~Held(q)'
        PROVE  inode'[q].i_open_cnts = Users(fd_table, file_table', q)
    <3>1. inode[q].i_open_cnts = Users(fd_table, file_table, q)
      <4>1. ~Held(q)
        BY <1>a, <2>2, StaysIs
      <4> QED
        BY <1>1, <2>2, <1>12, <4>1 DEF Good, CountsOK
    <3>2. q # o /\ inode'[q] = inode[q]
      BY <2>2, <1>12
    <3>3. Users(fd_table, file_table', q) = Users(fd_table, file_table, q)
      BY <2>1, <3>2
    <3> QED
      BY <3>1, <3>2, <3>3
  <2>3. fd_table' = fd_table
    BY <1>1
  <2> QED
    BY <2>2, <2>3 DEF CountsOK, Users, FdRefs, BareRefs
<1>21. UnlinkersOK'
  <2>1. ASSUME NEW q \in Procs PROVE Spared(q)'
    <3>1. /\ Spared(q)
          /\ Deletes(q)' => Deletes(q) /\ pc'[q].no = pc[q].no
          /\ Releases(q)' => Releases(q) /\ pc'[q].obj = pc[q].obj
      BY <1>1, <1>a, StaysIs DEF Keeps, UnlinkersOK
    <3>2. ASSUME Deletes(q), NEW r \in Slots, file_table'[r] # None
          PROVE  inode'[file_table'[r]].no # pc[q].no
      <4>1. pc[q].no \in inode_bitmap
        BY <3>1, <3>2 DEF Spared
      <4>2. CASE r = s
        BY <1>4, <1>6, <1>8, <1>9, <4>1, <4>2
      <4>3. CASE r # s
        <5>1. file_table'[r] = file_table[r] /\ file_table[r] \in Objs /\ file_table[r] # o
          BY <1>1, <1>9, <1>13, <3>2, <4>3, ConstantsAre DEF OpenFilesTypeOK
        <5>2. inode'[file_table[r]] = inode[file_table[r]]
          BY <1>8, <5>1
        <5> QED
          BY <3>1, <3>2, <5>1, <5>2 DEF Spared
      <4> QED
        BY <4>2, <4>3
    <3>3. ASSUME Releases(q)
          PROVE  /\ inode'[pc[q].obj] = inode[pc[q].obj]
                 /\ \A r \in Slots : file_table'[r] # pc[q].obj
      <4>1. pc[q].obj \in Objs /\ pc[q].obj # o
        BY <1>1, <1>a, <3>3 DEF Held, Releases, OpenFilesTypeOK, CallOK
      <4>2. \A r \in Slots : file_table[r] # pc[q].obj
        BY <3>1, <3>3 DEF Spared
      <4> QED
        BY <1>8, <1>9, <4>1, <4>2
    <3>4. inode_bitmap \subseteq inode_bitmap' /\ dir' = dir
      BY <1>1
    <3> QED
      BY <3>1, <3>2, <3>3, <3>4 DEF Spared
  <2> QED
    BY <1>1, <1>a, <2>1, StaysIs, UnlinkersKept
<1> QED
  BY <1>11, <1>14, <1>16, <1>17, <1>18, <1>19, <1>20, <1>21 DEF IInv, Good

LEMMA RollbackStep ==
  ASSUME IInv, NEW p \in Procs, file_create_rollback(p)
  PROVE  IInv'
<1> DEFINE s == pc[p].slot
           o == pc[p].obj
           n == pc[p].no
<1>1. /\ OpenFilesTypeOK /\ Good /\ UnlinkersOK /\ pc[p].at = "creating" /\ broken = "none"
      /\ file_table' = [file_table EXCEPT ![s] = None]
      /\ inode' = [inode EXCEPT ![o] = NoInode]
      /\ inode_bitmap' = inode_bitmap \ {n}
      /\ pc' = [pc EXCEPT ![p] = Out]
      /\ Broken("create", file_table[s] # o)
      /\ UNCHANGED <<dir, fd_table, live>>
  BY DEF IInv, file_create_rollback, Runs
<1>2. s \in Slots /\ o \in Objs /\ n \in Inodes /\ o # None /\ n # None /\ s # None
  BY <1>1, ConstantsAre DEF OpenFilesTypeOK, CallOK
<1>3. Creates(p)
  BY <1>1 DEF Creates
<1>4. /\ file_table[s] = o
      /\ \A r \in Slots : file_table[r] = o => r = s
      /\ inode[o].no = n /\ ~inode[o].listed
      /\ \A f \in Files : dir[f] # n
  BY <1>1, <1>3 DEF Good, CreatorsOK
<1>5. \A q \in Procs : Creates(q) /\ q # p => pc[q].obj # o /\ pc[q].no # n
  BY <1>1, <1>3 DEF Good, CreatorsOK
<1> HIDE DEF s, o, n
<1>6. /\ inode' \in [Objs -> InodeRec] /\ inode'[o] = NoInode
      /\ \A x \in Objs : x # o => inode'[x] = inode[x]
  BY <1>1, <1>2, NoInodeIs DEF OpenFilesTypeOK
<1>7. /\ file_table' \in Table /\ file_table'[s] = None
      /\ \A r \in Slots : r # s => file_table'[r] = file_table[r]
  BY <1>1, <1>2, ConstantsAre DEF OpenFilesTypeOK, Table
<1>8. pc'[p] = Out /\ \A q \in Procs : q # p => pc'[q] = pc[q]
  BY <1>1 DEF OpenFilesTypeOK
<1>9. OpenFilesTypeOK'
  <2>1. pc' \in [Procs -> Call] /\ \A q \in Procs : CallOK(pc'[q])
    BY <1>1, NoInodeIs, CallType
  <2> QED
    BY <1>1, <1>6, <1>7, <2>1 DEF OpenFilesTypeOK, Table, Broken
<1>10. \A x \in Objs : inode'[x].listed =>
          x # o /\ inode[x].listed /\ inode'[x] = inode[x]
  BY <1>6, NoInodeIs
<1>11. DirOK'
  BY <1>1, <1>4 DEF Good, DirOK
<1>12. ASSUME NEW q \in Procs, Creates(q)'
       PROVE  /\ q # p /\ Creates(q) /\ pc'[q] = pc[q] /\ pc[q].obj # o /\ pc[q].no # n
              /\ pc[q].obj \in Objs /\ pc[q].slot \in Slots
  <2>1. q # p
    BY <1>8, <1>12, NoInodeIs DEF Creates
  <2>2. Creates(q) /\ pc'[q] = pc[q]
    BY <1>8, <1>12, <2>1 DEF Creates
  <2>3. pc[q].obj \in Objs /\ pc[q].slot \in Slots
    BY <1>1, <2>2 DEF Creates, OpenFilesTypeOK, CallOK
  <2> QED
    BY <1>5, <2>1, <2>2, <2>3
<1>13. CreatorsOK'
  <2>1. ASSUME NEW q \in Procs, Creates(q)'
        PROVE  /\ file_table'[pc'[q].slot] = pc'[q].obj
               /\ \A r \in Slots : file_table'[r] = pc'[q].obj => r = pc'[q].slot
               /\ inode'[pc'[q].obj].no = pc'[q].no
               /\ ~inode'[pc'[q].obj].listed
               /\ pc'[q].at = "creating" => /\ pc'[q].no \in inode_bitmap'
                                            /\ \A g \in Files : dir'[g] # pc'[q].no
               /\ pc'[q].at = "created" => dir'[pc'[q].file] = pc'[q].no
    <3>1. /\ Creates(q) /\ pc'[q] = pc[q] /\ pc[q].obj # o /\ pc[q].no # n
          /\ pc[q].obj \in Objs /\ pc[q].slot \in Slots
      BY <1>12, <2>1
    <3>2. /\ file_table[pc[q].slot] = pc[q].obj
          /\ \A r \in Slots : file_table[r] = pc[q].obj => r = pc[q].slot
          /\ inode[pc[q].obj].no = pc[q].no
          /\ ~inode[pc[q].obj].listed
          /\ pc[q].at = "creating" => /\ pc[q].no \in inode_bitmap
                                      /\ \A g \in Files : dir[g] # pc[q].no
          /\ pc[q].at = "created" => dir[pc[q].file] = pc[q].no
      BY <1>1, <3>1 DEF Good, CreatorsOK
    <3>3. /\ pc[q].no \in inode_bitmap => pc[q].no \in inode_bitmap'
          /\ dir' = dir
      BY <1>1, <3>1
    <3>4. pc[q].slot # s /\ pc[q].obj # None
      BY <1>4, <3>1, <3>2, ConstantsAre
    <3> QED
      BY <1>6, <1>7, <3>1, <3>2, <3>3, <3>4
  <2>2. ASSUME NEW q \in Procs, NEW r \in Procs, Creates(q)', Creates(r)', q # r
        PROVE  pc'[q].obj # pc'[r].obj /\ pc'[q].no # pc'[r].no
    BY <1>1, <1>12, <2>2 DEF Good, CreatorsOK
  <2> QED
    BY <2>1, <2>2 DEF CreatorsOK
<1>14. SlotsOK'
  <2>1. ASSUME NEW r \in Slots, file_table'[r] # None
        PROVE  /\ inode'[file_table'[r]].no # None
               /\ inode'[file_table'[r]].listed => Exists(inode[file_table[r]].no)'
    <3>1. r # s /\ file_table'[r] = file_table[r]
      BY <2>1, <1>7
    <3>2. file_table[r] # o /\ file_table[r] \in Objs
      BY <1>1, <1>4, <2>1, <3>1, ConstantsAre DEF OpenFilesTypeOK
    <3>3. inode'[file_table'[r]] = inode[file_table[r]]
      BY <3>1, <3>2, <1>6
    <3>4. /\ inode[file_table[r]].no # None
          /\ inode[file_table[r]].listed => Exists(inode[file_table[r]].no)
      BY <1>1, <2>1, <3>1 DEF Good, SlotsOK
    <3>5. Exists(inode[file_table[r]].no) => inode[file_table[r]].no # n
      BY <1>4 DEF Exists
    <3> QED
      BY <1>1, <3>3, <3>4, <3>5 DEF Exists
  <2> QED
    BY <2>1 DEF SlotsOK
<1>15. Unnamed(fd_table, s)
  BY <1>1, <1>2, <1>4 DEF Good, FdsOK, Unnamed
<1>16. FdsOK'
  <2>1. ASSUME NEW x \in Procs, NEW e \in Fds, fd_table[x][e] # None
        PROVE  /\ file_table'[fd_table[x][e]] # None
               /\ inode'[file_table'[fd_table[x][e]]].listed
    <3>1. fd_table[x][e] \in Slots
      BY <1>1, <2>1, FdsAreSlots
    <3>2. /\ file_table[fd_table[x][e]] # None /\ inode[file_table[fd_table[x][e]]].listed
          /\ file_table[fd_table[x][e]] \in Objs
      BY <1>1, <2>1, <3>1, ConstantsAre DEF Good, FdsOK, OpenFilesTypeOK
    <3>3. file_table'[fd_table[x][e]] = file_table[fd_table[x][e]]
      BY <1>7, <1>15, <3>1 DEF Unnamed
    <3>4. file_table[fd_table[x][e]] # o
      BY <1>4, <3>2
    <3> QED
      BY <1>6, <3>2, <3>3, <3>4
  <2> QED
    BY <1>1, <2>1 DEF Good, FdsOK
<1>17. ListedOK'
  BY <1>1, <1>10 DEF Good, ListedOK
<1>a. Stays
  BY <1>1, <1>8, <1>9, OutStays, NoInodeIs DEF OpenFilesTypeOK
<1>18. CountsOK'
  <2>1. \A q \in Objs : q # o =>
            Users(fd_table, file_table, q) = Users(fd_table, file_table', q)
    <3>1. Fills(file_table, file_table', s, o)
      BY <1>4, <1>7 DEF Fills
    <3>2. fd_table \in Descriptors /\ file_table \in Table /\ file_table' \in Table
      BY <1>1, <1>7 DEF OpenFilesTypeOK, Descriptors, Table
    <3> QED
      BY <1>2, <1>15, <3>1, <3>2, FillSlot
  <2>2. ASSUME NEW q \in Objs, inode'[q].listed, ~Held(q)'
        PROVE  inode'[q].i_open_cnts = Users(fd_table, file_table', q)
    <3>1. inode[q].i_open_cnts = Users(fd_table, file_table, q)
      <4>1. ~Held(q)
        BY <1>a, <2>2, StaysIs
      <4> QED
        BY <1>1, <2>2, <1>10, <4>1 DEF Good, CountsOK
    <3>2. q # o /\ inode'[q] = inode[q]
      BY <2>2, <1>10
    <3>3. Users(fd_table, file_table', q) = Users(fd_table, file_table, q)
      BY <2>1, <3>2
    <3> QED
      BY <3>1, <3>2, <3>3
  <2>3. fd_table' = fd_table
    BY <1>1
  <2> QED
    BY <2>2, <2>3 DEF CountsOK, Users, FdRefs, BareRefs
<1>19. UnlinkersOK'
  <2>1. ASSUME NEW q \in Procs PROVE Spared(q)'
    <3>1. /\ Spared(q)
          /\ Deletes(q)' => Deletes(q) /\ pc'[q].no = pc[q].no
          /\ Releases(q)' => Releases(q) /\ pc'[q].obj = pc[q].obj
      BY <1>1, <1>a, StaysIs DEF Keeps, UnlinkersOK
    <3>2. ASSUME Deletes(q)
          PROVE  /\ pc[q].no \in inode_bitmap' /\ \A f \in Files : dir'[f] # pc[q].no
                 /\ \A r \in Slots : file_table'[r] # None =>
                       inode'[file_table'[r]].no # pc[q].no
      <4>1. /\ pc[q].no \in inode_bitmap /\ \A f \in Files : dir[f] # pc[q].no
            /\ \A r \in Slots : file_table[r] # None => inode[file_table[r]].no # pc[q].no
        BY <3>1, <3>2 DEF Spared
      <4>2. pc[q].no # n
        BY <1>2, <1>4, <4>1
      <4>3. ASSUME NEW r \in Slots, file_table'[r] # None
            PROVE  inode'[file_table'[r]].no # pc[q].no
        <5>1. r # s /\ file_table'[r] = file_table[r]
          BY <1>7, <4>3
        <5>2. file_table[r] # o /\ file_table[r] \in Objs
          BY <1>1, <1>4, <4>3, <5>1, ConstantsAre DEF OpenFilesTypeOK
        <5> QED
          BY <1>6, <4>1, <4>3, <5>1, <5>2
      <4> QED
        BY <1>1, <4>1, <4>2, <4>3
    <3>3. ASSUME Releases(q)
          PROVE  /\ inode'[pc[q].obj] = inode[pc[q].obj]
                 /\ \A r \in Slots : file_table'[r] # pc[q].obj
      <4>1. /\ inode[pc[q].obj].listed
            /\ \A r \in Slots : file_table[r] # pc[q].obj
        BY <3>1, <3>3 DEF Spared
      <4>2. pc[q].obj \in Objs /\ pc[q].obj # o /\ pc[q].obj # None
        BY <1>1, <1>4, <3>3, <4>1, ConstantsAre DEF Releases, OpenFilesTypeOK, CallOK
      <4> QED
        BY <1>6, <1>7, <4>1, <4>2
    <3> QED
      BY <3>1, <3>2, <3>3 DEF Spared
  <2> QED
    BY <1>1, <1>a, <2>1, StaysIs, UnlinkersKept
<1> QED
  BY <1>9, <1>11, <1>13, <1>14, <1>16, <1>17, <1>18, <1>19 DEF IInv, Good

LEMMA CreateEndStep ==
  ASSUME IInv, NEW p \in Procs, file_create_end(p)
  PROVE  IInv'
<1> DEFINE s == pc[p].slot
           o == pc[p].obj
           n == pc[p].no
<1>1. /\ OpenFilesTypeOK /\ Good /\ UnlinkersOK /\ pc[p].at = "created" /\ broken = "none" /\ p \in live
      /\ inode' = [inode EXCEPT ![o].listed = TRUE, ![o].i_open_cnts = 1]
      /\ Broken("create", Listed(n) # {} \/ n \notin inode_bitmap)
      /\ fd_table' = Installed(p, s)
      /\ pc' = [pc EXCEPT ![p] = Out]
      /\ UNCHANGED <<dir, inode_bitmap, file_table, live>>
  BY DEF IInv, file_create_end, Runs
<1>a. OpenFilesTypeOK /\ Good /\ UnlinkersOK /\ p \in live
      /\ UNCHANGED <<dir, inode_bitmap, file_table, live>>
  BY <1>1
<1>2. /\ s \in Slots /\ o \in Objs /\ n \in Inodes /\ o # None /\ n # None /\ s # None
      /\ pc[p].file \in Files
  BY <1>1, ConstantsAre DEF OpenFilesTypeOK, CallOK
<1>3. Creates(p)
  BY <1>1 DEF Creates
<1>4. /\ file_table[s] = o
      /\ \A r \in Slots : file_table[r] = o => r = s
      /\ inode[o].no = n /\ ~inode[o].listed
      /\ dir[pc[p].file] = n
  BY <1>1, <1>3 DEF Good, CreatorsOK
<1>5. \A q \in Procs : Creates(q) /\ q # p => pc[q].obj # o
  BY <1>1, <1>3 DEF Good, CreatorsOK
<1> HIDE DEF s, o, n
<1>6. Unnamed(fd_table, s)
  BY <1>1, <1>2, <1>4 DEF Good, FdsOK, Unnamed
<1>7. /\ inode' \in [Objs -> InodeRec]
      /\ inode'[o].listed /\ inode'[o].no = n /\ inode'[o].i_open_cnts = 1
      /\ \A x \in Objs : x # o => inode'[x] = inode[x]
  <2>1. inode \in [Objs -> InodeRec]
    BY <1>1 DEF OpenFilesTypeOK
  <2>2. /\ inode'[o] = [inode[o] EXCEPT !.listed = TRUE, !.i_open_cnts = 1]
        /\ \A x \in Objs : x # o => inode'[x] = inode[x]
    BY <1>1, <1>2, <2>1
  <2>3. inode' = [x \in Objs |-> inode'[x]]
    BY <1>1, <2>1
  <2>4. inode[o] \in InodeRec
    BY <1>2, <2>1
  <2>5. /\ inode'[o] \in InodeRec
        /\ inode'[o].listed /\ inode'[o].no = n /\ inode'[o].i_open_cnts = 1
    <3>1. PICK r : r = [inode[o] EXCEPT !.listed = TRUE]
      OBVIOUS
    <3>2. r \in InodeRec /\ r.listed = TRUE /\ r.no = inode[o].no
      BY <2>4, <3>1 DEF InodeRec
    <3>3. inode'[o] = [r EXCEPT !.i_open_cnts = 1]
      BY <2>2, <3>1, Zenon
    <3>4. /\ inode'[o] \in InodeRec /\ inode'[o].listed = TRUE /\ inode'[o].no = r.no
          /\ inode'[o].i_open_cnts = 1
      BY <3>2, <3>3 DEF InodeRec
    <3> QED
      BY <1>4, <3>2, <3>4
  <2>6. \A x \in Objs : inode'[x] \in InodeRec
    BY <2>1, <2>2, <2>5
  <2>7. inode' \in [Objs -> InodeRec]
    BY <2>3, <2>6, Zenon
  <2> QED
    BY <2>2, <2>5, <2>7, Zenon
<1>8. \/ fd_table' = fd_table
      \/ \E d \in Fds : /\ fd_table[p][d] = None
                        /\ fd_table' = [fd_table EXCEPT ![p][d] = s]
  BY <1>1, InstalledIs
<1>9. fd_table \in Descriptors /\ file_table \in Table
  BY <1>1 DEF OpenFilesTypeOK, Descriptors, Table
<1>10. /\ fd_table' \in Descriptors
       /\ \A x \in Procs, e \in Fds :
             fd_table'[x][e] = fd_table[x][e] \/ (x = p /\ fd_table'[x][e] = s)
  BY <1>2, <1>8, <1>9, ConstantsAre DEF Descriptors
<1>11. OpenFilesTypeOK'
  <2>1. pc' \in [Procs -> Call] /\ \A q \in Procs : CallOK(pc'[q])
    BY <1>1, NoInodeIs, CallType
  <2> QED
    BY <1>1, <1>7, <1>10, <2>1 DEF OpenFilesTypeOK, Descriptors, Broken
<1>b. Stays
  <2>1. pc'[p] = Out /\ \A q \in Procs : q # p => pc'[q] = pc[q]
    BY <1>1 DEF OpenFilesTypeOK
  <2> QED
    BY <1>1, <1>11, <2>1, OutStays, NoInodeIs DEF OpenFilesTypeOK
<1>12. ASSUME broken' = "none" PROVE Good' /\ UnlinkersOK'
  <2>1. Listed(n) = {} /\ n \in inode_bitmap
    BY <1>1, <1>12 DEF Broken
  <2>2. DirOK'
    BY <1>a DEF Good, DirOK
  <2>3. ASSUME NEW q \in Procs, Creates(q)'
        PROVE  Creates(q) /\ pc'[q] = pc[q] /\ pc[q].obj # o /\ pc[q].obj \in Objs
    <3>1. q # p
      BY <1>1, <2>3, NoInodeIs DEF Creates, OpenFilesTypeOK
    <3>2. Creates(q) /\ pc'[q] = pc[q]
      BY <1>1, <2>3, <3>1 DEF Creates, OpenFilesTypeOK
    <3>3. pc[q].obj \in Objs
      BY <1>a, <3>2 DEF Creates, OpenFilesTypeOK, CallOK
    <3> QED
      BY <1>5, <3>1, <3>2, <3>3
  <2>4. CreatorsOK'
    <3>1. ASSUME NEW q \in Procs, Creates(q)'
          PROVE  /\ file_table[pc'[q].slot] = pc'[q].obj
                 /\ \A r \in Slots : file_table[r] = pc'[q].obj => r = pc'[q].slot
                 /\ inode'[pc'[q].obj].no = pc'[q].no
                 /\ ~inode'[pc'[q].obj].listed
                 /\ pc'[q].at = "creating" => /\ pc'[q].no \in inode_bitmap
                                              /\ \A g \in Files : dir[g] # pc'[q].no
                 /\ pc'[q].at = "created" => dir[pc'[q].file] = pc'[q].no
      <4>1. Creates(q) /\ pc'[q] = pc[q] /\ inode'[pc[q].obj] = inode[pc[q].obj]
        BY <1>7, <2>3, <3>1
      <4> QED
        BY <1>a, <4>1 DEF Good, CreatorsOK
    <3>2. ASSUME NEW q \in Procs, NEW r \in Procs, Creates(q)', Creates(r)', q # r
          PROVE  pc'[q].obj # pc'[r].obj /\ pc'[q].no # pc'[r].no
      BY <1>a, <2>3, <3>2 DEF Good, CreatorsOK
    <3> QED
      BY <1>a, <3>1, <3>2 DEF CreatorsOK
  <2>5. SlotsOK'
    <3>1. ASSUME NEW r \in Slots, file_table[r] # None
          PROVE  /\ inode'[file_table[r]].no # None
                 /\ inode'[file_table[r]].listed => Exists(inode[file_table[r]].no)'
      <4>1. CASE file_table[r] = o
        <5>1. inode'[file_table[r]].no = n
          BY <4>1, <1>7
        <5> QED
          BY <1>a, <1>2, <1>4, <2>1, <5>1 DEF Exists
      <4>2. CASE file_table[r] # o
        <5>1. inode'[file_table[r]] = inode[file_table[r]]
          BY <1>a, <1>7, <3>1, <4>2, ConstantsAre DEF OpenFilesTypeOK
        <5>2. /\ inode[file_table[r]].no # None
              /\ inode[file_table[r]].listed => Exists(inode[file_table[r]].no)
          BY <1>a, <3>1 DEF Good, SlotsOK
        <5> QED
          BY <1>a, <5>1, <5>2 DEF Exists
      <4> QED
        BY <4>1, <4>2
    <3> QED
      BY <1>a, <3>1 DEF SlotsOK
  <2>6. FdsOK'
    <3>1. ASSUME NEW x \in Procs, NEW e \in Fds, fd_table'[x][e] # None
          PROVE  /\ file_table[fd_table'[x][e]] # None
                 /\ inode'[file_table[fd_table'[x][e]]].listed
      <4>1. CASE fd_table'[x][e] = s
        BY <4>1, <1>2, <1>4, <1>7
      <4>2. CASE fd_table'[x][e] # s
        <5>1. fd_table'[x][e] = fd_table[x][e]
          BY <4>2, <1>10
        <5>2. fd_table[x][e] \in Slots
          BY <1>a, <3>1, <5>1, FdsAreSlots
        <5>3. /\ file_table[fd_table[x][e]] # None
              /\ inode[file_table[fd_table[x][e]]].listed
              /\ file_table[fd_table[x][e]] \in Objs
          BY <1>a, <3>1, <5>1, <5>2, ConstantsAre DEF Good, FdsOK, OpenFilesTypeOK
        <5>4. file_table[fd_table[x][e]] # o
          BY <1>4, <5>3
        <5> QED
          BY <1>7, <5>1, <5>3, <5>4
      <4> QED
        BY <4>1, <4>2
    <3>2. ASSUME NEW x \in Procs \ live', NEW e \in Fds PROVE fd_table'[x][e] = None
      BY <1>a, <1>10 DEF Good, FdsOK
    <3> QED
      BY <1>a, <3>1, <3>2 DEF FdsOK
  <2>7. ListedOK'
    <3>1. \A x \in Objs : x # o /\ inode[x].listed => inode[x].no # n
      BY <2>1 DEF Listed
    <3> QED
      BY <1>a, <1>7, <3>1 DEF Good, ListedOK
  <2>8. Users(fd_table, file_table, o) = 1
    <3>1. FdRefs(fd_table, file_table, o) = {}
      <4>1. ASSUME NEW x \in Procs \X Fds, fd_table[x[1]][x[2]] # None
            PROVE  file_table[fd_table[x[1]][x[2]]] # o
        <5>1. x[1] \in Procs /\ x[2] \in Fds
          OBVIOUS
        <5>2. fd_table[x[1]][x[2]] \in Slots
          BY <1>a, <4>1, <5>1, FdsAreSlots
        <5> QED
          BY <1>4, <1>6, <5>1, <5>2 DEF Unnamed
      <4> QED
        BY <4>1 DEF FdRefs
    <3>2. BareRefs(fd_table, file_table, o) = {s}
      BY <1>2, <1>4, <1>6 DEF BareRefs, Unnamed
    <3> QED
      <4>1. Cardinality(FdRefs(fd_table, file_table, o)) = 0
        BY <3>1, FS_EmptySet
      <4>2. Cardinality(BareRefs(fd_table, file_table, o)) = 1
        BY <3>2, FS_Singleton
      <4> QED
        BY <4>1, <4>2 DEF Users
  <2>9. ASSUME NEW q \in Objs
        PROVE  Users(fd_table', file_table, q) = Users(fd_table, file_table, q)
    <3>1. CASE fd_table' = fd_table
      BY <3>1
    <3>2. ASSUME NEW d \in Fds, fd_table[p][d] = None,
                 fd_table' = [fd_table EXCEPT ![p][d] = s]
          PROVE  Users(fd_table', file_table, q) = Users(fd_table, file_table, q)
      <4>1. NamesToo(fd_table', fd_table, p, d, s)
        BY <1>9, <3>2 DEF NamesToo, Descriptors
      <4> QED
        BY <1>2, <1>6, <1>9, <3>2, <4>1, NameSlot
    <3> QED
      BY <1>8, <3>1, <3>2
  <2>10. CountsOK'
    <3>1. ASSUME NEW q \in Objs, inode'[q].listed, ~Held(q)'
          PROVE  inode'[q].i_open_cnts = Users(fd_table', file_table, q)
      <4>1. CASE q = o
        BY <4>1, <1>7, <2>8, <2>9
      <4>2. CASE q # o
        <5>1. inode'[q] = inode[q] /\ inode[q].listed /\ ~Held(q)
          BY <1>b, <3>1, <4>2, <1>7, StaysIs
        <5>2. inode[q].i_open_cnts = Users(fd_table, file_table, q)
          BY <1>a, <5>1 DEF Good, CountsOK
        <5> QED
          BY <5>1, <5>2, <2>9
      <4> QED
        BY <4>1, <4>2
    <3> QED
      BY <1>a, <3>1 DEF CountsOK, Users, FdRefs, BareRefs
  <2>11. UnlinkersOK'
    <3>1. ASSUME NEW q \in Procs PROVE Spared(q)'
      <4>1. /\ Spared(q)
            /\ Deletes(q)' => Deletes(q) /\ pc'[q].no = pc[q].no
            /\ Releases(q)' => Releases(q) /\ pc'[q].obj = pc[q].obj
        BY <1>a, <1>b, StaysIs DEF Keeps, UnlinkersOK
      <4>2. \A r \in Slots : file_table[r] # None =>
                inode'[file_table[r]].no = inode[file_table[r]].no
        BY <1>a, <1>4, <1>7, ConstantsAre DEF OpenFilesTypeOK
      <4>3. Releases(q) => inode'[pc[q].obj] = inode[pc[q].obj]
        <5>1. ASSUME Releases(q) PROVE pc[q].obj \in Objs /\ pc[q].obj # o
          BY <1>a, <1>4, <4>1, <5>1 DEF Spared, Releases, OpenFilesTypeOK, CallOK
        <5> QED
          BY <1>7, <5>1
      <4> QED
        BY <1>a, <4>1, <4>2, <4>3 DEF Spared
    <3> QED
      BY <1>a, <1>b, <3>1, StaysIs, UnlinkersKept
  <2> QED
    BY <2>2, <2>4, <2>5, <2>6, <2>7, <2>10, <2>11 DEF Good
<1> QED
  BY <1>11, <1>12 DEF IInv

-----------------------------------------------------------------------------
LEMMA InitIsGood == Init => IInv
<1> SUFFICES ASSUME Init PROVE IInv
  OBVIOUS
<1>1. OpenFilesTypeOK
  <2>1. inode \in [Objs -> InodeRec] /\ pc \in [Procs -> Call] /\ \A p \in Procs : CallOK(pc[p])
    BY NoInodeIs DEF Init
  <2>2. live \subseteq Procs
    BY OpenFilesAssumption DEF Init
  <2>3. dir \in [Files -> 0..NInodes] /\ inode_bitmap \subseteq Inodes
    BY OpenFilesAssumption, ConstantsAre DEF Init
  <2>4. /\ file_table \in [Slots -> 0..NObjs] /\ fd_table \in [Procs -> [Fds -> 0..NSlots]]
        /\ broken = "none"
    BY ConstantsAre DEF Init
  <2> QED
    BY <2>1, <2>2, <2>3, <2>4 DEF OpenFilesTypeOK
<1>2. \A p \in Procs : ~Creates(p) /\ ~Deletes(p) /\ ~Releases(p)
  BY NoInodeIs DEF Init, Creates, Deletes, Releases
<1>3. \A o \in Objs : ~inode[o].listed
  BY NoInodeIs DEF Init
<1>4. DirOK
  <2>1. \A f \in Files : dir[f] = OnDisk[f]
    BY DEF Init
  <2>2. \A f \in Files : dir[f] # None => dir[f] \in inode_bitmap
    BY DEF Init
  <2>3. \A f, g \in Files : dir[f] = dir[g] /\ dir[f] # None => f = g
    BY <2>1, OpenFilesAssumption DEF None
  <2> QED
    BY <2>2, <2>3 DEF DirOK
<1>5. CreatorsOK /\ SlotsOK /\ FdsOK /\ ListedOK /\ CountsOK
  BY <1>2, <1>3 DEF Init, CreatorsOK, SlotsOK, FdsOK, ListedOK, CountsOK
<1>6. UnlinkersOK
  BY <1>2 DEF UnlinkersOK, Spared
<1> QED
  BY <1>1, <1>4, <1>5, <1>6 DEF IInv, Good

(***************************************************************************)
(* The state of the open files has its type, and until a behaviour breaks  *)
(* the tables all parts of the invariant hold: every step of open, create, *)
(* close, unlink, fork and exit keeps them.                                *)
(***************************************************************************)
THEOREM Inductive == Spec => []IInv
<1>1. Init => IInv
  BY InitIsGood
<1>2. IInv /\ [Next]_vars => IInv'
  <2> SUFFICES ASSUME IInv, [Next]_vars PROVE IInv'
    OBVIOUS
  <2>1. ASSUME NEW p \in Procs, NEW f \in Files, NEW w \in BOOLEAN,
               file_open_hit(p, f, w) \/ file_open_miss(p, f, w)
        PROVE  IInv'
    BY <2>1, HitStep, MissStep
  <2>2. ASSUME NEW p \in Procs, NEW f \in Files, file_create(p, f) \/ sys_unlink(p, f)
        PROVE  IInv'
    BY <2>2, CreateStep, UnlinkStep
  <2>3. ASSUME NEW p \in Procs,
               \/ file_create_rollback(p) \/ file_open_end(p) \/ file_create_entry(p)
               \/ file_create_end(p) \/ sys_exit(p) \/ foreign(p)
        PROVE  IInv'
    BY <2>3, RollbackStep, OpenEndStep, EntryStep, CreateEndStep, ExitStep, ForeignStep
  <2>a. ASSUME NEW p \in Procs,
               \/ delete_dir_entry(p) \/ inode_release_walk(p) \/ inode_release_opened(p)
               \/ inode_release_number(p) \/ sys_unlink_end(p)
        PROVE  IInv'
    BY <2>a, DeleteEntryStep, WalkStep, OpenedStep, NumberStep, UnlinkEndStep
  <2>4. ASSUME NEW p \in Procs, no_slot(p) PROVE IInv'
    BY <2>4, StutterStep DEF no_slot
  <2>5. ASSUME NEW p \in Procs, NEW d \in Fds, sys_close(p, d) PROVE IInv'
    BY <2>5, CloseStep
  <2>6. ASSUME NEW p \in Procs, NEW c \in Procs, sys_fork(p, c) PROVE IInv'
    BY <2>6, ForkStep
  <2>7. CASE stopped
    BY <2>7, StutterStep DEF stopped
  <2>8. CASE UNCHANGED vars
    BY <2>8, StutterStep
  <2> QED
    BY <2>1, <2>2, <2>3, <2>a, <2>4, <2>5, <2>6, <2>7, <2>8 DEF Next
<1> QED
  BY <1>1, <1>2, PTL DEF Spec

(***************************************************************************)
(* For any number of processes, files and slots: until the tables are      *)
(* broken, a number has one inode on the list, and its i_open_cnts is the  *)
(* number of descriptors that lead to it and of slots that failed opens    *)
(* left, so inode_close frees it with its last user and not before.        *)
(***************************************************************************)
THEOREM OpenCountsHolds == Spec => []OpenCounts
<1>1. IInv => OpenCounts
  <2> DEFINE Holders(o) == {q \in Procs : Releases(q) /\ pc[q].obj = o}
  <2> SUFFICES ASSUME OpenFilesTypeOK, Good, UnlinkersOK
               PROVE  /\ \A no \in Inodes : Cardinality(Listed(no)) <= 1
                      /\ \A o \in Objs : inode[o].listed =>
                            inode[o].i_open_cnts =
                              Cardinality(UNION {Names(s) : s \in {s \in Slots : file_table[s] = o}})
                              + Cardinality({s \in {s \in Slots : file_table[s] = o} : Names(s) = {}})
                              + Cardinality(Holders(o))
    BY DEF IInv, OpenCounts
  <2>1. ASSUME NEW no \in Inodes PROVE Cardinality(Listed(no)) <= 1
    <3>1. CASE Listed(no) = {}
      BY <3>1, FS_EmptySet
    <3>2. CASE Listed(no) # {}
      <4>1. PICK o \in Listed(no) : TRUE
        BY <3>2
      <4>2. Listed(no) = {o}
        BY <4>1 DEF Listed, Good, ListedOK
      <4> QED
        BY <4>2, FS_Singleton
    <3> QED
      BY <3>1, <3>2
  <2>2. ASSUME NEW o \in Objs, inode[o].listed
        PROVE  inode[o].i_open_cnts =
                 Cardinality(UNION {Names(s) : s \in {s \in Slots : file_table[s] = o}})
                 + Cardinality({s \in {s \in Slots : file_table[s] = o} : Names(s) = {}})
                 + Cardinality(Holders(o))
    <3>1. UNION {Names(s) : s \in {s \in Slots : file_table[s] = o}}
            = FdRefs(fd_table, file_table, o)
      <4>1. ASSUME NEW x \in FdRefs(fd_table, file_table, o)
            PROVE  \E s \in Slots : file_table[s] = o /\ x \in Names(s)
        <5>1. /\ x \in Procs \X Fds /\ fd_table[x[1]][x[2]] # None
              /\ file_table[fd_table[x[1]][x[2]]] = o
          BY <4>1 DEF FdRefs
        <5>2. x[1] \in Procs /\ x[2] \in Fds
          BY <5>1
        <5>3. fd_table[x[1]][x[2]] \in Slots
          BY <5>1, <5>2, FdsAreSlots
        <5>4. x \in Names(fd_table[x[1]][x[2]])
          BY <5>1 DEF Names
        <5> QED
          BY <5>1, <5>3, <5>4
      <4>2. ASSUME NEW s \in Slots, file_table[s] = o, NEW x \in Names(s)
            PROVE  x \in FdRefs(fd_table, file_table, o)
        <5>1. x \in Procs \X Fds /\ fd_table[x[1]][x[2]] = s
          BY <4>2 DEF Names
        <5>2. s # None
          BY ConstantsAre
        <5> QED
          BY <4>2, <5>1, <5>2 DEF FdRefs
      <4> QED
        BY <4>1, <4>2
    <3>2. {s \in {s \in Slots : file_table[s] = o} : Names(s) = {}}
            = BareRefs(fd_table, file_table, o)
      <4>1. ASSUME NEW s \in Slots
            PROVE  Names(s) = {} <=> \A p \in Procs, d \in Fds : fd_table[p][d] # s
        <5>1. ASSUME NEW p \in Procs, NEW d \in Fds, fd_table[p][d] = s
              PROVE  <<p, d>> \in Names(s)
          BY <5>1 DEF Names
        <5>2. ASSUME NEW x \in Names(s)
              PROVE  x[1] \in Procs /\ x[2] \in Fds /\ fd_table[x[1]][x[2]] = s
          BY <5>2 DEF Names
        <5> QED
          BY <5>1, <5>2
      <4> QED
        BY <4>1 DEF BareRefs
    <3>3. inode[o].i_open_cnts = Users(fd_table, file_table, o) + Cardinality(Holders(o))
      <4>1. CASE ~Held(o)
        <5>1. Holders(o) = {}
          BY <4>1 DEF Held
        <5>2. Cardinality(Holders(o)) = 0
          BY <5>1, FS_EmptySet
        <5>3. inode[o].i_open_cnts = Users(fd_table, file_table, o)
          BY <2>2, <4>1 DEF Good, CountsOK
        <5> HIDE DEF Holders
        <5> QED
          BY <5>2, <5>3, UsersIs
      <4>2. CASE Held(o)
        <5>1. PICK q \in Procs : Releases(q) /\ pc[q].obj = o
          BY <4>2 DEF Held
        <5>2. inode[o].i_open_cnts = 1 /\ \A s \in Slots : file_table[s] # o
          BY <5>1 DEF UnlinkersOK, Spared
        <5>3. Holders(o) = {q}
          BY <5>1 DEF UnlinkersOK
        <5>4. Cardinality(Holders(o)) = 1
          BY <5>3, FS_Singleton
        <5>5. BareRefs(fd_table, file_table, o) = {}
          BY <5>2 DEF BareRefs
        <5>6. FdRefs(fd_table, file_table, o) = {}
          <6>1. ASSUME NEW x \in Procs \X Fds, fd_table[x[1]][x[2]] # None
                PROVE  file_table[fd_table[x[1]][x[2]]] # o
            <7>1. x[1] \in Procs /\ x[2] \in Fds
              OBVIOUS
            <7>2. fd_table[x[1]][x[2]] \in Slots
              BY <6>1, <7>1, FdsAreSlots
            <7> QED
              BY <5>2, <7>2
          <6> QED
            BY <6>1 DEF FdRefs
        <5>7. Users(fd_table, file_table, o) = 0
          BY <5>5, <5>6, FS_EmptySet DEF Users
        <5> HIDE DEF Holders
        <5> QED
          BY <5>2, <5>4, <5>7
      <4> QED
        BY <4>1, <4>2
    <3> HIDE DEF Holders
    <3> QED
      BY <3>1, <3>2, <3>3 DEF Users
  <2> QED
    BY <2>1, <2>2
<1> QED
  BY <1>1, Inductive, PTL

(***************************************************************************)
(* Until the tables are broken, a descriptor leads to an inode that is on  *)
(* the list and whose file has its name and its number: file_create gives  *)
(* the number of an open file to no other file.                            *)
(***************************************************************************)
THEOREM OpenFilesExistHolds == Spec => []OpenFilesExist
<1>1. IInv => OpenFilesExist
  <2> SUFFICES ASSUME OpenFilesTypeOK, Good, NEW p \in Procs, NEW d \in Fds,
                      fd_table[p][d] # None
               PROVE  LET o == file_table[fd_table[p][d]]
                      IN  /\ o # None /\ inode[o].listed
                          /\ inode[o].no \in inode_bitmap
                          /\ \E f \in Files : dir[f] = inode[o].no
    BY DEF IInv, OpenFilesExist
  <2>1. fd_table[p][d] \in Slots
    BY FdsAreSlots
  <2>2. file_table[fd_table[p][d]] # None /\ inode[file_table[fd_table[p][d]]].listed
    BY DEF Good, FdsOK
  <2>3. Exists(inode[file_table[fd_table[p][d]]].no)
    BY <2>1, <2>2 DEF Good, SlotsOK
  <2> QED
    BY <2>2, <2>3 DEF Exists
<1> QED
  BY <1>1, Inductive, PTL

-----------------------------------------------------------------------------
(***************************************************************************)
(* FileData.  What the assumptions on the constants say.                   *)
(***************************************************************************)
LEMMA DataConstants ==
  /\ BlockSize \in Nat /\ BlockSize > 0 /\ Direct \in Nat /\ Direct > 0
  /\ Indirect \in Nat /\ Indirect > 0 /\ NBlocks \in Nat /\ NBlocks > 0
  /\ MaxBlocks \in Nat /\ MaxBlocks = Direct + Indirect
  /\ 0 \in Lbas
  /\ \A f \in Regular : Counts[f] \subseteq Nat
  BY FileDataAssumption DEF MaxBlocks, Lbas

(***************************************************************************)
(* Sizes and blocks: byte i is in block i \div BlockSize.                  *)
(***************************************************************************)
LEMMA Division ==
  ASSUME NEW i \in Nat
  PROVE  /\ i \div BlockSize \in Nat /\ i % BlockSize \in 0..(BlockSize - 1)
         /\ i = BlockSize * (i \div BlockSize) + (i % BlockSize)
<1>1. PICK b \in Nat : b = BlockSize /\ b > 0
  BY DataConstants
<1>2. i % b \in 0..(b - 1)
  BY <1>1
<1>3. i = b * (i \div b) + (i % b)
  BY <1>1
<1>4. i \div b \in Nat
  BY <1>1
<1> QED
  BY <1>1, <1>2, <1>3, <1>4

LEMMA DivisionOnce ==
  ASSUME NEW q \in Int, NEW r \in 0..(BlockSize - 1), NEW i \in Nat,
         i = BlockSize * q + r
  PROVE  i \div BlockSize = q /\ i % BlockSize = r
  BY DataConstants

LEMMA DivisionGrows ==
  ASSUME NEW i \in Nat, NEW j \in Nat, i <= j
  PROVE  i \div BlockSize <= j \div BlockSize
  BY Division, DataConstants

LEMMA DivisionBound ==
  ASSUME NEW i \in Nat, NEW n \in Nat, i < BlockSize * n
  PROVE  i \div BlockSize < n
  BY Division, DataConstants

\* A byte of the block that holds byte s, at or after s, and one before it.
LEMMA SameBlock ==
  ASSUME NEW s \in Nat, NEW k \in Nat, (s % BlockSize) + k < BlockSize
  PROVE  /\ (s + k) \div BlockSize = s \div BlockSize
         /\ (s + k) % BlockSize = (s % BlockSize) + k
<1>1. PICK q \in Nat : q = s \div BlockSize
  BY Division
<1>2. PICK r \in Nat : r = s % BlockSize
  BY Division
<1>3. PICK b \in Nat : b = BlockSize /\ b > 0
  BY DataConstants
<1>4. s = b * q + r
  BY <1>1, <1>2, <1>3, Division
<1>5. /\ s + k \in Nat /\ s + k = b * q + (r + k) /\ q \in Int
      /\ r + k \in 0..(b - 1)
  BY <1>2, <1>3, <1>4
<1>6. PICK i \in Nat : i = s + k
  BY <1>5
<1>7. PICK x \in 0..(BlockSize - 1) : x = r + k
  BY <1>3, <1>5
<1>8. i = BlockSize * q + x
  BY <1>3, <1>5, <1>6, <1>7
<1>9. i \div BlockSize = q /\ i % BlockSize = x
  BY <1>8, DivisionOnce
<1> QED
  BY <1>1, <1>2, <1>6, <1>7, <1>9

LEMMA BeforeInBlock ==
  ASSUME NEW s \in Nat, NEW i \in Nat, i < s, i \div BlockSize = s \div BlockSize
  PROVE  i % BlockSize < s % BlockSize
  BY Division, DataConstants

LEMMA ToTheEnd ==
  ASSUME NEW s \in Nat, NEW n \in Nat, (s % BlockSize) + n = BlockSize
  PROVE  (s + n) % BlockSize = 0 /\ (s + n) \div BlockSize = s \div BlockSize + 1
<1>1. PICK q \in Nat : q = s \div BlockSize
  BY Division
<1>2. PICK r \in Nat : r = s % BlockSize
  BY Division
<1>3. PICK b \in Nat : b = BlockSize /\ b > 0
  BY DataConstants
<1>4. s = b * q + r /\ r + n = b
  BY <1>1, <1>2, <1>3, Division
<1>5. s + n = b * (q + 1) + 0
  BY <1>4
<1>6. PICK i \in Nat : i = s + n
  OBVIOUS
<1>7. PICK q1 \in Int : q1 = q + 1
  OBVIOUS
<1>8. PICK z \in 0..(BlockSize - 1) : z = 0
  BY <1>3
<1>9. i = BlockSize * q1 + z
  BY <1>3, <1>5, <1>6, <1>7, <1>8
<1>10. i \div BlockSize = q1 /\ i % BlockSize = z
  BY <1>9, DivisionOnce
<1> QED
  BY <1>1, <1>6, <1>7, <1>8, <1>10

-----------------------------------------------------------------------------
(***************************************************************************)
(* block_bitmap_alloc finds different blocks that are free.                *)
(***************************************************************************)
LEMMA LeastIs ==
  ASSUME NEW S \in SUBSET Nat, S # {}
  PROVE  \E x \in S : \A y \in S : x <= y
<1>1. PICK x \in S : \A y \in S : ~(<<y, x>> \in OpToRel(<, Nat))
  BY NatLessThanWellFounded, WFMin, Zenon
<1>2. ASSUME NEW y \in S PROVE x <= y
  <2>1. ~(y < x)
    BY <1>1 DEF OpToRel
  <2> QED
    BY <2>1
<1> QED
  BY <1>2

Below(S, b) == {c \in S : c < b}

LEMMA KthElement ==
  ASSUME NEW S \in SUBSET Nat, IsFiniteSet(S), NEW k \in Nat, k < Cardinality(S)
  PROVE  \E b \in S : Cardinality(Below(S, b)) = k
<1>0. PICK N \in Nat : N = Cardinality(S)
  BY FS_CardinalityType
<1> DEFINE Bad == {j \in Nat : j < N /\ ~\E b \in S : Cardinality(Below(S, b)) = j}
<1>1. SUFFICES ASSUME Bad # {} PROVE FALSE
  BY <1>0
<1>2. PICK j \in Bad : \A y \in Bad : j <= y
  <2>1. Bad \in SUBSET Nat
    OBVIOUS
  <2> HIDE DEF Bad
  <2> QED
    BY <1>1, <2>1, LeastIs
<1>3. j \in Nat /\ j < N /\ ~\E b \in S : Cardinality(Below(S, b)) = j
  OBVIOUS
<1>4. CASE j = 0
  <2>1. S # {}
    BY <1>0, <1>3, <1>4, FS_EmptySet
  <2>2. PICK b \in S : \A y \in S : b <= y
    BY <2>1, LeastIs
  <2>3. Below(S, b) = {}
    <3> SUFFICES ASSUME NEW c \in S, c < b PROVE FALSE
      BY DEF Below
    <3> QED
      BY <2>2
  <2>4. Cardinality(Below(S, b)) = 0
    BY <2>3, FS_EmptySet
  <2> QED
    BY <1>3, <1>4, <2>4
<1>5. CASE j # 0
  <2>1. PICK b \in S : Cardinality(Below(S, b)) = j - 1
    <3>1. j - 1 \in Nat /\ j - 1 < N /\ ~(j <= j - 1)
      BY <1>3, <1>5
    <3>2. j - 1 \notin Bad
      BY <1>2, <3>1
    <3> QED
      BY <3>1, <3>2
  <2>2. PICK L : L = Below(S, b) \cup {b}
    OBVIOUS
  <2>3. L \in SUBSET S /\ b \notin Below(S, b) /\ Below(S, b) \in SUBSET S
    BY <2>2 DEF Below
  <2>4. IsFiniteSet(Below(S, b))
    BY <2>3, FS_Subset
  <2>5. IsFiniteSet(L) /\ Cardinality(L) = Cardinality(Below(S, b)) + 1
    BY <2>2, <2>3, <2>4, FS_AddElement
  <2>6. Cardinality(L) = j
    BY <1>3, <2>1, <2>5
  <2>7. S \ L # {}
    <3> SUFFICES ASSUME S \ L = {} PROVE FALSE
      OBVIOUS
    <3>1. S = L
      BY <2>3
    <3> QED
      BY <1>0, <1>3, <2>6, <3>1
  <2>8. PICK d \in S \ L : \A y \in S \ L : d <= y
    <3>1. S \ L \in SUBSET Nat
      OBVIOUS
    <3> QED
      BY <2>7, <3>1, LeastIs
  <2>9. Below(S, d) = L
    <3>1. ASSUME NEW c \in S PROVE c \in L <=> c < b \/ c = b
      BY <2>2 DEF Below
    <3>2. d > b
      BY <2>8, <3>1
    <3>3. ASSUME NEW c \in S PROVE c < d <=> c \in L
      BY <2>8, <3>1, <3>2
    <3> QED
      BY <2>3, <3>3 DEF Below
  <2> QED
    BY <1>3, <2>6, <2>8, <2>9
<1> QED
  BY <1>4, <1>5

LEMMA TakenIs ==
  ASSUME NEW n \in Nat, n <= Cardinality(Free), NEW fresh, fresh = Taken(n)
  PROVE  /\ \A k \in 1..n : /\ fresh[k] \in Lbas /\ fresh[k] # 0
                            /\ fresh[k] - 1 \in Free
         /\ \A j, k \in 1..n : fresh[j] = fresh[k] => j = k
<1>1. Free \in SUBSET (0..(NBlocks - 1)) /\ Free \in SUBSET Nat
  BY DataConstants DEF Free
<1>2. IsFiniteSet(0..(NBlocks - 1))
  BY DataConstants, FS_Interval
<1>3. IsFiniteSet(Free) /\ Cardinality(Free) \in Nat
  BY <1>1, <1>2, FS_Subset, FS_CardinalityType
<1> DEFINE Kth(k) == CHOOSE b \in Free : Cardinality({c \in Free : c < b}) = k - 1
<1>4. ASSUME NEW k \in 1..n
      PROVE  Kth(k) \in Free /\ Cardinality(Below(Free, Kth(k))) = k - 1
  <2>1. k - 1 \in Nat /\ k - 1 < Cardinality(Free)
    BY <1>3
  <2>2. \E b \in Free : Cardinality(Below(Free, b)) = k - 1
    BY <1>1, <1>3, <2>1, KthElement
  <2> QED
    BY <2>2 DEF Below
<1>5. \A k \in 1..n : fresh[k] = 1 + Kth(k)
  BY DEF Taken
<1> HIDE DEF Kth
<1>6. ASSUME NEW k \in 1..n
      PROVE  fresh[k] \in Lbas /\ fresh[k] # 0 /\ fresh[k] - 1 = Kth(k)
  <2>1. Kth(k) \in 0..(NBlocks - 1)
    BY <1>1, <1>4
  <2> QED
    BY <1>5, <2>1, DataConstants DEF Lbas
<1>7. ASSUME NEW j \in 1..n, NEW k \in 1..n, fresh[j] = fresh[k] PROVE j = k
  <2>1. Kth(j) = Kth(k)
    BY <1>6, <1>7
  <2>2. j - 1 = k - 1
    BY <1>4, <2>1
  <2> QED
    BY <2>2
<1> QED
  BY <1>4, <1>6, <1>7

(***************************************************************************)
(* bitmap_sync keeps what is marked in memory and on disk, and writes the  *)
(* bits it is called for.                                                  *)
(***************************************************************************)
LEMMA SyncIs ==
  ASSUME NEW d, NEW m, NEW bits, NEW r, r = bitmap_sync(d, m, bits)
  PROVE  /\ r \subseteq d \cup m
         /\ \A b \in d : b \in m => b \in r
         /\ \A b \in bits : b \in 0..(NBlocks - 1) /\ b \in m => b \in r
  BY DEF bitmap_sync

-----------------------------------------------------------------------------
(***************************************************************************)
(* The ranges of the state.                                                *)
(***************************************************************************)
Sectors == [0..Direct -> Lbas]
Inode   == [i_size : Nat, i_sectors : Sectors]
IndirectTable   == [0..(Indirect - 1) -> Lbas]
Byte    == {Zero} \cup (Regular \X Nat)
DataCall    == [at : {"out", "chunk", "sync", "synced", "release"}, left : Nat,
            blocks : [0..(MaxBlocks - 1) -> Lbas], count : Int,
            buf : {<< >>} \cup [Regular -> Inode]]

DataTypeOK ==
    /\ minode \in [Regular -> Inode] /\ dinode \in [Regular -> Inode]
    /\ entry \subseteq Regular /\ crossed \subseteq Regular
    /\ block_bitmap \subseteq 0..(NBlocks - 1) /\ disk_bitmap \subseteq 0..(NBlocks - 1)
    /\ data \in [Lbas -> [Off -> Byte]] /\ table \in [Lbas -> IndirectTable]
    /\ call \in [Regular -> DataCall] /\ acked \in [Regular -> Nat]
    /\ lost \in {"none", "panic", "raced", "torn", "unmarked"}

(***************************************************************************)
(* The blocks of an inode, with t as the indirect tables on disk: as many  *)
(* as its size, with what a write is still to add, needs; the block after  *)
(* the last byte is there already.                                         *)
(***************************************************************************)
Entries(t, ino) ==
    IF ino.i_sectors[Direct] = 0 THEN {}
    ELSE {t[ino.i_sectors[Direct]][i] : i \in 0..(Indirect - 1)}

Own(t, ino) == ({ino.i_sectors[i] : i \in 0..Direct} \cup Entries(t, ino)) \ {0}

Has(ino, left) == IF ino.i_sectors[0] = 0 THEN 0 ELSE UsedBlocks(ino.i_size + left)

ShapeOK(ino, left) ==
    /\ ino.i_sectors[0] = 0 => ino.i_size + left = 0
    /\ ino.i_size + left < BlockSize * MaxBlocks
    /\ \A i \in 0..(Direct - 1) : ino.i_sectors[i] # 0 <=> i < Has(ino, left)
    /\ ino.i_sectors[Direct] # 0 <=> Has(ino, left) > Direct

LEMMA UsedIs ==
  ASSUME NEW s \in Nat
  PROVE  /\ UsedBlocks(s) \in Nat /\ UsedBlocks(s) >= 1
         /\ s = 0 => UsedBlocks(s) = 1
         /\ s < BlockSize * MaxBlocks => UsedBlocks(s) <= MaxBlocks
         /\ \A k \in Nat : UsedBlocks(s) <= UsedBlocks(s + k)
<1>1. s \div BlockSize \in Nat
  BY Division
<1>2. s < BlockSize * MaxBlocks => s \div BlockSize < MaxBlocks
  BY DivisionBound, DataConstants
<1>3. ASSUME NEW k \in Nat PROVE s \div BlockSize <= (s + k) \div BlockSize
  BY DivisionGrows
<1>4. \A k \in Nat : (s + k) \div BlockSize \in Nat
  BY Division
<1>5. s = 0 => s \div BlockSize = 0
  BY Division, DataConstants
<1> QED
  BY <1>1, <1>2, <1>3, <1>4, <1>5, DataConstants DEF UsedBlocks

(***************************************************************************)
(* What Grown returns: the old blocks stay, the new ones are different     *)
(* fresh ones, F; what all_blocks has is 0 or a block of the file.         *)
(***************************************************************************)
Crosses(ino, g) == ino.i_sectors[Direct] = 0 /\ g.sectors[Direct] # 0

Grows(ino, n, g, F) ==
    /\ g.sectors \in Sectors /\ g.blocks \in [0..(MaxBlocks - 1) -> Lbas]
    /\ \A i \in 0..Direct : ino.i_sectors[i] # 0 => g.sectors[i] = ino.i_sectors[i]
    /\ \A i \in 0..Direct : ino.i_sectors[i] = 0 => g.sectors[i] \in F \cup {0}
    /\ ShapeOK([ino EXCEPT !.i_sectors = g.sectors], n)
    /\ \A i, j \in 0..(Direct - 1) :
          /\ ino.i_sectors[i] = 0 /\ ino.i_sectors[j] = 0
          /\ g.sectors[i] = g.sectors[j] /\ g.sectors[i] # 0
          => i = j

GrowsTable(ino, g, F) ==
    Crosses(ino, g) =>
        /\ g.table \in IndirectTable
        /\ \A i \in 0..(Indirect - 1) : g.table[i] \in F \cup {0}

GrowsBlocks(ino, n, g) ==
    /\ \A i \in 0..(MaxBlocks - 1) :
          \/ g.blocks[i] = 0
          \/ \E j \in 0..Direct : g.blocks[i] = g.sectors[j]
          \/ /\ g.sectors[Direct] # 0
             /\ \E j \in 0..(Indirect - 1) :
                   g.blocks[i] = IF Crosses(ino, g) THEN g.table[j]
                                 ELSE table[g.sectors[Direct]][j]
    /\ g.sectors[Direct] = 0 =>
          \A i \in (ino.i_size \div BlockSize)..(Direct - 1) :
              i < UsedBlocks(ino.i_size + n) => g.blocks[i] = g.sectors[i]

Given(fresh, m) == {fresh[k] : k \in 1..m}

FreshOK(fresh, m) ==
    /\ \A k \in 1..m : fresh[k] \in Lbas /\ fresh[k] # 0
    /\ \A j, k \in 1..m : fresh[j] = fresh[k] => j = k

\* Growth within the indirect table is more than a partition has to give.
LEMMA NeededIs ==
  ASSUME NEW ino \in Inode, NEW n \in Nat, ShapeOK(ino, 0),
         Needed(ino, n) <= NBlocks,
         NEW has, has = UsedBlocks(ino.i_size),
         NEW will, will = UsedBlocks(ino.i_size + n),
         NEW first, first = IF ino.i_sectors[0] = 0 THEN 1 ELSE 0
  PROVE  /\ has \in Nat /\ will \in Nat /\ first \in 0..1 /\ has >= 1 /\ has <= will
         /\ first = 1 => has = 1
         /\ Needed(ino, n) \in Nat
         /\ has > Direct => /\ will = has /\ first = 0 /\ Needed(ino, n) = 0
                            /\ ino.i_sectors[Direct] # 0
         /\ has <= Direct => ino.i_sectors[Direct] = 0
         /\ has <= Direct /\ will <= Direct => Needed(ino, n) = first + (will - has)
         /\ has <= Direct /\ will > Direct => Needed(ino, n) = (first + 1) + (will - has)
<1>1. ino.i_size \in Nat /\ ino.i_size + n \in Nat
  BY DEF Inode
<1>2. has \in Nat /\ will \in Nat /\ has >= 1 /\ has <= will
  BY <1>1, UsedIs
<1>3. first = 1 => has = 1
  <2> SUFFICES ASSUME ino.i_sectors[0] = 0 PROVE has = 1
    OBVIOUS
  <2>1. ino.i_size = 0
    BY <1>1 DEF ShapeOK
  <2> QED
    BY <1>1, <2>1, UsedIs
<1>4. ino.i_sectors[Direct] # 0 <=> has > Direct
  <2>1. ino.i_sectors[Direct] # 0 <=> Has(ino, 0) > Direct
    BY DEF ShapeOK
  <2>2. ino.i_size + 0 = ino.i_size
    BY <1>1
  <2>3. Has(ino, 0) = IF ino.i_sectors[0] = 0 THEN 0 ELSE has
    BY <2>2 DEF Has
  <2> QED
    BY <1>2, <1>3, <2>1, <2>3, DataConstants
<1>5. Needed(ino, n) = first + (IF has <= Direct /\ will > Direct THEN 1 ELSE 0)
                        + (IF has > Direct /\ will > has THEN NBlocks + 1 ELSE will - has)
  BY DEF Needed
<1>6. first \in 0..1
  OBVIOUS
<1> HIDE DEF Needed
<1> QED
  BY <1>2, <1>3, <1>4, <1>5, <1>6, DataConstants

\* The sizes and blocks of one growth, by name
Growth(ino, n, has, will, first, one) ==
    /\ has = UsedBlocks(ino.i_size) /\ will = UsedBlocks(ino.i_size + n)
    /\ first = IF ino.i_sectors[0] = 0 THEN 1 ELSE 0
    /\ one = IF has <= Direct /\ will > Direct THEN 1 ELSE 0

\* Where every block of Grown comes from
GrownParts(ino, has, will, first, one, fresh, g) ==
    /\ g.sectors = [i \in 0..Direct |-> g.sectors[i]]
    /\ g.table = [i \in 0..(Indirect - 1) |-> g.table[i]]
    /\ g.blocks = [i \in 0..(MaxBlocks - 1) |-> g.blocks[i]]
    /\ g.sectors[Direct] = IF one = 1 THEN fresh[first + 1] ELSE ino.i_sectors[Direct]
    /\ \A i \in 0..(Direct - 1) : g.sectors[i] =
          IF i \in has..(will - 1) THEN fresh[first + one + i - has + 1]
          ELSE IF first = 1 /\ i = 0 THEN fresh[1] ELSE ino.i_sectors[i]
    /\ \A i \in 0..(Indirect - 1) : g.table[i] =
          IF one = 1
          THEN IF Direct + i < will THEN fresh[first + one + (Direct + i) - has + 1] ELSE 0
          ELSE table[ino.i_sectors[Direct]][i]
    /\ \A i \in 0..(MaxBlocks - 1) : g.blocks[i] =
          IF i \in has..(will - 1) THEN fresh[first + one + i - has + 1]
          ELSE IF i = has - 1 /\ will <= Direct
            THEN IF first = 1 /\ i = 0 THEN fresh[1] ELSE ino.i_sectors[i]
          ELSE IF i >= Direct /\ has > Direct THEN g.table[i - Direct] ELSE 0

LEMMA GrownIsParts ==
  ASSUME NEW ino, NEW n, NEW fresh, NEW has, NEW will, NEW first, NEW one,
         has \in Nat, will \in Nat, has <= will, has > Direct => will = has,
         Growth(ino, n, has, will, first, one), NEW g, g = Grown(ino, n, fresh)
  PROVE  GrownParts(ino, has, will, first, one, fresh, g)
<1>1. g.sectors = [i \in 0..Direct |->
     IF i = Direct
       THEN IF has <= Direct /\ will > Direct THEN fresh[first + one]
            ELSE ino.i_sectors[Direct]
     ELSE IF i \in has..(will - 1) THEN fresh[first + one + i - has + 1]
     ELSE IF first = 1 /\ i = 0 THEN fresh[1] ELSE ino.i_sectors[i]]
  BY DEF Grown, Growth
<1>2. g.table = [i \in 0..(Indirect - 1) |->
     IF has <= Direct /\ will > Direct
       THEN IF Direct + i < will THEN fresh[first + one + (Direct + i) - has + 1] ELSE 0
     ELSE table[IF has <= Direct /\ will > Direct THEN fresh[first + one]
                ELSE ino.i_sectors[Direct]][i]]
  BY DEF Grown, Growth
<1>3. g.blocks = [i \in 0..(MaxBlocks - 1) |->
     CASE i \in has..(will - 1) -> fresh[first + one + i - has + 1]
       [] i = has - 1 /\ will <= Direct -> 
            IF first = 1 /\ i = 0 THEN fresh[1] ELSE ino.i_sectors[i]
       [] i >= Direct /\ has > Direct -> g.table[i - Direct]
       [] OTHER -> 0]
  BY DEF Grown, Growth
<1>4. Direct \in Nat /\ Indirect \in Nat /\ (one = 1 <=> has <= Direct /\ will > Direct)
  BY DataConstants DEF Growth
<1>5. ASSUME NEW G, g = G PROVE GrownParts(ino, has, will, first, one, fresh, G)
  <2>1. /\ G.sectors = [i \in 0..Direct |-> G.sectors[i]]
        /\ G.table = [i \in 0..(Indirect - 1) |-> G.table[i]]
        /\ G.blocks = [i \in 0..(MaxBlocks - 1) |-> G.blocks[i]]
    BY <1>1, <1>2, <1>3, <1>5
  <2>2. G.sectors[Direct] = IF one = 1 THEN fresh[first + 1] ELSE ino.i_sectors[Direct]
    BY <1>1, <1>4, <1>5
  <2>3. ASSUME NEW i \in 0..(Direct - 1)
        PROVE  G.sectors[i] = IF i \in has..(will - 1) THEN fresh[first + one + i - has + 1]
                              ELSE IF first = 1 /\ i = 0 THEN fresh[1] ELSE ino.i_sectors[i]
    BY <1>1, <1>4, <1>5
  <2>4. ASSUME NEW i \in 0..(Indirect - 1)
        PROVE  G.table[i] =
                 IF one = 1
                 THEN IF Direct + i < will
                      THEN fresh[first + one + (Direct + i) - has + 1] ELSE 0
                 ELSE table[ino.i_sectors[Direct]][i]
    BY <1>2, <1>4, <1>5
  <2>5. ASSUME NEW i \in 0..(MaxBlocks - 1)
        PROVE  G.blocks[i] =
                 IF i \in has..(will - 1) THEN fresh[first + one + i - has + 1]
                 ELSE IF i = has - 1 /\ will <= Direct
                   THEN IF first = 1 /\ i = 0 THEN fresh[1] ELSE ino.i_sectors[i]
                 ELSE IF i >= Direct /\ has > Direct THEN G.table[i - Direct] ELSE 0
    <3>1. G.blocks[i] =
            CASE i \in has..(will - 1) -> fresh[first + one + i - has + 1]
              [] i = has - 1 /\ will <= Direct ->
                   IF first = 1 /\ i = 0 THEN fresh[1] ELSE ino.i_sectors[i]
              [] i >= Direct /\ has > Direct -> G.table[i - Direct]
              [] OTHER -> 0
      BY <1>3, <1>5
    <3>2. i \in Nat
      BY DataConstants
    <3>3. CASE i \in has..(will - 1)
      <4>1. ~(i = has - 1 /\ will <= Direct) /\ ~(i >= Direct /\ has > Direct)
        BY <1>4, <3>2, <3>3
      <4> QED
        BY <3>1, <3>3, <4>1
    <3>4. CASE i \notin has..(will - 1)
      <4>1. ~(will <= Direct /\ has > Direct)
        BY <1>4
      <4> QED
        BY <3>1, <3>4, <4>1
    <3> QED
      BY <3>3, <3>4
  <2> QED
    BY <2>1, <2>2, <2>3, <2>4, <2>5 DEF GrownParts
<1> QED
  BY <1>5

LEMMA GrowthIs ==
  ASSUME NEW ino \in Inode, NEW n \in Nat, ShapeOK(ino, 0),
         ino.i_size + n < BlockSize * MaxBlocks, Needed(ino, n) <= NBlocks,
         NEW has, NEW will, NEW first, NEW one, Growth(ino, n, has, will, first, one)
  PROVE  /\ has \in Nat /\ will \in Nat /\ first \in 0..1 /\ has >= 1 /\ has <= will
         /\ will <= MaxBlocks /\ has = ino.i_size \div BlockSize + 1
         /\ one \in 0..1 /\ (one = 1 <=> has <= Direct /\ will > Direct)
         /\ first = 1 => has = 1
         /\ first = 1 <=> ino.i_sectors[0] = 0
         /\ Needed(ino, n) \in Nat
         /\ has > Direct => /\ will = has /\ first = 0 /\ Needed(ino, n) = 0
                            /\ ino.i_sectors[Direct] # 0
         /\ has <= Direct => /\ ino.i_sectors[Direct] = 0
                             /\ Needed(ino, n) = (first + one) + (will - has)
         /\ \A i \in 0..(Direct - 1) :
               ino.i_sectors[i] # 0 <=> i < (IF first = 1 THEN 0 ELSE has)
<1>1. ino.i_size \in Nat /\ ino.i_size + n \in Nat /\ ino.i_size + 0 = ino.i_size
  BY DEF Inode
<1>2. will <= MaxBlocks
  BY <1>1, UsedIs DEF Growth
<1>3. has = ino.i_size \div BlockSize + 1
  BY DEF Growth, UsedBlocks
<1>4. Has(ino, 0) = IF first = 1 THEN 0 ELSE has
  BY <1>1 DEF Growth, Has
<1>5. \A i \in 0..(Direct - 1) : ino.i_sectors[i] # 0 <=> i < Has(ino, 0)
  BY DEF ShapeOK
<1>6. has = UsedBlocks(ino.i_size) /\ will = UsedBlocks(ino.i_size + n)
  BY DEF Growth
<1>7. first = IF ino.i_sectors[0] = 0 THEN 1 ELSE 0
  BY DEF Growth
<1>8. /\ has \in Nat /\ will \in Nat /\ first \in 0..1 /\ has >= 1 /\ has <= will
      /\ first = 1 => has = 1
      /\ Needed(ino, n) \in Nat
      /\ has > Direct => /\ will = has /\ first = 0 /\ Needed(ino, n) = 0
                         /\ ino.i_sectors[Direct] # 0
      /\ has <= Direct => ino.i_sectors[Direct] = 0
      /\ has <= Direct /\ will <= Direct => Needed(ino, n) = first + (will - has)
      /\ has <= Direct /\ will > Direct => Needed(ino, n) = (first + 1) + (will - has)
  BY <1>6, <1>7, NeededIs
<1>9. one = IF has <= Direct /\ will > Direct THEN 1 ELSE 0
  BY DEF Growth
<1>10. \A i \in 0..(Direct - 1) :
               ino.i_sectors[i] # 0 <=> i < (IF first = 1 THEN 0 ELSE has)
  BY <1>4, <1>5
<1>11. has <= Direct => Needed(ino, n) = (first + one) + (will - has)
  BY <1>8, <1>9, DataConstants
<1> QED
  BY <1>2, <1>3, <1>7, <1>8, <1>9, <1>10, <1>11, DataConstants

\* The inode with the blocks of a growth has the right shape.
LEMMA ShapeAfter ==
  ASSUME NEW ino \in Inode, NEW n \in Nat, NEW sectors \in Sectors,
         ino.i_size + n < BlockSize * MaxBlocks, sectors[0] # 0,
         NEW will, will = UsedBlocks(ino.i_size + n),
         \A i \in 0..(Direct - 1) : sectors[i] # 0 <=> i < will,
         sectors[Direct] # 0 <=> will > Direct
  PROVE  ShapeOK([ino EXCEPT !.i_sectors = sectors], n)
<1>1. PICK new : new = [ino EXCEPT !.i_sectors = sectors]
  OBVIOUS
<1>2. new.i_size = ino.i_size /\ new.i_sectors = sectors
  BY <1>1 DEF Inode
<1>3. Has(new, n) = will
  BY <1>2 DEF Has
<1>4. ShapeOK(new, n)
  BY <1>2, <1>3 DEF ShapeOK
<1> QED
  BY <1>1, <1>4

LEMMA GrownLong ==
  ASSUME NEW ino \in Inode, NEW n \in Nat, ShapeOK(ino, 0),
         ino.i_size + n < BlockSize * MaxBlocks, Needed(ino, n) <= NBlocks,
         NEW has, NEW will, NEW first, NEW one, Growth(ino, n, has, will, first, one),
         table \in [Lbas -> IndirectTable], has > Direct,
         NEW fresh, NEW F, NEW g, GrownParts(ino, has, will, first, one, fresh, g)
  PROVE  Grows(ino, n, g, F) /\ GrowsTable(ino, g, F) /\ GrowsBlocks(ino, n, g)
<1>1. /\ has \in Nat /\ will = has /\ first = 0 /\ ino.i_sectors[Direct] # 0
      /\ one \in 0..1 /\ one # 1
      /\ \A i \in 0..(Direct - 1) : ino.i_sectors[i] # 0 <=> i < has
  BY GrowthIs, DataConstants
<1>2. Direct \in Nat /\ Direct > 0 /\ Indirect \in Nat /\ MaxBlocks = Direct + Indirect /\ 0 \in Lbas
  BY DataConstants
<1>4. ino.i_sectors \in Sectors /\ ino.i_sectors[Direct] \in Lbas
  BY <1>2 DEF Inode, Sectors
<1>5. g.sectors = ino.i_sectors
  <2>1. g.sectors = [i \in 0..Direct |-> g.sectors[i]]
    BY DEF GrownParts
  <2>2. ASSUME NEW i \in 0..Direct PROVE g.sectors[i] = ino.i_sectors[i]
    <3>1. g.sectors[Direct] = ino.i_sectors[Direct]
      BY <1>1 DEF GrownParts
    <3>2. CASE i # Direct
      <4>1. i \in 0..(Direct - 1) /\ i \notin has..(will - 1) /\ first # 1
        BY <1>1, <1>2, <3>2
      <4> QED
        BY <4>1 DEF GrownParts
    <3> QED
      BY <3>1, <3>2
  <2>3. ino.i_sectors = [i \in 0..Direct |-> ino.i_sectors[i]]
    BY <1>4 DEF Sectors
  <2> QED
    BY <2>1, <2>2, <2>3
<1>6. \A i \in 0..(Indirect - 1) : g.table[i] = table[ino.i_sectors[Direct]][i]
  BY <1>1, <1>2 DEF GrownParts
<1>7. ASSUME NEW i \in 0..(MaxBlocks - 1)
      PROVE  g.blocks[i] = IF i >= Direct THEN table[ino.i_sectors[Direct]][i - Direct] ELSE 0
  <2>1. g.blocks[i] = IF i >= Direct THEN g.table[i - Direct] ELSE 0
    <3>1. g.blocks[i] =
          IF i \in has..(will - 1) THEN fresh[first + one + i - has + 1]
          ELSE IF i = has - 1 /\ will <= Direct
            THEN IF first = 1 /\ i = 0 THEN fresh[1] ELSE ino.i_sectors[i]
          ELSE IF i >= Direct /\ has > Direct THEN g.table[i - Direct] ELSE 0
      BY DEF GrownParts
    <3>2. i \notin has..(will - 1) /\ ~(will <= Direct)
      BY <1>1, <1>2
    <3> QED
      BY <3>1, <3>2
  <2> QED
    BY <1>2, <1>6, <2>1
<1>8. table[ino.i_sectors[Direct]] \in IndirectTable
  BY <1>4
<1>9. g.blocks \in [0..(MaxBlocks - 1) -> Lbas]
  <2>1. ASSUME NEW i \in 0..(MaxBlocks - 1) PROVE g.blocks[i] \in Lbas
    <3>1. CASE i >= Direct
      <4>1. i - Direct \in 0..(Indirect - 1)
        BY <1>2, <3>1
      <4> QED
        BY <1>7, <1>8, <3>1, <4>1 DEF IndirectTable
    <3> QED
      BY <1>2, <1>7, <3>1
  <2>2. g.blocks = [i \in 0..(MaxBlocks - 1) |-> g.blocks[i]]
    BY DEF GrownParts
  <2> QED
    BY <2>1, <2>2
<1>10. ino.i_sectors[0] # 0
  BY <1>1, <1>2
<1>11. ShapeOK([ino EXCEPT !.i_sectors = g.sectors], n)
  <2>1. will = UsedBlocks(ino.i_size + n)
    BY DEF Growth
  <2> QED
    BY <1>1, <1>4, <1>5, <1>10, <2>1, ShapeAfter
<1>12. Grows(ino, n, g, F)
  <2>1. \A i \in 0..(Direct - 1) : ino.i_sectors[i] # 0
    BY <1>1, <1>2
  <2>2. \A i \in 0..Direct : ino.i_sectors[i] # 0
    BY <1>1, <1>2, <2>1
  <2> QED
    BY <1>4, <1>5, <1>9, <1>11, <2>1, <2>2 DEF Grows
<1>13. ~Crosses(ino, g) /\ g.sectors[Direct] # 0
  BY <1>1, <1>5 DEF Crosses
<1>14. GrowsBlocks(ino, n, g)
  <2>1. ASSUME NEW i \in 0..(MaxBlocks - 1), g.blocks[i] # 0
        PROVE  \E j \in 0..(Indirect - 1) : g.blocks[i] = table[g.sectors[Direct]][j]
    <3>1. i >= Direct /\ i - Direct \in 0..(Indirect - 1)
      BY <1>2, <1>7, <2>1
    <3> QED
      BY <1>5, <1>7, <3>1
  <2> QED
    BY <1>13, <2>1 DEF GrowsBlocks
<1> QED
  BY <1>12, <1>13, <1>14 DEF GrowsTable

LEMMA GrownShort ==
  ASSUME NEW ino \in Inode, NEW n \in Nat, ShapeOK(ino, 0),
         ino.i_size + n < BlockSize * MaxBlocks, Needed(ino, n) <= NBlocks,
         NEW has, NEW will, NEW first, NEW one, Growth(ino, n, has, will, first, one),
         has <= Direct, NEW need, need = Needed(ino, n),
         NEW fresh, FreshOK(fresh, need),
         NEW g, GrownParts(ino, has, will, first, one, fresh, g)
  PROVE  /\ Grows(ino, n, g, Given(fresh, need)) /\ GrowsTable(ino, g, Given(fresh, need))
         /\ GrowsBlocks(ino, n, g)
<1>1. /\ has \in Nat /\ will \in Nat /\ first \in 0..1 /\ one \in 0..1
      /\ has >= 1 /\ has <= will /\ will <= MaxBlocks
      /\ (one = 1 <=> will > Direct)
      /\ first = 1 => has = 1
      /\ ino.i_sectors[Direct] = 0
      /\ need \in Nat /\ need = (first + one) + (will - has)
  BY GrowthIs
<1>2. \A i \in 0..(Direct - 1) :
               ino.i_sectors[i] # 0 <=> i < (IF first = 1 THEN 0 ELSE has)
  BY GrowthIs
<1>3. Direct \in Nat /\ Direct > 0 /\ Indirect \in Nat /\ MaxBlocks = Direct + Indirect /\ 0 \in Lbas
  BY DataConstants
<1>4. ino.i_sectors \in Sectors /\ ino.i_sectors[Direct] \in Lbas
  BY <1>3 DEF Inode, Sectors
<1> DEFINE Index(i) == IF first = 1 /\ i = 0 THEN 1 ELSE first + one + i - has + 1
<1>5. ASSUME NEW i \in 0..(Direct - 1), ino.i_sectors[i] = 0, i < will
      PROVE  Index(i) \in 1..need /\ g.sectors[i] = fresh[Index(i)]
  <2>1. i >= has \/ (first = 1 /\ i = 0)
    BY <1>1, <1>2, <1>3, <1>5
  <2>2. Index(i) \in 1..need
    BY <1>1, <1>5, <2>1
  <2>3. g.sectors[i] = IF i \in has..(will - 1) THEN fresh[first + one + i - has + 1]
                       ELSE IF first = 1 /\ i = 0 THEN fresh[1] ELSE ino.i_sectors[i]
    BY DEF GrownParts
  <2>4. i \in has..(will - 1) <=> i >= has
    BY <1>1, <1>3, <1>5
  <2>5. first = 1 /\ i = 0 => ~(i >= has)
    BY <1>1
  <2> QED
    BY <2>1, <2>2, <2>3, <2>4, <2>5
<1>6. ASSUME NEW i \in 0..(Direct - 1), ino.i_sectors[i] # 0
      PROVE  g.sectors[i] = ino.i_sectors[i] /\ i < will
  <2>1. i < has /\ first # 1
    BY <1>1, <1>2, <1>6
  <2>2. i \notin has..(will - 1)
    BY <1>1, <2>1
  <2>3. i < will
    BY <1>1, <1>3, <2>1
  <2>4. g.sectors[i] = ino.i_sectors[i]
    BY <2>1, <2>2 DEF GrownParts
  <2> QED
    BY <2>3, <2>4
<1>7. ASSUME NEW i \in 0..(Direct - 1), ~(i < will) PROVE g.sectors[i] = 0
  <2>1. i \notin has..(will - 1) /\ i # 0
    BY <1>1, <1>3, <1>7
  <2>2. ino.i_sectors[i] = 0
    BY <1>1, <1>2, <1>7
  <2> QED
    BY <2>1, <2>2 DEF GrownParts
<1>8. /\ one = 1 => g.sectors[Direct] = fresh[first + 1] /\ first + 1 \in 1..need
      /\ one # 1 => g.sectors[Direct] = 0
  <2>1. g.sectors[Direct] = IF one = 1 THEN fresh[first + 1] ELSE ino.i_sectors[Direct]
    BY DEF GrownParts
  <2>2. one = 1 => first + 1 \in 1..need
    BY <1>1, <1>3
  <2> QED
    BY <1>1, <2>1, <2>2
<1> HIDE DEF Index
<1>9. \A k \in 1..need : /\ fresh[k] \in Given(fresh, need)
                         /\ fresh[k] \in Lbas /\ fresh[k] # 0
  BY DEF Given, FreshOK
<1>10. ASSUME NEW i \in 0..(Direct - 1)
       PROVE  g.sectors[i] \in Lbas /\ (g.sectors[i] # 0 <=> i < will)
  <2>1. CASE ino.i_sectors[i] # 0
    <3>1. ino.i_sectors[i] \in Lbas
      BY <1>3, <1>4 DEF Sectors
    <3> QED
      BY <1>6, <2>1, <3>1
  <2>2. CASE ino.i_sectors[i] = 0 /\ i < will
    BY <1>5, <1>9, <2>2
  <2>3. CASE ~(i < will)
    BY <1>3, <1>7, <2>3
  <2> QED
    BY <2>1, <2>2, <2>3
<1>11. g.sectors[Direct] \in Lbas /\ (g.sectors[Direct] # 0 <=> will > Direct)
  BY <1>1, <1>3, <1>8, <1>9
<1>12. g.sectors \in Sectors
  <2>1. ASSUME NEW i \in 0..Direct PROVE g.sectors[i] \in Lbas
    BY <1>3, <1>10, <1>11
  <2>2. g.sectors = [i \in 0..Direct |-> g.sectors[i]]
    BY DEF GrownParts
  <2> QED
    BY <2>1, <2>2 DEF Sectors
<1>13. g.sectors[0] # 0
  BY <1>1, <1>3, <1>10
<1>14. ShapeOK([ino EXCEPT !.i_sectors = g.sectors], n)
  <2>1. will = UsedBlocks(ino.i_size + n)
    BY DEF Growth
  <2> QED
    <3>1. PICK S \in Sectors : S = g.sectors
      BY <1>12
    <3>2. \A i \in 0..(Direct - 1) : S[i] # 0 <=> i < will
      BY <1>10, <3>1
    <3>3. (S[Direct] # 0 <=> will > Direct) /\ S[0] # 0
      BY <1>11, <1>13, <3>1
    <3>4. ShapeOK([ino EXCEPT !.i_sectors = S], n)
      BY <2>1, <3>2, <3>3, ShapeAfter
    <3> QED
      BY <3>1, <3>4
<1>15. one = 1 =>
         \A i \in 0..(Indirect - 1) : 
            g.table[i] = IF Direct + i < will
                         THEN fresh[first + one + (Direct + i) - has + 1] ELSE 0
  BY DEF GrownParts
<1>16. ASSUME NEW i \in 0..(MaxBlocks - 1), i \in has..(will - 1)
       PROVE  /\ g.blocks[i] \in Lbas
              /\ i < Direct => g.blocks[i] = g.sectors[i]
              /\ i >= Direct => one = 1 /\ i - Direct \in 0..(Indirect - 1)
                                /\ g.blocks[i] = g.table[i - Direct]
  <2>1. g.blocks[i] = fresh[first + one + i - has + 1]
    BY <1>16 DEF GrownParts
  <2>2. first + one + i - has + 1 \in 1..need
    BY <1>1, <1>16
  <2>3. ASSUME i < Direct PROVE g.blocks[i] = g.sectors[i]
    <3>1. i \in 0..(Direct - 1)
      BY <1>1, <1>3, <1>16, <2>3
    <3> QED
      BY <1>16, <2>1, <3>1 DEF GrownParts
  <2>4. ASSUME i >= Direct
        PROVE  one = 1 /\ i - Direct \in 0..(Indirect - 1) /\ g.blocks[i] = g.table[i - Direct]
    <3>1. one = 1 /\ i - Direct \in 0..(Indirect - 1) /\ Direct + (i - Direct) = i /\ i < will
      BY <1>1, <1>3, <1>16, <2>4
    <3> QED
      BY <1>15, <2>1, <3>1
  <2> QED
    BY <1>9, <2>1, <2>2, <2>3, <2>4
<1>17. ASSUME NEW i \in 0..(MaxBlocks - 1), i = has - 1, will <= Direct
       PROVE  i \in 0..(Direct - 1) /\ g.blocks[i] = g.sectors[i]
  <2>1. i \in 0..(Direct - 1) /\ i \notin has..(will - 1)
    BY <1>1, <1>3, <1>17
  <2> QED
    BY <1>17, <2>1 DEF GrownParts
<1>18. ASSUME NEW i \in 0..(MaxBlocks - 1), i \notin has..(will - 1), ~(i = has - 1 /\ will <= Direct)
       PROVE  g.blocks[i] = 0
  <2>1. ~(has > Direct)
    BY <1>1, <1>3
  <2> QED
    BY <1>18, <2>1 DEF GrownParts
<1>19. g.blocks \in [0..(MaxBlocks - 1) -> Lbas]
  <2>1. ASSUME NEW i \in 0..(MaxBlocks - 1) PROVE g.blocks[i] \in Lbas
    BY <1>3, <1>10, <1>16, <1>17, <1>18
  <2>2. g.blocks = [i \in 0..(MaxBlocks - 1) |-> g.blocks[i]]
    BY DEF GrownParts
  <2> QED
    BY <2>1, <2>2
<1>20. ASSUME NEW i \in 0..Direct, ino.i_sectors[i] = 0
       PROVE  g.sectors[i] \in Given(fresh, need) \cup {0}
  <2>1. CASE i = Direct
    BY <1>8, <1>9, <2>1
  <2>2. CASE i # Direct
    <3>1. i \in 0..(Direct - 1)
      BY <1>3, <2>2
    <3> QED
      BY <1>5, <1>7, <1>9, <1>20, <3>1
  <2> QED
    BY <2>1, <2>2
<1>21. ASSUME NEW i \in 0..Direct, ino.i_sectors[i] # 0
       PROVE  g.sectors[i] = ino.i_sectors[i]
  <2>1. i \in 0..(Direct - 1)
    <3>1. i # Direct
      BY <1>1, <1>21
    <3> QED
      BY <1>3, <3>1
  <2> QED
    BY <1>6, <1>21, <2>1
<1>22. ASSUME NEW i \in 0..(Direct - 1), NEW j \in 0..(Direct - 1),
              ino.i_sectors[i] = 0, ino.i_sectors[j] = 0,
              g.sectors[i] = g.sectors[j], g.sectors[i] # 0
       PROVE  i = j
  <2>1. i < will /\ j < will
    BY <1>10, <1>22
  <2>2. Index(i) \in 1..need /\ Index(j) \in 1..need /\ fresh[Index(i)] = fresh[Index(j)]
    BY <1>5, <1>22, <2>1
  <2>3. Index(i) = Index(j)
    BY <2>2 DEF FreshOK
  <2>4. (i >= has \/ (first = 1 /\ i = 0)) /\ (j >= has \/ (first = 1 /\ j = 0))
    BY <1>1, <1>2, <1>3, <1>22
  <2> QED
    BY <1>1, <1>3, <2>3, <2>4 DEF Index
<1>23. Grows(ino, n, g, Given(fresh, need))
  BY <1>12, <1>14, <1>19, <1>20, <1>21, <1>22 DEF Grows
<1>24. GrowsTable(ino, g, Given(fresh, need))
  <2> SUFFICES ASSUME Crosses(ino, g)
               PROVE  /\ g.table \in IndirectTable
                      /\ \A i \in 0..(Indirect - 1) : g.table[i] \in Given(fresh, need) \cup {0}
    BY DEF GrowsTable
  <2>1. one = 1
    BY <1>1, <1>8 DEF Crosses
  <2>2. ASSUME NEW i \in 0..(Indirect - 1), Direct + i < will
        PROVE  first + one + (Direct + i) - has + 1 \in 1..need
    BY <1>1, <1>3, <2>2
  <2>3. ASSUME NEW i \in 0..(Indirect - 1)
        PROVE  g.table[i] \in Given(fresh, need) \cup {0} /\ g.table[i] \in Lbas
    <3>1. CASE Direct + i < will
      BY <1>9, <1>15, <2>1, <2>2, <3>1
    <3> QED
      BY <1>3, <1>15, <2>1, <3>1
  <2>4. g.table = [i \in 0..(Indirect - 1) |-> g.table[i]]
    BY DEF GrownParts
  <2> QED
    BY <2>3, <2>4 DEF IndirectTable
<1>25. one = 1 => g.sectors[Direct] # 0 /\ Crosses(ino, g)
  BY <1>1, <1>11 DEF Crosses
<1>26. GrowsBlocks(ino, n, g)
  <2>1. ASSUME NEW i \in 0..(MaxBlocks - 1)
        PROVE  \/ g.blocks[i] = 0
               \/ \E j \in 0..Direct : g.blocks[i] = g.sectors[j]
               \/ /\ g.sectors[Direct] # 0
                  /\ \E j \in 0..(Indirect - 1) :
                        g.blocks[i] = IF Crosses(ino, g) THEN g.table[j]
                                      ELSE table[g.sectors[Direct]][j]
    <3>1. CASE i \in has..(will - 1) /\ i < Direct
      <4>1. i \in 0..Direct
        BY <1>1, <1>3, <3>1
      <4> QED
        BY <1>16, <3>1, <4>1
    <3>2. CASE i \in has..(will - 1) /\ i >= Direct
      BY <1>16, <1>25, <3>2
    <3>3. CASE i = has - 1 /\ will <= Direct
      <4>1. i \in 0..Direct
        BY <1>1, <1>3, <3>3
      <4> QED
        BY <1>17, <3>3, <4>1
    <3>4. CASE i \notin has..(will - 1) /\ ~(i = has - 1 /\ will <= Direct)
      BY <1>18, <3>4
    <3>5. i < Direct \/ i >= Direct
      BY <1>3
    <3> QED
      BY <3>1, <3>2, <3>3, <3>4, <3>5
  <2>2. ASSUME g.sectors[Direct] = 0, NEW i \in (ino.i_size \div BlockSize)..(Direct - 1),
               i < UsedBlocks(ino.i_size + n)
        PROVE  g.blocks[i] = g.sectors[i]
    <3>1. has = ino.i_size \div BlockSize + 1
      BY GrowthIs
    <3>2. will <= Direct
      BY <1>1, <1>3, <1>11, <2>2
    <3>3. ino.i_size \div BlockSize \in Nat
      BY <1>1, <3>1, Division DEF Inode
    <3>4. i < will
      BY <2>2 DEF Growth
    <3>5. i \in 0..(MaxBlocks - 1) /\ i < Direct /\ (i = has - 1 \/ i \in has..(will - 1))
      BY <1>1, <1>3, <3>1, <3>3, <3>4
    <3> QED
      BY <1>16, <1>17, <3>2, <3>5
  <2> QED
    BY <2>1, <2>2 DEF GrowsBlocks
<1> QED
  BY <1>23, <1>24, <1>26

LEMMA GrownIs ==
  ASSUME NEW ino \in Inode, NEW n \in Nat, ShapeOK(ino, 0),
         ino.i_size + n < BlockSize * MaxBlocks, NEW need, need = Needed(ino, n),
         need <= NBlocks, table \in [Lbas -> IndirectTable],
         NEW fresh, FreshOK(fresh, need), NEW g, g = Grown(ino, n, fresh)
  PROVE  /\ Grows(ino, n, g, Given(fresh, need)) /\ GrowsTable(ino, g, Given(fresh, need))
         /\ GrowsBlocks(ino, n, g)
         /\ UsedBlocks(ino.i_size) <= Direct /\ g.sectors[Direct] # ino.i_sectors[Direct]
              <=> Crosses(ino, g)
         /\ ino.i_sectors[0] = 0 => need >= 1
         /\ need \in Nat
<1>1. PICK has, will : has = UsedBlocks(ino.i_size) /\ will = UsedBlocks(ino.i_size + n)
  OBVIOUS
<1>2. PICK first, one : /\ first = IF ino.i_sectors[0] = 0 THEN 1 ELSE 0
                        /\ one = IF has <= Direct /\ will > Direct THEN 1 ELSE 0
  OBVIOUS
<1>3. Growth(ino, n, has, will, first, one)
  BY <1>1, <1>2 DEF Growth
<1>4. /\ has \in Nat /\ will \in Nat /\ has <= will /\ first \in 0..1 /\ one \in 0..1
      /\ has > Direct => will = has /\ ino.i_sectors[Direct] # 0
      /\ has <= Direct => ino.i_sectors[Direct] = 0 /\ need = (first + one) + (will - has)
      /\ need \in Nat /\ has >= 1
      /\ first = 1 <=> ino.i_sectors[0] = 0
      /\ first = 1 => has = 1
  BY <1>3, GrowthIs
<1>5. GrownParts(ino, has, will, first, one, fresh, g)
  BY <1>3, <1>4, GrownIsParts
<1>6. Direct \in Nat /\ Direct > 0
  BY DataConstants
<1>7. ASSUME NEW G, G = g
      PROVE  /\ Grows(ino, n, G, Given(fresh, need)) /\ GrowsTable(ino, G, Given(fresh, need))
             /\ GrowsBlocks(ino, n, G)
  <2>1. GrownParts(ino, has, will, first, one, fresh, G)
    BY <1>5, <1>7
  <2>2. CASE has > Direct
    BY <1>3, <2>1, <2>2, GrownLong
  <2>3. CASE has <= Direct
    BY <1>3, <2>1, <2>3, GrownShort
  <2> QED
    BY <1>4, <1>6, <2>2, <2>3
<1>8. ASSUME NEW G, G = g
      PROVE  has <= Direct /\ G.sectors[Direct] # ino.i_sectors[Direct] <=> Crosses(ino, G)
  <2>1. Grows(ino, n, G, Given(fresh, need)) /\ Direct \in 0..Direct
    BY <1>6, <1>7, <1>8
  <2>2. ino.i_sectors[Direct] # 0 => G.sectors[Direct] = ino.i_sectors[Direct]
    BY <2>1 DEF Grows
  <2>3. ino.i_sectors[Direct] = 0 <=> has <= Direct
    BY <1>4, <1>6
  <2> QED
    BY <2>2, <2>3 DEF Crosses
<1>9. ino.i_sectors[0] = 0 => need >= 1
  BY <1>4, <1>6
<1> QED
  BY <1>1, <1>4, <1>7, <1>8, <1>9

-----------------------------------------------------------------------------
(***************************************************************************)
(* The invariant.  A file owns its blocks while it has an entry, and until *)
(* inode_release when it has lost it.                                      *)
(***************************************************************************)
Owners == entry \cup {f \in Regular : call[f].at = "release"}

\* d is m as it was at an earlier moment.
Prefix(d, m) ==
    /\ d.i_size <= m.i_size
    /\ \A i \in 0..Direct : d.i_sectors[i] = 0 \/ d.i_sectors[i] = m.i_sectors[i]

\* What the place in a call says about the inodes.
DataCallOK(f) ==
    /\ call[f].at \in {"out", "release"} =>
          call[f].left = 0 /\ call[f].count = 0 /\ minode[f] = dinode[f]
    /\ call[f].at = "release" => f \notin entry
    /\ call[f].at \in {"sync", "synced"} =>
          call[f].left = 0 /\ (f \notin entry => minode[f] = EmptyInode)
    /\ Creating(f) =>
          /\ call[f].at \in {"sync", "synced"} /\ minode[f] = EmptyInode
          /\ f \in entry /\ acked[f] = 0
    /\ call[f].at = "chunk" =>
          /\ f \in entry /\ call[f].left > 0 /\ call[f].left <= call[f].count
          /\ call[f].left < call[f].count => minode[f].i_size % BlockSize = 0
    /\ call[f].at = "synced" => call[f].buf \in [Regular -> Inode]
    /\ f \notin entry /\ call[f].at = "out" => acked[f] = 0

\* The blocks of an owner are marked in memory, and a write stays inside them.
OwnerOK(f) ==
    /\ ShapeOK(minode[f], call[f].left)
    /\ ~Creating(f) => ShapeOK(dinode[f], 0) /\ Prefix(dinode[f], minode[f])
    /\ \A a \in Own(table, minode[f]) : a - 1 \in block_bitmap /\ a # 1
    /\ f \notin crossed => minode[f].i_sectors[Direct] = 0
    /\ call[f].at = "chunk" =>
          \A i \in 0..(MaxBlocks - 1) : call[f].blocks[i] \in {0} \cup Own(table, minode[f])

\* A file of direct blocks only: marked on disk, each block at one place, and
\* the bytes as they were written.
ContentOK(f) ==
    /\ \A a \in Own(table, minode[f]) : a - 1 \in disk_bitmap
    /\ \A i, j \in 0..(Direct - 1) :
          minode[f].i_sectors[i] = minode[f].i_sectors[j] /\ minode[f].i_sectors[i] # 0 => i = j
    /\ call[f].at = "chunk" =>
          \A i \in (minode[f].i_size \div BlockSize)..(Direct - 1) :
             i < UsedBlocks(minode[f].i_size + call[f].left) =>
                 call[f].blocks[i] = minode[f].i_sectors[i]
    /\ \A i \in 0..(minode[f].i_size - 1) :
          data[minode[f].i_sectors[i \div BlockSize]][i % BlockSize] = <<f, i>>

AckedOK(f) ==
    acked[f] <= minode[f].i_size /\ (~Creating(f) => acked[f] <= dinode[f].i_size)

FileOK(f) ==
    /\ DataCallOK(f)
    /\ f \in Owners => OwnerOK(f)
    /\ f \in entry \ crossed => ContentOK(f)
    /\ f \in entry => AckedOK(f)

\* No block has two owners.
OwnersApart ==
    \A f, g \in Owners : f # g => \A a \in Own(table, minode[f]) : a \notin Own(table, minode[g])

Sound ==
    /\ 0 \in block_bitmap /\ 0 \in disk_bitmap
    /\ \A f \in Regular : FileOK(f)
    /\ OwnersApart

DataInv ==
    /\ DataTypeOK
    /\ lost = "unmarked" => crossed # {}
    /\ lost \in {"none", "panic"} => Sound

LEMMA OwnIs ==
  ASSUME NEW t, NEW ino, NEW a
  PROVE  a \in Own(t, ino) <=>
            /\ a # 0
            /\ \/ \E i \in 0..Direct : a = ino.i_sectors[i]
               \/ ino.i_sectors[Direct] # 0
                  /\ \E i \in 0..(Indirect - 1) : a = t[ino.i_sectors[Direct]][i]
  BY DEF Own, Entries

LEMMA RefsIs ==
  ASSUME NEW ino, NEW b
  PROVE  b \in Refs(ino) <=> \E a \in Own(table, ino) : b = a - 1
  BY DEF Refs, Own, Entries, Blocks

LEMMA OwnType ==
  ASSUME DataTypeOK, NEW ino \in Inode, NEW a \in Own(table, ino)
  PROVE  a \in Lbas /\ a # 0 /\ a - 1 \in 0..(NBlocks - 1)
<1>1. ino.i_sectors \in [0..Direct -> Lbas] /\ Direct \in 0..Direct
  BY DataConstants DEF Inode, Sectors
<1>2. ASSUME NEW i \in 0..(Indirect - 1) PROVE table[ino.i_sectors[Direct]][i] \in Lbas
  <2>1. table \in [Lbas -> IndirectTable]
    BY DEF DataTypeOK
  <2>2. table[ino.i_sectors[Direct]] \in IndirectTable
    BY <1>1, <2>1
  <2> QED
    BY <2>2 DEF IndirectTable
<1>3. a \in Lbas /\ a # 0
  BY <1>1, <1>2, OwnIs
<1> QED
  BY <1>3, DataConstants DEF Lbas

\* A byte of a file of direct blocks is in a block that the file owns.
LEMMA ByteHome ==
  ASSUME NEW ino \in Inode, NEW left \in Nat, ShapeOK(ino, left), ino.i_sectors[Direct] = 0,
         NEW i \in 0..(ino.i_size + left), i < ino.i_size \/ ino.i_sectors[0] # 0
  PROVE  /\ i \div BlockSize \in 0..(Direct - 1)
         /\ ino.i_sectors[i \div BlockSize] # 0
         /\ \A t : ino.i_sectors[i \div BlockSize] \in Own(t, ino)
<1>1. ino.i_size \in Nat /\ ino.i_size + left \in Nat /\ i \in Nat
  BY DEF Inode
<1>2. ino.i_sectors[0] # 0
  BY <1>1 DEF ShapeOK
<1>3. Has(ino, left) = UsedBlocks(ino.i_size + left)
  BY <1>2 DEF Has
<1>4. ~(UsedBlocks(ino.i_size + left) > Direct)
  BY <1>3 DEF ShapeOK
<1>5. PICK s \in Nat : s = ino.i_size + left
  BY <1>1
<1>6. /\ i \div BlockSize \in Nat /\ s \div BlockSize \in Nat
      /\ i \div BlockSize <= s \div BlockSize
  BY <1>1, <1>5, Division, DivisionGrows
<1>7. UsedBlocks(ino.i_size + left) = s \div BlockSize + 1
  BY <1>5 DEF UsedBlocks
<1>8. PICK q \in Nat : q = i \div BlockSize
  BY <1>6
<1>9. q \in 0..(Direct - 1) /\ q < Has(ino, left)
  BY <1>3, <1>4, <1>6, <1>7, <1>8, DataConstants
<1>10. ino.i_sectors[q] # 0
  BY <1>9 DEF ShapeOK
<1>11. q \in 0..Direct
  BY <1>9, DataConstants
<1>12. \A t : ino.i_sectors[q] \in Own(t, ino)
  BY <1>10, <1>11, OwnIs
<1> QED
  BY <1>8, <1>9, <1>10, <1>12

-----------------------------------------------------------------------------
(***************************************************************************)
(* A step that leaves a file's own variables and blocks alone keeps what   *)
(* the invariant says of it.                                               *)
(***************************************************************************)
Kept(g) ==
    /\ minode'[g] = minode[g] /\ dinode'[g] = dinode[g]
    /\ call'[g] = call[g] /\ acked'[g] = acked[g]
    /\ g \in entry' <=> g \in entry
    /\ g \in crossed' <=> g \in crossed

BlocksKept(g) ==
    \A a \in Own(table, minode[g]) :
       /\ table'[a] = table[a] /\ data'[a] = data[a]
       /\ a - 1 \in block_bitmap => a - 1 \in block_bitmap'
       /\ a - 1 \in block_bitmap /\ a - 1 \in disk_bitmap => a - 1 \in disk_bitmap'

\* The same with the new tables
LEMMA SameOwn ==
  ASSUME NEW t, NEW u, NEW ino, Direct \in 0..Direct,
         \A a \in Own(t, ino) : u[a] = t[a]
  PROVE  \A a : a \in Own(u, ino) <=> a \in Own(t, ino)
<1>1. ino.i_sectors[Direct] # 0 => ino.i_sectors[Direct] \in Own(t, ino)
  BY OwnIs
<1>2. ino.i_sectors[Direct] # 0 => u[ino.i_sectors[Direct]] = t[ino.i_sectors[Direct]]
  BY <1>1
<1> QED
  BY <1>2, OwnIs

LEMMA KeepsFile ==
  ASSUME DataTypeOK, NEW g \in Regular, FileOK(g), Kept(g),
         g \in Owners => BlocksKept(g)
  PROVE  /\ FileOK(g)'
         /\ g \in Owners' <=> g \in Owners
         /\ g \in Owners => \A a : a \in Own(table, minode[g])' <=> a \in Own(table, minode[g])
<1>1. DataCallOK(g)'
  BY DEF FileOK, Kept, DataCallOK, Creating
<1>2. g \in Owners' <=> g \in Owners
  BY DEF Kept, Owners
<1>3. ASSUME g \in Owners
      PROVE  \A a : a \in Own(table, minode[g])' <=> a \in Own(table, minode[g])
  <2>1. \A a \in Own(table, minode[g]) : table'[a] = table[a]
    BY <1>3 DEF BlocksKept
  <2>2. Direct \in 0..Direct
    BY DataConstants
  <2>3. \A a : a \in Own(table', minode[g]) <=> a \in Own(table, minode[g])
    BY <2>1, <2>2, SameOwn
  <2>4. Own(table, minode[g])' = Own(table', minode[g])
    BY DEF Kept, Own, Entries
  <2> QED
    BY <2>3, <2>4
<1>4. ASSUME g \in Owners PROVE OwnerOK(g)'
  <2>1. OwnerOK(g) /\ BlocksKept(g)
    BY <1>4 DEF FileOK
  <2>2. /\ ShapeOK(minode[g], call[g].left)'
        /\ (~Creating(g) => ShapeOK(dinode[g], 0) /\ Prefix(dinode[g], minode[g]))'
        /\ (g \notin crossed => minode[g].i_sectors[Direct] = 0)'
    BY <2>1 DEF OwnerOK, Kept, Creating, ShapeOK, Has, Prefix
  <2>3. (\A a \in Own(table, minode[g]) : a - 1 \in block_bitmap /\ a # 1)'
    <3>1. \A a \in Own(table, minode[g]) : a - 1 \in block_bitmap' /\ a # 1
      BY <2>1 DEF OwnerOK, BlocksKept
    <3> QED
      BY <1>3, <1>4, <3>1
  <2>4. (call[g].at = "chunk" =>
          \A i \in 0..(MaxBlocks - 1) : call[g].blocks[i] \in {0} \cup Own(table, minode[g]))'
    <3>1. call'[g].at = "chunk" =>
            \A i \in 0..(MaxBlocks - 1) : call'[g].blocks[i] \in {0} \cup Own(table, minode[g])
      BY <2>1 DEF OwnerOK, Kept
    <3> QED
      BY <1>3, <1>4, <3>1
  <2> QED
    BY <2>2, <2>3, <2>4 DEF OwnerOK
<1>5. ASSUME g \in entry \ crossed PROVE ContentOK(g)'
  <2>1. ContentOK(g) /\ g \in Owners /\ OwnerOK(g) /\ BlocksKept(g)
    BY <1>5 DEF FileOK, Owners
  <2>2. (\A a \in Own(table, minode[g]) : a - 1 \in disk_bitmap)'
    <3>1. \A a \in Own(table, minode[g]) : a - 1 \in disk_bitmap'
      BY <2>1 DEF OwnerOK, ContentOK, BlocksKept
    <3> QED
      BY <1>3, <2>1, <3>1
  <2>3. ASSUME NEW i \in 0..(minode[g].i_size - 1)
        PROVE  data'[minode[g].i_sectors[i \div BlockSize]] = data[minode[g].i_sectors[i \div BlockSize]]
    <3>1. minode[g] \in Inode /\ call[g].left \in Nat
      BY DEF DataTypeOK, DataCall
    <3>2. /\ ShapeOK(minode[g], call[g].left) /\ minode[g].i_sectors[Direct] = 0
      BY <1>5, <2>1 DEF OwnerOK
    <3>3. /\ i \in 0..(minode[g].i_size + call[g].left) /\ i < minode[g].i_size
      BY <3>1 DEF Inode
    <3>4. minode[g].i_sectors[i \div BlockSize] \in Own(table, minode[g])
      BY <3>1, <3>2, <3>3, ByteHome
    <3> QED
      BY <2>1, <3>4 DEF BlocksKept
  <2>4. \A i \in 0..(minode[g].i_size - 1) :
          data'[minode[g].i_sectors[i \div BlockSize]][i % BlockSize] = <<g, i>>
    BY <2>1, <2>3 DEF ContentOK
  <2>5. minode'[g] = minode[g] /\ call'[g] = call[g]
    BY DEF Kept
  <2> QED
    BY <2>1, <2>2, <2>4, <2>5 DEF ContentOK
<1>6. g \in entry => AckedOK(g)'
  BY DEF FileOK, Kept, AckedOK, Creating
<1>7. (g \in entry' <=> g \in entry) /\ (g \in crossed' <=> g \in crossed)
  BY DEF Kept
<1>8. g \in (entry \ crossed)' <=> g \in entry \ crossed
  BY <1>7
<1>9. (g \in Owners => OwnerOK(g))' /\ (g \in entry \ crossed => ContentOK(g))'
  BY <1>2, <1>4, <1>5, <1>8
<1>10. FileOK(g)'
  BY <1>1, <1>6, <1>7, <1>9 DEF FileOK
<1> QED
  BY <1>2, <1>3, <1>10

\* A step about one file: what is left to show for Sound.
LEMMA StepOf ==
  ASSUME DataTypeOK, Sound, NEW f \in Regular, entry' \subseteq Regular,
         \A g \in Regular : g # f => Kept(g) /\ (g \in Owners => BlocksKept(g)),
         0 \in block_bitmap', 0 \in disk_bitmap', FileOK(f)',
         f \in Owners' => \A g \in Owners : g # f =>
             \A a \in Own(table, minode[f])' : a \notin Own(table, minode[g])
  PROVE  Sound'
<1>1. ASSUME NEW g \in Regular, g # f
      PROVE  /\ FileOK(g)'
             /\ g \in Owners' <=> g \in Owners
             /\ g \in Owners => \A a : a \in Own(table, minode[g])' <=> a \in Own(table, minode[g])
  <2>1. FileOK(g) /\ Kept(g) /\ (g \in Owners => BlocksKept(g))
    BY <1>1 DEF Sound
  <2> QED
    BY <2>1, KeepsFile
<1>2. \A g \in Regular : FileOK(g)'
  BY <1>1
<1>3. Owners' \subseteq Regular
  BY DEF Owners
<1>4. ASSUME NEW g \in Owners', NEW h \in Owners', g # h, NEW a \in Own(table, minode[g])'
      PROVE  a \notin Own(table, minode[h])'
  <2>1. g \in Regular /\ h \in Regular
    BY <1>3
  <2>2. CASE g = f
    <3>1. h \in Owners
      BY <1>1, <1>4, <2>1, <2>2
    <3>2. a \notin Own(table, minode[h])
      BY <1>4, <2>2, <3>1
    <3> QED
      BY <1>1, <1>4, <2>1, <2>2, <3>1, <3>2
  <2>3. CASE h = f
    <3>1. g \in Owners
      BY <1>1, <1>4, <2>1, <2>3
    <3>2. a \in Own(table, minode[g])
      BY <1>1, <1>4, <2>1, <2>3, <3>1
    <3> QED
      BY <1>4, <2>3, <3>1, <3>2
  <2>4. CASE g # f /\ h # f
    <3>1. g \in Owners /\ h \in Owners
      BY <1>1, <2>1, <2>4
    <3>2. a \in Own(table, minode[g])
      BY <1>1, <2>1, <2>4, <3>1
    <3>3. a \notin Own(table, minode[h])
      BY <1>4, <3>1, <3>2 DEF Sound, OwnersApart
    <3> QED
      BY <1>1, <2>1, <2>4, <3>1, <3>3
  <2> QED
    BY <2>2, <2>3, <2>4
<1>5. OwnersApart'
  BY <1>4 DEF OwnersApart
<1> QED
  BY <1>2, <1>5 DEF Sound

\* A step that changes no file.
LEMMA StepOfNone ==
  ASSUME DataTypeOK, Sound, entry' \subseteq Regular,
         \A g \in Regular : Kept(g) /\ (g \in Owners => BlocksKept(g)),
         0 \in block_bitmap', 0 \in disk_bitmap'
  PROVE  Sound'
<1>1. PICK f \in Regular : TRUE
  BY FileDataAssumption
<1>2. /\ FileOK(f)'
      /\ f \in Owners' <=> f \in Owners
      /\ f \in Owners => \A a : a \in Own(table, minode[f])' <=> a \in Own(table, minode[f])
  <2>1. FileOK(f) /\ Kept(f) /\ (f \in Owners => BlocksKept(f))
    BY DEF Sound
  <2> QED
    BY <2>1, KeepsFile
<1>3. ASSUME f \in Owners', NEW g \in Owners, g # f, NEW a \in Own(table, minode[f])'
      PROVE  a \notin Own(table, minode[g])
  <2>1. f \in Owners /\ a \in Own(table, minode[f])
    BY <1>2, <1>3
  <2> QED
    BY <1>3, <2>1 DEF Sound, OwnersApart
<1> QED
  BY <1>2, <1>3, StepOf

\* Nothing of the files or the disk changes.
LEMMA StillSound ==
  ASSUME DataTypeOK, Sound,
         UNCHANGED <<minode, dinode, entry, block_bitmap, disk_bitmap, data, table, call,
                     acked, crossed>>
  PROVE  Sound'
<1>1. \A g \in Regular : Kept(g) /\ BlocksKept(g)
  BY DEF Kept, BlocksKept
<1>2. entry' \subseteq Regular /\ 0 \in block_bitmap' /\ 0 \in disk_bitmap'
  BY DEF DataTypeOK, Sound
<1> QED
  BY <1>1, <1>2, StepOfNone

LEMMA TypeKept ==
  ASSUME DataTypeOK, lost' \in {"none", "panic", "raced", "torn", "unmarked"},
         UNCHANGED <<minode, dinode, entry, block_bitmap, disk_bitmap, data, table, call,
                     acked, crossed>>
  PROVE  DataTypeOK'
  BY DEF DataTypeOK

LEMMA ReadStep ==
  ASSUME DataInv, NEW n,
         sys_read(n) \/ sys_read_panics(n) \/ sys_lseek(n) \/ data_stopped \/ UNCHANGED data_vars
  PROVE  DataInv'
<1>1. /\ UNCHANGED <<minode, dinode, entry, block_bitmap, disk_bitmap, data, table, call,
                     acked, crossed>>
      /\ \/ lost' = lost
         \/ lost = "none" /\ lost' = "panic"
  BY DEF sys_read, sys_read_panics, sys_lseek, data_stopped, data_vars, mem, disk, hist, At
<1>2. DataTypeOK'
  BY <1>1, TypeKept DEF DataInv, DataTypeOK
<1>3. lost' \in {"none", "panic"} => Sound'
  BY <1>1, StillSound DEF DataInv
<1> QED
  BY <1>1, <1>2, <1>3 DEF DataInv

LEMMA SyncReadStep ==
  ASSUME DataInv, NEW f \in Regular, inode_sync_read(f)
  PROVE  DataInv'
<1>1. /\ lost = "none" /\ lost' = "none" /\ call[f].at = "sync"
      /\ call' = [call EXCEPT ![f].at = "synced", ![f].buf = dinode]
      /\ UNCHANGED <<minode, dinode, entry, block_bitmap, disk_bitmap, data, table, acked, crossed>>
  BY DEF inode_sync_read, mem, disk, hist, At
<1>2. DataTypeOK /\ Sound
  BY <1>1 DEF DataInv
<1>3. call'[f] = [call[f] EXCEPT !.at = "synced", !.buf = dinode]
  BY <1>1, <1>2 DEF DataTypeOK
<1>4. call'[f] \in DataCall /\ \A g \in Regular : g # f => call'[g] = call[g]
  <2>1. PICK c \in DataCall : c = call[f]
    BY <1>2 DEF DataTypeOK
  <2>2. dinode \in [Regular -> Inode]
    BY <1>2 DEF DataTypeOK
  <2>3. [c EXCEPT !.at = "synced", !.buf = dinode] \in DataCall
    BY <2>2 DEF DataCall
  <2>4. \A g \in Regular : g # f => call'[g] = call[g]
    BY <1>1, <1>2 DEF DataTypeOK
  <2> QED
    BY <1>3, <2>1, <2>3, <2>4
<1>5. DataTypeOK'
  <2>1. call' \in [Regular -> DataCall]
    BY <1>1, <1>2, <1>4 DEF DataTypeOK
  <2> QED
    BY <1>1, <1>2, <2>1 DEF DataTypeOK
<1>6. \A g \in Regular : g # f => Kept(g) /\ BlocksKept(g)
  BY <1>1, <1>4 DEF Kept, BlocksKept
<1>7. call[f] \in DataCall /\ FileOK(f)
  BY <1>2 DEF DataTypeOK, Sound
<1>8. /\ call'[f].at = "synced" /\ call'[f].buf = dinode
      /\ call'[f].left = call[f].left /\ call'[f].count = call[f].count
      /\ call'[f].blocks = call[f].blocks
  BY <1>3, <1>7 DEF DataCall
<1>9. DataCallOK(f)'
  BY <1>1, <1>2, <1>7, <1>8 DEF FileOK, DataCallOK, Creating, DataTypeOK
<1>10. f \in Owners' <=> f \in Owners
  BY <1>1, <1>8 DEF Owners
<1>11. FileOK(f)'
  <2>1. f \in Owners => OwnerOK(f)'
    <3>1. f \in Owners => OwnerOK(f)
      BY <1>7 DEF FileOK
    <3> QED
      BY <1>1, <1>8, <3>1 DEF OwnerOK, Creating
  <2>2. f \in entry \ crossed => ContentOK(f)'
    BY <1>1, <1>7, <1>8 DEF FileOK, ContentOK
  <2>3. f \in entry => AckedOK(f)'
    BY <1>1, <1>7, <1>8 DEF FileOK, AckedOK, Creating
  <2>4. entry' = entry /\ crossed' = crossed
    BY <1>1
  <2> QED
    BY <1>9, <1>10, <2>1, <2>2, <2>3, <2>4 DEF FileOK
<1>12. f \in Owners' => \A g \in Owners : g # f =>
             \A a \in Own(table, minode[f])' : a \notin Own(table, minode[g])
  BY <1>1, <1>2, <1>10 DEF Sound, OwnersApart
<1>13. entry' \subseteq Regular /\ 0 \in block_bitmap' /\ 0 \in disk_bitmap'
  BY <1>1, <1>2 DEF DataTypeOK, Sound
<1>14. Sound'
  BY <1>2, <1>6, <1>11, <1>12, <1>13, StepOf
<1> QED
  BY <1>1, <1>5, <1>14 DEF DataInv

LEMMA EmptyIs ==
  /\ EmptyInode \in Inode /\ EmptyInode.i_size = 0
  /\ \A i \in 0..Direct : EmptyInode.i_sectors[i] = 0
  /\ \A t, a : a \notin Own(t, EmptyInode)
  /\ ShapeOK(EmptyInode, 0)
<1>1. /\ EmptyInode.i_size = 0 /\ EmptyInode.i_sectors = [i \in 0..Direct |-> 0]
  BY DEF EmptyInode
<1>2. EmptyInode \in Inode
  BY DataConstants DEF EmptyInode, Inode, Sectors
<1>3. \A i \in 0..Direct : EmptyInode.i_sectors[i] = 0
  BY <1>1
<1>4. Direct \in 0..Direct /\ 0 \in 0..Direct /\ \A i \in 0..(Direct - 1) : i \in 0..Direct
  BY DataConstants
<1>5. \A t, a : a \notin Own(t, EmptyInode)
  BY <1>3, <1>4, OwnIs
<1>6. Has(EmptyInode, 0) = 0
  BY <1>3, <1>4 DEF Has
<1>7. 0 < BlockSize * MaxBlocks
  BY DataConstants
<1>8. ShapeOK(EmptyInode, 0)
  BY <1>1, <1>3, <1>4, <1>6, <1>7, DataConstants DEF ShapeOK
<1> QED
  BY <1>1, <1>2, <1>3, <1>5, <1>8

LEMMA NoCallIs ==
  /\ NoCall \in DataCall /\ NoCall.at = "out" /\ NoCall.left = 0 /\ NoCall.count = 0
  /\ \A at \in {"out", "chunk", "sync", "synced", "release"} :
        [NoCall EXCEPT !.at = at] \in DataCall
  /\ [NoCall EXCEPT !.at = "sync", !.count = -1] \in DataCall
<1>1. NoBlocks \in [0..(MaxBlocks - 1) -> Lbas]
  BY DataConstants DEF NoBlocks
<1>2. NoCall \in DataCall
  BY <1>1 DEF NoCall, DataCall
<1>3. NoCall.at = "out" /\ NoCall.left = 0 /\ NoCall.count = 0
  BY DEF NoCall
<1>4. PICK c \in DataCall : c = NoCall
  BY <1>2
<1>5. \A at \in {"out", "chunk", "sync", "synced", "release"} : [c EXCEPT !.at = at] \in DataCall
  BY DEF DataCall
<1>6. [c EXCEPT !.at = "sync", !.count = -1] \in DataCall
  <2>1. PICK m \in Int : m = -1
    OBVIOUS
  <2>2. [c EXCEPT !.at = "sync", !.count = m] \in DataCall
    BY DEF DataCall
  <2> QED
    BY <2>1, <2>2
<1> QED
  BY <1>2, <1>3, <1>4, <1>5, <1>6

LEMMA OpenStep ==
  ASSUME DataInv, NEW f \in Regular, sys_open(f)
  PROVE  DataInv'
<1>1. /\ lost = "none" /\ lost' = "none" /\ call[f].at = "out"
      /\ minode' = [minode EXCEPT ![f] = dinode[f]]
      /\ UNCHANGED <<dinode, entry, block_bitmap, disk_bitmap, data, table, call, acked, crossed>>
  BY DEF sys_open, disk, hist, At
<1>2. DataTypeOK /\ Sound
  BY <1>1 DEF DataInv
<1>3. minode[f] = dinode[f]
  BY <1>1, <1>2 DEF Sound, FileOK, DataCallOK
<1>4. minode' = minode
  BY <1>1, <1>2, <1>3 DEF DataTypeOK
<1>5. DataTypeOK'
  BY <1>1, <1>2, <1>4, TypeKept
<1>6. Sound'
  BY <1>1, <1>2, <1>4, StillSound
<1> QED
  BY <1>1, <1>5, <1>6 DEF DataInv

LEMMA SyncWriteStep ==
  ASSUME DataInv, NEW f \in Regular, inode_sync_write(f)
  PROVE  DataInv'
<1>1. /\ lost = "none" /\ lost' \in {"none", "raced"} /\ call[f].at = "synced"
      /\ dinode' = [call[f].buf EXCEPT ![f] = minode[f]]
      /\ acked' = [acked EXCEPT ![f] = minode[f].i_size]
      /\ call' = [call EXCEPT ![f] = NoCall]
      /\ lost' = "none" => \A g \in Regular \ {f} : call[f].buf[g] = dinode[g]
      /\ UNCHANGED <<minode, entry, block_bitmap, disk_bitmap, data, table, crossed>>
  BY DEF inode_sync_write, mem, At
<1>2. DataTypeOK /\ Sound /\ FileOK(f)
  BY <1>1 DEF DataInv, Sound
<1>3. call[f].buf \in [Regular -> Inode] /\ minode[f] \in Inode /\ minode[f].i_size \in Nat
  BY <1>1, <1>2 DEF FileOK, DataCallOK, DataTypeOK, Inode
<1>4. dinode' \in [Regular -> Inode] /\ call' \in [Regular -> DataCall] /\ acked' \in [Regular -> Nat]
  BY <1>1, <1>2, <1>3, NoCallIs DEF DataTypeOK
<1>5. DataTypeOK'
  BY <1>1, <1>2, <1>4 DEF DataTypeOK
<1>6. ASSUME lost' = "none" PROVE Sound'
  <2>1. ASSUME NEW g \in Regular, g # f PROVE Kept(g) /\ BlocksKept(g)
    <3>1. dinode'[g] = dinode[g] /\ call'[g] = call[g] /\ acked'[g] = acked[g]
      BY <1>1, <1>2, <1>3, <1>6, <2>1 DEF DataTypeOK
    <3> QED
      BY <1>1, <3>1 DEF Kept, BlocksKept
  <2>2. /\ dinode'[f] = minode[f] /\ minode'[f] = minode[f]
        /\ call'[f] = NoCall /\ acked'[f] = minode[f].i_size
    BY <1>1, <1>2, <1>3 DEF DataTypeOK
  <2>3. call'[f].at = "out" /\ call'[f].left = 0 /\ call'[f].count = 0 /\ call[f].left = 0
    BY <1>1, <1>2, <2>2, NoCallIs DEF FileOK, DataCallOK
  <2>4. DataCallOK(f)'
    <3>1. f \notin entry => acked'[f] = 0
      BY <1>1, <1>2, <2>2, EmptyIs DEF FileOK, DataCallOK
    <3> QED
      BY <1>1, <2>2, <2>3, <3>1 DEF DataCallOK, Creating
  <2>5. f \in Owners' <=> f \in entry
    BY <1>1, <2>3 DEF Owners
  <2>6. f \in entry => OwnerOK(f)'
    <3> SUFFICES ASSUME f \in entry PROVE OwnerOK(f)'
      OBVIOUS
    <3>1. OwnerOK(f)
      BY <1>2 DEF FileOK, Owners
    <3>2. ShapeOK(minode[f], 0) /\ (f \notin crossed => minode[f].i_sectors[Direct] = 0)
      BY <2>3, <3>1 DEF OwnerOK
    <3>3. (\A a \in Own(table, minode[f]) : a - 1 \in block_bitmap /\ a # 1)'
      BY <1>1, <3>1 DEF OwnerOK
    <3>4. Prefix(dinode[f], minode[f])'
      BY <1>3, <2>2 DEF Prefix
    <3>5. ShapeOK(minode[f], call[f].left)' /\ ShapeOK(dinode[f], 0)'
      BY <2>2, <2>3, <3>2 DEF ShapeOK, Has
    <3>6. (f \notin crossed => minode[f].i_sectors[Direct] = 0)'
      BY <1>1, <3>2
    <3> QED
      BY <2>3, <3>3, <3>4, <3>5, <3>6 DEF OwnerOK
  <2>7. f \in entry \ crossed => ContentOK(f)'
    BY <1>1, <1>2, <2>3 DEF FileOK, ContentOK
  <2>8. f \in entry => AckedOK(f)'
    BY <1>3, <2>2 DEF AckedOK
  <2>9. FileOK(f)'
    BY <1>1, <2>4, <2>5, <2>6, <2>7, <2>8 DEF FileOK
  <2>10. f \in Owners' => \A g \in Owners : g # f =>
             \A a \in Own(table, minode[f])' : a \notin Own(table, minode[g])
    <3>1. f \in Owners' => f \in Owners
      BY <2>5 DEF Owners
    <3> QED
      BY <1>1, <1>2, <3>1 DEF Sound, OwnersApart
  <2>11. entry' \subseteq Regular /\ 0 \in block_bitmap' /\ 0 \in disk_bitmap'
    BY <1>1, <1>2 DEF DataTypeOK, Sound
  <2> QED
    BY <1>2, <2>1, <2>9, <2>10, <2>11, StepOf
<1> QED
  BY <1>1, <1>5, <1>6 DEF DataInv

LEMMA DataUnlinkStep ==
  ASSUME DataInv, NEW f \in Regular, sys_unlink_entry(f)
  PROVE  DataInv'
<1>1. /\ lost = "none" /\ lost' = "none" /\ call[f].at = "out" /\ f \in entry
      /\ entry' = entry \ {f}
      /\ call' = [call EXCEPT ![f] = [NoCall EXCEPT !.at = "release"]]
      /\ UNCHANGED <<minode, dinode, block_bitmap, disk_bitmap, data, table, acked, crossed>>
  BY DEF sys_unlink_entry, mem, hist, At
<1>2. DataTypeOK /\ Sound /\ FileOK(f)
  BY <1>1 DEF DataInv, Sound
<1>3. DataTypeOK'
  <2>1. call' \in [Regular -> DataCall]
    BY <1>1, <1>2, NoCallIs DEF DataTypeOK
  <2> QED
    BY <1>1, <1>2, <2>1 DEF DataTypeOK
<1>4. /\ call'[f] = [NoCall EXCEPT !.at = "release"]
      /\ \A g \in Regular : g # f => call'[g] = call[g]
  BY <1>1, <1>2 DEF DataTypeOK
<1>5. call'[f].at = "release" /\ call'[f].left = 0 /\ call'[f].count = 0
  BY <1>4 DEF NoCall
<1>6. \A g \in Regular : g # f => Kept(g) /\ BlocksKept(g)
  BY <1>1, <1>4 DEF Kept, BlocksKept
<1>7. f \in Owners /\ f \in Owners' /\ f \notin entry' /\ call[f].left = 0 /\ call[f].count = 0
      /\ minode[f] = dinode[f]
  BY <1>1, <1>2, <1>5 DEF Owners, FileOK, DataCallOK
<1>8. DataCallOK(f)'
  BY <1>1, <1>5, <1>7 DEF DataCallOK, Creating
<1>9. OwnerOK(f)'
  BY <1>1, <1>2, <1>5, <1>7 DEF FileOK, OwnerOK, Creating
<1>10. FileOK(f)'
  BY <1>7, <1>8, <1>9 DEF FileOK
<1>11. \A g \in Owners : g # f =>
             \A a \in Own(table, minode[f])' : a \notin Own(table, minode[g])
  BY <1>1, <1>2, <1>7 DEF Sound, OwnersApart
<1>12. entry' \subseteq Regular /\ 0 \in block_bitmap' /\ 0 \in disk_bitmap'
  BY <1>1, <1>2 DEF DataTypeOK, Sound
<1>13. Sound'
  BY <1>2, <1>6, <1>10, <1>11, <1>12, StepOf
<1> QED
  BY <1>1, <1>3, <1>13 DEF DataInv

LEMMA DataCreateStep ==
  ASSUME DataInv, NEW f \in Regular, file_create_empty(f)
  PROVE  DataInv'
<1>1. /\ lost = "none" /\ lost' = "none" /\ call[f].at = "out" /\ f \notin entry
      /\ entry' = entry \cup {f}
      /\ minode' = [minode EXCEPT ![f] = EmptyInode]
      /\ call' = [call EXCEPT ![f] = [NoCall EXCEPT !.at = "sync", !.count = -1]]
      /\ UNCHANGED <<dinode, block_bitmap, disk_bitmap, data, table, acked, crossed>>
  BY DEF file_create_empty, hist, At
<1>2. DataTypeOK /\ Sound /\ FileOK(f)
  BY <1>1 DEF DataInv, Sound
<1>3. DataTypeOK'
  <2>1. call' \in [Regular -> DataCall] /\ minode' \in [Regular -> Inode]
    BY <1>1, <1>2, NoCallIs, EmptyIs DEF DataTypeOK
  <2> QED
    BY <1>1, <1>2, <2>1 DEF DataTypeOK
<1>4. /\ call'[f] = [NoCall EXCEPT !.at = "sync", !.count = -1] /\ minode'[f] = EmptyInode
      /\ \A g \in Regular : g # f => call'[g] = call[g] /\ minode'[g] = minode[g]
  BY <1>1, <1>2 DEF DataTypeOK
<1>5. call'[f].at = "sync" /\ call'[f].left = 0 /\ call'[f].count = -1
  BY <1>4 DEF NoCall
<1>6. \A g \in Regular : g # f => Kept(g) /\ BlocksKept(g)
  BY <1>1, <1>4 DEF Kept, BlocksKept
<1>7. DataCallOK(f)'
  BY <1>1, <1>2, <1>4, <1>5 DEF FileOK, DataCallOK, Creating
<1>8. \A a : a \notin Own(table, minode[f])'
  <2>1. \A a : a \notin Own(table', EmptyInode)
    BY EmptyIs
  <2>2. Own(table, minode[f])' = Own(table', EmptyInode)
    BY <1>4 DEF Own, Entries
  <2> QED
    BY <2>1, <2>2
<1>9. Direct \in 0..Direct /\ \A i \in 0..(Direct - 1) : i \in 0..Direct
  BY DataConstants
<1>10. OwnerOK(f)'
  <2>1. ShapeOK(minode[f], call[f].left)'
    BY <1>4, <1>5, EmptyIs DEF ShapeOK, Has
  <2> QED
    BY <1>4, <1>5, <1>8, <1>9, <2>1, EmptyIs DEF OwnerOK, Creating
<1>11. ContentOK(f)'
  <2>1. \A i \in 0..(Direct - 1) : minode'[f].i_sectors[i] = 0
    BY <1>4, <1>9, EmptyIs
  <2>2. 0..(minode'[f].i_size - 1) = {}
    BY <1>4, EmptyIs
  <2> QED
    BY <1>5, <1>8, <2>1, <2>2 DEF ContentOK
<1>12. AckedOK(f)'
  <2>1. acked'[f] = 0
    BY <1>1, <1>2 DEF FileOK, DataCallOK
  <2> QED
    BY <1>4, <1>5, <2>1, EmptyIs DEF AckedOK, Creating
<1>13. FileOK(f)'
  BY <1>7, <1>10, <1>11, <1>12 DEF FileOK
<1>14. entry' \subseteq Regular /\ 0 \in block_bitmap' /\ 0 \in disk_bitmap'
  BY <1>1, <1>2 DEF DataTypeOK, Sound
<1>15. Sound'
  BY <1>2, <1>6, <1>8, <1>13, <1>14, StepOf
<1> QED
  BY <1>1, <1>3, <1>15 DEF DataInv

LEMMA SyncType ==
  ASSUME NEW d \in SUBSET (0..(NBlocks - 1)), NEW m \in SUBSET (0..(NBlocks - 1)), NEW bits
  PROVE  bitmap_sync(d, m, bits) \subseteq 0..(NBlocks - 1)
  BY DEF bitmap_sync

LEMMA ReleaseStep ==
  ASSUME DataInv, NEW f \in Regular, inode_release(f)
  PROVE  DataInv'
<1>0. PICK freed : freed = Refs(dinode[f])
  OBVIOUS
<1>1. /\ lost = "none" /\ lost' = "none" /\ call[f].at = "release"
      /\ block_bitmap' = block_bitmap \ freed
      /\ disk_bitmap' = bitmap_sync(disk_bitmap, block_bitmap', freed)
      /\ minode' = [minode EXCEPT ![f] = EmptyInode]
      /\ call' = [call EXCEPT ![f].at = "sync"]
      /\ crossed' = crossed \ {f}
      /\ UNCHANGED <<dinode, entry, data, table, acked>>
  BY <1>0 DEF inode_release, At
<1>2. DataTypeOK /\ Sound /\ FileOK(f)
  BY <1>1 DEF DataInv, Sound
<1>3. /\ call[f] \in DataCall /\ f \notin entry /\ f \in Owners /\ minode[f] = dinode[f]
      /\ call[f].left = 0 /\ call[f].count = 0
  BY <1>1, <1>2 DEF DataTypeOK, FileOK, DataCallOK, Owners
<1>4. /\ call'[f] = [call[f] EXCEPT !.at = "sync"] /\ minode'[f] = EmptyInode
      /\ \A g \in Regular : g # f => call'[g] = call[g] /\ minode'[g] = minode[g]
  BY <1>1, <1>2 DEF DataTypeOK
<1>5. /\ call'[f].at = "sync" /\ call'[f].left = 0 /\ call'[f].count = 0 /\ call'[f] \in DataCall
  BY <1>3, <1>4 DEF DataCall
<1>6. DataTypeOK'
  <2>1. call' \in [Regular -> DataCall] /\ minode' \in [Regular -> Inode]
    BY <1>1, <1>2, <1>4, <1>5, EmptyIs DEF DataTypeOK
  <2>2. block_bitmap' \subseteq 0..(NBlocks - 1)
    BY <1>1, <1>2 DEF DataTypeOK
  <2>3. disk_bitmap' \subseteq 0..(NBlocks - 1)
    BY <1>1, <1>2, <2>2, SyncType DEF DataTypeOK
  <2> QED
    BY <1>1, <1>2, <2>1, <2>2, <2>3 DEF DataTypeOK
<1>7. \A b \in freed : \E a \in Own(table, minode[f]) : b = a - 1
  BY <1>0, <1>3, RefsIs
<1>8. \A b \in disk_bitmap : b \in block_bitmap' => b \in disk_bitmap'
  BY <1>1, SyncIs
<1>9. ASSUME NEW g \in Regular, g # f, g \in Owners, NEW a \in Own(table, minode[g])
      PROVE  a - 1 \notin freed
  <2> SUFFICES ASSUME a - 1 \in freed PROVE FALSE
    OBVIOUS
  <2>1. PICK c \in Own(table, minode[f]) : a - 1 = c - 1
    BY <1>7
  <2>2. a \in Lbas /\ c \in Lbas
    BY <1>2, OwnType DEF DataTypeOK
  <2>3. a = c
    BY <2>1, <2>2 DEF Lbas
  <2> QED
    BY <1>2, <1>3, <1>9, <2>3 DEF Sound, OwnersApart
<1>10. ASSUME NEW g \in Regular, g # f PROVE Kept(g) /\ (g \in Owners => BlocksKept(g))
  <2>1. Kept(g)
    BY <1>1, <1>4, <1>10 DEF Kept
  <2>2. g \in Owners => BlocksKept(g)
    BY <1>1, <1>8, <1>9, <1>10 DEF BlocksKept
  <2> QED
    BY <2>1, <2>2
<1>11. 0 \in block_bitmap' /\ 0 \in disk_bitmap'
  <2>1. 0 \notin freed
    <3> SUFFICES ASSUME 0 \in freed PROVE FALSE
      OBVIOUS
    <3>1. PICK a \in Own(table, minode[f]) : 0 = a - 1
      BY <1>7
    <3>2. a \in Lbas /\ a # 1
      BY <1>2, <1>3, OwnType DEF DataTypeOK, FileOK, OwnerOK
    <3> QED
      BY <3>1, <3>2 DEF Lbas
  <2> QED
    BY <1>1, <1>2, <1>8, <2>1 DEF Sound
<1>12. f \notin Owners' /\ f \notin entry'
  BY <1>1, <1>3, <1>5 DEF Owners
<1>13. DataCallOK(f)'
  BY <1>4, <1>5, <1>12 DEF DataCallOK, Creating
<1>14. FileOK(f)'
  BY <1>12, <1>13 DEF FileOK
<1>15. entry' \subseteq Regular
  BY <1>6 DEF DataTypeOK
<1>16. Sound'
  BY <1>2, <1>10, <1>11, <1>12, <1>14, <1>15, StepOf
<1> QED
  BY <1>1, <1>6, <1>16 DEF DataInv

-----------------------------------------------------------------------------
(***************************************************************************)
(* A crash.  What is on disk of a file is an earlier moment of it, so its  *)
(* blocks are among the blocks it has in memory.                           *)
(***************************************************************************)
LEMMA EarlierBlocks ==
  ASSUME NEW t, NEW d, NEW m, Prefix(d, m)
  PROVE  \A a \in Own(t, d) : a \in Own(t, m)
<1>1. Direct \in 0..Direct
  BY DataConstants
<1>2. d.i_sectors[Direct] # 0 => d.i_sectors[Direct] = m.i_sectors[Direct]
  BY <1>1 DEF Prefix
<1> QED
  BY <1>2, OwnIs DEF Prefix

LEMMA RebootStep ==
  ASSUME DataInv, reboot
  PROVE  DataInv'
<1>1. /\ lost \in {"none", "panic"}
      /\ minode' = dinode /\ block_bitmap' = disk_bitmap
      /\ call' = [f \in Regular |-> NoCall]
      /\ acked' = [f \in Regular |-> IF f \in entry THEN acked[f] ELSE 0]
      /\ UNCHANGED <<dinode, entry, disk_bitmap, data, table, crossed>>
      /\ lost' = IF Torn THEN "torn" ELSE IF Unmarked THEN "unmarked" ELSE "none"
  BY DEF reboot, disk
<1>2. DataTypeOK /\ Sound
  BY <1>1 DEF DataInv
<1>3. DataTypeOK'
  BY <1>1, <1>2, NoCallIs DEF DataTypeOK
<1>4. ASSUME ~Torn, NEW f \in entry
      PROVE  /\ f \in Regular /\ f \in Owners /\ ~Creating(f) /\ OwnerOK(f)
             /\ \A a \in Own(table, dinode[f]) : a \in Own(table, minode[f])
             /\ dinode[f] \in Inode /\ minode[f] \in Inode
  <2>1. f \in Regular /\ f \in Owners /\ ~Creating(f)
    BY <1>2, <1>4 DEF Torn, Owners, DataTypeOK
  <2>2. OwnerOK(f)
    BY <1>2, <2>1 DEF Sound, FileOK
  <2>3. Prefix(dinode[f], minode[f])
    BY <2>1, <2>2 DEF OwnerOK
  <2>4. \A a \in Own(table, dinode[f]) : a \in Own(table, minode[f])
    BY <2>3, EarlierBlocks
  <2>5. dinode[f] \in Inode /\ minode[f] \in Inode
    BY <1>2, <2>1 DEF DataTypeOK
  <2> QED
    BY <2>1, <2>2, <2>4, <2>5
<1>5. lost' = "unmarked" => crossed' # {}
  <2> SUFFICES ASSUME ~Torn, Unmarked, crossed = {} PROVE FALSE
    BY <1>1
  <2>1. PICK f \in entry : ~(Refs(dinode[f]) \subseteq disk_bitmap)
    BY DEF Unmarked
  <2>2. PICK a \in Own(table, dinode[f]) : a - 1 \notin disk_bitmap
    BY <2>1, RefsIs
  <2>3. a \in Own(table, minode[f]) /\ f \in Regular
    BY <1>4, <2>2
  <2>4. ContentOK(f)
    BY <1>2, <2>3 DEF Sound, FileOK
  <2> QED
    BY <2>2, <2>3, <2>4 DEF ContentOK
<1>6. ASSUME lost' = "none" PROVE Sound'
  <2>1. ~Torn /\ ~Unmarked
    BY <1>1, <1>6
  <2>2. \A f \in Regular : /\ call'[f].at = "out" /\ call'[f].left = 0 /\ call'[f].count = 0
                           /\ minode'[f] = dinode[f] /\ dinode'[f] = dinode[f]
                           /\ acked'[f] = IF f \in entry THEN acked[f] ELSE 0
    BY <1>1, NoCallIs
  <2>3. \A f \in Regular : DataCallOK(f)'
    BY <1>1, <2>2 DEF DataCallOK, Creating
  <2>4. Owners' = entry
    BY <1>1, <2>2 DEF Owners
  <2>5. \A f : Own(table, minode[f])' = Own(table, dinode[f])
    BY <1>1 DEF Own, Entries
  <2>6. ASSUME NEW f \in entry PROVE OwnerOK(f)'
    <3>1. f \in Regular /\ ShapeOK(dinode[f], 0) /\ Prefix(dinode[f], minode[f]) /\ OwnerOK(f)
      BY <1>4, <2>1 DEF OwnerOK
    <3>2. ASSUME NEW a \in Own(table, dinode[f]) PROVE a - 1 \in disk_bitmap /\ a # 1
      <4>1. a - 1 \in Refs(dinode[f])
        BY RefsIs
      <4>2. a - 1 \in disk_bitmap
        BY <2>1, <4>1 DEF Unmarked
      <4>3. a \in Own(table, minode[f])
        BY <1>4, <2>1
      <4> QED
        BY <3>1, <4>2, <4>3 DEF OwnerOK
    <3>3. (\A a \in Own(table, minode[f]) : a - 1 \in block_bitmap /\ a # 1)'
      BY <1>1, <2>5, <3>2
    <3>4. ASSUME f \notin crossed PROVE dinode[f].i_sectors[Direct] = 0
      <4>1. minode[f].i_sectors[Direct] = 0 /\ Direct \in 0..Direct
        BY <3>1, <3>4, DataConstants DEF OwnerOK
      <4> QED
        BY <3>1, <4>1 DEF Prefix
    <3>5. Prefix(dinode[f], minode[f])'
      <4>1. dinode[f].i_size \in Nat
        BY <1>4, <2>1 DEF Inode
      <4> QED
        BY <2>2, <3>1, <4>1 DEF Prefix
    <3>6. ShapeOK(minode[f], call[f].left)' /\ ShapeOK(dinode[f], 0)'
      BY <2>2, <3>1 DEF ShapeOK, Has
    <3>7. (f \notin crossed => minode[f].i_sectors[Direct] = 0)' /\ call'[f].at # "chunk"
      BY <1>1, <2>2, <3>1, <3>4
    <3> QED
      BY <3>3, <3>5, <3>6, <3>7 DEF OwnerOK
  <2>7. ASSUME NEW f \in entry, f \notin crossed PROVE ContentOK(f)'
    <3>1. /\ f \in Regular /\ ShapeOK(dinode[f], 0) /\ Prefix(dinode[f], minode[f])
          /\ minode[f].i_sectors[Direct] = 0 /\ dinode[f] \in Inode /\ minode[f] \in Inode
      BY <1>4, <2>1, <2>7 DEF OwnerOK
    <3>2. ContentOK(f)
      BY <1>2, <2>7, <3>1 DEF Sound, FileOK
    <3>3. (\A a \in Own(table, minode[f]) : a - 1 \in disk_bitmap)'
      BY <1>1, <1>4, <2>1, <2>5, <3>2 DEF ContentOK
    <3>4. Direct \in 0..Direct /\ \A i \in 0..(Direct - 1) : i \in 0..Direct
      BY DataConstants
    <3>5. ASSUME NEW i \in 0..(Direct - 1), NEW j \in 0..(Direct - 1),
                 dinode[f].i_sectors[i] = dinode[f].i_sectors[j], dinode[f].i_sectors[i] # 0
          PROVE  i = j
      <4>1. /\ minode[f].i_sectors[i] = dinode[f].i_sectors[i]
            /\ minode[f].i_sectors[j] = dinode[f].i_sectors[j]
        BY <3>1, <3>4, <3>5 DEF Prefix
      <4> QED
        BY <3>2, <3>5, <4>1 DEF ContentOK
    <3>6. dinode[f].i_sectors[Direct] = 0
      BY <3>1, <3>4 DEF Prefix
    <3>7. ASSUME NEW i \in 0..(dinode[f].i_size - 1)
          PROVE  data[dinode[f].i_sectors[i \div BlockSize]][i % BlockSize] = <<f, i>>
      <4>1. /\ dinode[f].i_size \in Nat /\ minode[f].i_size \in Nat
            /\ dinode[f].i_size <= minode[f].i_size
        BY <3>1 DEF Inode, Prefix
      <4>2. /\ i \in 0..(dinode[f].i_size + 0) /\ i < dinode[f].i_size
            /\ i \in 0..(minode[f].i_size - 1)
        BY <4>1
      <4>3. /\ i \div BlockSize \in 0..(Direct - 1) /\ dinode[f].i_sectors[i \div BlockSize] # 0
        BY <3>1, <3>6, <4>2, ByteHome
      <4>4. dinode[f].i_sectors[i \div BlockSize] = minode[f].i_sectors[i \div BlockSize]
        BY <3>1, <3>4, <4>3 DEF Prefix
      <4> QED
        BY <3>2, <4>2, <4>4 DEF ContentOK
    <3>8. minode'[f] = dinode[f] /\ data' = data /\ call'[f].at # "chunk"
      BY <1>1, <2>2, <3>1
    <3> QED
      BY <3>3, <3>5, <3>7, <3>8 DEF ContentOK
  <2>8. ASSUME NEW f \in entry PROVE AckedOK(f)'
    <3>1. f \in Regular /\ ~Creating(f)
      BY <1>4, <2>1
    <3>2. acked[f] <= dinode[f].i_size
      BY <1>2, <3>1 DEF Sound, FileOK, AckedOK
    <3> QED
      BY <2>2, <3>1, <3>2 DEF AckedOK
  <2>9. \A f \in Regular : FileOK(f)'
    BY <1>1, <2>3, <2>4, <2>6, <2>7, <2>8 DEF FileOK
  <2>10. OwnersApart'
    <3>1. ASSUME NEW f \in entry, NEW g \in entry, f # g, NEW a \in Own(table, dinode[f])
          PROVE  a \notin Own(table, dinode[g])
      <4>1. /\ f \in Owners /\ g \in Owners
            /\ a \in Own(table, minode[f])
            /\ a \in Own(table, dinode[g]) => a \in Own(table, minode[g])
        BY <1>4, <2>1
      <4> QED
        BY <1>2, <3>1, <4>1 DEF Sound, OwnersApart
    <3> QED
      BY <2>4, <2>5, <3>1 DEF OwnersApart
  <2> QED
    BY <1>1, <1>2, <2>9, <2>10 DEF Sound
<1> QED
  BY <1>1, <1>3, <1>5, <1>6 DEF DataInv

-----------------------------------------------------------------------------
LEMMA WritePanicsStep ==
  ASSUME DataInv, NEW f \in Regular, NEW n, file_write_panics(f, n)
  PROVE  DataInv'
<1>1. /\ lost = "none" /\ lost' = "panic"
      /\ UNCHANGED <<minode, dinode, entry, block_bitmap, data, table, call, acked, crossed>>
      /\ \/ disk_bitmap' = disk_bitmap
         \/ \E bits : disk_bitmap' = bitmap_sync(disk_bitmap, block_bitmap \cup Free, bits)
  BY DEF file_write_panics, mem, At
<1>2. DataTypeOK /\ Sound
  BY <1>1 DEF DataInv
<1>3. /\ disk_bitmap' \subseteq 0..(NBlocks - 1)
      /\ \A b \in disk_bitmap : b \in block_bitmap => b \in disk_bitmap'
  <2>1. CASE disk_bitmap' = disk_bitmap
    BY <1>2, <2>1 DEF DataTypeOK
  <2>2. ASSUME NEW bits, disk_bitmap' = bitmap_sync(disk_bitmap, block_bitmap \cup Free, bits)
        PROVE  /\ disk_bitmap' \subseteq 0..(NBlocks - 1)
               /\ \A b \in disk_bitmap : b \in block_bitmap => b \in disk_bitmap'
    <3>1. PICK m \in SUBSET (0..(NBlocks - 1)) : m = block_bitmap \cup Free
      BY <1>2 DEF DataTypeOK, Free
    <3>2. disk_bitmap' = bitmap_sync(disk_bitmap, m, bits)
      BY <2>2, <3>1
    <3>3. disk_bitmap' \subseteq 0..(NBlocks - 1)
      BY <1>2, <3>2, SyncType DEF DataTypeOK
    <3>4. \A b \in disk_bitmap : b \in m => b \in disk_bitmap'
      BY <3>2, SyncIs
    <3> QED
      BY <3>1, <3>3, <3>4
  <2> QED
    BY <1>1, <2>1, <2>2
<1>4. DataTypeOK'
  BY <1>1, <1>2, <1>3 DEF DataTypeOK
<1>5. \A g \in Regular : Kept(g) /\ BlocksKept(g)
  BY <1>1, <1>3 DEF Kept, BlocksKept
<1>6. entry' \subseteq Regular /\ 0 \in block_bitmap' /\ 0 \in disk_bitmap'
  BY <1>1, <1>2, <1>3 DEF DataTypeOK, Sound
<1>7. Sound'
  BY <1>2, <1>5, <1>6, StepOfNone
<1> QED
  BY <1>1, <1>4, <1>7 DEF DataInv

\* One turn of the loop, with the numbers by name
Turn(f, a, off, n) ==
    /\ a = call[f].blocks[minode[f].i_size \div BlockSize]
    /\ off = minode[f].i_size % BlockSize
    /\ n = IF call[f].left < BlockSize - off THEN call[f].left ELSE BlockSize - off

LEMMA TurnIs ==
  ASSUME DataTypeOK, Sound, NEW f \in Regular, call[f].at = "chunk",
         NEW a, NEW off, NEW n, Turn(f, a, off, n)
  PROVE  /\ n \in Nat /\ n > 0 /\ n <= call[f].left /\ off \in Off /\ off + n <= BlockSize
         /\ minode[f].i_size \in Nat /\ call[f].left \in Nat
         /\ call[f].left # n => (minode[f].i_size + n) % BlockSize = 0
         /\ f \in entry /\ f \in Owners /\ OwnerOK(f)
         /\ a \in Lbas /\ a \in {0} \cup Own(table, minode[f])
         /\ f \notin crossed =>
               /\ minode[f].i_size \div BlockSize \in 0..(Direct - 1)
               /\ a = minode[f].i_sectors[minode[f].i_size \div BlockSize] /\ a # 0
               /\ minode[f].i_sectors[Direct] = 0
<1>1. /\ minode[f] \in Inode /\ minode[f].i_size \in Nat /\ call[f] \in DataCall
      /\ call[f].left \in Nat /\ call[f].blocks \in [0..(MaxBlocks - 1) -> Lbas]
  BY DEF DataTypeOK, Inode, DataCall
<1>2. PICK s \in Nat, l \in Nat : s = minode[f].i_size /\ l = call[f].left
  BY <1>1
<1>3. PICK B \in Nat : B = BlockSize /\ B > 0
  BY DataConstants
<1>4. FileOK(f) /\ DataCallOK(f) /\ f \in entry /\ f \in Owners /\ OwnerOK(f) /\ l > 0
  BY <1>2 DEF Sound, FileOK, DataCallOK, Owners
<1>5. off \in 0..(B - 1) /\ off = s % B
  BY <1>2, <1>3, Division DEF Turn
<1>6. n = IF l < B - off THEN l ELSE B - off
  BY <1>2, <1>3 DEF Turn
<1>7. n \in Nat /\ n > 0 /\ n <= l /\ off + n <= B /\ (l # n => off + n = B)
  BY <1>3, <1>4, <1>5, <1>6
<1>8. l # n => (s + n) % BlockSize = 0
  <2> SUFFICES ASSUME l # n PROVE (s + n) % BlockSize = 0
    OBVIOUS
  <2>1. (s % BlockSize) + n = BlockSize
    BY <1>3, <1>5, <1>7
  <2> QED
    BY <1>7, <2>1, ToTheEnd
<1>9. PICK q \in Nat : q = s \div BlockSize
  BY Division
<1>10. q \in 0..(MaxBlocks - 1)
  <2>1. ShapeOK(minode[f], l)
    BY <1>2, <1>4 DEF OwnerOK
  <2>2. s + l < BlockSize * MaxBlocks
    BY <1>2, <2>1 DEF ShapeOK
  <2>3. s < BlockSize * MaxBlocks
    <3>1. PICK M \in Nat : M = BlockSize * MaxBlocks
      BY DataConstants
    <3> QED
      BY <2>2, <3>1
  <2>4. s \div BlockSize < MaxBlocks
    BY <2>3, DivisionBound, DataConstants
  <2> QED
    BY <1>9, <2>4, DataConstants
<1>11. a = call[f].blocks[q]
  BY <1>2, <1>9 DEF Turn
<1>12. a \in Lbas /\ a \in {0} \cup Own(table, minode[f])
  BY <1>1, <1>4, <1>10, <1>11 DEF OwnerOK
<1>13. ASSUME f \notin crossed
       PROVE  q \in 0..(Direct - 1) /\ a = minode[f].i_sectors[q] /\ a # 0
              /\ minode[f].i_sectors[Direct] = 0
  <2>1. /\ ShapeOK(minode[f], l) /\ minode[f].i_sectors[Direct] = 0 /\ ContentOK(f)
    BY <1>2, <1>4, <1>13 DEF OwnerOK, FileOK
  <2>2. minode[f].i_sectors[0] # 0
    BY <1>2, <1>4, <2>1 DEF ShapeOK
  <2>3. s \in 0..(minode[f].i_size + l)
    BY <1>2
  <2>4. q \in 0..(Direct - 1) /\ minode[f].i_sectors[q] # 0
    BY <1>1, <1>9, <2>1, <2>2, <2>3, ByteHome
  <2>5. q \in (minode[f].i_size \div BlockSize)..(Direct - 1)
    BY <1>2, <1>9, <2>4, DataConstants
  <2>6. q < UsedBlocks(minode[f].i_size + call[f].left)
    <3>1. s + l \in Nat /\ s <= s + l
      OBVIOUS
    <3>2. s \div BlockSize <= (s + l) \div BlockSize /\ (s + l) \div BlockSize \in Nat
      BY <3>1, DivisionGrows, Division
    <3>3. q < UsedBlocks(s + l)
      BY <1>9, <3>2 DEF UsedBlocks
    <3> QED
      BY <1>2, <3>3
  <2>7. call[f].blocks[q] = minode[f].i_sectors[q]
    BY <2>1, <2>5, <2>6 DEF ContentOK
  <2> QED
    BY <1>11, <2>1, <2>4, <2>7
<1> QED
  BY <1>1, <1>2, <1>3, <1>4, <1>5, <1>7, <1>8, <1>9, <1>12, <1>13 DEF Off

\* The block as a turn leaves it
Chunk(f, a, off, n) ==
    [o \in Off |->
        IF o \in off..(off + n - 1) THEN <<f, minode[f].i_size + o - off>>
        ELSE IF call[f].left = call[f].count THEN data[a][o] ELSE Zero]

\* The bytes of a file of direct blocks after a turn
LEMMA ChunkBytes ==
  ASSUME DataTypeOK, Sound, NEW f \in Regular, call[f].at = "chunk", f \notin crossed,
         NEW a, NEW off, NEW n, Turn(f, a, off, n),
         data' = [data EXCEPT ![a] = Chunk(f, a, off, n)],
         NEW i \in 0..(minode[f].i_size + n - 1)
  PROVE  data'[minode[f].i_sectors[i \div BlockSize]][i % BlockSize] = <<f, i>>
<1>1. /\ n \in Nat /\ n > 0 /\ n <= call[f].left /\ off \in Off /\ off + n <= BlockSize
      /\ minode[f].i_size \in Nat /\ call[f].left \in Nat
      /\ f \in entry /\ f \in Owners /\ OwnerOK(f)
      /\ a \in Lbas
      /\ minode[f].i_size \div BlockSize \in 0..(Direct - 1)
      /\ a = minode[f].i_sectors[minode[f].i_size \div BlockSize] /\ a # 0
      /\ minode[f].i_sectors[Direct] = 0
  BY TurnIs
<1>2. PICK s \in Nat : s = minode[f].i_size
  BY <1>1
<1>3. ContentOK(f) /\ DataCallOK(f) /\ minode[f] \in Inode
  BY <1>1 DEF Sound, FileOK, DataTypeOK
<1>4. off = s % BlockSize
  BY <1>2 DEF Turn
<1>5. data'[a] = Chunk(f, a, off, n) /\ \A b \in Lbas : b # a => data'[b] = data[b]
  BY <1>1 DEF DataTypeOK
<1>6. i \in Nat /\ i < s + n /\ i % BlockSize \in Off /\ i \div BlockSize \in Nat
  BY <1>1, <1>2, Division DEF Off
<1>7. CASE i < s
  <2>1. i \in 0..(minode[f].i_size - 1) /\ i \in 0..(minode[f].i_size + call[f].left)
    BY <1>1, <1>2, <1>6, <1>7
  <2>2. data[minode[f].i_sectors[i \div BlockSize]][i % BlockSize] = <<f, i>>
    BY <1>3, <2>1 DEF ContentOK
  <2>3. i \div BlockSize \in 0..(Direct - 1) /\ minode[f].i_sectors[i \div BlockSize] # 0
    <3>1. ShapeOK(minode[f], call[f].left)
      BY <1>1 DEF OwnerOK
    <3>2. i < minode[f].i_size
      BY <1>2, <1>7
    <3>3. PICK ino \in Inode, left \in Nat : ino = minode[f] /\ left = call[f].left
      BY <1>1, <1>3
    <3>4. /\ ShapeOK(ino, left) /\ ino.i_sectors[Direct] = 0
          /\ i \in 0..(ino.i_size + left) /\ i < ino.i_size
      BY <1>1, <2>1, <3>1, <3>2, <3>3
    <3>5. i \div BlockSize \in 0..(Direct - 1) /\ ino.i_sectors[i \div BlockSize] # 0
      BY <3>4, ByteHome
    <3> QED
      BY <3>3, <3>5
  <2>4. CASE i \div BlockSize # s \div BlockSize
    <3>1. minode[f].i_sectors[i \div BlockSize] # a
      <4>1. PICK p \in 0..(Direct - 1), q \in 0..(Direct - 1) :
               p = i \div BlockSize /\ q = s \div BlockSize
        BY <1>1, <1>2, <2>3
      <4>2. p # q /\ minode[f].i_sectors[p] # 0 /\ a = minode[f].i_sectors[q]
        BY <1>1, <1>2, <2>3, <2>4, <4>1
      <4> QED
        BY <1>3, <4>1, <4>2 DEF ContentOK
    <3>2. minode[f].i_sectors[i \div BlockSize] \in Lbas
      BY <1>3, <2>3, DataConstants DEF Inode, Sectors
    <3> QED
      BY <1>5, <2>2, <3>1, <3>2
  <2>5. CASE i \div BlockSize = s \div BlockSize
    <3>1. i % BlockSize < off
      BY <1>4, <1>6, <1>7, <2>5, BeforeInBlock
    <3>2. off # 0
      BY <1>1, <1>6, <3>1, DataConstants DEF Off
    <3>3. call[f].left = call[f].count
      <4>1. /\ call[f].left <= call[f].count
            /\ call[f].left < call[f].count => s % BlockSize = 0
        BY <1>2, <1>3 DEF DataCallOK
      <4>2. call[f].count \in Int
        BY DEF DataTypeOK, DataCall
      <4> QED
        BY <1>1, <1>4, <3>2, <4>1, <4>2
    <3>4. minode[f].i_sectors[i \div BlockSize] = a
      BY <1>1, <1>2, <2>5
    <3>5. i % BlockSize \notin off..(off + n - 1)
      BY <1>1, <1>6, <3>1 DEF Off
    <3>6. Chunk(f, a, off, n)[i % BlockSize] = data[a][i % BlockSize]
      BY <1>6, <3>3, <3>5 DEF Chunk
    <3> QED
      BY <1>5, <2>2, <3>4, <3>6
  <2> QED
    BY <2>4, <2>5
<1>8. CASE ~(i < s)
  <2>1. PICK k \in Nat : i = s + k /\ k < n
    <3>1. i - s \in Nat /\ i = s + (i - s) /\ i - s < n
      BY <1>1, <1>6, <1>8
    <3> QED
      BY <3>1
  <2>2. (s % BlockSize) + k < BlockSize
    <3>1. PICK B \in Nat : B = BlockSize
      BY DataConstants
    <3>2. off \in Nat /\ off + n <= B
      BY <1>1, <3>1, DataConstants DEF Off
    <3>3. off + k < B
      BY <1>1, <2>1, <3>2
    <3> QED
      BY <1>4, <3>1, <3>3
  <2>3. /\ (s + k) \div BlockSize = s \div BlockSize
        /\ (s + k) % BlockSize = (s % BlockSize) + k
    BY <2>2, SameBlock
  <2>4. i \div BlockSize = s \div BlockSize /\ i % BlockSize = off + k
    BY <1>4, <2>1, <2>3
  <2>5. PICK o \in Off : o = i % BlockSize
    BY <1>6
  <2>6. o \in off..(off + n - 1) /\ s + o - off = i
    BY <1>1, <2>1, <2>4, <2>5, DataConstants DEF Off
  <2>7. Chunk(f, a, off, n)[o] = <<f, s + o - off>>
    BY <1>2, <2>6 DEF Chunk
  <2>8. minode[f].i_sectors[i \div BlockSize] = a
    BY <1>1, <1>2, <2>4
  <2> QED
    BY <1>5, <2>5, <2>6, <2>7, <2>8
<1> QED
  BY <1>7, <1>8

LEMMA ChunkStep ==
  ASSUME DataInv, NEW f \in Regular, file_write_chunk(f)
  PROVE  DataInv'
<1>0. PICK a, off : /\ a = call[f].blocks[minode[f].i_size \div BlockSize]
                    /\ off = minode[f].i_size % BlockSize
  OBVIOUS
<1>1. PICK n : n = IF call[f].left < BlockSize - off THEN call[f].left ELSE BlockSize - off
  OBVIOUS
<1>2. Turn(f, a, off, n)
  BY <1>0, <1>1 DEF Turn
<1>3. /\ lost = "none" /\ lost' = "none" /\ call[f].at = "chunk"
      /\ data' = [data EXCEPT ![a] = Chunk(f, a, off, n)]
      /\ minode' = [minode EXCEPT ![f].i_size = @ + n]
      /\ call' = [call EXCEPT ![f].left = @ - n,
                              ![f].at = IF call[f].left = n THEN "sync" ELSE @]
      /\ UNCHANGED <<dinode, entry, disk_bitmap, table, block_bitmap, acked, crossed>>
  BY <1>0, <1>1 DEF file_write_chunk, Chunk, hist, At
<1>4. DataTypeOK /\ Sound /\ FileOK(f)
  BY <1>3 DEF DataInv, Sound
<1>5. /\ n \in Nat /\ n > 0 /\ n <= call[f].left /\ off \in Off /\ off + n <= BlockSize
      /\ minode[f].i_size \in Nat /\ call[f].left \in Nat
      /\ call[f].left # n => (minode[f].i_size + n) % BlockSize = 0
      /\ f \in entry /\ f \in Owners /\ OwnerOK(f)
      /\ a \in Lbas /\ a \in {0} \cup Own(table, minode[f])
      /\ f \notin crossed => minode[f].i_sectors[Direct] = 0
  BY <1>2, <1>3, <1>4, TurnIs
<1>6. PICK s \in Nat, l \in Nat : s = minode[f].i_size /\ l = call[f].left
  BY <1>5
<1>7. minode[f] \in Inode /\ call[f] \in DataCall
  BY <1>4 DEF DataTypeOK
<1>8. /\ minode'[f] = [minode[f] EXCEPT !.i_size = s + n]
      /\ call'[f] = [call[f] EXCEPT !.left = l - n, !.at = IF l = n THEN "sync" ELSE @]
      /\ \A g \in Regular : g # f => call'[g] = call[g] /\ minode'[g] = minode[g]
  BY <1>3, <1>4, <1>6 DEF DataTypeOK
<1>9. /\ minode'[f].i_size = s + n /\ minode'[f].i_sectors = minode[f].i_sectors
      /\ minode'[f] \in Inode
  BY <1>5, <1>7, <1>8 DEF Inode
<1>10. /\ call'[f].left = l - n /\ call'[f].at = (IF l = n THEN "sync" ELSE "chunk")
       /\ call'[f].count = call[f].count /\ call'[f].blocks = call[f].blocks
       /\ call'[f] \in DataCall
  <2>1. PICK c \in DataCall, m \in Nat : c = call[f] /\ m = l - n /\ c.at = "chunk"
    BY <1>3, <1>5, <1>6, <1>7
  <2>2. PICK at \in {"sync", "chunk"} : at = IF l = n THEN "sync" ELSE "chunk"
    OBVIOUS
  <2>3. call'[f] = [c EXCEPT !.left = m, !.at = at]
    BY <1>8, <2>1, <2>2
  <2>4. /\ [c EXCEPT !.left = m, !.at = at] \in DataCall
        /\ [c EXCEPT !.left = m, !.at = at].left = m
        /\ [c EXCEPT !.left = m, !.at = at].at = at
        /\ [c EXCEPT !.left = m, !.at = at].count = c.count
        /\ [c EXCEPT !.left = m, !.at = at].blocks = c.blocks
    BY DEF DataCall
  <2> QED
    BY <2>1, <2>2, <2>3, <2>4
<1>11. DataTypeOK'
  <2>1. minode' \in [Regular -> Inode] /\ call' \in [Regular -> DataCall]
    BY <1>3, <1>4, <1>8, <1>9, <1>10 DEF DataTypeOK
  <2>2. Chunk(f, a, off, n) \in [Off -> Byte]
    <3>1. ASSUME NEW o \in Off, o \in off..(off + n - 1)
          PROVE  <<f, minode[f].i_size + o - off>> \in Byte
      <4>1. minode[f].i_size + o - off \in Nat
        BY <1>5, <3>1, DataConstants DEF Off
      <4> QED
        BY <4>1 DEF Byte
    <3>2. data[a] \in [Off -> Byte]
      BY <1>4, <1>5 DEF DataTypeOK
    <3>3. Zero \in Byte
      BY DEF Byte
    <3> QED
      BY <3>1, <3>2, <3>3 DEF Chunk
  <2>3. data' \in [Lbas -> [Off -> Byte]]
    BY <1>3, <1>4, <2>2 DEF DataTypeOK
  <2> QED
    BY <1>3, <1>4, <2>1, <2>3 DEF DataTypeOK
<1>12. ASSUME NEW g \in Regular, g # f PROVE Kept(g) /\ (g \in Owners => BlocksKept(g))
  <2>1. Kept(g)
    BY <1>3, <1>8, <1>12 DEF Kept
  <2>2. ASSUME g \in Owners, NEW b \in Own(table, minode[g]) PROVE data'[b] = data[b]
    <3>1. b \in Lbas /\ b # 0
      BY <1>4, OwnType DEF DataTypeOK
    <3>2. b \notin Own(table, minode[f])
      BY <1>4, <1>5, <1>12, <2>2 DEF Sound, OwnersApart
    <3>3. b # a
      BY <1>5, <3>1, <3>2
    <3> QED
      BY <1>3, <1>4, <3>1, <3>3 DEF DataTypeOK
  <2> QED
    BY <1>3, <2>1, <2>2 DEF BlocksKept
<1>13. /\ f \in Owners' /\ f \in entry' /\ ~Creating(f) /\ ~Creating(f)'
  BY <1>3, <1>4, <1>5, <1>10 DEF Owners, Creating, FileOK, DataCallOK
<1>14. DataCallOK(f)'
  <2>1. l <= call[f].count /\ call[f].count \in Int
    BY <1>3, <1>4, <1>6, <1>7 DEF FileOK, DataCallOK, DataCall
  <2>2. CASE l = n
    <3>1. call'[f].at = "sync" /\ call'[f].left = 0
      BY <1>10, <2>2
    <3> QED
      BY <1>13, <3>1 DEF DataCallOK
  <2>3. CASE l # n
    <3>1. call'[f].at = "chunk" /\ call'[f].left > 0 /\ call'[f].left <= call'[f].count
      BY <1>5, <1>6, <1>10, <2>1, <2>3
    <3>2. minode'[f].i_size % BlockSize = 0
      BY <1>5, <1>6, <1>9, <2>3
    <3> QED
      BY <1>13, <3>1, <3>2 DEF DataCallOK
  <2> QED
    BY <2>2, <2>3
<1>15. \A b : b \in Own(table, minode[f])' <=> b \in Own(table, minode[f])
  BY <1>3, <1>9 DEF Own, Entries
<1>16. (s + n) + (l - n) = s + l
  BY <1>5
<1>17. OwnerOK(f)'
  <2>1. ShapeOK(minode[f], call[f].left)'
    <3>1. ShapeOK(minode[f], l)
      BY <1>5, <1>6 DEF OwnerOK
    <3>2. minode'[f].i_size + call'[f].left = minode[f].i_size + l
      BY <1>6, <1>9, <1>10, <1>16
    <3> QED
      BY <1>9, <3>1, <3>2 DEF ShapeOK, Has
  <2>2. ShapeOK(dinode[f], 0)' /\ Prefix(dinode[f], minode[f])'
    <3>1. ShapeOK(dinode[f], 0) /\ Prefix(dinode[f], minode[f])
      BY <1>5, <1>13 DEF OwnerOK
    <3>2. dinode[f].i_size \in Nat /\ dinode'[f] = dinode[f]
      BY <1>3, <1>4 DEF DataTypeOK, Inode
    <3>3. dinode[f].i_size <= s + n
      BY <1>5, <1>6, <3>1, <3>2 DEF Prefix
    <3>4. Prefix(dinode[f], minode[f])'
      BY <1>9, <3>1, <3>2, <3>3 DEF Prefix
    <3> QED
      BY <3>1, <3>2, <3>4 DEF ShapeOK, Has
  <2>3. (\A b \in Own(table, minode[f]) : b - 1 \in block_bitmap /\ b # 1)'
    BY <1>3, <1>5, <1>15 DEF OwnerOK
  <2>4. (f \notin crossed => minode[f].i_sectors[Direct] = 0)'
    BY <1>3, <1>5, <1>9
  <2>5. \A i \in 0..(MaxBlocks - 1) : call'[f].blocks[i] \in {0} \cup Own(table, minode[f])'
    BY <1>3, <1>5, <1>10, <1>15 DEF OwnerOK
  <2> QED
    BY <2>1, <2>2, <2>3, <2>4, <2>5 DEF OwnerOK
<1>18. ASSUME f \notin crossed PROVE ContentOK(f)'
  <2>1. ContentOK(f)
    BY <1>4, <1>5, <1>18 DEF FileOK
  <2>2. (\A b \in Own(table, minode[f]) : b - 1 \in disk_bitmap)'
    BY <1>3, <1>15, <2>1 DEF ContentOK
  <2>3. ASSUME NEW i \in 0..(s + n - 1)
        PROVE  data'[minode[f].i_sectors[i \div BlockSize]][i % BlockSize] = <<f, i>>
    BY <1>2, <1>3, <1>4, <1>6, <1>18, ChunkBytes
  <2>4. ASSUME NEW i \in ((s + n) \div BlockSize)..(Direct - 1), i < UsedBlocks(s + l)
        PROVE  call[f].blocks[i] = minode[f].i_sectors[i]
    <3>1. s \div BlockSize <= (s + n) \div BlockSize
      BY <1>5, DivisionGrows
    <3>2. s \div BlockSize \in Nat /\ (s + n) \div BlockSize \in Nat
      BY <1>5, Division
    <3>3. i \in (minode[f].i_size \div BlockSize)..(Direct - 1)
      BY <1>6, <3>1, <3>2, DataConstants
    <3>4. i < UsedBlocks(minode[f].i_size + call[f].left)
      BY <1>6, <2>4
    <3> QED
      BY <1>3, <2>1, <3>3, <3>4 DEF ContentOK
  <2>5. (call[f].at = "chunk" =>
          \A i \in (minode[f].i_size \div BlockSize)..(Direct - 1) :
             i < UsedBlocks(minode[f].i_size + call[f].left) =>
                 call[f].blocks[i] = minode[f].i_sectors[i])'
    BY <1>9, <1>10, <1>16, <2>4
  <2>6. (\A i \in 0..(minode[f].i_size - 1) :
          data[minode[f].i_sectors[i \div BlockSize]][i % BlockSize] = <<f, i>>)'
    <3>1. \A i \in 0..(s + n - 1) :
             data'[minode'[f].i_sectors[i \div BlockSize]][i % BlockSize] = <<f, i>>
      BY <1>9, <2>3
    <3>2. minode'[f].i_size - 1 = s + n - 1
      BY <1>5, <1>9
    <3> QED
      BY <3>1, <3>2
  <2>7. (\A i, j \in 0..(Direct - 1) :
          minode[f].i_sectors[i] = minode[f].i_sectors[j] /\ minode[f].i_sectors[i] # 0 => i = j)'
    BY <1>9, <2>1 DEF ContentOK
  <2> QED
    BY <2>2, <2>5, <2>6, <2>7 DEF ContentOK
<1>19. AckedOK(f)'
  <2>1. acked[f] <= s /\ acked[f] <= dinode[f].i_size /\ acked[f] \in Nat
    BY <1>4, <1>5, <1>6, <1>13 DEF FileOK, AckedOK, DataTypeOK
  <2>2. acked[f] <= s + n
    BY <1>5, <2>1
  <2> QED
    BY <1>3, <1>9, <2>1, <2>2 DEF AckedOK
<1>20. FileOK(f)'
  <2>1. f \in (entry \ crossed)' => f \notin crossed
    BY <1>3
  <2> QED
    BY <1>14, <1>17, <1>18, <1>19, <2>1 DEF FileOK
<1>21. \A g \in Owners : g # f =>
             \A b \in Own(table, minode[f])' : b \notin Own(table, minode[g])
  BY <1>4, <1>5, <1>15 DEF Sound, OwnersApart
<1>22. entry' \subseteq Regular /\ 0 \in block_bitmap' /\ 0 \in disk_bitmap'
  BY <1>3, <1>4 DEF DataTypeOK, Sound
<1>23. Sound'
  BY <1>4, <1>12, <1>20, <1>21, <1>22, StepOf
<1> QED
  BY <1>3, <1>11, <1>23 DEF DataInv

-----------------------------------------------------------------------------
LEMMA NeededNat ==
  ASSUME NEW ino \in Inode, NEW n \in Nat
  PROVE  Needed(ino, n) \in Nat
<1>1. ino.i_size \in Nat
  BY DEF Inode
<1>2. PICK has \in Nat, will \in Nat :
         has = UsedBlocks(ino.i_size) /\ will = UsedBlocks(ino.i_size + n) /\ has <= will
  BY <1>1, UsedIs
<1>3. Needed(ino, n) = (IF ino.i_sectors[0] = 0 THEN 1 ELSE 0)
        + (IF has <= Direct /\ will > Direct THEN 1 ELSE 0)
        + (IF has > Direct /\ will > has THEN NBlocks + 1 ELSE will - has)
  BY <1>2 DEF Needed
<1> QED
  BY <1>2, <1>3, DataConstants

LEMMA FreeIsFinite ==
  Cardinality(Free) \in Nat /\ Cardinality(Free) <= NBlocks
<1>1. PICK N \in Nat : N = NBlocks /\ N > 0
  BY DataConstants
<1>2. PICK m \in Int : m = N - 1
  OBVIOUS
<1>3. IsFiniteSet(0..m) /\ Cardinality(0..m) = N
  <2>1. 0 \in Int /\ ~(0 > m) /\ m - 0 + 1 = N
    BY <1>1, <1>2
  <2> QED
    BY <2>1, FS_Interval
<1>4. Free \in SUBSET (0..m)
  BY <1>1, <1>2 DEF Free
<1>5. IsFiniteSet(Free) /\ Cardinality(Free) <= Cardinality(0..m)
  BY <1>3, <1>4, FS_Subset
<1>6. Cardinality(Free) \in Nat
  BY <1>5, FS_CardinalityType
<1> QED
  BY <1>1, <1>3, <1>5, <1>6

\* The two bitmap_syncs of a write
Synced(d, m, first, used, last) ==
    bitmap_sync(bitmap_sync(d, m \cup first, first), m \cup used, last)

LEMMA WriteDisk ==
  ASSUME NEW d \in SUBSET (0..(NBlocks - 1)), NEW m \in SUBSET (0..(NBlocks - 1)),
         NEW used \in SUBSET (0..(NBlocks - 1)), NEW first \in SUBSET used, NEW last,
         NEW r, r = Synced(d, m, first, used, last)
  PROVE  /\ r \subseteq 0..(NBlocks - 1)
         /\ \A b \in d : b \in m => b \in r
         /\ \A b \in used : b \in first \/ b \in last => b \in r
<1>1. PICK m1 \in SUBSET (0..(NBlocks - 1)) : m1 = m \cup first
  OBVIOUS
<1>2. PICK m2 \in SUBSET (0..(NBlocks - 1)) : m2 = m \cup used
  OBVIOUS
<1>3. PICK e : e = bitmap_sync(d, m1, first)
  OBVIOUS
<1>4. /\ e \subseteq 0..(NBlocks - 1)
      /\ \A b \in d : b \in m1 => b \in e
      /\ \A b \in first : b \in 0..(NBlocks - 1) /\ b \in m1 => b \in e
  BY <1>3, SyncIs, SyncType
<1>5. r = bitmap_sync(e, m2, last)
  BY <1>1, <1>2, <1>3 DEF Synced
<1>6. /\ r \subseteq 0..(NBlocks - 1)
      /\ \A b \in e : b \in m2 => b \in r
      /\ \A b \in last : b \in 0..(NBlocks - 1) /\ b \in m2 => b \in r
  <2>1. e \in SUBSET (0..(NBlocks - 1))
    BY <1>4
  <2>2. bitmap_sync(e, m2, last) \subseteq 0..(NBlocks - 1)
    BY <2>1, SyncType
  <2>3. PICK x : x = bitmap_sync(e, m2, last)
    OBVIOUS
  <2>4. /\ \A b \in e : b \in m2 => b \in x
        /\ \A b \in last : b \in 0..(NBlocks - 1) /\ b \in m2 => b \in x
    BY <2>3, SyncIs
  <2>5. x = r
    BY <1>5, <2>3
  <2> QED
    BY <1>5, <2>2, <2>4, <2>5
<1>7. ASSUME NEW b \in d, b \in m PROVE b \in r
  BY <1>1, <1>2, <1>4, <1>6, <1>7
<1>8. ASSUME NEW b \in used, b \in first \/ b \in last PROVE b \in r
  <2>1. b \in m2 /\ b \in 0..(NBlocks - 1)
    BY <1>2
  <2>2. CASE b \in first
    BY <1>1, <1>4, <1>6, <2>1, <2>2
  <2>3. CASE b \in last
    BY <1>6, <2>1, <2>3
  <2> QED
    BY <1>8, <2>2, <2>3
<1> QED
  BY <1>6, <1>7, <1>8

(***************************************************************************)
(* file_write, as far as the invariant sees it: the blocks F are new, and  *)
(* all of them are marked on disk unless one is the new indirect table.    *)
(***************************************************************************)
Written(f, n, g, F) ==
    /\ minode'[f].i_size = minode[f].i_size /\ minode'[f].i_sectors = g.sectors
    /\ \A h \in Regular : h # f =>
          minode'[h] = minode[h] /\ call'[h] = call[h] /\ (h \in crossed' <=> h \in crossed)
    /\ call'[f].at = IF n = 0 THEN "sync" ELSE "chunk"
    /\ call'[f].left = n /\ call'[f].count = n /\ call'[f].blocks = g.blocks
    /\ \A a \in F : a \in Lbas /\ a # 0 /\ a - 1 \in Free /\ a - 1 \in block_bitmap'
    /\ \A b \in block_bitmap : b \in block_bitmap'
    /\ \A b \in disk_bitmap : b \in block_bitmap => b \in disk_bitmap'
    /\ ~Crosses(minode[f], g) => table' = table /\ \A a \in F : a - 1 \in disk_bitmap'
    /\ Crosses(minode[f], g) => f \in crossed' /\ table'[g.sectors[Direct]] = g.table
    /\ \A a \in Lbas : a \notin F => table'[a] = table[a]
    /\ f \in crossed => f \in crossed'
    /\ UNCHANGED <<dinode, entry, data, acked, lost>>

LEMMA WrittenIs ==
  ASSUME DataInv, NEW f \in Regular, NEW n \in Nat, file_write(f, n)
  PROVE  /\ DataTypeOK' /\ ShapeOK(minode[f], 0)
         /\ \E g, F : /\ Written(f, n, g, F) /\ Grows(minode[f], n, g, F)
                      /\ GrowsTable(minode[f], g, F) /\ GrowsBlocks(minode[f], n, g)
<1>1. PICK ino \in Inode : ino = minode[f]
  BY DEF DataInv, DataTypeOK
<1>2. PICK need \in Nat : need = Needed(ino, n)
  BY NeededNat
<1>3. PICK fresh : fresh = Taken(need)
  OBVIOUS
<1>4. PICK g : g = Grown(ino, n, fresh)
  OBVIOUS
<1>5. PICK F : F = Given(fresh, need)
  OBVIOUS
<1>6. PICK used : used = Blocks(F)
  OBVIOUS
<1>7. PICK cross : cross = (UsedBlocks(ino.i_size) <= Direct
                            /\ g.sectors[Direct] # ino.i_sectors[Direct])
  OBVIOUS
<1>8. PICK first : first = IF ino.i_sectors[0] = 0 THEN Blocks({fresh[1]}) ELSE {}
  OBVIOUS
<1>9. PICK last : last = used \ (first \cup IF cross THEN Blocks({g.sectors[Direct]}) ELSE {})
  OBVIOUS
<1>10. used = Blocks({fresh[k] : k \in 1..need})
  BY <1>5, <1>6 DEF Given
<1>11. /\ lost = "none" /\ lost' = lost /\ call[f].at = "out" /\ f \in entry
       /\ ino.i_size + n < BlockSize * MaxBlocks /\ need <= Cardinality(Free)
       /\ minode' = [minode EXCEPT ![f].i_sectors = g.sectors]
       /\ block_bitmap' = block_bitmap \cup used
       /\ disk_bitmap' = bitmap_sync(bitmap_sync(disk_bitmap, block_bitmap \cup first, first),
                                     block_bitmap', last)
       /\ table' = IF cross THEN [table EXCEPT ![g.sectors[Direct]] = g.table] ELSE table
       /\ crossed' = IF cross THEN crossed \cup {f} ELSE crossed
       /\ call' = [call EXCEPT ![f] = [NoCall EXCEPT !.at = IF n = 0 THEN "sync" ELSE "chunk",
                                       !.left = n, !.count = n, !.blocks = g.blocks]]
       /\ UNCHANGED <<dinode, entry, data, acked, lost>>
  BY <1>1, <1>2, <1>3, <1>4, <1>7, <1>8, <1>9, <1>10, Zenon DEF file_write, At
<1>12. DataTypeOK /\ Sound /\ FileOK(f)
  BY <1>11 DEF DataInv, Sound
<1>13. ShapeOK(ino, 0)
  <2>1. f \in Owners /\ call[f].left = 0
    BY <1>11, <1>12 DEF Owners, FileOK, DataCallOK
  <2> QED
    BY <1>1, <1>12, <2>1 DEF FileOK, OwnerOK
<1>14. /\ \A k \in 1..need : /\ fresh[k] \in Lbas /\ fresh[k] # 0
                             /\ fresh[k] - 1 \in Free
       /\ \A j, k \in 1..need : fresh[j] = fresh[k] => j = k
  BY <1>3, <1>11, TakenIs
<1>15. FreshOK(fresh, need) /\ need <= NBlocks
  <2>1. need <= NBlocks
    BY <1>11, FreeIsFinite, DataConstants
  <2> QED
    BY <1>14, <2>1 DEF FreshOK
<1>16. /\ Grows(ino, n, g, F) /\ GrowsTable(ino, g, F) /\ GrowsBlocks(ino, n, g)
       /\ cross <=> Crosses(ino, g)
       /\ ino.i_sectors[0] = 0 => need >= 1
  <2>1. table \in [Lbas -> IndirectTable]
    BY <1>12 DEF DataTypeOK
  <2> QED
    BY <1>2, <1>4, <1>5, <1>7, <1>11, <1>13, <1>15, <2>1, GrownIs
<1>17. \A a \in F : a \in Lbas /\ a # 0 /\ a - 1 \in Free /\ a - 1 \in used
  BY <1>5, <1>6, <1>14 DEF Given, Blocks
<1>18. \A b \in used : \E a \in F : b = a - 1
  BY <1>6 DEF Blocks
<1>19. used \in SUBSET (0..(NBlocks - 1)) /\ first \in SUBSET used
  <2>1. used \in SUBSET (0..(NBlocks - 1))
    BY <1>17, <1>18 DEF Free
  <2>2. ASSUME ino.i_sectors[0] = 0 PROVE first \subseteq used
    <3>1. 1 \in 1..need
      BY <1>16, <2>2
    <3>2. fresh[1] \in F
      BY <1>5, <3>1 DEF Given
    <3> QED
      BY <1>8, <2>2, <1>17, <3>2 DEF Blocks
  <2> QED
    BY <1>8, <2>1, <2>2
<1>20. /\ disk_bitmap' \subseteq 0..(NBlocks - 1)
       /\ \A b \in disk_bitmap : b \in block_bitmap => b \in disk_bitmap'
       /\ \A b \in used : b \in first \/ b \in last => b \in disk_bitmap'
  <2>1. PICK d \in SUBSET (0..(NBlocks - 1)), m \in SUBSET (0..(NBlocks - 1)) :
           d = disk_bitmap /\ m = block_bitmap
    BY <1>12 DEF DataTypeOK
  <2>2. disk_bitmap' = Synced(d, m, first, used, last)
    BY <1>11, <2>1 DEF Synced
  <2>3. PICK r : r = Synced(d, m, first, used, last)
    OBVIOUS
  <2>4. /\ r \subseteq 0..(NBlocks - 1)
        /\ \A b \in d : b \in m => b \in r
        /\ \A b \in used : b \in first \/ b \in last => b \in r
    BY <1>19, <2>3, WriteDisk
  <2>5. disk_bitmap' = r
    BY <2>2, <2>3
  <2> QED
    BY <2>1, <2>4, <2>5
<1>21. minode'[f] = [ino EXCEPT !.i_sectors = g.sectors]
  BY <1>1, <1>11, <1>12 DEF DataTypeOK
<1>22. /\ minode'[f].i_size = ino.i_size /\ minode'[f].i_sectors = g.sectors
       /\ minode'[f] \in Inode
  <2>1. g.sectors \in Sectors
    BY <1>16 DEF Grows
  <2> QED
    BY <1>21, <2>1 DEF Inode
<1>23. PICK at \in {"sync", "chunk"} : at = IF n = 0 THEN "sync" ELSE "chunk"
  OBVIOUS
<1>24. PICK B \in [0..(MaxBlocks - 1) -> Lbas] : B = g.blocks
  BY <1>16 DEF Grows
<1>25. call'[f] = [NoCall EXCEPT !.at = at, !.left = n, !.count = n, !.blocks = B]
  BY <1>11, <1>12, <1>23, <1>24 DEF DataTypeOK
<1>26. /\ call'[f] \in DataCall /\ call'[f].at = at
       /\ call'[f].left = n /\ call'[f].count = n /\ call'[f].blocks = B
  <2>1. PICK c \in DataCall : c = NoCall
    BY NoCallIs
  <2>2. call'[f] = [c EXCEPT !.at = at, !.left = n, !.count = n, !.blocks = B]
    BY <1>25, <2>1
  <2>3. [c EXCEPT !.at = at, !.left = n, !.count = n, !.blocks = B] \in DataCall
    <3>1. n \in Int /\ at \in {"out", "chunk", "sync", "synced", "release"}
      OBVIOUS
    <3>2. PICK k \in Int : k = n
      BY <3>1
    <3>3. [c EXCEPT !.at = at, !.left = n, !.count = k, !.blocks = B] \in DataCall
      BY <3>1 DEF DataCall
    <3> QED
      BY <3>2, <3>3
  <2>4. /\ [c EXCEPT !.at = at, !.left = n, !.count = n, !.blocks = B].at = at
        /\ [c EXCEPT !.at = at, !.left = n, !.count = n, !.blocks = B].left = n
        /\ [c EXCEPT !.at = at, !.left = n, !.count = n, !.blocks = B].count = n
        /\ [c EXCEPT !.at = at, !.left = n, !.count = n, !.blocks = B].blocks = B
    BY DEF DataCall
  <2> QED
    BY <2>2, <2>3, <2>4
<1>27. cross => g.sectors[Direct] \in F /\ g.sectors[Direct] \in Lbas /\ g.table \in IndirectTable
  <2>1. ASSUME Crosses(ino, g) PROVE g.sectors[Direct] \in F /\ g.table \in IndirectTable
    <3>1. Direct \in 0..Direct
      BY DataConstants
    <3> QED
      BY <1>16, <2>1, <3>1 DEF Crosses, Grows, GrowsTable
  <2> QED
    BY <1>16, <1>17, <2>1
<1>28. table' \in [Lbas -> IndirectTable] /\ \A a \in Lbas : a \notin F => table'[a] = table[a]
  BY <1>11, <1>12, <1>27 DEF DataTypeOK
<1>29. /\ Crosses(ino, g) => f \in crossed' /\ table'[g.sectors[Direct]] = g.table
       /\ ~Crosses(ino, g) => table' = table
       /\ f \in crossed => f \in crossed'
       /\ \A h \in Regular : h # f => (h \in crossed' <=> h \in crossed)
  BY <1>11, <1>12, <1>16, <1>27 DEF DataTypeOK
<1>30. ASSUME ~Crosses(ino, g), NEW a \in F PROVE a - 1 \in disk_bitmap'
  <2>1. ~cross
    BY <1>16, <1>30
  <2>2. a - 1 \in used
    BY <1>17
  <2>3. a - 1 \in first \/ a - 1 \in last
    BY <1>9, <2>1, <2>2
  <2> QED
    BY <1>20, <2>2, <2>3
<1>31. \A h \in Regular : h # f => minode'[h] = minode[h] /\ call'[h] = call[h]
  BY <1>11, <1>12 DEF DataTypeOK
<1>32. \A a \in F : a - 1 \in block_bitmap'
  BY <1>11, <1>17
<1>33. Written(f, n, g, F)
  BY <1>1, <1>11, <1>17, <1>20, <1>22, <1>23, <1>24, <1>26, <1>28, <1>29, <1>30, <1>31, <1>32
     DEF Written
<1>34. DataTypeOK'
  <2>1. minode' \in [Regular -> Inode] /\ call' \in [Regular -> DataCall]
    BY <1>11, <1>12, <1>22, <1>26 DEF DataTypeOK
  <2>2. block_bitmap' \subseteq 0..(NBlocks - 1)
    BY <1>11, <1>12, <1>19 DEF DataTypeOK
  <2>3. crossed' \subseteq Regular
    BY <1>11, <1>12 DEF DataTypeOK
  <2> QED
    BY <1>11, <1>12, <1>20, <1>28, <2>1, <2>2, <2>3 DEF DataTypeOK
<1> QED
  BY <1>1, <1>13, <1>16, <1>33, <1>34

LEMMA WriteStep ==
  ASSUME DataInv, NEW f \in Regular, NEW n \in Nat, file_write(f, n)
  PROVE  DataInv'
<1>1. PICK g, F : /\ Written(f, n, g, F) /\ Grows(minode[f], n, g, F)
                  /\ GrowsTable(minode[f], g, F) /\ GrowsBlocks(minode[f], n, g)
  BY WrittenIs
<1>2. DataTypeOK' /\ ShapeOK(minode[f], 0)
  BY WrittenIs
<1>3. lost = "none" /\ lost' = "none" /\ call[f].at = "out" /\ f \in entry
  BY DEF file_write, At
<1>4. DataTypeOK /\ Sound /\ FileOK(f)
  BY <1>3 DEF DataInv, Sound
<1>5. /\ minode[f] \in Inode /\ f \in Owners /\ OwnerOK(f) /\ AckedOK(f)
      /\ ~Creating(f)
  BY <1>3, <1>4 DEF DataTypeOK, Owners, FileOK, DataCallOK, Creating
<1>6. /\ minode'[f].i_size = minode[f].i_size /\ minode'[f].i_sectors = g.sectors
      /\ call'[f].at = IF n = 0 THEN "sync" ELSE "chunk"
      /\ call'[f].left = n /\ call'[f].count = n /\ call'[f].blocks = g.blocks
  BY <1>1 DEF Written
<1>7. UNCHANGED <<dinode, entry, data, acked>>
  BY <1>1 DEF Written
<1>8. \A a \in F : /\ a \in Lbas /\ a # 0 /\ a - 1 \notin block_bitmap
                   /\ a - 1 \in block_bitmap' /\ a # 1
  BY <1>1, <1>4 DEF Written, Free, Sound
<1>9. \A b \in block_bitmap : b \in block_bitmap' /\ (b \in disk_bitmap => b \in disk_bitmap')
  BY <1>1 DEF Written
\* The other files
<1>10. ASSUME NEW h \in Regular, h # f PROVE Kept(h) /\ (h \in Owners => BlocksKept(h))
  <2>1. Kept(h)
    BY <1>1, <1>7, <1>10 DEF Written, Kept
  <2>2. ASSUME h \in Owners, NEW a \in Own(table, minode[h])
        PROVE  table'[a] = table[a]
    <3>1. a \in Lbas
      BY <1>4, OwnType DEF DataTypeOK
    <3>2. a - 1 \in block_bitmap
      BY <1>4, <2>2 DEF Sound, FileOK, OwnerOK
    <3>3. a \notin F
      BY <1>8, <3>2
    <3> QED
      BY <1>1, <3>1, <3>3 DEF Written
  <2>3. h \in Owners => BlocksKept(h)
    BY <1>7, <1>9, <2>2 DEF BlocksKept
  <2> QED
    BY <2>1, <2>3
\* The blocks of this one
<1>11. Direct \in 0..Direct
  BY DataConstants
<1>12. ASSUME NEW a \in Own(table, minode[f])' PROVE a \in Own(table, minode[f]) \/ a \in F
  <2>1. a \in Own(table', minode'[f])
    BY DEF Own, Entries
  <2>2. /\ a # 0
        /\ \/ \E i \in 0..Direct : a = g.sectors[i]
           \/ g.sectors[Direct] # 0
              /\ \E i \in 0..(Indirect - 1) : a = table'[g.sectors[Direct]][i]
    BY <1>6, <2>1, OwnIs
  <2>3. ASSUME NEW i \in 0..Direct, a = g.sectors[i]
        PROVE  a \in Own(table, minode[f]) \/ a \in F
    <3>1. CASE minode[f].i_sectors[i] # 0
      BY <1>1, <2>2, <2>3, <3>1, OwnIs DEF Grows
    <3>2. CASE minode[f].i_sectors[i] = 0
      BY <1>1, <2>2, <2>3, <3>2 DEF Grows
    <3> QED
      BY <3>1, <3>2
  <2>4. ASSUME g.sectors[Direct] # 0,
               NEW i \in 0..(Indirect - 1), a = table'[g.sectors[Direct]][i]
        PROVE  a \in Own(table, minode[f]) \/ a \in F
    <3>1. CASE Crosses(minode[f], g)
      BY <1>1, <2>2, <2>4, <3>1 DEF Written, GrowsTable
    <3>2. CASE ~Crosses(minode[f], g)
      <4>1. minode[f].i_sectors[Direct] # 0 /\ table' = table
        BY <1>1, <2>4, <3>2 DEF Crosses, Written
      <4>2. g.sectors[Direct] = minode[f].i_sectors[Direct]
        BY <1>1, <1>11, <4>1 DEF Grows
      <4> QED
        BY <2>2, <2>4, <4>1, <4>2, OwnIs
    <3> QED
      BY <3>1, <3>2
  <2> QED
    BY <2>2, <2>3, <2>4
<1>13. f \in Owners' /\ f \in entry' /\ ~Creating(f)'
  BY <1>3, <1>6, <1>7 DEF Owners, Creating
<1>14. DataCallOK(f)'
  BY <1>6, <1>13 DEF DataCallOK
<1>15. OwnerOK(f)'
  <2>1. ShapeOK(minode[f], call[f].left)'
    <3>1. PICK ino \in Inode, S \in Sectors : ino = minode[f] /\ S = g.sectors
      BY <1>1, <1>5 DEF Grows
    <3>2. ShapeOK([ino EXCEPT !.i_sectors = S], n)
      BY <1>1, <3>1 DEF Grows
    <3>3. PICK x : x = [ino EXCEPT !.i_sectors = S]
      OBVIOUS
    <3>4. x.i_size = ino.i_size /\ x.i_sectors = S
      BY <3>3 DEF Inode
    <3>5. ShapeOK(x, n)
      BY <3>2, <3>3
    <3> QED
      BY <1>6, <3>1, <3>4, <3>5 DEF ShapeOK, Has
  <2>2. ShapeOK(dinode[f], 0)' /\ Prefix(dinode[f], minode[f])'
    <3>1. ShapeOK(dinode[f], 0) /\ Prefix(dinode[f], minode[f])
      BY <1>5 DEF OwnerOK
    <3>2. dinode'[f] = dinode[f]
      BY <1>7
    <3>3. ASSUME NEW i \in 0..Direct
          PROVE  dinode[f].i_sectors[i] = 0 \/ dinode[f].i_sectors[i] = g.sectors[i]
      BY <1>1, <3>1 DEF Prefix, Grows
    <3>4. Prefix(dinode[f], minode[f])'
      BY <1>6, <3>1, <3>2, <3>3 DEF Prefix
    <3> QED
      BY <3>1, <3>2, <3>4 DEF ShapeOK, Has
  <2>3. ASSUME NEW a \in Own(table, minode[f])' PROVE a - 1 \in block_bitmap' /\ a # 1
    BY <1>5, <1>8, <1>9, <1>12 DEF OwnerOK
  <2>4. (f \notin crossed => minode[f].i_sectors[Direct] = 0)'
    <3> SUFFICES ASSUME f \notin crossed' PROVE g.sectors[Direct] = 0
      BY <1>6
    <3>1. f \notin crossed /\ ~Crosses(minode[f], g)
      BY <1>1 DEF Written
    <3>2. minode[f].i_sectors[Direct] = 0
      BY <1>5, <3>1 DEF OwnerOK
    <3> QED
      BY <3>1, <3>2 DEF Crosses
  <2>5. ASSUME NEW i \in 0..(MaxBlocks - 1)
        PROVE  call'[f].blocks[i] \in {0} \cup Own(table, minode[f])'
    <3>1. \/ g.blocks[i] = 0
          \/ \E j \in 0..Direct : g.blocks[i] = g.sectors[j]
          \/ /\ g.sectors[Direct] # 0
             /\ \E j \in 0..(Indirect - 1) : g.blocks[i] = table'[g.sectors[Direct]][j]
      <4>1. /\ Crosses(minode[f], g) => table'[g.sectors[Direct]] = g.table
            /\ ~Crosses(minode[f], g) => table' = table
        BY <1>1 DEF Written
      <4>2. \/ g.blocks[i] = 0
            \/ \E j \in 0..Direct : g.blocks[i] = g.sectors[j]
            \/ /\ g.sectors[Direct] # 0
               /\ \E j \in 0..(Indirect - 1) :
                     g.blocks[i] = IF Crosses(minode[f], g) THEN g.table[j]
                                   ELSE table[g.sectors[Direct]][j]
        BY <1>1 DEF GrowsBlocks
      <4> QED
        BY <4>1, <4>2
    <3>2. g.blocks[i] = 0 \/ g.blocks[i] \in Own(table', minode'[f])
      BY <1>6, <3>1, OwnIs
    <3>3. Own(table, minode[f])' = Own(table', minode'[f])
      BY DEF Own, Entries
    <3> QED
      BY <1>6, <3>2, <3>3
  <2> QED
    BY <2>1, <2>2, <2>3, <2>4, <2>5 DEF OwnerOK
<1>16. ASSUME f \notin crossed' PROVE ContentOK(f)'
  <2>1. f \notin crossed /\ ~Crosses(minode[f], g)
    BY <1>1, <1>16 DEF Written
  <2>2. ContentOK(f) /\ minode[f].i_sectors[Direct] = 0
    BY <1>3, <1>4, <1>5, <2>1 DEF FileOK, OwnerOK
  <2>3. g.sectors[Direct] = 0
    BY <2>1, <2>2 DEF Crosses
  <2>4. ASSUME NEW a \in Own(table, minode[f])' PROVE a - 1 \in disk_bitmap'
    <3>1. CASE a \in F
      BY <1>1, <2>1, <3>1 DEF Written
    <3>2. CASE a \in Own(table, minode[f])
      BY <1>5, <1>9, <2>2, <3>2 DEF OwnerOK, ContentOK
    <3> QED
      BY <1>12, <3>1, <3>2
  <2>5. \A i \in 0..(Direct - 1) : i \in 0..Direct
    BY DataConstants
  <2>6. ASSUME NEW i \in 0..(Direct - 1), NEW j \in 0..(Direct - 1),
               g.sectors[i] = g.sectors[j], g.sectors[i] # 0
        PROVE  i = j
    <3>1. ASSUME NEW k \in 0..(Direct - 1), minode[f].i_sectors[k] # 0
          PROVE  g.sectors[k] = minode[f].i_sectors[k] /\ g.sectors[k] \notin F
      <4>1. g.sectors[k] = minode[f].i_sectors[k]
        BY <1>1, <2>5, <3>1 DEF Grows
      <4>2. minode[f].i_sectors[k] \in Own(table, minode[f])
        BY <2>5, <3>1, OwnIs
      <4>3. minode[f].i_sectors[k] - 1 \in block_bitmap
        BY <1>5, <4>2 DEF OwnerOK
      <4> QED
        BY <1>8, <4>1, <4>3
    <3>2. ASSUME NEW k \in 0..(Direct - 1), minode[f].i_sectors[k] = 0, g.sectors[k] # 0
          PROVE  g.sectors[k] \in F
      BY <1>1, <2>5, <3>2 DEF Grows
    <3>3. CASE minode[f].i_sectors[i] # 0
      <4>1. minode[f].i_sectors[j] # 0
        BY <2>6, <3>1, <3>2, <3>3
      <4> QED
        BY <2>2, <2>6, <3>1, <3>3, <4>1 DEF ContentOK
    <3>4. CASE minode[f].i_sectors[i] = 0
      <4>1. minode[f].i_sectors[j] = 0
        BY <2>6, <3>1, <3>2, <3>4
      <4> QED
        BY <1>1, <2>6, <3>4, <4>1 DEF Grows
    <3> QED
      BY <3>3, <3>4
  <2>7. \A i \in (minode[f].i_size \div BlockSize)..(Direct - 1) :
          i < UsedBlocks(minode[f].i_size + n) => g.blocks[i] = g.sectors[i]
    BY <1>1, <2>3 DEF GrowsBlocks
  <2>8. ASSUME NEW i \in 0..(minode[f].i_size - 1)
        PROVE  data[g.sectors[i \div BlockSize]][i % BlockSize] = <<f, i>>
    <3>1. i \in 0..(minode[f].i_size + 0) /\ i < minode[f].i_size
      BY <1>5 DEF Inode
    <3>2. i \div BlockSize \in 0..(Direct - 1) /\ minode[f].i_sectors[i \div BlockSize] # 0
      BY <1>2, <1>5, <2>2, <3>1, ByteHome
    <3>3. g.sectors[i \div BlockSize] = minode[f].i_sectors[i \div BlockSize]
      BY <1>1, <2>5, <3>2 DEF Grows
    <3> QED
      BY <2>2, <3>3 DEF ContentOK
  <2> QED
    BY <1>6, <1>7, <2>4, <2>6, <2>7, <2>8 DEF ContentOK
<1>17. AckedOK(f)'
  BY <1>5, <1>6, <1>7 DEF AckedOK
<1>18. FileOK(f)'
  <2>1. f \in (entry \ crossed)' => f \notin crossed'
    OBVIOUS
  <2> QED
    BY <1>14, <1>15, <1>16, <1>17, <2>1 DEF FileOK
<1>19. ASSUME NEW h \in Owners, h # f, NEW a \in Own(table, minode[f])'
       PROVE  a \notin Own(table, minode[h])
  <2>1. h \in Regular
    BY <1>4 DEF Owners, DataTypeOK
  <2>2. CASE a \in F
    <3>1. a - 1 \notin block_bitmap
      BY <1>8, <2>2
    <3>2. OwnerOK(h)
      BY <1>4, <1>19, <2>1 DEF Sound, FileOK
    <3> QED
      BY <3>1, <3>2 DEF OwnerOK
  <2>3. CASE a \in Own(table, minode[f])
    BY <1>4, <1>5, <1>19, <2>3 DEF Sound, OwnersApart
  <2> QED
    BY <1>12, <2>2, <2>3
<1>20. entry' \subseteq Regular /\ 0 \in block_bitmap' /\ 0 \in disk_bitmap'
  BY <1>2, <1>4, <1>9 DEF DataTypeOK, Sound
<1>21. Sound'
  BY <1>4, <1>10, <1>18, <1>19, <1>20, StepOf
<1> QED
  BY <1>2, <1>3, <1>21 DEF DataInv

-----------------------------------------------------------------------------
LEMMA DataStart ==
  ASSUME DataInit
  PROVE  DataInv
<1>1. /\ minode = [f \in Regular |-> EmptyInode] /\ dinode = minode
      /\ entry = Regular /\ block_bitmap = {0} /\ disk_bitmap = {0}
      /\ call = [f \in Regular |-> NoCall] /\ acked = [f \in Regular |-> 0]
      /\ crossed = {} /\ lost = "none"
      /\ data  = [a \in Lbas |-> [o \in Off |-> Zero]]
      /\ table = [a \in Lbas |-> [i \in 0..(Indirect - 1) |-> 0]]
  BY DEF DataInit
<1>2. DataTypeOK
  <2>1. 0 \in 0..(NBlocks - 1) /\ 0 \in Lbas
    BY DataConstants
  <2>2. data \in [Lbas -> [Off -> Byte]] /\ table \in [Lbas -> IndirectTable]
    BY <1>1, <2>1 DEF Byte, IndirectTable
  <2> QED
    BY <1>1, <2>1, <2>2, EmptyIs, NoCallIs DEF DataTypeOK
<1>3. ASSUME NEW f \in Regular
      PROVE  /\ minode[f] = EmptyInode /\ dinode[f] = EmptyInode /\ acked[f] = 0
             /\ call[f].at = "out" /\ call[f].left = 0 /\ call[f].count = 0
             /\ \A a : a \notin Own(table, minode[f])
  BY <1>1, EmptyIs, NoCallIs
<1>4. Direct \in 0..Direct /\ \A i \in 0..(Direct - 1) : i \in 0..Direct
  BY DataConstants
<1>5. ASSUME NEW f \in Regular PROVE FileOK(f)
  <2>1. DataCallOK(f)
    BY <1>1, <1>3 DEF DataCallOK, Creating
  <2>2. OwnerOK(f)
    <3>1. Prefix(dinode[f], minode[f])
      BY <1>3, EmptyIs DEF Prefix
    <3> QED
      BY <1>3, <1>4, <3>1, EmptyIs DEF OwnerOK
  <2>3. ContentOK(f)
    <3>1. \A i \in 0..(Direct - 1) : minode[f].i_sectors[i] = 0
      BY <1>3, <1>4, EmptyIs
    <3>2. 0..(minode[f].i_size - 1) = {}
      BY <1>3, EmptyIs
    <3> QED
      BY <1>3, <3>1, <3>2 DEF ContentOK
  <2>4. AckedOK(f)
    BY <1>3, EmptyIs DEF AckedOK
  <2> QED
    BY <2>1, <2>2, <2>3, <2>4 DEF FileOK
<1>6. OwnersApart
  <2>1. Owners = Regular
    BY <1>1 DEF Owners
  <2> QED
    BY <1>3, <2>1 DEF OwnersApart
<1> QED
  BY <1>1, <1>2, <1>5, <1>6 DEF DataInv, Sound

LEMMA DataSteps ==
  ASSUME DataInv, [DataNext]_data_vars
  PROVE  DataInv'
<1>1. ASSUME NEW f \in Regular, NEW n \in Counts[f], file_write(f, n) \/ file_write_panics(f, n)
      PROVE  DataInv'
  <2>1. n \in Nat
    BY DataConstants
  <2> QED
    BY <1>1, <2>1, WriteStep, WritePanicsStep
<1>2. ASSUME NEW f \in Regular,
             \/ file_write_chunk(f) \/ inode_sync_read(f) \/ inode_sync_write(f)
             \/ sys_open(f) \/ sys_unlink_entry(f) \/ inode_release(f) \/ file_create_empty(f)
      PROVE  DataInv'
  BY <1>2, ChunkStep, SyncReadStep, SyncWriteStep, OpenStep, DataUnlinkStep, ReleaseStep, DataCreateStep
<1>3. ASSUME NEW n, sys_read(n) \/ sys_read_panics(n) \/ sys_lseek(n)
      PROVE  DataInv'
  BY <1>3, ReadStep
<1>4. CASE data_stopped \/ UNCHANGED data_vars
  BY <1>4, ReadStep
<1>5. CASE reboot
  BY <1>5, RebootStep
<1> QED
  BY <1>1, <1>2, <1>3, <1>4, <1>5 DEF DataNext

(***************************************************************************)
(* What file_write, inode_sync, inode_release and mount_partition keep     *)
(* between them: DataInv holds in every state of every instance.           *)
(***************************************************************************)
THEOREM DataInductive == DataSpec => []DataInv
<1>1. DataInit => DataInv
  BY DataStart
<1>2. DataInv /\ [DataNext]_data_vars => DataInv'
  BY DataSteps
<1> QED
  BY <1>1, <1>2, PTL DEF DataSpec

(***************************************************************************)
(* block_bitmap_alloc, bitmap_sync, inode_release and a mount after a      *)
(* power cut: no block of a file is given to a second one.                 *)
(***************************************************************************)
THEOREM BlocksOwnedHolds == DataSpec => []BlocksOwned
<1>1. DataInv => BlocksOwned
  <2> SUFFICES ASSUME DataInv PROVE BlocksOwned
    OBVIOUS
  <2>1. ASSUME lost = "none", crossed = {}, NEW f \in entry
        PROVE  /\ ~Creating(f) => Refs(dinode[f]) \subseteq disk_bitmap \ {0}
               /\ Refs(minode[f]) \subseteq block_bitmap \ {0}
               /\ \A g \in entry \ {f} : Refs(minode[f]) \cap Refs(minode[g]) = {}
    <3>1. DataTypeOK /\ Sound
      BY <2>1 DEF DataInv
    <3>2. f \in Regular /\ f \in Owners
      BY <3>1 DEF DataTypeOK, Owners
    <3>3. OwnerOK(f) /\ ContentOK(f) /\ minode[f] \in Inode
      BY <2>1, <3>1, <3>2 DEF Sound, FileOK, DataTypeOK
    <3>4. ASSUME NEW a \in Own(table, minode[f])
          PROVE  a - 1 \in block_bitmap \ {0} /\ a - 1 \in disk_bitmap \ {0}
      <4>1. a \in Lbas /\ a # 1
        BY <3>1, <3>3, OwnType DEF OwnerOK
      <4>2. a - 1 # 0
        BY <4>1 DEF Lbas
      <4> QED
        BY <3>3, <4>2 DEF OwnerOK, ContentOK
    <3>5. ASSUME NEW b \in Refs(minode[f]) PROVE b \in block_bitmap \ {0}
      <4>1. PICK a \in Own(table, minode[f]) : b = a - 1
        BY RefsIs
      <4> QED
        BY <3>4, <4>1
    <3>6. ASSUME ~Creating(f), NEW b \in Refs(dinode[f]) PROVE b \in disk_bitmap \ {0}
      <4>1. PICK a \in Own(table, dinode[f]) : b = a - 1
        BY RefsIs
      <4>2. Prefix(dinode[f], minode[f])
        BY <3>3, <3>6 DEF OwnerOK
      <4>3. a \in Own(table, minode[f])
        BY <4>2, EarlierBlocks
      <4> QED
        BY <3>4, <4>1, <4>3
    <3>7. ASSUME NEW g \in entry, g # f, NEW b \in Refs(minode[f]) PROVE b \notin Refs(minode[g])
      <4> SUFFICES ASSUME b \in Refs(minode[g]) PROVE FALSE
        OBVIOUS
      <4>1. PICK a \in Own(table, minode[f]) : b = a - 1
        BY RefsIs
      <4>2. PICK c \in Own(table, minode[g]) : b = c - 1
        BY RefsIs
      <4>3. g \in Owners /\ g \in Regular /\ minode[g] \in Inode
        BY <3>1 DEF DataTypeOK, Owners
      <4>4. a \in Lbas /\ c \in Lbas
        BY <3>1, <3>3, <4>3, OwnType
      <4>5. a = c
        BY <4>1, <4>2, <4>4 DEF Lbas
      <4> QED
        BY <3>1, <3>2, <3>7, <4>3, <4>5 DEF Sound, OwnersApart
    <3> QED
      BY <3>5, <3>6, <3>7
  <2> QED
    BY <2>1 DEF BlocksOwned, DataInv
<1> QED
  BY <1>1, DataInductive, PTL

(***************************************************************************)
(* file_write, inode_sync and mount_partition: what was reported written   *)
(* stays, at its place, through writes to other files and power cuts.      *)
(***************************************************************************)
THEOREM WritesSurviveHolds == DataSpec => []WritesSurvive
<1>1. DataInv => WritesSurvive
  <2> SUFFICES ASSUME DataInv, lost = "none", NEW f \in entry \ crossed
               PROVE  /\ call[f].at = "out" => minode[f].i_size >= acked[f]
                      /\ ReadsBack(f)
    BY DEF WritesSurvive
  <2>1. DataTypeOK /\ Sound
    BY DEF DataInv
  <2>2. f \in Regular /\ f \in Owners
    BY <2>1 DEF DataTypeOK, Owners
  <2>3. OwnerOK(f) /\ ContentOK(f) /\ AckedOK(f) /\ minode[f] \in Inode /\ call[f].left \in Nat
    BY <2>1, <2>2 DEF Sound, FileOK, DataTypeOK, DataCall
  <2>4. minode[f].i_size >= acked[f]
    <3>1. minode[f].i_size \in Nat /\ acked[f] \in Nat
      BY <2>1, <2>2, <2>3 DEF DataTypeOK, Inode
    <3> QED
      BY <2>3, <3>1 DEF AckedOK
  <2>5. ASSUME NEW i \in 0..(minode[f].i_size - 1) PROVE ByteAt(minode[f], i) = <<f, i>>
    <3>1. i \in 0..(minode[f].i_size + call[f].left) /\ i < minode[f].i_size
      BY <2>3 DEF Inode
    <3>2. ShapeOK(minode[f], call[f].left) /\ minode[f].i_sectors[Direct] = 0
      BY <2>3 DEF OwnerOK
    <3>3. i \div BlockSize \in 0..(Direct - 1)
      BY <2>3, <3>1, <3>2, ByteHome
    <3>4. PICK q \in 0..(Direct - 1) : q = i \div BlockSize
      BY <3>3
    <3>5. q \in 0..(MaxBlocks - 1) /\ q < Direct
      BY DataConstants
    <3>6. ReadBlocks(minode[f])[q] = minode[f].i_sectors[q]
      BY <3>5 DEF ReadBlocks
    <3>7. data[minode[f].i_sectors[q]][i % BlockSize] = <<f, i>>
      BY <2>3, <3>4 DEF ContentOK
    <3> QED
      BY <3>4, <3>6, <3>7 DEF ByteAt
  <2> QED
    BY <2>4, <2>5 DEF ReadsBack
<1> QED
  BY <1>1, DataInductive, PTL
=============================================================================
