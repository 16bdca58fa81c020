----------------------------- MODULE TreeProofs -----------------------------
(***************************************************************************)
(* Proofs about the tree of directories.  That the path of sys_getcwd leads*)
(* back rests on what search_file finds along a path, that every inode in  *)
(* use has one name, that ".." is where that name is, and that going up    *)
(* ends at the root.                                                       *)
(***************************************************************************)
EXTENDS Tree, FiniteSetTheorems, NaturalsInduction, WellFoundedInduction, TLAPS

(***************************************************************************)
(* The tree: ".." of every inode is a directory, the root being its own    *)
(* parent; a file or a free inode has none.                                *)
(***************************************************************************)
TreeTypeOK ==
    /\ kind \in [Inodes -> {"dir", "file", "free"}]
    /\ entries \in [Inodes -> [Names -> Inodes \cup {NotFound}]]
    /\ dotdot \in [Inodes -> Inodes]
    /\ cwd_inode_nr \in [Procs -> Inodes]

ParentsOK ==
    /\ kind[Root] = "dir" /\ dotdot[Root] = Root
    /\ \A n \in Inodes : kind[dotdot[n]] = "dir" /\ (kind[n] # "dir" => dotdot[n] = Root)

\* An entry of a directory names an inode that is in use.
EntriesOK ==
    \A d \in Inodes, y \in Names :
        kind[d] = "dir" /\ entries[d][y] # NotFound => kind[entries[d][y]] # "free"

\* y in d is the one name of n.
NamedBy(n, d, y) ==
    /\ kind[d] = "dir" /\ entries[d][y] = n
    /\ kind[n] = "dir" => dotdot[n] = d
    /\ \A e \in Inodes, z \in Names :
          kind[e] = "dir" /\ entries[e][z] = n => e = d /\ z = y

NamesOK ==
    \A n \in Inodes \ {Root} : kind[n] # "free" => \E d \in Inodes, y \in Names : NamedBy(n, d, y)

\* Going up ends at the root: f is a height above it.
Height(f, K) ==
    /\ f \in [Inodes -> 0..K] /\ f[Root] = 0
    /\ \A n \in Inodes \ {Root} : f[dotdot[n]] < f[n]

NoCycle == \E K \in Nat : \E f : Height(f, K)

CwdOK == \A p \in Procs \ gone : kind[cwd_inode_nr[p]] = "dir"

TreeOK == TreeTypeOK /\ ParentsOK /\ EntriesOK /\ NamesOK /\ NoCycle /\ CwdOK

IInv == Running => TreeOK

-----------------------------------------------------------------------------
LEMMA InodesAre ==
  /\ Inodes \subseteq Nat /\ Root \in Inodes /\ NotFound \notin Inodes /\ IsFiniteSet(Procs)
  /\ "." \notin Names /\ ".." \notin Names
BY TreeAssumption DEF Inodes, Root, NotFound

LEMMA LowestIs ==
  ASSUME NEW S, S \subseteq Nat, S # {}
  PROVE  Lowest(S) \in S /\ \A y \in S : Lowest(S) <= y
<1>1. PICK x \in S : \A y \in S : ~(<<y, x>> \in OpToRel(<, Nat))
  BY NatLessThanWellFounded, WFMin, Zenon
<1>2. ASSUME NEW y \in S PROVE x <= y
  <2>1. ~(y < x)
    BY <1>1 DEF OpToRel
  <2> QED
    BY <2>1
<1> QED
  BY <1>2 DEF Lowest

\* A set that has 0 and with each number the next one has every number.
LEMMA CountUp ==
  ASSUME NEW S, 0 \in S, \A k \in Nat : k \in S => k + 1 \in S
  PROVE  \A k \in Nat : k \in S
<1> DEFINE Bad == Nat \ S
<1> SUFFICES ASSUME Bad # {} PROVE FALSE
  OBVIOUS
<1>1. Lowest(Bad) \in Bad /\ \A y \in Bad : Lowest(Bad) <= y
  <2>1. Bad \subseteq Nat
    OBVIOUS
  <2> HIDE DEF Bad
  <2> QED
    BY <2>1, LowestIs
<1>2. PICK m \in Nat : m \notin S /\ \A y \in Bad : m <= y
  BY <1>1
<1>3. m - 1 \in Nat /\ m - 1 \notin Bad
  BY <1>2
<1>4. m - 1 \in S
  BY <1>3
<1> QED
  BY <1>2, <1>3, <1>4

-----------------------------------------------------------------------------
(***************************************************************************)
(* search_file.  Leg is one step of its loop; Leads says that w is the     *)
(* function the recursion of Walk defines.                                 *)
(***************************************************************************)
Leg(w, path, i) ==
    IF i = 0 THEN Root
    ELSE IF IsDir(w[i - 1]) THEN Entry(w[i - 1], path[i]) ELSE w[i - 1]

Leads(w, path, L) == w = [i \in 0..L |-> Leg(w, path, i)]

LEMMA LegRuns ==
  ASSUME NEW path, NEW L \in Nat
  PROVE  \E w : Leads(w, path, L)
<1> DEFINE S == {m \in Nat : \E w : Leads(w, path, m)}
<1>1. 0 \in S
  <2> DEFINE g == [i \in 0..0 |-> Root]
  <2>1. Leads(g, path, 0)
    BY DEF Leads, Leg
  <2> QED
    BY <2>1
<1>2. ASSUME NEW m \in Nat, m \in S PROVE m + 1 \in S
  <2>1. PICK f : Leads(f, path, m)
    BY <1>2
  <2> DEFINE g == [i \in 0..(m + 1) |-> IF i = m + 1 THEN Leg(f, path, i) ELSE f[i]]
  <2>2. \A i \in 0..m : f[i] = Leg(f, path, i) /\ g[i] = f[i]
    BY <2>1 DEF Leads
  <2>3. ASSUME NEW i \in 0..(m + 1) PROVE g[i] = Leg(g, path, i)
    <3>1. i # 0 => g[i - 1] = f[i - 1]
      BY <2>2
    <3>2. Leg(g, path, i) = Leg(f, path, i)
      BY <3>1 DEF Leg
    <3>3. CASE i = m + 1
      BY <3>2, <3>3
    <3>4. CASE i # m + 1
      BY <2>2, <3>2, <3>4
    <3> QED
      BY <3>3, <3>4
  <2>4. Leads(g, path, m + 1)
    BY <2>3 DEF Leads
  <2> QED
    BY <2>4
<1> HIDE DEF S
<1>3. L \in S
  BY <1>1, <1>2, CountUp
<1> QED
  BY <1>3 DEF S

LEMMA WalkIs ==
  ASSUME NEW path, Len(path) \in Nat
  PROVE  Leads(Walk(path), path, Len(path))
<1>1. Walk(path) = CHOOSE w : Leads(w, path, Len(path))
  BY DEF Walk, Leads, Leg
<1>2. \E w : Leads(w, path, Len(path))
  BY LegRuns
<1> QED
  BY <1>1, <1>2, Zenon

LEMMA WalkStep ==
  ASSUME NEW path, Len(path) \in Nat
  PROVE  /\ Walk(path)[0] = Root
         /\ \A i \in 1..Len(path) :
               Walk(path)[i] = IF IsDir(Walk(path)[i - 1]) THEN Entry(Walk(path)[i - 1], path[i])
                               ELSE Walk(path)[i - 1]
<1> DEFINE w == Walk(path)
<1>1. Leads(w, path, Len(path))
  BY WalkIs
<1> HIDE DEF w
<1>2. \A i \in 0..Len(path) : w[i] = Leg(w, path, i)
  BY <1>1 DEF Leads
<1>3. 0 \in 0..Len(path) /\ \A i \in 1..Len(path) : i \in 0..Len(path) /\ i # 0
  OBVIOUS
<1>4. w[0] = Root
  BY <1>2, <1>3 DEF Leg
<1>5. ASSUME NEW i \in 1..Len(path)
      PROVE  w[i] = IF IsDir(w[i - 1]) THEN Entry(w[i - 1], path[i]) ELSE w[i - 1]
  BY <1>2, <1>3 DEF Leg
<1> QED
  BY <1>4, <1>5 DEF w

(***************************************************************************)
(* The directories met on the way are the first Depth(path) of it, and     *)
(* what is found is what the last of them has under the name that follows. *)
(***************************************************************************)
LEMMA FirstNumbers ==
  ASSUME NEW m \in Nat
  PROVE  Cardinality(1..m) = m
BY FS_Interval

LEMMA DepthIs ==
  ASSUME NEW path, Len(path) \in Nat
  PROVE  /\ Depth(path) \in 0..Len(path)
         /\ \A i \in 1..Depth(path) : IsDir(Walk(path)[i - 1])
         /\ Found(path) = Walk(path)[Depth(path)]
         /\ Depth(path) < Len(path) => ~IsDir(Found(path))
<1> DEFINE w == Walk(path)
           L == Len(path)
           D == {i \in 1..L : IsDir(w[i - 1])}
           Bad == {i \in 0..(L - 1) : ~IsDir(w[i])}
<1>1. \A i \in 1..L : w[i] = IF IsDir(w[i - 1]) THEN Entry(w[i - 1], path[i]) ELSE w[i - 1]
  BY WalkStep
<1>2. Depth(path) = Cardinality(D) /\ Found(path) = w[L]
  BY DEF Depth, Found
<1> HIDE DEF w
<1>3. CASE Bad = {}
  <2>1. \A i \in 1..L : IsDir(w[i - 1])
    BY <1>3
  <2>2. D = 1..L
    BY <2>1
  <2> HIDE DEF D
  <2>3. Depth(path) = L
    BY <1>2, <2>2, FirstNumbers
  <2> QED
    BY <1>2, <2>1, <2>3 DEF w
<1>4. CASE Bad # {}
  <2>1. PICK m \in Bad : \A y \in Bad : m <= y
    <3>1. Bad \subseteq Nat
      OBVIOUS
    <3> HIDE DEF Bad
    <3> QED
      BY <1>4, <3>1, LowestIs
  <2>2. m \in 0..(L - 1) /\ ~IsDir(w[m])
    OBVIOUS
  <2>3. \A i \in 0..(m - 1) : IsDir(w[i])
    BY <2>1, <2>2
  <2> DEFINE S == {k \in Nat : m + k <= L => w[m + k] = w[m]}
  <2>4. \A k \in Nat : k \in S
    <3>1. 0 \in S
      BY <2>2
    <3>2. ASSUME NEW k \in Nat, k \in S PROVE k + 1 \in S
      <4> SUFFICES ASSUME m + (k + 1) <= L PROVE w[m + (k + 1)] = w[m]
        OBVIOUS
      <4>1. w[m + k] = w[m] /\ m + k + 1 \in 1..L /\ (m + k + 1) - 1 = m + k
        BY <2>2, <3>2
      <4> QED
        BY <1>1, <2>2, <4>1
    <3> HIDE DEF S
    <3> QED
      BY <3>1, <3>2, CountUp
  <2>5. \A i \in m..L : w[i] = w[m]
    <3> SUFFICES ASSUME NEW i \in m..L PROVE w[i] = w[m]
      OBVIOUS
    <3>1. i - m \in S /\ m + (i - m) = i /\ i <= L
      BY <2>2, <2>4
    <3> QED
      BY <3>1
  <2>6. D = 1..m
    <3>1. ASSUME NEW i \in 1..L PROVE IsDir(w[i - 1]) <=> i <= m
      <4>1. CASE i <= m
        BY <2>2, <2>3, <4>1
      <4>2. CASE ~(i <= m)
        BY <2>2, <2>5, <4>2
      <4> QED
        BY <4>1, <4>2
    <3> QED
      BY <2>2, <3>1
  <2> HIDE DEF D
  <2>7. Depth(path) = m
    BY <1>2, <2>2, <2>6, FirstNumbers
  <2>8. w[L] = w[m]
    BY <2>2, <2>5
  <2>9. \A i \in 1..m : IsDir(w[i - 1])
    BY <2>2, <2>3
  <2> QED
    BY <1>2, <2>2, <2>7, <2>8, <2>9 DEF w
<1> QED
  BY <1>3, <1>4

LEMMA PathIs ==
  ASSUME NEW path \in Paths
  PROVE  /\ Len(path) \in Nat /\ (path # <<>> => Len(path) > 0)
         /\ \A i \in 1..Len(path) : path[i] \in Names \cup {".", ".."}
<1>1. PICK k \in 0..MaxDepth : path \in [1..k -> Names \cup {".", ".."}]
  BY DEF Paths
<1>2. k \in Nat
  BY <1>1, TreeAssumption
<1>3. Len(path) = k /\ DOMAIN path = 1..k
  BY <1>1, <1>2
<1>4. k = 0 => path = <<>>
  BY <1>1, <1>2
<1> QED
  BY <1>1, <1>2, <1>3, <1>4

LEMMA EmptyPath == Found(<<>>) = Root
<1>1. Len(<<>>) = 0
  OBVIOUS
<1> QED
  BY <1>1, WalkStep DEF Found

\* A path ends with a name that was looked up in a directory.
LEMMA PathEnds ==
  ASSUME TreeTypeOK, ParentsOK, NEW path \in Paths, path # <<>>
  PROVE  /\ Depth(path) \in 1..Len(path)
         /\ path[Depth(path)] \in Names \cup {".", ".."}
         /\ IsDir(Parent(path))
         /\ Found(path) = Entry(Parent(path), path[Depth(path)])
<1> DEFINE m == Depth(path)
           w == Walk(path)
<1>1. Len(path) \in Nat /\ Len(path) > 0
      /\ \A i \in 1..Len(path) : path[i] \in Names \cup {".", ".."}
  BY PathIs
<1>2. /\ m \in 0..Len(path) /\ \A i \in 1..m : IsDir(w[i - 1])
      /\ Found(path) = w[m] /\ (m < Len(path) => ~IsDir(Found(path)))
  BY <1>1, DepthIs
<1>3. IsDir(w[0])
  BY <1>1, WalkStep, InodesAre DEF IsDir, ParentsOK
<1> HIDE DEF m, w
<1>4. m \in 1..Len(path)
  BY <1>1, <1>2, <1>3
<1>5. IsDir(w[m - 1])
  BY <1>1, <1>2, <1>4
<1>6. w[m] = Entry(w[m - 1], path[m])
  BY <1>1, <1>4, <1>5, WalkStep DEF w
<1> QED
  BY <1>1, <1>2, <1>4, <1>5, <1>6 DEF m, w, Parent

\* The name that is missing is missing in a directory.
LEMMA MissingIs ==
  ASSUME TreeTypeOK, ParentsOK, NEW path \in Paths, Missing(path)
  PROVE  /\ Parent(path) \in Inodes /\ kind[Parent(path)] = "dir"
         /\ path[Len(path)] \in Names
         /\ entries[Parent(path)][path[Len(path)]] = NotFound
<1> DEFINE d == Parent(path)
           x == path[Len(path)]
<1>1. path # <<>> /\ Found(path) = NotFound /\ Depth(path) = Len(path)
  BY DEF Missing
<1>2. IsDir(d) /\ Entry(d, x) = NotFound /\ x \in Names \cup {".", ".."}
  BY <1>1, PathEnds
<1> HIDE DEF d, x
<1>3. d \in Inodes /\ dotdot[d] \in Inodes /\ kind[d] = "dir"
  BY <1>2 DEF IsDir, TreeTypeOK
<1>4. x # "." /\ x # ".."
  BY <1>2, <1>3, InodesAre DEF Entry
<1>5. x \in Names /\ entries[d][x] = NotFound
  BY <1>2, <1>4 DEF Entry
<1> QED
  BY <1>3, <1>5 DEF d, x

\* A file, or a directory with nothing in it that the path does not reach from
\* itself, is found by its name.
LEMMA FoundByName ==
  ASSUME TreeTypeOK, ParentsOK, NamesOK, NEW path \in Paths,
         Found(path) # NotFound, Found(path) # Root,
         \/ kind[Found(path)] = "file"
         \/ entries[Found(path)] = NoEntries /\ Parent(path) # Found(path)
  PROVE  /\ Found(path) \in Inodes /\ Parent(path) \in Inodes /\ kind[Parent(path)] = "dir"
         /\ Parent(path) # Found(path)
         /\ \E y \in Names : entries[Parent(path)][y] = Found(path)
<1> DEFINE d == Parent(path)
           n == Found(path)
           x == path[Depth(path)]
<1>1. path # <<>>
  BY EmptyPath
<1>2. IsDir(d) /\ n = Entry(d, x) /\ x \in Names \cup {".", ".."}
  BY <1>1, PathEnds
<1>3. n # NotFound /\ n # Root
      /\ (kind[n] = "file" \/ (entries[n] = NoEntries /\ d # n))
  OBVIOUS
<1> HIDE DEF d, n, x
<1>4. d \in Inodes /\ kind[d] = "dir" /\ dotdot[d] \in Inodes
  BY <1>2 DEF IsDir, TreeTypeOK
<1>5. d # n
  BY <1>3, <1>4
<1>6. x # "."
  BY <1>2, <1>5 DEF Entry
<1>7. x # ".."
  <2> SUFFICES ASSUME x = ".." PROVE FALSE
    OBVIOUS
  <2>1. n = dotdot[d]
    BY <1>2 DEF Entry
  <2>2. kind[n] = "dir" /\ d # Root
    BY <1>3, <1>4, <2>1 DEF ParentsOK
  <2>3. entries[n] = NoEntries
    BY <1>3, <2>2
  <2>4. PICK e \in Inodes, y \in Names : NamedBy(d, e, y)
    BY <1>4, <2>2 DEF NamesOK
  <2>5. entries[n][y] = d
    BY <1>4, <2>1, <2>4 DEF NamedBy
  <2> QED
    BY <1>4, <2>3, <2>5, InodesAre DEF NoEntries
<1>8. x \in Names /\ entries[d][x] = n
  BY <1>2, <1>6, <1>7 DEF Entry
<1>9. n \in Inodes
  BY <1>3, <1>4, <1>8 DEF TreeTypeOK
<1> QED
  BY <1>4, <1>5, <1>8, <1>9 DEF d, n

-----------------------------------------------------------------------------
(***************************************************************************)
(* A new entry: n, which was free, gets the name y in d.                   *)
(***************************************************************************)
Added(d, y, n, k) ==
    /\ d \in Inodes /\ kind[d] = "dir" /\ y \in Names /\ entries[d][y] = NotFound
    /\ n \in Inodes /\ kind[n] = "free" /\ k \in {"dir", "file"}
    /\ TreeTypeOK'
    /\ kind'[n] = k /\ \A m \in Inodes \ {n} : kind'[m] = kind[m]
    /\ entries'[d][y] = n /\ \A z \in Names : entries'[n][z] = NotFound
    /\ \A e \in Inodes \ {n}, z \in Names :
          e # d \/ z # y => entries'[e][z] = entries[e][z]
    /\ dotdot'[n] = IF k = "dir" THEN d ELSE Root
    /\ \A m \in Inodes \ {n} : dotdot'[m] = dotdot[m]

LEMMA AddedParents ==
  ASSUME TreeTypeOK, ParentsOK, NEW d, NEW y, NEW n, NEW k, Added(d, y, n, k)
  PROVE  ParentsOK'
<1>1. n # Root /\ d # n /\ Root \in Inodes
  BY InodesAre DEF Added, ParentsOK
<1>2. kind'[Root] = "dir" /\ dotdot'[Root] = Root
  BY <1>1 DEF Added, ParentsOK
<1>3. ASSUME NEW m \in Inodes
      PROVE  kind'[dotdot'[m]] = "dir" /\ (kind'[m] # "dir" => dotdot'[m] = Root)
  <2>1. CASE m = n
    BY <1>1, <1>2, <2>1 DEF Added
  <2>2. CASE m # n
    <3>1. dotdot'[m] = dotdot[m] /\ kind'[m] = kind[m] /\ dotdot[m] \in Inodes
      BY <2>2 DEF Added, TreeTypeOK
    <3>2. dotdot[m] # n /\ kind[dotdot[m]] = "dir"
      BY DEF Added, ParentsOK
    <3>3. kind'[dotdot[m]] = "dir"
      BY <3>1, <3>2 DEF Added
    <3> QED
      BY <3>1, <3>3 DEF ParentsOK
  <2> QED
    BY <2>1, <2>2
<1> QED
  BY <1>2, <1>3 DEF ParentsOK

LEMMA AddedEntries ==
  ASSUME TreeTypeOK, EntriesOK, NEW d, NEW y, NEW n, NEW k, Added(d, y, n, k)
  PROVE  EntriesOK'
<1> SUFFICES ASSUME NEW e \in Inodes, NEW z \in Names,
                    kind'[e] = "dir", entries'[e][z] # NotFound
             PROVE  kind'[entries'[e][z]] # "free"
  BY DEF EntriesOK
<1>1. e # n
  BY DEF Added
<1>2. CASE e = d /\ z = y
  BY <1>2 DEF Added
<1>3. CASE e # d \/ z # y
  <2>1. entries'[e][z] = entries[e][z] /\ kind[e] = "dir"
    BY <1>1, <1>3 DEF Added
  <2>2. entries[e][z] \in Inodes /\ kind[entries[e][z]] # "free"
    BY <2>1 DEF EntriesOK, TreeTypeOK
  <2>3. entries[e][z] # n
    BY <2>2 DEF Added
  <2> QED
    BY <2>1, <2>2, <2>3 DEF Added
<1> QED
  BY <1>2, <1>3

LEMMA AddedNames ==
  ASSUME TreeTypeOK, EntriesOK, NamesOK, NEW d, NEW y, NEW n, NEW k, Added(d, y, n, k)
  PROVE  NamesOK'
<1> SUFFICES ASSUME NEW m \in Inodes \ {Root}, kind'[m] # "free"
             PROVE  \E e \in Inodes, z \in Names : NamedBy(m, e, z)'
  BY DEF NamesOK
<1>1. d \in Inodes /\ y \in Names /\ d # n /\ n \in Inodes
  BY DEF Added
<1>2. CASE m = n
  <2>1. kind'[d] = "dir" /\ entries'[d][y] = n /\ (kind'[n] = "dir" => dotdot'[n] = d)
    BY <1>1 DEF Added
  <2>2. ASSUME NEW e \in Inodes, NEW z \in Names, kind'[e] = "dir", entries'[e][z] = n
        PROVE  e = d /\ z = y
    <3> SUFFICES ASSUME e # d \/ z # y PROVE FALSE
      OBVIOUS
    <3>1. e # n
      BY <1>1, <2>2, InodesAre DEF Added
    <3>2. entries[e][z] = n /\ kind[e] = "dir"
      BY <2>2, <3>1 DEF Added
    <3> QED
      BY <1>1, <3>2, InodesAre DEF EntriesOK, Added
  <2> QED
    BY <1>1, <1>2, <2>1, <2>2 DEF NamedBy
<1>3. CASE m # n
  <2>1. kind[m] # "free" /\ kind'[m] = kind[m] /\ dotdot'[m] = dotdot[m]
    BY <1>3 DEF Added
  <2>2. PICK e \in Inodes, z \in Names : NamedBy(m, e, z)
    BY <2>1 DEF NamesOK
  <2>3. e # n /\ (e # d \/ z # y)
    BY <2>2, InodesAre DEF NamedBy, Added
  <2>4. kind'[e] = "dir" /\ entries'[e][z] = m
    BY <2>2, <2>3 DEF NamedBy, Added
  <2>5. ASSUME NEW g \in Inodes, NEW x \in Names, kind'[g] = "dir", entries'[g][x] = m
        PROVE  g = e /\ x = z
    <3>1. g # n
      BY <2>5, InodesAre DEF Added
    <3>2. g # d \/ x # y
      BY <1>3, <2>5 DEF Added
    <3>3. entries[g][x] = m /\ kind[g] = "dir"
      BY <2>5, <3>1, <3>2 DEF Added
    <3> QED
      BY <2>2, <3>3 DEF NamedBy
  <2>6. kind'[m] = "dir" => dotdot'[m] = e
    BY <2>1, <2>2 DEF NamedBy
  <2> QED
    BY <2>4, <2>5, <2>6 DEF NamedBy
<1> QED
  BY <1>2, <1>3

LEMMA AddedHeight ==
  ASSUME TreeTypeOK, ParentsOK, NoCycle, NEW d, NEW y, NEW n, NEW k, Added(d, y, n, k)
  PROVE  NoCycle'
<1>1. PICK K \in Nat : \E f : Height(f, K)
  BY DEF NoCycle
<1>2. PICK f : Height(f, K)
  BY <1>1
<1> DEFINE g == [m \in Inodes |-> IF m = n THEN f[d] + 1 ELSE f[m]]
<1>3. f \in [Inodes -> 0..K] /\ f[Root] = 0 /\ \A m \in Inodes \ {Root} : f[dotdot[m]] < f[m]
  BY <1>2 DEF Height
<1>4. n \in Inodes /\ d \in Inodes /\ n # d /\ n # Root /\ Root \in Inodes
  BY InodesAre DEF Added, ParentsOK
<1>5. /\ g \in [Inodes -> 0..(K + 1)] /\ g[n] = f[d] + 1 /\ f[d] \in Nat
      /\ \A m \in Inodes \ {n} : g[m] = f[m]
  BY <1>3, <1>4
<1> HIDE DEF g
<1>6. ASSUME NEW m \in Inodes \ {Root} PROVE g[dotdot'[m]] < g[m]
  <2>1. CASE m = n
    <3>1. dotdot'[n] = d \/ dotdot'[n] = Root
      BY DEF Added
    <3> QED
      BY <1>3, <1>4, <1>5, <2>1, <3>1
  <2>2. CASE m # n
    <3>1. dotdot'[m] = dotdot[m] /\ dotdot[m] \in Inodes /\ dotdot[m] # n
      BY <2>2 DEF Added, ParentsOK, TreeTypeOK
    <3> QED
      BY <1>3, <1>5, <2>2, <3>1
  <2> QED
    BY <2>1, <2>2
<1>7. g[Root] = 0
  BY <1>3, <1>4, <1>5
<1>8. Height(g, K + 1)'
  BY <1>5, <1>6, <1>7 DEF Height
<1> QED
  BY <1>8 DEF NoCycle

-----------------------------------------------------------------------------
(***************************************************************************)
(* A removal: n, a file or a directory with nothing in it, loses its name  *)
(* in d.                                                                   *)
(***************************************************************************)
Removed(d, n) ==
    /\ d \in Inodes /\ kind[d] = "dir" /\ n \in Inodes \ {Root} /\ d # n
    /\ \E y \in Names : entries[d][y] = n
    /\ kind[n] = "file" \/ (kind[n] = "dir" /\ entries[n] = NoEntries)
    /\ TreeTypeOK'
    /\ kind'[n] = "free" /\ \A m \in Inodes \ {n} : kind'[m] = kind[m]
    /\ \A e \in Inodes, z \in Names :
          entries'[e][z] = IF e = d /\ entries[e][z] = n THEN NotFound ELSE entries[e][z]
    /\ dotdot'[n] = Root /\ \A m \in Inodes \ {n} : dotdot'[m] = dotdot[m]

\* Nothing has n as its parent.
LEMMA NoChild ==
  ASSUME TreeTypeOK, ParentsOK, NamesOK, NEW d, NEW n, Removed(d, n), NEW m \in Inodes
  PROVE  dotdot[m] # n
<1> SUFFICES ASSUME dotdot[m] = n PROVE FALSE
  OBVIOUS
<1>1. kind[m] = "dir" /\ m # Root /\ kind[n] = "dir"
  BY DEF ParentsOK, Removed
<1>2. PICK e \in Inodes, y \in Names : NamedBy(m, e, y)
  BY <1>1 DEF NamesOK
<1>3. entries[n][y] = m
  BY <1>1, <1>2 DEF NamedBy
<1>4. entries[n][y] = NotFound
  BY <1>1 DEF Removed, NoEntries
<1> QED
  BY <1>3, <1>4, InodesAre

LEMMA RemovedParents ==
  ASSUME TreeTypeOK, ParentsOK, NamesOK, NEW d, NEW n, Removed(d, n)
  PROVE  ParentsOK'
<1>1. Root \in Inodes /\ n # Root /\ n \in Inodes
  BY InodesAre DEF Removed
<1>2. kind'[Root] = "dir" /\ dotdot'[Root] = Root
  BY <1>1 DEF Removed, ParentsOK
<1>3. ASSUME NEW m \in Inodes
      PROVE  kind'[dotdot'[m]] = "dir" /\ (kind'[m] # "dir" => dotdot'[m] = Root)
  <2>1. CASE m = n
    BY <1>2, <2>1 DEF Removed
  <2>2. CASE m # n
    <3>1. dotdot'[m] = dotdot[m] /\ kind'[m] = kind[m] /\ dotdot[m] \in Inodes
      BY <2>2 DEF Removed, TreeTypeOK
    <3>2. dotdot[m] # n
      BY NoChild
    <3>3. kind'[dotdot[m]] = kind[dotdot[m]]
      BY <3>1, <3>2 DEF Removed
    <3> QED
      BY <3>1, <3>3 DEF ParentsOK
  <2> QED
    BY <2>1, <2>2
<1> QED
  BY <1>2, <1>3 DEF ParentsOK

\* What names n in a directory is the entry that goes.
LEMMA OnlyName ==
  ASSUME NamesOK, NEW d, NEW n, Removed(d, n), NEW e \in Inodes, NEW z \in Names,
         kind[e] = "dir", entries[e][z] = n
  PROVE  e = d
<1>1. n \in Inodes \ {Root} /\ kind[n] # "free"
  BY DEF Removed
<1>2. PICK g \in Inodes, x \in Names : NamedBy(n, g, x)
  BY <1>1 DEF NamesOK
<1>3. e = g
  BY <1>2 DEF NamedBy
<1>4. d = g
  BY <1>2 DEF NamedBy, Removed
<1> QED
  BY <1>3, <1>4

LEMMA RemovedEntries ==
  ASSUME TreeTypeOK, EntriesOK, NamesOK, NEW d, NEW n, Removed(d, n)
  PROVE  EntriesOK'
<1> SUFFICES ASSUME NEW e \in Inodes, NEW z \in Names,
                    kind'[e] = "dir", entries'[e][z] # NotFound
             PROVE  kind'[entries'[e][z]] # "free"
  BY DEF EntriesOK
<1>1. e # n /\ kind[e] = "dir"
  BY DEF Removed
<1>2. entries'[e][z] = entries[e][z] /\ ~(e = d /\ entries[e][z] = n)
  BY DEF Removed
<1>3. entries[e][z] # n
  BY <1>1, <1>2, OnlyName
<1>4. entries[e][z] \in Inodes /\ kind[entries[e][z]] # "free"
  BY <1>1, <1>2 DEF EntriesOK, TreeTypeOK
<1> QED
  BY <1>2, <1>3, <1>4 DEF Removed

LEMMA RemovedNames ==
  ASSUME TreeTypeOK, NamesOK, NEW d, NEW n, Removed(d, n)
  PROVE  NamesOK'
<1> SUFFICES ASSUME NEW m \in Inodes \ {Root}, kind'[m] # "free"
             PROVE  \E e \in Inodes, z \in Names : NamedBy(m, e, z)'
  BY DEF NamesOK
<1>1. m # n
  BY DEF Removed
<1>2. kind[m] # "free" /\ kind'[m] = kind[m] /\ dotdot'[m] = dotdot[m]
  BY <1>1 DEF Removed
<1>3. PICK e \in Inodes, z \in Names : NamedBy(m, e, z)
  BY <1>2 DEF NamesOK
<1>4. e # n
  <2> SUFFICES ASSUME e = n PROVE FALSE
    OBVIOUS
  <2>1. kind[n] = "dir" /\ entries[n][z] = m
    BY <1>3 DEF NamedBy
  <2>2. entries[n][z] = NotFound
    BY <2>1 DEF Removed, NoEntries
  <2> QED
    BY <2>1, <2>2, InodesAre
<1>5. kind'[e] = "dir" /\ entries'[e][z] = m
  BY <1>1, <1>3, <1>4 DEF NamedBy, Removed
<1>6. ASSUME NEW g \in Inodes, NEW x \in Names, kind'[g] = "dir", entries'[g][x] = m
      PROVE  g = e /\ x = z
  <2>1. entries[g][x] = m /\ kind[g] = "dir"
    BY <1>6, InodesAre DEF Removed
  <2> QED
    BY <1>3, <2>1 DEF NamedBy
<1>7. kind'[m] = "dir" => dotdot'[m] = e
  BY <1>2, <1>3 DEF NamedBy
<1> QED
  BY <1>5, <1>6, <1>7 DEF NamedBy

LEMMA RemovedHeight ==
  ASSUME TreeTypeOK, NoCycle, NEW d, NEW n, Removed(d, n)
  PROVE  NoCycle'
<1>1. PICK K \in Nat : \E f : Height(f, K)
  BY DEF NoCycle
<1>2. PICK f : Height(f, K)
  BY <1>1
<1>3. f \in [Inodes -> 0..K] /\ f[Root] = 0 /\ \A m \in Inodes \ {Root} : f[dotdot[m]] < f[m]
  BY <1>2 DEF Height
<1>4. ASSUME NEW m \in Inodes \ {Root} PROVE f[dotdot'[m]] < f[m]
  <2>1. CASE m = n
    <3>1. f[dotdot[m]] < f[m] /\ f[dotdot[m]] \in Nat /\ f[m] \in Nat
      BY <1>3 DEF TreeTypeOK
    <3>2. dotdot'[m] = Root
      BY <2>1 DEF Removed
    <3> QED
      BY <1>3, <3>1, <3>2
  <2>2. CASE m # n
    <3>1. dotdot'[m] = dotdot[m]
      BY <2>2 DEF Removed
    <3> QED
      BY <1>3, <3>1
  <2> QED
    BY <2>1, <2>2
<1>5. Height(f, K)'
  BY <1>3, <1>4 DEF Height
<1> QED
  BY <1>5 DEF NoCycle

-----------------------------------------------------------------------------
(***************************************************************************)
(* The steps that change the tree.                                         *)
(***************************************************************************)
WithEntry(E, d, y, n) == [E EXCEPT ![d][y] = n, ![n] = NoEntries]

LEMMA TableAdd ==
  ASSUME NEW E \in [Inodes -> [Names -> Inodes \cup {NotFound}]],
         NEW d \in Inodes, NEW y \in Names, NEW n \in Inodes, n # d
  PROVE  LET F == WithEntry(E, d, y, n)
         IN  /\ F \in [Inodes -> [Names -> Inodes \cup {NotFound}]]
             /\ F[d][y] = n /\ \A z \in Names : F[n][z] = NotFound
             /\ \A e \in Inodes \ {n}, z \in Names : e # d \/ z # y => F[e][z] = E[e][z]
<1> DEFINE G == [E EXCEPT ![d][y] = n]
           F == [G EXCEPT ![n] = NoEntries]
<1>1. /\ G \in [Inodes -> [Names -> Inodes \cup {NotFound}]] /\ G[d][y] = n
      /\ \A e \in Inodes, z \in Names : e # d \/ z # y => G[e][z] = E[e][z]
  OBVIOUS
<1>2. NoEntries \in [Names -> Inodes \cup {NotFound}] /\ \A z \in Names : NoEntries[z] = NotFound
  BY DEF NoEntries
<1> HIDE DEF G
<1>3. /\ F \in [Inodes -> [Names -> Inodes \cup {NotFound}]] /\ F[n] = NoEntries
      /\ \A e \in Inodes \ {n} : F[e] = G[e]
  BY <1>1, <1>2
<1>4. F = WithEntry(E, d, y, n)
  BY DEF G, WithEntry
<1> HIDE DEF F
<1>5. /\ F[d][y] = n /\ \A z \in Names : F[n][z] = NotFound
      /\ \A e \in Inodes \ {n}, z \in Names : e # d \/ z # y => F[e][z] = E[e][z]
  BY <1>1, <1>2, <1>3
<1> QED
  BY <1>3, <1>4, <1>5

LEMMA NewEntryAdds ==
  ASSUME TreeTypeOK, ParentsOK, NEW path \in Paths, NEW k \in {"dir", "file"}, NewEntry(path, k)
  PROVE  Added(Parent(path), path[Len(path)], Lowest(FreeInodes), k)
<1> DEFINE d == Parent(path)
           y == path[Len(path)]
           n == Lowest(FreeInodes)
<1>1. d \in Inodes /\ kind[d] = "dir" /\ y \in Names /\ entries[d][y] = NotFound
  BY MissingIs DEF NewEntry
<1>2. n \in Inodes /\ kind[n] = "free"
  <2>1. FreeInodes \subseteq Nat /\ FreeInodes # {}
    BY InodesAre DEF FreeInodes, NewEntry
  <2>2. n \in FreeInodes
    BY <2>1, LowestIs
  <2> HIDE DEF n
  <2> QED
    BY <2>2 DEF FreeInodes
<1>3. /\ kind' = [kind EXCEPT ![n] = k]
      /\ entries' = [entries EXCEPT ![d][y] = n, ![n] = NoEntries]
      /\ dotdot' = [dotdot EXCEPT ![n] = IF k = "dir" THEN d ELSE Root]
      /\ UNCHANGED cwd_inode_nr
  BY DEF NewEntry
<1> HIDE DEF d, y, n
<1>4. /\ kind' \in [Inodes -> {"dir", "file", "free"}]
      /\ kind'[n] = k /\ \A m \in Inodes \ {n} : kind'[m] = kind[m]
  BY <1>2, <1>3 DEF TreeTypeOK
<1>5. /\ entries' \in [Inodes -> [Names -> Inodes \cup {NotFound}]]
      /\ entries'[d][y] = n /\ \A z \in Names : entries'[n][z] = NotFound
      /\ \A e \in Inodes \ {n}, z \in Names : e # d \/ z # y => entries'[e][z] = entries[e][z]
  <2>1. n # d
    BY <1>1, <1>2
  <2>2. entries \in [Inodes -> [Names -> Inodes \cup {NotFound}]]
    BY DEF TreeTypeOK
  <2> DEFINE F == WithEntry(entries, d, y, n)
  <2>3. /\ F \in [Inodes -> [Names -> Inodes \cup {NotFound}]]
        /\ F[d][y] = n /\ \A z \in Names : F[n][z] = NotFound
        /\ \A e \in Inodes \ {n}, z \in Names : e # d \/ z # y => F[e][z] = entries[e][z]
    BY <1>1, <1>2, <2>1, <2>2, TableAdd
  <2>4. entries' = F
    BY <1>3 DEF WithEntry
  <2> HIDE DEF F
  <2> QED
    BY <2>3, <2>4
<1>6. /\ dotdot' \in [Inodes -> Inodes]
      /\ dotdot'[n] = (IF k = "dir" THEN d ELSE Root)
      /\ \A m \in Inodes \ {n} : dotdot'[m] = dotdot[m]
  BY <1>1, <1>2, <1>3, InodesAre DEF TreeTypeOK
<1>7. TreeTypeOK'
  BY <1>3, <1>4, <1>5, <1>6 DEF TreeTypeOK
<1>8. Added(d, y, n, k)
  BY <1>1, <1>2, <1>4, <1>5, <1>6, <1>7 DEF Added
<1> QED
  BY <1>8 DEF d, y, n

LEMMA NewEntryStep ==
  ASSUME TreeOK, NEW path \in Paths, NEW k \in {"dir", "file"},
         NewEntry(path, k)
  PROVE  IInv'
<1> DEFINE d == Parent(path)
           y == path[Len(path)]
           n == Lowest(FreeInodes)
<1>1. UNCHANGED <<cwd_inode_nr, gone>>
  BY DEF NewEntry
<1>3. Added(d, y, n, k)
  BY NewEntryAdds DEF TreeOK
<1> HIDE DEF d, y, n
<1>5. TreeTypeOK' /\ n \in Inodes /\ kind[n] = "free" /\ \A m \in Inodes \ {n} : kind'[m] = kind[m]
  BY <1>3 DEF Added
<1>6. ParentsOK' /\ EntriesOK' /\ NamesOK' /\ NoCycle'
  BY <1>3, AddedParents, AddedEntries, AddedNames, AddedHeight DEF TreeOK
<1>7. CwdOK'
  BY <1>1, <1>5 DEF CwdOK, TreeOK, TreeTypeOK
<1> QED
  BY <1>5, <1>6, <1>7 DEF TreeOK, IInv

LEMMA TableErase ==
  ASSUME NEW E \in [Inodes -> [Names -> Inodes \cup {NotFound}]], NEW d \in Inodes, NEW n
  PROVE  LET F == [E EXCEPT ![d] = [x \in Names |-> IF @[x] = n THEN NotFound ELSE @[x]]]
         IN  /\ F \in [Inodes -> [Names -> Inodes \cup {NotFound}]]
             /\ \A e \in Inodes, z \in Names :
                   F[e][z] = IF e = d /\ E[e][z] = n THEN NotFound ELSE E[e][z]
<1> DEFINE row == [x \in Names |-> IF E[d][x] = n THEN NotFound ELSE E[d][x]]
           F == [E EXCEPT ![d] = row]
<1>1. /\ row \in [Names -> Inodes \cup {NotFound}]
      /\ \A z \in Names : row[z] = IF E[d][z] = n THEN NotFound ELSE E[d][z]
  OBVIOUS
<1> HIDE DEF row
<1>2. /\ F \in [Inodes -> [Names -> Inodes \cup {NotFound}]] /\ F[d] = row
      /\ \A e \in Inodes \ {d} : F[e] = E[e]
  BY <1>1
<1>3. F = [E EXCEPT ![d] = [x \in Names |-> IF @[x] = n THEN NotFound ELSE @[x]]]
  BY DEF row
<1> HIDE DEF F
<1>4. ASSUME NEW e \in Inodes, NEW z \in Names
      PROVE  F[e][z] = IF e = d /\ E[e][z] = n THEN NotFound ELSE E[e][z]
  BY <1>1, <1>2
<1> QED
  BY <1>2, <1>3, <1>4

\* What sys_unlink and sys_rmdir have in common.
Removes(path) ==
    /\ kind' = [kind EXCEPT ![Found(path)] = "free"]
    /\ entries' = [entries EXCEPT ![Parent(path)] =
                      [x \in Names |-> IF @[x] = Found(path) THEN NotFound ELSE @[x]]]
    /\ dotdot' = [dotdot EXCEPT ![Found(path)] = Root]
    /\ UNCHANGED cwd_inode_nr

LEMMA RemovesIs ==
  ASSUME TreeTypeOK, ParentsOK, NamesOK, NEW path \in Paths, Removes(path),
         Found(path) # NotFound, Found(path) # Root,
         \/ kind[Found(path)] = "file"
         \/ /\ kind[Found(path)] = "dir" /\ entries[Found(path)] = NoEntries
            /\ Parent(path) # Found(path)
  PROVE  Removed(Parent(path), Found(path))
<1> DEFINE d == Parent(path)
           n == Found(path)
<1>1. /\ n \in Inodes \ {Root} /\ d \in Inodes /\ kind[d] = "dir" /\ d # n
      /\ \E y \in Names : entries[d][y] = n
      /\ kind[n] = "file" \/ (kind[n] = "dir" /\ entries[n] = NoEntries)
  BY FoundByName
<1>2. /\ kind' = [kind EXCEPT ![n] = "free"]
      /\ entries' = [entries EXCEPT ![d] =
                        [x \in Names |-> IF @[x] = n THEN NotFound ELSE @[x]]]
      /\ dotdot' = [dotdot EXCEPT ![n] = Root] /\ UNCHANGED cwd_inode_nr
  BY DEF Removes
<1> HIDE DEF d, n
<1>3. /\ kind' \in [Inodes -> {"dir", "file", "free"}]
      /\ kind'[n] = "free" /\ \A m \in Inodes \ {n} : kind'[m] = kind[m]
  BY <1>1, <1>2 DEF TreeTypeOK
<1>4. /\ entries' \in [Inodes -> [Names -> Inodes \cup {NotFound}]]
      /\ \A e \in Inodes, z \in Names :
            entries'[e][z] = IF e = d /\ entries[e][z] = n THEN NotFound ELSE entries[e][z]
  <2>1. entries \in [Inodes -> [Names -> Inodes \cup {NotFound}]]
    BY DEF TreeTypeOK
  <2> QED
    BY <1>1, <1>2, <2>1, TableErase
<1>5. /\ dotdot' \in [Inodes -> Inodes]
      /\ dotdot'[n] = Root /\ \A m \in Inodes \ {n} : dotdot'[m] = dotdot[m]
  BY <1>1, <1>2, InodesAre DEF TreeTypeOK
<1>6. TreeTypeOK'
  BY <1>2, <1>3, <1>4, <1>5 DEF TreeTypeOK
<1>7. Removed(d, n)
  BY <1>1, <1>3, <1>4, <1>5, <1>6 DEF Removed
<1> QED
  BY <1>7 DEF d, n

LEMMA RemovedTree ==
  ASSUME TreeOK, NEW d, NEW n, Removed(d, n), UNCHANGED cwd_inode_nr,
         gone' = gone \cup {p \in Procs : cwd_inode_nr[p] = n}
  PROVE  TreeOK'
<1>1. TreeTypeOK' /\ n \in Inodes /\ \A m \in Inodes \ {n} : kind'[m] = kind[m]
  BY DEF Removed
<1>2. ParentsOK' /\ EntriesOK' /\ NamesOK' /\ NoCycle'
  BY RemovedParents, RemovedEntries, RemovedNames, RemovedHeight DEF TreeOK
<1>3. CwdOK'
  BY <1>1 DEF CwdOK, TreeOK, TreeTypeOK
<1> QED
  BY <1>1, <1>2, <1>3 DEF TreeOK

LEMMA UnlinkStep ==
  ASSUME TreeOK, NEW path \in Paths, sys_unlink(path)
  PROVE  IInv'
<1> DEFINE n == Found(path)
           d == Parent(path)
<1>1. /\ n # NotFound /\ kind[n] = "file"
      /\ UNCHANGED <<dotdot, cwd_inode_nr, gone>>
  BY DEF sys_unlink
<1>2. n # Root /\ TreeTypeOK /\ ParentsOK /\ NamesOK
  BY <1>1 DEF TreeOK, ParentsOK
<1>3. n \in Inodes
  BY <1>1, <1>2, FoundByName
<1>4. dotdot[n] = Root
  BY <1>1, <1>3 DEF TreeOK, ParentsOK
<1>5. dotdot' = [dotdot EXCEPT ![n] = Root]
  BY <1>1, <1>3, <1>4 DEF TreeOK, TreeTypeOK
<1>6. Removed(d, n)
  <2>1. Removes(path)
    BY <1>5 DEF sys_unlink, Removes
  <2> QED
    BY <1>1, <1>2, <2>1, RemovesIs
<1> HIDE DEF n, d
<1>7. \A p \in Procs : cwd_inode_nr[p] = n => p \in gone
  BY <1>1 DEF TreeOK, CwdOK
<1>8. gone' = gone \cup {p \in Procs : cwd_inode_nr[p] = n}
  BY <1>1, <1>7
<1>9. TreeOK'
  BY <1>1, <1>6, <1>8, RemovedTree
<1> QED
  BY <1>9 DEF IInv

LEMMA RmdirStep ==
  ASSUME TreeOK, NEW path \in Paths, sys_rmdir(path)
  PROVE  IInv'
<1> DEFINE n == Found(path)
           d == Parent(path)
<1>1. /\ IsDir(n) /\ n # Root /\ entries[n] = NoEntries /\ Removes(path)
      /\ broken' = "none" => d # n
      /\ gone' = gone \cup {p \in Procs : cwd_inode_nr[p] = n}
      /\ UNCHANGED cwd_inode_nr
  BY DEF sys_rmdir, Removable, Removes
<1> SUFFICES ASSUME broken' = "none" PROVE TreeOK'
  BY DEF IInv, Running
<1>3. n \in Inodes /\ kind[n] = "dir" /\ n # NotFound /\ d # n
  BY <1>1, InodesAre DEF IsDir
<1>4. TreeTypeOK /\ ParentsOK /\ NamesOK
  BY DEF TreeOK
<1>5. Removed(d, n)
  BY <1>1, <1>3, <1>4, RemovesIs
<1> HIDE DEF n, d
<1>6. TreeOK'
  BY <1>1, <1>5, RemovedTree
<1> QED
  BY <1>6

-----------------------------------------------------------------------------
(***************************************************************************)
(* The steps that open and close directories, and the others.              *)
(***************************************************************************)
LEMMA TreeKept ==
  ASSUME TreeOK, UNCHANGED tree, TreeTypeOK', CwdOK'
  PROVE  TreeOK'
<1>1. UNCHANGED <<kind, entries, dotdot>>
  BY DEF tree
<1>2. ParentsOK' /\ EntriesOK' /\ NamesOK'
  BY <1>1 DEF TreeOK, ParentsOK, EntriesOK, NamesOK, NamedBy
<1>3. NoCycle'
  BY <1>1 DEF TreeOK, NoCycle, Height
<1> QED
  BY <1>2, <1>3 DEF TreeOK

LEMMA TreeSame ==
  ASSUME TreeOK, UNCHANGED <<tree, cwd_inode_nr, gone>>
  PROVE  TreeOK'
<1>1. TreeTypeOK' /\ CwdOK'
  BY DEF TreeOK, TreeTypeOK, CwdOK, tree
<1> QED
  BY <1>1, TreeKept

LEMMA ChdirStep ==
  ASSUME TreeOK, NEW path \in Paths, NEW p \in Procs, sys_chdir(p, path)
  PROVE  IInv'
<1> DEFINE n == Found(path)
<1>1. /\ IsDir(n) /\ cwd_inode_nr' = [cwd_inode_nr EXCEPT ![p] = n]
      /\ gone' = gone \ {p} /\ UNCHANGED tree
  BY DEF sys_chdir
<1> HIDE DEF n
<1>2. n \in Inodes /\ kind[n] = "dir"
  BY <1>1 DEF IsDir
<1>3. /\ cwd_inode_nr' \in [Procs -> Inodes] /\ cwd_inode_nr'[p] = n
      /\ \A q \in Procs \ {p} : cwd_inode_nr'[q] = cwd_inode_nr[q]
  BY <1>1, <1>2 DEF TreeOK, TreeTypeOK
<1>4. TreeTypeOK'
  BY <1>1, <1>3 DEF TreeOK, TreeTypeOK, tree
<1>5. CwdOK'
  BY <1>1, <1>2, <1>3 DEF TreeOK, CwdOK, tree
<1>6. TreeOK'
  BY <1>1, <1>4, <1>5, TreeKept
<1> QED
  BY <1>6 DEF IInv

LEMMA InitOK == TreeInit => IInv
<1> SUFFICES ASSUME TreeInit PROVE IInv
  OBVIOUS
<1>1. /\ kind = [n \in Inodes |-> IF n = Root THEN "dir" ELSE "free"]
      /\ entries = [n \in Inodes |-> NoEntries] /\ dotdot = [n \in Inodes |-> Root]
      /\ cwd_inode_nr = [p \in Procs |-> Root]
  BY DEF TreeInit
<1>2. NoEntries \in [Names -> Inodes \cup {NotFound}]
  BY DEF NoEntries
<1>3. TreeTypeOK
  BY <1>1, <1>2, InodesAre DEF TreeTypeOK
<1>4. ParentsOK
  BY <1>1, InodesAre DEF ParentsOK
<1>5. EntriesOK
  BY <1>1 DEF EntriesOK, NoEntries
<1>6. NamesOK
  BY <1>1 DEF NamesOK
<1>7. NoCycle
  <2> DEFINE f == [n \in Inodes |-> IF n = Root THEN 0 ELSE 1]
  <2>1. f \in [Inodes -> 0..1] /\ f[Root] = 0 /\ \A n \in Inodes \ {Root} : f[dotdot[n]] < f[n]
    BY <1>1, InodesAre
  <2>2. Height(f, 1)
    BY <2>1 DEF Height
  <2> QED
    BY <2>2 DEF NoCycle
<1>8. CwdOK
  BY <1>1, InodesAre DEF CwdOK
<1> QED
  BY <1>3, <1>4, <1>5, <1>6, <1>7, <1>8 DEF IInv, TreeOK

LEMMA NextOK ==
  ASSUME IInv, [TreeNext]_tree_vars
  PROVE  IInv'
<1>1. ASSUME NEW path \in Paths,
             \/ sys_mkdir(path) \/ sys_open_create(path) \/ sys_open(path)
             \/ sys_unlink(path) \/ sys_rmdir(path) \/ asserts_not_root(path)
      PROVE  IInv'
  <2>1. TreeOK
    BY <1>1 DEF IInv, sys_mkdir, sys_open_create, NewEntry, sys_open, sys_unlink, sys_rmdir,
                asserts_not_root
  <2>2. CASE sys_mkdir(path) \/ sys_open_create(path)
    BY <2>1, <2>2, NewEntryStep DEF sys_mkdir, sys_open_create
  <2>3. CASE sys_open(path)
    BY <2>1, <2>3, TreeSame DEF sys_open, IInv
  <2>4. CASE sys_unlink(path)
    BY <2>1, <2>4, UnlinkStep
  <2>5. CASE sys_rmdir(path)
    BY <2>1, <2>5, RmdirStep
  <2>6. CASE asserts_not_root(path)
    BY <2>6 DEF asserts_not_root, IInv, Running
  <2> QED
    BY <1>1, <2>2, <2>3, <2>4, <2>5, <2>6
<1>2. ASSUME NEW path \in Paths, NEW p \in Procs,
             sys_opendir(p, path) \/ sys_chdir(p, path)
      PROVE  IInv'
  <2>1. TreeOK
    BY <1>2 DEF IInv, sys_opendir, sys_chdir
  <2>2. CASE sys_opendir(p, path)
    BY <2>1, <2>2, TreeSame DEF sys_opendir, IInv
  <2> QED
    BY <1>2, <2>1, <2>2, ChdirStep
<1>3. ASSUME NEW p \in Procs, sys_closedir(p) \/ sys_getcwd_panics(p)
      PROVE  IInv'
  <2>1. CASE sys_closedir(p)
    <3>1. TreeOK /\ UNCHANGED <<tree, cwd_inode_nr, gone>>
      BY <2>1 DEF sys_closedir, IInv
    <3> QED
      BY <3>1, TreeSame DEF IInv
  <2>2. CASE sys_getcwd_panics(p)
    BY <2>2 DEF sys_getcwd_panics, IInv, Running
  <2> QED
    BY <1>3, <2>1, <2>2
<1>4. CASE stopped \/ UNCHANGED tree_vars
  <2> SUFFICES ASSUME Running' PROVE TreeOK'
    BY DEF IInv
  <2>1. UNCHANGED <<tree, cwd_inode_nr, gone, broken>>
    BY <1>4 DEF stopped, tree_vars
  <2>2. TreeOK
    BY <2>1 DEF IInv, Running
  <2> QED
    BY <2>1, <2>2, TreeSame
<1> QED
  BY <1>1, <1>2, <1>3, <1>4 DEF TreeNext

LEMMA Inductive == TreeSpec => []IInv
<1> QED
  BY InitOK, NextOK, PTL DEF TreeSpec

-----------------------------------------------------------------------------
(***************************************************************************)
(* sys_getcwd.  Rung is one step of its loop; Climbs says that u is the    *)
(* function the recursion of getcwd defines.  It exists because going up   *)
(* ends at the root.                                                       *)
(***************************************************************************)
NameOf(n) == CHOOSE y \in Names : entries[dotdot[n]][y] = n

Rung(u, n) == IF n = Root THEN <<>> ELSE Append(u[dotdot[n]], NameOf(n))

Climbs(u) == u = [n \in Inodes |-> Rung(u, n)]

\* The same for the inodes lower than m.
ClimbsBelow(u, f, m) == u = [n \in Inodes |-> IF f[n] < m THEN Rung(u, n) ELSE <<>>]

LEMMA ClimbHigher ==
  ASSUME dotdot \in [Inodes -> Inodes], NEW K \in Nat, NEW f, Height(f, K),
         NEW m \in Nat, NEW u, ClimbsBelow(u, f, m)
  PROVE  \E v : ClimbsBelow(v, f, m + 1)
<1> DEFINE v == [n \in Inodes |-> IF f[n] < m + 1 THEN Rung(u, n) ELSE <<>>]
<1>1. \A n \in Inodes : f[n] \in Nat
  BY DEF Height
<1>2. \A n \in Inodes : u[n] = IF f[n] < m THEN Rung(u, n) ELSE <<>>
  BY DEF ClimbsBelow
<1>3. \A n \in Inodes : v[n] = IF f[n] < m + 1 THEN Rung(u, n) ELSE <<>>
  OBVIOUS
<1>4. \A n \in Inodes : f[n] < m => v[n] = u[n]
  BY <1>1, <1>2, <1>3
<1>5. DOMAIN v = Inodes /\ v = [n \in Inodes |-> v[n]]
  OBVIOUS
<1> HIDE DEF v
<1>6. ASSUME NEW n \in Inodes, f[n] < m + 1 PROVE Rung(v, n) = Rung(u, n)
  <2>1. CASE n = Root
    BY <2>1 DEF Rung
  <2>2. CASE n # Root
    <3>1. dotdot[n] \in Inodes /\ f[dotdot[n]] < f[n]
      BY <2>2 DEF Height
    <3>2. f[dotdot[n]] < m
      BY <1>1, <1>6, <3>1
    <3>3. v[dotdot[n]] = u[dotdot[n]]
      BY <1>4, <3>1, <3>2
    <3> QED
      BY <3>3 DEF Rung
  <2> QED
    BY <2>1, <2>2
<1>7. \A n \in Inodes : v[n] = IF f[n] < m + 1 THEN Rung(v, n) ELSE <<>>
  BY <1>3, <1>6
<1>8. ClimbsBelow(v, f, m + 1)
  BY <1>5, <1>7 DEF ClimbsBelow
<1> QED
  BY <1>8

LEMMA ClimbRuns ==
  ASSUME TreeTypeOK, NoCycle
  PROVE  \E u : Climbs(u)
<1>1. PICK K \in Nat : \E f : Height(f, K)
  BY DEF NoCycle
<1>2. PICK f : Height(f, K)
  BY <1>1
<1> DEFINE S == {m \in Nat : \E u : ClimbsBelow(u, f, m)}
<1>3. 0 \in S
  <2> DEFINE g == [n \in Inodes |-> <<>>]
  <2>1. \A n \in Inodes : ~(f[n] < 0)
    BY <1>2 DEF Height
  <2>2. ClimbsBelow(g, f, 0)
    BY <2>1 DEF ClimbsBelow
  <2> QED
    BY <2>2
<1>4. ASSUME NEW m \in Nat, m \in S PROVE m + 1 \in S
  <2>1. PICK u : ClimbsBelow(u, f, m)
    BY <1>4
  <2>2. \E v : ClimbsBelow(v, f, m + 1)
    BY <1>2, <2>1, ClimbHigher DEF TreeTypeOK
  <2> QED
    BY <2>2
<1>5. K + 1 \in S
  <2> HIDE DEF S
  <2> QED
    BY <1>3, <1>4, CountUp
<1>6. PICK u : ClimbsBelow(u, f, K + 1)
  BY <1>5
<1>7. \A n \in Inodes : f[n] < K + 1
  BY <1>2 DEF Height
<1>8. Climbs(u)
  BY <1>6, <1>7 DEF ClimbsBelow, Climbs
<1> QED
  BY <1>8

LEMMA GetcwdIs ==
  ASSUME TreeTypeOK, NoCycle
  PROVE  \A n \in Inodes : getcwd[n] = Rung(getcwd, n)
<1>1. getcwd = CHOOSE u : Climbs(u)
  BY DEF getcwd, Climbs, Rung, NameOf
<1>2. \E u : Climbs(u)
  BY ClimbRuns
<1>3. Climbs(getcwd)
  BY <1>1, <1>2, Zenon
<1> QED
  BY <1>3 DEF Climbs

\* One more name leads one step further.
LEMMA FoundAppend ==
  ASSUME NEW s \in Seq(Names), NEW x \in Names, IsDir(Found(s))
  PROVE  Found(Append(s, x)) = Entry(Found(s), x)
<1> DEFINE t == Append(s, x)
           v == Walk(s)
           w == Walk(t)
           L == Len(s)
<1>1. L \in Nat /\ Len(t) = L + 1 /\ t[L + 1] = x /\ \A i \in 1..L : t[i] = s[i]
  OBVIOUS
<1> HIDE DEF t
<1>2. /\ v[0] = Root
      /\ \A i \in 1..L : v[i] = IF IsDir(v[i - 1]) THEN Entry(v[i - 1], s[i]) ELSE v[i - 1]
  BY <1>1, WalkStep
<1>3. /\ w[0] = Root
      /\ \A i \in 1..(L + 1) :
            w[i] = IF IsDir(w[i - 1]) THEN Entry(w[i - 1], t[i]) ELSE w[i - 1]
  BY <1>1, WalkStep
<1>4. Found(s) = v[L] /\ Found(t) = w[L + 1]
  BY <1>1 DEF Found
<1> HIDE DEF v, w, L
<1> DEFINE S == {k \in Nat : k <= L => w[k] = v[k]}
<1>5. L \in S
  <2>1. 0 \in S
    BY <1>2, <1>3
  <2>2. ASSUME NEW k \in Nat, k \in S PROVE k + 1 \in S
    <3> SUFFICES ASSUME k + 1 <= L PROVE w[k + 1] = v[k + 1]
      OBVIOUS
    <3>1. w[k] = v[k] /\ k + 1 \in 1..L /\ k + 1 \in 1..(L + 1) /\ (k + 1) - 1 = k
      BY <1>1, <2>2
    <3>2. t[k + 1] = s[k + 1]
      BY <1>1, <3>1
    <3>3. w[k + 1] = IF IsDir(w[k]) THEN Entry(w[k], t[k + 1]) ELSE w[k]
      BY <1>3, <3>1
    <3>4. v[k + 1] = IF IsDir(v[k]) THEN Entry(v[k], s[k + 1]) ELSE v[k]
      BY <1>2, <3>1
    <3> QED
      BY <3>1, <3>2, <3>3, <3>4
  <2> HIDE DEF S
  <2> QED
    BY <1>1, <2>1, <2>2, CountUp
<1>6. w[L] = v[L]
  BY <1>1, <1>5
<1>7. w[L + 1] = IF IsDir(w[L]) THEN Entry(w[L], t[L + 1]) ELSE w[L]
  <2>1. L + 1 \in 1..(L + 1) /\ (L + 1) - 1 = L
    BY <1>1
  <2> QED
    BY <1>3, <2>1
<1>8. Found(t) = Entry(Found(s), x)
  BY <1>1, <1>4, <1>6, <1>7
<1> QED
  BY <1>8 DEF t

LEMMA LeadsBack ==
  ASSUME TreeOK, NEW c \in Inodes, kind[c] = "dir"
  PROVE  Found(getcwd[c]) = c
<1> DEFINE Good(n) == getcwd[n] \in Seq(Names) /\ Found(getcwd[n]) = n
<1>1. PICK K \in Nat : \E f : Height(f, K)
  BY DEF TreeOK, NoCycle
<1>2. PICK f : Height(f, K)
  BY <1>1
<1>3. \A n \in Inodes : f[n] \in 0..K
  BY <1>2 DEF Height
<1>4. \A n \in Inodes : getcwd[n] = Rung(getcwd, n)
  BY GetcwdIs DEF TreeOK
<1>5. Good(Root)
  <2>1. getcwd[Root] = <<>>
    BY <1>4, InodesAre DEF Rung
  <2>2. <<>> \in Seq(Names)
    OBVIOUS
  <2> QED
    BY <2>1, <2>2, EmptyPath
<1>6. ASSUME NEW n \in Inodes \ {Root}, kind[n] = "dir", Good(dotdot[n]) PROVE Good(n)
  <2> DEFINE s == getcwd[dotdot[n]]
             x == NameOf(n)
  <2>1. PICK e \in Inodes, y \in Names : NamedBy(n, e, y)
    BY <1>6 DEF TreeOK, NamesOK
  <2>2. entries[dotdot[n]][y] = n
    BY <1>6, <2>1 DEF NamedBy
  <2>3. x \in Names /\ entries[dotdot[n]][x] = n
    BY <2>2 DEF NameOf
  <2>4. getcwd[n] = Append(s, x)
    BY <1>4 DEF Rung
  <2>5. s \in Seq(Names) /\ Found(s) = dotdot[n]
    BY <1>6
  <2> HIDE DEF s, x
  <2>6. IsDir(dotdot[n])
    BY DEF TreeOK, TreeTypeOK, ParentsOK, IsDir
  <2>7. Found(Append(s, x)) = Entry(dotdot[n], x)
    BY <2>3, <2>5, <2>6, FoundAppend
  <2>8. Entry(dotdot[n], x) = n
    BY <2>3, InodesAre DEF Entry
  <2>9. Append(s, x) \in Seq(Names)
    BY <2>3, <2>5
  <2> QED
    BY <2>4, <2>7, <2>8, <2>9
<1> HIDE DEF Good
<1> DEFINE S == {m \in Nat : \A n \in Inodes : kind[n] = "dir" /\ f[n] < m => Good(n)}
<1>7. 0 \in S
  BY <1>3
<1>8. ASSUME NEW m \in Nat, m \in S PROVE m + 1 \in S
  <2> SUFFICES ASSUME NEW n \in Inodes, kind[n] = "dir", f[n] < m + 1 PROVE Good(n)
    OBVIOUS
  <2>1. CASE n = Root
    BY <1>5, <2>1
  <2>2. CASE n # Root
    <3>1. dotdot[n] \in Inodes /\ kind[dotdot[n]] = "dir" /\ f[dotdot[n]] < f[n]
      BY <1>2, <2>2 DEF TreeOK, TreeTypeOK, ParentsOK, Height
    <3>2. f[dotdot[n]] < m
      BY <1>3, <3>1
    <3>3. Good(dotdot[n])
      BY <1>8, <3>1, <3>2
    <3> QED
      BY <1>6, <2>2, <3>3
  <2> QED
    BY <2>1, <2>2
<1>9. K + 1 \in S
  <2> HIDE DEF S
  <2> QED
    BY <1>7, <1>8, CountUp
<1>10. f[c] < K + 1
  BY <1>3
<1>11. Good(c)
  BY <1>9, <1>10
<1> QED
  BY <1>11 DEF Good

(***************************************************************************)
(* Whatever is made and removed, every file has one name, ".." leads to    *)
(* the directory that has it, and the path sys_getcwd puts together leads  *)
(* search_file back to the directory it started from: for any number of    *)
(* processes, inodes and names, and paths of any length.                   *)
(***************************************************************************)
THEOREM GetcwdIsPathHolds == TreeSpec => []GetcwdIsPath
<1>1. ASSUME IInv PROVE GetcwdIsPath
  <2> SUFFICES ASSUME broken = "none"
               PROVE  /\ \A n \in Inodes \ {Root} : kind[n] # "free" =>
                            \E x \in Namings(n) :
                               Namings(n) = {x} /\ (IsDir(n) => dotdot[n] = x[1])
                      /\ \A p \in Procs \ gone :
                            /\ IsDir(cwd_inode_nr[p])
                            /\ Found(getcwd[cwd_inode_nr[p]]) = cwd_inode_nr[p]
    BY DEF GetcwdIsPath
  <2>1. TreeOK
    BY <1>1 DEF IInv, Running
  <2>2. ASSUME NEW n \in Inodes \ {Root}, kind[n] # "free"
        PROVE  \E x \in Namings(n) : Namings(n) = {x} /\ (IsDir(n) => dotdot[n] = x[1])
    <3>1. PICK d \in Inodes, y \in Names : NamedBy(n, d, y)
      BY <2>1, <2>2 DEF TreeOK, NamesOK
    <3>2. <<d, y>> \in Namings(n)
      BY <3>1 DEF Namings, NamedBy
    <3>3. ASSUME NEW x \in Namings(n) PROVE x = <<d, y>>
      <4>1. PICK e \in Inodes, z \in Names : x = <<e, z>>
        BY DEF Namings
      <4>2. kind[e] = "dir" /\ entries[e][z] = n
        BY <4>1 DEF Namings
      <4> QED
        BY <3>1, <4>1, <4>2 DEF NamedBy
    <3>4. IsDir(n) => dotdot[n] = <<d, y>>[1]
      BY <3>1 DEF IsDir, NamedBy
    <3>5. Namings(n) = {<<d, y>>}
      BY <3>2, <3>3
    <3> QED
      BY <3>2, <3>4, <3>5
  <2>3. ASSUME NEW p \in Procs \ gone
        PROVE  /\ IsDir(cwd_inode_nr[p])
               /\ Found(getcwd[cwd_inode_nr[p]]) = cwd_inode_nr[p]
    <3>1. cwd_inode_nr[p] \in Inodes /\ kind[cwd_inode_nr[p]] = "dir"
      BY <2>1 DEF TreeOK, TreeTypeOK, CwdOK
    <3> QED
      BY <2>1, <3>1, LeadsBack DEF IsDir
  <2> QED
    BY <2>2, <2>3
<1> QED
  BY <1>1, Inductive, PTL
=============================================================================
