---------------------------- MODULE MemoryProofs ----------------------------
(***************************************************************************)
(* Proofs about the bitmap, the pages it hands out, and the heap in them.  *)
(*                                                                         *)
(* bitmap_scan is first fit on a map of any size.  The loop that counts    *)
(* free bits is a recursive function; what it computes is proved by        *)
(* taking the least round at which it would go wrong.                      *)
(*                                                                         *)
(* Frames, kernel pages and page tables, for any number of processes,      *)
(* frames and pages: a frame has one user, whose bit is set in the pool,   *)
(* until an exit frees another's frame or a page table races with main's   *)
(* palloc; a process's bitmap is the set of its mapped pages.              *)
(*                                                                         *)
(* The heap, for any processes, classes of blocks and number of pages: a   *)
(* free list is a path, given by its elements in order, through exactly    *)
(* the free blocks, and a header counts them.                              *)
(***************************************************************************)
EXTENDS Pages, Heap, Bitmap, FiniteSetTheorems, WellFoundedInduction, TLAPS

BitmapTypeOK == bits \in [0..Total -> {0, 1}]

-----------------------------------------------------------------------------
(***************************************************************************)
(* A nonempty set of naturals has a least element, and Least is it.        *)
(***************************************************************************)
LEMMA HasLeast ==
  ASSUME NEW S, S \subseteq Nat, S # {}
  PROVE  /\ \E x \in S : \A y \in S : x <= y
         /\ Least(S) \in S
         /\ \A y \in S : Least(S) <= y
<1>1. PICK x \in S : \A y \in S : ~(<<y, x>> \in OpToRel(<, Nat))
  BY NatLessThanWellFounded, WFMin, Zenon
<1>2. ASSUME NEW y \in S PROVE x <= y
  <2>1. ~(y < x)
    BY <1>1 DEF OpToRel
  <2> QED
    BY <2>1
<1> QED
  BY <1>2 DEF Least

LEMMA TotalIs == Total \in Nat /\ btmp_bytes_len \in Nat /\ ByteBits \in Nat /\ ByteBits > 0
  BY BitmapAssumption DEF Total

\* Bit i is in byte i \div ByteBits, and the bytes are in the order of the bits.
LEMMA ByteOf ==
  ASSUME NEW i \in Nat
  PROVE  /\ i \div ByteBits \in Nat
         /\ i % ByteBits \in 0..(ByteBits - 1)
         /\ i = (i \div ByteBits) * ByteBits + (i % ByteBits)
  BY TotalIs

LEMMA InByte ==
  ASSUME NEW b \in Nat, NEW i \in 0..(ByteBits - 1)
  PROVE  (b * ByteBits + i) \div ByteBits = b
  BY TotalIs

LEMMA ByteOrder ==
  ASSUME NEW i \in Nat, NEW j \in Nat, i <= j
  PROVE  i \div ByteBits <= j \div ByteBits
  BY TotalIs

LEMMA ByteInMap ==
  ASSUME NEW i \in 0..(Total - 1)
  PROVE  i \div ByteBits \in 0..(btmp_bytes_len - 1)
  BY TotalIs DEF Total

LEMMA BitInMap ==
  ASSUME NEW b \in 0..(btmp_bytes_len - 1), NEW i \in 0..(ByteBits - 1)
  PROVE  b * ByteBits + i \in 0..(Total - 1)
  BY TotalIs DEF Total

(***************************************************************************)
(* The two loops that look for a free bit, byte by byte and then bit by    *)
(* bit, find the first free bit of the map.                                *)
(***************************************************************************)
LEMMA FirstFreeIs ==
  ASSUME BitmapTypeOK, FreeBytes # {}
  PROVE  /\ FirstFree \in 0..(Total - 1)
         /\ bits[FirstFree] = 0
         /\ \A i \in 0..(FirstFree - 1) : bits[i] # 0
<1> DEFINE F == {i \in 0..(Total - 1) : i \div ByteBits = ByteIndex /\ bits[i] = 0}
<1>1. /\ ByteIndex \in FreeBytes
      /\ \A b \in FreeBytes : ByteIndex <= b
  <2>1. FreeBytes \subseteq Nat
    BY TotalIs DEF FreeBytes
  <2> QED
    BY <2>1, HasLeast DEF ByteIndex
<1>2. PICK j \in 0..(ByteBits - 1) : bits[ByteIndex * ByteBits + j] = 0
  BY <1>1 DEF FreeBytes
<1>3. ByteIndex \in 0..(btmp_bytes_len - 1) /\ ByteIndex \in Nat
  BY <1>1, TotalIs DEF FreeBytes
<1>4. ByteIndex * ByteBits + j \in F
  BY <1>2, <1>3, InByte, BitInMap
<1>5. /\ FirstFree = Least(F)
      /\ F \subseteq Nat
  BY TotalIs DEF FirstFree
<1>6. FirstFree \in F /\ \A i \in F : FirstFree <= i
  BY <1>4, <1>5, HasLeast
<1>7. ASSUME NEW i \in 0..(FirstFree - 1), bits[i] = 0 PROVE FALSE
  <2>1. i \in 0..(Total - 1) /\ i \in Nat /\ i < FirstFree /\ FirstFree \in Nat
    BY <1>6, TotalIs
  <2>2. i \div ByteBits \in FreeBytes
    <3>1. i \div ByteBits \in 0..(btmp_bytes_len - 1)
      BY <2>1, ByteInMap
    <3>2. i % ByteBits \in 0..(ByteBits - 1)
          /\ bits[(i \div ByteBits) * ByteBits + (i % ByteBits)] = 0
      BY <1>7, <2>1, ByteOf
    <3> QED
      BY <3>1, <3>2 DEF FreeBytes
  <2>3. i \div ByteBits <= ByteIndex
    BY <2>1, <1>6, ByteOrder
  <2>4. i \div ByteBits = ByteIndex
    BY <1>1, <1>3, <2>1, <2>2, <2>3, ByteOf
  <2> QED
    BY <1>6, <1>7, <2>1, <2>4
<1> QED
  BY <1>6, <1>7

-----------------------------------------------------------------------------
(***************************************************************************)
(* The counting loop from bit `start': Loop(f, n, start) says that f is    *)
(* its counter after rounds 0..n.                                          *)
(***************************************************************************)
Round(f, k, start) ==
    IF k = 0 THEN 1
    ELSE IF bits[start + k] = 0 THEN f[k - 1] + 1
    ELSE 0

Loop(f, n, start) == f = [k \in 0..n |-> Round(f, k, start)]

LEMMA LoopRuns ==
  ASSUME NEW n \in Nat, NEW start
  PROVE  \E f : Loop(f, n, start)
<1> DEFINE Bad == {m \in Nat : ~\E f : Loop(f, m, start)}
<1> SUFFICES ASSUME n \in Bad PROVE FALSE
  OBVIOUS
<1>1. PICK m \in Bad : \A y \in Bad : m <= y
  <2>1. Bad \subseteq Nat /\ Bad # {}
    OBVIOUS
  <2> HIDE DEF Bad
  <2> QED
    BY <2>1, HasLeast
<1>2. m \in Nat /\ ~\E f : Loop(f, m, start)
  OBVIOUS
<1>3. CASE m = 0
  <2> DEFINE g == [k \in 0..0 |-> 1]
  <2>1. Loop(g, 0, start)
    BY DEF Loop, Round
  <2> QED
    BY <1>2, <1>3, <2>1
<1>4. CASE m > 0
  <2>1. m - 1 \in Nat /\ m - 1 \notin Bad
    BY <1>1, <1>2, <1>4
  <2>2. PICK f : Loop(f, m - 1, start)
    BY <2>1
  <2> DEFINE g == [k \in 0..m |-> IF k = m THEN Round(f, m, start) ELSE f[k]]
  <2>3. \A k \in 0..(m - 1) : f[k] = Round(f, k, start) /\ g[k] = f[k]
    BY <1>2, <2>2 DEF Loop
  <2>4. ASSUME NEW k \in 0..m PROVE g[k] = Round(g, k, start)
    <3>1. k # 0 => g[k - 1] = f[k - 1]
      BY <1>2, <2>3, <2>4
    <3>2. Round(g, k, start) = Round(f, k, start)
      BY <3>1 DEF Round
    <3>3. CASE k = m
      BY <3>2, <3>3
    <3>4. CASE k # m
      BY <1>2, <2>3, <3>2, <3>4
    <3> QED
      BY <3>3, <3>4
  <2>5. Loop(g, m, start)
    BY <2>4 DEF Loop
  <2> QED
    BY <1>2, <2>5
<1> QED
  BY <1>2, <1>3, <1>4

LEMMA CountIs ==
  ASSUME NEW start \in Nat, Total - start \in Nat
  PROVE  Loop(CountFrom(start), Total - start, start)
<1>1. CountFrom(start) = CHOOSE f : Loop(f, Total - start, start)
  BY DEF CountFrom, Loop, Round, bitmap_scan_test
<1>2. \E f : Loop(f, Total - start, start)
  BY LoopRuns
<1> QED
  BY <1>1, <1>2, Zenon

(***************************************************************************)
(* c is the length of the longest run of free bits that ends with bit      *)
(* start + k and does not go back before start.                            *)
(***************************************************************************)
LongestRun(c, k, start) ==
    /\ c \in 0..(k + 1)
    /\ \A i \in (start + k - c + 1)..(start + k) : bits[i] = 0
    /\ c = k + 1 \/ bits[start + k - c] # 0

LEMMA CountMeans ==
  ASSUME NEW n \in Nat, NEW start \in Nat, bits[start] = 0,
         NEW count, Loop(count, n, start), NEW r \in 0..n
  PROVE  LongestRun(count[r], r, start)
<1> DEFINE Bad == {m \in 0..n : ~LongestRun(count[m], m, start)}
<1> SUFFICES ASSUME r \in Bad PROVE FALSE
  OBVIOUS
<1>1. PICK k \in Bad : \A y \in Bad : k <= y
  <2>1. Bad \subseteq Nat /\ Bad # {}
    OBVIOUS
  <2> HIDE DEF Bad
  <2> QED
    BY <2>1, HasLeast
<1>2. k \in 0..n /\ ~LongestRun(count[k], k, start)
  OBVIOUS
<1>3. count[k] = Round(count, k, start)
  BY <1>2 DEF Loop
<1>4. CASE k = 0
  BY <1>2, <1>3, <1>4 DEF Round, LongestRun
<1>5. CASE k # 0
  <2>1. k - 1 \in 0..n /\ k - 1 \notin Bad
    BY <1>1, <1>2, <1>5
  <2>2. LongestRun(count[k - 1], k - 1, start)
    BY <2>1
  <2>3. PICK c : c = count[k - 1]
    OBVIOUS
  <2>4. /\ c \in 0..k
        /\ \A i \in (start + k - c)..(start + k - 1) : bits[i] = 0
        /\ c = k \/ bits[start + k - 1 - c] # 0
    BY <1>2, <2>2, <2>3 DEF LongestRun
  <2>5. CASE bits[start + k] = 0
    <3>1. count[k] = c + 1
      BY <1>3, <1>5, <2>3, <2>5 DEF Round
    <3>2. \A i \in (start + k - c)..(start + k) : bits[i] = 0
      BY <1>2, <2>4, <2>5
    <3> QED
      BY <1>2, <2>4, <3>1, <3>2 DEF LongestRun
  <2>6. CASE bits[start + k] # 0
    <3>1. count[k] = 0
      BY <1>3, <1>5, <2>6 DEF Round
    <3> QED
      BY <1>2, <2>6, <3>1 DEF LongestRun
  <2> QED
    BY <2>5, <2>6
<1> QED
  BY <1>4, <1>5

(***************************************************************************)
(* A run of cnt free bits anywhere after start makes the counter reach cnt *)
(* no later than at its last bit.                                          *)
(***************************************************************************)
LEMMA RunIsCounted ==
  ASSUME NEW n \in Nat, NEW start \in Nat, bits[start] = 0,
         NEW count, Loop(count, n, start),
         NEW cnt \in Nat, cnt > 1,
         NEW a \in Nat, a >= start, a + cnt - 1 <= start + n,
         \A i \in Run(a, cnt) : bits[i] = 0
  PROVE  \E k \in 1..n : count[k] = cnt /\ start + k <= a + cnt - 1
<1> DEFINE last == a + cnt - 1 - start
<1>1. PICK c : c = count[last]
  OBVIOUS
<1>2. last \in 0..n
  OBVIOUS
<1>3. /\ c \in 0..(last + 1)
      /\ \A i \in (start + last - c + 1)..(start + last) : bits[i] = 0
      /\ c = last + 1 \/ bits[start + last - c] # 0
  BY <1>1, <1>2, CountMeans DEF LongestRun
<1>4. c >= cnt
  <2> SUFFICES ASSUME c < cnt PROVE FALSE
    BY <1>3
  <2>1. start + last - c \in Run(a, cnt) /\ c # last + 1
    BY <1>3 DEF Run
  <2> QED
    BY <1>3, <2>1
<1> DEFINE k == last - (c - cnt)
<1>5. k \in 1..n /\ start + k <= a + cnt - 1 /\ k \in 0..n
  BY <1>2, <1>3, <1>4
<1>6. PICK d : d = count[k]
  OBVIOUS
<1>7. /\ d \in 0..(k + 1)
      /\ \A i \in (start + k - d + 1)..(start + k) : bits[i] = 0
      /\ d = k + 1 \/ bits[start + k - d] # 0
  BY <1>5, <1>6, CountMeans DEF LongestRun
<1>8. ~(d < cnt)
  <2> SUFFICES ASSUME d < cnt PROVE FALSE
    OBVIOUS
  <2>1. /\ start + k - d \in (start + last - c + 1)..(start + last)
        /\ d # k + 1
    BY <1>3, <1>4, <1>7
  <2> QED
    BY <1>3, <1>7, <2>1
<1>9. ~(d > cnt)
  <2> SUFFICES ASSUME d > cnt PROVE FALSE
    OBVIOUS
  <2>1. /\ start + last - c \in (start + k - d + 1)..(start + k)
        /\ c # last + 1
    BY <1>3, <1>4, <1>7
  <2> QED
    BY <1>3, <1>7, <2>1
<1>10. count[k] = cnt
  BY <1>6, <1>7, <1>8, <1>9
<1> QED
  BY <1>5, <1>10

-----------------------------------------------------------------------------
(***************************************************************************)
(* One bit: the first free bit is the first run of length 1.               *)
(***************************************************************************)
LEMMA ScanOne ==
  ASSUME BitmapTypeOK, FreeBytes # {}
  PROVE  bitmap_scan(1) = FirstFit(1)
<1> DEFINE starts == {s \in 0..(Total - 1) : \A i \in Run(s, 1) : bits[i] = 0}
<1>1. /\ FirstFree \in 0..(Total - 1) /\ bits[FirstFree] = 0
      /\ \A i \in 0..(FirstFree - 1) : bits[i] # 0
  BY FirstFreeIs
<1>2. FirstFree \in starts /\ starts \subseteq Nat
  BY <1>1, TotalIs DEF Run
<1>3. Least(starts) \in starts /\ Least(starts) <= FirstFree
  <2> HIDE DEF starts
  <2> QED
    BY <1>2, HasLeast
<1>4. bits[Least(starts)] = 0
  BY <1>3, TotalIs DEF Run
<1>5. Least(starts) = FirstFree
  BY <1>1, <1>3, <1>4, TotalIs
<1>6. FirstFit(1) = Least(starts)
  BY <1>2 DEF FirstFit
<1> QED
  BY <1>5, <1>6 DEF bitmap_scan

(***************************************************************************)
(* Several bits.  The least round at which the counter is cnt is the last  *)
(* bit of the first run that fits, or it is the bit after the map.         *)
(***************************************************************************)
LEMMA ScanSeveral ==
  ASSUME BitmapTypeOK, FreeBytes # {}, NEW cnt \in Nat, cnt > 1
  PROVE  \/ bitmap_scan(cnt) = FirstFit(cnt)
         \/ /\ FirstFit(cnt) = -1
            /\ bitmap_scan(cnt) = Total - cnt + 1
            /\ bits[Total] = 0
<1>1. PICK start : start = FirstFree
  OBVIOUS
<1>2. PICK count : count = CountFrom(start)
  OBVIOUS
<1>3. PICK n : n = Total - start
  OBVIOUS
<1>4. /\ start \in 0..(Total - 1) /\ start \in Nat /\ n \in Nat /\ n > 0
      /\ Total = start + n /\ Total \in Nat
      /\ bits[start] = 0 /\ \A i \in 0..(start - 1) : bits[i] # 0
  BY <1>1, <1>3, FirstFreeIs, TotalIs
<1>5. Loop(count, n, start)
  BY <1>2, <1>3, <1>4, CountIs
<1>6. PICK hits : hits = {k \in 1..n : count[k] = cnt}
  OBVIOUS
<1>7. PICK starts : starts = {s \in 0..(Total - cnt) : \A i \in Run(s, cnt) : bits[i] = 0}
  OBVIOUS
<1>8. bitmap_scan(cnt) = IF hits = {} THEN -1 ELSE start + Least(hits) - cnt + 1
  BY <1>1, <1>2, <1>3, <1>6 DEF bitmap_scan, BitLeft
<1>9. FirstFit(cnt) = IF starts = {} THEN -1 ELSE Least(starts)
  BY <1>7 DEF FirstFit
<1>10. hits \subseteq Nat /\ starts \subseteq Nat
  BY <1>4, <1>6, <1>7
<1>11. ASSUME NEW s \in starts
       PROVE  /\ s >= start
              /\ \E k \in hits : start + k <= s + cnt - 1
  <2>1. /\ s \in 0..(Total - cnt) /\ s \in Nat
        /\ \A i \in Run(s, cnt) : bits[i] = 0
    BY <1>4, <1>7
  <2>2. bits[s] = 0
    BY <2>1 DEF Run
  <2>3. s >= start
    BY <1>4, <2>1, <2>2
  <2>4. s + cnt - 1 <= start + n
    BY <1>4, <2>1
  <2>5. \E k \in 1..n : count[k] = cnt /\ start + k <= s + cnt - 1
    BY <1>4, <1>5, <2>1, <2>3, <2>4, RunIsCounted
  <2> QED
    BY <1>6, <2>3, <2>5
<1>12. CASE hits = {}
  <2>1. starts = {}
    BY <1>11, <1>12
  <2> QED
    BY <1>8, <1>9, <1>12, <2>1
<1>13. CASE hits # {}
  <2>1. PICK k : k = Least(hits)
    OBVIOUS
  <2>2. k \in hits /\ \A j \in hits : k <= j
    BY <1>10, <1>13, <2>1, HasLeast
  <2>3. k \in 1..n /\ count[k] = cnt /\ k \in 0..n
    BY <1>6, <2>2
  <2>4. /\ cnt <= k + 1
        /\ \A i \in (start + k - cnt + 1)..(start + k) : bits[i] = 0
    BY <1>4, <1>5, <2>3, CountMeans DEF LongestRun
  <2>5. bitmap_scan(cnt) = start + k - cnt + 1
    BY <1>8, <1>13, <2>1
  <2>6. \A s \in starts : start + k - cnt + 1 <= s
    <3> SUFFICES ASSUME NEW s \in starts PROVE start + k - cnt + 1 <= s
      OBVIOUS
    <3>1. PICK j \in hits : start + j <= s + cnt - 1
      BY <1>11
    <3>2. k <= j /\ j \in Nat /\ s \in Nat
      BY <1>10, <2>2
    <3> QED
      BY <1>4, <2>3, <3>1, <3>2
  <2>7. CASE k < n
    <3>1. start + k - cnt + 1 \in starts
      <4>1. start + k - cnt + 1 \in 0..(Total - cnt)
        BY <1>4, <2>3, <2>4, <2>7
      <4>2. \A i \in Run(start + k - cnt + 1, cnt) : bits[i] = 0
        BY <1>4, <2>3, <2>4 DEF Run
      <4> QED
        BY <1>7, <4>1, <4>2
    <3>2. Least(starts) \in starts /\ \A s \in starts : Least(starts) <= s
      BY <1>10, <3>1, HasLeast
    <3>3. Least(starts) \in Nat /\ start + k - cnt + 1 \in Nat
      BY <1>10, <3>1, <3>2
    <3>4. Least(starts) = start + k - cnt + 1
      BY <2>6, <3>1, <3>2, <3>3
    <3> QED
      BY <1>9, <2>5, <3>1, <3>4
  <2>8. CASE k = n
    <3>1. starts = {}
      <4> SUFFICES ASSUME NEW s \in starts PROVE FALSE
        OBVIOUS
      <4>1. s \in 0..(Total - cnt)
        BY <1>7
      <4> QED
        BY <1>4, <2>6, <2>8, <4>1
    <3>2. bits[Total] = 0
      BY <1>4, <2>3, <2>4, <2>8
    <3> QED
      BY <1>4, <1>9, <2>5, <2>8, <3>1, <3>2
  <2> QED
    BY <1>4, <2>3, <2>7, <2>8
<1> QED
  BY <1>12, <1>13

(***************************************************************************)
(* Whatever bitmap_scan returns but -1, all the bits of the run are free.  *)
(***************************************************************************)
LEMMA ScanFindsFree ==
  ASSUME BitmapTypeOK, FreeBytes # {}, NEW cnt \in Nat, cnt >= 1,
         bitmap_scan(cnt) # -1,
         NEW i \in Run(bitmap_scan(cnt), cnt)
  PROVE  i \in 0..Total /\ bits[i] = 0
<1>1. PICK start : start = FirstFree
  OBVIOUS
<1>2. PICK n : n = Total - start
  OBVIOUS
<1>3. /\ start \in 0..(Total - 1) /\ start \in Nat /\ n \in Nat
      /\ Total = start + n /\ Total \in Nat /\ bits[start] = 0
  BY <1>1, <1>2, FirstFreeIs, TotalIs
<1>4. CASE cnt = 1
  <2>1. i \in start..start
    BY <1>1, <1>3, <1>4 DEF bitmap_scan, Run
  <2> QED
    BY <1>3, <2>1
<1>5. CASE cnt > 1
  <2>1. PICK count : count = CountFrom(start)
    OBVIOUS
  <2>2. Loop(count, n, start)
    BY <1>2, <1>3, <2>1, CountIs
  <2>3. PICK hits : hits = {k \in 1..n : count[k] = cnt}
    OBVIOUS
  <2>4. bitmap_scan(cnt) = IF hits = {} THEN -1 ELSE start + Least(hits) - cnt + 1
    BY <1>1, <1>2, <1>5, <2>1, <2>3 DEF bitmap_scan, BitLeft
  <2>5. hits # {} /\ hits \subseteq Nat
    BY <1>3, <2>3, <2>4
  <2>6. PICK k : k = Least(hits)
    OBVIOUS
  <2>7. k \in hits
    BY <2>5, <2>6, HasLeast
  <2>8. k \in 0..n /\ count[k] = cnt
    BY <1>3, <2>3, <2>7
  <2>9. /\ cnt <= k + 1
        /\ \A j \in (start + k - cnt + 1)..(start + k) : bits[j] = 0
    BY <1>3, <2>2, <2>8, CountMeans DEF LongestRun
  <2>10. i \in (start + k - cnt + 1)..(start + k)
    BY <1>3, <2>4, <2>5, <2>6, <2>8 DEF Run
  <2> QED
    BY <1>3, <2>8, <2>9, <2>10
<1> QED
  BY <1>4, <1>5

-----------------------------------------------------------------------------
LEMMA TypeInductive == BitmapSpec => []BitmapTypeOK
<1>1. bitmap_init => BitmapTypeOK
  BY TotalIs DEF bitmap_init, BitmapTypeOK
<1>2. ASSUME BitmapTypeOK, [BitmapNext]_bitmap_vars PROVE BitmapTypeOK'
  <2>1. ASSUME NEW cnt \in 1..MaxCnt, Allocate(cnt) PROVE BitmapTypeOK'
    <3>1. UNCHANGED bits \/ \E start : bits' = [i \in 0..Total |->
                               IF i \in Run(start, cnt) THEN 1 ELSE bits[i]]
      BY <2>1 DEF Allocate
    <3> QED
      BY <1>2, <3>1 DEF BitmapTypeOK
  <2>2. ASSUME NEW r \in runs, Free(r) PROVE BitmapTypeOK'
    BY <1>2, <2>2 DEF Free, BitmapTypeOK
  <2>3. CASE AllocateFull \/ full_spin \/ UNCHANGED bitmap_vars
    BY <1>2, <2>3 DEF AllocateFull, full_spin, bitmap_vars, BitmapTypeOK
  <2> QED
    BY <1>2, <2>1, <2>2, <2>3 DEF BitmapNext
<1> QED
  BY <1>1, <1>2, PTL DEF BitmapSpec

(***************************************************************************)
(* bitmap_scan (lib/bitmap.c) is first fit on a map of any length: every   *)
(* allocator of the system (frames, virtual pages, pids, inodes, blocks)   *)
(* gets the lowest run that fits, none, or, when none fits and the bit     *)
(* after the map is 0, the run that ends one bit past the map.             *)
(***************************************************************************)
THEOREM ScanIsFirstFitHolds == BitmapSpec => []ScanIsFirstFit
<1>1. BitmapTypeOK => ScanIsFirstFit
  <2> SUFFICES ASSUME BitmapTypeOK, FreeBytes # {}, NEW cnt \in 1..MaxCnt
               PROVE  \/ bitmap_scan(cnt) = FirstFit(cnt)
                      \/ /\ FirstFit(cnt) = -1
                         /\ cnt > 1
                         /\ bitmap_scan(cnt) = Total - cnt + 1
                         /\ bits[Total] = 0
    BY DEF ScanIsFirstFit
  <2>1. cnt \in Nat /\ (cnt = 1 \/ cnt > 1)
    BY BitmapAssumption
  <2> QED
    BY <2>1, ScanOne, ScanSeveral
<1> QED
  BY <1>1, TypeInductive, PTL

(***************************************************************************)
(* No bit is handed out twice: two runs that callers hold never overlap,   *)
(* and every bit of a run that is held is set.                             *)
(***************************************************************************)
HeldBitsAreSet ==
    \A r \in runs : \A i \in Run(r[1], r[2]) : i \in 0..Total /\ bits[i] = 1

RunsAreDisjoint ==
    \A r, q \in runs : r # q => Run(r[1], r[2]) \cap Run(q[1], q[2]) = {}

BitsHaveOneHolder == HeldBitsAreSet /\ RunsAreDisjoint

(***************************************************************************)
(* However the callers of bitmap_scan and bitmap_set take runs and give    *)
(* them back, no bit is handed out while another caller holds it.          *)
(***************************************************************************)
THEOREM BitsHaveOneHolderHolds == BitmapSpec => []BitsHaveOneHolder
<1>1. bitmap_init => BitsHaveOneHolder
  BY DEF bitmap_init, BitsHaveOneHolder, HeldBitsAreSet, RunsAreDisjoint
<1>2. ASSUME BitmapTypeOK, BitsHaveOneHolder, [BitmapNext]_bitmap_vars
      PROVE  BitsHaveOneHolder'
  <2>1. ASSUME NEW cnt \in 1..MaxCnt, Allocate(cnt) PROVE BitsHaveOneHolder'
    <3>1. PICK s : s = bitmap_scan(cnt)
      OBVIOUS
    <3>2. CASE s = -1
      BY <1>2, <2>1, <3>1, <3>2
      DEF Allocate, BitsHaveOneHolder, HeldBitsAreSet, RunsAreDisjoint
    <3>3. CASE s # -1
      <4>1. PICK R : R = Run(s, cnt)
        OBVIOUS
      <4>2. /\ bits' = [i \in 0..Total |-> IF i \in R THEN 1 ELSE bits[i]]
            /\ runs' = runs \cup {<<s, cnt>>}
            /\ FreeBytes # {}
        BY <2>1, <3>1, <3>3, <4>1 DEF Allocate
      <4>3. cnt \in Nat /\ cnt >= 1
        BY BitmapAssumption
      <4>4. \A i \in R : i \in 0..Total /\ bits[i] = 0
        BY <1>2, <3>1, <3>3, <4>1, <4>2, <4>3, ScanFindsFree
      <4>5. \A r \in runs : Run(r[1], r[2]) \cap R = {}
        BY <1>2, <4>4 DEF BitsHaveOneHolder, HeldBitsAreSet
      <4>6. ASSUME NEW r \in runs'
            PROVE  r \in runs \/ (Run(r[1], r[2]) = R /\ r = <<s, cnt>>)
        <5>1. CASE r = <<s, cnt>>
          <6>1. r[1] = s /\ r[2] = cnt
            BY <5>1
          <6> QED
            BY <4>1, <5>1, <6>1
        <5> QED
          BY <4>2, <4>6, <5>1
      <4>7. HeldBitsAreSet'
        BY <1>2, <4>2, <4>4, <4>6 DEF BitsHaveOneHolder, HeldBitsAreSet
      <4>8. RunsAreDisjoint'
        BY <1>2, <4>5, <4>6 DEF BitsHaveOneHolder, RunsAreDisjoint
      <4> QED
        BY <4>7, <4>8 DEF BitsHaveOneHolder
    <3> QED
      BY <3>2, <3>3
  <2>2. ASSUME NEW r \in runs, Free(r) PROVE BitsHaveOneHolder'
    <3>1. PICK R : R = Run(r[1], r[2])
      OBVIOUS
    <3>2. /\ bits' = [i \in 0..Total |-> IF i \in R THEN 0 ELSE bits[i]]
          /\ runs' = runs \ {r}
      BY <2>2, <3>1 DEF Free
    <3>3. \A q \in runs' : q \in runs /\ Run(q[1], q[2]) \cap R = {}
      BY <1>2, <3>1, <3>2 DEF BitsHaveOneHolder, RunsAreDisjoint
    <3>4. HeldBitsAreSet'
      BY <1>2, <3>2, <3>3 DEF BitsHaveOneHolder, HeldBitsAreSet
    <3>5. RunsAreDisjoint'
      BY <1>2, <3>3 DEF BitsHaveOneHolder, RunsAreDisjoint
    <3> QED
      BY <3>4, <3>5 DEF BitsHaveOneHolder
  <2>3. CASE AllocateFull \/ full_spin \/ UNCHANGED bitmap_vars
    BY <1>2, <2>3 DEF AllocateFull, full_spin, bitmap_vars,
                      BitsHaveOneHolder, HeldBitsAreSet, RunsAreDisjoint
  <2> QED
    BY <1>2, <2>1, <2>2, <2>3 DEF BitmapNext
<1> QED
  BY <1>1, <1>2, TypeInductive, PTL DEF BitmapSpec
-----------------------------------------------------------------------------
(***************************************************************************)
(* The ranges of the state.                                                *)
(***************************************************************************)
Frames == KFrames \cup UFrames

Memory == [pool   : SUBSET Frames,
           kvaddr : SUBSET KPages,
           kmap   : [KPages -> KFrames \cup {NoFrame}]]

Entry == [frame : UFrames \cup {NoFrame}, present : BOOLEAN]

Task == [status : {"none", "ready", "running", "hanging"},
         pcb : 0..NK, bits : 0..NK, pgdir : 0..NK,
         vaddr_bitmap : SUBSET UPages, heap : SUBSET UPages,
         found : KFrames \cup {NoFrame},
         pde : [Tables -> KFrames \cup {NoFrame}],
         pte : [UPages -> Entry]]

PagesTypeOK ==
    /\ mem \in Memory
    /\ task \in [Procs -> Task]
    /\ kheap \subseteq KPages
    /\ main \in [frame : KFrames \cup {NoFrame}, page : 0..NK]
    /\ stale \in BOOLEAN /\ raced \in BOOLEAN

(***************************************************************************)
(* The inductive invariant, as predicates of a memory m and the tasks T so *)
(* that they also speak of the states in the middle of a system call.      *)
(* Kernel frames: mapped once, in the pool, and no page table is mapped or *)
(* shared.  User frames: in the pool and in one present entry.             *)
(***************************************************************************)
MapOK(m) ==
    /\ \A j, k \in KPages : m.kmap[j] = m.kmap[k] /\ m.kmap[j] # NoFrame => j = k
    /\ \A k \in KPages : m.kmap[k] # NoFrame => m.kmap[k] \in m.pool

TablesOK(m, T) ==
    /\ \A p \in Procs, k \in Tables :
          T[p].pde[k] # NoFrame =>
             T[p].pde[k] \in m.pool /\ \A j \in KPages : m.kmap[j] # T[p].pde[k]
    /\ \A p, q \in Procs, k, l \in Tables :
          T[p].pde[k] = T[q].pde[l] /\ T[p].pde[k] # NoFrame => p = q /\ k = l

KernelOK(m, T) == MapOK(m) /\ TablesOK(m, T)

UserOK(m, T) ==
    /\ \A p \in Procs, v \in UPages :
          T[p].pte[v].present => T[p].pte[v].frame \in m.pool
    /\ \A p, q \in Procs, v, w \in UPages :
          /\ T[p].pte[v].present /\ T[q].pte[w].present
          /\ T[p].pte[v].frame = T[q].pte[w].frame
          => p = q /\ v = w

(***************************************************************************)
(* A task: its bitmap and its heap against its entries, its kernel pages   *)
(* inside the kernel's space, no entries left once it has exited, and no   *)
(* page table before it has started.                                       *)
(***************************************************************************)
TaskOK(t) ==
    /\ t.vaddr_bitmap = {v \in UPages : t.pte[v].present}
    /\ t.heap \subseteq t.vaddr_bitmap
    /\ \A v \in UPages : t.pte[v].present => t.pte[v].frame # NoFrame
    /\ t.status \in {"ready", "running"} =>
          t.bits >= 1 /\ t.bits + bitmap_pg_cnt - 1 <= NK
    /\ t.status # "none" => t.pcb >= 1 /\ t.pgdir >= 1
    /\ t.status \in {"none", "hanging"} =>
          /\ \A k \in Tables : t.pde[k] = NoFrame
          /\ \A v \in UPages : t.pte[v] = Absent
    /\ t.status = "ready" => \A k \in Tables : t.pde[k] = NoFrame

MainOK == main # Idle => /\ main.frame \in KFrames \ mem.pool
                         /\ main.page \in KPages

(***************************************************************************)
(* Who has each kernel page, until raced.  PageAt numbers the pages of a   *)
(* task: PCB, page directory, bitmap; Held are those of the kernel's heap  *)
(* with the one main is taking.                                            *)
(***************************************************************************)
PageAt(t, i) == IF i = 0 THEN t.pcb ELSE IF i = 1 THEN t.pgdir ELSE t.bits + (i - 2)

Places(t) == IF t.status \in {"ready", "running"} THEN 0..(bitmap_pg_cnt + 1)
             ELSE IF t.status = "hanging" THEN {0, 1} ELSE {}

TaskPages(T) == UNION {{PageAt(T[p], i) : i \in Places(T[p])} : p \in Procs}

MainPage(mn)   == IF mn = Idle THEN {} ELSE {mn.page}
Held(kh, mn)   == kh \cup MainPage(mn)
Lost(m, T, O)  == m.kvaddr \ (TaskPages(T) \cup O)

\* No page has two owners, and all of them are in use.
OwnersOK(m, T, O) ==
    /\ \A p, q \in Procs : \A i \in Places(T[p]), j \in Places(T[q]) :
          PageAt(T[p], i) = PageAt(T[q], j) => p = q /\ i = j
    /\ TaskPages(T) \cap O = {}
    /\ TaskPages(T) \subseteq m.kvaddr /\ O \subseteq m.kvaddr

\* The pages in use are mapped, but the one main has no frame for yet.
UsedIsMapped(m, M) == \A k \in KPages : m.kmap[k] # NoFrame <=> k \in m.kvaddr \ M

\* A frame of the kernel's that is in the pool is mapped or a page table.
PoolIsUsed(m, T) ==
    \A f \in KFrames \cap m.pool :
        \/ \E k \in KPages : m.kmap[k] = f
        \/ \E p \in Procs, k \in Tables : T[p].pde[k] = f

LostCount(m, T, O, e) ==
    /\ e \in Nat
    /\ Cardinality(Lost(m, T, O)) = e * (bitmap_pg_cnt - release_pg_cnt)

Owned(m, T, kh, mn, e) ==
    /\ OwnersOK(m, T, Held(kh, mn))
    /\ kh \cap MainPage(mn) = {}
    /\ UsedIsMapped(m, MainPage(mn))
    /\ PoolIsUsed(m, T)
    /\ LostCount(m, T, Held(kh, mn), e)

IInv ==
    /\ PagesTypeOK
    /\ \A p \in Procs : TaskOK(task[p])
    /\ raced \/ (KernelOK(mem, task) /\ MainOK)
    /\ raced \/ stale \/ UserOK(mem, task)
    /\ raced \/ Owned(mem, task, kheap, main, exits)

-----------------------------------------------------------------------------
LEMMA ConstantsAre ==
  /\ NK \in Nat /\ NU \in Nat /\ NPages \in Nat /\ NK > 0 /\ NU > 0 /\ NPages > 0
  /\ bitmap_pg_cnt \in Nat /\ bitmap_pg_cnt > 0
  /\ release_pg_cnt \in Nat /\ release_pg_cnt <= bitmap_pg_cnt
  /\ MaxHeap \in Nat /\ PerTable \in Nat /\ PerTable > 0
<1>1. /\ PAGE_SIZE \in Nat /\ PAGE_SIZE > 0
      /\ vaddr_btmp_bytes_len \in Nat /\ vaddr_btmp_bytes_len > 0
  BY PagesAssumption
<1>2. /\ bitmap_pg_cnt \in Nat /\ bitmap_pg_cnt > 0
      /\ release_pg_cnt \in Nat /\ release_pg_cnt <= bitmap_pg_cnt
  BY <1>1 DEF bitmap_pg_cnt, release_pg_cnt
<1> QED
  BY <1>2, PagesAssumption

LEMMA FramesAre ==
  /\ IsFiniteSet(KFrames) /\ IsFiniteSet(UFrames) /\ IsFiniteSet(KPages)
  /\ IsFiniteSet(UPages)
  /\ KFrames \subseteq Nat /\ UFrames \subseteq Nat /\ KPages \subseteq Nat
  /\ UPages \subseteq Nat
  /\ KFrames \cap UFrames = {}
  /\ NoFrame \notin KFrames /\ NoFrame \notin UFrames
  BY ConstantsAre, FS_Interval DEF KFrames, UFrames, KPages, UPages, NoFrame

LEMMA LowestIs ==
  ASSUME NEW S, S \subseteq Nat, S # {}
  PROVE  Lowest(S) \in S /\ \A y \in S : Lowest(S) <= y
<1>1. PICK x \in S : \A y \in S : ~(<<y, x>> \in OpToRel(<, Nat))
  BY NatLessThanWellFounded, WFMin, Zenon
<1>2. ASSUME NEW y \in S PROVE x <= y
  <2>1. ~(y < x)
    BY <1>1 DEF OpToRel
  <2> QED
    BY <2>1
<1> QED
  BY <1>2 DEF Lowest

\* A finite set with room for n > 0 has an element, and room for n - 1 without it.
LEMMA RoomIs ==
  ASSUME NEW S, IsFiniteSet(S)
  PROVE  /\ Cardinality(S) \in Nat
         /\ Cardinality(S) >= 1 => S # {}
         /\ \A x \in S : Cardinality(S \ {x}) = Cardinality(S) - 1
  BY FS_CardinalityType, FS_EmptySet, FS_RemoveElement

LEMMA FreeIsFinite ==
  ASSUME NEW P
  PROVE  /\ IsFiniteSet(KFrames \ P) /\ IsFiniteSet(UFrames \ P)
         /\ IsFiniteSet(KPages \ P)
         /\ Cardinality(KFrames \ P) \in Nat /\ Cardinality(UFrames \ P) \in Nat
         /\ Cardinality(KPages \ P) \in Nat
  BY FramesAre, FS_Subset, FS_CardinalityType

LEMMA PallocIs ==
  ASSUME NEW m
  PROVE  /\ Cardinality(KFrames \ m.pool) >= 1 =>
               palloc(m, KFrames) \in KFrames \ m.pool
         /\ Cardinality(UFrames \ m.pool) >= 1 =>
               palloc(m, UFrames) \in UFrames \ m.pool
<1>1. ASSUME NEW S, IsFiniteSet(S), S \subseteq Nat, Cardinality(S) >= 1
      PROVE  Lowest(S) \in S
  BY <1>1, RoomIs, LowestIs
<1>2. KFrames \ m.pool \subseteq Nat /\ UFrames \ m.pool \subseteq Nat
  BY FramesAre
<1> QED
  BY <1>1, <1>2, FreeIsFinite DEF palloc

-----------------------------------------------------------------------------
(***************************************************************************)
(* m2 is m after n kernel pages have been given frames, with the tasks T.  *)
(***************************************************************************)
Grown(m, m2, T, n) ==
    /\ m2 \in Memory
    /\ KernelOK(m2, T)
    /\ UserOK(m, T) => UserOK(m2, T)
    /\ UFrames \ m2.pool = UFrames \ m.pool
    /\ Cardinality(KFrames \ m2.pool) = Cardinality(KFrames \ m.pool) - n

(***************************************************************************)
(* What m2 has more than m: the pages R, now mapped to frames that were    *)
(* free, and no other page or kernel frame.                                *)
(***************************************************************************)
Maps(m, m2, R) ==
    /\ \A j \in KPages \ R : m2.kmap[j] = m.kmap[j]
    /\ \A j \in R : m2.kmap[j] # NoFrame
    /\ \A f \in KFrames \cap m2.pool : f \in m.pool \/ \E j \in R : m2.kmap[j] = f

Takes(m, m2, R) ==
    /\ Maps(m, m2, R)
    /\ R \subseteq KPages /\ R \cap m.kvaddr = {}
    /\ m2.kvaddr = m.kvaddr \cup R

LEMMA MapsTwice ==
  ASSUME NEW a, NEW b, NEW c, NEW R \in SUBSET KPages, NEW S \in SUBSET KPages,
         Maps(a, b, R), Maps(b, c, S), R \cap S = {}
  PROVE  Maps(a, c, R \cup S)
<1>1. \A j \in KPages \ (R \cup S) : c.kmap[j] = a.kmap[j]
  BY DEF Maps
<1>2. \A j \in R : c.kmap[j] = b.kmap[j]
  BY DEF Maps
<1>3. ASSUME NEW f \in KFrames \cap c.pool
      PROVE  f \in a.pool \/ \E j \in R \cup S : c.kmap[j] = f
  BY <1>2, <1>3 DEF Maps
<1> QED
  BY <1>1, <1>2, <1>3 DEF Maps

LEMMA TakesTwice ==
  ASSUME NEW a, NEW b, NEW c, NEW R, NEW S, Takes(a, b, R), Takes(b, c, S)
  PROVE  Takes(a, c, R \cup S) /\ R \cap S = {}
<1>1. R \in SUBSET KPages /\ S \in SUBSET KPages /\ R \cap S = {}
  BY DEF Takes
<1>2. Maps(a, c, R \cup S)
  BY <1>1, MapsTwice DEF Takes
<1> QED
  BY <1>1, <1>2 DEF Takes

LEMMA GrownTwice ==
  ASSUME NEW a, NEW b, NEW c, NEW T, NEW i \in Nat, NEW j \in Nat,
         Grown(a, b, T, i), Grown(b, c, T, j)
  PROVE  Grown(a, c, T, i + j)
<1>1. Cardinality(KFrames \ a.pool) \in Nat
  BY FreeIsFinite
<1> QED
  BY <1>1 DEF Grown

(***************************************************************************)
(* A frame that palloc finds is nobody's.                                  *)
(***************************************************************************)
LEMMA PageTableAdd ==
  ASSUME NEW m \in Memory, NEW T, KernelOK(m, T), NEW k \in KPages,
         Cardinality(KFrames \ m.pool) >= 1
  PROVE  /\ Grown(m, page_table_add(m, k), T, 1)
         /\ Maps(m, page_table_add(m, k), {k})
         /\ page_table_add(m, k).kvaddr = m.kvaddr
<1>1. PICK f : f = palloc(m, KFrames)
  OBVIOUS
<1>2. f \in KFrames /\ f \notin m.pool /\ f # NoFrame /\ f \in Frames
  BY <1>1, PallocIs, FramesAre DEF Frames
<1>3. PICK m2 : m2 = page_table_add(m, k)
  OBVIOUS
<1>4. /\ m2 \in Memory
      /\ m2.pool = m.pool \cup {f} /\ m2.kvaddr = m.kvaddr
      /\ m2.kmap = [m.kmap EXCEPT ![k] = f]
  BY <1>1, <1>2, <1>3 DEF page_table_add, Memory
<1>5. \A j \in KPages : m2.kmap[j] = IF j = k THEN f ELSE m.kmap[j]
  BY <1>4 DEF Memory
<1>6. MapOK(m2)
  BY <1>2, <1>4, <1>5 DEF KernelOK, MapOK
<1>7. TablesOK(m2, T)
  BY <1>2, <1>4, <1>5 DEF KernelOK, TablesOK
<1>8. UserOK(m, T) => UserOK(m2, T)
  BY <1>4 DEF UserOK
<1>9. UFrames \ m2.pool = UFrames \ m.pool
  BY <1>2, <1>4, FramesAre
<1>10. Cardinality(KFrames \ m2.pool) = Cardinality(KFrames \ m.pool) - 1
  <2>1. KFrames \ m2.pool = (KFrames \ m.pool) \ {f}
    BY <1>4
  <2> QED
    BY <1>2, <2>1, FreeIsFinite, RoomIs
<1>11. Maps(m, m2, {k})
  BY <1>2, <1>4, <1>5 DEF Maps
<1> QED
  BY <1>3, <1>4, <1>6, <1>7, <1>8, <1>9, <1>10, <1>11 DEF Grown, KernelOK

-----------------------------------------------------------------------------
(***************************************************************************)
(* The loop of get_kernel_pages from page k: Pass(f, n, m, k) says that f  *)
(* is the memory after 0..n of its rounds.                                 *)
(***************************************************************************)
PassRound(f, i, m, k, S) ==
    IF i = 0 THEN [m EXCEPT !.kvaddr = @ \cup S]
    ELSE page_table_add(f[i - 1], k + i - 1)

Pass(f, n, m, k, S) == f = [i \in 0..n |-> PassRound(f, i, m, k, S)]

LEMMA PassRuns ==
  ASSUME NEW n \in Nat, NEW m, NEW k, NEW S
  PROVE  \E f : Pass(f, n, m, k, S)
<1> DEFINE Bad == {x \in Nat : ~\E f : Pass(f, x, m, k, S)}
<1> SUFFICES ASSUME n \in Bad PROVE FALSE
  OBVIOUS
<1>1. PICK x \in Bad : \A y \in Bad : x <= y
  <2>1. Bad \subseteq Nat /\ Bad # {}
    OBVIOUS
  <2> HIDE DEF Bad
  <2> QED
    BY <2>1, LowestIs
<1>2. x \in Nat /\ ~\E f : Pass(f, x, m, k, S)
  OBVIOUS
<1>3. CASE x = 0
  <2> DEFINE g == [i \in 0..0 |-> [m EXCEPT !.kvaddr = @ \cup S]]
  <2>1. Pass(g, 0, m, k, S)
    BY DEF Pass, PassRound
  <2> QED
    BY <1>2, <1>3, <2>1
<1>4. CASE x > 0
  <2>1. x - 1 \in Nat /\ x - 1 \notin Bad
    BY <1>1, <1>2, <1>4
  <2>2. PICK f : Pass(f, x - 1, m, k, S)
    BY <2>1
  <2> DEFINE g == [i \in 0..x |-> IF i = x THEN PassRound(f, x, m, k, S) ELSE f[i]]
  <2>3. \A i \in 0..(x - 1) : f[i] = PassRound(f, i, m, k, S) /\ g[i] = f[i]
    BY <1>2, <2>2 DEF Pass
  <2>4. ASSUME NEW i \in 0..x PROVE g[i] = PassRound(g, i, m, k, S)
    <3>1. i # 0 => g[i - 1] = f[i - 1]
      BY <1>2, <2>3, <2>4
    <3>2. PassRound(g, i, m, k, S) = PassRound(f, i, m, k, S)
      <4> HIDE DEF g
      <4> QED
        BY <3>1 DEF PassRound
    <3>3. CASE i = x
      BY <3>2, <3>3
    <3>4. CASE i # x
      <4>1. i \in 0..(x - 1)
        BY <1>2, <3>4
      <4> HIDE DEF g
      <4> QED
        BY <2>3, <3>2, <4>1
    <3> QED
      BY <3>3, <3>4
  <2>5. Pass(g, x, m, k, S)
    BY <2>4 DEF Pass
  <2> QED
    BY <1>2, <2>5
<1> QED
  BY <1>2, <1>3, <1>4

LEMMA PassGrows ==
  ASSUME NEW m \in Memory, NEW T, KernelOK(m, T),
         NEW n \in Nat, NEW k \in KPages, k + n - 1 <= NK,
         NEW S \in SUBSET KPages,
         Cardinality(KFrames \ m.pool) >= n,
         NEW f, Pass(f, n, m, k, S), NEW r \in 0..n
  PROVE  /\ Grown(m, f[r], T, r) /\ f[r].kvaddr = m.kvaddr \cup S
         /\ Maps(m, f[r], k..(k + r - 1))
<1> DEFINE Good(i) == /\ Grown(m, f[i], T, i) /\ f[i].kvaddr = m.kvaddr \cup S
                      /\ Maps(m, f[i], k..(k + i - 1))
           Bad == {i \in 0..n : ~Good(i)}
<1> SUFFICES ASSUME r \in Bad PROVE FALSE
  OBVIOUS
<1>1. PICK x \in Bad : \A y \in Bad : x <= y
  <2>1. Bad \subseteq Nat /\ Bad # {}
    OBVIOUS
  <2> HIDE DEF Bad
  <2> QED
    BY <2>1, LowestIs
<1>2. x \in 0..n /\ ~Good(x)
  OBVIOUS
<1>3. f[x] = PassRound(f, x, m, k, S)
  BY <1>2 DEF Pass
<1>4. Cardinality(KFrames \ m.pool) \in Nat
  BY FreeIsFinite
<1>5. CASE x = 0
  <2>1. PICK m2 : m2 = [m EXCEPT !.kvaddr = @ \cup S]
    OBVIOUS
  <2>2. /\ m2 \in Memory /\ m2.pool = m.pool /\ m2.kmap = m.kmap
        /\ m2.kvaddr = m.kvaddr \cup S
    BY <2>1 DEF Memory
  <2>3. KernelOK(m2, T) /\ (UserOK(m, T) => UserOK(m2, T))
    BY <2>2 DEF KernelOK, MapOK, TablesOK, UserOK
  <2>4. Grown(m, m2, T, 0)
    BY <1>4, <2>2, <2>3 DEF Grown
  <2>5. f[x] = m2
    BY <1>3, <1>5, <2>1 DEF PassRound
  <2>6. Maps(m, m2, k..(k + 0 - 1))
    <3>1. k..(k + 0 - 1) = {}
      BY FramesAre
    <3> QED
      BY <2>2, <3>1 DEF Maps
  <2> QED
    BY <1>2, <1>5, <2>2, <2>4, <2>5, <2>6
<1>6. CASE x # 0
  <2>1. x - 1 \in 0..n /\ x - 1 \notin Bad /\ x - 1 \in Nat /\ x = (x - 1) + 1
    BY <1>1, <1>2, <1>6
  <2>2. Good(x - 1)
    BY <2>1
  <2>3. PICK a : a = f[x - 1]
    OBVIOUS
  <2>4. /\ Grown(m, a, T, x - 1) /\ a.kvaddr = m.kvaddr \cup S
        /\ a \in Memory /\ KernelOK(a, T)
        /\ Maps(m, a, k..(k + (x - 1) - 1))
    BY <2>2, <2>3 DEF Grown
  <2>5. Cardinality(KFrames \ a.pool) >= 1
    BY <1>2, <1>4, <1>6, <2>4 DEF Grown
  <2>6. k + x - 1 \in KPages
    BY <1>2, <1>6, ConstantsAre DEF KPages
  <2>7. PICK b : b = page_table_add(a, k + x - 1)
    OBVIOUS
  <2>8. Grown(a, b, T, 1) /\ b.kvaddr = a.kvaddr /\ Maps(a, b, {k + x - 1})
    BY <2>4, <2>5, <2>6, <2>7, PageTableAdd
  <2>9. Grown(m, b, T, x)
    BY <2>1, <2>4, <2>8, GrownTwice
  <2>10. f[x] = b
    BY <1>3, <1>6, <2>3, <2>7 DEF PassRound
  <2>11. Maps(m, b, k..(k + x - 1))
    <3>1. PICK R : R = k..(k + (x - 1) - 1)
      OBVIOUS
    <3>2. PICK j : j = k + x - 1
      OBVIOUS
    <3>3. /\ R \cap {j} = {} /\ R \in SUBSET KPages /\ {j} \in SUBSET KPages
          /\ k..(k + x - 1) = R \cup {j}
      BY <1>2, <1>6, <2>6, <3>1, <3>2, ConstantsAre DEF KPages
    <3>4. Maps(m, a, R) /\ Maps(a, b, {j})
      BY <2>4, <2>8, <3>1, <3>2
    <3>5. Maps(m, b, R \cup {j})
      BY <3>3, <3>4, MapsTwice
    <3> QED
      BY <3>3, <3>5
  <2> QED
    BY <1>2, <2>4, <2>8, <2>9, <2>10, <2>11
<1> QED
  BY <1>5, <1>6

(***************************************************************************)
(* What get_kernel_pages returns: cnt pages in a row, with frames of their *)
(* own.                                                                    *)
(***************************************************************************)
LEMMA GetKernelPages ==
  ASSUME NEW m \in Memory, NEW T, KernelOK(m, T),
         NEW cnt \in Nat, cnt > 0, Runs(m, cnt) # {},
         Cardinality(KFrames \ m.pool) >= cnt,
         NEW g, g = get_kernel_pages(m, cnt)
  PROVE  /\ g.addr \in KPages /\ g.addr + cnt - 1 <= NK
         /\ Grown(m, g.mem, T, cnt)
         /\ Takes(m, g.mem, g.addr..(g.addr + cnt - 1))
         /\ Cardinality(KPages \ g.mem.kvaddr) >= Cardinality(KPages \ m.kvaddr) - cnt
<1>1. PICK k : k = vaddr_get(m, cnt)
  OBVIOUS
<1>2. /\ k \in KPages /\ k + cnt - 1 <= NK /\ k \in Nat
      /\ k..(k + cnt - 1) \cap m.kvaddr = {}
  <2>1. Runs(m, cnt) \subseteq Nat
    BY FramesAre DEF Runs
  <2>2. k \in Runs(m, cnt)
    BY <1>1, <2>1, LowestIs DEF vaddr_get
  <2> QED
    BY <2>1, <2>2 DEF Runs
<1>3. PICK S : S = k..(k + cnt - 1)
  OBVIOUS
<1>4. S \in SUBSET KPages
  BY <1>2, <1>3, ConstantsAre DEF KPages
<1>5. PICK f : f = CHOOSE h : Pass(h, cnt, m, k, S)
  OBVIOUS
<1>6. Pass(f, cnt, m, k, S)
  <2>1. \E h : Pass(h, cnt, m, k, S)
    BY PassRuns
  <2> QED
    BY <1>5, <2>1, Zenon
<1>7. g = [addr |-> k, mem |-> f[cnt]]
  BY <1>1, <1>3, <1>5 DEF get_kernel_pages, Pass, PassRound
<1>8. PICK m2 : m2 = f[cnt]
  OBVIOUS
<1>9. Grown(m, m2, T, cnt) /\ m2.kvaddr = m.kvaddr \cup S /\ Maps(m, m2, S)
  <2>1. PICK r \in 0..cnt : r = cnt
    OBVIOUS
  <2>2. /\ k \in KPages /\ k + cnt - 1 <= NK /\ S \in SUBSET KPages
        /\ Cardinality(KFrames \ m.pool) >= cnt
    BY <1>2, <1>4
  <2>3. /\ Grown(m, f[r], T, r) /\ f[r].kvaddr = m.kvaddr \cup S
        /\ Maps(m, f[r], k..(k + r - 1))
    BY <1>6, <2>2, PassGrows
  <2> QED
    BY <1>3, <1>8, <2>1, <2>3
<1>10. Cardinality(KPages \ m2.kvaddr) >= Cardinality(KPages \ m.kvaddr) - cnt
  <2>1. PICK A : A = KPages \ m.kvaddr
    OBVIOUS
  <2>2. KPages \ m2.kvaddr = A \ S
    BY <1>9, <2>1
  <2>3. IsFiniteSet(A) /\ Cardinality(A) \in Nat
    BY <2>1, FreeIsFinite
  <2>4. IsFiniteSet(S) /\ Cardinality(S) = cnt
    BY <1>2, <1>3, FS_Interval
  <2>5. /\ Cardinality(A \ S) = Cardinality(A) - Cardinality(A \cap S)
        /\ Cardinality(A \cap S) <= Cardinality(S)
        /\ Cardinality(A \cap S) \in Nat
    BY <2>3, <2>4, FS_Difference, FS_Intersection, FS_CardinalityType
  <2>6. Cardinality(A \ S) >= Cardinality(A) - cnt
    BY <2>3, <2>4, <2>5
  <2> QED
    BY <2>1, <2>2, <2>6
<1>11. g.addr = k /\ g.mem = m2
  BY <1>7, <1>8
<1>12. Takes(m, m2, S)
  BY <1>2, <1>3, <1>4, <1>9 DEF Takes
<1> QED
  BY <1>2, <1>3, <1>9, <1>10, <1>11, <1>12

\* One page: there is a run of one as soon as there is a free page.
LEMMA RunOfOne ==
  ASSUME NEW m, Cardinality(KPages \ m.kvaddr) >= 1
  PROVE  Runs(m, 1) # {}
<1>1. PICK k \in KPages : k \notin m.kvaddr
  BY FreeIsFinite, RoomIs
<1>2. k \in Nat /\ k + 1 - 1 <= NK /\ k..(k + 1 - 1) = {k}
  BY <1>1, ConstantsAre DEF KPages
<1> QED
  BY <1>1, <1>2 DEF Runs

LEMMA GetOnePage ==
  ASSUME NEW m \in Memory, NEW T, KernelOK(m, T),
         Cardinality(KPages \ m.kvaddr) >= 1,
         Cardinality(KFrames \ m.pool) >= 1,
         NEW g, g = get_kernel_pages(m, 1)
  PROVE  /\ g.addr \in KPages /\ Grown(m, g.mem, T, 1) /\ Takes(m, g.mem, {g.addr})
         /\ Cardinality(KPages \ g.mem.kvaddr) >= Cardinality(KPages \ m.kvaddr) - 1
<1>1. Runs(m, 1) # {}
  BY RunOfOne
<1>2. PICK cnt \in Nat : cnt = 1
  OBVIOUS
<1>3. /\ g.addr \in KPages /\ Grown(m, g.mem, T, cnt)
      /\ Takes(m, g.mem, g.addr..(g.addr + cnt - 1))
      /\ Cardinality(KPages \ g.mem.kvaddr) >= Cardinality(KPages \ m.kvaddr) - cnt
  <2>1. cnt > 0 /\ Runs(m, cnt) # {} /\ Cardinality(KFrames \ m.pool) >= cnt
    BY <1>1, <1>2
  <2>2. g = get_kernel_pages(m, cnt)
    BY <1>2
  <2> QED
    BY <2>1, <2>2, GetKernelPages
<1>4. g.addr..(g.addr + cnt - 1) = {g.addr}
  <2>1. PICK k \in KPages : k = g.addr
    BY <1>3
  <2>2. k..(k + cnt - 1) = {k}
    BY <1>2, ConstantsAre DEF KPages
  <2> QED
    BY <2>1, <2>2
<1> QED
  BY <1>2, <1>3, <1>4

(***************************************************************************)
(* mfree_page takes frames out of the pool together with the entries that  *)
(* map them.                                                               *)
(***************************************************************************)
Frees(m, m2, S) ==
    /\ m2.pool = m.pool \ {m.kmap[j] : j \in S}
    /\ m2.kvaddr = m.kvaddr \ S
    /\ \A j \in KPages : m2.kmap[j] = IF j \in S THEN NoFrame ELSE m.kmap[j]

LEMMA MfreeKernel ==
  ASSUME NEW m \in Memory, NEW T \in [Procs -> Task], KernelOK(m, T),
         NEW k \in Nat, NEW cnt \in Nat, k..(k + cnt - 1) \subseteq KPages,
         NEW m2, m2 = mfree_kernel(m, k, cnt)
  PROVE  /\ m2 \in Memory /\ KernelOK(m2, T)
         /\ UserOK(m, T) => UserOK(m2, T)
         /\ m2.pool \subseteq m.pool
         /\ Frees(m, m2, k..(k + cnt - 1))
<1>1. PICK S : S = k..(k + cnt - 1)
  OBVIOUS
<1>2. S \subseteq KPages
  BY <1>1
<1>3. /\ m2.pool = m.pool \ {m.kmap[j] : j \in S}
      /\ m2.kvaddr = m.kvaddr \ S
      /\ m2.kmap = [j \in KPages |-> IF j \in S THEN NoFrame ELSE m.kmap[j]]
      /\ m2 = [pool |-> m2.pool, kvaddr |-> m2.kvaddr, kmap |-> m2.kmap]
  BY <1>1 DEF mfree_kernel
<1>4. m2 \in Memory
  BY <1>3 DEF Memory
<1>5. \A j \in KPages : m2.kmap[j] = IF j \in S THEN NoFrame ELSE m.kmap[j]
  BY <1>3
<1>6. \A j \in S : m.kmap[j] \in KFrames \cup {NoFrame}
  BY <1>2 DEF Memory
<1>7. MapOK(m2)
  <2>1. MapOK(m)
    BY DEF KernelOK
  <2>2. \A i, j \in KPages : m2.kmap[i] = m2.kmap[j] /\ m2.kmap[i] # NoFrame => i = j
    BY <1>5, <2>1 DEF MapOK
  <2>3. ASSUME NEW i \in KPages, m2.kmap[i] # NoFrame PROVE m2.kmap[i] \in m2.pool
    <3>1. i \notin S /\ m2.kmap[i] = m.kmap[i]
      BY <1>5, <2>3
    <3>2. \A j \in S : m.kmap[j] # m.kmap[i]
      BY <1>2, <2>1, <2>3, <3>1 DEF MapOK
    <3>3. m.kmap[i] \in m.pool
      BY <2>1, <2>3, <3>1 DEF MapOK
    <3> QED
      BY <1>3, <3>1, <3>2, <3>3
  <2> QED
    BY <2>2, <2>3 DEF MapOK
<1>8. TablesOK(m2, T)
  <2>1. TablesOK(m, T)
    BY DEF KernelOK
  <2>2. ASSUME NEW p \in Procs, NEW l \in Tables, T[p].pde[l] # NoFrame
        PROVE  /\ T[p].pde[l] \in m2.pool
               /\ \A j \in KPages : m2.kmap[j] # T[p].pde[l]
    <3>1. /\ T[p].pde[l] \in m.pool
          /\ \A j \in KPages : m.kmap[j] # T[p].pde[l]
      BY <2>1, <2>2 DEF TablesOK
    <3> QED
      BY <1>2, <1>3, <1>5, <2>2, <3>1
  <2> QED
    BY <2>1, <2>2 DEF TablesOK
<1>9. UserOK(m, T) => UserOK(m2, T)
  <2> SUFFICES ASSUME UserOK(m, T) PROVE UserOK(m2, T)
    OBVIOUS
  <2>1. ASSUME NEW p \in Procs, NEW v \in UPages, T[p].pte[v].present
        PROVE  T[p].pte[v].frame \in m2.pool
    <3>1. T[p].pte[v].frame \in m.pool
      BY <2>1 DEF UserOK
    <3>2. T[p].pte[v].frame \in UFrames \cup {NoFrame}
      BY DEF Task, Entry
    <3>3. T[p].pte[v].frame \in Frames
      BY <3>1 DEF Memory
    <3>4. T[p].pte[v].frame \notin KFrames \cup {NoFrame}
      BY <3>2, <3>3, FramesAre DEF Frames
    <3> QED
      BY <1>3, <1>6, <3>1, <3>4
  <2> QED
    BY <2>1 DEF UserOK
<1>10. Frees(m, m2, S)
  BY <1>3, <1>5 DEF Frees
<1> QED
  BY <1>1, <1>3, <1>4, <1>7, <1>8, <1>9, <1>10 DEF KernelOK

-----------------------------------------------------------------------------
\* One page.
LEMMA MfreeOne ==
  ASSUME NEW m \in Memory, NEW T \in [Procs -> Task], KernelOK(m, T),
         NEW k \in KPages, NEW m2, m2 = mfree_kernel(m, k, 1)
  PROVE  /\ m2 \in Memory /\ KernelOK(m2, T)
         /\ UserOK(m, T) => UserOK(m2, T)
         /\ m2.pool \subseteq m.pool
         /\ Frees(m, m2, {k})
<1>1. PICK cnt \in Nat : cnt = 1
  OBVIOUS
<1>2. k \in Nat /\ k..(k + cnt - 1) \subseteq KPages /\ k..(k + cnt - 1) = {k}
  BY <1>1, ConstantsAre DEF KPages
<1>3. m2 = mfree_kernel(m, k, cnt)
  BY <1>1
<1>4. /\ m2 \in Memory /\ KernelOK(m2, T)
      /\ UserOK(m, T) => UserOK(m2, T)
      /\ m2.pool \subseteq m.pool
      /\ Frees(m, m2, k..(k + cnt - 1))
  BY <1>2, <1>3, MfreeKernel
<1> QED
  BY <1>2, <1>4

-----------------------------------------------------------------------------
(***************************************************************************)
(* Only the entries of the tasks count.                                    *)
(***************************************************************************)
SameEntries(T, T2) ==
    \A p \in Procs : T2[p].pde = T[p].pde /\ T2[p].pte = T[p].pte

LEMMA EntriesCount ==
  ASSUME NEW m, NEW T, NEW T2, SameEntries(T, T2)
  PROVE  /\ KernelOK(m, T) => KernelOK(m, T2)
         /\ UserOK(m, T) => UserOK(m, T2)
<1>1. KernelOK(m, T) => KernelOK(m, T2)
  BY DEF SameEntries, KernelOK, TablesOK
<1>2. UserOK(m, T) => UserOK(m, T2)
  BY DEF SameEntries, UserOK
<1> QED
  BY <1>1, <1>2

LEMMA TablesAre ==
  /\ IsFiniteSet(Tables)
  /\ \A v \in UPages : v \div PerTable \in Tables
<1>1. ASSUME NEW v \in UPages PROVE v \div PerTable \in UPages
  BY ConstantsAre DEF UPages
<1>2. Tables \in SUBSET UPages
  BY <1>1 DEF Tables
<1>3. IsFiniteSet(Tables)
  BY <1>2, FS_Subset, FramesAre
<1> QED
  BY <1>3 DEF Tables

(***************************************************************************)
(* What mapping page v of task t does: a user frame f that was free, and   *)
(* the table's frame tb, which was the task's own or free.                 *)
(***************************************************************************)
Mapped(m, t, v, m2, t2, f, tb) ==
    /\ f \in UFrames \ m.pool /\ tb \in KFrames
    /\ \/ t.pde[v \div PerTable] # NoFrame /\ tb = t.pde[v \div PerTable]
       \/ t.pde[v \div PerTable] = NoFrame /\ tb \notin m.pool
    /\ m2 \in Memory /\ t2 \in Task
    /\ m2.pool = m.pool \cup {f, tb} /\ m2.kmap = m.kmap /\ m2.kvaddr = m.kvaddr
    /\ t2.pde = [t.pde EXCEPT ![v \div PerTable] = tb]
    /\ t2.pte = [t.pte EXCEPT ![v] = [frame |-> f, present |-> TRUE]]
    /\ t2 = [t EXCEPT !.pde = t2.pde, !.pte = t2.pte]

\* The same for any frame tb of the kernel's, free or not.
PutUnder(m, t, v, m2, t2, f, tb) ==
    /\ f \in UFrames \ m.pool
    /\ m2 \in Memory /\ t2 \in Task
    /\ m2.pool = m.pool \cup {f, tb} /\ m2.kmap = m.kmap /\ m2.kvaddr = m.kvaddr
    /\ t2.pde = [t.pde EXCEPT ![v \div PerTable] = tb]
    /\ t2.pte = [t.pte EXCEPT ![v] = [frame |-> f, present |-> TRUE]]
    /\ t2 = [t EXCEPT !.pde = t2.pde, !.pte = t2.pte]

LEMMA MapUnderIs ==
  ASSUME NEW m \in Memory, NEW t \in Task, NEW v \in UPages, NEW tb \in KFrames,
         Cardinality(UFrames \ m.pool) >= 1,
         NEW y, y = MapUnder([mem |-> m, task |-> t], v, tb)
  PROVE  \E f : PutUnder(m, t, v, y.mem, y.task, f, tb)
<1>1. PICK f : f = palloc(m, UFrames)
  OBVIOUS
<1>2. f \in UFrames \ m.pool
  BY <1>1, PallocIs
<1>3. PICK k \in Tables : k = v \div PerTable
  BY TablesAre
<1>4. PICK m2 : m2 = [m EXCEPT !.pool = @ \cup {f, tb}]
  OBVIOUS
<1>5. /\ m2 \in Memory
      /\ m2.pool = m.pool \cup {f, tb} /\ m2.kmap = m.kmap /\ m2.kvaddr = m.kvaddr
  BY <1>2, <1>4 DEF Memory, Frames
<1>6. PICK t2 : t2 = [t EXCEPT !.pde[k] = tb,
                               !.pte[v] = [frame |-> f, present |-> TRUE]]
  OBVIOUS
<1>7. PICK e : e = [frame |-> f, present |-> TRUE]
  OBVIOUS
<1>8. e \in Entry
  BY <1>2, <1>7 DEF Entry
<1>9. /\ t2 \in Task
      /\ t2.pde = [t.pde EXCEPT ![k] = tb]
      /\ t2.pte = [t.pte EXCEPT ![v] = e]
      /\ t2 = [t EXCEPT !.pde = t2.pde, !.pte = t2.pte]
  <2>1. t2 = [t EXCEPT !.pde[k] = tb, !.pte[v] = e]
    BY <1>6, <1>7
  <2> QED
    BY <1>8, <2>1 DEF Task
<1>10. y = [mem |-> m2, task |-> t2]
  BY <1>1, <1>3, <1>4, <1>6 DEF MapUnder
<1>11. y.mem = m2 /\ y.task = t2
  BY <1>10
<1>12. PutUnder(m, t, v, m2, t2, f, tb)
  BY <1>2, <1>3, <1>5, <1>7, <1>9 DEF PutUnder
<1> QED
  BY <1>11, <1>12

LEMMA MapUserIs ==
  ASSUME NEW m \in Memory, NEW t \in Task, NEW v \in UPages,
         Cardinality(UFrames \ m.pool) >= 1,
         t.pde[v \div PerTable] = NoFrame => Cardinality(KFrames \ m.pool) >= 1,
         NEW y, y = MapUser([mem |-> m, task |-> t], v)
  PROVE  \E f, tb : Mapped(m, t, v, y.mem, y.task, f, tb)
<1>1. PICK k \in Tables : k = v \div PerTable
  BY TablesAre
<1>2. PICK tb : tb = IF t.pde[k] # NoFrame THEN t.pde[k] ELSE palloc(m, KFrames)
  OBVIOUS
<1>3. /\ tb \in KFrames
      /\ \/ t.pde[k] # NoFrame /\ tb = t.pde[k]
         \/ t.pde[k] = NoFrame /\ tb \notin m.pool
  <2>1. CASE t.pde[k] # NoFrame
    BY <1>2, <2>1 DEF Task
  <2>2. CASE t.pde[k] = NoFrame
    <3>1. palloc(m, KFrames) \in KFrames \ m.pool
      BY <1>1, <2>2, PallocIs
    <3> QED
      BY <1>2, <2>2, <3>1
  <2> QED
    BY <2>1, <2>2
<1>4. y = MapUnder([mem |-> m, task |-> t], v, tb)
  BY <1>1, <1>2 DEF MapUser
<1>5. PICK f : PutUnder(m, t, v, y.mem, y.task, f, tb)
  BY <1>3, <1>4, MapUnderIs
<1>6. Mapped(m, t, v, y.mem, y.task, f, tb)
  BY <1>1, <1>3, <1>5 DEF PutUnder, Mapped
<1> QED
  BY <1>6

(***************************************************************************)
(* It disturbs no other owner.                                             *)
(***************************************************************************)
LEMMA MappedIsOwned ==
  ASSUME NEW m \in Memory, NEW T \in [Procs -> Task], NEW p \in Procs,
         KernelOK(m, T), NEW v \in UPages,
         NEW m2, NEW t2, NEW f, NEW tb, Mapped(m, T[p], v, m2, t2, f, tb)
  PROVE  /\ KernelOK(m2, [T EXCEPT ![p] = t2])
         /\ UserOK(m, T) => UserOK(m2, [T EXCEPT ![p] = t2])
<1>1. PICK T2 : T2 = [T EXCEPT ![p] = t2]
  OBVIOUS
<1>2. PICK k \in Tables : k = v \div PerTable
  BY TablesAre
<1>3. /\ f \in UFrames \ m.pool /\ tb \in KFrames
      /\ \/ T[p].pde[k] # NoFrame /\ tb = T[p].pde[k]
         \/ T[p].pde[k] = NoFrame /\ tb \notin m.pool
      /\ m2.pool = m.pool \cup {f, tb} /\ m2.kmap = m.kmap
      /\ t2 \in Task /\ t2.pde = [T[p].pde EXCEPT ![k] = tb]
      /\ t2.pte = [T[p].pte EXCEPT ![v] = [frame |-> f, present |-> TRUE]]
  BY <1>2 DEF Mapped
<1>4. \A q \in Procs, l \in Tables :
         T2[q].pde[l] = IF q = p /\ l = k THEN tb ELSE T[q].pde[l]
  BY <1>1, <1>3 DEF Task
<1>5. \A q \in Procs, w \in UPages :
         T2[q].pte[w] = IF q = p /\ w = v THEN [frame |-> f, present |-> TRUE]
                                          ELSE T[q].pte[w]
  BY <1>1, <1>3 DEF Task
<1>6. MapOK(m) /\ TablesOK(m, T)
  BY DEF KernelOK
<1>7. MapOK(m2)
  BY <1>3, <1>6 DEF MapOK
<1>8. \A j \in KPages : m.kmap[j] # tb
  <2>1. tb # NoFrame
    BY <1>3, FramesAre
  <2> QED
    BY <1>3, <1>6, <2>1 DEF MapOK, TablesOK
<1>9. TablesOK(m2, T2)
  <2>1. ASSUME NEW q \in Procs, NEW l \in Tables, T2[q].pde[l] # NoFrame
        PROVE  T2[q].pde[l] \in m2.pool /\ \A j \in KPages : m2.kmap[j] # T2[q].pde[l]
    BY <1>3, <1>4, <1>6, <1>8, <2>1 DEF TablesOK
  <2>2. ASSUME NEW q \in Procs, NEW l \in Tables, ~(q = p /\ l = k)
        PROVE  T[q].pde[l] # tb
    BY <1>3, <1>6, <2>2, FramesAre DEF TablesOK
  <2>3. ASSUME NEW q \in Procs, NEW r \in Procs, NEW l \in Tables, NEW n \in Tables,
               T2[q].pde[l] = T2[r].pde[n], T2[q].pde[l] # NoFrame
        PROVE  q = r /\ l = n
    BY <1>4, <1>6, <2>2, <2>3 DEF TablesOK
  <2> QED
    BY <2>1, <2>3 DEF TablesOK
<1>10. ASSUME UserOK(m, T) PROVE UserOK(m2, T2)
  <2>1. ASSUME NEW q \in Procs, NEW w \in UPages, T2[q].pte[w].present
        PROVE  T2[q].pte[w].frame \in m2.pool
    BY <1>3, <1>5, <1>10, <2>1 DEF UserOK
  <2>2. ASSUME NEW q \in Procs, NEW w \in UPages, T[q].pte[w].present
        PROVE  T[q].pte[w].frame # f
    BY <1>3, <1>10, <2>2 DEF UserOK
  <2>3. ASSUME NEW q \in Procs, NEW r \in Procs, NEW w \in UPages, NEW x \in UPages,
               T2[q].pte[w].present, T2[r].pte[x].present,
               T2[q].pte[w].frame = T2[r].pte[x].frame
        PROVE  q = r /\ w = x
    <3>1. CASE (q = p /\ w = v) \/ (r = p /\ x = v)
      BY <1>5, <2>2, <2>3, <3>1
    <3>2. CASE ~(q = p /\ w = v) /\ ~(r = p /\ x = v)
      <4>1. T2[q].pte[w] = T[q].pte[w] /\ T2[r].pte[x] = T[r].pte[x]
        BY <1>5, <3>2
      <4> QED
        BY <1>10, <2>3, <4>1 DEF UserOK
    <3> QED
      BY <3>1, <3>2
  <2> QED
    BY <2>1, <2>3 DEF UserOK
<1> QED
  BY <1>1, <1>7, <1>9, <1>10 DEF KernelOK

-----------------------------------------------------------------------------
(***************************************************************************)
(* The loop of copy_body_stack3: Copy(f, n, x, S) says that f is what the  *)
(* child has after the pages up to n, -1 being before the loop.            *)
(***************************************************************************)
CopyRound(f, v, x, S) ==
    IF v = -1 THEN x
    ELSE IF v \in S THEN MapUser(f[v - 1], v) ELSE f[v - 1]

Copy(f, n, x, S) == f = [v \in (-1)..n |-> CopyRound(f, v, x, S)]

LEMMA CopyRuns ==
  ASSUME NEW n \in Nat, NEW x, NEW S
  PROVE  \E f : Copy(f, n - 1, x, S)
<1> DEFINE Bad == {i \in Nat : ~\E f : Copy(f, i - 1, x, S)}
<1> SUFFICES ASSUME n \in Bad PROVE FALSE
  OBVIOUS
<1>1. PICK a \in Bad : \A y \in Bad : a <= y
  <2>1. Bad \subseteq Nat /\ Bad # {}
    OBVIOUS
  <2> HIDE DEF Bad
  <2> QED
    BY <2>1, LowestIs
<1>2. a \in Nat /\ ~\E f : Copy(f, a - 1, x, S)
  OBVIOUS
<1>3. CASE a = 0
  <2> DEFINE g == [v \in (-1)..(-1) |-> x]
  <2>1. Copy(g, -1, x, S)
    BY DEF Copy, CopyRound
  <2> QED
    BY <1>2, <1>3, <2>1
<1>4. CASE a > 0
  <2>1. a - 1 \in Nat /\ a - 1 \notin Bad
    BY <1>1, <1>2, <1>4
  <2>2. PICK f : Copy(f, a - 2, x, S)
    <3>1. (a - 1) - 1 = a - 2
      BY <1>2
    <3> QED
      BY <2>1, <3>1
  <2> DEFINE g == [v \in (-1)..(a - 1) |->
                      IF v = a - 1 THEN CopyRound(f, v, x, S) ELSE f[v]]
  <2>3. \A v \in (-1)..(a - 2) : f[v] = CopyRound(f, v, x, S) /\ g[v] = f[v]
    <3>1. \A v \in (-1)..(a - 2) : f[v] = CopyRound(f, v, x, S)
      BY <2>2 DEF Copy
    <3>2. \A v \in (-1)..(a - 2) : v \in (-1)..(a - 1) /\ v # a - 1
      BY <1>2
    <3>3. \A v \in (-1)..(a - 2) : g[v] = f[v]
      BY <3>2
    <3> QED
      BY <3>1, <3>3
  <2>4. ASSUME NEW v \in (-1)..(a - 1) PROVE g[v] = CopyRound(g, v, x, S)
    <3>1. v # -1 => g[v - 1] = f[v - 1]
      BY <1>2, <2>3, <2>4
    <3>2. CopyRound(g, v, x, S) = CopyRound(f, v, x, S)
      <4> HIDE DEF g
      <4> QED
        BY <3>1 DEF CopyRound
    <3>3. CASE v = a - 1
      BY <3>2, <3>3
    <3>4. CASE v # a - 1
      <4>1. v \in (-1)..(a - 2)
        BY <1>2, <3>4
      <4> HIDE DEF g
      <4> QED
        BY <2>3, <3>2, <4>1
    <3> QED
      BY <3>3, <3>4
  <2>5. Copy(g, a - 1, x, S)
    BY <2>4 DEF Copy
  <2> QED
    BY <1>2, <2>5
<1> QED
  BY <1>2, <1>3, <1>4

(***************************************************************************)
(* The child in the middle of the loop, after page v: m and T are what     *)
(* fork started from, y the child so far.  What is still to be copied has  *)
(* room.                                                                   *)
(***************************************************************************)
PagesLeft(S, v) == {w \in S : w > v}
TablesLeft(t, S, v) ==
    {k \in Tables : t.pde[k] = NoFrame /\ \E w \in S : w > v /\ w \div PerTable = k}

ChildSoFar(m, T, c, S, v, y) ==
    /\ y.mem \in Memory /\ y.task \in Task
    /\ y.task = [T[c] EXCEPT !.pde = y.task.pde, !.pte = y.task.pte]
    /\ KernelOK(y.mem, [T EXCEPT ![c] = y.task])
    /\ UserOK(m, T) => UserOK(y.mem, [T EXCEPT ![c] = y.task])
    /\ y.mem.kmap = m.kmap /\ y.mem.kvaddr = m.kvaddr
    /\ \A f \in KFrames \cap y.mem.pool :
          f \in m.pool \/ \E k \in Tables : y.task.pde[k] = f
    /\ \A w \in UPages : /\ y.task.pte[w].present <=> w \in S /\ w <= v
                         /\ y.task.pte[w].present => y.task.pte[w].frame # NoFrame
    /\ Cardinality(UFrames \ y.mem.pool) >= Cardinality(PagesLeft(S, v))
    /\ Cardinality(KFrames \ y.mem.pool) >= Cardinality(TablesLeft(y.task, S, v))

LEMMA LeftIsFinite ==
  ASSUME NEW S \in SUBSET UPages, NEW v, NEW t
  PROVE  /\ IsFiniteSet(PagesLeft(S, v)) /\ IsFiniteSet(TablesLeft(t, S, v))
         /\ Cardinality(PagesLeft(S, v)) \in Nat
         /\ Cardinality(TablesLeft(t, S, v)) \in Nat
<1>1. PagesLeft(S, v) \in SUBSET UPages /\ TablesLeft(t, S, v) \in SUBSET Tables
  BY DEF PagesLeft, TablesLeft
<1> QED
  BY <1>1, FramesAre, TablesAre, FS_Subset, FS_CardinalityType

LEMMA CopyPage ==
  ASSUME NEW m, NEW T \in [Procs -> Task], NEW c \in Procs,
         NEW S \in SUBSET UPages, NEW v \in S,
         NEW y, ChildSoFar(m, T, c, S, v - 1, y),
         y = [mem |-> y.mem, task |-> y.task],
         NEW z, z = MapUser(y, v)
  PROVE  ChildSoFar(m, T, c, S, v, z)
<1>1. PICK a : a = y.mem
  OBVIOUS
<1>2. PICK t : t = y.task
  OBVIOUS
<1>3. PICK U : U = [T EXCEPT ![c] = t]
  OBVIOUS
<1>4. PICK k \in Tables : k = v \div PerTable
  BY TablesAre
<1>5. v \in UPages /\ v \in Nat
  BY FramesAre
<1>6. /\ a \in Memory /\ t \in Task /\ KernelOK(a, U)
      /\ U \in [Procs -> Task] /\ U[c] = t
      /\ UserOK(m, T) => UserOK(a, U)
  BY <1>1, <1>2, <1>3 DEF ChildSoFar
<1>7. v \in PagesLeft(S, v - 1) /\ PagesLeft(S, v) = PagesLeft(S, v - 1) \ {v}
  BY <1>5, FramesAre DEF PagesLeft
<1>8. /\ Cardinality(PagesLeft(S, v - 1)) >= 1
      /\ Cardinality(PagesLeft(S, v)) = Cardinality(PagesLeft(S, v - 1)) - 1
  <2>1. PICK A : A = PagesLeft(S, v - 1)
    OBVIOUS
  <2>2. IsFiniteSet(A) /\ Cardinality(A) \in Nat /\ v \in A
    BY <1>7, <2>1, LeftIsFinite
  <2>3. Cardinality(A) # 0 /\ Cardinality(A \ {v}) = Cardinality(A) - 1
    BY <2>2, FS_EmptySet, FS_RemoveElement
  <2> QED
    BY <1>7, <2>1, <2>2, <2>3
<1>9. Cardinality(UFrames \ a.pool) >= Cardinality(PagesLeft(S, v - 1))
  BY <1>1 DEF ChildSoFar
<1>10. Cardinality(KFrames \ a.pool) >= Cardinality(TablesLeft(t, S, v - 1))
  BY <1>1, <1>2 DEF ChildSoFar
<1>11. Cardinality(UFrames \ a.pool) >= 1
  <2>1. /\ Cardinality(UFrames \ a.pool) \in Nat
        /\ Cardinality(PagesLeft(S, v - 1)) \in Nat
    BY FreeIsFinite, LeftIsFinite
  <2> QED
    BY <1>8, <1>9, <2>1
<1>12. ASSUME t.pde[k] = NoFrame PROVE Cardinality(KFrames \ a.pool) >= 1
  <2>1. k \in TablesLeft(t, S, v - 1)
    BY <1>4, <1>5, <1>12 DEF TablesLeft
  <2>2. Cardinality(TablesLeft(t, S, v - 1)) >= 1
    BY <2>1, LeftIsFinite, FS_EmptySet
  <2>3. /\ Cardinality(KFrames \ a.pool) \in Nat
        /\ Cardinality(TablesLeft(t, S, v - 1)) \in Nat
    BY FreeIsFinite, LeftIsFinite
  <2> QED
    BY <1>10, <2>2, <2>3
<1>13. PICK f, tb : Mapped(a, t, v, z.mem, z.task, f, tb)
  <2>1. z = MapUser([mem |-> a, task |-> t], v)
    BY <1>1, <1>2
  <2> QED
    BY <1>4, <1>5, <1>6, <1>11, <1>12, <2>1, MapUserIs
<1>14. PICK b : b = z.mem
  OBVIOUS
<1>15. PICK t2 : t2 = z.task
  OBVIOUS
<1>16. Mapped(a, t, v, b, t2, f, tb)
  BY <1>13, <1>14, <1>15
<1>17. /\ KernelOK(b, [U EXCEPT ![c] = t2])
       /\ UserOK(a, U) => UserOK(b, [U EXCEPT ![c] = t2])
  BY <1>5, <1>6, <1>16, MappedIsOwned
<1>18. [U EXCEPT ![c] = t2] = [T EXCEPT ![c] = t2]
  BY <1>3
<1>19. /\ b \in Memory /\ t2 \in Task
       /\ f \in UFrames \ a.pool /\ tb \in KFrames
       /\ \/ t.pde[k] # NoFrame /\ tb = t.pde[k]
          \/ t.pde[k] = NoFrame /\ tb \notin a.pool
       /\ b.pool = a.pool \cup {f, tb} /\ b.kmap = a.kmap /\ b.kvaddr = a.kvaddr
       /\ t2.pde = [t.pde EXCEPT ![k] = tb]
       /\ t2.pte = [t.pte EXCEPT ![v] = [frame |-> f, present |-> TRUE]]
       /\ t2 = [t EXCEPT !.pde = t2.pde, !.pte = t2.pte]
  BY <1>4, <1>16 DEF Mapped
<1>20. t2 = [T[c] EXCEPT !.pde = t2.pde, !.pte = t2.pte]
  <2>1. t = [T[c] EXCEPT !.pde = t.pde, !.pte = t.pte]
    BY <1>2 DEF ChildSoFar
  <2> QED
    BY <1>6, <1>19, <2>1 DEF Task
<1>21. ASSUME NEW w \in UPages
       PROVE  /\ t2.pte[w].present <=> w \in S /\ w <= v
              /\ t2.pte[w].present => t2.pte[w].frame # NoFrame
  <2>1. /\ t.pte[w].present <=> w \in S /\ w <= v - 1
        /\ t.pte[w].present => t.pte[w].frame # NoFrame
    BY <1>2 DEF ChildSoFar
  <2>2. CASE w = v
    <3>1. t2.pte[w] = [frame |-> f, present |-> TRUE]
      BY <1>6, <1>19, <2>2 DEF Task
    <3> QED
      BY <1>5, <1>19, <2>2, <3>1, FramesAre
  <2>3. CASE w # v
    <3>1. t2.pte[w] = t.pte[w]
      BY <1>6, <1>19, <2>3 DEF Task
    <3>2. w <= v - 1 <=> w <= v
      BY <1>5, <2>3, FramesAre
    <3> QED
      BY <2>1, <3>1, <3>2
  <2> QED
    BY <2>2, <2>3
<1>22. Cardinality(UFrames \ b.pool) >= Cardinality(PagesLeft(S, v))
  <2>1. UFrames \ b.pool = (UFrames \ a.pool) \ {f}
    BY <1>19, FramesAre
  <2>2. Cardinality(UFrames \ b.pool) = Cardinality(UFrames \ a.pool) - 1
    BY <1>19, <2>1, FreeIsFinite, RoomIs
  <2>3. /\ Cardinality(UFrames \ a.pool) \in Nat
        /\ Cardinality(PagesLeft(S, v - 1)) \in Nat
    BY FreeIsFinite, LeftIsFinite
  <2> QED
    BY <1>8, <1>9, <2>2, <2>3
<1>23. Cardinality(KFrames \ b.pool) >= Cardinality(TablesLeft(t2, S, v))
  <2>1. TablesLeft(t2, S, v) \subseteq TablesLeft(t, S, v - 1) \ {k}
    <3> SUFFICES ASSUME NEW l \in Tables, t2.pde[l] = NoFrame,
                        NEW w \in S, w > v, w \div PerTable = l
                 PROVE  l \in TablesLeft(t, S, v - 1) \ {k}
      BY DEF TablesLeft
    <3>1. t2.pde[l] = IF l = k THEN tb ELSE t.pde[l]
      BY <1>6, <1>19 DEF Task
    <3>2. l # k /\ t.pde[l] = NoFrame
      BY <1>19, <3>1, FramesAre
    <3>3. w > v - 1
      BY <1>5, FramesAre
    <3> QED
      BY <3>2, <3>3 DEF TablesLeft
  <2>2. PICK A : A = TablesLeft(t, S, v - 1)
    OBVIOUS
  <2>3. IsFiniteSet(A) /\ Cardinality(A) \in Nat
    BY <2>2, LeftIsFinite
  <2>4. IsFiniteSet(A \ {k})
    BY <2>3, FS_RemoveElement
  <2>5. Cardinality(TablesLeft(t2, S, v)) <= Cardinality(A \ {k})
    BY <2>1, <2>2, <2>4, FS_Subset
  <2>6. Cardinality(TablesLeft(t2, S, v)) \in Nat /\ Cardinality(A \ {k}) \in Nat
        /\ Cardinality(KFrames \ a.pool) \in Nat
        /\ Cardinality(KFrames \ b.pool) \in Nat
    BY <2>4, LeftIsFinite, FreeIsFinite, FS_CardinalityType
  <2>7. CASE t.pde[k] = NoFrame
    <3>1. KFrames \ b.pool = (KFrames \ a.pool) \ {tb}
      BY <1>19, FramesAre
    <3>2. Cardinality(KFrames \ b.pool) = Cardinality(KFrames \ a.pool) - 1
      BY <1>19, <2>7, <3>1, FreeIsFinite, RoomIs
    <3>3. k \in A
      BY <1>4, <1>5, <2>2, <2>7 DEF TablesLeft
    <3>4. Cardinality(A \ {k}) = Cardinality(A) - 1
      BY <2>3, <3>3, RoomIs
    <3> QED
      BY <1>10, <2>2, <2>3, <2>5, <2>6, <3>2, <3>4
  <2>8. CASE t.pde[k] # NoFrame
    <3>1. tb \in a.pool
      BY <1>4, <1>6, <1>19, <2>8 DEF KernelOK, TablesOK
    <3>2. KFrames \ b.pool = KFrames \ a.pool
      BY <1>19, <3>1, FramesAre
    <3>3. Cardinality(A \ {k}) <= Cardinality(A)
      <4>1. A \ {k} \in SUBSET A
        OBVIOUS
      <4> QED
        BY <2>3, <4>1, FS_Subset
    <3>4. Cardinality(KFrames \ b.pool) = Cardinality(KFrames \ a.pool)
      BY <3>2
    <3>5. Cardinality(KFrames \ a.pool) >= Cardinality(A)
      BY <1>10, <2>2
    <3> QED
      BY <2>3, <2>5, <2>6, <3>3, <3>4, <3>5
  <2> QED
    BY <2>7, <2>8
<1>24. ASSUME NEW g \in KFrames \cap b.pool
       PROVE  g \in m.pool \/ \E l \in Tables : t2.pde[l] = g
  <2>1. \A l \in Tables : t2.pde[l] = IF l = k THEN tb ELSE t.pde[l]
    BY <1>6, <1>19 DEF Task
  <2>2. g \in a.pool \/ g = tb
    BY <1>19, <1>24, FramesAre
  <2>3. g \in a.pool => g \in m.pool \/ \E l \in Tables : t.pde[l] = g
    BY <1>1, <1>2 DEF ChildSoFar
  <2>4. g # NoFrame
    BY FramesAre
  <2> QED
    BY <1>19, <2>1, <2>2, <2>3, <2>4
<1>25. b.kmap = m.kmap /\ b.kvaddr = m.kvaddr
  BY <1>1, <1>19 DEF ChildSoFar
<1> QED
  BY <1>6, <1>14, <1>15, <1>17, <1>18, <1>19, <1>20, <1>21, <1>22, <1>23, <1>24,
     <1>25
  DEF ChildSoFar

LEMMA CopySkip ==
  ASSUME NEW m, NEW T, NEW c, NEW S \in SUBSET UPages,
         NEW v \in UPages, v \notin S, NEW y, ChildSoFar(m, T, c, S, v - 1, y)
  PROVE  ChildSoFar(m, T, c, S, v, y)
<1>1. \A w \in UPages : w # v => (w <= v <=> w <= v - 1) /\ (w > v <=> w > v - 1)
  BY FramesAre
<1>2. PagesLeft(S, v) = PagesLeft(S, v - 1)
  BY <1>1 DEF PagesLeft
<1>3. TablesLeft(y.task, S, v) = TablesLeft(y.task, S, v - 1)
  BY <1>1 DEF TablesLeft
<1>4. \A w \in UPages : w \in S /\ w <= v <=> w \in S /\ w <= v - 1
  BY <1>1
<1> QED
  BY <1>2, <1>3, <1>4 DEF ChildSoFar

(***************************************************************************)
(* After the loop the child has a page of its own for every bit of its     *)
(* parent's bitmap.                                                        *)
(***************************************************************************)
LEMMA CopiedIs ==
  ASSUME NEW m \in Memory, NEW T \in [Procs -> Task], NEW c \in Procs,
         KernelOK(m, T),
         \A w \in UPages : T[c].pte[w] = Absent,
         \A k \in Tables : T[c].pde[k] = NoFrame,
         NEW S \in SUBSET UPages,
         Cardinality(UFrames \ m.pool) >= Cardinality(S),
         Cardinality(KFrames \ m.pool) >= NewTables(NoTask, S),
         NEW y, y = Copied([mem |-> m, task |-> T[c]], S)
  PROVE  ChildSoFar(m, T, c, S, NPages - 1, y)
<1>1. PICK x : x = [mem |-> m, task |-> T[c]]
  OBVIOUS
<1>2. PICK f : f = CHOOSE h : Copy(h, NPages - 1, x, S)
  OBVIOUS
<1>3. Copy(f, NPages - 1, x, S)
  <2>1. \E h : Copy(h, NPages - 1, x, S)
    BY CopyRuns, ConstantsAre
  <2> QED
    BY <1>2, <2>1, Zenon
<1>4. y = f[NPages - 1]
  BY <1>1, <1>2 DEF Copied, Copy, CopyRound
<1> DEFINE Good(i) == /\ ChildSoFar(m, T, c, S, i - 1, f[i - 1])
                      /\ f[i - 1] = [mem |-> f[i - 1].mem, task |-> f[i - 1].task]
           Bad == {i \in 0..NPages : ~Good(i)}
<1>5. Good(0)
  <2>1. f[-1] = x
    BY <1>3, ConstantsAre DEF Copy, CopyRound
  <2>2. x.mem = m /\ x.task = T[c] /\ T[c] \in Task
    BY <1>1
  <2>3. \A w \in UPages : ~T[c].pte[w].present /\ ~(w <= -1) /\ w > -1
    BY FramesAre DEF Absent
  <2>4. PagesLeft(S, -1) = S
    BY <2>3 DEF PagesLeft
  <2>5. TablesLeft(T[c], S, -1) = {k \in Tables : /\ NoTask.pde[k] = NoFrame
                                                 /\ \E v \in S : v \div PerTable = k}
    BY <2>3 DEF TablesLeft, NoTask
  <2>6. [T EXCEPT ![c] = T[c]] = T
    OBVIOUS
  <2>7. T[c] = [T[c] EXCEPT !.pde = T[c].pde, !.pte = T[c].pte]
    BY <2>2 DEF Task
  <2>8. ChildSoFar(m, T, c, S, -1, x)
    BY <2>2, <2>3, <2>4, <2>5, <2>6, <2>7 DEF ChildSoFar, NewTables
  <2> QED
    BY <1>1, <2>1, <2>2, <2>8
<1>6. ASSUME NEW i \in 0..NPages, i > 0, Good(i - 1) PROVE Good(i)
  <2>1. PICK v : v = i - 1
    OBVIOUS
  <2>2. v \in UPages /\ v \in Nat /\ v \in (-1)..(NPages - 1)
    BY <1>6, <2>1, ConstantsAre DEF UPages
  <2>3. f[v] = IF v \in S THEN MapUser(f[v - 1], v) ELSE f[v - 1]
    <3>1. f[v] = CopyRound(f, v, x, S)
      BY <1>3, <2>2 DEF Copy
    <3>2. v # -1
      BY <2>2
    <3> QED
      BY <3>1, <3>2 DEF CopyRound
  <2>4. PICK a : a = f[v - 1]
    OBVIOUS
  <2>5. ChildSoFar(m, T, c, S, v - 1, a) /\ a = [mem |-> a.mem, task |-> a.task]
    BY <1>6, <2>1, <2>4
  <2>6. CASE v \in S
    <3>1. PICK b : b = MapUser(a, v)
      OBVIOUS
    <3>2. ChildSoFar(m, T, c, S, v, b)
      BY <2>5, <2>6, <3>1, CopyPage
    <3>3. b = [mem |-> b.mem, task |-> b.task]
      BY <3>1 DEF MapUser, MapUnder
    <3> QED
      BY <2>1, <2>3, <2>4, <2>6, <3>1, <3>2, <3>3
  <2>7. CASE v \notin S
    <3>1. ChildSoFar(m, T, c, S, v, a)
      BY <2>2, <2>5, <2>7, CopySkip
    <3> QED
      BY <2>1, <2>3, <2>4, <2>5, <2>7, <3>1
  <2> QED
    BY <2>6, <2>7
<1>7. Good(NPages)
  <2> SUFFICES ASSUME ~Good(NPages) PROVE FALSE
    OBVIOUS
  <2>1. NPages \in Bad
    BY ConstantsAre
  <2>2. Bad \subseteq Nat
    BY ConstantsAre
  <2>3. PICK i \in Bad : \A j \in Bad : i <= j
    <3> HIDE DEF Bad
    <3> QED
      BY <2>1, <2>2, LowestIs
  <2>4. i \in 0..NPages /\ ~Good(i)
    OBVIOUS
  <2> HIDE DEF Good
  <2>5. i # 0
    BY <1>5, <2>4
  <2>6. i - 1 \in 0..NPages /\ i - 1 \notin Bad
    BY <2>2, <2>3, <2>4, <2>5, ConstantsAre
  <2>7. Good(i - 1)
    BY <2>6
  <2> QED
    BY <1>6, <2>4, <2>5, <2>7, ConstantsAre
<1> QED
  BY <1>4, <1>7

-----------------------------------------------------------------------------
(***************************************************************************)
(* The kernel pages of a new process and of a fork.                        *)
(***************************************************************************)
BitsRun(b)  == b..(b + bitmap_pg_cnt - 1)
NewPages(n) == {n.pcb} \cup BitsRun(n.bits) \cup {n.pgdir}
Apart(n)    == n.pcb # n.pgdir /\ {n.pcb, n.pgdir} \cap BitsRun(n.bits) = {}

LEMMA NewTaskIs ==
  ASSUME NEW m \in Memory, NEW T, KernelOK(m, T),
         Cardinality(KFrames \ m.pool) >= 2 + bitmap_pg_cnt,
         Cardinality(KPages \ m.kvaddr) >= 2 + bitmap_pg_cnt,
         NEW n, n = NewTask(m), n.found
  PROVE  /\ Grown(m, n.mem, T, 2 + bitmap_pg_cnt)
         /\ n.pcb \in KPages /\ n.bits \in KPages /\ n.pgdir \in KPages
         /\ n.bits + bitmap_pg_cnt - 1 <= NK
         /\ Takes(m, n.mem, NewPages(n)) /\ Apart(n)
<1> DEFINE bp == bitmap_pg_cnt
<1>0. bp \in Nat /\ bp > 0
  BY ConstantsAre
<1>1. /\ Cardinality(KFrames \ m.pool) \in Nat /\ Cardinality(KPages \ m.kvaddr) \in Nat
  BY FreeIsFinite
<1>2. PICK a : a = get_kernel_pages(m, 1)
  OBVIOUS
<1>3. PICK b : b = get_kernel_pages(a.mem, bp)
  OBVIOUS
<1>4. PICK c : c = get_kernel_pages(b.mem, 1)
  OBVIOUS
<1>5. /\ Runs(a.mem, bp) # {} /\ n.mem = c.mem
      /\ n.pcb = a.addr /\ n.bits = b.addr /\ n.pgdir = c.addr
  <2>1. n = IF Runs(a.mem, bp) = {} THEN [found |-> FALSE]
            ELSE [found |-> TRUE, mem |-> c.mem, pcb |-> a.addr,
                  bits |-> b.addr, pgdir |-> c.addr]
    BY <1>2, <1>3, <1>4 DEF NewTask
  <2>2. Runs(a.mem, bp) # {}
    BY <2>1
  <2> QED
    BY <2>1, <2>2
<1>6. /\ a.addr \in KPages /\ Grown(m, a.mem, T, 1) /\ Takes(m, a.mem, {a.addr})
      /\ Cardinality(KPages \ a.mem.kvaddr) >= Cardinality(KPages \ m.kvaddr) - 1
  <2>1. Cardinality(KPages \ m.kvaddr) >= 1 /\ Cardinality(KFrames \ m.pool) >= 1
    BY <1>0, <1>1
  <2> QED
    BY <1>2, <2>1, GetOnePage
<1>7. /\ a.mem \in Memory /\ KernelOK(a.mem, T)
      /\ Cardinality(KFrames \ a.mem.pool) = Cardinality(KFrames \ m.pool) - 1
      /\ Cardinality(KPages \ a.mem.kvaddr) \in Nat
  BY <1>6, FreeIsFinite DEF Grown
<1>8. /\ b.addr \in KPages /\ b.addr + bp - 1 <= NK /\ Grown(a.mem, b.mem, T, bp)
      /\ Takes(a.mem, b.mem, BitsRun(b.addr))
      /\ Cardinality(KPages \ b.mem.kvaddr) >= Cardinality(KPages \ a.mem.kvaddr) - bp
  <2>1. Cardinality(KFrames \ a.mem.pool) >= bp
    BY <1>0, <1>1, <1>7
  <2> QED
    BY <1>0, <1>3, <1>5, <1>7, <2>1, GetKernelPages DEF BitsRun
<1>9. /\ b.mem \in Memory /\ KernelOK(b.mem, T)
      /\ Cardinality(KFrames \ b.mem.pool) = Cardinality(KFrames \ a.mem.pool) - bp
      /\ Cardinality(KPages \ b.mem.kvaddr) \in Nat
  BY <1>8, FreeIsFinite DEF Grown
<1>10. c.addr \in KPages /\ Grown(b.mem, c.mem, T, 1) /\ Takes(b.mem, c.mem, {c.addr})
  <2>1. Cardinality(KFrames \ b.mem.pool) >= 1
    BY <1>0, <1>1, <1>7, <1>9
  <2>2. Cardinality(KPages \ b.mem.kvaddr) >= 1
    BY <1>0, <1>1, <1>6, <1>7, <1>8, <1>9
  <2> QED
    BY <1>4, <1>9, <2>1, <2>2, GetOnePage
<1>11. Grown(m, c.mem, T, (1 + bp) + 1)
  <2>1. Grown(m, b.mem, T, 1 + bp)
    BY <1>0, <1>6, <1>8, GrownTwice
  <2> QED
    BY <1>0, <1>10, <2>1, GrownTwice
<1>12. (1 + bp) + 1 = 2 + bitmap_pg_cnt
  BY <1>0
<1>13. PICK R : R = BitsRun(b.addr)
  OBVIOUS
<1>14. Takes(m, b.mem, {a.addr} \cup R) /\ {a.addr} \cap R = {}
  <2>1. Takes(m, a.mem, {a.addr}) /\ Takes(a.mem, b.mem, R)
    BY <1>6, <1>8, <1>13
  <2> QED
    BY <2>1, TakesTwice
<1>15. /\ Takes(m, c.mem, ({a.addr} \cup R) \cup {c.addr})
       /\ ({a.addr} \cup R) \cap {c.addr} = {}
  <2>1. PICK Q : Q = {a.addr} \cup R
    OBVIOUS
  <2>2. Takes(m, b.mem, Q) /\ Takes(b.mem, c.mem, {c.addr})
    BY <1>10, <1>14, <2>1
  <2>3. Takes(m, c.mem, Q \cup {c.addr}) /\ Q \cap {c.addr} = {}
    BY <2>2, TakesTwice
  <2> QED
    BY <2>1, <2>3
<1>16. Takes(m, n.mem, NewPages(n)) /\ Apart(n)
  BY <1>5, <1>13, <1>14, <1>15 DEF NewPages, Apart
<1> QED
  BY <1>5, <1>6, <1>8, <1>10, <1>11, <1>12, <1>16

LEMMA ForkPagesIs ==
  ASSUME NEW m \in Memory, NEW T, KernelOK(m, T),
         Cardinality(KFrames \ m.pool) >= 3 + bitmap_pg_cnt,
         Cardinality(KPages \ m.kvaddr) >= 3 + bitmap_pg_cnt,
         NEW n, n = ForkPages(m), n.found
  PROVE  /\ Grown(m, n.mem, T, 3 + bitmap_pg_cnt)
         /\ n.pcb \in KPages /\ n.buf \in KPages /\ n.bits \in KPages
         /\ n.pgdir \in KPages
         /\ n.bits + bitmap_pg_cnt - 1 <= NK
         /\ Takes(m, n.mem, NewPages(n) \cup {n.buf}) /\ Apart(n)
         /\ n.buf \notin NewPages(n)
<1> DEFINE bp == bitmap_pg_cnt
<1>0. bp \in Nat /\ bp > 0
  BY ConstantsAre
<1>1. /\ Cardinality(KFrames \ m.pool) \in Nat /\ Cardinality(KPages \ m.kvaddr) \in Nat
  BY FreeIsFinite
<1>2. PICK a : a = get_kernel_pages(m, 1)
  OBVIOUS
<1>3. PICK b : b = get_kernel_pages(a.mem, 1)
  OBVIOUS
<1>4. PICK c : c = get_kernel_pages(b.mem, bp)
  OBVIOUS
<1>5. PICK d : d = get_kernel_pages(c.mem, 1)
  OBVIOUS
<1>6. /\ Runs(b.mem, bp) # {} /\ n.mem = d.mem
      /\ n.pcb = a.addr /\ n.buf = b.addr /\ n.bits = c.addr /\ n.pgdir = d.addr
  <2>1. n = IF Runs(b.mem, bp) = {} THEN [found |-> FALSE]
            ELSE [found |-> TRUE, mem |-> d.mem, pcb |-> a.addr, buf |-> b.addr,
                  bits |-> c.addr, pgdir |-> d.addr]
    BY <1>2, <1>3, <1>4, <1>5 DEF ForkPages
  <2>2. Runs(b.mem, bp) # {}
    BY <2>1
  <2> QED
    BY <2>1, <2>2
<1>7. /\ a.addr \in KPages /\ Grown(m, a.mem, T, 1) /\ Takes(m, a.mem, {a.addr})
      /\ Cardinality(KPages \ a.mem.kvaddr) >= Cardinality(KPages \ m.kvaddr) - 1
  <2>1. Cardinality(KPages \ m.kvaddr) >= 1 /\ Cardinality(KFrames \ m.pool) >= 1
    BY <1>0, <1>1
  <2> QED
    BY <1>2, <2>1, GetOnePage
<1>8. /\ a.mem \in Memory /\ KernelOK(a.mem, T)
      /\ Cardinality(KFrames \ a.mem.pool) = Cardinality(KFrames \ m.pool) - 1
      /\ Cardinality(KPages \ a.mem.kvaddr) \in Nat
  BY <1>7, FreeIsFinite DEF Grown
<1>9. /\ b.addr \in KPages /\ Grown(a.mem, b.mem, T, 1)
      /\ Takes(a.mem, b.mem, {b.addr})
      /\ Cardinality(KPages \ b.mem.kvaddr) >= Cardinality(KPages \ a.mem.kvaddr) - 1
  <2>1. Cardinality(KFrames \ a.mem.pool) >= 1
    BY <1>0, <1>1, <1>8
  <2>2. Cardinality(KPages \ a.mem.kvaddr) >= 1
    BY <1>0, <1>1, <1>7, <1>8
  <2> QED
    BY <1>3, <1>8, <2>1, <2>2, GetOnePage
<1>10. /\ b.mem \in Memory /\ KernelOK(b.mem, T)
       /\ Cardinality(KFrames \ b.mem.pool) = Cardinality(KFrames \ a.mem.pool) - 1
       /\ Cardinality(KPages \ b.mem.kvaddr) \in Nat
  BY <1>9, FreeIsFinite DEF Grown
<1>11. /\ c.addr \in KPages /\ c.addr + bp - 1 <= NK /\ Grown(b.mem, c.mem, T, bp)
       /\ Takes(b.mem, c.mem, BitsRun(c.addr))
       /\ Cardinality(KPages \ c.mem.kvaddr) >= Cardinality(KPages \ b.mem.kvaddr) - bp
  <2>1. Cardinality(KFrames \ b.mem.pool) >= bp
    BY <1>0, <1>1, <1>8, <1>10
  <2> QED
    BY <1>0, <1>4, <1>6, <1>10, <2>1, GetKernelPages DEF BitsRun
<1>12. /\ c.mem \in Memory /\ KernelOK(c.mem, T)
       /\ Cardinality(KFrames \ c.mem.pool) = Cardinality(KFrames \ b.mem.pool) - bp
       /\ Cardinality(KPages \ c.mem.kvaddr) \in Nat
  BY <1>11, FreeIsFinite DEF Grown
<1>13. d.addr \in KPages /\ Grown(c.mem, d.mem, T, 1) /\ Takes(c.mem, d.mem, {d.addr})
  <2>1. Cardinality(KFrames \ c.mem.pool) >= 1
    BY <1>0, <1>1, <1>8, <1>10, <1>12
  <2>2. Cardinality(KPages \ c.mem.kvaddr) >= 1
    BY <1>0, <1>1, <1>7, <1>8, <1>9, <1>10, <1>11, <1>12
  <2> QED
    BY <1>5, <1>12, <2>1, <2>2, GetOnePage
<1>14. Grown(m, d.mem, T, ((1 + 1) + bp) + 1)
  <2>1. Grown(m, b.mem, T, 1 + 1)
    BY <1>7, <1>9, GrownTwice
  <2>2. Grown(m, c.mem, T, (1 + 1) + bp)
    BY <1>0, <1>11, <2>1, GrownTwice
  <2> QED
    BY <1>0, <1>13, <2>2, GrownTwice
<1>15. ((1 + 1) + bp) + 1 = 3 + bitmap_pg_cnt
  BY <1>0
<1>16. PICK R : R = BitsRun(c.addr)
  OBVIOUS
<1>17. Takes(m, b.mem, {a.addr} \cup {b.addr}) /\ {a.addr} \cap {b.addr} = {}
  BY <1>7, <1>9, TakesTwice
<1>18. PICK Q : Q = {a.addr} \cup {b.addr}
  OBVIOUS
<1>19. Takes(m, c.mem, Q \cup R) /\ Q \cap R = {}
  <2>1. Takes(m, b.mem, Q) /\ Takes(b.mem, c.mem, R)
    BY <1>11, <1>16, <1>17, <1>18
  <2> QED
    BY <2>1, TakesTwice
<1>20. PICK P : P = Q \cup R
  OBVIOUS
<1>21. Takes(m, d.mem, P \cup {d.addr}) /\ P \cap {d.addr} = {}
  <2>1. Takes(m, c.mem, P) /\ Takes(c.mem, d.mem, {d.addr})
    BY <1>13, <1>19, <1>20
  <2> QED
    BY <2>1, TakesTwice
<1>22. /\ NewPages(n) \cup {n.buf} = P \cup {d.addr}
       /\ Apart(n) /\ n.buf \notin NewPages(n)
  <2>1. NewPages(n) \cup {n.buf} = P \cup {d.addr}
    BY <1>6, <1>16, <1>18, <1>20 DEF NewPages
  <2>2. Apart(n) /\ n.buf \notin NewPages(n)
    <3>1. a.addr # b.addr /\ a.addr \notin R /\ b.addr \notin R
      BY <1>17, <1>18, <1>19
    <3>2. d.addr # a.addr /\ d.addr # b.addr /\ d.addr \notin R
      BY <1>18, <1>20, <1>21
    <3> QED
      BY <1>6, <1>16, <3>1, <3>2 DEF NewPages, Apart
  <2> QED
    BY <2>1, <2>2
<1>23. Takes(m, n.mem, NewPages(n) \cup {n.buf})
  BY <1>6, <1>21, <1>22
<1> QED
  BY <1>6, <1>7, <1>9, <1>11, <1>13, <1>14, <1>15, <1>22, <1>23

-----------------------------------------------------------------------------
(***************************************************************************)
(* The owners of the kernel's pages.  First the pages of one task.         *)
(***************************************************************************)
LEMMA PagesOfLiving ==
  ASSUME NEW t \in Task, t.status \in {"ready", "running"}, Apart(t)
  PROVE  /\ Places(t) = 0..(bitmap_pg_cnt + 1)
         /\ {PageAt(t, i) : i \in Places(t)} = NewPages(t)
         /\ \A i, j \in Places(t) : PageAt(t, i) = PageAt(t, j) => i = j
<1>1. PICK bp \in Nat : bp = bitmap_pg_cnt
  BY ConstantsAre
<1>2. PICK b \in Nat : b = t.bits
  BY DEF Task
<1>3. Places(t) = 0..(bp + 1)
  BY <1>1 DEF Places
<1>4. BitsRun(t.bits) = b..(b + bp - 1)
  BY <1>1, <1>2 DEF BitsRun
<1>5. PageAt(t, 0) = t.pcb /\ PageAt(t, 1) = t.pgdir
  BY DEF PageAt
<1>6. \A i \in 0..(bp + 1) : i # 0 /\ i # 1 => /\ PageAt(t, i) = b + (i - 2)
                                               /\ b + (i - 2) \in b..(b + bp - 1)
  BY <1>2 DEF PageAt
<1>7. ASSUME NEW k \in BitsRun(t.bits)
      PROVE  \E i \in 0..(bp + 1) : PageAt(t, i) = k
  <2>1. k \in b..(b + bp - 1)
    BY <1>4
  <2>2. /\ k - b + 2 \in 0..(bp + 1) /\ k - b + 2 # 0 /\ k - b + 2 # 1
        /\ b + ((k - b + 2) - 2) = k
    BY <2>1
  <2> QED
    BY <1>6, <2>2
<1>8. {PageAt(t, i) : i \in Places(t)} = NewPages(t)
  <2>1. 0 \in 0..(bp + 1) /\ 1 \in 0..(bp + 1)
    OBVIOUS
  <2>2. ASSUME NEW i \in 0..(bp + 1) PROVE PageAt(t, i) \in NewPages(t)
    BY <1>4, <1>5, <1>6 DEF NewPages
  <2>3. ASSUME NEW k \in NewPages(t) PROVE \E i \in 0..(bp + 1) : PageAt(t, i) = k
    BY <1>5, <1>7, <2>1 DEF NewPages
  <2> QED
    BY <1>3, <2>2, <2>3
<1>9. ASSUME NEW i \in 0..(bp + 1), NEW j \in 0..(bp + 1), PageAt(t, i) = PageAt(t, j)
      PROVE  i = j
  <2>1. t.pcb # t.pgdir /\ t.pcb \notin b..(b + bp - 1) /\ t.pgdir \notin b..(b + bp - 1)
    BY <1>4 DEF Apart
  <2> QED
    BY <1>5, <1>6, <1>9, <2>1
<1> QED
  BY <1>1, <1>3, <1>8, <1>9

HasPage(t, k) == \E i \in Places(t) : PageAt(t, i) = k

LEMMA TaskPagesAre ==
  ASSUME NEW T, NEW k
  PROVE  k \in TaskPages(T) <=> \E p \in Procs : HasPage(T[p], k)
  BY DEF TaskPages, HasPage

(***************************************************************************)
(* A new task whose pages were free.                                       *)
(***************************************************************************)
LEMMA TaskEnters ==
  ASSUME NEW m, NEW m2, NEW T \in [Procs -> Task], NEW p \in Procs, NEW t \in Task,
         T[p].status = "none", t.status \in {"ready", "running"}, Apart(t),
         NEW R, R = NewPages(t), R \cap m.kvaddr = {}, m2.kvaddr = m.kvaddr \cup R,
         NEW O, NEW e, OwnersOK(m, T, O), LostCount(m, T, O, e),
         NEW T2, T2 = [T EXCEPT ![p] = t]
  PROVE  OwnersOK(m2, T2, O) /\ LostCount(m2, T2, O, e)
<1>1. /\ T2[p] = t /\ \A q \in Procs : q # p => T2[q] = T[q]
  OBVIOUS
<1>2. Places(T[p]) = {}
  BY DEF Places
<1>3. /\ {PageAt(t, i) : i \in Places(t)} = R
      /\ \A i, j \in Places(t) : PageAt(t, i) = PageAt(t, j) => i = j
  BY PagesOfLiving
<1>4. TaskPages(T2) = TaskPages(T) \cup R
  <2>1. ASSUME NEW k
        PROVE  k \in TaskPages(T2) <=> k \in TaskPages(T) \/ k \in R
    <3>1. (k \in R <=> HasPage(T2[p], k)) /\ ~HasPage(T[p], k)
      BY <1>1, <1>2, <1>3 DEF HasPage
    <3>2. \A q \in Procs : q # p => (HasPage(T2[q], k) <=> HasPage(T[q], k))
      BY <1>1
    <3>3. /\ k \in TaskPages(T2) <=> \E q \in Procs : HasPage(T2[q], k)
          /\ k \in TaskPages(T) <=> \E q \in Procs : HasPage(T[q], k)
      BY TaskPagesAre
    <3> QED
      BY <3>1, <3>2, <3>3
  <2> QED
    BY <2>1
<1>5. /\ \A q, r \in Procs : \A i \in Places(T[q]), j \in Places(T[r]) :
            PageAt(T[q], i) = PageAt(T[r], j) => q = r /\ i = j
      /\ TaskPages(T) \cap O = {} /\ TaskPages(T) \subseteq m.kvaddr /\ O \subseteq m.kvaddr
  BY DEF OwnersOK
<1>6. ASSUME NEW q \in Procs, NEW i \in Places(T[q]) PROVE PageAt(T[q], i) \notin R
  <2>1. PageAt(T[q], i) \in TaskPages(T)
    BY TaskPagesAre DEF HasPage
  <2> QED
    BY <1>5, <2>1
<1>7. ASSUME NEW i \in Places(t) PROVE PageAt(t, i) \in R
  BY <1>3
<1>8. ASSUME NEW q \in Procs, NEW r \in Procs,
             NEW i \in Places(T2[q]), NEW j \in Places(T2[r]),
             PageAt(T2[q], i) = PageAt(T2[r], j)
      PROVE  q = r /\ i = j
  <2>1. CASE q = p /\ r = p
    BY <1>1, <1>3, <1>8, <2>1
  <2>2. CASE q # p /\ r # p
    BY <1>1, <1>5, <1>8, <2>2
  <2>3. CASE q = p /\ r # p
    BY <1>1, <1>6, <1>7, <1>8, <2>3
  <2>4. CASE q # p /\ r = p
    BY <1>1, <1>6, <1>7, <1>8, <2>4
  <2> QED
    BY <2>1, <2>2, <2>3, <2>4
<1>9. OwnersOK(m2, T2, O)
  <2>1. TaskPages(T2) \cap O = {} /\ TaskPages(T2) \subseteq m2.kvaddr /\ O \subseteq m2.kvaddr
    BY <1>4, <1>5
  <2> QED
    BY <1>8, <2>1 DEF OwnersOK
<1>10. Lost(m2, T2, O) = Lost(m, T, O)
  BY <1>4, <1>5 DEF Lost
<1> QED
  BY <1>9, <1>10 DEF LostCount

(***************************************************************************)
(* A task keeps some of its pages; F of the others are free again and the  *)
(* rest are lost.                                                          *)
(***************************************************************************)
Drops(t, t2, D) ==
    /\ Places(t2) \subseteq Places(t)
    /\ \A i \in Places(t2) : PageAt(t2, i) = PageAt(t, i)
    /\ \A k \in D : \E i \in Places(t) \ Places(t2) : PageAt(t, i) = k
    /\ \A i \in Places(t) \ Places(t2) : PageAt(t, i) \in D

Dropped(m, m2, T, T2, O, D, F) ==
    /\ OwnersOK(m2, T2, O)
    /\ Lost(m2, T2, O) = Lost(m, T, O) \cup (D \ F)
    /\ Lost(m, T, O) \cap D = {}

LEMMA TaskLeaves ==
  ASSUME NEW m, NEW m2, NEW T \in [Procs -> Task], NEW p \in Procs, NEW t,
         NEW D, Drops(T[p], t, D), NEW F, F \subseteq D, m2.kvaddr = m.kvaddr \ F,
         NEW O, OwnersOK(m, T, O),
         NEW T2, T2 = [T EXCEPT ![p] = t]
  PROVE  Dropped(m, m2, T, T2, O, D, F)
<1>1. /\ T2[p] = t /\ \A q \in Procs : q # p => T2[q] = T[q]
  OBVIOUS
<1>2. /\ \A q, r \in Procs : \A i \in Places(T[q]), j \in Places(T[r]) :
            PageAt(T[q], i) = PageAt(T[r], j) => q = r /\ i = j
      /\ TaskPages(T) \cap O = {} /\ TaskPages(T) \subseteq m.kvaddr /\ O \subseteq m.kvaddr
  BY DEF OwnersOK
<1>3. ASSUME NEW k
      PROVE  /\ k \in D => HasPage(T[p], k) /\ ~HasPage(t, k)
             /\ HasPage(T[p], k) <=> HasPage(t, k) \/ k \in D
             /\ \A q \in Procs : HasPage(T[q], k) /\ HasPage(T[p], k) => q = p
  BY <1>2 DEF HasPage, Drops
<1>4. ASSUME NEW k PROVE k \in TaskPages(T2) <=> k \in TaskPages(T) /\ k \notin D
  <2>1. \A q \in Procs : q # p => (HasPage(T2[q], k) <=> HasPage(T[q], k))
    BY <1>1
  <2>2. HasPage(T2[p], k) <=> HasPage(t, k)
    BY <1>1
  <2>3. /\ k \in TaskPages(T2) <=> \E q \in Procs : HasPage(T2[q], k)
        /\ k \in TaskPages(T) <=> \E q \in Procs : HasPage(T[q], k)
    BY TaskPagesAre
  <2>4. /\ k \in D => HasPage(T[p], k) /\ ~HasPage(t, k)
        /\ HasPage(T[p], k) <=> HasPage(t, k) \/ k \in D
        /\ \A q \in Procs : HasPage(T[q], k) /\ HasPage(T[p], k) => q = p
    BY <1>3
  <2> QED
    BY <2>1, <2>2, <2>3, <2>4
<1>5. ASSUME NEW k \in D PROVE k \in TaskPages(T)
  BY <1>3, TaskPagesAre
<1>6. TaskPages(T2) = TaskPages(T) \ D /\ D \subseteq TaskPages(T)
  BY <1>4, <1>5
<1>7. ASSUME NEW q \in Procs, NEW r \in Procs,
             NEW i \in Places(T2[q]), NEW j \in Places(T2[r]),
             PageAt(T2[q], i) = PageAt(T2[r], j)
      PROVE  q = r /\ i = j
  <2>1. \A x \in Procs : \A y \in Places(T2[x]) :
           y \in Places(T[x]) /\ PageAt(T2[x], y) = PageAt(T[x], y)
    BY <1>1 DEF Drops
  <2> QED
    BY <1>2, <1>7, <2>1
<1>8. TaskPages(T2) \cap O = {} /\ TaskPages(T2) \subseteq m2.kvaddr /\ O \subseteq m2.kvaddr
  BY <1>2, <1>6
<1>9. OwnersOK(m2, T2, O)
  BY <1>7, <1>8 DEF OwnersOK
<1>10. Lost(m2, T2, O) = Lost(m, T, O) \cup (D \ F) /\ Lost(m, T, O) \cap D = {}
  BY <1>2, <1>6 DEF Lost
<1> QED
  BY <1>9, <1>10 DEF Dropped

\* Tasks that have the same pages.
SamePages(T, T2) ==
    \A p \in Procs : /\ Places(T2[p]) = Places(T[p])
                     /\ \A i \in Places(T[p]) : PageAt(T2[p], i) = PageAt(T[p], i)

LEMMA TasksStay ==
  ASSUME NEW m, NEW m2, m2.kvaddr = m.kvaddr, NEW T, NEW T2, SamePages(T, T2),
         NEW O, NEW e, OwnersOK(m, T, O), LostCount(m, T, O, e)
  PROVE  OwnersOK(m2, T2, O) /\ LostCount(m2, T2, O, e)
<1>1. TaskPages(T2) = TaskPages(T)
  <2>1. ASSUME NEW k PROVE k \in TaskPages(T2) <=> k \in TaskPages(T)
    <3>1. \A q \in Procs : HasPage(T2[q], k) <=> HasPage(T[q], k)
      BY DEF SamePages, HasPage
    <3>2. /\ k \in TaskPages(T2) <=> \E q \in Procs : HasPage(T2[q], k)
          /\ k \in TaskPages(T) <=> \E q \in Procs : HasPage(T[q], k)
      BY TaskPagesAre
    <3> QED
      BY <3>1, <3>2
  <2> QED
    BY <2>1
<1>2. OwnersOK(m2, T2, O)
  BY <1>1 DEF OwnersOK, SamePages
<1>3. Lost(m2, T2, O) = Lost(m, T, O)
  BY <1>1 DEF Lost
<1> QED
  BY <1>2, <1>3 DEF LostCount

\* A page of the kernel's own, taken or given back.
LEMMA HoldMore ==
  ASSUME NEW m, NEW m2, NEW T, NEW O, NEW e, NEW k,
         k \notin m.kvaddr, m2.kvaddr = m.kvaddr \cup {k},
         OwnersOK(m, T, O), LostCount(m, T, O, e)
  PROVE  OwnersOK(m2, T, O \cup {k}) /\ LostCount(m2, T, O \cup {k}, e)
<1>1. OwnersOK(m2, T, O \cup {k})
  BY DEF OwnersOK
<1>2. Lost(m2, T, O \cup {k}) = Lost(m, T, O)
  BY DEF Lost, OwnersOK
<1> QED
  BY <1>1, <1>2 DEF LostCount

LEMMA HoldLess ==
  ASSUME NEW m, NEW m2, NEW T, NEW O, NEW e, NEW k \in O,
         m2.kvaddr = m.kvaddr \ {k},
         OwnersOK(m, T, O), LostCount(m, T, O, e)
  PROVE  OwnersOK(m2, T, O \ {k}) /\ LostCount(m2, T, O \ {k}, e)
<1>1. OwnersOK(m2, T, O \ {k})
  BY DEF OwnersOK
<1>2. Lost(m2, T, O \ {k}) = Lost(m, T, O)
  BY DEF Lost, OwnersOK
<1> QED
  BY <1>1, <1>2 DEF LostCount

(***************************************************************************)
(* Taking and freeing pages keep mapped what is in use, and the frames in  *)
(* the pool those that are used.                                           *)
(***************************************************************************)
LEMMA TakesUsed ==
  ASSUME NEW m, NEW m2, NEW R, Takes(m, m2, R), NEW M, M \subseteq m.kvaddr,
         NEW T, UsedIsMapped(m, M), PoolIsUsed(m, T)
  PROVE  UsedIsMapped(m2, M) /\ PoolIsUsed(m2, T)
<1>1. UsedIsMapped(m2, M)
  BY DEF Takes, Maps, UsedIsMapped
<1>2. ASSUME NEW f \in KFrames \cap m2.pool
      PROVE  \/ \E k \in KPages : m2.kmap[k] = f
             \/ \E p \in Procs, k \in Tables : T[p].pde[k] = f
  <2>1. CASE \E j \in R : m2.kmap[j] = f
    BY <2>1 DEF Takes
  <2>2. CASE f \in m.pool
    <3>1. CASE \E p \in Procs, k \in Tables : T[p].pde[k] = f
      BY <3>1
    <3>2. CASE \E k \in KPages : m.kmap[k] = f
      <4>1. PICK k \in KPages : m.kmap[k] = f
        BY <3>2
      <4>2. f # NoFrame
        BY FramesAre
      <4>3. k \notin R
        BY <4>1, <4>2 DEF UsedIsMapped, Takes
      <4> QED
        BY <4>1, <4>3 DEF Takes, Maps
    <3> QED
      BY <2>2, <3>1, <3>2 DEF PoolIsUsed
  <2> QED
    BY <2>1, <2>2 DEF Takes, Maps
<1> QED
  BY <1>1, <1>2 DEF PoolIsUsed

LEMMA FreesUsed ==
  ASSUME NEW m, NEW m2, NEW S, Frees(m, m2, S), NEW M, NEW T,
         UsedIsMapped(m, M), PoolIsUsed(m, T)
  PROVE  UsedIsMapped(m2, M) /\ PoolIsUsed(m2, T)
<1>1. UsedIsMapped(m2, M)
  BY DEF Frees, UsedIsMapped
<1>2. ASSUME NEW f \in KFrames \cap m2.pool
      PROVE  \/ \E k \in KPages : m2.kmap[k] = f
             \/ \E p \in Procs, k \in Tables : T[p].pde[k] = f
  <2>1. f \in m.pool /\ \A j \in S : m.kmap[j] # f
    BY DEF Frees
  <2>2. CASE \E k \in KPages : m.kmap[k] = f
    BY <2>1, <2>2 DEF Frees
  <2> QED
    BY <2>1, <2>2 DEF PoolIsUsed
<1> QED
  BY <1>1, <1>2 DEF PoolIsUsed

\* Only the page tables of the tasks count.
LEMMA TablesUsed ==
  ASSUME NEW m, NEW T, NEW T2, SameEntries(T, T2), PoolIsUsed(m, T)
  PROVE  PoolIsUsed(m, T2)
  BY DEF SameEntries, PoolIsUsed

-----------------------------------------------------------------------------
\* The parts of IInv in the next state, with the state as an argument.
LEMMA NextState ==
  ASSUME PagesTypeOK', \A p \in Procs : TaskOK(task'[p]),
         raced' \/ (KernelOK(mem', task') /\ MainOK'),
         raced' \/ stale' \/ UserOK(mem', task'),
         raced' \/ Owned(mem', task', kheap', main', exits')
  PROVE  IInv'
  BY DEF IInv

LEMMA UpState ==
  ASSUME IInv, Up
  PROVE  /\ mem \in Memory /\ task \in [Procs -> Task] /\ kheap \subseteq KPages
         /\ KernelOK(mem, task) /\ MainOK /\ ~raced /\ stale \in BOOLEAN
         /\ stale \/ UserOK(mem, task)
         /\ Owned(mem, task, kheap, main, exits)
         /\ \A p \in Procs : task[p] \in Task /\ TaskOK(task[p])
  BY DEF IInv, Up, PagesTypeOK

LEMMA OwnedParts ==
  ASSUME IInv, Up, NEW O, O = Held(kheap, main), NEW M, M = MainPage(main)
  PROVE  /\ OwnersOK(mem, task, O) /\ LostCount(mem, task, O, exits)
         /\ UsedIsMapped(mem, M) /\ PoolIsUsed(mem, task)
         /\ kheap \cap M = {} /\ M \subseteq mem.kvaddr
  BY UpState DEF Owned, OwnersOK, Held

LEMMA OwnedAgain ==
  ASSUME NEW m, NEW T, NEW kh, NEW mn, NEW e,
         OwnersOK(m, T, Held(kh, mn)), LostCount(m, T, Held(kh, mn), e),
         UsedIsMapped(m, MainPage(mn)), PoolIsUsed(m, T), kh \cap MainPage(mn) = {}
  PROVE  Owned(m, T, kh, mn, e)
  BY DEF Owned

LEMMA NoTaskIs ==
  /\ NoTask \in Task
  /\ \A k \in Tables : NoTask.pde[k] = NoFrame
  /\ \A v \in UPages : NoTask.pte[v] = Absent
  /\ NoTask.vaddr_bitmap = {} /\ NoTask.heap = {} /\ NoTask.status = "none"
<1>1. Absent \in Entry
  BY DEF Absent, Entry
<1> QED
  BY <1>1, ConstantsAre DEF NoTask, Task

\* A task without entries has the entries of NoTask.
LEMMA NoEntries ==
  ASSUME NEW t \in Task, TaskOK(t), t.status \in {"none", "hanging"}
  PROVE  t.pde = NoTask.pde /\ t.pte = NoTask.pte
<1>1. /\ t.pde \in [Tables -> KFrames \cup {NoFrame}] /\ t.pte \in [UPages -> Entry]
      /\ \A k \in Tables : t.pde[k] = NoFrame
      /\ \A v \in UPages : t.pte[v] = Absent
  BY DEF Task, TaskOK
<1> QED
  BY <1>1 DEF NoTask

LEMMA StopStep ==
  ASSUME IInv, Stop
  PROVE  IInv'
<1>1. UNCHANGED <<mem, task, kheap, main, exits, stale, raced>>
  BY DEF Stop, hist
<1>2. PagesTypeOK' /\ MainOK' = MainOK
  BY <1>1 DEF IInv, PagesTypeOK, MainOK
<1> QED
  BY <1>1, <1>2, NextState DEF IInv

LEMMA ProcessExecuteStep ==
  ASSUME IInv, NEW p \in Procs, process_execute(p)
  PROVE  IInv'
<1> DEFINE need == 2 + bitmap_pg_cnt
<1>1. PICK n : n = NewTask(mem)
  OBVIOUS
<1>2. PICK t : t = [NoTask EXCEPT !.status = "ready", !.pcb = n.pcb,
                                  !.bits = n.bits, !.pgdir = n.pgdir]
  OBVIOUS
<1>3. Up /\ task[p].status = "none" /\ main = Idle
  BY DEF process_execute, PoolUnlocked
<1>4. CASE Stop
  BY <1>4, StopStep
<1>5. CASE /\ Room(mem, need, 0)
           /\ Cardinality(KPages \ mem.kvaddr) >= need /\ n.found
           /\ mem' = n.mem /\ task' = [task EXCEPT ![p] = t]
           /\ UNCHANGED <<kheap, main, hist, panic>>
  <2>1. /\ mem \in Memory /\ task \in [Procs -> Task] /\ KernelOK(mem, task)
        /\ ~raced /\ stale \in BOOLEAN /\ (stale \/ UserOK(mem, task))
        /\ TaskOK(task[p]) /\ task[p] \in Task /\ kheap \subseteq KPages
        /\ \A q \in Procs : TaskOK(task[q])
    BY <1>3, UpState
  <2>2. /\ Grown(mem, n.mem, task, need)
        /\ n.pcb \in KPages /\ n.bits \in KPages /\ n.pgdir \in KPages
        /\ n.bits + bitmap_pg_cnt - 1 <= NK
        /\ Takes(mem, n.mem, NewPages(n)) /\ Apart(n)
    BY <1>1, <1>5, <2>1, NewTaskIs DEF Room
  <2>3. /\ t \in Task /\ t.pde = NoTask.pde /\ t.pte = NoTask.pte
        /\ t.status = "ready" /\ t.pcb = n.pcb /\ t.bits = n.bits /\ t.pgdir = n.pgdir
        /\ t.vaddr_bitmap = {} /\ t.heap = {}
    <3>1. n.pcb \in 0..NK /\ n.bits \in 0..NK /\ n.pgdir \in 0..NK
      BY <2>2, ConstantsAre DEF KPages
    <3> QED
      BY <1>2, <3>1, NoTaskIs DEF Task
  <2>4. TaskOK(t)
    <3>1. \A v \in UPages : ~t.pte[v].present
      BY <2>3, NoTaskIs DEF Absent
    <3>2. n.pcb >= 1 /\ n.bits >= 1 /\ n.pgdir >= 1
      BY <2>2, ConstantsAre DEF KPages
    <3>3. \A k \in Tables : t.pde[k] = NoFrame
      BY <2>3, NoTaskIs
    <3> QED
      BY <2>2, <2>3, <3>1, <3>2, <3>3 DEF TaskOK
  <2>5. SameEntries(task, task')
    BY <1>3, <1>5, <2>1, <2>3, NoEntries DEF SameEntries
  <2>6. KernelOK(mem', task') /\ (UserOK(mem, task) => UserOK(mem', task'))
    BY <1>5, <2>2, <2>5, EntriesCount DEF Grown
  <2>7. task' \in [Procs -> Task] /\ \A q \in Procs : TaskOK(task'[q])
    BY <1>5, <2>1, <2>3, <2>4
  <2>8. PagesTypeOK' /\ MainOK' /\ ~raced' /\ stale' = stale
    BY <1>3, <1>5, <2>1, <2>2, <2>7 DEF IInv, PagesTypeOK, MainOK, hist, Grown, Idle
  <2>9. Owned(mem', task', kheap', main', exits')
    <3>1. PICK O : O = Held(kheap, main)
      OBVIOUS
    <3>2. PICK M : M = MainPage(main)
      OBVIOUS
    <3>3. /\ OwnersOK(mem, task, O) /\ LostCount(mem, task, O, exits)
          /\ UsedIsMapped(mem, M) /\ PoolIsUsed(mem, task)
          /\ kheap \cap M = {} /\ M \subseteq mem.kvaddr
      BY <1>3, <3>1, <3>2, OwnedParts
    <3>4. NewPages(t) = NewPages(n) /\ Apart(t)
      BY <2>2, <2>3 DEF NewPages, Apart
    <3>5. PICK m2 : m2 = mem'
      OBVIOUS
    <3>6. PICK T2 : T2 = task'
      OBVIOUS
    <3>7. OwnersOK(m2, T2, O) /\ LostCount(m2, T2, O, exits)
      <4>1. /\ NewPages(t) \cap mem.kvaddr = {}
            /\ m2.kvaddr = mem.kvaddr \cup NewPages(t)
            /\ T2 = [task EXCEPT ![p] = t]
        BY <1>5, <2>2, <3>4, <3>5, <3>6 DEF Takes
      <4> QED
        BY <1>3, <2>1, <2>3, <3>3, <3>4, <4>1, TaskEnters
    <3>8. UsedIsMapped(m2, M) /\ PoolIsUsed(m2, task)
      BY <1>5, <2>2, <3>3, <3>5, TakesUsed
    <3>9. PoolIsUsed(m2, T2)
      BY <2>5, <3>6, <3>8, TablesUsed
    <3>10. kheap' = kheap /\ main' = main /\ exits' = exits
      BY <1>5 DEF hist
    <3> QED
      BY <3>1, <3>2, <3>3, <3>5, <3>6, <3>7, <3>8, <3>9, <3>10, OwnedAgain
  <2> QED
    BY <2>1, <2>6, <2>7, <2>8, <2>9, NextState
<1> QED
  BY <1>1, <1>2, <1>4, <1>5 DEF process_execute

(***************************************************************************)
(* A user page that is asked for by address.  t is the process with its    *)
(* status or its heap already changed.                                     *)
(***************************************************************************)
Ready(p, t, v) ==
    /\ t.pde = task[p].pde /\ t.pte = task[p].pte
    /\ t.vaddr_bitmap = {w \in UPages : t.pte[w].present}
    /\ t.heap \subseteq t.vaddr_bitmap \cup {v}
    /\ \A w \in UPages : t.pte[w].present => t.pte[w].frame # NoFrame
    /\ t.bits >= 1 /\ t.bits + bitmap_pg_cnt - 1 <= NK /\ t.pcb >= 1 /\ t.pgdir >= 1
    /\ t.status = "running" /\ task[p].status \in {"ready", "running"}
    /\ t.bits = task[p].bits /\ t.pcb = task[p].pcb /\ t.pgdir = task[p].pgdir

WithBit(t3, t2, v) == t3 = [t2 EXCEPT !.vaddr_bitmap = @ \cup {v}]

\* What the step leaves, whatever frame the table is in
LEMMA PutTask ==
  ASSUME NEW p \in Procs, NEW v \in UPages, NEW t \in Task, Ready(p, t, v),
         NEW m, NEW m2, NEW t2, NEW f, NEW tb, PutUnder(m, t, v, m2, t2, f, tb),
         NEW t3, WithBit(t3, t2, v)
  PROVE  /\ t3 \in Task /\ t3.pde = t2.pde /\ t3.pte = t2.pte
         /\ t3.vaddr_bitmap = t.vaddr_bitmap \cup {v} /\ t3.heap = t.heap
         /\ t3.status = "running" /\ t3.bits = t.bits /\ t3.pcb = t.pcb
         /\ t3.pgdir = t.pgdir
         /\ TaskOK(t3)
<1>1. /\ t2 \in Task /\ f \in UFrames
      /\ t2.pte = [t.pte EXCEPT ![v] = [frame |-> f, present |-> TRUE]]
      /\ t2 = [t EXCEPT !.pde = t2.pde, !.pte = t2.pte]
  BY DEF PutUnder
<1>2. t.status = "running"
  BY DEF Ready
<1>3. /\ t3 \in Task /\ t3.pde = t2.pde /\ t3.pte = t2.pte
      /\ t3.vaddr_bitmap = t.vaddr_bitmap \cup {v} /\ t3.heap = t.heap
      /\ t3.status = "running" /\ t3.bits = t.bits /\ t3.pcb = t.pcb
      /\ t3.pgdir = t.pgdir
  BY <1>1, <1>2 DEF Task, WithBit
<1>4. TaskOK(t3)
  <2>1. \A w \in UPages : t3.pte[w] = IF w = v THEN [frame |-> f, present |-> TRUE]
                                               ELSE t.pte[w]
    BY <1>1, <1>3 DEF Task
  <2>2. \A w \in UPages : t3.pte[w].present <=> t.pte[w].present \/ w = v
    BY <2>1
  <2>3. t3.vaddr_bitmap = {w \in UPages : t3.pte[w].present}
    BY <1>3, <2>2 DEF Ready
  <2>4. \A w \in UPages : t3.pte[w].present => t3.pte[w].frame # NoFrame
    BY <1>1, <2>1, FramesAre DEF Ready
  <2> QED
    BY <1>3, <2>3, <2>4 DEF TaskOK, Ready
<1> QED
  BY <1>3, <1>4

LEMMA MappedStep ==
  ASSUME IInv, Up, NEW p \in Procs, NEW v \in UPages, NEW t \in Task, Ready(p, t, v),
         NEW t2, NEW f, NEW tb, Mapped(mem, t, v, mem', t2, f, tb),
         task' = [task EXCEPT ![p] = [t2 EXCEPT !.vaddr_bitmap = @ \cup {v}]],
         raced' \in BOOLEAN, raced' \/ tb # main.frame,
         UNCHANGED <<kheap, main, exits, stale, panic>>
  PROVE  IInv'
<1>1. /\ mem \in Memory /\ task \in [Procs -> Task] /\ KernelOK(mem, task)
      /\ ~raced /\ stale \in BOOLEAN /\ (stale \/ UserOK(mem, task))
      /\ kheap \subseteq KPages /\ MainOK
      /\ \A q \in Procs : TaskOK(task[q])
  BY UpState
<1>2. /\ t.pde = task[p].pde /\ t.pte = task[p].pte
      /\ t.status = "running" /\ task[p].status \in {"ready", "running"}
      /\ t.bits = task[p].bits /\ t.pcb = task[p].pcb /\ t.pgdir = task[p].pgdir
  BY DEF Ready
<1>3. PICK T : T = [task EXCEPT ![p] = t]
  OBVIOUS
<1>4. PICK k \in Tables : k = v \div PerTable
  BY TablesAre
<1>5. T \in [Procs -> Task] /\ T[p] = t /\ SameEntries(task, T)
  BY <1>1, <1>2, <1>3 DEF SameEntries
<1>6. KernelOK(mem, T) /\ (UserOK(mem, task) => UserOK(mem, T))
  BY <1>1, <1>5, EntriesCount
<1>7. /\ mem' \in Memory /\ t2 \in Task /\ f \in UFrames \ mem.pool /\ tb \in KFrames
      /\ \/ t.pde[k] # NoFrame /\ tb = t.pde[k]
         \/ t.pde[k] = NoFrame /\ tb \notin mem.pool
      /\ mem'.pool = mem.pool \cup {f, tb}
      /\ mem'.kmap = mem.kmap /\ mem'.kvaddr = mem.kvaddr
      /\ t2.pde = [t.pde EXCEPT ![k] = tb]
      /\ t2.pte = [t.pte EXCEPT ![v] = [frame |-> f, present |-> TRUE]]
      /\ t2 = [t EXCEPT !.pde = t2.pde, !.pte = t2.pte]
  BY <1>4 DEF Mapped
<1>8. PICK t3 : WithBit(t3, t2, v)
  BY DEF WithBit
<1>9. /\ t3 \in Task /\ t3.pde = t2.pde /\ t3.pte = t2.pte
      /\ t3.vaddr_bitmap = t.vaddr_bitmap \cup {v} /\ t3.heap = t.heap
      /\ t3.status = "running" /\ t3.bits = t.bits /\ t3.pcb = t.pcb
      /\ t3.pgdir = t.pgdir
      /\ TaskOK(t3)
  <2>1. PICK m2 : m2 = mem'
    OBVIOUS
  <2>2. Mapped(mem, t, v, m2, t2, f, tb)
    BY <2>1
  <2>3. PutUnder(mem, t, v, m2, t2, f, tb)
    BY <2>2 DEF PutUnder, Mapped
  <2> QED
    BY <1>8, <2>3, PutTask
<1>10. PICK T2 : T2 = [T EXCEPT ![p] = t2]
  OBVIOUS
<1>11. KernelOK(mem', T2) /\ (UserOK(mem, T) => UserOK(mem', T2))
  <2>1. PICK m2 : m2 = mem'
    OBVIOUS
  <2>2. Mapped(mem, T[p], v, m2, t2, f, tb)
    BY <1>5, <2>1
  <2>3. KernelOK(m2, T2) /\ (UserOK(mem, T) => UserOK(m2, T2))
    BY <1>1, <1>5, <1>6, <1>10, <2>2, MappedIsOwned
  <2> QED
    BY <2>1, <2>3
<1>12. task' = [task EXCEPT ![p] = t3]
  BY <1>8 DEF WithBit
<1>13. SameEntries(T2, task')
  BY <1>1, <1>3, <1>5, <1>9, <1>10, <1>12 DEF SameEntries
<1>14. KernelOK(mem', task') /\ (UserOK(mem, task) => UserOK(mem', task'))
  BY <1>6, <1>11, <1>13, EntriesCount
<1>15. task' \in [Procs -> Task] /\ \A q \in Procs : TaskOK(task'[q])
  BY <1>1, <1>9, <1>12
<1>16. PagesTypeOK' /\ stale' = stale
  BY <1>1, <1>7, <1>15 DEF IInv, PagesTypeOK
<1>17. raced' \/ MainOK'
  BY <1>1, <1>7, FramesAre DEF MainOK
<1>18. Owned(mem', task', kheap', main', exits')
  <2>1. PICK O : O = Held(kheap, main)
    OBVIOUS
  <2>2. PICK M : M = MainPage(main)
    OBVIOUS
  <2>3. /\ OwnersOK(mem, task, O) /\ LostCount(mem, task, O, exits)
        /\ UsedIsMapped(mem, M) /\ PoolIsUsed(mem, task)
        /\ kheap \cap M = {} /\ M \subseteq mem.kvaddr
    BY <2>1, <2>2, OwnedParts
  <2>4. PICK m2 : m2 = mem'
    OBVIOUS
  <2>5. PICK T3 : T3 = task'
    OBVIOUS
  <2>6. T3[p] = t3 /\ \A q \in Procs : q # p => T3[q] = task[q]
    BY <1>1, <1>12, <2>5
  <2>7. SamePages(task, T3)
    BY <1>2, <1>9, <2>6 DEF SamePages, Places, PageAt
  <2>8. OwnersOK(m2, T3, O) /\ LostCount(m2, T3, O, exits)
    <3>1. m2.kvaddr = mem.kvaddr
      BY <1>7, <2>4
    <3> QED
      BY <2>3, <2>7, <3>1, TasksStay
  <2>9. UsedIsMapped(m2, M)
    BY <1>7, <2>3, <2>4 DEF UsedIsMapped
  <2>10. \A q \in Procs, l \in Tables :
            T3[q].pde[l] = IF q = p /\ l = k THEN tb ELSE task[q].pde[l]
    <3>1. \A l \in Tables : t3.pde[l] = IF l = k THEN tb ELSE t.pde[l]
      BY <1>7, <1>9 DEF Task
    <3> QED
      BY <1>2, <2>6, <3>1
  <2>11. PoolIsUsed(m2, T3)
    <3>1. ASSUME NEW g \in KFrames \cap m2.pool
          PROVE  \/ \E j \in KPages : m2.kmap[j] = g
                 \/ \E q \in Procs, l \in Tables : T3[q].pde[l] = g
      <4>1. g = tb \/ g \in mem.pool
        BY <1>7, <2>4, FramesAre
      <4>2. CASE g = tb
        BY <2>10, <4>2
      <4>3. CASE g \in mem.pool /\ g # tb
        <5>1. \/ \E j \in KPages : mem.kmap[j] = g
              \/ \E q \in Procs, l \in Tables : task[q].pde[l] = g
          BY <2>3, <4>3 DEF PoolIsUsed
        <5>2. ASSUME NEW q \in Procs, NEW l \in Tables, task[q].pde[l] = g
              PROVE  T3[q].pde[l] = g
          <6>1. g # NoFrame
            BY FramesAre
          <6>2. ~(q = p /\ l = k)
            BY <1>2, <1>7, <4>3, <5>2, <6>1
          <6> QED
            BY <2>10, <5>2, <6>2
        <5> QED
          BY <1>7, <2>4, <5>1, <5>2
      <4> QED
        BY <4>1, <4>2, <4>3
    <3> QED
      BY <3>1 DEF PoolIsUsed
  <2>12. kheap' = kheap /\ main' = main /\ exits' = exits
    OBVIOUS
  <2> QED
    BY <2>1, <2>2, <2>3, <2>4, <2>5, <2>8, <2>9, <2>11, <2>12, OwnedAgain
<1> QED
  BY <1>1, <1>14, <1>15, <1>16, <1>17, <1>18, NextState

LEMMA GetAPageStep ==
  ASSUME IInv, Up, NEW p \in Procs, NEW v \in UPages, NEW t \in Task, Ready(p, t, v),
         get_a_page(p, v, t)
  PROVE  IInv'
<1>1. mem \in Memory /\ raced \in BOOLEAN
  BY DEF IInv, PagesTypeOK
<1>2. PICK x : x = MapUser([mem |-> mem, task |-> t], v)
  OBVIOUS
<1>3. PICK k \in Tables : k = v \div PerTable
  BY TablesAre
<1>4. CASE Stop
  BY <1>4, StopStep
<1>5. CASE /\ Room(mem, NewTables(t, {v}), 1)
           /\ mem' = x.mem
           /\ task' = [task EXCEPT ![p] = [x.task EXCEPT !.vaddr_bitmap = @ \cup {v}]]
           /\ raced' = (raced \/ x.task.pde[v \div PerTable] = main.frame)
           /\ UNCHANGED <<kheap, main, exits, stale, panic>>
  <2>1. Cardinality(UFrames \ mem.pool) >= 1
    BY <1>5 DEF Room
  <2>2. ASSUME t.pde[k] = NoFrame PROVE Cardinality(KFrames \ mem.pool) >= 1
    <3>1. PICK N : N = {l \in Tables : t.pde[l] = NoFrame
                                       /\ \E w \in {v} : w \div PerTable = l}
      OBVIOUS
    <3>2. k \in N /\ N \in SUBSET Tables
      BY <1>3, <2>2, <3>1
    <3>3. IsFiniteSet(N) /\ Cardinality(N) \in Nat /\ Cardinality(N) # 0
      BY <3>2, TablesAre, FS_Subset, FS_EmptySet, FS_CardinalityType
    <3>4. Cardinality(KFrames \ mem.pool) >= Cardinality(N)
      BY <1>5, <3>1 DEF Room, NewTables
    <3>5. Cardinality(KFrames \ mem.pool) \in Nat
      BY FreeIsFinite
    <3> QED
      BY <3>3, <3>4, <3>5
  <2>3. PICK f, tb : Mapped(mem, t, v, x.mem, x.task, f, tb)
    BY <1>1, <1>2, <1>3, <2>1, <2>2, MapUserIs
  <2>4. PICK t2 : t2 = x.task
    OBVIOUS
  <2>5. t2.pde[k] = tb
    BY <1>3, <2>3, <2>4 DEF Mapped, Task
  <2>6. /\ Mapped(mem, t, v, mem', t2, f, tb)
        /\ task' = [task EXCEPT ![p] = [t2 EXCEPT !.vaddr_bitmap = @ \cup {v}]]
        /\ raced' \in BOOLEAN
        /\ UNCHANGED <<kheap, main, exits, stale, panic>>
    BY <1>5, <2>3, <2>4
  <2>7. raced' \/ tb # main.frame
    BY <1>3, <1>5, <2>4, <2>5
  <2> QED
    BY <2>6, <2>7, MappedStep
<1> QED
  BY <1>2, <1>4, <1>5 DEF get_a_page

(***************************************************************************)
(* start_process finds a frame for its first page table...                 *)
(***************************************************************************)
LEMMA StartProcessStep ==
  ASSUME IInv, NEW p \in Procs, start_process(p)
  PROVE  IInv'
<1>1. Up /\ task[p].status = "ready"
  BY DEF start_process
<1>2. /\ mem \in Memory /\ task \in [Procs -> Task] /\ KernelOK(mem, task)
      /\ ~raced /\ stale \in BOOLEAN /\ (stale \/ UserOK(mem, task))
      /\ kheap \subseteq KPages /\ MainOK
      /\ \A q \in Procs : TaskOK(task[q])
  BY <1>1, UpState
<1>3. CASE Stop
  BY <1>3, StopStep
<1>4. CASE /\ Room(mem, 1, 1)
           /\ task' = [task EXCEPT ![p].found = palloc(mem, KFrames)]
           /\ UNCHANGED <<mem, kheap, main, hist, panic>>
  <2>1. PICK f \in KFrames : f = palloc(mem, KFrames)
    BY <1>2, <1>4, PallocIs DEF Room
  <2>2. PICK t : t = [task[p] EXCEPT !.found = f]
    OBVIOUS
  <2>3. /\ t \in Task /\ t.pde = task[p].pde /\ t.pte = task[p].pte
        /\ t.vaddr_bitmap = task[p].vaddr_bitmap /\ t.heap = task[p].heap
        /\ t.bits = task[p].bits /\ t.pcb = task[p].pcb /\ t.pgdir = task[p].pgdir
        /\ t.status = task[p].status
    BY <1>2, <2>1, <2>2 DEF Task
  <2>4. TaskOK(t)
    BY <1>2, <2>3 DEF TaskOK
  <2>5. task' = [task EXCEPT ![p] = t]
    BY <1>2, <1>4, <2>1, <2>2
  <2>6. task' \in [Procs -> Task] /\ \A q \in Procs : TaskOK(task'[q])
    BY <1>2, <2>3, <2>4, <2>5
  <2>7. SameEntries(task, task')
    BY <1>2, <2>3, <2>5 DEF SameEntries
  <2>8. KernelOK(mem', task') /\ (UserOK(mem, task) => UserOK(mem', task'))
    BY <1>2, <1>4, <2>7, EntriesCount
  <2>9. PagesTypeOK' /\ MainOK' /\ ~raced' /\ stale' = stale
    BY <1>2, <1>4, <2>6 DEF IInv, PagesTypeOK, MainOK, hist
  <2>10. Owned(mem', task', kheap', main', exits')
    <3>1. PICK O : O = Held(kheap, main)
      OBVIOUS
    <3>2. PICK M : M = MainPage(main)
      OBVIOUS
    <3>3. /\ OwnersOK(mem, task, O) /\ LostCount(mem, task, O, exits)
          /\ UsedIsMapped(mem, M) /\ PoolIsUsed(mem, task)
          /\ kheap \cap M = {} /\ M \subseteq mem.kvaddr
      BY <1>1, <3>1, <3>2, OwnedParts
    <3>4. PICK T2 : T2 = task'
      OBVIOUS
    <3>5. T2[p] = t /\ \A q \in Procs : q # p => T2[q] = task[q]
      BY <1>2, <2>5, <3>4
    <3>6. SamePages(task, T2)
      BY <2>3, <3>5 DEF SamePages, Places, PageAt
    <3>7. OwnersOK(mem, T2, O) /\ LostCount(mem, T2, O, exits)
      BY <3>3, <3>6, TasksStay
    <3>8. PoolIsUsed(mem, T2)
      BY <2>7, <3>3, <3>4, TablesUsed
    <3>9. mem' = mem /\ kheap' = kheap /\ main' = main /\ exits' = exits
      BY <1>4 DEF hist
    <3> QED
      BY <3>1, <3>2, <3>3, <3>4, <3>7, <3>8, <3>9, OwnedAgain
  <2> QED
    BY <1>2, <2>6, <2>8, <2>9, <2>10, NextState
<1> QED
  BY <1>3, <1>4 DEF start_process

(***************************************************************************)
(* ... and takes it: it is still free, or main has it or is taking it.     *)
(***************************************************************************)
LEMMA StartProcessSetsStep ==
  ASSUME IInv, NEW p \in Procs, start_process_sets(p)
  PROVE  IInv'
<1>1. Up /\ task[p].status = "ready" /\ task[p].found # NoFrame
  BY DEF start_process_sets
<1>2. /\ mem \in Memory /\ task \in [Procs -> Task] /\ ~raced /\ stale \in BOOLEAN
      /\ kheap \subseteq KPages
      /\ \A q \in Procs : TaskOK(task[q]) /\ task[q] \in Task
  BY <1>1, UpState
<1>3. PICK tb \in KFrames : tb = task[p].found
  BY <1>1, <1>2 DEF Task
<1>4. PICK t : t = [task[p] EXCEPT !.status = "running", !.found = NoFrame]
  OBVIOUS
<1>5. PICK x : x = MapUnder([mem |-> mem, task |-> t], Stack, tb)
  OBVIOUS
<1>6. /\ t \in Task /\ t.pde = task[p].pde /\ t.pte = task[p].pte
      /\ t.vaddr_bitmap = task[p].vaddr_bitmap /\ t.heap = task[p].heap
      /\ t.bits = task[p].bits /\ t.pcb = task[p].pcb /\ t.pgdir = task[p].pgdir
      /\ t.status = "running"
  BY <1>2, <1>4 DEF Task
<1>7. Stack \in UPages
  BY ConstantsAre DEF Stack, UPages
<1>8. Ready(p, t, Stack) /\ \A k \in Tables : t.pde[k] = NoFrame
  BY <1>1, <1>2, <1>6 DEF Ready, TaskOK
<1>9. CASE Stop
  BY <1>9, StopStep
<1>10. CASE /\ Room(mem, 0, 1)
            /\ mem' = x.mem
            /\ task' = [task EXCEPT ![p] = [x.task EXCEPT !.vaddr_bitmap = @ \cup {Stack}]]
            /\ raced' = (raced \/ tb \in mem.pool \/ tb = main.frame)
            /\ UNCHANGED <<kheap, main, exits, stale, panic>>
  <2>1. PICK f : PutUnder(mem, t, Stack, x.mem, x.task, f, tb)
    BY <1>2, <1>5, <1>6, <1>7, <1>10, MapUnderIs DEF Room
  <2>2. PICK t2 : t2 = x.task
    OBVIOUS
  <2>3. /\ PutUnder(mem, t, Stack, mem', t2, f, tb)
        /\ task' = [task EXCEPT ![p] = [t2 EXCEPT !.vaddr_bitmap = @ \cup {Stack}]]
        /\ raced' \in BOOLEAN
        /\ UNCHANGED <<kheap, main, exits, stale, panic>>
    BY <1>10, <2>1, <2>2
  <2>4. CASE tb \notin mem.pool
    <3>1. Stack \div PerTable \in Tables
      BY <1>7, TablesAre
    <3>2. Mapped(mem, t, Stack, mem', t2, f, tb)
      BY <1>8, <2>3, <2>4, <3>1 DEF PutUnder, Mapped
    <3>3. raced' \/ tb # main.frame
      BY <1>10
    <3> QED
      BY <1>1, <1>6, <1>7, <1>8, <2>3, <3>2, <3>3, MappedStep
  <2>5. CASE tb \in mem.pool
    <3>1. raced'
      BY <1>10, <2>5
    <3>2. PICK t3 : WithBit(t3, t2, Stack)
      BY DEF WithBit
    <3>3. t3 \in Task /\ TaskOK(t3)
      BY <1>6, <1>7, <1>8, <2>3, <3>2, PutTask
    <3>4. task' \in [Procs -> Task] /\ \A q \in Procs : TaskOK(task'[q])
      BY <1>2, <2>3, <3>2, <3>3 DEF WithBit
    <3>5. mem' \in Memory
      BY <2>3 DEF PutUnder
    <3>6. PagesTypeOK'
      BY <2>3, <3>4, <3>5 DEF IInv, PagesTypeOK
    <3> QED
      BY <3>1, <3>4, <3>6, NextState
  <2> QED
    BY <2>4, <2>5
<1> QED
  BY <1>3, <1>4, <1>5, <1>9, <1>10 DEF start_process_sets

LEMMA MallocPageStep ==
  ASSUME IInv, NEW p \in Procs, malloc_page(p)
  PROVE  IInv'
<1>1. PICK v : v = Lowest(UPages \ task[p].vaddr_bitmap)
  OBVIOUS
<1>2. PICK t : t = [task[p] EXCEPT !.heap = @ \cup {v}]
  OBVIOUS
<1>3. Up /\ task[p].status = "running" /\ get_a_page(p, v, t)
  BY <1>1, <1>2 DEF malloc_page, Running
<1>4. task[p] \in Task /\ TaskOK(task[p])
  BY <1>3, UpState
<1>5. v \in UPages
  <2>1. UPages \ task[p].vaddr_bitmap # {} /\ UPages \ task[p].vaddr_bitmap \subseteq Nat
    BY FramesAre DEF malloc_page
  <2> QED
    BY <1>1, <2>1, LowestIs
<1>6. /\ t \in Task /\ t.pde = task[p].pde /\ t.pte = task[p].pte
      /\ t.vaddr_bitmap = task[p].vaddr_bitmap /\ t.heap = task[p].heap \cup {v}
      /\ t.bits = task[p].bits /\ t.pcb = task[p].pcb /\ t.pgdir = task[p].pgdir
      /\ t.status = "running"
  BY <1>2, <1>3, <1>4, <1>5 DEF Task
<1>7. Ready(p, t, v)
  BY <1>3, <1>4, <1>6 DEF Ready, TaskOK
<1> QED
  BY <1>3, <1>5, <1>6, <1>7, GetAPageStep

LEMMA MfreePageStep ==
  ASSUME IInv, NEW p \in Procs, NEW v \in UPages, mfree_page(p, v)
  PROVE  IInv'
<1>1. /\ Up /\ v \in task[p].heap
      /\ mem' = [mem EXCEPT !.pool = @ \ {task[p].pte[v].frame}]
      /\ UNCHANGED <<kheap, main, hist, panic>>
  BY DEF mfree_page, Running
<1>2. /\ mem \in Memory /\ task \in [Procs -> Task] /\ KernelOK(mem, task)
      /\ ~raced /\ stale \in BOOLEAN /\ (stale \/ UserOK(mem, task))
      /\ kheap \subseteq KPages /\ MainOK
      /\ \A q \in Procs : TaskOK(task[q]) /\ task[q] \in Task
  BY <1>1, UpState
<1>3. PICK t2 : t2 = [task[p] EXCEPT !.pte[v].present = FALSE,
                                     !.vaddr_bitmap = @ \ {v}, !.heap = @ \ {v}]
  OBVIOUS
<1>4. task' = [task EXCEPT ![p] = t2]
  BY <1>2, <1>3 DEF mfree_page
<1>5. PICK e : e = [task[p].pte[v] EXCEPT !.present = FALSE]
  OBVIOUS
<1>6. task[p].pte[v] \in Entry /\ task[p].pte \in [UPages -> Entry]
  BY <1>2 DEF Task
<1>7. e \in Entry /\ ~e.present
  BY <1>5, <1>6 DEF Entry
<1>8. /\ t2 \in Task /\ t2.pde = task[p].pde
      /\ t2.pte = [task[p].pte EXCEPT ![v] = e]
      /\ t2.vaddr_bitmap = task[p].vaddr_bitmap \ {v} /\ t2.heap = task[p].heap \ {v}
      /\ t2.bits = task[p].bits /\ t2.pcb = task[p].pcb /\ t2.pgdir = task[p].pgdir
      /\ t2.status = task[p].status
  <2>1. t2 = [task[p] EXCEPT !.pte = [task[p].pte EXCEPT ![v] = e],
                             !.vaddr_bitmap = @ \ {v}, !.heap = @ \ {v}]
    BY <1>2, <1>3, <1>5 DEF Task
  <2> QED
    BY <1>2, <1>7, <2>1 DEF Task
<1>9. \A w \in UPages : t2.pte[w] = IF w = v THEN e ELSE task[p].pte[w]
  BY <1>6, <1>8
<1>10. PICK fr : fr = task[p].pte[v].frame
  OBVIOUS
<1>11. /\ task[p].pte[v].present /\ fr \in UFrames /\ task[p].status = "running"
  <2>1. task[p].pte[v].present
    BY <1>1, <1>2 DEF TaskOK
  <2>2. fr # NoFrame /\ fr \in UFrames \cup {NoFrame}
    BY <1>2, <1>6, <1>10, <2>1 DEF TaskOK, Entry
  <2> QED
    BY <2>1, <2>2 DEF mfree_page, Running
<1>12. TaskOK(t2)
  <2>1. TaskOK(task[p])
    BY <1>2
  <2>2. t2.vaddr_bitmap = {w \in UPages : t2.pte[w].present}
    BY <1>7, <1>8, <1>9, <2>1 DEF TaskOK
  <2>3. \A w \in UPages : t2.pte[w].present => t2.pte[w].frame # NoFrame
    BY <1>7, <1>9, <2>1 DEF TaskOK
  <2> QED
    BY <1>8, <1>11, <2>1, <2>2, <2>3 DEF TaskOK
<1>13. /\ mem' \in Memory /\ mem'.pool = mem.pool \ {fr} /\ mem'.kmap = mem.kmap
  BY <1>1, <1>2, <1>10 DEF Memory
<1>14. \A q \in Procs, k \in Tables : task'[q].pde[k] = task[q].pde[k]
  BY <1>2, <1>4, <1>8
<1>15. \A q \in Procs, k \in Tables : task[q].pde[k] \in KFrames \cup {NoFrame}
  BY <1>2 DEF Task
<1>16. KernelOK(mem', task')
  <2>1. \A k \in KPages : mem.kmap[k] \in KFrames \cup {NoFrame}
    BY <1>2 DEF Memory
  <2>2. MapOK(mem')
    BY <1>2, <1>11, <1>13, <2>1, FramesAre DEF KernelOK, MapOK
  <2>3. TablesOK(mem', task')
    BY <1>2, <1>11, <1>13, <1>14, <1>15, FramesAre DEF KernelOK, TablesOK
  <2> QED
    BY <2>2, <2>3 DEF KernelOK
<1>17. UserOK(mem, task) => UserOK(mem', task')
  <2> SUFFICES ASSUME UserOK(mem, task) PROVE UserOK(mem', task')
    OBVIOUS
  <2>1. \A q \in Procs, w \in UPages :
           task'[q].pte[w] = IF q = p /\ w = v THEN e ELSE task[q].pte[w]
    BY <1>2, <1>4, <1>9
  <2>2. ASSUME NEW q \in Procs, NEW w \in UPages, task'[q].pte[w].present
        PROVE  /\ task'[q].pte[w] = task[q].pte[w] /\ task[q].pte[w].present
               /\ task[q].pte[w].frame \in mem'.pool
    <3>1. ~(q = p /\ w = v) /\ task'[q].pte[w] = task[q].pte[w]
      BY <1>7, <2>1, <2>2
    <3>2. task[q].pte[w].frame # fr /\ task[q].pte[w].frame \in mem.pool
      BY <1>10, <1>11, <2>2, <3>1 DEF UserOK
    <3> QED
      BY <1>13, <2>2, <3>1, <3>2
  <2>3. ASSUME NEW q \in Procs, NEW r \in Procs, NEW w \in UPages, NEW x \in UPages,
               task'[q].pte[w].present, task'[r].pte[x].present,
               task'[q].pte[w].frame = task'[r].pte[x].frame
        PROVE  q = r /\ w = x
    <3>1. /\ task'[q].pte[w] = task[q].pte[w] /\ task'[r].pte[x] = task[r].pte[x]
          /\ task[q].pte[w].present /\ task[r].pte[x].present
      BY <2>2, <2>3
    <3> QED
      BY <2>3, <3>1 DEF UserOK
  <2>4. ASSUME NEW q \in Procs, NEW w \in UPages, task'[q].pte[w].present
        PROVE  task'[q].pte[w].frame \in mem'.pool
    BY <2>2, <2>4
  <2> QED
    BY <2>3, <2>4 DEF UserOK
<1>18. task' \in [Procs -> Task] /\ \A q \in Procs : TaskOK(task'[q])
  BY <1>2, <1>4, <1>8, <1>12
<1>19. PagesTypeOK' /\ MainOK' /\ ~raced' /\ stale' = stale
  BY <1>1, <1>2, <1>13, <1>18 DEF IInv, PagesTypeOK, MainOK, hist
<1>20. Owned(mem', task', kheap', main', exits')
  <2>1. PICK O : O = Held(kheap, main)
    OBVIOUS
  <2>2. PICK M : M = MainPage(main)
    OBVIOUS
  <2>3. /\ OwnersOK(mem, task, O) /\ LostCount(mem, task, O, exits)
        /\ UsedIsMapped(mem, M) /\ PoolIsUsed(mem, task)
        /\ kheap \cap M = {} /\ M \subseteq mem.kvaddr
    BY <1>1, <2>1, <2>2, OwnedParts
  <2>4. PICK m2 : m2 = mem'
    OBVIOUS
  <2>5. PICK T2 : T2 = task'
    OBVIOUS
  <2>6. /\ m2.kvaddr = mem.kvaddr /\ m2.kmap = mem.kmap /\ m2.pool \subseteq mem.pool
    BY <1>1, <1>2, <1>13, <2>4 DEF Memory
  <2>7. SamePages(task, T2)
    <3>1. T2[p] = t2 /\ \A q \in Procs : q # p => T2[q] = task[q]
      BY <1>2, <1>4, <2>5
    <3> QED
      BY <1>8, <3>1 DEF SamePages, Places, PageAt
  <2>8. OwnersOK(m2, T2, O) /\ LostCount(m2, T2, O, exits)
    BY <2>3, <2>6, <2>7, TasksStay
  <2>9. UsedIsMapped(m2, M) /\ PoolIsUsed(m2, T2)
    BY <1>14, <2>3, <2>5, <2>6 DEF UsedIsMapped, PoolIsUsed
  <2>10. kheap' = kheap /\ main' = main /\ exits' = exits
    BY <1>1 DEF hist
  <2> QED
    BY <2>1, <2>2, <2>3, <2>4, <2>5, <2>8, <2>9, <2>10, OwnedAgain
<1> QED
  BY <1>2, <1>16, <1>17, <1>18, <1>19, <1>20, NextState

(***************************************************************************)
(* Steps that change the kernel's memory and no task.                      *)
(***************************************************************************)
LEMMA KernelStep ==
  ASSUME IInv, Up, mem' \in Memory, KernelOK(mem', task),
         UserOK(mem, task) => UserOK(mem', task),
         kheap' \subseteq KPages, MainOK',
         main' \in [frame : KFrames \cup {NoFrame}, page : 0..NK],
         UNCHANGED <<task, hist>>,
         Owned(mem', task, kheap', main', exits)
  PROVE  IInv'
<1>1. /\ task' = task /\ exits' = exits /\ ~raced' /\ stale' = stale /\ PagesTypeOK'
      /\ stale \/ UserOK(mem, task)
      /\ \A p \in Procs : TaskOK(task[p])
  BY UpState DEF IInv, PagesTypeOK, hist
<1> QED
  BY <1>1, NextState

LEMMA KernelMallocStep ==
  ASSUME IInv, kernel_malloc
  PROVE  IInv'
<1>1. Up /\ main = Idle
  BY DEF kernel_malloc, PoolUnlocked
<1>2. PICK a : a = get_kernel_pages(mem, 1)
  OBVIOUS
<1>3. CASE Stop
  BY <1>3, StopStep
<1>4. CASE /\ Room(mem, 1, 0) /\ Runs(mem, 1) # {}
           /\ mem' = a.mem /\ kheap' = kheap \cup {a.addr}
           /\ UNCHANGED <<task, main, hist, panic>>
  <2>1. mem \in Memory /\ KernelOK(mem, task) /\ kheap \subseteq KPages
    BY <1>1, UpState
  <2>2. Cardinality(KFrames \ mem.pool) >= 1
    BY <1>4 DEF Room
  <2>3. a.addr \in KPages /\ Grown(mem, a.mem, task, 1) /\ Takes(mem, a.mem, {a.addr})
    <3>1. Cardinality(KPages \ mem.kvaddr) >= 1
      <4>1. PICK k \in Runs(mem, 1) : TRUE
        BY <1>4
      <4>2. k \in KPages /\ k \in k..(k + 1 - 1) /\ k..(k + 1 - 1) \cap mem.kvaddr = {}
        <5>1. k \in KPages /\ k..(k + 1 - 1) \cap mem.kvaddr = {}
          BY <4>1 DEF Runs
        <5>2. k \in Nat
          BY <5>1, FramesAre
        <5>3. k \in k..(k + 1 - 1)
          BY <5>2
        <5> QED
          BY <5>1, <5>3
      <4>3. PICK S : S = KPages \ mem.kvaddr
        OBVIOUS
      <4>4. S # {} /\ IsFiniteSet(S) /\ Cardinality(S) \in Nat
        BY <4>2, <4>3, FreeIsFinite
      <4>5. Cardinality(S) >= 1
        BY <4>4, FS_EmptySet
      <4> QED
        BY <4>3, <4>5
    <3> QED
      BY <1>2, <2>1, <2>2, <3>1, GetOnePage
  <2>4. /\ MainOK' /\ main' \in [frame : KFrames \cup {NoFrame}, page : 0..NK]
        /\ kheap' \subseteq KPages
    BY <1>1, <1>4, <2>1, <2>3 DEF MainOK, Idle, IInv, PagesTypeOK
  <2>5. Owned(mem', task, kheap', main', exits)
    <3>1. PICK O : O = Held(kheap, main)
      OBVIOUS
    <3>2. PICK M : M = MainPage(main)
      OBVIOUS
    <3>3. /\ OwnersOK(mem, task, O) /\ LostCount(mem, task, O, exits)
          /\ UsedIsMapped(mem, M) /\ PoolIsUsed(mem, task)
          /\ kheap \cap M = {} /\ M \subseteq mem.kvaddr
      BY <1>1, <3>1, <3>2, OwnedParts
    <3>4. PICK m2 : m2 = mem'
      OBVIOUS
    <3>5. PICK k : k = a.addr
      OBVIOUS
    <3>6. Takes(mem, m2, {k})
      BY <1>4, <2>3, <3>4, <3>5
    <3>7. k \notin mem.kvaddr /\ m2.kvaddr = mem.kvaddr \cup {k}
      BY <3>6 DEF Takes
    <3>8. OwnersOK(m2, task, O \cup {k}) /\ LostCount(m2, task, O \cup {k}, exits)
      BY <3>3, <3>7, HoldMore
    <3>9. UsedIsMapped(m2, M) /\ PoolIsUsed(m2, task)
      BY <3>3, <3>6, TakesUsed
    <3>10. /\ main' = main /\ Held(kheap', main) = O \cup {k}
           /\ kheap' \cap M = {} /\ MainPage(main) = M
      BY <1>1, <1>4, <3>1, <3>2, <3>3, <3>5 DEF Held, MainPage
    <3> QED
      BY <3>4, <3>8, <3>9, <3>10, OwnedAgain
  <2> QED
    BY <1>1, <1>4, <2>3, <2>4, <2>5, KernelStep DEF Grown
<1> QED
  BY <1>2, <1>3, <1>4 DEF kernel_malloc

LEMMA KernelFreeStep ==
  ASSUME IInv, NEW k \in kheap, kernel_free(k)
  PROVE  IInv'
<1>1. /\ Up /\ main = Idle /\ mem' = mfree_kernel(mem, k, 1) /\ kheap' = kheap \ {k}
      /\ UNCHANGED <<task, main, hist, panic>>
  BY DEF kernel_free, PoolUnlocked
<1>2. /\ mem \in Memory /\ KernelOK(mem, task) /\ kheap \subseteq KPages /\ MainOK
      /\ task \in [Procs -> Task]
  BY <1>1, UpState
<1>3. k \in KPages
  BY <1>2
<1>4. PICK m2 : m2 = mem'
  OBVIOUS
<1>5. /\ m2 \in Memory /\ KernelOK(m2, task) /\ (UserOK(mem, task) => UserOK(m2, task))
      /\ m2.pool \subseteq mem.pool /\ Frees(mem, m2, {k})
  BY <1>1, <1>2, <1>3, <1>4, MfreeOne
<1>6. /\ MainOK' /\ main' \in [frame : KFrames \cup {NoFrame}, page : 0..NK]
      /\ kheap' \subseteq KPages
  BY <1>1, <1>2, <1>4, <1>5 DEF MainOK, IInv, PagesTypeOK
<1>7. Owned(mem', task, kheap', main', exits)
  <2>1. PICK O : O = Held(kheap, main)
    OBVIOUS
  <2>2. PICK M : M = MainPage(main)
    OBVIOUS
  <2>3. /\ OwnersOK(mem, task, O) /\ LostCount(mem, task, O, exits)
        /\ UsedIsMapped(mem, M) /\ PoolIsUsed(mem, task)
        /\ kheap \cap M = {} /\ M \subseteq mem.kvaddr
    BY <1>1, <2>1, <2>2, OwnedParts
  <2>4. k \in O /\ m2.kvaddr = mem.kvaddr \ {k}
    BY <1>5, <2>1 DEF Held, Frees
  <2>5. OwnersOK(m2, task, O \ {k}) /\ LostCount(m2, task, O \ {k}, exits)
    BY <2>3, <2>4, HoldLess
  <2>6. UsedIsMapped(m2, M) /\ PoolIsUsed(m2, task)
    BY <1>5, <2>3, FreesUsed
  <2>7. /\ main' = main /\ Held(kheap', main) = O \ {k}
        /\ kheap' \cap M = {} /\ MainPage(main) = M
    BY <1>1, <2>1, <2>2, <2>3 DEF Held, MainPage
  <2> QED
    BY <1>4, <2>5, <2>6, <2>7, OwnedAgain
<1> QED
  BY <1>1, <1>4, <1>5, <1>6, <1>7, KernelStep

LEMMA MainScansStep ==
  ASSUME IInv, main_scans
  PROVE  IInv'
<1>1. /\ Up /\ Room(mem, 1, 0) /\ Runs(mem, 1) # {} /\ main = Idle
      /\ main' = [frame |-> palloc(mem, KFrames), page |-> vaddr_get(mem, 1)]
      /\ mem' = [mem EXCEPT !.kvaddr = @ \cup {vaddr_get(mem, 1)}]
      /\ UNCHANGED <<task, kheap, hist, panic>>
  BY DEF main_scans, PoolUnlocked
<1>2. mem \in Memory /\ KernelOK(mem, task) /\ kheap \subseteq KPages
  BY <1>1, UpState
<1>3. palloc(mem, KFrames) \in KFrames \ mem.pool
  BY <1>1, PallocIs DEF Room
<1>4. vaddr_get(mem, 1) \in KPages /\ vaddr_get(mem, 1) \notin mem.kvaddr
  <2>1. Runs(mem, 1) \subseteq Nat /\ Runs(mem, 1) \subseteq KPages
    BY FramesAre DEF Runs
  <2>2. ASSUME NEW k \in Runs(mem, 1) PROVE k \notin mem.kvaddr
    BY FramesAre DEF Runs
  <2> QED
    BY <1>1, <2>1, <2>2, LowestIs DEF vaddr_get
<1>5. mem' \in Memory /\ mem'.pool = mem.pool /\ mem'.kmap = mem.kmap
  BY <1>1, <1>2, <1>4 DEF Memory
<1>6. KernelOK(mem', task) /\ (UserOK(mem, task) => UserOK(mem', task))
  BY <1>2, <1>5 DEF KernelOK, MapOK, TablesOK, UserOK
<1>7. /\ MainOK' /\ kheap' \subseteq KPages
      /\ main' \in [frame : KFrames \cup {NoFrame}, page : 0..NK]
  <2>1. vaddr_get(mem, 1) \in 0..NK
    BY <1>4, ConstantsAre DEF KPages
  <2> QED
    BY <1>1, <1>2, <1>3, <1>4, <1>5, <2>1 DEF MainOK
<1>8. Owned(mem', task, kheap', main', exits)
  <2>1. PICK O : O = Held(kheap, main)
    OBVIOUS
  <2>2. PICK M : M = MainPage(main)
    OBVIOUS
  <2>3. /\ OwnersOK(mem, task, O) /\ LostCount(mem, task, O, exits)
        /\ UsedIsMapped(mem, M) /\ PoolIsUsed(mem, task)
        /\ kheap \cap M = {} /\ M \subseteq mem.kvaddr
    BY <1>1, <2>1, <2>2, OwnedParts
  <2>4. PICK k \in KPages : k = vaddr_get(mem, 1)
    BY <1>4
  <2>5. PICK m2 : m2 = mem'
    OBVIOUS
  <2>6. /\ k \notin mem.kvaddr /\ m2.kvaddr = mem.kvaddr \cup {k}
        /\ m2.pool = mem.pool /\ m2.kmap = mem.kmap
    BY <1>1, <1>2, <1>4, <1>5, <2>4, <2>5 DEF Memory
  <2>7. OwnersOK(m2, task, O \cup {k}) /\ LostCount(m2, task, O \cup {k}, exits)
    BY <2>3, <2>6, HoldMore
  <2>8. M = {} /\ MainPage(main') = {k}
    <3>1. main'.frame # NoFrame /\ main'.page = k
      BY <1>1, <1>3, <2>4, FramesAre
    <3> QED
      BY <1>1, <2>2, <3>1 DEF MainPage, Idle
  <2>9. Held(kheap', main') = O \cup {k} /\ kheap' \cap {k} = {}
    <3>1. kheap \subseteq O /\ O \subseteq mem.kvaddr /\ O = kheap
      BY <2>1, <2>2, <2>3, <2>8 DEF Held, OwnersOK
    <3> QED
      BY <1>1, <2>6, <2>8, <3>1 DEF Held
  <2>10. UsedIsMapped(m2, {k}) /\ PoolIsUsed(m2, task)
    BY <2>3, <2>6, <2>8 DEF UsedIsMapped, PoolIsUsed
  <2> QED
    BY <2>5, <2>7, <2>8, <2>9, <2>10, OwnedAgain
<1> QED
  BY <1>1, <1>5, <1>6, <1>7, <1>8, KernelStep

LEMMA MainSetsStep ==
  ASSUME IInv, main_sets
  PROVE  IInv'
<1>1. /\ Up /\ main # Idle
      /\ mem' = [mem EXCEPT !.pool = @ \cup {main.frame},
                            !.kmap[main.page] = main.frame]
      /\ kheap' = kheap \cup {main.page} /\ main' = Idle
      /\ UNCHANGED <<task, hist, panic>>
  BY DEF main_sets, PoolUnlocked
<1>2. /\ mem \in Memory /\ KernelOK(mem, task) /\ kheap \subseteq KPages
      /\ main.frame \in KFrames /\ main.frame \notin mem.pool /\ main.page \in KPages
  BY <1>1, UpState DEF MainOK
<1>3. /\ mem' \in Memory /\ mem'.pool = mem.pool \cup {main.frame}
      /\ mem'.kmap = [mem.kmap EXCEPT ![main.page] = main.frame]
  BY <1>1, <1>2 DEF Memory, Frames
<1>4. \A j \in KPages :
         mem'.kmap[j] = IF j = main.page THEN main.frame ELSE mem.kmap[j]
  BY <1>2, <1>3 DEF Memory
<1>5. MapOK(mem')
  BY <1>2, <1>3, <1>4 DEF KernelOK, MapOK
<1>6. TablesOK(mem', task)
  BY <1>2, <1>3, <1>4 DEF KernelOK, TablesOK
<1>7. UserOK(mem, task) => UserOK(mem', task)
  BY <1>3 DEF UserOK
<1>8. /\ MainOK' /\ kheap' \subseteq KPages
      /\ main' \in [frame : KFrames \cup {NoFrame}, page : 0..NK]
  BY <1>1, <1>2, ConstantsAre DEF MainOK, Idle
<1>9. Owned(mem', task, kheap', main', exits)
  <2>1. PICK O : O = Held(kheap, main)
    OBVIOUS
  <2>2. PICK M : M = MainPage(main)
    OBVIOUS
  <2>3. /\ OwnersOK(mem, task, O) /\ LostCount(mem, task, O, exits)
        /\ UsedIsMapped(mem, M) /\ PoolIsUsed(mem, task)
        /\ kheap \cap M = {} /\ M \subseteq mem.kvaddr
    BY <1>1, <2>1, <2>2, OwnedParts
  <2>4. PICK k \in KPages : k = main.page
    BY <1>2
  <2>5. PICK f \in KFrames : f = main.frame
    BY <1>2
  <2>6. PICK m2 : m2 = mem'
    OBVIOUS
  <2>7. /\ m2.kvaddr = mem.kvaddr /\ m2.pool = mem.pool \cup {f} /\ f # NoFrame
        /\ \A j \in KPages : m2.kmap[j] = IF j = k THEN f ELSE mem.kmap[j]
    BY <1>1, <1>2, <1>3, <1>4, <2>4, <2>5, <2>6, FramesAre DEF Memory
  <2>8. M = {k} /\ O = kheap \cup {k}
    BY <1>1, <2>1, <2>2, <2>4 DEF MainPage, Held
  <2>9. MainPage(main') = {} /\ Held(kheap', main') = O
    BY <1>1, <2>4, <2>8 DEF MainPage, Held
  <2>10. OwnersOK(m2, task, O) /\ LostCount(m2, task, O, exits)
    BY <2>3, <2>7, TasksStay DEF SamePages
  <2>11. UsedIsMapped(m2, {})
    BY <2>3, <2>7, <2>8 DEF UsedIsMapped
  <2>12. ASSUME NEW g \in KFrames \cap m2.pool
         PROVE  \/ \E j \in KPages : m2.kmap[j] = g
                \/ \E p \in Procs, j \in Tables : task[p].pde[j] = g
    <3>1. CASE g = f
      BY <2>7, <3>1
    <3>2. CASE g \in mem.pool
      <4>1. CASE \E p \in Procs, j \in Tables : task[p].pde[j] = g
        BY <4>1
      <4>2. CASE \E j \in KPages : mem.kmap[j] = g
        <5>1. PICK j \in KPages : mem.kmap[j] = g
          BY <4>2
        <5>2. j # k
          BY <2>3, <2>8, <5>1, FramesAre DEF UsedIsMapped
        <5> QED
          BY <2>7, <5>1, <5>2
      <4> QED
        BY <2>3, <3>2, <4>1, <4>2 DEF PoolIsUsed
    <3> QED
      BY <2>7, <3>1, <3>2
  <2>13. PoolIsUsed(m2, task)
    BY <2>12 DEF PoolIsUsed
  <2> QED
    BY <2>6, <2>9, <2>10, <2>11, <2>13, OwnedAgain
<1> QED
  BY <1>1, <1>3, <1>5, <1>6, <1>7, <1>8, <1>9, KernelStep DEF KernelOK

LEMMA ThreadExitStep ==
  ASSUME IInv, NEW p \in Procs, thread_exit(p)
  PROVE  IInv'
<1>1. /\ Up /\ task[p].status = "hanging"
      /\ mem' = mfree_kernel(mfree_kernel(mem, task[p].pgdir, 1), task[p].pcb, 1)
      /\ task' = [task EXCEPT ![p] = NoTask]
      /\ UNCHANGED <<kheap, main, hist, panic>>
  BY DEF thread_exit
<1>2. /\ mem \in Memory /\ task \in [Procs -> Task] /\ KernelOK(mem, task)
      /\ ~raced /\ stale \in BOOLEAN /\ (stale \/ UserOK(mem, task))
      /\ kheap \subseteq KPages /\ MainOK
      /\ \A q \in Procs : TaskOK(task[q]) /\ task[q] \in Task
  BY <1>1, UpState
<1>3. task[p].pgdir \in KPages /\ task[p].pcb \in KPages
  <2>1. /\ task[p].pgdir \in 0..NK /\ task[p].pcb \in 0..NK
        /\ task[p].pgdir >= 1 /\ task[p].pcb >= 1
    BY <1>1, <1>2 DEF Task, TaskOK
  <2> QED
    BY <2>1, ConstantsAre DEF KPages
<1>4. PICK m1 : m1 = mfree_kernel(mem, task[p].pgdir, 1)
  OBVIOUS
<1>5. /\ m1 \in Memory /\ KernelOK(m1, task) /\ (UserOK(mem, task) => UserOK(m1, task))
      /\ m1.pool \subseteq mem.pool /\ Frees(mem, m1, {task[p].pgdir})
  <2>1. PICK k \in KPages : k = task[p].pgdir
    BY <1>3
  <2>2. m1 = mfree_kernel(mem, k, 1)
    BY <1>4, <2>1
  <2>3. /\ m1 \in Memory /\ KernelOK(m1, task) /\ (UserOK(mem, task) => UserOK(m1, task))
        /\ m1.pool \subseteq mem.pool /\ Frees(mem, m1, {k})
    BY <1>2, <2>2, MfreeOne
  <2> QED
    BY <2>1, <2>3
<1>6. PICK m2 : m2 = mfree_kernel(m1, task[p].pcb, 1)
  OBVIOUS
<1>7. /\ m2 \in Memory /\ KernelOK(m2, task) /\ (UserOK(m1, task) => UserOK(m2, task))
      /\ m2.pool \subseteq m1.pool /\ Frees(m1, m2, {task[p].pcb})
  <2>1. PICK k \in KPages : k = task[p].pcb
    BY <1>3
  <2>2. m2 = mfree_kernel(m1, k, 1)
    BY <1>6, <2>1
  <2>3. /\ m2 \in Memory /\ KernelOK(m2, task) /\ (UserOK(m1, task) => UserOK(m2, task))
        /\ m2.pool \subseteq m1.pool /\ Frees(m1, m2, {k})
    BY <1>2, <1>5, <2>2, MfreeOne
  <2> QED
    BY <2>1, <2>3
<1>8. mem' = m2
  BY <1>1, <1>4, <1>6
<1>9. SameEntries(task, task')
  BY <1>1, <1>2, NoEntries DEF SameEntries
<1>10. KernelOK(mem', task') /\ (UserOK(mem, task) => UserOK(mem', task'))
  BY <1>5, <1>7, <1>8, <1>9, EntriesCount
<1>11. TaskOK(NoTask)
  <2>1. \A v \in UPages : ~NoTask.pte[v].present
    BY NoTaskIs DEF Absent
  <2> QED
    BY <2>1, NoTaskIs DEF TaskOK
<1>12. task' \in [Procs -> Task] /\ \A q \in Procs : TaskOK(task'[q])
  BY <1>1, <1>2, <1>11, NoTaskIs
<1>13. PagesTypeOK' /\ MainOK' /\ ~raced' /\ stale' = stale
  BY <1>1, <1>2, <1>5, <1>7, <1>8, <1>12 DEF IInv, PagesTypeOK, MainOK, hist
<1>14. Owned(mem', task', kheap', main', exits')
  <2>1. PICK O : O = Held(kheap, main)
    OBVIOUS
  <2>2. PICK M : M = MainPage(main)
    OBVIOUS
  <2>3. /\ OwnersOK(mem, task, O) /\ LostCount(mem, task, O, exits)
        /\ UsedIsMapped(mem, M) /\ PoolIsUsed(mem, task)
        /\ kheap \cap M = {} /\ M \subseteq mem.kvaddr
    BY <1>1, <2>1, <2>2, OwnedParts
  <2>4. PICK D : D = {task[p].pgdir, task[p].pcb}
    OBVIOUS
  <2>5. PICK T2 : T2 = task'
    OBVIOUS
  <2>6. m2.kvaddr = mem.kvaddr \ D
    BY <1>5, <1>7, <2>4 DEF Frees
  <2>7. /\ OwnersOK(m2, T2, O) /\ Lost(m2, T2, O) = Lost(mem, task, O) \cup (D \ D)
    <3>1. Places(task[p]) = {0, 1} /\ Places(NoTask) = {}
      BY <1>1, NoTaskIs DEF Places
    <3>2. PageAt(task[p], 0) = task[p].pcb /\ PageAt(task[p], 1) = task[p].pgdir
      BY DEF PageAt
    <3>3. Drops(task[p], NoTask, D)
      BY <2>4, <3>1, <3>2 DEF Drops
    <3>4. PICK t : t = NoTask
      OBVIOUS
    <3>5. T2 = [task EXCEPT ![p] = t] /\ Drops(task[p], t, D)
      BY <1>1, <2>5, <3>3, <3>4
    <3>6. Dropped(mem, m2, task, T2, O, D, D)
      BY <1>2, <2>3, <2>6, <3>5, TaskLeaves
    <3> QED
      BY <3>6 DEF Dropped
  <2>8. LostCount(m2, T2, O, exits)
    <3>1. Lost(m2, T2, O) = Lost(mem, task, O)
      BY <2>7
    <3> QED
      BY <2>3, <3>1 DEF LostCount
  <2>9. UsedIsMapped(m1, M) /\ PoolIsUsed(m1, task)
    BY <1>5, <2>3, FreesUsed
  <2>10. UsedIsMapped(m2, M) /\ PoolIsUsed(m2, task)
    BY <1>7, <2>9, FreesUsed
  <2>11. PoolIsUsed(m2, T2)
    BY <1>9, <2>5, <2>10, TablesUsed
  <2>12. kheap' = kheap /\ main' = main /\ exits' = exits
    BY <1>1 DEF hist
  <2> QED
    BY <1>8, <2>1, <2>2, <2>3, <2>5, <2>7, <2>8, <2>10, <2>11, <2>12, OwnedAgain
<1> QED
  BY <1>2, <1>10, <1>12, <1>13, <1>14, NextState

LEMMA SysForkStep ==
  ASSUME IInv, NEW p \in Procs, NEW c \in Procs, sys_fork(p, c)
  PROVE  IInv'
<1> DEFINE need == 3 + bitmap_pg_cnt
<1>1. PICK S : S = task[p].vaddr_bitmap
  OBVIOUS
<1>2. PICK n : n = ForkPages(mem)
  OBVIOUS
<1>3. PICK t : t = [NoTask EXCEPT !.status = "running", !.pcb = n.pcb,
                       !.bits = n.bits, !.pgdir = n.pgdir,
                       !.vaddr_bitmap = S, !.heap = task[p].heap]
  OBVIOUS
<1>4. PICK x : x = Copied([mem |-> n.mem, task |-> t], S)
  OBVIOUS
<1>5. Up /\ task[p].status = "running" /\ task[c].status = "none" /\ main = Idle
  BY DEF sys_fork, Running, PoolUnlocked
<1>6. CASE Stop
  BY <1>6, StopStep
<1>7. CASE /\ Room(mem, need + NewTables(NoTask, S), Cardinality(S))
           /\ Cardinality(KPages \ mem.kvaddr) >= need /\ n.found
           /\ mem' = mfree_kernel(x.mem, n.buf, 1)
           /\ task' = [task EXCEPT ![c] = x.task]
           /\ UNCHANGED <<kheap, main, hist, panic>>
  <2>1. /\ mem \in Memory /\ task \in [Procs -> Task] /\ KernelOK(mem, task)
        /\ ~raced /\ stale \in BOOLEAN /\ (stale \/ UserOK(mem, task))
        /\ kheap \subseteq KPages
        /\ \A q \in Procs : TaskOK(task[q]) /\ task[q] \in Task
    BY <1>5, UpState
  <2>2. S \in SUBSET UPages /\ task[p].heap \subseteq S
    BY <1>1, <2>1 DEF Task, TaskOK
  <2>3. /\ Cardinality(KFrames \ mem.pool) \in Nat /\ NewTables(NoTask, S) \in Nat
        /\ bitmap_pg_cnt \in Nat
    <3>1. {k \in Tables : /\ NoTask.pde[k] = NoFrame
                          /\ \E v \in S : v \div PerTable = k} \in SUBSET Tables
      OBVIOUS
    <3>2. NewTables(NoTask, S) \in Nat
      BY <3>1, TablesAre, FS_Subset, FS_CardinalityType DEF NewTables
    <3> QED
      BY <3>2, FreeIsFinite, ConstantsAre
  <2>4. /\ Cardinality(KFrames \ mem.pool) >= need + NewTables(NoTask, S)
        /\ Cardinality(UFrames \ mem.pool) >= Cardinality(S)
    BY <1>7 DEF Room
  <2>5. /\ Grown(mem, n.mem, task, need)
        /\ n.pcb \in KPages /\ n.buf \in KPages /\ n.bits \in KPages
        /\ n.pgdir \in KPages /\ n.bits + bitmap_pg_cnt - 1 <= NK
        /\ Takes(mem, n.mem, NewPages(n) \cup {n.buf}) /\ Apart(n)
        /\ n.buf \notin NewPages(n)
    <3>1. Cardinality(KFrames \ mem.pool) >= need
      BY <2>3, <2>4
    <3> QED
      BY <1>2, <1>7, <2>1, <3>1, ForkPagesIs
  <2>6. PICK m : m = n.mem
    OBVIOUS
  <2>7. /\ m \in Memory /\ KernelOK(m, task)
        /\ UserOK(mem, task) => UserOK(m, task)
        /\ Cardinality(UFrames \ m.pool) >= Cardinality(S)
        /\ Cardinality(KFrames \ m.pool) >= NewTables(NoTask, S)
    <3>1. /\ m \in Memory /\ KernelOK(m, task)
          /\ UserOK(mem, task) => UserOK(m, task)
          /\ UFrames \ m.pool = UFrames \ mem.pool
          /\ Cardinality(KFrames \ m.pool) = Cardinality(KFrames \ mem.pool) - need
      BY <2>5, <2>6 DEF Grown
    <3>2. Cardinality(KFrames \ m.pool) >= NewTables(NoTask, S)
      BY <2>3, <2>4, <3>1
    <3> QED
      BY <2>4, <3>1, <3>2
  <2>8. n.pcb \in 0..NK /\ n.bits \in 0..NK /\ n.pgdir \in 0..NK
        /\ n.pcb >= 1 /\ n.bits >= 1 /\ n.pgdir >= 1
    BY <2>5, ConstantsAre DEF KPages
  <2>9. /\ t \in Task /\ t.status = "running" /\ t.pcb = n.pcb /\ t.bits = n.bits
        /\ t.pgdir = n.pgdir /\ t.vaddr_bitmap = S /\ t.heap = task[p].heap
        /\ t.pde = NoTask.pde /\ t.pte = NoTask.pte
    BY <1>3, <2>2, <2>8, NoTaskIs DEF Task
  <2>10. PICK T : T = [task EXCEPT ![c] = t]
    OBVIOUS
  <2>11. T \in [Procs -> Task] /\ T[c] = t /\ SameEntries(task, T)
    BY <1>5, <2>1, <2>9, <2>10, NoEntries DEF SameEntries
  <2>12. KernelOK(m, T) /\ (UserOK(mem, task) => UserOK(m, T))
    BY <2>7, <2>11, EntriesCount
  <2>13. ChildSoFar(m, T, c, S, NPages - 1, x)
    <3>1. /\ \A w \in UPages : T[c].pte[w] = Absent
          /\ \A k \in Tables : T[c].pde[k] = NoFrame
      BY <2>9, <2>11, NoTaskIs
    <3>2. x = Copied([mem |-> m, task |-> T[c]], S)
      BY <1>4, <2>6, <2>11
    <3> QED
      BY <2>2, <2>7, <2>11, <2>12, <3>1, <3>2, CopiedIs
  <2>14. PICK a : a = x.mem
    OBVIOUS
  <2>15. PICK t2 : t2 = x.task
    OBVIOUS
  <2>16. PICK T2 : T2 = [T EXCEPT ![c] = t2]
    OBVIOUS
  <2>17. /\ a \in Memory /\ t2 \in Task
         /\ t2 = [T[c] EXCEPT !.pde = t2.pde, !.pte = t2.pte]
         /\ KernelOK(a, T2) /\ (UserOK(m, T) => UserOK(a, T2))
         /\ \A w \in UPages : /\ t2.pte[w].present <=> w \in S /\ w <= NPages - 1
                              /\ t2.pte[w].present => t2.pte[w].frame # NoFrame
    BY <2>13, <2>14, <2>15, <2>16 DEF ChildSoFar
  <2>18. task' = T2 /\ T2 \in [Procs -> Task] /\ T2[c] = t2
         /\ \A q \in Procs : q # c => T2[q] = task[q]
    BY <1>7, <2>1, <2>10, <2>11, <2>15, <2>16, <2>17
  <2>19. PICK m2 : m2 = mem'
    OBVIOUS
  <2>20. /\ m2 \in Memory /\ KernelOK(m2, T2) /\ (UserOK(a, T2) => UserOK(m2, T2))
         /\ Frees(a, m2, {n.buf})
    <3>1. PICK k \in KPages : k = n.buf
      BY <2>5
    <3>2. m2 = mfree_kernel(a, k, 1)
      BY <1>7, <2>14, <2>19, <3>1
    <3>3. a \in Memory /\ T2 \in [Procs -> Task] /\ KernelOK(a, T2)
      BY <2>17, <2>18
    <3>4. /\ m2 \in Memory /\ KernelOK(m2, T2) /\ (UserOK(a, T2) => UserOK(m2, T2))
          /\ Frees(a, m2, {k})
      BY <3>2, <3>3, MfreeOne
    <3> QED
      BY <3>1, <3>4
  <2>21. TaskOK(t2)
    <3>1. /\ t2.status = "running" /\ t2.pcb = n.pcb /\ t2.bits = n.bits
          /\ t2.pgdir = n.pgdir /\ t2.vaddr_bitmap = S /\ t2.heap = task[p].heap
      BY <2>9, <2>11, <2>17 DEF Task
    <3>2. \A w \in UPages : w <= NPages - 1
      BY ConstantsAre DEF UPages
    <3>3. S = {w \in UPages : t2.pte[w].present}
      BY <2>2, <2>17, <3>2
    <3> QED
      BY <2>2, <2>5, <2>8, <2>17, <3>1, <3>3 DEF TaskOK
  <2>22. \A q \in Procs : TaskOK(T2[q])
    BY <2>1, <2>18, <2>21
  <2>23. PagesTypeOK' /\ MainOK' /\ ~raced' /\ stale' = stale
    BY <1>5, <1>7, <2>1, <2>18, <2>19, <2>20
    DEF IInv, PagesTypeOK, MainOK, hist
  <2>24. Owned(mem', task', kheap', main', exits')
    <3>1. PICK O : O = Held(kheap, main)
      OBVIOUS
    <3>2. PICK M : M = MainPage(main)
      OBVIOUS
    <3>3. /\ OwnersOK(mem, task, O) /\ LostCount(mem, task, O, exits)
          /\ UsedIsMapped(mem, M) /\ PoolIsUsed(mem, task)
          /\ kheap \cap M = {} /\ M \subseteq mem.kvaddr
      BY <1>5, <3>1, <3>2, OwnedParts
    <3>4. /\ a.kmap = m.kmap /\ a.kvaddr = m.kvaddr
          /\ \A f \in KFrames \cap a.pool : f \in m.pool \/ \E k \in Tables : t2.pde[k] = f
      BY <2>13, <2>14, <2>15 DEF ChildSoFar
    <3>5. /\ t2.status = "running" /\ t2.pcb = n.pcb /\ t2.bits = n.bits
          /\ t2.pgdir = n.pgdir
      BY <2>9, <2>11, <2>17 DEF Task
    <3>6. NewPages(t2) = NewPages(n) /\ Apart(t2)
      BY <2>5, <3>5 DEF NewPages, Apart
    <3>7. /\ Takes(mem, m, NewPages(t2) \cup {n.buf}) /\ n.buf \notin NewPages(t2)
      BY <2>5, <2>6, <3>6
    <3>8. OwnersOK(m2, T2, O) /\ LostCount(m2, T2, O, exits)
      <4>1. /\ NewPages(t2) \cap mem.kvaddr = {}
            /\ m2.kvaddr = mem.kvaddr \cup NewPages(t2)
        BY <2>20, <3>4, <3>7 DEF Takes, Frees
      <4>2. T2 = [task EXCEPT ![c] = t2]
        BY <2>10, <2>16, <2>1
      <4> QED
        BY <1>5, <2>1, <2>17, <3>3, <3>5, <3>6, <4>1, <4>2, TaskEnters
    <3>9. UsedIsMapped(m, M) /\ PoolIsUsed(m, task)
      BY <3>3, <3>7, TakesUsed
    <3>10. UsedIsMapped(a, M)
      BY <3>4, <3>9 DEF UsedIsMapped
    <3>11. ASSUME NEW f \in KFrames \cap a.pool
           PROVE  \/ \E k \in KPages : a.kmap[k] = f
                  \/ \E q \in Procs, k \in Tables : T2[q].pde[k] = f
      <4>1. CASE \E k \in Tables : t2.pde[k] = f
        BY <2>18, <4>1
      <4>2. CASE f \in m.pool
        <5>1. CASE \E k \in KPages : m.kmap[k] = f
          BY <3>4, <5>1
        <5>2. CASE \E q \in Procs, k \in Tables : task[q].pde[k] = f
          <6>1. PICK q \in Procs, k \in Tables : task[q].pde[k] = f
            BY <5>2
          <6>2. f # NoFrame
            BY FramesAre
          <6>3. q # c
            BY <1>5, <2>1, <6>1, <6>2 DEF TaskOK
          <6> QED
            BY <2>18, <6>1, <6>3
        <5> QED
          BY <3>9, <4>2, <5>1, <5>2 DEF PoolIsUsed
      <4> QED
        BY <3>4, <4>1, <4>2
    <3>12. PoolIsUsed(a, T2)
      BY <3>11 DEF PoolIsUsed
    <3>13. UsedIsMapped(m2, M) /\ PoolIsUsed(m2, T2)
      BY <2>20, <3>10, <3>12, FreesUsed
    <3>14. kheap' = kheap /\ main' = main /\ exits' = exits
      BY <1>7 DEF hist
    <3> QED
      BY <2>18, <2>19, <3>1, <3>2, <3>3, <3>8, <3>13, <3>14, OwnedAgain
  <2> QED
    BY <2>1, <2>12, <2>17, <2>18, <2>19, <2>20, <2>22, <2>23, <2>24, NextState
<1> QED
  BY <1>1, <1>2, <1>3, <1>4, <1>6, <1>7 DEF sys_fork

(***************************************************************************)
(* exit takes the frames of every entry, present or not, out of the pool.  *)
(* The kernel's are the process's own; a user frame that is another's is   *)
(* what stale records.                                                     *)
(***************************************************************************)
LEMMA SysExitStep ==
  ASSUME IInv, NEW p \in Procs, sys_exit(p)
  PROVE  IInv'
<1>1. /\ Up /\ task[p].status = "running"
      /\ mem' = release_prog_resource(mem, task[p])
      /\ task' = [task EXCEPT ![p] = [NoTask EXCEPT !.status = "hanging",
                                       !.pcb = task[p].pcb, !.pgdir = task[p].pgdir]]
      /\ stale' = (stale \/ \E q \in Others(p) :
                             UserFrames(task[p]) \cap PresentFrames(task[q]) # {})
      /\ exits' = exits + 1
      /\ UNCHANGED <<kheap, main, raced, panic>>
  BY DEF sys_exit, Running
<1>2. /\ mem \in Memory /\ task \in [Procs -> Task] /\ KernelOK(mem, task)
      /\ ~raced /\ stale \in BOOLEAN /\ (stale \/ UserOK(mem, task))
      /\ kheap \subseteq KPages /\ MainOK
      /\ \A q \in Procs : TaskOK(task[q]) /\ task[q] \in Task
  BY <1>1, UpState
<1>3. PICK t2 : t2 = [NoTask EXCEPT !.status = "hanging",
                                    !.pcb = task[p].pcb, !.pgdir = task[p].pgdir]
  OBVIOUS
<1>4. /\ t2 \in Task /\ t2.status = "hanging" /\ t2.pcb = task[p].pcb
      /\ t2.pgdir = task[p].pgdir /\ t2.pde = NoTask.pde /\ t2.pte = NoTask.pte
      /\ t2.vaddr_bitmap = {} /\ t2.heap = {}
  <2>1. task[p].pcb \in 0..NK /\ task[p].pgdir \in 0..NK
    BY <1>2 DEF Task
  <2> QED
    BY <1>3, <2>1, NoTaskIs DEF Task
<1>5. /\ \A k \in Tables : t2.pde[k] = NoFrame
      /\ \A v \in UPages : t2.pte[v] = Absent /\ ~t2.pte[v].present
  <2>1. ~Absent.present
    BY DEF Absent
  <2> QED
    BY <1>4, <2>1, NoTaskIs
<1>6. TaskOK(t2)
  <2>1. t2.pcb >= 1 /\ t2.pgdir >= 1
    BY <1>1, <1>2, <1>4 DEF TaskOK
  <2> QED
    BY <1>4, <1>5, <2>1 DEF TaskOK
<1>7. PICK T : T = task'
  OBVIOUS
<1>8. /\ T = [task EXCEPT ![p] = t2] /\ T \in [Procs -> Task] /\ T[p] = t2
      /\ \A q \in Procs : q # p => T[q] = task[q]
  BY <1>1, <1>2, <1>3, <1>4, <1>7
<1>9. PICK U : U = UserFrames(task[p])
  OBVIOUS
<1>10. PICK K : K = TableFrames(task[p])
  OBVIOUS
<1>11. /\ U \subseteq UFrames /\ K \subseteq KFrames
       /\ \A f \in K : \E k \in Tables : f = task[p].pde[k] /\ f # NoFrame
  <2>1. \A v \in UPages : task[p].pte[v].frame \in UFrames \cup {NoFrame}
    BY <1>2 DEF Task, Entry
  <2>2. \A k \in Tables : task[p].pde[k] \in KFrames \cup {NoFrame}
    BY <1>2 DEF Task
  <2> QED
    BY <1>9, <1>10, <2>1, <2>2 DEF UserFrames, TableFrames
<1>12. PICK m : m = [mem EXCEPT !.pool = @ \ (U \cup K)]
  OBVIOUS
<1>13. /\ m \in Memory /\ m.pool = mem.pool \ (U \cup K) /\ m.kmap = mem.kmap
  BY <1>2, <1>12 DEF Memory
<1>14. MapOK(mem) /\ TablesOK(mem, task)
  BY <1>2 DEF KernelOK
<1>15. MapOK(m)
  <2>1. ASSUME NEW k \in KPages, m.kmap[k] # NoFrame
        PROVE  m.kmap[k] \in m.pool
    <3>1. m.kmap[k] = mem.kmap[k] /\ mem.kmap[k] \in mem.pool /\ mem.kmap[k] \in KFrames
      BY <1>2, <1>13, <1>14, <2>1 DEF MapOK, Memory
    <3>2. mem.kmap[k] \notin K
      BY <1>11, <1>14 DEF TablesOK
    <3> QED
      BY <1>11, <1>13, <3>1, <3>2, FramesAre
  <2> QED
    BY <1>13, <1>14, <2>1 DEF MapOK
<1>16. TablesOK(m, T)
  <2>1. ASSUME NEW q \in Procs, NEW k \in Tables, T[q].pde[k] # NoFrame
        PROVE  q # p /\ T[q] = task[q]
    BY <1>5, <1>8, <2>1
  <2>2. ASSUME NEW q \in Procs, NEW k \in Tables, T[q].pde[k] # NoFrame
        PROVE  T[q].pde[k] \in m.pool /\ \A j \in KPages : m.kmap[j] # T[q].pde[k]
    <3>1. q # p /\ T[q] = task[q]
      BY <2>1, <2>2
    <3>2. /\ task[q].pde[k] \in mem.pool
          /\ \A j \in KPages : mem.kmap[j] # task[q].pde[k]
      BY <1>14, <2>2, <3>1 DEF TablesOK
    <3>3. task[q].pde[k] \in KFrames
      BY <1>2, <2>2, <3>1 DEF Task
    <3>4. task[q].pde[k] \notin K
      BY <1>11, <1>14, <3>1 DEF TablesOK
    <3> QED
      BY <1>11, <1>13, <3>1, <3>2, <3>3, <3>4, FramesAre
  <2>3. ASSUME NEW q \in Procs, NEW r \in Procs, NEW k \in Tables, NEW l \in Tables,
               T[q].pde[k] = T[r].pde[l], T[q].pde[k] # NoFrame
        PROVE  q = r /\ k = l
    <3>1. T[q] = task[q] /\ T[r] = task[r]
      BY <2>1, <2>3
    <3> QED
      BY <1>14, <2>3, <3>1 DEF TablesOK
  <2> QED
    BY <2>2, <2>3 DEF TablesOK
<1>17. stale' \/ UserOK(m, T)
  <2> SUFFICES ASSUME ~stale' PROVE UserOK(m, T)
    OBVIOUS
  <2>1. /\ UserOK(mem, task)
        /\ \A q \in Others(p) : U \cap PresentFrames(task[q]) = {}
    BY <1>1, <1>2, <1>9
  <2>2. ASSUME NEW q \in Procs, NEW v \in UPages, T[q].pte[v].present
        PROVE  q # p /\ T[q] = task[q]
    BY <1>5, <1>8, <2>2
  <2>3. ASSUME NEW q \in Procs, NEW v \in UPages, T[q].pte[v].present
        PROVE  T[q].pte[v].frame \in m.pool
    <3>1. q # p /\ T[q] = task[q] /\ task[q].pte[v].present
      BY <2>2, <2>3
    <3>2. task[q].status \in {"ready", "running"}
      <4>1. task[q].pte[v] # Absent
        BY <3>1 DEF Absent
      <4>2. task[q].status \notin {"none", "hanging"}
        BY <1>2, <4>1 DEF TaskOK
      <4>3. task[q].status \in {"none", "ready", "running", "hanging"}
        BY <1>2 DEF Task
      <4> QED
        BY <4>2, <4>3
    <3>3. q \in Others(p)
      BY <3>1, <3>2 DEF Others
    <3>4. task[q].pte[v].frame \in PresentFrames(task[q])
      BY <3>1 DEF PresentFrames
    <3>5. task[q].pte[v].frame \notin U
      BY <2>1, <3>3, <3>4
    <3>6. task[q].pte[v].frame \in mem.pool
      BY <2>1, <3>1 DEF UserOK
    <3>7. task[q].pte[v].frame \in UFrames
      BY <1>2, <3>1 DEF Task, Entry, TaskOK
    <3> QED
      BY <1>11, <1>13, <3>1, <3>5, <3>6, <3>7, FramesAre
  <2>4. ASSUME NEW q \in Procs, NEW r \in Procs, NEW v \in UPages, NEW w \in UPages,
               T[q].pte[v].present, T[r].pte[w].present,
               T[q].pte[v].frame = T[r].pte[w].frame
        PROVE  q = r /\ v = w
    <3>1. T[q] = task[q] /\ T[r] = task[r]
      BY <2>2, <2>4
    <3> QED
      BY <2>1, <2>4, <3>1 DEF UserOK
  <2> QED
    BY <2>3, <2>4 DEF UserOK
<1>18. PICK m2 : m2 = mem'
  OBVIOUS
<1>19. /\ m2 \in Memory /\ KernelOK(m2, T) /\ (UserOK(m, T) => UserOK(m2, T))
       /\ m2.pool \subseteq m.pool
       /\ Frees(m, m2, task[p].bits..(task[p].bits + release_pg_cnt - 1))
  <2>1. PICK b : b = task[p].bits
    OBVIOUS
  <2>2. PICK cnt : cnt = release_pg_cnt
    OBVIOUS
  <2>3. b \in 0..NK /\ b >= 1 /\ b + bitmap_pg_cnt - 1 <= NK
    BY <1>1, <1>2, <2>1 DEF Task, TaskOK
  <2>4. b \in Nat /\ cnt \in Nat /\ b..(b + cnt - 1) \subseteq KPages
    BY <2>2, <2>3, ConstantsAre DEF KPages
  <2>5. m2 = mfree_kernel(m, b, cnt)
    BY <1>1, <1>9, <1>10, <1>12, <1>18, <2>1, <2>2 DEF release_prog_resource
  <2>6. KernelOK(m, T)
    BY <1>15, <1>16 DEF KernelOK
  <2>7. /\ m2 \in Memory /\ KernelOK(m2, T) /\ (UserOK(m, T) => UserOK(m2, T))
        /\ m2.pool \subseteq m.pool /\ Frees(m, m2, b..(b + cnt - 1))
    BY <1>8, <1>13, <2>4, <2>5, <2>6, MfreeKernel
  <2> QED
    BY <2>1, <2>2, <2>7
<1>20. \A q \in Procs : TaskOK(T[q])
  BY <1>2, <1>6, <1>8
<1>21. PagesTypeOK' /\ MainOK' /\ ~raced'
  <2>1. stale' \in BOOLEAN
    BY <1>1, <1>2
  <2>2. mem' \in Memory /\ mem'.pool \subseteq mem.pool
    BY <1>13, <1>18, <1>19
  <2>3. task' \in [Procs -> Task]
    BY <1>7, <1>8
  <2>4. MainOK'
    BY <1>1, <1>2, <2>2 DEF MainOK
  <2> QED
    BY <1>1, <1>2, <2>1, <2>2, <2>3, <2>4 DEF IInv, PagesTypeOK
<1>22. Owned(mem', task', kheap', main', exits')
  <2>1. PICK O : O = Held(kheap, main)
    OBVIOUS
  <2>2. PICK M : M = MainPage(main)
    OBVIOUS
  <2>3. /\ OwnersOK(mem, task, O) /\ LostCount(mem, task, O, exits)
        /\ UsedIsMapped(mem, M) /\ PoolIsUsed(mem, task)
        /\ kheap \cap M = {} /\ M \subseteq mem.kvaddr
    BY <1>1, <2>1, <2>2, OwnedParts
  <2>4. PICK bp \in Nat : bp = bitmap_pg_cnt /\ bp > 0
    BY ConstantsAre
  <2>5. PICK rel \in Nat : rel = release_pg_cnt /\ rel <= bp
    BY <2>4, ConstantsAre
  <2>6. PICK b \in Nat : b = task[p].bits
    BY <1>2 DEF Task
  <2>7. PICK D : D = b..(b + bp - 1)
    OBVIOUS
  <2>8. PICK F : F = b..(b + rel - 1)
    OBVIOUS
  <2>9. F \subseteq D /\ D \ F = (b + rel)..(b + bp - 1)
    BY <2>4, <2>5, <2>7, <2>8
  <2>10. Frees(m, m2, F) /\ m.kvaddr = mem.kvaddr
    BY <1>2, <1>12, <1>19, <2>5, <2>6, <2>8 DEF Memory
  <2>11. Drops(task[p], t2, D)
    <3>1. Places(task[p]) = 0..(bp + 1) /\ Places(t2) = {0, 1}
      BY <1>1, <1>4, <2>4 DEF Places
    <3>2. Places(task[p]) \ Places(t2) = 2..(bp + 1)
      BY <2>4, <3>1
    <3>3. \A i \in 2..(bp + 1) : PageAt(task[p], i) = b + (i - 2)
      BY <2>6 DEF PageAt
    <3>4. ASSUME NEW k \in D PROVE k - b + 2 \in 2..(bp + 1) /\ b + ((k - b + 2) - 2) = k
      BY <2>7
    <3>5. ASSUME NEW i \in 2..(bp + 1) PROVE b + (i - 2) \in D
      BY <2>7
    <3>6. /\ \A k \in D : \E i \in 2..(bp + 1) : PageAt(task[p], i) = k
          /\ \A i \in 2..(bp + 1) : PageAt(task[p], i) \in D
      BY <3>3, <3>4, <3>5
    <3>7. Places(t2) \subseteq Places(task[p])
      BY <2>4, <3>1
    <3>8. \A i \in Places(t2) : PageAt(t2, i) = PageAt(task[p], i)
      BY <1>4, <3>1 DEF PageAt
    <3> QED
      BY <3>2, <3>6, <3>7, <3>8 DEF Drops
  <2>12. /\ OwnersOK(m2, T, O)
         /\ Lost(m2, T, O) = Lost(mem, task, O) \cup (D \ F)
         /\ Lost(mem, task, O) \cap D = {}
    <3>1. m2.kvaddr = mem.kvaddr \ F
      BY <2>10 DEF Frees
    <3>2. Dropped(mem, m2, task, T, O, D, F)
      BY <1>2, <1>8, <2>3, <2>9, <2>11, <3>1, TaskLeaves
    <3> QED
      BY <3>2 DEF Dropped
  <2>13. LostCount(m2, T, O, exits + 1)
    <3>1. PICK L : L = Lost(mem, task, O)
      OBVIOUS
    <3>2. PICK G : G = D \ F
      OBVIOUS
    <3>3. PICK N : N = Lost(m2, T, O)
      OBVIOUS
    <3>4. IsFiniteSet(G) /\ Cardinality(G) = bp - rel
      <4>1. G = (b + rel)..(b + bp - 1) /\ b + rel \in Int /\ b + bp - 1 \in Int
        BY <2>9, <3>2
      <4>2. PICK lo \in Int, hi \in Int : lo = b + rel /\ hi = b + bp - 1
        BY <4>1
      <4>3. IsFiniteSet(lo..hi) /\ Cardinality(lo..hi) = IF lo > hi THEN 0 ELSE hi - lo + 1
        BY FS_Interval
      <4>4. (IF lo > hi THEN 0 ELSE hi - lo + 1) = bp - rel
        BY <2>5, <4>2
      <4> QED
        BY <4>1, <4>2, <4>3, <4>4
    <3>5. /\ exits \in Nat /\ Cardinality(L) = exits * (bp - rel)
      BY <2>3, <2>4, <2>5, <3>1 DEF LostCount
    <3>6. L \in SUBSET KPages /\ IsFiniteSet(L)
      <4>1. L \in SUBSET KPages
        BY <1>2, <3>1 DEF Lost, Memory
      <4> QED
        BY <4>1, FramesAre, FS_Subset
    <3>7. N = L \cup G /\ L \cap G = {}
      BY <2>12, <3>1, <3>2, <3>3
    <3>8. Cardinality(N) = Cardinality(L) + Cardinality(G)
      <4>1. /\ Cardinality(L \cup G) = Cardinality(L) + Cardinality(G) - Cardinality(L \cap G)
        BY <3>4, <3>6, FS_Union
      <4>2. Cardinality(L \cap G) = 0
        BY <3>7, FS_EmptySet
      <4> QED
        BY <3>4, <3>6, <3>7, <4>1, <4>2, FS_CardinalityType
    <3>9. Cardinality(N) = (exits + 1) * (bp - rel)
      BY <3>4, <3>5, <3>8
    <3> QED
      BY <2>4, <2>5, <3>3, <3>5, <3>9 DEF LostCount
  <2>14. UsedIsMapped(m, M)
    BY <1>13, <2>3, <2>10 DEF UsedIsMapped
  <2>15. ASSUME NEW f \in KFrames \cap m.pool
         PROVE  \/ \E k \in KPages : m.kmap[k] = f
                \/ \E q \in Procs, k \in Tables : T[q].pde[k] = f
    <3>1. f \in mem.pool /\ f \notin K /\ f # NoFrame
      BY <1>13, FramesAre
    <3>2. CASE \E k \in KPages : mem.kmap[k] = f
      BY <1>13, <3>2
    <3>3. CASE \E q \in Procs, k \in Tables : task[q].pde[k] = f
      <4>1. PICK q \in Procs, k \in Tables : task[q].pde[k] = f
        BY <3>3
      <4>2. q # p
        BY <1>10, <3>1, <4>1 DEF TableFrames
      <4> QED
        BY <1>8, <4>1, <4>2
    <3> QED
      BY <2>3, <3>1, <3>2, <3>3 DEF PoolIsUsed
  <2>16. PoolIsUsed(m, T)
    BY <2>15 DEF PoolIsUsed
  <2>17. UsedIsMapped(m2, M) /\ PoolIsUsed(m2, T)
    BY <2>10, <2>14, <2>16, FreesUsed
  <2>18. kheap' = kheap /\ main' = main /\ exits' = exits + 1
    BY <1>1
  <2> QED
    BY <1>7, <1>18, <2>1, <2>2, <2>3, <2>12, <2>13, <2>17, <2>18, OwnedAgain
<1> QED
  BY <1>7, <1>17, <1>18, <1>19, <1>20, <1>21, <1>22, NextState

-----------------------------------------------------------------------------
LEMMA InitHolds == Init => IInv
<1> SUFFICES ASSUME Init PROVE IInv
  OBVIOUS
<1>1. /\ mem = [pool |-> {}, kvaddr |-> {}, kmap |-> [k \in KPages |-> NoFrame]]
      /\ task = [p \in Procs |-> NoTask] /\ kheap = {} /\ main = Idle
      /\ stale = FALSE /\ raced = FALSE /\ exits = 0
  BY DEF Init
<1>2. mem \in Memory /\ task \in [Procs -> Task]
  BY <1>1, NoTaskIs DEF Memory
<1>3. main \in [frame : KFrames \cup {NoFrame}, page : 0..NK]
  BY <1>1, ConstantsAre DEF Idle
<1>4. PagesTypeOK
  BY <1>1, <1>2, <1>3 DEF PagesTypeOK
<1>5. \A p \in Procs : /\ \A k \in Tables : task[p].pde[k] = NoFrame
                       /\ \A v \in UPages : ~task[p].pte[v].present
  BY <1>1, NoTaskIs DEF Absent
<1>6. \A p \in Procs : TaskOK(task[p])
  <2>1. \A v \in UPages : ~NoTask.pte[v].present
    BY NoTaskIs DEF Absent
  <2>2. TaskOK(NoTask)
    BY <2>1, NoTaskIs DEF TaskOK
  <2> QED
    BY <1>1, <2>2
<1>7. KernelOK(mem, task)
  BY <1>1, <1>5 DEF KernelOK, MapOK, TablesOK
<1>8. UserOK(mem, task)
  BY <1>5 DEF UserOK
<1>9. MainOK
  BY <1>1 DEF MainOK
<1>10. Owned(mem, task, kheap, main, exits)
  <2>1. \A p \in Procs : Places(task[p]) = {}
    BY <1>1, NoTaskIs DEF Places
  <2>2. TaskPages(task) = {}
    BY <2>1 DEF TaskPages
  <2>3. MainPage(main) = {} /\ Held(kheap, main) = {}
    BY <1>1 DEF MainPage, Held
  <2>4. mem.kvaddr = {} /\ mem.pool = {} /\ \A k \in KPages : mem.kmap[k] = NoFrame
    BY <1>1
  <2>5. OwnersOK(mem, task, {}) /\ UsedIsMapped(mem, {}) /\ PoolIsUsed(mem, task)
    BY <2>1, <2>2, <2>4 DEF OwnersOK, UsedIsMapped, PoolIsUsed
  <2>6. LostCount(mem, task, {}, 0)
    <3>1. Lost(mem, task, {}) = {} /\ Cardinality({}) = 0
      BY <2>4, FS_EmptySet DEF Lost
    <3>2. 0 * (bitmap_pg_cnt - release_pg_cnt) = 0
      BY ConstantsAre
    <3> QED
      BY <3>1, <3>2 DEF LostCount
  <2> QED
    BY <1>1, <2>3, <2>5, <2>6, OwnedAgain
<1> QED
  BY <1>4, <1>6, <1>7, <1>8, <1>9, <1>10 DEF IInv

LEMMA NextHolds == IInv /\ [Next]_vars => IInv'
<1> SUFFICES ASSUME IInv, [Next]_vars PROVE IInv'
  OBVIOUS
<1>1. CASE UNCHANGED vars
  <2>1. UNCHANGED <<mem, task, kheap, main, exits, stale, raced>>
    BY <1>1 DEF vars, hist
  <2>2. PagesTypeOK' /\ MainOK' = MainOK
    BY <2>1 DEF IInv, PagesTypeOK, MainOK
  <2> QED
    BY <2>1, <2>2, NextState DEF IInv
<1>2. CASE stopped
  BY <1>1, <1>2 DEF stopped
<1>3. ASSUME NEW p \in Procs, process_execute(p) PROVE IInv'
  BY <1>3, ProcessExecuteStep
<1>4. ASSUME NEW p \in Procs, start_process(p) PROVE IInv'
  BY <1>4, StartProcessStep
<1>5. ASSUME NEW p \in Procs, malloc_page(p) PROVE IInv'
  BY <1>5, MallocPageStep
<1>6. ASSUME NEW p \in Procs, NEW v \in UPages, mfree_page(p, v) PROVE IInv'
  BY <1>6, MfreePageStep
<1>7. ASSUME NEW p \in Procs, NEW c \in Procs, sys_fork(p, c) PROVE IInv'
  BY <1>7, SysForkStep
<1>8. ASSUME NEW p \in Procs, sys_exit(p) PROVE IInv'
  BY <1>8, SysExitStep
<1>9. ASSUME NEW p \in Procs, thread_exit(p) PROVE IInv'
  BY <1>9, ThreadExitStep
<1>10. CASE kernel_malloc
  BY <1>10, KernelMallocStep
<1>11. ASSUME NEW k \in kheap, kernel_free(k) PROVE IInv'
  BY <1>11, KernelFreeStep
<1>12. CASE main_scans
  BY <1>12, MainScansStep
<1>13. CASE main_sets
  BY <1>13, MainSetsStep
<1>14. ASSUME NEW p \in Procs, start_process_sets(p) PROVE IInv'
  BY <1>14, StartProcessSetsStep
<1> QED
  BY <1>1, <1>2, <1>3, <1>4, <1>5, <1>6, <1>7, <1>8, <1>9, <1>10, <1>11, <1>12,
     <1>13, <1>14 DEF Next

(***************************************************************************)
(* The bookkeeping of memory.c, fork.c and wait_exit.c keeps IInv.         *)
(***************************************************************************)
THEOREM Inductive == Spec => []IInv
  BY InitHolds, NextHolds, PTL DEF Spec

(***************************************************************************)
(* A process's bitmap of virtual pages is the set of its mapped pages,     *)
(* whatever was malloced, freed and forked, and even after a stale exit:   *)
(* copy_body_stack3 (fork.c) never reads a page that is not mapped.        *)
(***************************************************************************)
THEOREM BitmapIsMappingHolds == Spec => []BitmapIsMapping
<1>1. IInv => BitmapIsMapping
  BY DEF IInv, TaskOK, BitmapIsMapping
<1> QED
  BY <1>1, Inductive, PTL

\* The users of a frame, one kind at a time.
KernelUser(f, u) == \E k \in KPages : mem.kmap[k] = f /\ u = <<"kernel", k>>
TableUser(f, u)  == \E p \in Procs, k \in Tables :
                        task[p].pde[k] = f /\ u = <<"table", p, k>>
PageUser(f, u)   == \E p \in Procs, v \in UPages :
                        /\ task[p].pte[v].present /\ task[p].pte[v].frame = f
                        /\ u = <<"user", p, v>>

LEMMA UsersAre ==
  ASSUME NEW f, NEW u \in Users(f)
  PROVE  KernelUser(f, u) \/ TableUser(f, u) \/ PageUser(f, u)
<1>1. CASE u \in {<<"kernel", k>> : k \in {j \in KPages : mem.kmap[j] = f}}
  BY <1>1 DEF KernelUser
<1>2. CASE u \in {<<"table", x[1], x[2]>> : x \in
               {y \in Procs \X Tables : Living(y[1]) /\ task[y[1]].pde[y[2]] = f}}
  BY <1>2 DEF TableUser
<1>3. CASE u \in {<<"user", x[1], x[2]>> : x \in
               {y \in Procs \X UPages : /\ Living(y[1])
                                        /\ task[y[1]].pte[y[2]].present
                                        /\ task[y[1]].pte[y[2]].frame = f}}
  BY <1>3 DEF PageUser
<1> QED
  BY <1>1, <1>2, <1>3 DEF Users

LEMMA OneUser ==
  ASSUME PagesTypeOK, \A p \in Procs : TaskOK(task[p]),
         KernelOK(mem, task), UserOK(mem, task),
         NEW f \in Frames, NEW u \in Users(f), NEW w \in Users(f)
  PROVE  u = w /\ f \in mem.pool
<1>0. f # NoFrame
  BY FramesAre DEF Frames
<1>1. /\ KernelUser(f, u) \/ TableUser(f, u) \/ PageUser(f, u)
      /\ KernelUser(f, w) \/ TableUser(f, w) \/ PageUser(f, w)
  BY UsersAre
<1>2. ASSUME NEW a, KernelUser(f, a) \/ TableUser(f, a)
      PROVE  f \in mem.pool /\ f \in KFrames
  <2>1. CASE KernelUser(f, a)
    BY <1>0, <2>1 DEF KernelUser, KernelOK, MapOK, PagesTypeOK, Memory
  <2>2. CASE TableUser(f, a)
    BY <1>0, <2>2 DEF TableUser, KernelOK, TablesOK, PagesTypeOK, Task
  <2> QED
    BY <1>2, <2>1, <2>2
<1>3. ASSUME NEW a, PageUser(f, a) PROVE f \in mem.pool /\ f \in UFrames
  <2>1. PICK p \in Procs, v \in UPages :
           task[p].pte[v].present /\ task[p].pte[v].frame = f
    BY <1>3 DEF PageUser
  <2>2. f \in mem.pool
    BY <2>1 DEF UserOK
  <2>3. task[p].pte[v].frame \in UFrames \cup {NoFrame}
    BY DEF PagesTypeOK, Task, Entry
  <2> QED
    BY <1>0, <2>1, <2>2, <2>3
<1>4. CASE KernelUser(f, u) /\ KernelUser(f, w)
  BY <1>0, <1>2, <1>4 DEF KernelUser, KernelOK, MapOK
<1>5. CASE TableUser(f, u) /\ TableUser(f, w)
  BY <1>0, <1>2, <1>5 DEF TableUser, KernelOK, TablesOK
<1>6. CASE PageUser(f, u) /\ PageUser(f, w)
  BY <1>3, <1>6 DEF PageUser, UserOK
<1>7. ASSUME NEW a, NEW b, KernelUser(f, a), TableUser(f, b) PROVE FALSE
  BY <1>0, <1>7 DEF KernelUser, TableUser, KernelOK, TablesOK
<1>8. ASSUME NEW a, NEW b, PageUser(f, a), KernelUser(f, b) \/ TableUser(f, b)
      PROVE  FALSE
  BY <1>2, <1>3, <1>8, FramesAre
<1> QED
  BY <1>1, <1>4, <1>5, <1>6, <1>7, <1>8

(***************************************************************************)
(* Whatever is executed, forked, malloced, freed and waited for, a frame   *)
(* that is mapped or is a page table has its bit set in the pool of        *)
(* memory.c and one user, until a stale exit or a raced page table.        *)
(***************************************************************************)
THEOREM OneOwnerUnlessStaleHolds == Spec => []OneOwnerUnlessStale
<1>1. IInv => OneOwnerUnlessStale
  <2> SUFFICES ASSUME IInv, ~stale, ~raced, NEW f \in KFrames \cup UFrames
               PROVE  /\ Cardinality(Users(f)) <= 1
                      /\ Users(f) # {} => f \in mem.pool
    BY DEF OneOwnerUnlessStale, FramesHaveOneOwner
  <2>1. /\ PagesTypeOK /\ (\A p \in Procs : TaskOK(task[p]))
        /\ KernelOK(mem, task) /\ UserOK(mem, task)
    BY DEF IInv
  <2>2. \A u, w \in Users(f) : u = w /\ f \in mem.pool
    BY <2>1, OneUser DEF Frames
  <2>3. CASE Users(f) = {}
    <3>1. Cardinality(Users(f)) = 0
      BY <2>3, FS_EmptySet
    <3> QED
      BY <2>3, <3>1
  <2>4. CASE Users(f) # {}
    <3>1. PICK u : u \in Users(f)
      BY <2>4
    <3>2. Users(f) = {u} /\ f \in mem.pool
      BY <2>2, <3>1
    <3>3. Cardinality({u}) = 1
      BY FS_Singleton
    <3>4. Cardinality(Users(f)) = 1
      BY <3>2, <3>3
    <3> QED
      BY <3>2, <3>4
  <2> QED
    BY <2>3, <2>4
<1> QED
  BY <1>1, Inductive, PTL

-----------------------------------------------------------------------------
(***************************************************************************)
(* Counting the owners.  A function that is one to one into a finite set.  *)
(***************************************************************************)
LEMMA OneToOne ==
  ASSUME NEW S, NEW V, IsFiniteSet(V), NEW f \in [S -> V],
         \A x, y \in S : f[x] = f[y] => x = y
  PROVE  /\ IsFiniteSet(S)
         /\ (\A v \in V : \E x \in S : f[x] = v) => Cardinality(S) = Cardinality(V)
<1>1. f \in Injection(S, V)
  BY DEF Injection, IsInjective
<1>2. (\A v \in V : \E x \in S : f[x] = v) => f \in Surjection(S, V)
  BY DEF Surjection
<1> QED
  BY <1>1, <1>2, FS_Injection

LEMMA DisjointUnion ==
  ASSUME NEW S, NEW V, IsFiniteSet(S), IsFiniteSet(V), S \cap V = {}
  PROVE  /\ IsFiniteSet(S \cup V)
         /\ Cardinality(S \cup V) = Cardinality(S) + Cardinality(V)
<1>1. /\ IsFiniteSet(S \cup V) /\ Cardinality(S) \in Nat /\ Cardinality(V) \in Nat
      /\ Cardinality(S \cup V) = Cardinality(S) + Cardinality(V) - Cardinality(S \cap V)
  BY FS_Union, FS_CardinalityType
<1>2. Cardinality(S \cap V) = 0
  BY FS_EmptySet
<1> QED
  BY <1>1, <1>2

\* The pages that the processes P have at the places I.
PagesOf(T, P, I) == {PageAt(T[x[1]], x[2]) : x \in P \X I}

LEMMA PagesOfCount ==
  ASSUME NEW m \in Memory, NEW T, NEW O, OwnersOK(m, T, O),
         NEW P \in SUBSET Procs, NEW I, IsFiniteSet(I), 0 \in I,
         \A p \in P : Places(T[p]) = I
  PROVE  /\ IsFiniteSet(P) /\ IsFiniteSet(PagesOf(T, P, I))
         /\ Cardinality(PagesOf(T, P, I)) = Cardinality(P) * Cardinality(I)
<1>1. ASSUME NEW p \in P, NEW q \in P, NEW i \in I, NEW j \in I,
             PageAt(T[p], i) = PageAt(T[q], j)
      PROVE  p = q /\ i = j
  BY <1>1 DEF OwnersOK
<1>2. ASSUME NEW p \in P, NEW i \in I PROVE PageAt(T[p], i) \in KPages
  <2>1. PageAt(T[p], i) \in TaskPages(T)
    BY TaskPagesAre DEF HasPage
  <2> QED
    BY <2>1 DEF OwnersOK, Memory
<1>3. IsFiniteSet(P)
  <2>1. PICK g : g = [p \in P |-> PageAt(T[p], 0)]
    OBVIOUS
  <2>2. g \in [P -> KPages] /\ \A p, q \in P : g[p] = g[q] => p = q
    BY <1>1, <1>2, <2>1
  <2> QED
    BY <2>2, FramesAre, OneToOne
<1>4. PICK X : X = P \X I
  OBVIOUS
<1>5. PICK V : V = PagesOf(T, P, I)
  OBVIOUS
<1>6. PICK f : f = [x \in X |-> PageAt(T[x[1]], x[2])]
  OBVIOUS
<1>7. /\ V \in SUBSET KPages /\ f \in [X -> V]
      /\ \A v \in V : \E x \in X : f[x] = v
  BY <1>2, <1>4, <1>5, <1>6 DEF PagesOf
<1>8. ASSUME NEW x \in X, NEW y \in X, f[x] = f[y] PROVE x = y
  <2>1. /\ x[1] \in P /\ x[2] \in I /\ x = <<x[1], x[2]>>
        /\ y[1] \in P /\ y[2] \in I /\ y = <<y[1], y[2]>>
    BY <1>4
  <2>2. PageAt(T[x[1]], x[2]) = PageAt(T[y[1]], y[2])
    BY <1>6, <1>8
  <2> QED
    BY <1>1, <2>1, <2>2
<1>9. IsFiniteSet(V)
  BY <1>7, FramesAre, FS_Subset
<1>10. Cardinality(X) = Cardinality(V)
  BY <1>7, <1>8, <1>9, OneToOne
<1>11. Cardinality(X) = Cardinality(P) * Cardinality(I)
  BY <1>3, <1>4, FS_Product
<1> QED
  BY <1>3, <1>5, <1>9, <1>10, <1>11

LEMMA UpTo ==
  ASSUME NEW n \in Nat
  PROVE  IsFiniteSet(0..n) /\ Cardinality(0..n) = n + 1 /\ 0 \in 0..n
<1>1. PICK z \in Int : z = 0
  OBVIOUS
<1>2. n \in Int /\ ~(z > n)
  BY <1>1
<1>3. IsFiniteSet(z..n) /\ Cardinality(z..n) = IF z > n THEN 0 ELSE n - z + 1
  BY <1>2, FS_Interval
<1> QED
  BY <1>1, <1>2, <1>3

(***************************************************************************)
(* The pages of the tasks: 2 + bitmap_pg_cnt of one that lives, two of one *)
(* that nobody has waited for yet.                                         *)
(***************************************************************************)
LEMMA TaskPagesCount ==
  ASSUME NEW m \in Memory, NEW T, NEW O, OwnersOK(m, T, O),
         NEW A, A = {p \in Procs : T[p].status \in {"ready", "running"}},
         NEW Z, Z = {p \in Procs : T[p].status = "hanging"}
  PROVE  /\ IsFiniteSet(A) /\ IsFiniteSet(Z) /\ IsFiniteSet(TaskPages(T))
         /\ Cardinality(TaskPages(T)) =
               Cardinality(A) * (2 + bitmap_pg_cnt) + 2 * Cardinality(Z)
<1>1. PICK bp \in Nat : bp = bitmap_pg_cnt
  BY ConstantsAre
<1>2. PICK I : I = 0..(bp + 1)
  OBVIOUS
<1>3. PICK J : J = 0..1
  OBVIOUS
<1>4. /\ IsFiniteSet(I) /\ Cardinality(I) = 2 + bp /\ 0 \in I
      /\ IsFiniteSet(J) /\ Cardinality(J) = 2 /\ 0 \in J
  <2>1. PICK n \in Nat : n = bp + 1
    BY <1>1
  <2>2. PICK n1 \in Nat : n1 = 1
    OBVIOUS
  <2>3. /\ IsFiniteSet(0..n) /\ Cardinality(0..n) = n + 1 /\ 0 \in 0..n
        /\ IsFiniteSet(0..n1) /\ Cardinality(0..n1) = n1 + 1 /\ 0 \in 0..n1
    BY UpTo
  <2> QED
    BY <1>2, <1>3, <2>1, <2>2, <2>3
<1>5. /\ A \in SUBSET Procs /\ \A p \in A : Places(T[p]) = I
      /\ Z \in SUBSET Procs /\ \A p \in Z : Places(T[p]) = J
  BY <1>1, <1>2, <1>3 DEF Places
<1>6. A \cap Z = {} /\ \A p \in Procs : p \notin A /\ p \notin Z => Places(T[p]) = {}
  BY DEF Places
<1>7. PICK V : V = PagesOf(T, A, I)
  OBVIOUS
<1>8. PICK W : W = PagesOf(T, Z, J)
  OBVIOUS
<1>9. /\ IsFiniteSet(A) /\ IsFiniteSet(V)
      /\ Cardinality(V) = Cardinality(A) * Cardinality(I)
  <2>1. A \in SUBSET Procs /\ \A p \in A : Places(T[p]) = I
    BY <1>5
  <2> QED
    BY <1>4, <1>7, <2>1, PagesOfCount
<1>10. /\ IsFiniteSet(Z) /\ IsFiniteSet(W)
       /\ Cardinality(W) = Cardinality(Z) * Cardinality(J)
  <2>1. Z \in SUBSET Procs /\ \A p \in Z : Places(T[p]) = J
    BY <1>5
  <2> QED
    BY <1>4, <1>8, <2>1, PagesOfCount
<1>11. TaskPages(T) = V \cup W
  <2>1. ASSUME NEW k \in TaskPages(T) PROVE k \in V \cup W
    <3>1. PICK p \in Procs : HasPage(T[p], k)
      BY TaskPagesAre
    <3>2. PICK i \in Places(T[p]) : PageAt(T[p], i) = k
      BY <3>1 DEF HasPage
    <3>3. CASE p \in A
      <4>1. <<p, i>> \in A \X I
        BY <1>5, <3>2, <3>3
      <4> QED
        BY <1>7, <3>2, <4>1 DEF PagesOf
    <3>4. CASE p \in Z
      <4>1. <<p, i>> \in Z \X J
        BY <1>5, <3>2, <3>4
      <4> QED
        BY <1>8, <3>2, <4>1 DEF PagesOf
    <3> QED
      BY <1>6, <3>2, <3>3, <3>4
  <2>2. ASSUME NEW k \in V \cup W PROVE k \in TaskPages(T)
    <3>1. PICK p, i : p \in Procs /\ i \in Places(T[p]) /\ PageAt(T[p], i) = k
      BY <1>5, <1>7, <1>8 DEF PagesOf
    <3> QED
      BY <3>1, TaskPagesAre DEF HasPage
  <2> QED
    BY <2>1, <2>2
<1>12. V \cap W = {}
  <2> SUFFICES ASSUME NEW k \in V \cap W PROVE FALSE
    OBVIOUS
  <2>1. PICK p \in A, i \in I : PageAt(T[p], i) = k
    BY <1>7 DEF PagesOf
  <2>2. PICK q \in Z, j \in J : PageAt(T[q], j) = k
    BY <1>8 DEF PagesOf
  <2>3. p = q
    BY <1>5, <2>1, <2>2 DEF OwnersOK
  <2> QED
    BY <1>6, <2>3
<1>13. /\ IsFiniteSet(V \cup W)
       /\ Cardinality(V \cup W) = Cardinality(V) + Cardinality(W)
  BY <1>9, <1>10, <1>12, DisjointUnion
<1>14. Cardinality(A) \in Nat /\ Cardinality(Z) \in Nat
  BY <1>9, <1>10, FS_CardinalityType
<1>15. /\ Cardinality(V) = Cardinality(A) * (2 + bp)
       /\ Cardinality(W) = 2 * Cardinality(Z)
  BY <1>4, <1>9, <1>10, <1>14
<1> QED
  BY <1>1, <1>9, <1>10, <1>11, <1>13, <1>15

(***************************************************************************)
(* The kernel's frames in the pool: one for every page that is mapped and  *)
(* one for every page table of a process that lives.                       *)
(***************************************************************************)
LivingOf(T) == {p \in Procs : T[p].status \in {"ready", "running"}}
TablesOf(T) == {x \in LivingOf(T) \X Tables : T[x[1]].pde[x[2]] # NoFrame}

LEMMA KernelFramesCount ==
  ASSUME NEW m \in Memory, NEW T \in [Procs -> Task], KernelOK(m, T),
         \A p \in Procs : TaskOK(T[p]), NEW M, M \subseteq m.kvaddr,
         UsedIsMapped(m, M), PoolIsUsed(m, T)
  PROVE  /\ IsFiniteSet(TablesOf(T))
         /\ Cardinality(m.pool \cap KFrames) =
               Cardinality(m.kvaddr \ M) + Cardinality(TablesOf(T))
<1>0. PICK X : X = TablesOf(T)
  OBVIOUS
<1>1. PICK K : K = m.kvaddr \ M
  OBVIOUS
<1>2. PICK V : V = {m.kmap[k] : k \in K}
  OBVIOUS
<1>3. PICK W : W = {T[x[1]].pde[x[2]] : x \in X}
  OBVIOUS
<1>4. /\ K \subseteq KPages /\ m.kvaddr \subseteq KPages
      /\ \A k \in KPages : /\ m.kmap[k] \in KFrames \cup {NoFrame}
                           /\ m.kmap[k] # NoFrame <=> k \in K
  BY <1>1 DEF Memory, UsedIsMapped
<1>5. ASSUME NEW k \in K PROVE m.kmap[k] \in m.pool \cap KFrames
  BY <1>4 DEF KernelOK, MapOK
<1>6. ASSUME NEW x \in X
      PROVE  /\ x[1] \in Procs /\ x[2] \in Tables
             /\ x = <<x[1], x[2]>> /\ T[x[1]].pde[x[2]] # NoFrame
  BY <1>0 DEF TablesOf, LivingOf
<1>7. ASSUME NEW x \in X PROVE T[x[1]].pde[x[2]] \in m.pool \cap KFrames
  <2>1. /\ x[1] \in Procs /\ x[2] \in Tables /\ T[x[1]].pde[x[2]] # NoFrame
    BY <1>6
  <2>2. T[x[1]].pde[x[2]] \in KFrames \cup {NoFrame}
    BY <2>1 DEF Task
  <2> QED
    BY <2>1, <2>2 DEF KernelOK, TablesOK
<1>8. V \in SUBSET KFrames /\ W \in SUBSET KFrames /\ V \cup W \subseteq m.pool \cap KFrames
  BY <1>2, <1>3, <1>5, <1>7
<1>9. ASSUME NEW f \in m.pool \cap KFrames PROVE f \in V \cup W
  <2>1. f # NoFrame
    BY FramesAre
  <2>2. CASE \E k \in KPages : m.kmap[k] = f
    BY <1>2, <1>4, <2>1, <2>2
  <2>3. CASE \E p \in Procs, k \in Tables : T[p].pde[k] = f
    <3>1. PICK p \in Procs, k \in Tables : T[p].pde[k] = f
      BY <2>3
    <3>2. T[p].status \in {"ready", "running"}
      BY <2>1, <3>1 DEF TaskOK, Task
    <3>3. <<p, k>> \in X
      BY <1>0, <2>1, <3>1, <3>2 DEF TablesOf, LivingOf
    <3> QED
      BY <1>3, <3>1, <3>3
  <2> QED
    BY <2>2, <2>3 DEF PoolIsUsed
<1>10. V \cap W = {}
  <2> SUFFICES ASSUME NEW f \in V, NEW x \in X, f = T[x[1]].pde[x[2]] PROVE FALSE
    BY <1>3
  <2>1. PICK k \in KPages : m.kmap[k] = f
    BY <1>2, <1>4
  <2> QED
    BY <1>6, <2>1 DEF KernelOK, TablesOK
<1>11. IsFiniteSet(V) /\ IsFiniteSet(W)
  BY <1>8, FramesAre, FS_Subset
<1>12. Cardinality(K) = Cardinality(V)
  <2>1. PICK f : f = [k \in K |-> m.kmap[k]]
    OBVIOUS
  <2>2. f \in [K -> V] /\ \A v \in V : \E k \in K : f[k] = v
    BY <1>2, <2>1
  <2>3. \A j, k \in K : f[j] = f[k] => j = k
    BY <1>4, <2>1 DEF KernelOK, MapOK
  <2> QED
    BY <1>11, <2>2, <2>3, OneToOne
<1>13. IsFiniteSet(X) /\ Cardinality(X) = Cardinality(W)
  <2>1. PICK f : f = [x \in X |-> T[x[1]].pde[x[2]]]
    OBVIOUS
  <2>2. f \in [X -> W] /\ \A w \in W : \E x \in X : f[x] = w
    BY <1>3, <2>1
  <2>3. ASSUME NEW x \in X, NEW y \in X, f[x] = f[y] PROVE x = y
    <3>1. T[x[1]].pde[x[2]] = T[y[1]].pde[y[2]]
      BY <2>1, <2>3
    <3>2. x[1] = y[1] /\ x[2] = y[2]
      BY <1>6, <3>1 DEF KernelOK, TablesOK
    <3> QED
      BY <1>6, <3>2
  <2> QED
    BY <1>11, <2>2, <2>3, OneToOne
<1>14. m.pool \cap KFrames = V \cup W
  BY <1>8, <1>9
<1>15. Cardinality(V \cup W) = Cardinality(V) + Cardinality(W)
  BY <1>10, <1>11, DisjointUnion
<1> QED
  BY <1>0, <1>1, <1>12, <1>13, <1>14, <1>15

(***************************************************************************)
(* Whatever is executed, forked and waited for, with main preempted in its *)
(* palloc or not, the only pages and frames that memory.c loses are the    *)
(* last page of the bitmap of each process that has exited: the division   *)
(* of release_prog_resource (wait_exit.c) rounds down where                *)
(* create_user_vaddr_bitmap (process.c) rounded up.                        *)
(***************************************************************************)
THEOREM LeakIsOnePagePerExitHolds == Spec => []LeakIsOnePagePerExit
<1>1. IInv => LeakIsOnePagePerExit
  <2> SUFFICES ASSUME IInv, ~raced PROVE LeakIsOnePagePerExit
    BY DEF LeakIsOnePagePerExit
  <2>1. /\ mem \in Memory /\ task \in [Procs -> Task] /\ kheap \subseteq KPages
        /\ KernelOK(mem, task) /\ Owned(mem, task, kheap, main, exits)
        /\ \A p \in Procs : TaskOK(task[p])
    BY DEF IInv, PagesTypeOK
  <2>2. PICK A : A = {p \in Procs : Living(p)}
    OBVIOUS
  <2>3. PICK Z : Z = {p \in Procs : task[p].status = "hanging"}
    OBVIOUS
  <2>4. PICK X : X = {x \in A \X Tables : task[x[1]].pde[x[2]] # NoFrame}
    OBVIOUS
  <2>5. PICK M : M = MainPage(main)
    OBVIOUS
  <2>6. PICK O : O = Held(kheap, main)
    OBVIOUS
  <2>7. PICK L : L = Lost(mem, task, O)
    OBVIOUS
  <2>8. PICK V : V = TaskPages(task)
    OBVIOUS
  <2>9. /\ OwnersOK(mem, task, O) /\ UsedIsMapped(mem, M) /\ PoolIsUsed(mem, task)
        /\ kheap \cap M = {} /\ O = kheap \cup M
        /\ Cardinality(L) = exits * (bitmap_pg_cnt - release_pg_cnt)
    BY <2>1, <2>5, <2>6, <2>7 DEF Owned, Held, LostCount
  <2>10. A = {p \in Procs : task[p].status \in {"ready", "running"}}
    BY <2>2 DEF Living
  <2>11. /\ IsFiniteSet(A) /\ IsFiniteSet(Z) /\ IsFiniteSet(V)
         /\ Cardinality(V) = Cardinality(A) * (2 + bitmap_pg_cnt) + 2 * Cardinality(Z)
    BY <2>1, <2>3, <2>8, <2>9, <2>10, TaskPagesCount
  <2>12. /\ V \cap O = {} /\ V \subseteq mem.kvaddr /\ O \subseteq mem.kvaddr
         /\ M \subseteq O /\ mem.kvaddr \in SUBSET KPages
         /\ L \in SUBSET KPages /\ O \in SUBSET KPages /\ kheap \in SUBSET KPages
         /\ M \in SUBSET KPages
         /\ mem.kvaddr = L \cup (V \cup O) /\ L \cap (V \cup O) = {}
    BY <2>1, <2>7, <2>8, <2>9 DEF OwnersOK, Lost, Memory
  <2>13. /\ IsFiniteSet(L) /\ IsFiniteSet(O) /\ IsFiniteSet(kheap) /\ IsFiniteSet(M)
         /\ IsFiniteSet(mem.kvaddr)
    BY <2>12, FramesAre, FS_Subset
  <2>14. Cardinality(O) = Cardinality(kheap) + Cardinality(M)
    BY <2>9, <2>13, DisjointUnion
  <2>15. Cardinality(mem.kvaddr) = Cardinality(L) + (Cardinality(V) + Cardinality(O))
    <3>1. /\ IsFiniteSet(V \cup O)
          /\ Cardinality(V \cup O) = Cardinality(V) + Cardinality(O)
      BY <2>11, <2>12, <2>13, DisjointUnion
    <3>2. Cardinality(L \cup (V \cup O)) = Cardinality(L) + Cardinality(V \cup O)
      BY <2>12, <2>13, <3>1, DisjointUnion
    <3> QED
      BY <2>12, <3>1, <3>2
  <2>16. PICK n \in {0, 1} : n = (IF PoolUnlocked THEN 0 ELSE 1)
    OBVIOUS
  <2>17. Cardinality(M) = n
    <3>1. CASE main = Idle
      <4>1. M = {} /\ n = 0
        BY <2>5, <2>16, <3>1 DEF MainPage, PoolUnlocked
      <4> QED
        BY <4>1, FS_EmptySet
    <3>2. CASE main # Idle
      <4>1. M = {main.page} /\ n = 1
        BY <2>5, <2>16, <3>2 DEF MainPage, PoolUnlocked
      <4> QED
        BY <4>1, FS_Singleton
    <3> QED
      BY <3>1, <3>2
  <2>18. Cardinality(mem.kvaddr \ M) = Cardinality(mem.kvaddr) - n
    <3>1. Cardinality(mem.kvaddr \ M) =
             Cardinality(mem.kvaddr) - Cardinality(mem.kvaddr \cap M)
      BY <2>13, FS_Difference
    <3>2. mem.kvaddr \cap M = M
      BY <2>12
    <3> QED
      BY <2>17, <3>1, <3>2
  <2>19. /\ IsFiniteSet(X)
         /\ Cardinality(mem.pool \cap KFrames) =
               Cardinality(mem.kvaddr \ M) + Cardinality(X)
    <3>1. M \subseteq mem.kvaddr
      BY <2>12
    <3>2. X = TablesOf(task)
      BY <2>4, <2>10 DEF TablesOf, LivingOf
    <3>3. /\ IsFiniteSet(TablesOf(task))
          /\ Cardinality(mem.pool \cap KFrames) =
                Cardinality(mem.kvaddr \ M) + Cardinality(TablesOf(task))
      BY <2>1, <2>9, <3>1, KernelFramesCount
    <3> QED
      BY <3>2, <3>3
  <2>20. PICK pages :
            pages = Cardinality(A) * (2 + bitmap_pg_cnt) + 2 * Cardinality(Z)
                      + Cardinality(kheap) + n
                      + exits * (bitmap_pg_cnt - release_pg_cnt)
    OBVIOUS
  <2>21. Cardinality(mem.kvaddr) = pages
    <3>1. PICK v \in Nat : v = Cardinality(A) * (2 + bitmap_pg_cnt) + 2 * Cardinality(Z)
      BY <2>11, FS_CardinalityType
    <3>2. PICK l \in Nat : l = exits * (bitmap_pg_cnt - release_pg_cnt)
      BY <2>9, <2>13, FS_CardinalityType
    <3>3. Cardinality(kheap) \in Nat
      BY <2>13, FS_CardinalityType
    <3>4. pages = v + Cardinality(kheap) + n + l
      BY <2>20, <3>1, <3>2
    <3>5. Cardinality(mem.kvaddr) = l + (v + (Cardinality(kheap) + n))
      BY <2>9, <2>11, <2>14, <2>15, <2>17, <3>1, <3>2
    <3> QED
      BY <3>3, <3>4, <3>5
  <2>22. Cardinality(mem.pool \cap KFrames) = pages + Cardinality(X) - n
    <3>1. Cardinality(mem.kvaddr) \in Nat /\ Cardinality(X) \in Nat
      BY <2>13, <2>19, FS_CardinalityType
    <3> QED
      BY <2>18, <2>19, <2>21, <3>1
  <2> QED
    BY <2>2, <2>3, <2>4, <2>16, <2>20, <2>21, <2>22 DEF LeakIsOnePagePerExit
<1> QED
  BY <1>1, Inductive, PTL

-----------------------------------------------------------------------------
(***************************************************************************)
(* The heap.  s is the free list of class d of process p, with n blocks,   *)
(* as the links N and V of one address space show it.                      *)
(***************************************************************************)
IsList(N, V, p, d, s, n) ==
    /\ s[0] = head(p, d) /\ s[n + 1] = tail(p, d)
    /\ \A i \in 1..n : s[i] \in Blocks
    /\ \A i, j \in 1..n : s[i] = s[j] => i = j
    /\ \A i \in 0..n : N[s[i]] = s[i + 1] /\ V[s[i + 1]] = s[i]

\* It goes through the blocks of S.
ListOf(N, V, p, d, S, s, n) ==
    /\ s \in [0..(n + 1) -> Nodes]
    /\ IsList(N, V, p, d, s, n)
    /\ \A i \in 1..n : s[i] \in S
    /\ \A b \in S : \E i \in 1..n : s[i] = b

ListIs(N, V, p, d, S) == \E n \in Nat : \E s : ListOf(N, V, p, d, S, s, n)

FreeIn(ar, h, p, d) ==
    {b \in Blocks : /\ b[2] \in DOMAIN ar /\ ar[b[2]].desc = <<p, d>>
                    /\ b[3] <= blocks_pre_arena[d] /\ b \notin h}

Header    == [desc : (Progs \X Classes) \cup {NULL}, cnt : Nat, large : BOOLEAN]
ArenaMaps == UNION {[D -> Header] : D \in SUBSET HeapPages}
Areas     == {<<"area", s, c>> : s \in HeapPages, c \in 1..MaxArea}
Pointers  == Blocks \cup Areas

\* The header of page pg of a process, with what the process has.
HeaderOK(ar, h, L, pg) ==
    \/ ar[pg].large /\ ar[pg].desc = NULL
    \/ /\ ~ar[pg].large
       /\ \E q \in L, d \in Classes :
             /\ ar[pg].desc = <<q, d>>
             /\ ar[pg].cnt = Cardinality(ArenaBlocks(pg, d) \ h)
             /\ ar[pg].cnt < blocks_pre_arena[d]

PagesOfArea(x) == x[2]..(x[2] + x[3] - 1)

\* What a program may free: a block of an arena, or an area of its own.
PointerOK(ar, x) ==
    \/ /\ x \in Blocks /\ x[2] \in DOMAIN ar /\ ~ar[x[2]].large
       /\ x[3] <= blocks_pre_arena[ar[x[2]].desc[2]]
    \/ /\ x \in Areas /\ ar[x[2]].cnt = x[3]
       /\ \A q \in PagesOfArea(x) : q \in DOMAIN ar /\ ar[q].large

HeldOK(ar, h) ==
    /\ \A x \in h : PointerOK(ar, x)
    /\ \A x, y \in h \cap Areas : x # y => PagesOfArea(x) \cap PagesOfArea(y) = {}

ProgOK(ar, h, L) == HeldOK(ar, h) /\ \A pg \in DOMAIN ar : HeaderOK(ar, h, L, pg)

HeapTypeOK ==
    /\ live \subseteq Progs
    /\ arena \in [Progs -> ArenaMaps] /\ held \in [Progs -> SUBSET Pointers]
    /\ next \in [Progs -> [Nodes -> Nodes]] /\ prev \in [Progs -> [Nodes -> Nodes]]

HeapSound ==
    /\ ~fault /\ HeapTypeOK
    /\ \A p \in live : ProgOK(arena[p], held[p], live)
    /\ \A p \in live, d \in Classes :
          ListIs(next[p], prev[p], p, d, FreeIn(arena[p], held[p], p, d))

HeapInv == ~foreign => HeapSound

LEMMA HeapConstants ==
  /\ FirstProg \in Progs /\ NHeap \in Nat /\ MaxArea \in Nat /\ MaxBlock \in Nat
  /\ HeapPages \subseteq Nat
  /\ \A d \in Classes : /\ blocks_pre_arena[d] \in Nat /\ blocks_pre_arena[d] > 0
                        /\ blocks_pre_arena[d] <= MaxBlock
  BY HeapAssumption DEF HeapPages

\* What list_elem pointers are told apart by.
LEMMA NodesApart ==
  /\ \A b \in Blocks : /\ b \in Nodes /\ b \notin Ends /\ b # NULL
                       /\ b[2] \in HeapPages /\ b[3] \in 1..MaxBlock
                       /\ b = <<"block", b[2], b[3]>>
  /\ \A p, q, d, e : head(p, d) # tail(q, e) /\ (head(p, d) = head(q, e) => p = q /\ d = e)
  /\ \A p, q, d, e : tail(p, d) = tail(q, e) => p = q /\ d = e
  /\ \A p, d : head(p, d) \notin Blocks /\ tail(p, d) \notin Blocks
  /\ \A p, d : head(p, d) # NULL /\ tail(p, d) # NULL
  /\ \A p \in Progs, d \in Classes : {head(p, d), tail(p, d)} \subseteq Ends \cap Nodes
  /\ Ends \subseteq Nodes /\ NULL \in Nodes
  BY DEF Nodes, Blocks, Ends, NULL, head, tail

LEMMA BlocksAre ==
  ASSUME NEW pg \in HeapPages, NEW d \in Classes
  PROVE  /\ ArenaBlocks(pg, d) \subseteq Blocks
         /\ \A b \in Blocks : b \in ArenaBlocks(pg, d) <=> b[2] = pg /\ b[3] <= blocks_pre_arena[d]
         /\ \A i \in 1..blocks_pre_arena[d] : <<"block", pg, i>> \in ArenaBlocks(pg, d)
<1>1. ArenaBlocks(pg, d) \subseteq Blocks
  BY HeapConstants DEF ArenaBlocks, Blocks
<1>2. ASSUME NEW b \in Blocks
      PROVE  b \in ArenaBlocks(pg, d) <=> b[2] = pg /\ b[3] <= blocks_pre_arena[d]
  <2>1. PICK g \in HeapPages, i \in 1..MaxBlock : b = <<"block", g, i>>
    BY DEF Blocks
  <2> QED
    BY <2>1, HeapConstants DEF ArenaBlocks
<1> QED
  BY <1>1, <1>2 DEF ArenaBlocks

LEMMA BlocksFinite ==
  /\ IsFiniteSet(Blocks) /\ Cardinality(Blocks) \in Nat /\ MaxChain \in Nat
  /\ \A pg, d : d \in Classes => IsFiniteSet(ArenaBlocks(pg, d))
<1>1. IsFiniteSet(HeapPages \X (1..MaxBlock))
  <2>1. IsFiniteSet(HeapPages) /\ IsFiniteSet(1..MaxBlock)
    BY FS_Interval, HeapConstants DEF HeapPages
  <2> QED
    BY <2>1, FS_Product
<1> DEFINE f == [b \in Blocks |-> <<b[2], b[3]>>]
<1>2. f \in Injection(Blocks, HeapPages \X (1..MaxBlock))
  BY DEF Injection, IsInjective, Blocks
<1>3. IsFiniteSet(Blocks)
  <2> HIDE DEF f
  <2> QED
    BY <1>1, <1>2, FS_Injection
<1>4. ASSUME NEW pg, NEW d \in Classes PROVE IsFiniteSet(ArenaBlocks(pg, d))
  <2> DEFINE g == [b \in ArenaBlocks(pg, d) |-> b[3]]
  <2>1. g \in Injection(ArenaBlocks(pg, d), 1..blocks_pre_arena[d])
    BY DEF Injection, IsInjective, ArenaBlocks
  <2>2. IsFiniteSet(1..blocks_pre_arena[d])
    BY FS_Interval, HeapConstants
  <2> HIDE DEF g
  <2> QED
    BY <2>1, <2>2, FS_Injection
<1> QED
  BY <1>3, <1>4, FS_CardinalityType DEF MaxChain

-----------------------------------------------------------------------------
(***************************************************************************)
(* The lists of lib/list.c, as one address space sees them.                *)
(***************************************************************************)
LEMMA ListSame ==
  ASSUME NEW N, NEW V, NEW N2, NEW V2, NEW p, NEW d, NEW S, ListIs(N, V, p, d, S),
         \A x \in S \cup {head(p, d)} : N2[x] = N[x],
         \A x \in S \cup {tail(p, d)} : V2[x] = V[x]
  PROVE  ListIs(N2, V2, p, d, S)
<1>n. PICK n \in Nat : \E s : ListOf(N, V, p, d, S, s, n)
  BY DEF ListIs
<1>s. PICK s : ListOf(N, V, p, d, S, s, n)
  BY <1>n
<1>1. /\ s \in [0..(n + 1) -> Nodes]
      /\ IsList(N, V, p, d, s, n)
      /\ \A i \in 1..n : s[i] \in S
      /\ \A b \in S : \E i \in 1..n : s[i] = b
  BY <1>s DEF ListOf
<1>2. ASSUME NEW i \in 0..n PROVE s[i] \in S \cup {head(p, d)} /\ s[i + 1] \in S \cup {tail(p, d)}
  <2>1. s[i] \in S \cup {head(p, d)}
    BY <1>1 DEF IsList
  <2>2. CASE i = n
    BY <1>1, <2>1, <2>2 DEF IsList
  <2>3. CASE i < n
    <3>1. i + 1 \in 1..n
      BY <2>3
    <3> QED
      BY <1>1, <2>1, <3>1
  <2> QED
    BY <2>2, <2>3
<1>3. IsList(N2, V2, p, d, s, n)
  BY <1>1, <1>2 DEF IsList
<1>4. ListOf(N2, V2, p, d, S, s, n)
  BY <1>1, <1>3 DEF ListOf
<1> QED
  BY <1>4 DEF ListIs

LEMMA ListEmpty ==
  ASSUME NEW N, NEW V, NEW p \in Progs, NEW d \in Classes,
         N[head(p, d)] = tail(p, d), V[tail(p, d)] = head(p, d)
  PROVE  ListIs(N, V, p, d, {})
<1> DEFINE s == [i \in 0..1 |-> IF i = 0 THEN head(p, d) ELSE tail(p, d)]
<1>1. s[0] = head(p, d) /\ s[1] = tail(p, d)
  OBVIOUS
<1>2. s \in [0..(0 + 1) -> Nodes]
  BY NodesApart
<1> HIDE DEF s
<1>3. IsList(N, V, p, d, s, 0)
  BY <1>1 DEF IsList
<1>4. ListOf(N, V, p, d, {}, s, 0)
  BY <1>2, <1>3 DEF ListOf
<1> QED
  BY <1>4 DEF ListIs

LEMMA ListAppend ==
  ASSUME NEW N, NEW V, NEW N2, NEW V2, NEW p \in Progs, NEW d \in Classes, NEW S,
         ListIs(N, V, p, d, S), NEW b \in Blocks, b \notin S,
         NEW q, q = V[tail(p, d)],
         N2[q] = b, N2[b] = tail(p, d), \A x \in Nodes : x # q /\ x # b => N2[x] = N[x],
         V2[b] = q, V2[tail(p, d)] = b,
         \A x \in Nodes : x # b /\ x # tail(p, d) => V2[x] = V[x]
  PROVE  ListIs(N2, V2, p, d, S \cup {b})
<1>n. PICK n \in Nat : \E s : ListOf(N, V, p, d, S, s, n)
  BY DEF ListIs
<1>s. PICK s : ListOf(N, V, p, d, S, s, n)
  BY <1>n
<1>1. /\ s \in [0..(n + 1) -> Nodes]
      /\ IsList(N, V, p, d, s, n)
      /\ \A i \in 1..n : s[i] \in S
      /\ \A c \in S : \E i \in 1..n : s[i] = c
  BY <1>s DEF ListOf
<1>2. /\ s[0] = head(p, d) /\ s[n + 1] = tail(p, d)
      /\ \A i \in 1..n : s[i] \in Blocks
      /\ \A i, j \in 1..n : s[i] = s[j] => i = j
      /\ \A i \in 0..n : N[s[i]] = s[i + 1] /\ V[s[i + 1]] = s[i]
  BY <1>1 DEF IsList
<1>3. q = s[n]
  BY <1>2
<1>4. ASSUME NEW i \in 0..n PROVE s[i] \in Nodes /\ s[i] # b /\ s[i] # tail(p, d) /\ (i < n => s[i] # q)
  <2>1. i = 0 \/ i \in 1..n
    OBVIOUS
  <2>2. s[i] \in Nodes
    BY <1>1
  <2>3. s[i] # b /\ s[i] # tail(p, d)
    BY <1>1, <1>2, <2>1, NodesApart
  <2>4. i < n => s[i] # q
    <3>1. CASE i = 0
      <4>1. n > 0 => s[n] \in Blocks
        BY <1>2
      <4> QED
        BY <1>2, <1>3, <3>1, <4>1, NodesApart
    <3>2. CASE i \in 1..n
      BY <1>2, <1>3, <3>2
    <3> QED
      BY <2>1, <3>1, <3>2
  <2> QED
    BY <2>2, <2>3, <2>4
<1> DEFINE t == [i \in 0..((n + 1) + 1) |-> IF i <= n THEN s[i] ELSE IF i = n + 1 THEN b ELSE tail(p, d)]
<1>5. /\ \A i \in 0..n : t[i] = s[i]
      /\ t[n + 1] = b /\ t[(n + 1) + 1] = tail(p, d)
  OBVIOUS
<1>6. t \in [0..((n + 1) + 1) -> Nodes]
  <2>1. b \in Nodes /\ tail(p, d) \in Nodes
    BY NodesApart
  <2> QED
    BY <1>4, <2>1
<1> HIDE DEF t
<1>7. \A i \in 1..(n + 1) : (i \in 1..n /\ t[i] = s[i]) \/ (i = n + 1 /\ t[i] = b)
  BY <1>5
<1>8. ASSUME NEW i \in 0..(n + 1) PROVE N2[t[i]] = t[i + 1] /\ V2[t[i + 1]] = t[i]
  <2>1. CASE i < n
    <3>1. i \in 0..n /\ i + 1 \in 0..n
      BY <2>1
    <3>2. t[i] = s[i] /\ t[i + 1] = s[i + 1]
      BY <1>5, <3>1
    <3>3. N2[s[i]] = N[s[i]]
      BY <1>4, <2>1, <3>1
    <3>4. V2[s[i + 1]] = V[s[i + 1]]
      BY <1>4, <3>1
    <3> QED
      BY <1>2, <3>1, <3>2, <3>3, <3>4
  <2>2. CASE i = n
    BY <1>3, <1>5, <2>2
  <2>3. CASE i = n + 1
    BY <1>5, <2>3
  <2> QED
    BY <2>1, <2>2, <2>3
<1>9. IsList(N2, V2, p, d, t, n + 1)
  <2>1. t[0] = head(p, d) /\ t[(n + 1) + 1] = tail(p, d)
    BY <1>2, <1>5
  <2>2. \A i \in 1..(n + 1) : t[i] \in Blocks
    BY <1>2, <1>7
  <2>3. \A i, j \in 1..(n + 1) : t[i] = t[j] => i = j
    BY <1>1, <1>2, <1>7
  <2> QED
    BY <1>8, <2>1, <2>2, <2>3 DEF IsList
<1>10. \A i \in 1..(n + 1) : t[i] \in S \cup {b}
  BY <1>1, <1>7
<1>11. ASSUME NEW c \in S \cup {b} PROVE \E i \in 1..(n + 1) : t[i] = c
  <2>1. CASE c = b
    BY <1>5, <2>1
  <2>2. CASE c \in S
    <3>1. PICK i \in 1..n : s[i] = c
      BY <1>1, <2>2
    <3> QED
      BY <1>5, <3>1
  <2> QED
    BY <2>1, <2>2
<1>12. ListOf(N2, V2, p, d, S \cup {b}, t, n + 1)
  BY <1>6, <1>9, <1>10, <1>11 DEF ListOf
<1> QED
  BY <1>12 DEF ListIs
\* b's neighbours q and r have been linked to each other.
Unlinked(N, V, N2, V2, b, q, r) ==
    /\ q = V[b] /\ r = N[b]
    /\ N2[q] = r /\ \A x \in Nodes : x # q => N2[x] = N[x]
    /\ V2[r] = q /\ \A x \in Nodes : x # r => V2[x] = V[x]

LEMMA ListRemove ==
  ASSUME NEW N, NEW V, NEW N2, NEW V2, NEW p \in Progs, NEW d \in Classes, NEW S,
         ListIs(N, V, p, d, S), NEW b \in S, NEW q, NEW r, Unlinked(N, V, N2, V2, b, q, r)
  PROVE  /\ q \in S \cup {head(p, d)} /\ r \in S \cup {tail(p, d)}
         /\ ListIs(N2, V2, p, d, S \ {b})
<1>0. /\ q = V[b] /\ r = N[b]
      /\ N2[q] = r /\ \A x \in Nodes : x # q => N2[x] = N[x]
      /\ V2[r] = q /\ \A x \in Nodes : x # r => V2[x] = V[x]
  BY DEF Unlinked
<1>n. PICK n \in Nat : \E s : ListOf(N, V, p, d, S, s, n)
  BY DEF ListIs
<1>s. PICK s : ListOf(N, V, p, d, S, s, n)
  BY <1>n
<1>1. /\ s \in [0..(n + 1) -> Nodes]
      /\ \A i \in 1..n : s[i] \in S
      /\ \A c \in S : \E i \in 1..n : s[i] = c
  BY <1>s DEF ListOf
<1>2. /\ s[0] = head(p, d) /\ s[n + 1] = tail(p, d)
      /\ \A i \in 1..n : s[i] \in Blocks
      /\ \A i, j \in 1..n : s[i] = s[j] => i = j
      /\ \A i \in 0..n : N[s[i]] = s[i + 1] /\ V[s[i + 1]] = s[i]
  BY <1>s DEF ListOf, IsList
<1>3. \A i, j \in 0..(n + 1) : s[i] = s[j] => i = j
  <2> SUFFICES ASSUME NEW i \in 0..(n + 1), NEW j \in 0..(n + 1), s[i] = s[j] PROVE i = j
    OBVIOUS
  <2>1. (i = 0 \/ i = n + 1 \/ i \in 1..n) /\ (j = 0 \/ j = n + 1 \/ j \in 1..n)
    OBVIOUS
  <2> QED
    BY <1>2, <2>1, NodesApart
<1>4. PICK k \in 1..n : s[k] = b
  BY <1>1
<1>5. k \in 0..n /\ k - 1 \in 0..n /\ (k - 1) + 1 = k /\ k + 1 \in 1..(n + 1)
  BY <1>4
<1>6. q = s[k - 1] /\ r = s[k + 1]
  BY <1>0, <1>2, <1>4, <1>5
<1>7. q \in S \cup {head(p, d)} /\ r \in S \cup {tail(p, d)}
  <2>1. k - 1 = 0 \/ k - 1 \in 1..n
    BY <1>5
  <2>2. k + 1 = n + 1 \/ k + 1 \in 1..n
    BY <1>5
  <2> QED
    BY <1>1, <1>2, <1>6, <2>1, <2>2
<1> DEFINE t == [i \in 0..((n - 1) + 1) |-> IF i < k THEN s[i] ELSE s[i + 1]]
<1>8. /\ \A i \in 0..n : i < k => t[i] = s[i]
      /\ \A i \in 0..n : i >= k => t[i] = s[i + 1]
  OBVIOUS
<1>80. t = [i \in 0..((n - 1) + 1) |-> t[i]]
  OBVIOUS
<1> HIDE DEF t
<1>9. n - 1 \in Nat /\ \A i \in 0..((n - 1) + 1) : i \in 0..n
  BY <1>4
<1>10. t \in [0..((n - 1) + 1) -> Nodes]
  <2>1. ASSUME NEW i \in 0..((n - 1) + 1) PROVE t[i] \in Nodes
    <3>1. i \in 0..n /\ i \in 0..(n + 1) /\ i + 1 \in 0..(n + 1)
      BY <1>9
    <3>2. s[i] \in Nodes /\ s[i + 1] \in Nodes
      BY <1>1, <3>1
    <3> QED
      BY <1>8, <3>1, <3>2
  <2> QED
    BY <1>80, <2>1
<1>11. ASSUME NEW i \in 1..(n - 1)
       PROVE  \E j \in 1..n : j # k /\ t[i] = s[j] /\ j = IF i < k THEN i ELSE i + 1
  <2>1. CASE i < k
    <3>1. i \in 0..n /\ i \in 1..n
      BY <2>1
    <3> QED
      BY <1>8, <2>1, <3>1
  <2>2. CASE i >= k
    <3>1. i \in 0..n /\ i + 1 \in 1..n /\ i + 1 # k
      BY <2>2
    <3> QED
      BY <1>8, <2>2, <3>1
  <2> QED
    BY <2>1, <2>2
<1>12. ASSUME NEW i \in 0..(n - 1) PROVE N2[t[i]] = t[i + 1] /\ V2[t[i + 1]] = t[i]
  <2>1. i \in 0..n /\ i + 1 \in 0..n /\ i + 1 \in 0..(n + 1) /\ i \in 0..(n + 1)
    OBVIOUS
  <2>2. CASE i + 1 < k
    <3>1. t[i] = s[i] /\ t[i + 1] = s[i + 1]
      BY <1>8, <2>1, <2>2
    <3>2. i # k - 1 /\ i + 1 # k + 1 /\ k - 1 \in 0..(n + 1) /\ k + 1 \in 0..(n + 1)
      BY <1>5, <2>2
    <3>3. s[i] # q /\ s[i + 1] # r /\ s[i] \in Nodes /\ s[i + 1] \in Nodes
      BY <1>1, <1>3, <1>6, <2>1, <3>2
    <3> QED
      BY <1>0, <1>2, <2>1, <3>1, <3>3
  <2>3. CASE i + 1 = k
    <3>1. t[i] = s[i] /\ t[i + 1] = s[(i + 1) + 1] /\ i = k - 1
      BY <1>8, <2>1, <2>3
    <3>2. t[i] = q /\ t[i + 1] = r
      BY <1>6, <2>3, <3>1
    <3> QED
      BY <1>0, <3>2
  <2>4. CASE i + 1 > k
    <3>1. t[i] = s[i + 1] /\ t[i + 1] = s[(i + 1) + 1]
      BY <1>8, <2>1, <2>4
    <3>2. /\ i + 1 # k - 1 /\ (i + 1) + 1 # k + 1 /\ k - 1 \in 0..(n + 1) /\ k + 1 \in 0..(n + 1)
          /\ (i + 1) + 1 \in 0..(n + 1)
      BY <1>5, <2>4
    <3>3. s[i + 1] # q /\ s[(i + 1) + 1] # r /\ s[i + 1] \in Nodes /\ s[(i + 1) + 1] \in Nodes
      BY <1>1, <1>3, <1>6, <2>1, <3>2
    <3> QED
      BY <1>0, <1>2, <2>1, <3>1, <3>3
  <2> QED
    BY <2>2, <2>3, <2>4
<1>13. IsList(N2, V2, p, d, t, n - 1)
  <2>1. t[0] = head(p, d)
    BY <1>2, <1>4, <1>8
  <2>2. t[(n - 1) + 1] = tail(p, d)
    <3>1. n \in 0..n /\ n >= k /\ (n - 1) + 1 = n
      BY <1>4
    <3> QED
      BY <1>2, <1>8, <3>1
  <2>3. \A i \in 1..(n - 1) : t[i] \in Blocks
    BY <1>2, <1>11
  <2>4. \A i, j \in 1..(n - 1) : t[i] = t[j] => i = j
    <3> SUFFICES ASSUME NEW i \in 1..(n - 1), NEW j \in 1..(n - 1), t[i] = t[j] PROVE i = j
      OBVIOUS
    <3>1. PICK u \in 1..n : u # k /\ t[i] = s[u] /\ u = IF i < k THEN i ELSE i + 1
      BY <1>11
    <3>2. PICK v \in 1..n : v # k /\ t[j] = s[v] /\ v = IF j < k THEN j ELSE j + 1
      BY <1>11
    <3>3. s[u] = s[v]
      BY <3>1, <3>2
    <3>4. u = v
      BY <1>2, <3>3
    <3> QED
      BY <3>1, <3>2, <3>4
  <2> QED
    BY <1>12, <2>1, <2>2, <2>3, <2>4 DEF IsList
<1>14. ASSUME NEW i \in 1..(n - 1) PROVE t[i] \in S \ {b}
  <2>1. PICK j \in 1..n : j # k /\ t[i] = s[j]
    BY <1>11
  <2>2. s[j] \in S /\ s[j] # s[k]
    BY <1>1, <1>2, <2>1
  <2> QED
    BY <1>4, <2>1, <2>2
<1>15. ASSUME NEW c \in S \ {b} PROVE \E i \in 1..(n - 1) : t[i] = c
  <2>1. PICK j \in 1..n : s[j] = c
    BY <1>1
  <2>2. j # k
    BY <1>4, <2>1
  <2>3. CASE j < k
    <3>1. j \in 1..(n - 1) /\ j \in 0..n
      BY <2>3
    <3> QED
      BY <1>8, <2>1, <2>3, <3>1
  <2>4. CASE j > k
    <3>1. j - 1 \in 1..(n - 1) /\ j - 1 \in 0..n /\ j - 1 >= k /\ (j - 1) + 1 = j
      BY <2>4
    <3> QED
      BY <1>8, <2>1, <3>1
  <2> QED
    BY <2>2, <2>3, <2>4
<1>16. ListOf(N2, V2, p, d, S \ {b}, t, n - 1)
  BY <1>10, <1>13, <1>14, <1>15 DEF ListOf
<1> QED
  BY <1>7, <1>9, <1>16 DEF ListIs

\* An empty list, and the first element of another.
LEMMA ListFirst ==
  ASSUME NEW N, NEW V, NEW p, NEW d, NEW S, ListIs(N, V, p, d, S)
  PROVE  /\ N[head(p, d)] = tail(p, d) <=> S = {}
         /\ S # {} => N[head(p, d)] \in S
         /\ \A b \in S : N[b] # NULL /\ V[b] # NULL
<1>n. PICK n \in Nat : \E s : ListOf(N, V, p, d, S, s, n)
  BY DEF ListIs
<1>s. PICK s : ListOf(N, V, p, d, S, s, n)
  BY <1>n
<1>1. /\ s \in [0..(n + 1) -> Nodes]
      /\ \A i \in 1..n : s[i] \in S
      /\ \A c \in S : \E i \in 1..n : s[i] = c
  BY <1>s DEF ListOf
<1>2. /\ s[0] = head(p, d) /\ s[n + 1] = tail(p, d)
      /\ \A i \in 1..n : s[i] \in Blocks
      /\ \A i \in 0..n : N[s[i]] = s[i + 1] /\ V[s[i + 1]] = s[i]
  BY <1>s DEF ListOf, IsList
<1>3. \A i \in 0..(n + 1) : s[i] # NULL
  <2> SUFFICES ASSUME NEW i \in 0..(n + 1) PROVE s[i] # NULL
    OBVIOUS
  <2>1. i = 0 \/ i = n + 1 \/ i \in 1..n
    OBVIOUS
  <2> QED
    BY <1>2, <2>1, NodesApart
<1>4. N[head(p, d)] = s[1]
  BY <1>2
<1>5. CASE n = 0
  BY <1>1, <1>2, <1>4, <1>5
<1>6. CASE n > 0
  <2>1. 1 \in 1..n
    BY <1>6
  <2>2. s[1] \in S /\ s[1] # tail(p, d)
    BY <1>1, <1>2, <2>1, NodesApart
  <2>3. ASSUME NEW b \in S PROVE N[b] # NULL /\ V[b] # NULL
    <3>1. PICK k \in 1..n : s[k] = b
      BY <1>1
    <3>2. k \in 0..n /\ k - 1 \in 0..n /\ (k - 1) + 1 = k /\ k + 1 \in 0..(n + 1) /\ k - 1 \in 0..(n + 1)
      BY <3>1
    <3>3. N[b] = s[k + 1] /\ V[b] = s[k - 1]
      BY <1>2, <3>1, <3>2
    <3> QED
      BY <1>3, <3>2, <3>3
  <2> QED
    BY <1>4, <2>2, <2>3
<1> QED
  BY <1>5, <1>6
-----------------------------------------------------------------------------
(***************************************************************************)
(* The links of all address spaces.  Touches: from m to m2 only process p  *)
(* sees other links, and only at the blocks T and at the ends of its list  *)
(* of class d, which the others see too.                                   *)
(***************************************************************************)
LinkMaps == [next : [Progs -> [Nodes -> Nodes]], prev : [Progs -> [Nodes -> Nodes]]]

Touches(m, m2, p, d, T) ==
    /\ m2 \in LinkMaps
    /\ \A x \in Nodes : x \notin T /\ x # head(p, d) => m2.next[p][x] = m.next[p][x]
    /\ \A x \in Nodes : x \notin T /\ x # tail(p, d) => m2.prev[p][x] = m.prev[p][x]
    /\ \A a \in Progs : a # p =>
          \A x \in Nodes : /\ x # head(p, d) => m2.next[a][x] = m.next[a][x]
                           /\ x # tail(p, d) => m2.prev[a][x] = m.prev[a][x]

LEMMA TouchesTwice ==
  ASSUME NEW m, NEW m2, NEW m3, NEW p, NEW d, NEW T,
         Touches(m, m2, p, d, T), Touches(m2, m3, p, d, T)
  PROVE  Touches(m, m3, p, d, T)
  BY DEF Touches

LEMMA TouchesMore ==
  ASSUME NEW m, NEW m2, NEW p, NEW d, NEW T, NEW U, T \subseteq U, Touches(m, m2, p, d, T)
  PROVE  Touches(m, m2, p, d, U)
  BY DEF Touches

\* A list of which nothing is touched.
LEMMA OtherList ==
  ASSUME NEW m, NEW m2, NEW p, NEW d, NEW T, Touches(m, m2, p, d, T),
         NEW a \in Progs, NEW e \in Classes, NEW S, S \subseteq Blocks,
         ListIs(m.next[a], m.prev[a], a, e, S),
         a # p \/ e # d, a = p => S \cap T = {}, T \subseteq Blocks
  PROVE  ListIs(m2.next[a], m2.prev[a], a, e, S)
<1>1. head(a, e) # head(p, d) /\ tail(a, e) # tail(p, d)
  BY NodesApart
<1>2. head(a, e) \in Nodes /\ tail(a, e) \in Nodes /\ head(a, e) \notin T /\ tail(a, e) \notin T
  BY NodesApart
<1>3. ASSUME NEW x \in S
      PROVE  x \in Nodes /\ x # head(p, d) /\ x # tail(p, d) /\ (a = p => x \notin T)
  BY NodesApart
<1>4. \A x \in S \cup {head(a, e)} : m2.next[a][x] = m.next[a][x]
  BY <1>1, <1>2, <1>3 DEF Touches
<1>5. \A x \in S \cup {tail(a, e)} : m2.prev[a][x] = m.prev[a][x]
  BY <1>1, <1>2, <1>3 DEF Touches
<1> QED
  BY <1>4, <1>5, ListSame

IsPut(g, f, a, x, v) == g = Put(f, a, x, v)

IsPutAt(g, f, a, x, v) ==
    /\ g \in [Progs -> [Nodes -> Nodes]]
    /\ g[a][x] = v
    /\ \A b \in Progs, y \in Nodes : y # x \/ (b # a /\ x \notin Ends) => g[b][y] = f[b][y]

LEMMA PutIs ==
  ASSUME NEW f \in [Progs -> [Nodes -> Nodes]], NEW a \in Progs, NEW x \in Nodes, NEW v \in Nodes,
         NEW g, IsPut(g, f, a, x, v)
  PROVE  IsPutAt(g, f, a, x, v)
<1>1. g = [b \in Progs |-> IF b = a \/ x \in Ends THEN [f[b] EXCEPT ![x] = v] ELSE f[b]]
  BY DEF Put, IsPut
<1>2. ASSUME NEW b \in Progs
      PROVE  g[b] \in [Nodes -> Nodes] /\ g[b] = IF b = a \/ x \in Ends THEN [f[b] EXCEPT ![x] = v] ELSE f[b]
  BY <1>1
<1> QED
  BY <1>1, <1>2 DEF IsPutAt

Appended(m2, m, p, d, b) == m2 = list_append(m, p, <<p, d>>, b)
Removed(m2, m, p, b)     == m2 = list_remove(m, p, b)

LEMMA AppendIs ==
  ASSUME NEW m \in LinkMaps, NEW p \in Progs, NEW d \in Classes, NEW S, S \subseteq Blocks,
         ListIs(m.next[p], m.prev[p], p, d, S), NEW b \in Blocks, b \notin S,
         NEW m2, Appended(m2, m, p, d, b)
  PROVE  /\ ListIs(m2.next[p], m2.prev[p], p, d, S \cup {b})
         /\ Touches(m, m2, p, d, S \cup {b})
<1>0. PICK t \in Nodes : t = tail(p, d)
  BY NodesApart
<1>1. PICK q : q = m.prev[p][t]
  OBVIOUS
<1>2. /\ m.next \in [Progs -> [Nodes -> Nodes]] /\ m.prev \in [Progs -> [Nodes -> Nodes]]
      /\ b \in Nodes /\ b \notin Ends /\ b # t /\ t \in Ends /\ b # head(p, d)
  BY <1>0, NodesApart DEF LinkMaps
<1>3. q \in Nodes /\ q \in S \cup {head(p, d)} /\ q # b
  <2>1. PICK n \in Nat : \E s : ListOf(m.next[p], m.prev[p], p, d, S, s, n)
    BY DEF ListIs
  <2>2. PICK s : ListOf(m.next[p], m.prev[p], p, d, S, s, n)
    BY <2>1
  <2>3. /\ s[0] = head(p, d) /\ s[n + 1] = t /\ m.prev[p][s[n + 1]] = s[n]
        /\ \A i \in 1..n : s[i] \in S
    BY <1>0, <2>2 DEF ListOf, IsList
  <2>4. q = s[n] /\ (n = 0 \/ n \in 1..n)
    BY <1>1, <2>3
  <2>5. q \in S \cup {head(p, d)}
    BY <2>3, <2>4
  <2> QED
    BY <1>1, <1>2, <2>5
<1>4. PICK f, g : IsPut(f, m.next, p, q, b) /\ IsPut(g, m.prev, p, b, q)
  BY DEF IsPut
<1>5. /\ IsPut(m2.next, f, p, b, t) /\ IsPut(m2.prev, g, p, t, b)
      /\ \E n2, v2 : m2 = [next |-> n2, prev |-> v2]
  BY <1>0, <1>1, <1>4 DEF IsPut, Appended, list_append, list_insert_before
<1>6. IsPutAt(f, m.next, p, q, b) /\ IsPutAt(g, m.prev, p, b, q)
  BY <1>2, <1>3, <1>4, PutIs
<1>7. /\ f \in [Progs -> [Nodes -> Nodes]] /\ f[p][q] = b
      /\ \A a \in Progs, y \in Nodes : y # q \/ (a # p /\ q \notin Ends) => f[a][y] = m.next[a][y]
      /\ g \in [Progs -> [Nodes -> Nodes]] /\ g[p][b] = q
      /\ \A a \in Progs, y \in Nodes : y # b \/ a # p => g[a][y] = m.prev[a][y]
  BY <1>2, <1>6 DEF IsPutAt
<1>8. IsPutAt(m2.next, f, p, b, t) /\ IsPutAt(m2.prev, g, p, t, b)
  <2>1. PICK n2, v2 : n2 = m2.next /\ v2 = m2.prev
    OBVIOUS
  <2>2. IsPut(n2, f, p, b, t) /\ IsPut(v2, g, p, t, b)
    BY <1>5, <2>1
  <2>3. IsPutAt(n2, f, p, b, t) /\ IsPutAt(v2, g, p, t, b)
    BY <1>2, <1>7, <2>2, PutIs
  <2> QED
    BY <2>1, <2>3
<1>9. /\ m2.next \in [Progs -> [Nodes -> Nodes]] /\ m2.next[p][b] = t
      /\ \A a \in Progs, y \in Nodes : y # b \/ a # p => m2.next[a][y] = f[a][y]
  BY <1>2, <1>8 DEF IsPutAt
<1>10. /\ m2.prev \in [Progs -> [Nodes -> Nodes]] /\ m2.prev[p][t] = b
       /\ \A a \in Progs, y \in Nodes : y # t => m2.prev[a][y] = g[a][y]
  BY <1>2, <1>8 DEF IsPutAt
<1>11. ListIs(m2.next[p], m2.prev[p], p, d, S \cup {b})
  <2>1. PICK N, V, N2, V2 : N = m.next[p] /\ V = m.prev[p] /\ N2 = m2.next[p] /\ V2 = m2.prev[p]
    OBVIOUS
  <2>2. /\ q = V[tail(p, d)] /\ N2[q] = b /\ N2[b] = tail(p, d)
        /\ V2[b] = q /\ V2[tail(p, d)] = b
    BY <1>0, <1>1, <1>2, <1>3, <1>7, <1>9, <1>10, <2>1
  <2>3. \A x \in Nodes : x # q /\ x # b => N2[x] = N[x]
    BY <1>7, <1>9, <2>1
  <2>4. \A x \in Nodes : x # b /\ x # tail(p, d) => V2[x] = V[x]
    BY <1>0, <1>7, <1>10, <2>1
  <2>5. ListIs(N, V, p, d, S)
    BY <2>1
  <2>6. ListIs(N2, V2, p, d, S \cup {b})
    BY <2>2, <2>3, <2>4, <2>5, ListAppend
  <2> QED
    BY <2>1, <2>6
<1>12. Touches(m, m2, p, d, S \cup {b})
  <2>1. m2 \in LinkMaps
    BY <1>5, <1>9, <1>10 DEF LinkMaps
  <2>2. ASSUME NEW x \in Nodes, x \notin S \cup {b}, x # head(p, d) PROVE m2.next[p][x] = m.next[p][x]
    BY <1>3, <1>7, <1>9, <2>2
  <2>3. ASSUME NEW x \in Nodes, x # b, x # t, NEW a \in Progs PROVE m2.prev[a][x] = m.prev[a][x]
    BY <1>7, <1>10, <2>3
  <2>4. ASSUME NEW a \in Progs, a # p, NEW x \in Nodes, x # head(p, d) PROVE m2.next[a][x] = m.next[a][x]
    <3>1. x # q \/ q \notin Ends
      BY <1>3, <2>4, NodesApart
    <3> QED
      BY <1>7, <1>9, <2>4, <3>1
  <2>5. ASSUME NEW a \in Progs, a # p, NEW x \in Nodes, x # t PROVE m2.prev[a][x] = m.prev[a][x]
    BY <1>7, <1>10, <2>5
  <2> QED
    BY <1>0, <2>1, <2>2, <2>3, <2>4, <2>5 DEF Touches
<1> QED
  BY <1>11, <1>12

LEMMA RemoveIs ==
  ASSUME NEW m \in LinkMaps, NEW p \in Progs, NEW d \in Classes, NEW S, S \subseteq Blocks,
         ListIs(m.next[p], m.prev[p], p, d, S), NEW b \in S,
         NEW m2, Removed(m2, m, p, b)
  PROVE  /\ ListIs(m2.next[p], m2.prev[p], p, d, S \ {b})
         /\ Touches(m, m2, p, d, S)
<1>1. PICK q, r : q = m.prev[p][b] /\ r = m.next[p][b]
  OBVIOUS
<1>2. /\ m.next \in [Progs -> [Nodes -> Nodes]] /\ m.prev \in [Progs -> [Nodes -> Nodes]]
      /\ b \in Nodes /\ b \notin Ends
  BY NodesApart DEF LinkMaps
<1>3. q \in Nodes /\ r \in Nodes
  BY <1>1, <1>2
<1>4. /\ IsPutAt(m2.next, m.next, p, q, r) /\ IsPutAt(m2.prev, m.prev, p, r, q)
      /\ \E n2, v2 : m2 = [next |-> n2, prev |-> v2]
  <2>1. PICK n2, v2 : n2 = Put(m.next, p, q, r) /\ v2 = Put(m.prev, p, r, q)
    OBVIOUS
  <2>2. m2 = [next |-> n2, prev |-> v2]
    BY <1>1, <2>1 DEF Removed, list_remove
  <2>3. IsPut(n2, m.next, p, q, r) /\ IsPut(v2, m.prev, p, r, q)
    BY <2>1 DEF IsPut
  <2>4. IsPutAt(n2, m.next, p, q, r) /\ IsPutAt(v2, m.prev, p, r, q)
    BY <1>2, <1>3, <2>3, PutIs
  <2> QED
    BY <2>2, <2>4
<1>5. /\ m2.next \in [Progs -> [Nodes -> Nodes]] /\ m2.next[p][q] = r
      /\ \A a \in Progs, y \in Nodes : y # q \/ (a # p /\ q \notin Ends) => m2.next[a][y] = m.next[a][y]
  BY <1>4 DEF IsPutAt
<1>6. /\ m2.prev \in [Progs -> [Nodes -> Nodes]] /\ m2.prev[p][r] = q
      /\ \A a \in Progs, y \in Nodes : y # r \/ (a # p /\ r \notin Ends) => m2.prev[a][y] = m.prev[a][y]
  BY <1>4 DEF IsPutAt
<1>7. /\ q \in S \cup {head(p, d)} /\ r \in S \cup {tail(p, d)}
      /\ ListIs(m2.next[p], m2.prev[p], p, d, S \ {b})
  <2>1. PICK N, V, N2, V2 : N = m.next[p] /\ V = m.prev[p] /\ N2 = m2.next[p] /\ V2 = m2.prev[p]
    OBVIOUS
  <2>2. q = V[b] /\ r = N[b] /\ N2[q] = r /\ V2[r] = q
    BY <1>1, <1>5, <1>6, <2>1
  <2>3. \A x \in Nodes : x # q => N2[x] = N[x]
    BY <1>5, <2>1
  <2>4. \A x \in Nodes : x # r => V2[x] = V[x]
    BY <1>6, <2>1
  <2>5. ListIs(N, V, p, d, S)
    BY <2>1
  <2>6. /\ q \in S \cup {head(p, d)} /\ r \in S \cup {tail(p, d)}
        /\ ListIs(N2, V2, p, d, S \ {b})
    <3>1. Unlinked(N, V, N2, V2, b, q, r)
      BY <2>2, <2>3, <2>4 DEF Unlinked
    <3> QED
      BY <2>5, <3>1, ListRemove
  <2> QED
    BY <2>1, <2>6
<1>8. Touches(m, m2, p, d, S)
  <2>1. m2 \in LinkMaps
    BY <1>4, <1>5, <1>6 DEF LinkMaps
  <2>2. ASSUME NEW x \in Nodes, x \notin S, x # head(p, d) PROVE m2.next[p][x] = m.next[p][x]
    BY <1>5, <1>7, <2>2
  <2>3. ASSUME NEW x \in Nodes, x \notin S, x # tail(p, d) PROVE m2.prev[p][x] = m.prev[p][x]
    BY <1>6, <1>7, <2>3
  <2>4. ASSUME NEW a \in Progs, a # p, NEW x \in Nodes, x # head(p, d) PROVE m2.next[a][x] = m.next[a][x]
    <3>1. x # q \/ q \notin Ends
      BY <1>7, <2>4, NodesApart
    <3> QED
      BY <1>5, <2>4, <3>1
  <2>5. ASSUME NEW a \in Progs, a # p, NEW x \in Nodes, x # tail(p, d) PROVE m2.prev[a][x] = m.prev[a][x]
    <3>1. x # r \/ r \notin Ends
      BY <1>7, <2>5, NodesApart
    <3> QED
      BY <1>6, <2>5, <3>1
  <2> QED
    BY <2>1, <2>2, <2>3, <2>4, <2>5 DEF Touches
<1> QED
  BY <1>7, <1>8
-----------------------------------------------------------------------------
(***************************************************************************)
(* The loops.  Fill(f, n, ...) says that f has the links after 0..n rounds *)
(* of the loop that fills an arena, Drain those of the loop that empties   *)
(* one; Walk has the elements that a walk along a list meets.              *)
(***************************************************************************)
LEMMA LowestRunIs ==
  ASSUME NEW S, S \subseteq Nat, S # {}
  PROVE  LowestRun(S) \in S /\ \A y \in S : LowestRun(S) <= y
<1>1. PICK x \in S : \A y \in S : ~(<<y, x>> \in OpToRel(<, Nat))
  BY NatLessThanWellFounded, WFMin, Zenon
<1>2. ASSUME NEW y \in S PROVE x <= y
  <2>1. ~(y < x)
    BY <1>1 DEF OpToRel
  <2> QED
    BY <2>1
<1> QED
  BY <1>2 DEF LowestRun

FillRound(f, i, m, a, pg, d) ==
    IF i = 0 THEN [next |-> Zero(m.next, a, pg), prev |-> Zero(m.prev, a, pg)]
    ELSE list_append(f[i - 1], a, <<a, d>>, <<"block", pg, i>>)
Fill(f, n, m, a, pg, d) == f = [i \in 0..n |-> FillRound(f, i, m, a, pg, d)]

DrainRound(f, i, m, a, pg) ==
    IF i = 0 THEN m ELSE list_remove(f[i - 1], a, <<"block", pg, i>>)
Drain(f, n, m, a, pg) == f = [i \in 0..n |-> DrainRound(f, i, m, a, pg)]

WalkRound(f, k, m, a, l) ==
    IF k = 0 THEN head(l[1], l[2])
    ELSE IF f[k - 1] \in {tail(l[1], l[2]), NULL} THEN f[k - 1]
    ELSE m.next[a][f[k - 1]]
Walk(f, n, m, a, l) == f = [k \in 0..n |-> WalkRound(f, k, m, a, l)]

LEMMA FillRuns ==
  ASSUME NEW n \in Nat, NEW m, NEW a, NEW pg, NEW d
  PROVE  \E f : Fill(f, n, m, a, pg, d)
<1> DEFINE Bad == {x \in Nat : ~\E f : Fill(f, x, m, a, pg, d)}
<1> SUFFICES ASSUME n \in Bad PROVE FALSE
  OBVIOUS
<1>1. PICK x \in Bad : \A y \in Bad : x <= y
  <2>1. Bad \subseteq Nat /\ Bad # {}
    OBVIOUS
  <2> HIDE DEF Bad
  <2> QED
    BY <2>1, LowestRunIs
<1>2. x \in Nat /\ ~\E f : Fill(f, x, m, a, pg, d)
  OBVIOUS
<1>3. CASE x = 0
  <2> DEFINE g == [i \in 0..0 |-> FillRound(<< >>, 0, m, a, pg, d)]
  <2>1. Fill(g, 0, m, a, pg, d)
    BY DEF Fill, FillRound
  <2> QED
    BY <1>2, <1>3, <2>1
<1>4. CASE x > 0
  <2>1. x - 1 \in Nat /\ x - 1 \notin Bad
    BY <1>1, <1>2, <1>4
  <2>2. PICK f : Fill(f, x - 1, m, a, pg, d)
    BY <2>1
  <2> DEFINE g == [i \in 0..x |-> IF i = x THEN FillRound(f, x, m, a, pg, d) ELSE f[i]]
  <2>3. \A i \in 0..(x - 1) : f[i] = FillRound(f, i, m, a, pg, d) /\ g[i] = f[i]
    BY <1>2, <2>2 DEF Fill
  <2>4. ASSUME NEW i \in 0..x PROVE g[i] = FillRound(g, i, m, a, pg, d)
    <3>1. i # 0 => g[i - 1] = f[i - 1]
      BY <1>2, <2>3, <2>4
    <3>2. FillRound(g, i, m, a, pg, d) = FillRound(f, i, m, a, pg, d)
      <4> HIDE DEF g
      <4> QED
        BY <3>1 DEF FillRound
    <3>3. CASE i = x
      BY <3>2, <3>3
    <3>4. CASE i # x
      <4>1. i \in 0..(x - 1)
        BY <1>2, <3>4
      <4> HIDE DEF g
      <4> QED
        BY <2>3, <3>2, <4>1
    <3> QED
      BY <3>3, <3>4
  <2>5. Fill(g, x, m, a, pg, d)
    BY <2>4 DEF Fill
  <2> QED
    BY <1>2, <2>5
<1> QED
  BY <1>2, <1>3, <1>4

LEMMA DrainRuns ==
  ASSUME NEW n \in Nat, NEW m, NEW a, NEW pg
  PROVE  \E f : Drain(f, n, m, a, pg)
<1> DEFINE Bad == {x \in Nat : ~\E f : Drain(f, x, m, a, pg)}
<1> SUFFICES ASSUME n \in Bad PROVE FALSE
  OBVIOUS
<1>1. PICK x \in Bad : \A y \in Bad : x <= y
  <2>1. Bad \subseteq Nat /\ Bad # {}
    OBVIOUS
  <2> HIDE DEF Bad
  <2> QED
    BY <2>1, LowestRunIs
<1>2. x \in Nat /\ ~\E f : Drain(f, x, m, a, pg)
  OBVIOUS
<1>3. CASE x = 0
  <2> DEFINE g == [i \in 0..0 |-> DrainRound(<< >>, 0, m, a, pg)]
  <2>1. Drain(g, 0, m, a, pg)
    BY DEF Drain, DrainRound
  <2> QED
    BY <1>2, <1>3, <2>1
<1>4. CASE x > 0
  <2>1. x - 1 \in Nat /\ x - 1 \notin Bad
    BY <1>1, <1>2, <1>4
  <2>2. PICK f : Drain(f, x - 1, m, a, pg)
    BY <2>1
  <2> DEFINE g == [i \in 0..x |-> IF i = x THEN DrainRound(f, x, m, a, pg) ELSE f[i]]
  <2>3. \A i \in 0..(x - 1) : f[i] = DrainRound(f, i, m, a, pg) /\ g[i] = f[i]
    BY <1>2, <2>2 DEF Drain
  <2>4. ASSUME NEW i \in 0..x PROVE g[i] = DrainRound(g, i, m, a, pg)
    <3>1. i # 0 => g[i - 1] = f[i - 1]
      BY <1>2, <2>3, <2>4
    <3>2. DrainRound(g, i, m, a, pg) = DrainRound(f, i, m, a, pg)
      <4> HIDE DEF g
      <4> QED
        BY <3>1 DEF DrainRound
    <3>3. CASE i = x
      BY <3>2, <3>3
    <3>4. CASE i # x
      <4>1. i \in 0..(x - 1)
        BY <1>2, <3>4
      <4> HIDE DEF g
      <4> QED
        BY <2>3, <3>2, <4>1
    <3> QED
      BY <3>3, <3>4
  <2>5. Drain(g, x, m, a, pg)
    BY <2>4 DEF Drain
  <2> QED
    BY <1>2, <2>5
<1> QED
  BY <1>2, <1>3, <1>4

LEMMA WalkRuns ==
  ASSUME NEW n \in Nat, NEW m, NEW a, NEW l
  PROVE  \E f : Walk(f, n, m, a, l)
<1> DEFINE Bad == {x \in Nat : ~\E f : Walk(f, x, m, a, l)}
<1> SUFFICES ASSUME n \in Bad PROVE FALSE
  OBVIOUS
<1>1. PICK x \in Bad : \A y \in Bad : x <= y
  <2>1. Bad \subseteq Nat /\ Bad # {}
    OBVIOUS
  <2> HIDE DEF Bad
  <2> QED
    BY <2>1, LowestRunIs
<1>2. x \in Nat /\ ~\E f : Walk(f, x, m, a, l)
  OBVIOUS
<1>3. CASE x = 0
  <2> DEFINE g == [i \in 0..0 |-> WalkRound(<< >>, 0, m, a, l)]
  <2>1. Walk(g, 0, m, a, l)
    BY DEF Walk, WalkRound
  <2> QED
    BY <1>2, <1>3, <2>1
<1>4. CASE x > 0
  <2>1. x - 1 \in Nat /\ x - 1 \notin Bad
    BY <1>1, <1>2, <1>4
  <2>2. PICK f : Walk(f, x - 1, m, a, l)
    BY <2>1
  <2> DEFINE g == [i \in 0..x |-> IF i = x THEN WalkRound(f, x, m, a, l) ELSE f[i]]
  <2>3. \A i \in 0..(x - 1) : f[i] = WalkRound(f, i, m, a, l) /\ g[i] = f[i]
    BY <1>2, <2>2 DEF Walk
  <2>4. ASSUME NEW i \in 0..x PROVE g[i] = WalkRound(g, i, m, a, l)
    <3>1. i # 0 => g[i - 1] = f[i - 1]
      BY <1>2, <2>3, <2>4
    <3>2. WalkRound(g, i, m, a, l) = WalkRound(f, i, m, a, l)
      <4> HIDE DEF g
      <4> QED
        BY <3>1 DEF WalkRound
    <3>3. CASE i = x
      BY <3>2, <3>3
    <3>4. CASE i # x
      <4>1. i \in 0..(x - 1)
        BY <1>2, <3>4
      <4> HIDE DEF g
      <4> QED
        BY <2>3, <3>2, <4>1
    <3> QED
      BY <3>3, <3>4
  <2>5. Walk(g, x, m, a, l)
    BY <2>4 DEF Walk
  <2> QED
    BY <1>2, <2>5
<1> QED
  BY <1>2, <1>3, <1>4

PageBlocks(pg) == {x \in Blocks : x[2] = pg}
FirstBlocks(pg, i) == {<<"block", pg, j>> : j \in 1..i}

Zeroed(m2, m, p, pg) == m2 = [next |-> Zero(m.next, p, pg), prev |-> Zero(m.prev, p, pg)]

\* memset of a page: the links of its blocks are gone, and no others.
LEMMA ZeroIs ==
  ASSUME NEW m \in LinkMaps, NEW p \in Progs, NEW pg, NEW m2, Zeroed(m2, m, p, pg)
  PROVE  /\ m2 \in LinkMaps
         /\ \A a \in Progs, x \in Nodes : a # p \/ x \notin PageBlocks(pg) =>
               m2.next[a][x] = m.next[a][x] /\ m2.prev[a][x] = m.prev[a][x]
<1>1. m.next \in [Progs -> [Nodes -> Nodes]] /\ m.prev \in [Progs -> [Nodes -> Nodes]]
  BY DEF LinkMaps
<1>2. ASSUME NEW f \in [Progs -> [Nodes -> Nodes]], NEW g, g = Zero(f, p, pg)
      PROVE  /\ g \in [Progs -> [Nodes -> Nodes]]
             /\ \A a \in Progs, x \in Nodes : a # p \/ x \notin PageBlocks(pg) => g[a][x] = f[a][x]
  <2>1. g = [f EXCEPT ![p] = [x \in Nodes |-> IF x \in Blocks /\ x[2] = pg THEN NULL ELSE f[p][x]]]
    BY <1>2 DEF Zero
  <2>2. [x \in Nodes |-> IF x \in Blocks /\ x[2] = pg THEN NULL ELSE f[p][x]] \in [Nodes -> Nodes]
    BY NodesApart
  <2>3. g \in [Progs -> [Nodes -> Nodes]]
    BY <2>1, <2>2
  <2>4. ASSUME NEW a \in Progs, NEW x \in Nodes, a # p \/ x \notin PageBlocks(pg) PROVE g[a][x] = f[a][x]
    BY <2>1, <2>4 DEF PageBlocks
  <2> QED
    BY <2>3, <2>4
<1>3. PICK n2, v2 : n2 = Zero(m.next, p, pg) /\ v2 = Zero(m.prev, p, pg)
  OBVIOUS
<1>4. m2 = [next |-> n2, prev |-> v2]
  BY <1>3 DEF Zeroed
<1>5. /\ n2 \in [Progs -> [Nodes -> Nodes]] /\ v2 \in [Progs -> [Nodes -> Nodes]]
      /\ \A a \in Progs, x \in Nodes : a # p \/ x \notin PageBlocks(pg) => n2[a][x] = m.next[a][x]
      /\ \A a \in Progs, x \in Nodes : a # p \/ x \notin PageBlocks(pg) => v2[a][x] = m.prev[a][x]
  BY <1>1, <1>2, <1>3
<1> QED
  BY <1>4, <1>5 DEF LinkMaps

LEMMA ZeroList ==
  ASSUME NEW m \in LinkMaps, NEW p \in Progs, NEW pg, NEW m2, Zeroed(m2, m, p, pg),
         NEW d \in Classes, NEW S, S \subseteq Blocks, S \cap PageBlocks(pg) = {},
         ListIs(m.next[p], m.prev[p], p, d, S)
  PROVE  ListIs(m2.next[p], m2.prev[p], p, d, S) /\ Touches(m, m2, p, d, PageBlocks(pg))
<1>1. /\ m2 \in LinkMaps
      /\ \A a \in Progs, x \in Nodes : a # p \/ x \notin PageBlocks(pg) =>
            m2.next[a][x] = m.next[a][x] /\ m2.prev[a][x] = m.prev[a][x]
  BY ZeroIs
<1>2. \A x \in S \cup {head(p, d), tail(p, d)} : x \in Nodes /\ x \notin PageBlocks(pg)
  BY NodesApart DEF PageBlocks
<1>3. \A x \in S \cup {head(p, d), tail(p, d)} : m2.next[p][x] = m.next[p][x] /\ m2.prev[p][x] = m.prev[p][x]
  BY <1>1, <1>2
<1>4. ListIs(m2.next[p], m2.prev[p], p, d, S)
  BY <1>3, ListSame
<1>5. Touches(m, m2, p, d, PageBlocks(pg))
  BY <1>1 DEF Touches
<1> QED
  BY <1>4, <1>5
LEMMA FirstBlocksAre ==
  ASSUME NEW pg \in HeapPages, NEW d \in Classes
  PROVE  /\ FirstBlocks(pg, 0) = {}
         /\ FirstBlocks(pg, blocks_pre_arena[d]) = ArenaBlocks(pg, d)
         /\ \A i \in 1..blocks_pre_arena[d] :
               /\ FirstBlocks(pg, i) = FirstBlocks(pg, i - 1) \cup {<<"block", pg, i>>}
               /\ <<"block", pg, i>> \notin FirstBlocks(pg, i - 1)
               /\ <<"block", pg, i>> \in ArenaBlocks(pg, d)
         /\ \A i \in 0..blocks_pre_arena[d] : FirstBlocks(pg, i) \subseteq ArenaBlocks(pg, d)
         /\ ArenaBlocks(pg, d) \subseteq PageBlocks(pg)
<1>1. blocks_pre_arena[d] \in Nat
  BY HeapConstants
<1>2. FirstBlocks(pg, 0) = {} /\ FirstBlocks(pg, blocks_pre_arena[d]) = ArenaBlocks(pg, d)
  BY DEF FirstBlocks, ArenaBlocks
<1>3. ASSUME NEW i \in 1..blocks_pre_arena[d]
      PROVE  /\ FirstBlocks(pg, i) = FirstBlocks(pg, i - 1) \cup {<<"block", pg, i>>}
             /\ <<"block", pg, i>> \notin FirstBlocks(pg, i - 1)
             /\ <<"block", pg, i>> \in ArenaBlocks(pg, d)
  BY <1>1 DEF FirstBlocks, ArenaBlocks
<1>4. ASSUME NEW i \in 0..blocks_pre_arena[d] PROVE FirstBlocks(pg, i) \subseteq ArenaBlocks(pg, d)
  BY <1>1 DEF FirstBlocks, ArenaBlocks
<1>5. ArenaBlocks(pg, d) \subseteq PageBlocks(pg)
  BY BlocksAre DEF PageBlocks
<1> QED
  BY <1>2, <1>3, <1>4, <1>5

\* The arena that sys_malloc makes when its list is empty.
LEMMA FilledIs ==
  ASSUME NEW m \in LinkMaps, NEW p \in Progs, NEW d \in Classes, NEW pg \in HeapPages,
         ListIs(m.next[p], m.prev[p], p, d, {})
  PROVE  LET m2 == Filled(m, p, pg, d)
         IN  /\ ListIs(m2.next[p], m2.prev[p], p, d, ArenaBlocks(pg, d))
             /\ Touches(m, m2, p, d, PageBlocks(pg))
<1>0. PICK n \in Nat : n = blocks_pre_arena[d]
  BY HeapConstants
<1>1. PICK f : f = CHOOSE h : Fill(h, n, m, p, pg, d)
  OBVIOUS
<1>2. Fill(f, n, m, p, pg, d)
  <2>1. \E h : Fill(h, n, m, p, pg, d)
    BY FillRuns
  <2> QED
    BY <1>1, <2>1, Zenon
<1>3. Filled(m, p, pg, d) = f[n]
  BY <1>0, <1>1 DEF Filled, Fill, FillRound
<1>4. /\ Zeroed(f[0], m, p, pg)
      /\ \A i \in 1..n : Appended(f[i], f[i - 1], p, d, <<"block", pg, i>>)
  <2>1. \A i \in 0..n : f[i] = FillRound(f, i, m, p, pg, d)
    BY <1>2 DEF Fill
  <2>2. Zeroed(f[0], m, p, pg)
    <3>1. f[0] = FillRound(f, 0, m, p, pg, d)
      BY <2>1
    <3>2. Zeroed(FillRound(f, 0, m, p, pg, d), m, p, pg)
      BY DEF FillRound, Zeroed
    <3> QED
      BY <3>1, <3>2
  <2>3. ASSUME NEW i \in 1..n PROVE Appended(f[i], f[i - 1], p, d, <<"block", pg, i>>)
    BY <2>1 DEF FillRound, Appended
  <2> QED
    BY <2>2, <2>3
<1> DEFINE Right(i) == /\ ListIs(f[i].next[p], f[i].prev[p], p, d, FirstBlocks(pg, i))
                       /\ Touches(m, f[i], p, d, PageBlocks(pg))
<1> DEFINE Bad == {i \in 0..n : ~Right(i)}
<1>5. Bad = {}
  <2> SUFFICES ASSUME Bad # {} PROVE FALSE
    OBVIOUS
  <2>1. PICK i \in Bad : \A j \in Bad : i <= j
    <3>1. Bad \subseteq Nat
      OBVIOUS
    <3> HIDE DEF Bad
    <3> QED
      BY <3>1, LowestRunIs
  <2>2. i \in 0..n /\ ~Right(i)
    OBVIOUS
  <2>3. CASE i = 0
    <3>1. PICK z : z = f[0]
      OBVIOUS
    <3>2. Zeroed(z, m, p, pg)
      BY <1>4, <3>1
    <3>3. ListIs(z.next[p], z.prev[p], p, d, {}) /\ Touches(m, z, p, d, PageBlocks(pg))
      BY <3>2, ZeroList
    <3> QED
      BY <2>2, <2>3, <3>1, <3>3, FirstBlocksAre
  <2>4. CASE i > 0
    <3>1. i - 1 \in 0..n /\ i \in 1..n /\ i - 1 \notin Bad
      <4>1. i - 1 \in 0..n /\ i \in 1..n /\ ~(i <= i - 1)
        BY <2>2, <2>4
      <4> HIDE DEF Bad
      <4> QED
        BY <2>1, <4>1
    <3>2. Right(i - 1)
      BY <3>1
    <3>3. PICK y, z, b : y = f[i - 1] /\ z = f[i] /\ b = <<"block", pg, i>>
      OBVIOUS
    <3>4. PICK S : S = FirstBlocks(pg, i - 1)
      OBVIOUS
    <3>5. Appended(z, y, p, d, b)
      BY <1>4, <3>1, <3>3
    <3>6. /\ ListIs(y.next[p], y.prev[p], p, d, S) /\ Touches(m, y, p, d, PageBlocks(pg))
          /\ y \in LinkMaps
      BY <3>2, <3>3, <3>4 DEF Touches
    <3>7. /\ FirstBlocks(pg, i) = S \cup {b} /\ b \notin S /\ b \in ArenaBlocks(pg, d)
          /\ S \subseteq ArenaBlocks(pg, d) /\ ArenaBlocks(pg, d) \subseteq PageBlocks(pg)
      BY <1>0, <3>1, <3>3, <3>4, FirstBlocksAre
    <3>8. S \subseteq Blocks /\ b \in Blocks /\ S \cup {b} \subseteq PageBlocks(pg)
      BY <3>7 DEF PageBlocks
    <3>9. ListIs(z.next[p], z.prev[p], p, d, S \cup {b}) /\ Touches(y, z, p, d, S \cup {b})
      BY <3>5, <3>6, <3>7, <3>8, AppendIs
    <3>10. Touches(y, z, p, d, PageBlocks(pg))
      BY <3>8, <3>9, TouchesMore
    <3>11. Touches(m, z, p, d, PageBlocks(pg))
      BY <3>6, <3>10, TouchesTwice
    <3>12. Right(i)
      BY <3>3, <3>7, <3>9, <3>11
    <3> QED
      BY <2>2, <3>12
  <2> QED
    BY <2>2, <2>3, <2>4
<1>6. Right(n)
  BY <1>5
<1>7. FirstBlocks(pg, n) = ArenaBlocks(pg, d)
  BY <1>0, FirstBlocksAre
<1> QED
  BY <1>3, <1>6, <1>7

\* An arena of which all blocks are on the list goes away.
LEMMA EmptiedIs ==
  ASSUME NEW m \in LinkMaps, NEW p \in Progs, NEW d \in Classes, NEW pg \in HeapPages,
         NEW S, S \subseteq Blocks, ListIs(m.next[p], m.prev[p], p, d, S),
         S \cap PageBlocks(pg) = ArenaBlocks(pg, d)
  PROVE  LET m2 == Emptied(m, p, pg, <<p, d>>)
         IN  /\ ListIs(m2.next[p], m2.prev[p], p, d, S \ PageBlocks(pg))
             /\ Touches(m, m2, p, d, S \cup PageBlocks(pg))
<1>0. PICK n \in Nat : n = blocks_pre_arena[d]
  BY HeapConstants
<1>1. PICK f : f = CHOOSE h : Drain(h, n, m, p, pg)
  OBVIOUS
<1>2. Drain(f, n, m, p, pg)
  <2>1. \E h : Drain(h, n, m, p, pg)
    BY DrainRuns
  <2> QED
    BY <1>1, <2>1, Zenon
<1>3. Zeroed(Emptied(m, p, pg, <<p, d>>), f[n], p, pg)
  BY <1>0, <1>1 DEF Emptied, Drain, DrainRound, Zeroed
<1>4. /\ f[0] = m
      /\ \A i \in 1..n : Removed(f[i], f[i - 1], p, <<"block", pg, i>>)
  BY <1>2 DEF Drain, DrainRound, Removed
<1> DEFINE Right(i) == /\ ListIs(f[i].next[p], f[i].prev[p], p, d, S \ FirstBlocks(pg, i))
                       /\ Touches(m, f[i], p, d, S)
<1> DEFINE Bad == {i \in 0..n : ~Right(i)}
<1>5. Bad = {}
  <2> SUFFICES ASSUME Bad # {} PROVE FALSE
    OBVIOUS
  <2>1. PICK i \in Bad : \A j \in Bad : i <= j
    <3>1. Bad \subseteq Nat
      OBVIOUS
    <3> HIDE DEF Bad
    <3> QED
      BY <3>1, LowestRunIs
  <2>2. i \in 0..n /\ ~Right(i)
    OBVIOUS
  <2>3. CASE i = 0
    <3>1. S \ FirstBlocks(pg, 0) = S
      BY FirstBlocksAre
    <3>2. Touches(m, m, p, d, S)
      BY DEF Touches
    <3> QED
      BY <1>4, <2>2, <2>3, <3>1, <3>2
  <2>4. CASE i > 0
    <3>1. i - 1 \in 0..n /\ i \in 1..n /\ i - 1 \notin Bad
      <4>1. i - 1 \in 0..n /\ i \in 1..n /\ ~(i <= i - 1)
        BY <2>2, <2>4
      <4> HIDE DEF Bad
      <4> QED
        BY <2>1, <4>1
    <3>2. Right(i - 1)
      BY <3>1
    <3>3. PICK y, z, b : y = f[i - 1] /\ z = f[i] /\ b = <<"block", pg, i>>
      OBVIOUS
    <3>4. PICK R : R = S \ FirstBlocks(pg, i - 1)
      OBVIOUS
    <3>5. Removed(z, y, p, b)
      BY <1>4, <3>1, <3>3
    <3>6. /\ ListIs(y.next[p], y.prev[p], p, d, R) /\ Touches(m, y, p, d, S)
          /\ y \in LinkMaps
      BY <3>2, <3>3, <3>4 DEF Touches
    <3>7. S \ FirstBlocks(pg, i) = R \ {b} /\ b \in R /\ R \subseteq S /\ R \subseteq Blocks
      BY <1>0, <3>1, <3>3, <3>4, FirstBlocksAre
    <3>8. ListIs(z.next[p], z.prev[p], p, d, R \ {b}) /\ Touches(y, z, p, d, R)
      BY <3>5, <3>6, <3>7, RemoveIs
    <3>9. Touches(y, z, p, d, S)
      BY <3>7, <3>8, TouchesMore
    <3>10. Touches(m, z, p, d, S)
      BY <3>6, <3>9, TouchesTwice
    <3>11. Right(i)
      BY <3>3, <3>7, <3>8, <3>10
    <3> QED
      BY <2>2, <3>11
  <2> QED
    BY <2>2, <2>3, <2>4
<1>6. Right(n)
  BY <1>5
<1>7. S \ FirstBlocks(pg, n) = S \ PageBlocks(pg)
  BY <1>0, FirstBlocksAre
<1> HIDE DEF Right, Bad
<1>8. PICK y, z : y = f[n] /\ z = Emptied(m, p, pg, <<p, d>>)
  OBVIOUS
<1>9. PICK R : R = S \ PageBlocks(pg)
  OBVIOUS
<1>10. /\ ListIs(y.next[p], y.prev[p], p, d, R) /\ Touches(m, y, p, d, S)
       /\ y \in LinkMaps /\ Zeroed(z, y, p, pg)
  BY <1>3, <1>6, <1>7, <1>8, <1>9 DEF Right, Touches
<1>11. R \cap PageBlocks(pg) = {} /\ R \subseteq Blocks
  BY <1>9
<1>12. ListIs(z.next[p], z.prev[p], p, d, R) /\ Touches(y, z, p, d, PageBlocks(pg))
  BY <1>10, <1>11, ZeroList
<1>13. Touches(m, z, p, d, S \cup PageBlocks(pg))
  <2>1. PICK U : U = S \cup PageBlocks(pg)
    OBVIOUS
  <2>2. S \subseteq U /\ PageBlocks(pg) \subseteq U
    BY <2>1
  <2>3. Touches(m, y, p, d, U) /\ Touches(y, z, p, d, U)
    BY <1>10, <1>12, <2>2, TouchesMore
  <2>4. Touches(m, z, p, d, U)
    BY <2>3, TouchesTwice
  <2> QED
    BY <2>1, <2>4
<1> QED
  BY <1>8, <1>9, <1>12, <1>13
\* What a walk along a list meets.
LEMMA ChainIs ==
  ASSUME NEW m \in LinkMaps, NEW p \in Progs, NEW d \in Classes, NEW S, S \subseteq Blocks,
         ListIs(m.next[p], m.prev[p], p, d, S)
  PROVE  /\ LET path == Chain(m, p, <<p, d>>)
                n    == Cardinality(S)
            IN  /\ {path[k] : k \in 1..n} = S
                /\ path[n + 1] = tail(p, d)
                /\ \A k \in 1..(n + 1) : m.prev[p][path[k]] = path[k - 1]
         /\ \A b \in S : elem_find(m, p, <<p, d>>, b)
<1>0. PICK N, V : N = m.next[p] /\ V = m.prev[p]
  OBVIOUS
<1>n. PICK n \in Nat : \E s : ListOf(N, V, p, d, S, s, n)
  BY <1>0 DEF ListIs
<1>s. PICK s : ListOf(N, V, p, d, S, s, n)
  BY <1>n
<1>1. /\ s \in [0..(n + 1) -> Nodes]
      /\ \A i \in 1..n : s[i] \in S
      /\ \A c \in S : \E i \in 1..n : s[i] = c
  BY <1>s DEF ListOf
<1>2. /\ s[0] = head(p, d) /\ s[n + 1] = tail(p, d)
      /\ \A i \in 1..n : s[i] \in Blocks
      /\ \A i, j \in 1..n : s[i] = s[j] => i = j
      /\ \A i \in 0..n : N[s[i]] = s[i + 1] /\ V[s[i + 1]] = s[i]
  BY <1>s DEF ListOf, IsList
<1>3. Cardinality(S) = n /\ n + 1 <= MaxChain /\ MaxChain \in Nat
  <2>1. IsFiniteSet(S) /\ Cardinality(S) <= Cardinality(Blocks) /\ Cardinality(Blocks) \in Nat
    BY BlocksFinite, FS_Subset
  <2> DEFINE g == [i \in 1..n |-> s[i]]
  <2>2. /\ g \in [1..n -> S] /\ \A i, j \in 1..n : g[i] = g[j] => i = j
        /\ \A v \in S : \E i \in 1..n : g[i] = v
    BY <1>1, <1>2
  <2> HIDE DEF g
  <2>3. Cardinality(1..n) = Cardinality(S)
    BY <2>1, <2>2, OneToOne
  <2>4. Cardinality(1..n) = n
    BY FS_Interval
  <2> QED
    BY <2>1, <2>3, <2>4 DEF MaxChain
<1>4. PICK path : path = Chain(m, p, <<p, d>>)
  OBVIOUS
<1>5. Walk(path, MaxChain, m, p, <<p, d>>)
  <2>1. PICK f : f = CHOOSE h : Walk(h, MaxChain, m, p, <<p, d>>)
    OBVIOUS
  <2>2. \E h : Walk(h, MaxChain, m, p, <<p, d>>)
    BY <1>3, WalkRuns
  <2>3. Walk(f, MaxChain, m, p, <<p, d>>)
    BY <2>1, <2>2, Zenon
  <2>4. Chain(m, p, <<p, d>>) = f
    BY <2>1 DEF Chain, Walk, WalkRound
  <2> QED
    BY <1>4, <2>3, <2>4
<1>6. ASSUME NEW k \in 0..MaxChain
      PROVE  path[k] = IF k = 0 THEN head(p, d)
                       ELSE IF path[k - 1] \in {tail(p, d), NULL} THEN path[k - 1]
                       ELSE N[path[k - 1]]
  <2>1. path[k] = WalkRound(path, k, m, p, <<p, d>>)
    BY <1>5 DEF Walk
  <2>2. <<p, d>>[1] = p /\ <<p, d>>[2] = d
    OBVIOUS
  <2> QED
    BY <1>0, <2>1, <2>2 DEF WalkRound
<1> DEFINE Bad == {k \in 0..(n + 1) : path[k] # s[k]}
<1>7. Bad = {}
  <2> SUFFICES ASSUME Bad # {} PROVE FALSE
    OBVIOUS
  <2>1. PICK i \in Bad : \A j \in Bad : i <= j
    <3>1. Bad \subseteq Nat
      OBVIOUS
    <3> HIDE DEF Bad
    <3> QED
      BY <3>1, LowestRunIs
  <2>2. i \in 0..(n + 1) /\ path[i] # s[i] /\ i \in 0..MaxChain
    BY <1>3
  <2>3. CASE i = 0
    BY <1>2, <1>6, <2>2, <2>3
  <2>4. CASE i > 0
    <3>1. i - 1 \in 0..(n + 1) /\ i - 1 \notin Bad /\ i - 1 \in 0..n /\ (i - 1) + 1 = i
      <4>1. i - 1 \in 0..(n + 1) /\ ~(i <= i - 1) /\ i - 1 \in 0..n /\ (i - 1) + 1 = i
        BY <2>2, <2>4
      <4> HIDE DEF Bad
      <4> QED
        BY <2>1, <4>1
    <3>2. path[i - 1] = s[i - 1]
      BY <3>1
    <3>3. s[i - 1] # tail(p, d) /\ s[i - 1] # NULL
      <4>1. i - 1 = 0 \/ i - 1 \in 1..n
        BY <3>1
      <4> QED
        BY <1>2, <4>1, NodesApart
    <3>4. N[s[i - 1]] = s[i]
      BY <1>2, <3>1
    <3>5. path[i] = N[path[i - 1]]
      BY <1>6, <2>2, <2>4, <3>2, <3>3
    <3> QED
      BY <2>2, <3>2, <3>4, <3>5
  <2> QED
    BY <2>2, <2>3, <2>4
<1>8. \A k \in 0..(n + 1) : path[k] = s[k]
  BY <1>7
<1>9. {path[k] : k \in 1..n} = S
  <2>1. ASSUME NEW k \in 1..n PROVE path[k] \in S
    BY <1>1, <1>8
  <2>2. ASSUME NEW b \in S PROVE \E k \in 1..n : path[k] = b
    <3>1. PICK k \in 1..n : s[k] = b
      BY <1>1
    <3> QED
      BY <1>8, <3>1
  <2> QED
    BY <2>1, <2>2
<1>10. path[n + 1] = tail(p, d)
  BY <1>2, <1>8
<1>11. ASSUME NEW k \in 1..(n + 1) PROVE V[path[k]] = path[k - 1]
  <2>1. k - 1 \in 0..n /\ (k - 1) + 1 = k /\ k \in 0..(n + 1) /\ k - 1 \in 0..(n + 1)
    OBVIOUS
  <2>2. V[s[k]] = s[k - 1]
    BY <1>2, <2>1
  <2> QED
    BY <1>8, <2>1, <2>2
<1>12. ASSUME NEW b \in S PROVE elem_find(m, p, <<p, d>>, b)
  <2>1. PICK k \in 1..n : path[k] = b
    BY <1>9
  <2>2. k \in 1..MaxChain
    BY <1>3
  <2> QED
    BY <1>4, <2>1, <2>2 DEF elem_find
<1> QED
  BY <1>0, <1>3, <1>4, <1>9, <1>10, <1>11, <1>12
-----------------------------------------------------------------------------
(***************************************************************************)
(* Headers, and the blocks that are counted in them.                       *)
(***************************************************************************)
LEMMA ArenaMapIs ==
  ASSUME NEW ar \in ArenaMaps
  PROVE  /\ DOMAIN ar \subseteq HeapPages /\ ar = [q \in DOMAIN ar |-> ar[q]]
         /\ \A q \in DOMAIN ar : ar[q] \in Header
  BY DEF ArenaMaps

LEMMA ArenaMapOf ==
  ASSUME NEW D, D \subseteq HeapPages, NEW ar \in [D -> Header]
  PROVE  ar \in ArenaMaps /\ DOMAIN ar = D
  BY DEF ArenaMaps

LEMMA ArenaSize ==
  ASSUME NEW pg \in HeapPages, NEW d \in Classes
  PROVE  /\ IsFiniteSet(ArenaBlocks(pg, d)) /\ Cardinality(ArenaBlocks(pg, d)) = blocks_pre_arena[d]
         /\ \A h : /\ Cardinality(ArenaBlocks(pg, d) \ h) \in Nat
                   /\ Cardinality(ArenaBlocks(pg, d) \ h) <= blocks_pre_arena[d]
                   /\ Cardinality(ArenaBlocks(pg, d) \ h) = blocks_pre_arena[d] =>
                         ArenaBlocks(pg, d) \cap h = {}
<1>0. PICK n \in Nat : n = blocks_pre_arena[d]
  BY HeapConstants
<1>1. IsFiniteSet(ArenaBlocks(pg, d))
  BY BlocksFinite
<1> DEFINE g == [i \in 1..n |-> <<"block", pg, i>>]
<1>2. /\ g \in [1..n -> ArenaBlocks(pg, d)] /\ \A i, j \in 1..n : g[i] = g[j] => i = j
      /\ \A v \in ArenaBlocks(pg, d) : \E i \in 1..n : g[i] = v
  BY <1>0 DEF ArenaBlocks
<1> HIDE DEF g
<1>3. Cardinality(1..n) = Cardinality(ArenaBlocks(pg, d))
  BY <1>1, <1>2, OneToOne
<1>4. Cardinality(1..n) = n
  BY FS_Interval
<1>5. ASSUME NEW h
      PROVE  /\ Cardinality(ArenaBlocks(pg, d) \ h) \in Nat
             /\ Cardinality(ArenaBlocks(pg, d) \ h) <= Cardinality(ArenaBlocks(pg, d))
             /\ Cardinality(ArenaBlocks(pg, d) \ h) = Cardinality(ArenaBlocks(pg, d)) =>
                   ArenaBlocks(pg, d) \cap h = {}
  <2>1. PICK A, B : A = ArenaBlocks(pg, d) /\ B = A \ h
    OBVIOUS
  <2>2. B \in SUBSET A /\ IsFiniteSet(A)
    BY <1>1, <2>1
  <2>3. IsFiniteSet(B) /\ Cardinality(B) <= Cardinality(A) /\ (Cardinality(A) = Cardinality(B) => A = B)
    BY <2>2, FS_Subset
  <2>4. Cardinality(B) \in Nat
    BY <2>3, FS_CardinalityType
  <2>5. A = B => A \cap h = {}
    BY <2>1
  <2> QED
    BY <2>1, <2>3, <2>4, <2>5
<1> QED
  BY <1>0, <1>1, <1>3, <1>4, <1>5

\* Taking a block of an arena, and giving one back.
LEMMA CountTaken ==
  ASSUME NEW pg \in HeapPages, NEW d \in Classes, NEW b \in ArenaBlocks(pg, d), NEW h
  PROVE  /\ b \notin h => /\ Cardinality(ArenaBlocks(pg, d) \ (h \cup {b}))
                                = Cardinality(ArenaBlocks(pg, d) \ h) - 1
                          /\ Cardinality(ArenaBlocks(pg, d) \ (h \cup {b})) < blocks_pre_arena[d]
         /\ b \in h => Cardinality(ArenaBlocks(pg, d) \ (h \ {b}))
                          = Cardinality(ArenaBlocks(pg, d) \ h) + 1
<1>1. PICK A : A = ArenaBlocks(pg, d)
  OBVIOUS
<1>2. IsFiniteSet(A \ h) /\ Cardinality(A \ h) \in Nat /\ Cardinality(A \ h) <= blocks_pre_arena[d]
  <2>1. IsFiniteSet(A) /\ A \ h \in SUBSET A
    BY <1>1, ArenaSize
  <2> QED
    BY <1>1, <2>1, ArenaSize, FS_Subset
<1>3. CASE b \notin h
  <2>1. A \ (h \cup {b}) = (A \ h) \ {b} /\ b \in A \ h
    BY <1>1, <1>3
  <2>2. Cardinality((A \ h) \ {b}) = Cardinality(A \ h) - 1
    BY <1>2, <2>1, FS_RemoveElement
  <2>3. PICK k, n \in Nat : k = Cardinality(A \ h) /\ n = blocks_pre_arena[d]
    BY <1>2, HeapConstants
  <2>4. Cardinality((A \ h) \ {b}) = k - 1 /\ k - 1 < n
    BY <1>2, <2>2, <2>3
  <2> QED
    BY <1>1, <1>3, <2>1, <2>3, <2>4
<1>4. CASE b \in h
  <2>1. A \ (h \ {b}) = (A \ h) \cup {b} /\ b \notin A \ h
    BY <1>1, <1>4
  <2>2. Cardinality((A \ h) \cup {b}) = Cardinality(A \ h) + 1
    BY <1>2, <2>1, FS_AddElement
  <2> QED
    BY <1>1, <1>4, <2>1, <2>2
<1> QED
  BY <1>3, <1>4

\* The header of an arena counts its free blocks, all of them being free or not.
HeaderIs(ar, h, L, pg) ==
    /\ ~ar[pg].large
    /\ \E q \in L, d \in Classes :
          /\ ar[pg].desc = <<q, d>>
          /\ ar[pg].cnt = Cardinality(ArenaBlocks(pg, d) \ h)

\* A header is not read or written with those of other pages.
LEMMA HeaderKept ==
  ASSUME NEW ar, NEW h, NEW L, NEW pg \in HeapPages, HeaderOK(ar, h, L, pg),
         NEW ar2, NEW h2, ar2[pg] = ar[pg],
         \A b \in PageBlocks(pg) : b \in h2 <=> b \in h
  PROVE  HeaderOK(ar2, h2, L, pg)
<1>1. ASSUME NEW d \in Classes PROVE ArenaBlocks(pg, d) \ h2 = ArenaBlocks(pg, d) \ h
  <2>1. ArenaBlocks(pg, d) \subseteq PageBlocks(pg)
    BY FirstBlocksAre
  <2> QED
    BY <2>1
<1> QED
  BY <1>1 DEF HeaderOK

LEMMA FreeInIs ==
  ASSUME NEW ar \in ArenaMaps, NEW h, NEW p, NEW d \in Classes
  PROVE  /\ FreeIn(ar, h, p, d) \subseteq Blocks
         /\ \A pg \in DOMAIN ar :
               /\ ar[pg].desc = <<p, d>> =>
                     FreeIn(ar, h, p, d) \cap PageBlocks(pg) = ArenaBlocks(pg, d) \ h
               /\ ar[pg].desc # <<p, d>> => FreeIn(ar, h, p, d) \cap PageBlocks(pg) = {}
         /\ \A pg : pg \notin DOMAIN ar => FreeIn(ar, h, p, d) \cap PageBlocks(pg) = {}
<1>1. DOMAIN ar \subseteq HeapPages
  BY ArenaMapIs
<1>2. ASSUME NEW pg \in DOMAIN ar, ar[pg].desc = <<p, d>>
      PROVE  FreeIn(ar, h, p, d) \cap PageBlocks(pg) = ArenaBlocks(pg, d) \ h
  <2>1. ASSUME NEW b \in Blocks
        PROVE  b \in FreeIn(ar, h, p, d) \cap PageBlocks(pg) <=> b \in ArenaBlocks(pg, d) \ h
    BY <1>1, <1>2, BlocksAre DEF FreeIn, PageBlocks
  <2>2. FreeIn(ar, h, p, d) \cap PageBlocks(pg) \subseteq Blocks /\ ArenaBlocks(pg, d) \ h \subseteq Blocks
    BY <1>1, BlocksAre DEF PageBlocks
  <2> QED
    BY <2>1, <2>2
<1>3. ASSUME NEW pg \in DOMAIN ar, ar[pg].desc # <<p, d>>
      PROVE  FreeIn(ar, h, p, d) \cap PageBlocks(pg) = {}
  BY <1>3 DEF FreeIn, PageBlocks
<1>4. ASSUME NEW pg, pg \notin DOMAIN ar PROVE FreeIn(ar, h, p, d) \cap PageBlocks(pg) = {}
  BY <1>4 DEF FreeIn, PageBlocks
<1> QED
  BY <1>2, <1>3, <1>4 DEF FreeIn

LEMMA PointersApart ==
  /\ \A x \in Blocks : x \notin Areas /\ x[1] = "block"
  /\ \A x \in Areas : /\ x \notin Blocks /\ x[1] = "area" /\ x[2] \in HeapPages /\ x[3] \in 1..MaxArea
                      /\ x[2] \in PagesOfArea(x) /\ x[2] \in Nat /\ x[3] \in Nat
  /\ \A p, d : NULL # <<p, d>>
<1>1. \A x \in Blocks : x \notin Areas /\ x[1] = "block"
  BY DEF Blocks, Areas
<1>2. ASSUME NEW x \in Areas
      PROVE  /\ x \notin Blocks /\ x[1] = "area" /\ x[2] \in HeapPages /\ x[3] \in 1..MaxArea
             /\ x[2] \in PagesOfArea(x) /\ x[2] \in Nat /\ x[3] \in Nat
  <2>1. PICK s \in HeapPages, c \in 1..MaxArea : x = <<"area", s, c>>
    BY DEF Areas
  <2>2. x[2] = s /\ x[3] = c /\ x[1] = "area"
    BY <2>1
  <2>3. s \in Nat /\ c \in Nat /\ c >= 1
    BY HeapConstants
  <2> QED
    BY <1>1, <2>2, <2>3 DEF PagesOfArea
<1>3. \A p, d : NULL # <<p, d>>
  BY DEF NULL
<1> QED
  BY <1>1, <1>2, <1>3
-----------------------------------------------------------------------------
\* A block is taken off its list, and its links are cleared.
Taken(m2, m, p, b) ==
    LET left == list_remove(m, p, b)
    IN  m2 = [next |-> Put(left.next, p, b, NULL), prev |-> Put(left.prev, p, b, NULL)]

LEMMA TakenIs ==
  ASSUME NEW m \in LinkMaps, NEW p \in Progs, NEW d \in Classes, NEW S, S \subseteq Blocks,
         ListIs(m.next[p], m.prev[p], p, d, S), NEW b \in S,
         NEW m2, Taken(m2, m, p, b)
  PROVE  /\ ListIs(m2.next[p], m2.prev[p], p, d, S \ {b})
         /\ Touches(m, m2, p, d, S)
<1>1. PICK m1 : Removed(m1, m, p, b)
  BY DEF Removed
<1>2. ListIs(m1.next[p], m1.prev[p], p, d, S \ {b}) /\ Touches(m, m1, p, d, S)
  BY <1>1, RemoveIs
<1>3. PICK f, g : IsPut(f, m1.next, p, b, NULL) /\ IsPut(g, m1.prev, p, b, NULL)
  BY DEF IsPut
<1>4. m2 = [next |-> f, prev |-> g]
  BY <1>1, <1>3 DEF Taken, Removed, IsPut
<1>5. /\ m1.next \in [Progs -> [Nodes -> Nodes]] /\ m1.prev \in [Progs -> [Nodes -> Nodes]]
      /\ b \in Nodes /\ b \notin Ends /\ NULL \in Nodes
  BY <1>2, NodesApart DEF Touches, LinkMaps
<1>6. IsPutAt(f, m1.next, p, b, NULL) /\ IsPutAt(g, m1.prev, p, b, NULL)
  BY <1>3, <1>5, PutIs
<1>7. /\ f \in [Progs -> [Nodes -> Nodes]] /\ g \in [Progs -> [Nodes -> Nodes]]
      /\ \A a \in Progs, y \in Nodes : y # b \/ a # p => /\ f[a][y] = m1.next[a][y]
                                                       /\ g[a][y] = m1.prev[a][y]
  BY <1>5, <1>6 DEF IsPutAt
<1>8. m2 \in LinkMaps /\ m2.next = f /\ m2.prev = g
  BY <1>4, <1>7 DEF LinkMaps
<1>9. Touches(m, m2, p, d, S)
  <2>1. Touches(m1, m2, p, d, S)
    BY <1>7, <1>8 DEF Touches
  <2> QED
    BY <1>2, <2>1, TouchesTwice
<1>10. ListIs(f[p], g[p], p, d, S \ {b})
  <2>1. ASSUME NEW x \in (S \ {b}) \cup {head(p, d), tail(p, d)}
        PROVE  f[p][x] = m1.next[p][x] /\ g[p][x] = m1.prev[p][x]
    <3>1. x \in Nodes /\ x # b
      BY NodesApart
    <3> QED
      BY <1>7, <3>1
  <2>2. PICK N, V, N2, V2 : N = m1.next[p] /\ V = m1.prev[p] /\ N2 = f[p] /\ V2 = g[p]
    OBVIOUS
  <2>3. /\ \A x \in (S \ {b}) \cup {head(p, d)} : N2[x] = N[x]
        /\ \A x \in (S \ {b}) \cup {tail(p, d)} : V2[x] = V[x]
        /\ ListIs(N, V, p, d, S \ {b})
    BY <1>2, <2>1, <2>2
  <2>4. ListIs(N2, V2, p, d, S \ {b})
    BY <2>3, ListSame
  <2> QED
    BY <2>2, <2>4
<1> QED
  BY <1>8, <1>9, <1>10

\* In the arena of the block the count goes down.
CountDown(ar2, ar, b) == ar2 = [ar EXCEPT ![b[2]].cnt = @ - 1]

\* What the other pages' headers say holds.
OthersOK(ar, h, L, b) == \A pg \in DOMAIN ar : pg # b[2] => HeaderOK(ar, h, L, pg)

IsCountedDown(ar2, ar, h, L, p, d, b) ==
    /\ ar2 \in ArenaMaps /\ ProgOK(ar2, h \cup {b}, L)
    /\ FreeIn(ar2, h \cup {b}, p, d) = FreeIn(ar, h, p, d) \ {b}
    /\ \A e \in Classes : e # d => FreeIn(ar2, h \cup {b}, p, e) = FreeIn(ar, h, p, e)

LEMMA CountDownIs ==
  ASSUME NEW ar \in ArenaMaps, NEW h, NEW L, NEW p \in L, NEW d \in Classes,
         NEW b \in FreeIn(ar, h, p, d), HeldOK(ar, h), HeaderIs(ar, h, L, b[2]),
         OthersOK(ar, h, L, b), L \subseteq Progs, NEW ar2, CountDown(ar2, ar, b)
  PROVE  IsCountedDown(ar2, ar, h, L, p, d, b)
<1>1. PICK pg : pg = b[2]
  OBVIOUS
<1>2. /\ b \in Blocks /\ b \notin h /\ pg \in DOMAIN ar /\ ar[pg].desc = <<p, d>>
      /\ b[3] <= blocks_pre_arena[d] /\ pg \in HeapPages
  BY <1>1, NodesApart DEF FreeIn
<1>3. b \in ArenaBlocks(pg, d)
  BY <1>1, <1>2, BlocksAre
<1>4. ~ar[pg].large /\ ar[pg].cnt = Cardinality(ArenaBlocks(pg, d) \ h)
  BY <1>1, <1>2 DEF HeaderIs
<1>5. PICK k : k = Cardinality(ArenaBlocks(pg, d) \ (h \cup {b}))
  OBVIOUS
<1>6. k \in Nat /\ k < blocks_pre_arena[d] /\ k = ar[pg].cnt - 1
  <2>1. k \in Nat
    BY <1>2, <1>5, ArenaSize
  <2>2. /\ Cardinality(ArenaBlocks(pg, d) \ (h \cup {b})) = Cardinality(ArenaBlocks(pg, d) \ h) - 1
        /\ Cardinality(ArenaBlocks(pg, d) \ (h \cup {b})) < blocks_pre_arena[d]
    BY <1>2, <1>3, CountTaken
  <2> QED
    BY <1>4, <1>5, <2>1, <2>2
<1>7. /\ DOMAIN ar \subseteq HeapPages /\ ar = [q \in DOMAIN ar |-> ar[q]]
      /\ \A q \in DOMAIN ar : ar[q] \in Header
  BY ArenaMapIs
<1>8. ar2 = [ar EXCEPT ![pg].cnt = k]
  BY <1>1, <1>2, <1>6, <1>7 DEF CountDown
<1>9. /\ DOMAIN ar2 = DOMAIN ar /\ \A q \in DOMAIN ar : q # pg => ar2[q] = ar[q]
      /\ ar2[pg] = [ar[pg] EXCEPT !.cnt = k]
  BY <1>2, <1>7, <1>8
<1>10. /\ ar[pg] \in Header /\ ar2[pg] \in Header /\ ar2[pg].desc = <<p, d>> /\ ~ar2[pg].large /\ ar2[pg].cnt = k
  BY <1>2, <1>4, <1>6, <1>7, <1>9 DEF Header
<1>11. ar2 \in ArenaMaps
  <2>1. ar2 \in [DOMAIN ar -> Header]
    <3>1. ar2 = [q \in DOMAIN ar |-> ar2[q]]
      BY <1>7, <1>8
    <3> QED
      BY <1>7, <1>9, <1>10, <3>1
  <2> QED
    BY <1>7, <2>1, ArenaMapOf
<1>12. ASSUME NEW q \in DOMAIN ar2 PROVE HeaderOK(ar2, h \cup {b}, L, q)
  <2>1. CASE q = pg
    BY <1>5, <1>6, <1>10, <2>1 DEF HeaderOK
  <2>2. CASE q # pg
    <3>1. HeaderOK(ar, h, L, q) /\ ar2[q] = ar[q] /\ q \in HeapPages
      BY <1>1, <1>7, <1>9, <2>2 DEF OthersOK
    <3>2. \A c \in PageBlocks(q) : c \in h \cup {b} <=> c \in h
      BY <1>1, <2>2 DEF PageBlocks
    <3> QED
      BY <3>1, <3>2, HeaderKept
  <2> QED
    BY <2>1, <2>2
<1>13. \A q \in DOMAIN ar : ar2[q].desc = ar[q].desc /\ ar2[q].large = ar[q].large
  BY <1>2, <1>4, <1>7, <1>9, <1>10 DEF Header
<1>14. HeldOK(ar2, h \cup {b})
  <2>1. PointerOK(ar2, b)
    BY <1>1, <1>2, <1>9, <1>10 DEF PointerOK
  <2>2. ASSUME NEW x \in h PROVE PointerOK(ar2, x)
    <3>1. CASE x \in Blocks
      <4>1. x[2] \in DOMAIN ar /\ ~ar[x[2]].large /\ x[3] <= blocks_pre_arena[ar[x[2]].desc[2]]
        BY <3>1, PointersApart DEF HeldOK, PointerOK
      <4> QED
        BY <1>9, <1>13, <3>1, <4>1 DEF PointerOK
    <3>2. CASE x \notin Blocks
      <4>1. x \in Areas /\ ar[x[2]].cnt = x[3] /\ \A q \in PagesOfArea(x) : q \in DOMAIN ar /\ ar[q].large
        BY <3>2 DEF HeldOK, PointerOK
      <4>2. x[2] \in PagesOfArea(x)
        BY <4>1, PointersApart
      <4>3. x[2] # pg /\ x[2] \in DOMAIN ar
        BY <1>4, <4>1, <4>2
      <4> QED
        BY <1>9, <1>13, <4>1, <4>3 DEF PointerOK
    <3> QED
      BY <3>1, <3>2
  <2>3. (h \cup {b}) \cap Areas = h \cap Areas
    BY <1>2, PointersApart
  <2> QED
    BY <2>1, <2>2, <2>3 DEF HeldOK
<1>15. ASSUME NEW e PROVE FreeIn(ar2, h \cup {b}, p, e) = FreeIn(ar, h, p, e) \ {b}
  BY <1>9, <1>13 DEF FreeIn
<1>16. ASSUME NEW e \in Classes, e # d PROVE b \notin FreeIn(ar, h, p, e)
  <2>1. ar[b[2]].desc # <<p, e>>
    BY <1>1, <1>2, <1>16
  <2> QED
    BY <2>1 DEF FreeIn
<1> QED
  BY <1>11, <1>12, <1>14, <1>15, <1>16 DEF ProgOK, IsCountedDown
-----------------------------------------------------------------------------
(***************************************************************************)
(* The steps.  One process has other headers and pointers after a step,    *)
(* and its lists are those of its free blocks again.                       *)
(***************************************************************************)
Changed(p, ar, h) ==
    /\ arena' = [arena EXCEPT ![p] = ar] /\ held' = [held EXCEPT ![p] = h]
    /\ live' = live /\ fault' = fault

LEMMA HeapStep ==
  ASSUME HeapSound, NEW p \in live, NEW ar \in ArenaMaps, NEW h \in SUBSET Pointers,
         ProgOK(ar, h, live), Changed(p, ar, h),
         next' \in [Progs -> [Nodes -> Nodes]], prev' \in [Progs -> [Nodes -> Nodes]],
         \A a \in live, e \in Classes : a # p =>
            ListIs(next'[a], prev'[a], a, e, FreeIn(arena[a], held[a], a, e)),
         \A e \in Classes : ListIs(next'[p], prev'[p], p, e, FreeIn(ar, h, p, e))
  PROVE  HeapSound'
<1>1. HeapTypeOK /\ ~fault /\ \A a \in live : ProgOK(arena[a], held[a], live)
  BY DEF HeapSound
<1>2. /\ live' = live /\ ~fault' /\ live \subseteq Progs /\ p \in Progs
      /\ arena' \in [Progs -> ArenaMaps] /\ held' \in [Progs -> SUBSET Pointers]
      /\ \A a \in live : a # p => arena'[a] = arena[a] /\ held'[a] = held[a]
      /\ arena'[p] = ar /\ held'[p] = h
  BY <1>1 DEF Changed, HeapTypeOK
<1>3. HeapTypeOK'
  BY <1>2 DEF HeapTypeOK
<1>4. ASSUME NEW a \in live PROVE ProgOK(arena'[a], held'[a], live)
  BY <1>1, <1>2
<1>5. ASSUME NEW a \in live, NEW e \in Classes
      PROVE  ListIs(next'[a], prev'[a], a, e, FreeIn(arena'[a], held'[a], a, e))
  BY <1>2
<1> QED
  BY <1>2, <1>3, <1>4, <1>5 DEF HeapSound

\* The links that a step ends with, and the free blocks of p's other lists:
\* the same, and not touched.
LinksAre(m2) == next' = m2.next /\ prev' = m2.prev

OthersKept(ar, h, p, d, T) ==
    \A e \in Classes : e # d => /\ FreeIn(ar, h, p, e) = FreeIn(arena[p], held[p], p, e)
                                /\ FreeIn(ar, h, p, e) \cap T = {}

\* The links were changed for a list of p only.
LEMMA ListStep ==
  ASSUME HeapSound, NEW p \in live, NEW d \in Classes, NEW T, T \subseteq Blocks,
         NEW ar \in ArenaMaps, NEW h \in SUBSET Pointers, ProgOK(ar, h, live), Changed(p, ar, h),
         NEW m2, LinksAre(m2), Touches(Links, m2, p, d, T),
         ListIs(m2.next[p], m2.prev[p], p, d, FreeIn(ar, h, p, d)),
         OthersKept(ar, h, p, d, T)
  PROVE  HeapSound'
<1>1. /\ live \subseteq Progs /\ p \in Progs
      /\ Links \in LinkMaps /\ Links.next = next /\ Links.prev = prev
      /\ \A a \in live, e \in Classes :
            ListIs(next[a], prev[a], a, e, FreeIn(arena[a], held[a], a, e))
  BY DEF HeapSound, HeapTypeOK, Links, LinkMaps
<1>2. m2.next \in [Progs -> [Nodes -> Nodes]] /\ m2.prev \in [Progs -> [Nodes -> Nodes]]
  BY DEF Touches, LinkMaps
<1>3. ASSUME NEW a \in live, NEW e \in Classes, a # p \/ e # d
      PROVE  ListIs(m2.next[a], m2.prev[a], a, e, FreeIn(arena[a], held[a], a, e))
  <2>1. PICK S : S = FreeIn(arena[a], held[a], a, e)
    OBVIOUS
  <2>2. S \subseteq Blocks /\ (a = p => S \cap T = {})
    BY <1>3, <2>1 DEF FreeIn, OthersKept
  <2>3. PICK m : m = Links
    OBVIOUS
  <2>4. /\ ListIs(m.next[a], m.prev[a], a, e, S) /\ Touches(m, m2, p, d, T)
        /\ a \in Progs
    BY <1>1, <2>1, <2>3
  <2>5. ListIs(m2.next[a], m2.prev[a], a, e, S)
    BY <1>3, <2>2, <2>4, OtherList
  <2> QED
    BY <2>1, <2>5
<1>4. \A a \in live, e \in Classes : a # p =>
            ListIs(next'[a], prev'[a], a, e, FreeIn(arena[a], held[a], a, e))
  BY <1>3 DEF LinksAre
<1>5. \A e \in Classes : ListIs(next'[p], prev'[p], p, e, FreeIn(ar, h, p, e))
  BY <1>3 DEF LinksAre, OthersKept
<1>6. next' \in [Progs -> [Nodes -> Nodes]] /\ prev' \in [Progs -> [Nodes -> Nodes]]
  BY <1>2 DEF LinksAre
<1> QED
  BY <1>4, <1>5, <1>6, HeapStep

\* A free block is popped, from the lists and headers that m and ar are.
LEMMA PoppedStep ==
  ASSUME HeapSound, NEW p \in live, NEW d \in Classes, NEW T, T \subseteq Blocks,
         NEW m, Touches(Links, m, p, d, T), NEW ar \in ArenaMaps,
         ListIs(m.next[p], m.prev[p], p, d, FreeIn(ar, held[p], p, d)),
         FreeIn(ar, held[p], p, d) # {}, HeldOK(ar, held[p]),
         \A b \in FreeIn(ar, held[p], p, d) :
            HeaderIs(ar, held[p], live, b[2]) /\ OthersOK(ar, held[p], live, b),
         OthersKept(ar, held[p], p, d, T), Popped(p, d, m, ar)
  PROVE  HeapSound'
<1>1. PICK S : S = FreeIn(ar, held[p], p, d)
  OBVIOUS
<1>2. PICK b : b = m.next[p][head(p, d)]
  OBVIOUS
<1>3. /\ live \subseteq Progs /\ p \in Progs /\ held[p] \in SUBSET Pointers
      /\ m \in LinkMaps /\ S \subseteq Blocks
  BY <1>1 DEF HeapSound, HeapTypeOK, Touches, FreeIn
<1>4. ListIs(m.next[p], m.prev[p], p, d, S) /\ S # {}
  BY <1>1
<1>5. b \in S /\ m.next[p][b] # NULL /\ m.prev[p][b] # NULL
  <2>1. PICK N, V : N = m.next[p] /\ V = m.prev[p]
    OBVIOUS
  <2>2. ListIs(N, V, p, d, S)
    BY <1>4, <2>1
  <2>3. N[head(p, d)] \in S /\ \A c \in S : N[c] # NULL /\ V[c] # NULL
    BY <1>4, <2>2, ListFirst
  <2> QED
    BY <1>2, <2>1, <2>3
<1>6. b \in Blocks /\ b[2] \in DOMAIN ar
  BY <1>1, <1>5 DEF FreeIn
<1>7. PICK m2 : Taken(m2, m, p, b)
  BY DEF Taken
<1>8. PICK ar2 : CountDown(ar2, ar, b)
  BY DEF CountDown
<1>9. /\ next' = m2.next /\ prev' = m2.prev /\ arena' = [arena EXCEPT ![p] = ar2]
      /\ held' = [held EXCEPT ![p] = @ \cup {b}] /\ live' = live /\ fault' = fault
  BY <1>2, <1>5, <1>6, <1>7, <1>8 DEF Popped, Taken, CountDown
<1>10. ListIs(m2.next[p], m2.prev[p], p, d, S \ {b}) /\ Touches(m, m2, p, d, S)
  BY <1>3, <1>4, <1>5, <1>7, TakenIs
<1>11. PICK h : h = held[p] \cup {b}
  OBVIOUS
<1>12. /\ ar2 \in ArenaMaps /\ ProgOK(ar2, h, live)
       /\ FreeIn(ar2, h, p, d) = S \ {b}
       /\ \A e \in Classes : e # d => FreeIn(ar2, h, p, e) = FreeIn(ar, held[p], p, e)
  <2>1. PICK h0 : h0 = held[p]
    OBVIOUS
  <2>2. /\ b \in FreeIn(ar, h0, p, d) /\ HeldOK(ar, h0) /\ HeaderIs(ar, h0, live, b[2])
        /\ OthersOK(ar, h0, live, b)
    BY <1>1, <1>5, <2>1
  <2>3. IsCountedDown(ar2, ar, h0, live, p, d, b)
    BY <1>3, <1>8, <2>2, CountDownIs
  <2> QED
    BY <1>1, <1>11, <2>1, <2>3 DEF IsCountedDown
<1>13. Changed(p, ar2, h)
  <2>1. held' = [held EXCEPT ![p] = h]
    BY <1>9, <1>11
  <2> QED
    BY <1>9, <2>1 DEF Changed
<1>14. h \in SUBSET Pointers
  BY <1>3, <1>6, <1>11 DEF Pointers
<1>15. Touches(Links, m2, p, d, T \cup S) /\ T \cup S \subseteq Blocks
  <2>1. Touches(Links, m, p, d, T \cup S) /\ Touches(m, m2, p, d, T \cup S)
    BY <1>10, TouchesMore
  <2> QED
    BY <1>3, <2>1, TouchesTwice
<1>16. ASSUME NEW e \in Classes, e # d
       PROVE  /\ FreeIn(ar2, h, p, e) = FreeIn(arena[p], held[p], p, e)
              /\ FreeIn(ar2, h, p, e) \cap (T \cup S) = {}
  <2>1. FreeIn(ar, held[p], p, e) \cap S = {}
    BY <1>1, <1>16 DEF FreeIn
  <2> QED
    BY <1>12, <1>16, <2>1 DEF OthersKept
<1>17. ListIs(m2.next[p], m2.prev[p], p, d, FreeIn(ar2, h, p, d))
  BY <1>10, <1>12
<1>18. LinksAre(m2)
  BY <1>9 DEF LinksAre
<1>19. PICK T2 : T2 = T \cup S
  OBVIOUS
<1>20. T2 \subseteq Blocks /\ Touches(Links, m2, p, d, T2) /\ OthersKept(ar2, h, p, d, T2)
  BY <1>15, <1>16, <1>19 DEF OthersKept
<1> QED
  BY <1>12, <1>13, <1>14, <1>17, <1>18, <1>20, ListStep

\* What HeapSound says of a process that may call.
LEMMA SoundAt ==
  ASSUME HeapSound, NEW p \in live
  PROVE  /\ p \in Progs /\ live \subseteq Progs /\ arena[p] \in ArenaMaps /\ held[p] \in SUBSET Pointers
         /\ HeldOK(arena[p], held[p])
         /\ \A pg \in DOMAIN arena[p] : HeaderOK(arena[p], held[p], live, pg)
         /\ Links \in LinkMaps /\ Links.next = next /\ Links.prev = prev
         /\ \A d \in Classes : ListIs(Links.next[p], Links.prev[p], p, d, FreeIn(arena[p], held[p], p, d))
  BY DEF HeapSound, HeapTypeOK, ProgOK, Links, LinkMaps

LEMMA TouchesNone ==
  ASSUME NEW m \in LinkMaps, NEW p, NEW d
  PROVE  Touches(m, m, p, d, {})
  BY DEF Touches

LEMMA MallocSound ==
  ASSUME HeapSound, NEW p \in Progs, NEW d \in Classes, sys_malloc(p, d)
  PROVE  HeapSound'
<1>1. p \in live /\ ~list_empty(Links, p, <<p, d>>) /\ Popped(p, d, Links, arena[p])
  BY DEF sys_malloc, CanCall
<1>2. PICK S : S = FreeIn(arena[p], held[p], p, d)
  OBVIOUS
<1>3. S # {}
  <2>1. PICK N, V : N = Links.next[p] /\ V = Links.prev[p]
    OBVIOUS
  <2>2. ListIs(N, V, p, d, S)
    BY <1>1, <1>2, <2>1, SoundAt
  <2>3. N[head(p, d)] # tail(p, d)
    BY <1>1, <2>1 DEF list_empty
  <2> QED
    BY <2>2, <2>3, ListFirst
<1>4. ASSUME NEW b \in S
      PROVE  HeaderIs(arena[p], held[p], live, b[2]) /\ OthersOK(arena[p], held[p], live, b)
  <2>1. b[2] \in DOMAIN arena[p] /\ arena[p][b[2]].desc = <<p, d>>
    BY <1>2 DEF FreeIn
  <2>2. \A pg \in DOMAIN arena[p] : HeaderOK(arena[p], held[p], live, pg)
    BY <1>1, SoundAt
  <2> QED
    BY <2>1, <2>2, PointersApart DEF HeaderOK, HeaderIs, OthersOK
<1>5. Touches(Links, Links, p, d, {})
  BY <1>1, SoundAt, TouchesNone
<1>6. PICK m, ar : m = Links /\ ar = arena[p]
  OBVIOUS
<1>7. /\ Touches(Links, m, p, d, {}) /\ ar \in ArenaMaps
      /\ ListIs(m.next[p], m.prev[p], p, d, FreeIn(ar, held[p], p, d))
      /\ FreeIn(ar, held[p], p, d) # {} /\ HeldOK(ar, held[p])
      /\ Popped(p, d, m, ar)
  BY <1>1, <1>2, <1>3, <1>5, <1>6, SoundAt
<1>8. \A b \in FreeIn(ar, held[p], p, d) :
            HeaderIs(ar, held[p], live, b[2]) /\ OthersOK(ar, held[p], live, b)
  BY <1>2, <1>4, <1>6
<1>9. PICK T : T = {}
  OBVIOUS
<1>10. T \subseteq Blocks /\ Touches(Links, m, p, d, T) /\ OthersKept(ar, held[p], p, d, T)
  BY <1>6, <1>7, <1>9 DEF OthersKept
<1> QED
  BY <1>1, <1>7, <1>8, <1>10, PoppedStep

\* The pages D have been mapped, with header hd.
Added(ar2, ar, D, hd) ==
    ar2 = [q \in DOMAIN ar \cup D |-> IF q \in DOMAIN ar THEN ar[q] ELSE hd]

HeadersOK(ar, h, L) == \A pg \in DOMAIN ar : HeaderOK(ar, h, L, pg)

IsAdded(ar2, ar, h, L, D, hd) ==
    /\ ar2 \in ArenaMaps /\ HeldOK(ar2, h)
    /\ DOMAIN ar2 = DOMAIN ar \cup D
    /\ \A pg \in DOMAIN ar : HeaderOK(ar2, h, L, pg) /\ ar2[pg] = ar[pg]
    /\ \A q \in D : ar2[q] = hd /\ PageBlocks(q) \cap h = {}
    /\ \A p, e : hd.desc # <<p, e>> => FreeIn(ar2, h, p, e) = FreeIn(ar, h, p, e)

LEMMA AddedIs ==
  ASSUME NEW ar \in ArenaMaps, NEW h, NEW L, NEW D \in SUBSET HeapPages, D \cap DOMAIN ar = {},
         NEW hd \in Header, HeldOK(ar, h), HeadersOK(ar, h, L), NEW ar2, Added(ar2, ar, D, hd)
  PROVE  IsAdded(ar2, ar, h, L, D, hd)
<1>1. DOMAIN ar \subseteq HeapPages /\ \A q \in DOMAIN ar : ar[q] \in Header
  BY ArenaMapIs
<1>2. /\ ar2 \in [DOMAIN ar \cup D -> Header] /\ DOMAIN ar2 = DOMAIN ar \cup D
      /\ \A q \in DOMAIN ar : ar2[q] = ar[q]
      /\ \A q \in D : ar2[q] = hd
  BY <1>1 DEF Added
<1>3. ar2 \in ArenaMaps
  BY <1>1, <1>2, ArenaMapOf
<1>4. ASSUME NEW pg \in DOMAIN ar PROVE HeaderOK(ar2, h, L, pg)
  BY <1>1, <1>2, HeaderKept DEF HeadersOK
<1>5. ASSUME NEW x \in h PROVE PointerOK(ar2, x)
  <2>1. CASE x \in Blocks
    <3>1. x[2] \in DOMAIN ar /\ ~ar[x[2]].large /\ x[3] <= blocks_pre_arena[ar[x[2]].desc[2]]
      BY <2>1, PointersApart DEF HeldOK, PointerOK
    <3> QED
      BY <1>2, <2>1, <3>1 DEF PointerOK
  <2>2. CASE x \notin Blocks
    <3>1. x \in Areas /\ ar[x[2]].cnt = x[3] /\ \A q \in PagesOfArea(x) : q \in DOMAIN ar /\ ar[q].large
      BY <2>2 DEF HeldOK, PointerOK
    <3>2. x[2] \in DOMAIN ar
      BY <3>1, PointersApart
    <3> QED
      BY <1>2, <3>1, <3>2 DEF PointerOK
  <2> QED
    BY <2>1, <2>2
<1>6. HeldOK(ar2, h)
  BY <1>5 DEF HeldOK
<1>7. ASSUME NEW q \in D PROVE PageBlocks(q) \cap h = {}
  BY PointersApart DEF HeldOK, PointerOK, PageBlocks
<1>8. ASSUME NEW p, NEW e, hd.desc # <<p, e>> PROVE FreeIn(ar2, h, p, e) = FreeIn(ar, h, p, e)
  BY <1>2, <1>8 DEF FreeIn
<1> QED
  BY <1>2, <1>3, <1>4, <1>6, <1>7, <1>8 DEF IsAdded

LEMMA FreeRunsAre ==
  ASSUME HeapSound, NEW p \in live, NEW cnt \in 1..MaxArea \cup {1}, FreeRuns(p, cnt) # {},
         NEW s, s = LowestRun(FreeRuns(p, cnt))
  PROVE  /\ s \in HeapPages /\ s..(s + cnt - 1) \in SUBSET HeapPages
         /\ (s..(s + cnt - 1)) \cap DOMAIN arena[p] = {}
<1>1. FreeRuns(p, cnt) \subseteq Nat
  BY HeapConstants DEF FreeRuns
<1>2. s \in FreeRuns(p, cnt)
  BY <1>1, LowestRunIs
<1>3. s \in HeapPages /\ s + cnt - 1 <= NHeap /\ (s..(s + cnt - 1)) \cap DOMAIN arena[p] = {}
  BY <1>2 DEF FreeRuns
<1>4. s \in Nat /\ s >= 1 /\ NHeap \in Nat /\ cnt \in Nat
  BY <1>3, HeapConstants DEF HeapPages
<1>5. s..(s + cnt - 1) \subseteq 1..NHeap
  BY <1>3, <1>4
<1> QED
  BY <1>3, <1>5 DEF HeapPages

LEMMA MallocArenaSound ==
  ASSUME HeapSound, NEW p \in Progs, NEW d \in Classes, sys_malloc_arena(p, d)
  PROVE  HeapSound'
<1>1. p \in live /\ list_empty(Links, p, <<p, d>>) /\ FreeRuns(p, 1) # {}
  BY DEF sys_malloc_arena, CanCall
<1>2. PICK pg : pg = LowestRun(FreeRuns(p, 1))
  OBVIOUS
<1>3. pg \in HeapPages /\ pg \notin DOMAIN arena[p]
  <2>1. pg \in HeapPages /\ (pg..(pg + 1 - 1)) \cap DOMAIN arena[p] = {}
    BY <1>1, <1>2, FreeRunsAre
  <2>2. pg \in pg..(pg + 1 - 1)
    BY <2>1, HeapConstants
  <2> QED
    BY <2>1, <2>2
<1>4. PICK hd : hd = [desc |-> <<p, d>>, cnt |-> blocks_pre_arena[d], large |-> FALSE]
  OBVIOUS
<1>5. PICK m : m = Filled(Links, p, pg, d)
  OBVIOUS
<1>6. PICK ar : Added(ar, arena[p], {pg}, hd)
  BY DEF Added
<1>7. Popped(p, d, m, ar)
  <2>1. [q \in DOMAIN arena[p] \cup {pg} |-> IF q = pg THEN hd ELSE arena[p][q]] = ar
    BY <1>3, <1>6 DEF Added
  <2> QED
    BY <1>2, <1>4, <1>5, <2>1 DEF sys_malloc_arena
<1>8. PICK h : h = held[p]
  OBVIOUS
<1>9. PICK ar0 : ar0 = arena[p]
  OBVIOUS
<1>10. /\ ar0 \in ArenaMaps /\ HeldOK(ar0, h) /\ HeadersOK(ar0, h, live) /\ Added(ar, ar0, {pg}, hd)
       /\ hd \in Header /\ {pg} \in SUBSET HeapPages /\ {pg} \cap DOMAIN ar0 = {}
  <2>1. hd \in Header
    BY <1>4, HeapConstants DEF Header
  <2> QED
    BY <1>1, <1>3, <1>6, <1>8, <1>9, <2>1, SoundAt DEF HeadersOK
<1>11. IsAdded(ar, ar0, h, live, {pg}, hd)
  BY <1>10, AddedIs
<1>12. /\ ar \in ArenaMaps /\ HeldOK(ar, h) /\ DOMAIN ar = DOMAIN ar0 \cup {pg}
       /\ \A q \in DOMAIN ar0 : HeaderOK(ar, h, live, q) /\ ar[q] = ar0[q]
       /\ ar[pg] = hd /\ PageBlocks(pg) \cap h = {}
       /\ \A e \in Classes : e # d => FreeIn(ar, h, p, e) = FreeIn(ar0, h, p, e)
  BY <1>4, <1>11 DEF IsAdded
<1>13. ListIs(Links.next[p], Links.prev[p], p, d, {}) /\ FreeIn(ar0, h, p, d) = {}
  <2>1. PICK N, V : N = Links.next[p] /\ V = Links.prev[p]
    OBVIOUS
  <2>2. PICK S : S = FreeIn(ar0, h, p, d)
    OBVIOUS
  <2>3. ListIs(N, V, p, d, S)
    BY <1>1, <1>8, <1>9, <2>1, <2>2, SoundAt
  <2>4. N[head(p, d)] = tail(p, d)
    BY <1>1, <2>1 DEF list_empty
  <2>5. S = {}
    BY <2>3, <2>4, ListFirst
  <2> QED
    BY <2>1, <2>2, <2>3, <2>5
<1>14. /\ ListIs(m.next[p], m.prev[p], p, d, ArenaBlocks(pg, d))
       /\ Touches(Links, m, p, d, PageBlocks(pg))
  <2>1. Links \in LinkMaps
    BY <1>1, SoundAt
  <2> QED
    BY <1>3, <1>5, <1>13, <2>1, FilledIs
<1>15. ArenaBlocks(pg, d) \cap h = {} /\ ArenaBlocks(pg, d) \subseteq PageBlocks(pg)
  BY <1>3, <1>12, FirstBlocksAre
<1>16. FreeIn(ar, h, p, d) = ArenaBlocks(pg, d)
  <2>1. FreeIn(ar, h, p, d) \cap PageBlocks(pg) = ArenaBlocks(pg, d) \ h
    BY <1>4, <1>12, FreeInIs
  <2>2. FreeIn(ar, h, p, d) \subseteq PageBlocks(pg)
    BY <1>12, <1>13 DEF FreeIn, PageBlocks
  <2> QED
    BY <1>15, <2>1, <2>2
<1>17. ArenaBlocks(pg, d) # {} /\ \A b \in ArenaBlocks(pg, d) : b[2] = pg
  <2>1. <<"block", pg, 1>> \in ArenaBlocks(pg, d)
    BY HeapConstants DEF ArenaBlocks
  <2> QED
    BY <1>15, <2>1 DEF PageBlocks
<1>18. HeaderIs(ar, h, live, pg)
  <2>1. ArenaBlocks(pg, d) \ h = ArenaBlocks(pg, d)
    BY <1>15
  <2>2. Cardinality(ArenaBlocks(pg, d) \ h) = blocks_pre_arena[d]
    BY <1>3, <2>1, ArenaSize
  <2>3. ar[pg].desc = <<p, d>> /\ ar[pg].cnt = blocks_pre_arena[d] /\ ~ar[pg].large
    BY <1>4, <1>12
  <2> QED
    BY <1>1, <2>2, <2>3 DEF HeaderIs
<1>19. \A b \in FreeIn(ar, held[p], p, d) :
            HeaderIs(ar, held[p], live, b[2]) /\ OthersOK(ar, held[p], live, b)
  BY <1>8, <1>12, <1>16, <1>17, <1>18 DEF OthersOK
<1>20. PICK T : T = PageBlocks(pg)
  OBVIOUS
<1>21. OthersKept(ar, held[p], p, d, T)
  <2>1. ASSUME NEW e \in Classes PROVE FreeIn(ar0, h, p, e) \cap T = {}
    BY <1>3, <1>9, <1>10, <1>20, FreeInIs
  <2> QED
    BY <1>8, <1>9, <1>12, <2>1 DEF OthersKept
<1>22. /\ T \subseteq Blocks /\ Touches(Links, m, p, d, T)
       /\ ListIs(m.next[p], m.prev[p], p, d, FreeIn(ar, held[p], p, d))
       /\ FreeIn(ar, held[p], p, d) # {} /\ HeldOK(ar, held[p])
  BY <1>8, <1>12, <1>14, <1>16, <1>17, <1>20 DEF PageBlocks
<1> QED
  BY <1>1, <1>7, <1>12, <1>19, <1>21, <1>22, PoppedStep

\* The pages D are unmapped, with the pointers into them.
Clear(h2, h, D) ==
    /\ h2 \subseteq h
    /\ \A x \in h2 \cap Blocks : x[2] \notin D
    /\ \A x \in h2 \cap Areas : PagesOfArea(x) \cap D = {}
    /\ \A x \in (h \ h2) \cap Blocks : x[2] \in D

IsDropped(ar2, h2, ar, h, L, D) ==
    /\ ar2 \in ArenaMaps /\ ProgOK(ar2, h2, L)
    /\ \A p, e : FreeIn(ar2, h2, p, e) = {b \in FreeIn(ar, h, p, e) : b[2] \notin D}

LEMMA DroppedIs ==
  ASSUME NEW ar \in ArenaMaps, NEW h, NEW h2, NEW L, NEW D, Clear(h2, h, D),
         HeldOK(ar, h), HeadersOK(ar, h, L), NEW ar2, ar2 = Unmapped(ar, D)
  PROVE  IsDropped(ar2, h2, ar, h, L, D)
<1>1. DOMAIN ar \subseteq HeapPages /\ \A q \in DOMAIN ar : ar[q] \in Header
  BY ArenaMapIs
<1>2. /\ ar2 \in [DOMAIN ar \ D -> Header] /\ DOMAIN ar2 = DOMAIN ar \ D
      /\ \A q \in DOMAIN ar \ D : ar2[q] = ar[q]
  BY <1>1 DEF Unmapped
<1>3. ar2 \in ArenaMaps
  <2>1. DOMAIN ar \ D \subseteq HeapPages
    BY <1>1
  <2>2. PICK D2 : D2 = DOMAIN ar \ D
    OBVIOUS
  <2> QED
    BY <1>2, <2>1, <2>2, ArenaMapOf
<1>4. ASSUME NEW pg \in DOMAIN ar2 PROVE HeaderOK(ar2, h2, L, pg)
  <2>1. pg \in DOMAIN ar /\ pg \notin D /\ ar2[pg] = ar[pg] /\ pg \in HeapPages
    BY <1>1, <1>2
  <2>2. \A b \in PageBlocks(pg) : b \in h2 <=> b \in h
    BY <2>1 DEF Clear, PageBlocks
  <2>3. HeaderOK(ar, h, L, pg)
    BY <2>1 DEF HeadersOK
  <2> QED
    BY <2>1, <2>2, <2>3, HeaderKept
<1>5. ASSUME NEW x \in h2 PROVE PointerOK(ar2, x)
  <2>1. x \in h /\ PointerOK(ar, x)
    BY DEF Clear, HeldOK
  <2>2. CASE x \in Blocks
    <3>1. x[2] \in DOMAIN ar /\ ~ar[x[2]].large /\ x[3] <= blocks_pre_arena[ar[x[2]].desc[2]] /\ x[2] \notin D
      BY <2>1, <2>2, PointersApart DEF PointerOK, Clear
    <3> QED
      BY <1>2, <2>2, <3>1 DEF PointerOK
  <2>3. CASE x \notin Blocks
    <3>1. x \in Areas /\ ar[x[2]].cnt = x[3] /\ \A q \in PagesOfArea(x) : q \in DOMAIN ar /\ ar[q].large
      BY <2>1, <2>3 DEF PointerOK
    <3>2. x[2] \in PagesOfArea(x) /\ PagesOfArea(x) \cap D = {}
      BY <3>1, PointersApart DEF Clear
    <3> QED
      BY <1>2, <3>1, <3>2 DEF PointerOK
  <2> QED
    BY <2>2, <2>3
<1>6. HeldOK(ar2, h2)
  BY <1>5 DEF HeldOK, Clear
<1>7. ASSUME NEW p, NEW e
      PROVE  FreeIn(ar2, h2, p, e) = {b \in FreeIn(ar, h, p, e) : b[2] \notin D}
  <2>1. ASSUME NEW b \in Blocks, b[2] \in DOMAIN ar, b[2] \notin D PROVE b \in h2 <=> b \in h
    BY <2>1 DEF Clear
  <2> QED
    BY <1>2, <2>1 DEF FreeIn
<1> QED
  BY <1>3, <1>4, <1>6, <1>7 DEF IsDropped, ProgOK

\* A step that leaves the links and the free blocks of p as they were.
LEMMA AreaStep ==
  ASSUME HeapSound, NEW p \in live, NEW ar \in ArenaMaps, NEW h \in SUBSET Pointers,
         ProgOK(ar, h, live), Changed(p, ar, h), next' = next, prev' = prev,
         \A e \in Classes : FreeIn(ar, h, p, e) = FreeIn(arena[p], held[p], p, e)
  PROVE  HeapSound'
<1>1. /\ next \in [Progs -> [Nodes -> Nodes]] /\ prev \in [Progs -> [Nodes -> Nodes]]
      /\ \A a \in live, e \in Classes :
            ListIs(next[a], prev[a], a, e, FreeIn(arena[a], held[a], a, e))
  BY DEF HeapSound, HeapTypeOK
<1>2. /\ next' \in [Progs -> [Nodes -> Nodes]] /\ prev' \in [Progs -> [Nodes -> Nodes]]
      /\ \A a \in live, e \in Classes : a # p =>
            ListIs(next'[a], prev'[a], a, e, FreeIn(arena[a], held[a], a, e))
      /\ \A e \in Classes : ListIs(next'[p], prev'[p], p, e, FreeIn(ar, h, p, e))
  BY <1>1
<1> QED
  BY <1>2, HeapStep

LEMMA HeapStutter ==
  ASSUME HeapSound, UNCHANGED <<live, arena, next, prev, held, fault>>
  PROVE  HeapSound'
  BY DEF HeapSound, HeapTypeOK

LEMMA MallocLargeSound ==
  ASSUME HeapSound, NEW p \in Progs, NEW cnt \in 1..MaxArea, sys_malloc_large(p, cnt)
  PROVE  HeapSound'
<1>1. p \in live /\ UNCHANGED <<live, next, prev, fault>>
  BY DEF sys_malloc_large, CanCall
<1>2. CASE FreeRuns(p, cnt) = {}
  BY <1>1, <1>2, HeapStutter DEF sys_malloc_large
<1>3. CASE FreeRuns(p, cnt) # {}
  <2>1. PICK s : s = LowestRun(FreeRuns(p, cnt))
    OBVIOUS
  <2>2. PICK D : D = s..(s + cnt - 1)
    OBVIOUS
  <2>3. s \in HeapPages /\ D \in SUBSET HeapPages /\ D \cap DOMAIN arena[p] = {}
    BY <1>1, <1>3, <2>1, <2>2, FreeRunsAre
  <2>4. PICK hd : hd = [desc |-> NULL, cnt |-> cnt, large |-> TRUE]
    OBVIOUS
  <2>5. PICK x : x = <<"area", s, cnt>>
    OBVIOUS
  <2>6. PICK ar0, h : ar0 = arena[p] /\ h = held[p]
    OBVIOUS
  <2>7. PICK ar : Added(ar, ar0, D, hd)
    BY DEF Added
  <2>8. PICK h2 : h2 = h \cup {x}
    OBVIOUS
  <2>9. Changed(p, ar, h2)
    <3>1. arena' = [arena EXCEPT ![p] = ar]
      BY <1>3, <2>1, <2>2, <2>4, <2>6, <2>7 DEF sys_malloc_large, Added
    <3>2. held' = [held EXCEPT ![p] = h2]
      BY <1>3, <2>1, <2>5, <2>6, <2>8 DEF sys_malloc_large
    <3> QED
      BY <1>1, <3>1, <3>2 DEF Changed
  <2>10. hd \in Header
    BY <2>4 DEF Header
  <2>11. /\ ar0 \in ArenaMaps /\ HeldOK(ar0, h) /\ HeadersOK(ar0, h, live) /\ h \in SUBSET Pointers
         /\ D \cap DOMAIN ar0 = {}
    BY <1>1, <2>3, <2>6, SoundAt DEF HeadersOK
  <2>12. IsAdded(ar, ar0, h, live, D, hd)
    BY <2>3, <2>7, <2>10, <2>11, AddedIs
  <2>13. x \in Areas /\ x \notin Blocks /\ x[2] = s /\ x[3] = cnt /\ PagesOfArea(x) = D
    BY <2>2, <2>3, <2>5, PointersApart DEF Areas, PagesOfArea
  <2>14. PointerOK(ar, x)
    <3>1. \A q \in D : q \in DOMAIN ar /\ ar[q].large /\ ar[q].cnt = cnt
      BY <2>4, <2>12 DEF IsAdded
    <3>2. s \in D
      BY <2>13, PointersApart
    <3> QED
      BY <2>13, <3>1, <3>2 DEF PointerOK
  <2>15. HeldOK(ar, h2)
    <3>1. \A y \in h : PointerOK(ar, y)
      BY <2>12 DEF IsAdded, HeldOK
    <3>2. ASSUME NEW y \in h \cap Areas PROVE PagesOfArea(y) \cap D = {}
      <4>1. \A q \in PagesOfArea(y) : q \in DOMAIN ar0
        BY <2>11, PointersApart DEF HeldOK, PointerOK
      <4> QED
        BY <2>11, <4>1
    <3>3. \A y, z \in h \cap Areas : y # z => PagesOfArea(y) \cap PagesOfArea(z) = {}
      BY <2>11 DEF HeldOK
    <3> QED
      BY <2>8, <2>13, <2>14, <3>1, <3>2, <3>3 DEF HeldOK
  <2>16. ASSUME NEW pg \in DOMAIN ar PROVE HeaderOK(ar, h2, live, pg)
    <3>1. CASE pg \in DOMAIN ar0
      <4>1. HeaderOK(ar, h, live, pg)
        BY <2>12, <3>1 DEF IsAdded
      <4>2. pg \in HeapPages /\ \A b \in PageBlocks(pg) : b \in h2 <=> b \in h
        BY <2>8, <2>11, <2>13, <3>1, ArenaMapIs DEF PageBlocks
      <4> QED
        BY <4>1, <4>2, HeaderKept
    <3>2. CASE pg \in D
      BY <2>4, <2>12, <3>2 DEF IsAdded, HeaderOK
    <3> QED
      BY <2>12, <3>1, <3>2 DEF IsAdded
  <2>17. ASSUME NEW e \in Classes PROVE FreeIn(ar, h2, p, e) = FreeIn(ar0, h, p, e)
    <3>1. hd.desc # <<p, e>>
      BY <2>4, PointersApart
    <3>2. FreeIn(ar, h, p, e) = FreeIn(ar0, h, p, e)
      BY <2>12, <3>1 DEF IsAdded
    <3>3. FreeIn(ar, h2, p, e) = FreeIn(ar, h, p, e)
      BY <2>8, <2>13 DEF FreeIn
    <3> QED
      BY <3>2, <3>3
  <2>18. /\ h2 \in SUBSET Pointers /\ ar \in ArenaMaps /\ ProgOK(ar, h2, live)
         /\ \A e \in Classes : FreeIn(ar, h2, p, e) = FreeIn(arena[p], held[p], p, e)
    BY <2>6, <2>8, <2>11, <2>12, <2>13, <2>15, <2>16, <2>17 DEF Pointers, ProgOK, IsAdded
  <2> QED
    BY <1>1, <2>9, <2>18, AreaStep
<1> QED
  BY <1>2, <1>3

LEMMA FreeLargeSound ==
  ASSUME HeapSound, NEW p \in Progs, NEW x, sys_free_large(p, x)
  PROVE  HeapSound'
<1>1. p \in live /\ x \in held[p] /\ x[1] = "area" /\ UNCHANGED <<live, next, prev, fault>>
  BY DEF sys_free_large, CanCall
<1>2. PICK ar0, h : ar0 = arena[p] /\ h = held[p]
  OBVIOUS
<1>3. PICK D : D = PagesOfArea(x)
  OBVIOUS
<1>4. /\ ar0 \in ArenaMaps /\ HeldOK(ar0, h) /\ HeadersOK(ar0, h, live) /\ h \in SUBSET Pointers
  BY <1>1, <1>2, SoundAt DEF HeadersOK
<1>5. /\ x \in Areas /\ x \in h /\ x \notin Blocks /\ ar0[x[2]].cnt = x[3]
      /\ \A q \in D : q \in DOMAIN ar0 /\ ar0[q].large
  BY <1>1, <1>2, <1>3, <1>4, PointersApart DEF HeldOK, PointerOK
<1>6. PICK ar : ar = Unmapped(ar0, D)
  OBVIOUS
<1>7. PICK h2 : h2 = h \ {x}
  OBVIOUS
<1>8. Changed(p, ar, h2)
  <2>1. p \in Progs /\ arena \in [Progs -> ArenaMaps] /\ held \in [Progs -> SUBSET Pointers]
    BY DEF HeapSound, HeapTypeOK
  <2>2. x[2]..(x[2] + arena[p][x[2]].cnt - 1) = D
    BY <1>2, <1>3, <1>5 DEF PagesOfArea
  <2>3. arena' = [arena EXCEPT ![p] = ar]
    BY <1>2, <1>6, <2>1, <2>2 DEF sys_free_large
  <2>4. held' = [held EXCEPT ![p] = h2]
    BY <1>2, <1>7, <2>1 DEF sys_free_large
  <2> QED
    BY <1>1, <2>3, <2>4 DEF Changed
<1>9. Clear(h2, h, D)
  <2>1. ASSUME NEW y \in h2 \cap Blocks PROVE y[2] \notin D
    BY <1>4, <1>5, <1>7, PointersApart DEF HeldOK, PointerOK
  <2>2. ASSUME NEW y \in h2 \cap Areas PROVE PagesOfArea(y) \cap D = {}
    BY <1>3, <1>4, <1>5, <1>7 DEF HeldOK
  <2> QED
    BY <1>5, <1>7, <2>1, <2>2 DEF Clear
<1>10. IsDropped(ar, h2, ar0, h, live, D)
  BY <1>4, <1>6, <1>9, DroppedIs
<1>11. ASSUME NEW e \in Classes PROVE FreeIn(ar, h2, p, e) = FreeIn(ar0, h, p, e)
  <2>1. FreeIn(ar, h2, p, e) = {b \in FreeIn(ar0, h, p, e) : b[2] \notin D}
    BY <1>10 DEF IsDropped
  <2>2. ASSUME NEW b \in FreeIn(ar0, h, p, e) PROVE b[2] \notin D
    <3>1. b[2] \in DOMAIN ar0 /\ ar0[b[2]].desc = <<p, e>>
      BY DEF FreeIn
    <3>2. ~ar0[b[2]].large
      <4>1. HeaderOK(ar0, h, live, b[2])
        BY <1>4, <3>1 DEF HeadersOK
      <4>2. ar0[b[2]].desc # NULL
        BY <3>1, PointersApart
      <4> QED
        BY <4>1, <4>2 DEF HeaderOK
    <3> QED
      BY <1>5, <3>2
  <2> QED
    BY <2>1, <2>2
<1>12. /\ h2 \in SUBSET Pointers /\ ar \in ArenaMaps /\ ProgOK(ar, h2, live)
       /\ \A e \in Classes : FreeIn(ar, h2, p, e) = FreeIn(arena[p], held[p], p, e)
  BY <1>2, <1>4, <1>7, <1>10, <1>11 DEF IsDropped
<1> QED
  BY <1>1, <1>8, <1>12, AreaStep

\* In the arena of the block the count goes up, and the arena is not full.
IsCountedUp(ar2, ar, h, L, p, d, b) ==
    /\ ar2 \in ArenaMaps /\ ProgOK(ar2, h \ {b}, L)
    /\ FreeIn(ar2, h \ {b}, p, d) = FreeIn(ar, h, p, d) \cup {b}
    /\ \A e \in Classes : e # d => FreeIn(ar2, h \ {b}, p, e) = FreeIn(ar, h, p, e)

CountUp(ar2, ar, pg, k) == ar2 = [ar EXCEPT ![pg].cnt = k]

LEMMA CountUpIs ==
  ASSUME NEW ar \in ArenaMaps, NEW h, NEW L, NEW p \in L, NEW d \in Classes,
         NEW b \in h, b \in Blocks, NEW pg, pg = b[2], pg \in DOMAIN ar, ar[pg].desc = <<p, d>>,
         HeldOK(ar, h), HeadersOK(ar, h, L),
         NEW k, k = Cardinality(ArenaBlocks(pg, d) \ (h \ {b})), k # blocks_pre_arena[d],
         NEW ar2, CountUp(ar2, ar, pg, k)
  PROVE  IsCountedUp(ar2, ar, h, L, p, d, b)
<1>1. pg \in HeapPages /\ b[3] <= blocks_pre_arena[d] /\ ~ar[pg].large
  <2>1. PointerOK(ar, b) /\ b \notin Areas
    BY PointersApart DEF HeldOK
  <2>2. ~ar[pg].large /\ b[3] <= blocks_pre_arena[ar[pg].desc[2]]
    BY <2>1 DEF PointerOK
  <2> QED
    BY <2>2, ArenaMapIs
<1>2. k \in Nat /\ k < blocks_pre_arena[d]
  <2>1. k \in Nat /\ k <= blocks_pre_arena[d] /\ blocks_pre_arena[d] \in Nat
    BY <1>1, ArenaSize, HeapConstants
  <2> QED
    BY <2>1
<1>3. /\ DOMAIN ar \subseteq HeapPages /\ ar = [q \in DOMAIN ar |-> ar[q]]
      /\ \A q \in DOMAIN ar : ar[q] \in Header
  BY ArenaMapIs
<1>4. /\ DOMAIN ar2 = DOMAIN ar /\ \A q \in DOMAIN ar : q # pg => ar2[q] = ar[q]
      /\ ar2[pg] = [ar[pg] EXCEPT !.cnt = k]
  BY <1>3 DEF CountUp
<1>5. ar2[pg] \in Header /\ ar2[pg].desc = <<p, d>> /\ ~ar2[pg].large /\ ar2[pg].cnt = k
  <2>1. ar[pg] \in Header /\ ar[pg].desc = <<p, d>>
    BY <1>3
  <2> QED
    BY <1>1, <1>2, <1>4, <2>1 DEF Header
<1>6. ar2 \in ArenaMaps
  <2>1. ar2 = [q \in DOMAIN ar |-> ar2[q]]
    BY <1>3 DEF CountUp
  <2>2. ar2 \in [DOMAIN ar -> Header]
    BY <1>3, <1>4, <1>5, <2>1
  <2> QED
    BY <1>3, <2>2, ArenaMapOf
<1>7. PICK h2 : h2 = h \ {b}
  OBVIOUS
<1>8. ASSUME NEW q \in DOMAIN ar2 PROVE HeaderOK(ar2, h2, L, q)
  <2>1. CASE q = pg
    BY <1>2, <1>5, <1>7, <2>1 DEF HeaderOK
  <2>2. CASE q # pg
    <3>1. HeaderOK(ar, h, L, q) /\ ar2[q] = ar[q] /\ q \in HeapPages
      BY <1>3, <1>4, <2>2 DEF HeadersOK
    <3>2. \A c \in PageBlocks(q) : c \in h2 <=> c \in h
      BY <1>7, <2>2 DEF PageBlocks
    <3> QED
      BY <3>1, <3>2, HeaderKept
  <2> QED
    BY <2>1, <2>2
<1>9. \A q \in DOMAIN ar : ar2[q].desc = ar[q].desc /\ ar2[q].large = ar[q].large
  <2>1. ar[pg].large = FALSE /\ ar2[pg].large = FALSE
    <3>1. ar[pg].large \in BOOLEAN /\ ar2[pg].large \in BOOLEAN
      BY <1>3, <1>5 DEF Header
    <3> QED
      BY <1>1, <1>5, <3>1
  <2> QED
    BY <1>4, <1>5, <2>1
<1>10. HeldOK(ar2, h2)
  <2>1. ASSUME NEW x \in h2 PROVE PointerOK(ar2, x)
    <3>0. PointerOK(ar, x)
      BY <1>7 DEF HeldOK
    <3>1. CASE x \in Blocks
      <4>1. x[2] \in DOMAIN ar /\ ~ar[x[2]].large /\ x[3] <= blocks_pre_arena[ar[x[2]].desc[2]]
        BY <3>0, <3>1, PointersApart DEF PointerOK
      <4> QED
        BY <1>4, <1>9, <3>1, <4>1 DEF PointerOK
    <3>2. CASE x \notin Blocks
      <4>1. x \in Areas /\ ar[x[2]].cnt = x[3] /\ \A q \in PagesOfArea(x) : q \in DOMAIN ar /\ ar[q].large
        BY <3>0, <3>2 DEF PointerOK
      <4>2. x[2] \in PagesOfArea(x)
        BY <4>1, PointersApart
      <4>3. x[2] # pg /\ x[2] \in DOMAIN ar
        BY <1>1, <4>1, <4>2
      <4> QED
        BY <1>4, <1>9, <4>1, <4>3 DEF PointerOK
    <3> QED
      BY <3>1, <3>2
  <2> QED
    BY <1>7, <2>1 DEF HeldOK
<1>11. FreeIn(ar2, h2, p, d) = FreeIn(ar, h, p, d) \cup {b}
  BY <1>1, <1>4, <1>7, <1>9 DEF FreeIn
<1>12. ASSUME NEW e \in Classes, e # d PROVE FreeIn(ar2, h2, p, e) = FreeIn(ar, h, p, e)
  <2>1. ar2[b[2]].desc # <<p, e>>
    BY <1>5, <1>12
  <2> QED
    BY <1>4, <1>7, <1>9, <2>1 DEF FreeIn
<1> QED
  BY <1>6, <1>7, <1>8, <1>10, <1>11, <1>12 DEF ProgOK, IsCountedUp

LEMMA FreeSound ==
  ASSUME HeapSound, NEW p \in Progs, NEW b, sys_free(p, b), ~foreign'
  PROVE  HeapSound'
<1>1. p \in live /\ b \in held[p] /\ b[1] = "block" /\ live' = live /\ arena[p][b[2]].desc[1] = p
  BY DEF sys_free, CanCall
<1>2. PICK ar0, h : ar0 = arena[p] /\ h = held[p]
  OBVIOUS
<1>3. PICK pg : pg = b[2]
  OBVIOUS
<1>4. /\ ar0 \in ArenaMaps /\ HeldOK(ar0, h) /\ HeadersOK(ar0, h, live) /\ h \in SUBSET Pointers
      /\ Links \in LinkMaps /\ live \subseteq Progs
      /\ \A e \in Classes : ListIs(Links.next[p], Links.prev[p], p, e, FreeIn(ar0, h, p, e))
  BY <1>1, <1>2, SoundAt DEF HeadersOK
<1>5. /\ b \in h /\ b \in Blocks /\ pg \in DOMAIN ar0 /\ ~ar0[pg].large /\ pg \in HeapPages
      /\ b[3] <= blocks_pre_arena[ar0[pg].desc[2]]
  <2>1. b \in h /\ PointerOK(ar0, b) /\ b \notin Areas
    BY <1>1, <1>2, <1>4, PointersApart DEF HeldOK
  <2> QED
    BY <1>3, <1>4, <2>1, ArenaMapIs DEF PointerOK
<1>6. PICK q \in live, d \in Classes : /\ ar0[pg].desc = <<q, d>>
                                       /\ ar0[pg].cnt = Cardinality(ArenaBlocks(pg, d) \ h)
  <2>1. HeaderOK(ar0, h, live, pg)
    BY <1>4, <1>5 DEF HeadersOK
  <2> QED
    BY <1>5, <2>1 DEF HeaderOK
<1>7. q = p
  BY <1>1, <1>2, <1>3, <1>6
<1>8. ar0[pg].desc = <<p, d>> /\ b \in ArenaBlocks(pg, d) /\ b \in PageBlocks(pg)
  BY <1>3, <1>5, <1>6, <1>7, BlocksAre DEF PageBlocks
<1>9. PICK S : S = FreeIn(ar0, h, p, d)
  OBVIOUS
<1>10. S \subseteq Blocks /\ b \notin S /\ ListIs(Links.next[p], Links.prev[p], p, d, S)
  BY <1>4, <1>5, <1>9 DEF FreeIn
<1>11. PICK m : Appended(m, Links, p, d, b)
  BY DEF Appended
<1>12. ListIs(m.next[p], m.prev[p], p, d, S \cup {b}) /\ Touches(Links, m, p, d, S \cup {b})
  BY <1>4, <1>5, <1>10, <1>11, AppendIs
<1>13. PICK h2 : h2 = h \ {b}
  OBVIOUS
<1>14. PICK k : k = Cardinality(ArenaBlocks(pg, d) \ h2)
  OBVIOUS
<1>15. ar0[pg].cnt + 1 = k
  BY <1>5, <1>6, <1>8, <1>13, <1>14, CountTaken
<1>16. PICK S2 : S2 = S \cup {b}
  OBVIOUS
<1>17. S2 \subseteq Blocks /\ m \in LinkMaps
  BY <1>5, <1>10, <1>12, <1>16 DEF Touches
<1>18. ASSUME NEW e \in Classes, e # d
       PROVE  FreeIn(ar0, h, p, e) \cap S2 = {} /\ FreeIn(ar0, h, p, e) \cap PageBlocks(pg) = {}
  <2>1. ar0[pg].desc # <<p, e>>
    BY <1>8, <1>18
  <2>2. FreeIn(ar0, h, p, e) \cap S = {}
    BY <1>9, <1>18 DEF FreeIn
  <2>3. b \notin FreeIn(ar0, h, p, e)
    BY <1>5 DEF FreeIn
  <2> QED
    BY <1>4, <1>5, <1>16, <2>1, <2>2, <2>3, FreeInIs
<1>19. CASE k = blocks_pre_arena[d]
  <2>1. ArenaBlocks(pg, d) \cap h2 = {}
    BY <1>5, <1>14, <1>19, ArenaSize
  <2>2. S2 \cap PageBlocks(pg) = ArenaBlocks(pg, d)
    <3>1. S \cap PageBlocks(pg) = ArenaBlocks(pg, d) \ h
      BY <1>4, <1>5, <1>8, <1>9, FreeInIs
    <3> QED
      BY <1>8, <1>13, <1>16, <2>1, <3>1
  <2>3. \A c \in ArenaBlocks(pg, d) : elem_find(m, p, <<p, d>>, c)
    <3>1. \A c \in S2 : elem_find(m, p, <<p, d>>, c)
      BY <1>12, <1>16, <1>17, ChainIs
    <3> QED
      BY <2>2, <3>1
  <2>4. PICK m2 : m2 = Emptied(m, p, pg, <<p, d>>)
    OBVIOUS
  <2>5. /\ ListIs(m2.next[p], m2.prev[p], p, d, S2 \ PageBlocks(pg))
        /\ Touches(m, m2, p, d, S2 \cup PageBlocks(pg))
    BY <1>5, <1>12, <1>16, <1>17, <2>2, <2>4, EmptiedIs
  <2>6. PICK T : T = S2 \cup PageBlocks(pg)
    OBVIOUS
  <2>7. T \subseteq Blocks /\ Touches(Links, m2, p, d, T)
    <3>1. Touches(Links, m, p, d, T) /\ Touches(m, m2, p, d, T)
      BY <1>12, <1>16, <2>5, <2>6, TouchesMore
    <3> QED
      BY <1>17, <2>6, <3>1, TouchesTwice DEF PageBlocks
  <2>8. PICK ar2 : ar2 = Unmapped(ar0, {pg})
    OBVIOUS
  <2>9. LinksAre(m2) /\ Changed(p, ar2, h2)
    <3>1. /\ arena' = [arena EXCEPT ![p] = Unmapped(@, {pg})]
          /\ held' = [held EXCEPT ![p] = @ \ {b}] /\ fault' = fault
          /\ next' = m2.next /\ prev' = m2.prev
      BY <1>2, <1>3, <1>8, <1>11, <1>15, <1>19, <2>3, <2>4 DEF sys_free, Appended
    <3>2. arena' = [arena EXCEPT ![p] = ar2] /\ held' = [held EXCEPT ![p] = h2]
      BY <1>2, <1>13, <2>8, <3>1
    <3> QED
      BY <1>1, <3>1, <3>2 DEF LinksAre, Changed
  <2>10. Clear(h2, h, {pg})
    <3>1. ASSUME NEW x \in h2 \cap Blocks PROVE x[2] # pg
      <4>1. PointerOK(ar0, x) /\ x \notin Areas
        BY <1>4, <1>13, PointersApart DEF HeldOK
      <4>2. x[2] = pg => x \in ArenaBlocks(pg, d)
        BY <1>5, <1>8, <4>1, BlocksAre DEF PointerOK
      <4> QED
        BY <2>1, <4>2
    <3>2. ASSUME NEW x \in h2 \cap Areas PROVE pg \notin PagesOfArea(x)
      <4>1. PointerOK(ar0, x) /\ x \notin Blocks
        BY <1>4, <1>13, PointersApart DEF HeldOK
      <4> QED
        BY <1>5, <4>1 DEF PointerOK
    <3> QED
      BY <1>3, <1>13, <3>1, <3>2 DEF Clear
  <2>11. IsDropped(ar2, h2, ar0, h, live, {pg})
    BY <1>4, <2>8, <2>10, DroppedIs
  <2>12. \A e : FreeIn(ar2, h2, p, e) = FreeIn(ar0, h, p, e) \ PageBlocks(pg)
    BY <2>11 DEF IsDropped, FreeIn, PageBlocks
  <2>13. FreeIn(ar2, h2, p, d) = S2 \ PageBlocks(pg)
    BY <1>8, <1>9, <1>16, <2>12
  <2>14. OthersKept(ar2, h2, p, d, T)
    BY <1>2, <1>18, <2>6, <2>12 DEF OthersKept
  <2>15. /\ ListIs(m2.next[p], m2.prev[p], p, d, FreeIn(ar2, h2, p, d)) /\ h2 \in SUBSET Pointers
         /\ ar2 \in ArenaMaps /\ ProgOK(ar2, h2, live)
    BY <1>4, <1>13, <2>5, <2>11, <2>13 DEF IsDropped
  <2> QED
    BY <1>1, <2>7, <2>9, <2>14, <2>15, ListStep
<1>20. CASE k # blocks_pre_arena[d]
  <2>1. PICK ar2 : CountUp(ar2, ar0, pg, k)
    BY DEF CountUp
  <2>2. LinksAre(m) /\ Changed(p, ar2, h2)
    <3>1. /\ arena' = [arena EXCEPT ![p] = [@ EXCEPT ![pg].cnt = k]]
          /\ held' = [held EXCEPT ![p] = @ \ {b}] /\ fault' = fault
          /\ next' = m.next /\ prev' = m.prev
      BY <1>2, <1>3, <1>8, <1>11, <1>15, <1>20 DEF sys_free, Appended
    <3>2. arena' = [arena EXCEPT ![p] = ar2] /\ held' = [held EXCEPT ![p] = h2]
      BY <1>2, <1>13, <2>1, <3>1 DEF CountUp
    <3> QED
      BY <1>1, <3>1, <3>2 DEF LinksAre, Changed
  <2>3. IsCountedUp(ar2, ar0, h, live, p, d, b)
    BY <1>1, <1>3, <1>4, <1>5, <1>8, <1>13, <1>14, <1>20, <2>1, CountUpIs
  <2>4. /\ ar2 \in ArenaMaps /\ ProgOK(ar2, h2, live) /\ FreeIn(ar2, h2, p, d) = S2
        /\ \A e \in Classes : e # d => FreeIn(ar2, h2, p, e) = FreeIn(ar0, h, p, e)
    BY <1>9, <1>13, <1>16, <2>3 DEF IsCountedUp
  <2>5. OthersKept(ar2, h2, p, d, S2)
    BY <1>2, <1>18, <2>4 DEF OthersKept
  <2>6. /\ ListIs(m.next[p], m.prev[p], p, d, FreeIn(ar2, h2, p, d)) /\ h2 \in SUBSET Pointers
        /\ Touches(Links, m, p, d, S2)
    BY <1>4, <1>12, <1>13, <1>16, <2>4
  <2> QED
    BY <1>1, <1>17, <2>2, <2>4, <2>5, <2>6, ListStep
<1> QED
  BY <1>19, <1>20

\* block_desc_init empties the lists of one process and leaves the others.
InitLists(n2, v2, n, v, c) ==
    n2 = block_desc_init(n, v, c).next /\ v2 = block_desc_init(n, v, c).prev

ListsInit(n2, v2, n, v, c) ==
    /\ n2 \in [Progs -> [Nodes -> Nodes]] /\ v2 \in [Progs -> [Nodes -> Nodes]]
    /\ \A a \in Progs, d \in Classes : n2[a][head(c, d)] = tail(c, d) /\ v2[a][tail(c, d)] = head(c, d)
    /\ \A a \in Progs, x \in Nodes :
          /\ (\A d \in Classes : x # head(c, d)) => n2[a][x] = n[a][x]
          /\ (\A d \in Classes : x # tail(c, d)) => v2[a][x] = v[a][x]

LEMMA InitListsAre ==
  ASSUME NEW n \in [Progs -> [Nodes -> Nodes]], NEW v \in [Progs -> [Nodes -> Nodes]], NEW c \in Progs,
         NEW n2, NEW v2, InitLists(n2, v2, n, v, c)
  PROVE  ListsInit(n2, v2, n, v, c)
<1>1. /\ n2 = [b \in Progs |-> [x \in Nodes |->
                 IF \E d \in Classes : x = head(c, d) THEN tail(c, x[3]) ELSE n[b][x]]]
      /\ v2 = [b \in Progs |-> [x \in Nodes |->
                 IF \E d \in Classes : x = tail(c, d) THEN head(c, x[3]) ELSE v[b][x]]]
  BY DEF InitLists, block_desc_init
<1>2. \A d \in Classes : /\ head(c, d) \in Nodes /\ tail(c, d) \in Nodes
                         /\ head(c, d)[3] = d /\ tail(c, d)[3] = d
  BY NodesApart DEF head, tail
<1>3. ASSUME NEW a \in Progs, NEW x \in Nodes
      PROVE  /\ n2[a][x] = IF \E d \in Classes : x = head(c, d) THEN tail(c, x[3]) ELSE n[a][x]
             /\ v2[a][x] = IF \E d \in Classes : x = tail(c, d) THEN head(c, x[3]) ELSE v[a][x]
  BY <1>1
<1>4. ASSUME NEW a \in Progs, NEW x \in Nodes
      PROVE  /\ (IF \E d \in Classes : x = head(c, d) THEN tail(c, x[3]) ELSE n[a][x]) \in Nodes
             /\ (IF \E d \in Classes : x = tail(c, d) THEN head(c, x[3]) ELSE v[a][x]) \in Nodes
  BY <1>2
<1>5. n2 \in [Progs -> [Nodes -> Nodes]] /\ v2 \in [Progs -> [Nodes -> Nodes]]
  BY <1>1, <1>4
<1>6. ASSUME NEW a \in Progs, NEW d \in Classes
      PROVE  n2[a][head(c, d)] = tail(c, d) /\ v2[a][tail(c, d)] = head(c, d)
  BY <1>2, <1>3
<1>7. ASSUME NEW a \in Progs, NEW x \in Nodes
      PROVE  /\ (\A d \in Classes : x # head(c, d)) => n2[a][x] = n[a][x]
             /\ (\A d \in Classes : x # tail(c, d)) => v2[a][x] = v[a][x]
  BY <1>3
<1> QED
  BY <1>5, <1>6, <1>7 DEF ListsInit

LEMMA CopyProcessSound ==
  ASSUME HeapSound, NEW p \in Progs, NEW c \in Progs, copy_process(p, c)
  PROVE  HeapSound'
<1>1. /\ p \in live /\ c \notin live /\ live' = live \cup {c} /\ fault' = fault
      /\ arena' = [arena EXCEPT ![c] = arena[p]] /\ held' = [held EXCEPT ![c] = held[p]]
  BY DEF copy_process, CanCall
<1>2. /\ ~fault /\ live \subseteq Progs
      /\ arena \in [Progs -> ArenaMaps] /\ held \in [Progs -> SUBSET Pointers]
      /\ next \in [Progs -> [Nodes -> Nodes]] /\ prev \in [Progs -> [Nodes -> Nodes]]
      /\ \A a \in live : ProgOK(arena[a], held[a], live)
      /\ \A a \in live, e \in Classes :
            ListIs(next[a], prev[a], a, e, FreeIn(arena[a], held[a], a, e))
  BY DEF HeapSound, HeapTypeOK
<1> DEFINE copy(f) == [f EXCEPT ![c] = [x \in Nodes |-> IF x \in Blocks THEN f[p][x] ELSE f[c][x]]]
<1>3. PICK n, v : n = copy(next) /\ v = copy(prev)
  OBVIOUS
<1>4. /\ n \in [Progs -> [Nodes -> Nodes]] /\ v \in [Progs -> [Nodes -> Nodes]]
      /\ \A a \in Progs : a # c => n[a] = next[a] /\ v[a] = prev[a]
  BY <1>2, <1>3
<1>5. InitLists(next', prev', n, v, c)
  BY <1>3 DEF copy_process, InitLists
<1> HIDE DEF copy
<1>6. /\ next' \in [Progs -> [Nodes -> Nodes]] /\ prev' \in [Progs -> [Nodes -> Nodes]]
      /\ \A a \in Progs, d \in Classes : next'[a][head(c, d)] = tail(c, d) /\ prev'[a][tail(c, d)] = head(c, d)
      /\ \A a \in Progs, x \in Nodes :
            /\ (\A d \in Classes : x # head(c, d)) => next'[a][x] = n[a][x]
            /\ (\A d \in Classes : x # tail(c, d)) => prev'[a][x] = v[a][x]
  <2>1. ListsInit(next', prev', n, v, c)
    BY <1>4, <1>5, InitListsAre
  <2> QED
    BY <2>1 DEF ListsInit
<1>7. /\ arena' \in [Progs -> ArenaMaps] /\ held' \in [Progs -> SUBSET Pointers]
      /\ arena'[c] = arena[p] /\ held'[c] = held[p]
      /\ \A a \in live : arena'[a] = arena[a] /\ held'[a] = held[a]
  BY <1>1, <1>2
<1>8. HeapTypeOK'
  BY <1>1, <1>2, <1>6, <1>7 DEF HeapTypeOK
<1>9. ASSUME NEW ar, NEW h, ProgOK(ar, h, live) PROVE ProgOK(ar, h, live')
  <2>1. \A pg \in DOMAIN ar : HeaderOK(ar, h, live, pg)
    BY <1>9 DEF ProgOK
  <2>2. \A pg \in DOMAIN ar : HeaderOK(ar, h, live', pg)
    BY <1>1, <2>1 DEF HeaderOK
  <2> QED
    BY <1>9, <2>2 DEF ProgOK
<1>10. ASSUME NEW a \in live' PROVE ProgOK(arena'[a], held'[a], live')
  BY <1>1, <1>2, <1>7, <1>9
<1>11. ASSUME NEW a \in live', NEW e \in Classes
       PROVE  ListIs(next'[a], prev'[a], a, e, FreeIn(arena'[a], held'[a], a, e))
  <2>1. CASE a = c
    <3>1. FreeIn(arena'[a], held'[a], a, e) = {}
      <4>1. ASSUME NEW pg \in DOMAIN arena[p] PROVE arena[p][pg].desc # <<c, e>>
        <5>1. HeaderOK(arena[p], held[p], live, pg)
          BY <1>1, <1>2 DEF ProgOK
        <5>2. CASE arena[p][pg].desc = NULL
          BY <5>2, PointersApart
        <5>3. CASE \E q \in live, f \in Classes : arena[p][pg].desc = <<q, f>>
          BY <1>1, <5>3
        <5> QED
          BY <5>1, <5>2, <5>3 DEF HeaderOK
      <4> QED
        BY <1>7, <2>1, <4>1 DEF FreeIn
    <3>2. next'[c][head(c, e)] = tail(c, e) /\ prev'[c][tail(c, e)] = head(c, e)
      BY <1>6
    <3>3. ListIs(next'[c], prev'[c], c, e, {})
      BY <3>2, ListEmpty
    <3> QED
      BY <2>1, <3>1, <3>3
  <2>2. CASE a \in live
    <3>1. PICK S : S = FreeIn(arena[a], held[a], a, e)
      OBVIOUS
    <3>2. PICK N, V, N2, V2 : N = next[a] /\ V = prev[a] /\ N2 = next'[a] /\ V2 = prev'[a]
      OBVIOUS
    <3>3. ListIs(N, V, a, e, S) /\ S \subseteq Blocks /\ a # c /\ a \in Progs
      BY <1>1, <1>2, <2>2, <3>1, <3>2 DEF FreeIn
    <3>4. ASSUME NEW x \in S \cup {head(a, e)} PROVE N2[x] = N[x]
      <4>1. x \in Nodes /\ \A d \in Classes : x # head(c, d)
        BY <3>3, NodesApart
      <4> QED
        BY <1>4, <1>6, <3>2, <3>3, <4>1
    <3>5. ASSUME NEW x \in S \cup {tail(a, e)} PROVE V2[x] = V[x]
      <4>1. x \in Nodes /\ \A d \in Classes : x # tail(c, d)
        BY <3>3, NodesApart
      <4> QED
        BY <1>4, <1>6, <3>2, <3>3, <4>1
    <3>6. ListIs(N2, V2, a, e, S)
      BY <3>3, <3>4, <3>5, ListSame
    <3> QED
      BY <1>7, <2>2, <3>1, <3>2, <3>6
  <2> QED
    BY <1>1, <2>1, <2>2
<1> QED
  BY <1>1, <1>2, <1>8, <1>10, <1>11 DEF HeapSound

LEMMA HeapInitSound ==
  ASSUME HeapInit PROVE HeapSound
<1>1. FirstProg \in Progs
  BY HeapConstants
<1>2. NoLinks \in [Progs -> [Nodes -> Nodes]]
  BY NodesApart DEF NoLinks
<1>3. PICK n : n = NoLinks
  OBVIOUS
<1>4. InitLists(next, prev, n, n, FirstProg)
  BY <1>3 DEF HeapInit, InitLists
<1>5. /\ next \in [Progs -> [Nodes -> Nodes]] /\ prev \in [Progs -> [Nodes -> Nodes]]
      /\ \A a \in Progs, d \in Classes :
            next[a][head(FirstProg, d)] = tail(FirstProg, d) /\ prev[a][tail(FirstProg, d)] = head(FirstProg, d)
  BY <1>1, <1>2, <1>3, <1>4, InitListsAre DEF ListsInit
<1>6. << >> \in ArenaMaps /\ DOMAIN << >> = {}
  <2>1. PICK z : z = [q \in {} |-> q]
    OBVIOUS
  <2>2. << >> = z
    BY <2>1
  <2>3. z \in [{} -> Header]
    BY <2>1
  <2>4. z \in ArenaMaps /\ DOMAIN z = {}
    BY <2>3, ArenaMapOf
  <2> QED
    BY <2>2, <2>4
<1>7. live = {FirstProg} /\ arena = [p \in Progs |-> << >>] /\ held = [p \in Progs |-> {}] /\ ~fault
  BY DEF HeapInit
<1>8. PICK z : z = << >>
  OBVIOUS
<1>9. /\ arena[FirstProg] = z /\ held[FirstProg] = {} /\ DOMAIN z = {}
      /\ arena \in [Progs -> ArenaMaps] /\ held \in [Progs -> SUBSET Pointers]
  BY <1>1, <1>6, <1>7, <1>8
<1>10. HeapTypeOK
  BY <1>1, <1>5, <1>7, <1>9 DEF HeapTypeOK
<1>11. ProgOK(z, {}, live)
  BY <1>9 DEF ProgOK, HeldOK
<1>12. ASSUME NEW d \in Classes
       PROVE  ListIs(next[FirstProg], prev[FirstProg], FirstProg, d, FreeIn(z, {}, FirstProg, d))
  <2>1. FreeIn(z, {}, FirstProg, d) = {}
    BY <1>9 DEF FreeIn
  <2>2. /\ next[FirstProg][head(FirstProg, d)] = tail(FirstProg, d)
        /\ prev[FirstProg][tail(FirstProg, d)] = head(FirstProg, d)
    BY <1>1, <1>5
  <2> QED
    BY <1>1, <2>1, <2>2, ListEmpty
<1> QED
  BY <1>7, <1>9, <1>10, <1>11, <1>12 DEF HeapSound

LEMMA HeapStepSound ==
  ASSUME HeapInv, [HeapNext]_heap_vars PROVE HeapInv'
<1> SUFFICES ASSUME ~foreign' PROVE HeapSound'
  BY DEF HeapInv
<1>1. CASE UNCHANGED heap_vars
  <2>1. ~foreign /\ UNCHANGED <<live, arena, next, prev, held, fault>>
    BY <1>1 DEF heap_vars
  <2> QED
    BY <2>1, HeapStutter DEF HeapInv
<1>2. CASE HeapNext
  <2>1. PICK p \in Progs :
          \/ \E d \in Classes : sys_malloc(p, d) \/ sys_malloc_arena(p, d)
          \/ \E cnt \in 1..MaxArea : sys_malloc_large(p, cnt)
          \/ \E x \in held[p] : sys_free(p, x) \/ sys_free_large(p, x)
          \/ \E c \in Progs : copy_process(p, c)
          \/ heap_stopped
    BY <1>2 DEF HeapNext
  <2>2. CASE heap_stopped
    BY <1>1, <2>2 DEF heap_stopped
  <2>3. CASE \E d \in Classes : sys_malloc(p, d) \/ sys_malloc_arena(p, d)
    <3>1. HeapSound
      BY <2>3 DEF sys_malloc, sys_malloc_arena, CanCall, HeapInv
    <3> QED
      BY <2>3, <3>1, MallocSound, MallocArenaSound
  <2>4. CASE \E cnt \in 1..MaxArea : sys_malloc_large(p, cnt)
    <3>1. HeapSound
      BY <2>4 DEF sys_malloc_large, CanCall, HeapInv
    <3> QED
      BY <2>4, <3>1, MallocLargeSound
  <2>5. CASE \E x \in held[p] : sys_free(p, x) \/ sys_free_large(p, x)
    <3>1. HeapSound
      BY <2>5 DEF sys_free, sys_free_large, CanCall, HeapInv
    <3> QED
      BY <2>5, <3>1, FreeSound, FreeLargeSound
  <2>6. CASE \E c \in Progs : copy_process(p, c)
    <3>1. HeapSound
      BY <2>6 DEF copy_process, CanCall, HeapInv
    <3> QED
      BY <2>6, <3>1, CopyProcessSound
  <2> QED
    BY <2>1, <2>2, <2>3, <2>4, <2>5, <2>6
<1> QED
  BY <1>1, <1>2

(***************************************************************************)
(* Until a child frees a block of an arena that fork gave it, the headers, *)
(* the pointers that programs hold and the free lists of all processes     *)
(* agree after every step of sys_malloc, sys_free and fork, and no ASSERT  *)
(* has failed.                                                             *)
(***************************************************************************)
THEOREM HeapInductive == HeapSpec => []HeapInv
<1>1. HeapInit => HeapInv
  BY HeapInitSound DEF HeapInv
<1>2. HeapInv /\ [HeapNext]_heap_vars => HeapInv'
  BY HeapStepSound
<1> QED
  BY <1>1, <1>2, PTL DEF HeapSpec

(***************************************************************************)
(* sys_malloc and sys_free keep every free list a chain from head to tail, *)
(* the same in both directions, of exactly the blocks no program has.      *)
(***************************************************************************)
THEOREM FreeListSoundHolds == HeapSpec => []FreeListSound
<1>1. HeapInv => FreeListSound
  <2> SUFFICES ASSUME HeapSound PROVE FreeListSound
    BY DEF HeapInv, FreeListSound
  <2>1. ASSUME NEW p \in live, NEW d \in Classes
        PROVE  LET path == Chain(Links, p, <<p, d>>)
                   n    == Cardinality(FreeBlocks(p, d))
               IN  /\ {path[k] : k \in 1..n} = FreeBlocks(p, d)
                   /\ path[n + 1] = tail(p, d)
                   /\ \A k \in 1..(n + 1) : prev[p][path[k]] = path[k - 1]
    <3>1. PICK S : S = FreeBlocks(p, d)
      OBVIOUS
    <3>2. S = FreeIn(arena[p], held[p], p, d) /\ S \subseteq Blocks
      BY <3>1 DEF FreeBlocks, FreeIn
    <3>3. /\ p \in Progs /\ Links \in LinkMaps /\ Links.prev = prev
          /\ ListIs(Links.next[p], Links.prev[p], p, d, S)
      BY <3>2, SoundAt
    <3> QED
      BY <3>1, <3>2, <3>3, ChainIs
  <2> QED
    BY <2>1 DEF FreeListSound, HeapSound
<1> QED
  BY <1>1, HeapInductive, PTL

(***************************************************************************)
(* The count in the header of an arena is the number of its free blocks,   *)
(* and no arena whose blocks are all free stays mapped after sys_free.     *)
(***************************************************************************)
THEOREM ArenaCountsHolds == HeapSpec => []ArenaCounts
<1>1. HeapInv => ArenaCounts
  <2> SUFFICES ASSUME HeapSound, NEW p \in live, NEW pg \in DOMAIN arena[p], ~arena[p][pg].large
               PROVE  /\ arena[p][pg].cnt = Cardinality(ArenaBlocks(pg, arena[p][pg].desc[2]) \ held[p])
                      /\ arena[p][pg].cnt < blocks_pre_arena[arena[p][pg].desc[2]]
    BY DEF HeapInv, ArenaCounts
  <2>1. HeaderOK(arena[p], held[p], live, pg)
    BY SoundAt
  <2>2. PICK q \in live, d \in Classes :
          /\ arena[p][pg].desc = <<q, d>>
          /\ arena[p][pg].cnt = Cardinality(ArenaBlocks(pg, d) \ held[p])
          /\ arena[p][pg].cnt < blocks_pre_arena[d]
    BY <2>1 DEF HeaderOK
  <2>3. arena[p][pg].desc[2] = d
    BY <2>2
  <2> QED
    BY <2>2, <2>3
<1> QED
  BY <1>1, HeapInductive, PTL
=============================================================================
