------------------------------- MODULE Bitmap -------------------------------
(***************************************************************************)
(* lib/bitmap.c, and the way its callers (vaddr_get, palloc, allocate_pid, *)
(* the block and inode bitmaps) allocate runs of bits with it and clear    *)
(* them again.  The bits after the end of the map belong to whatever is    *)
(* next in memory; bitmap_scan reads the first of them.                    *)
(***************************************************************************)
EXTENDS Integers

CONSTANTS
    ByteBits,           \* bits in a byte, 8 in the code
    btmp_bytes_len,
    MaxCnt              \* bound: longest run asked for

ASSUME BitmapAssumption ==
    /\ ByteBits \in Nat \ {0}
    /\ btmp_bytes_len \in Nat \ {0}
    /\ MaxCnt \in Nat

VARIABLES
    bits,       \* the map and, at index Total, the bit that follows it
    runs,       \* history: the runs <<start, cnt>> handed out
    full        \* the ASSERT on a map without a free bit has failed

bitmap_vars == <<bits, runs, full>>

Total == btmp_bytes_len * ByteBits

\* bitmap_init clears the map, not what follows it.
bitmap_init ==
    /\ bits \in {[i \in 0..Total |-> IF i = Total THEN b ELSE 0] : b \in {0, 1}}
    /\ runs = {}
    /\ full = FALSE

bitmap_scan_test(i) == bits[i]

\* The first byte that is not all ones; none makes the ASSERT fail.
FreeBytes == {b \in 0..(btmp_bytes_len - 1) :
                 \E i \in 0..(ByteBits - 1) : bits[b * ByteBits + i] = 0}
Least(S)  == CHOOSE x \in S : \A y \in S : x <= y
ByteIndex == Least(FreeBytes)
FirstFree == Least({i \in 0..(Total - 1) :
                       /\ i \div ByteBits = ByteIndex
                       /\ bits[i] = 0})

\* count after k rounds of the second loop, which tests bit FirstFree + k
BitLeft   == Total - FirstFree
\* Variant: a used bit counts as the first of the next run.
CountFrom_one(start) ==
    LET count[k \in 0..(Total - start)] ==
            IF k = 0 THEN 1
            ELSE IF bitmap_scan_test(start + k) = 0 THEN count[k - 1] + 1
            ELSE 1
    IN  count

CountFrom(start) ==
    LET count[k \in 0..(Total - start)] ==
            IF k = 0 THEN 1
            ELSE IF bitmap_scan_test(start + k) = 0 THEN count[k - 1] + 1
            ELSE 0
    IN  count

\* bitmap_scan(cnt) on a map with a free bit; -1 when no run is found
bitmap_scan(cnt) ==
    IF cnt = 1 THEN FirstFree
    ELSE LET count == CountFrom(FirstFree)
             hits  == {k \in 1..BitLeft : count[k] = cnt}
         IN  IF hits = {} THEN -1 ELSE FirstFree + Least(hits) - cnt + 1

Run(start, cnt) == start..(start + cnt - 1)

\* The scan and the loop of bitmap_set(..., 1) that every caller adds.
Allocate(cnt) ==
    /\ ~full /\ FreeBytes # {}
    /\ LET start == bitmap_scan(cnt)
       IN  IF start = -1 THEN UNCHANGED <<bits, runs>>
           ELSE /\ bits' = [i \in 0..Total |->
                               IF i \in Run(start, cnt) THEN 1 ELSE bits[i]]
                /\ runs' = runs \cup {<<start, cnt>>}
    /\ UNCHANGED full

\* ASSERT(byte_index < btmp_bytes_len)
AllocateFull == ~full /\ FreeBytes = {} /\ full' = TRUE /\ UNCHANGED <<bits, runs>>

\* bitmap_set(..., 0) for each bit of a run
Free(r) ==
    /\ ~full
    /\ bits' = [i \in 0..Total |-> IF i \in Run(r[1], r[2]) THEN 0 ELSE bits[i]]
    /\ runs' = runs \ {r}
    /\ UNCHANGED full

full_spin == full /\ UNCHANGED bitmap_vars

BitmapNext ==
    \/ \E cnt \in 1..MaxCnt : Allocate(cnt)
    \/ AllocateFull
    \/ \E r \in runs : Free(r)
    \/ full_spin

BitmapSpec == bitmap_init /\ [][BitmapNext]_bitmap_vars

-----------------------------------------------------------------------------
\* Reference: the first run of cnt free bits inside the map, -1 if none.
FirstFit(cnt) ==
    LET starts == {s \in 0..(Total - cnt) : \A i \in Run(s, cnt) : bits[i] = 0}
    IN  IF starts = {} THEN -1 ELSE Least(starts)

(***************************************************************************)
(* bitmap_scan is first fit: whatever the map, a request that fits gets    *)
(* the lowest run that fits.  One that does not fit gets -1, or the run    *)
(* that ends one bit past the end of the map if the neighbouring bit is 0. *)
(***************************************************************************)
ScanIsFirstFit ==
    FreeBytes # {} =>
        \A cnt \in 1..MaxCnt :
            \/ bitmap_scan(cnt) = FirstFit(cnt)
            \/ /\ FirstFit(cnt) = -1
               /\ cnt > 1
               /\ bitmap_scan(cnt) = Total - cnt + 1
               /\ bits[Total] = 0
=============================================================================
