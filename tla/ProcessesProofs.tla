-------------------------- MODULE ProcessesProofs --------------------------
(***************************************************************************)
(* Safety of fork, wait and exit, for any number of PCB pages and any size *)
(* of the pid pool.                                                        *)
(***************************************************************************)
EXTENDS Processes, WellFoundedInduction, TLAPS

(***************************************************************************)
(* The inductive invariant.                                                *)
(***************************************************************************)
\* thread_all_list, the pids and the pool; a process on the list has a pid.
ListOK ==
    /\ PidsAreUnique
    /\ \A p \in Pcbs : Live(p) => pid[p] \in Pids

\* What the place in a system call says about the status.
PlacesOK ==
    \A p \in Pcbs :
        /\ pc[p] = "free"    <=> status[p] = "DIED"
        /\ pc[p] = "user"    => status[p] = "READY"
        /\ pc[p] = "zombie"  => status[p] = "HANGING"

\* init stays, nobody is its parent, or main's, or idle's.
SystemOK ==
    /\ Live(InitPcb)
    /\ pid[InitPcb] = 1
    /\ \A p \in System : parent[p] = -1 /\ pc[p] # "zombie"

\* Nobody is the child of itself, of main, or of a process that has exited.
ParentsOK ==
    \A p, q \in Pcbs :
        Live(p) /\ Live(q) /\ (p = q \/ q = MainPcb \/ pc[q] = "zombie")
            => parent[p] # pid[q]

IInv == /\ TypeOK
        /\ ListOK
        /\ PlacesOK
        /\ SystemOK
        /\ ParentsOK
        /\ ExitWakesParent
        /\ ParentExists

(***************************************************************************)
(* A nonempty set of numbers has a smallest element.                       *)
(***************************************************************************)
LEMMA Smallest ==
  ASSUME NEW S \in SUBSET Nat, S # {}
  PROVE  \E n \in S : \A m \in S : n <= m
<1>1. PICK n \in S : \A m \in S : ~(<<m, n>> \in OpToRel(<, Nat))
  BY NatLessThanWellFounded, WFMin, Zenon
<1>2. ASSUME NEW m \in S PROVE n <= m
  <2>1. ~(m < n)
    BY <1>1 DEF OpToRel
  <2> QED
    BY <2>1
<1> QED
  BY <1>2

(***************************************************************************)
(* allocate_pid returns a pid that is not in use.                          *)
(***************************************************************************)
LEMMA AllocatedPidIsFree ==
  ASSUME Pids \ pool # {}
  PROVE  allocate_pid \in Pids \ pool
<1>1. Pids \ pool \in SUBSET Nat
  BY ProcessesAssumption DEF Pids
<1>2. \E n \in Pids \ pool : \A m \in Pids \ pool : n <= m
  BY <1>1, Smallest, Zenon
<1> QED
  BY <1>2, Zenon DEF allocate_pid

(***************************************************************************)
(* A traversal that finds something finds an element of the list.          *)
(***************************************************************************)
LEMMA FirstIsMember ==
  ASSUME NEW S \in SUBSET (1..Len(all_list)), S # {}, all_list \in Seq(Pcbs)
  PROVE  \E i \in S : First(S) = all_list[i]
<1>1. Len(all_list) \in Nat
  OBVIOUS
<1>2. S \in SUBSET Nat
  BY <1>1
<1>3. \E i \in S : \A j \in S : i <= j
  BY <1>2, Smallest, Zenon
<1> QED
  BY <1>3, Zenon DEF First

(***************************************************************************)
(* Two processes of the list with one pid are the same.                    *)
(***************************************************************************)
LEMMA OneProcessPerPid ==
  ASSUME PidsAreUnique, NEW p, NEW q, Live(p), Live(q), pid[p] = pid[q]
  PROVE  p = q
BY DEF PidsAreUnique, Live

(***************************************************************************)
(* thread_exit takes c off the list and leaves the others there.           *)
(***************************************************************************)
LEMMA RemoveKeepsOthers ==
  ASSUME TypeOK, ListOK, NEW c \in Pcbs, Live(c), all_list' = list_remove(c),
         UNCHANGED pid
  PROVE  /\ all_list' \in Seq(Pcbs)
         /\ \A p \in Pcbs : Live(p)' <=> Live(p) /\ p # c
         /\ \A i, j \in 1..Len(all_list') :
               pid'[all_list'[i]] = pid'[all_list'[j]] => i = j
<1> DEFINE at == CHOOSE i \in 1..Len(all_list) : all_list[i] = c
           n  == Len(all_list)
<1>1. at \in 1..n /\ all_list[at] = c
  BY Zenon DEF Live
<1>2. n \in Nat /\ all_list \in [1..n -> Pcbs]
  BY DEF TypeOK
<1>3. \A i, j \in 1..n : pid[all_list[i]] = pid[all_list[j]] => i = j
  BY DEF ListOK, PidsAreUnique
<1>4. all_list' = [i \in 1..(n - 1) |-> all_list[IF i < at THEN i ELSE i + 1]]
  BY DEF list_remove
<1>5. \A p \in Pcbs : Live(p) <=> \E i \in 1..n : all_list[i] = p
  BY DEF Live
<1>6. \A p \in Pcbs : Live(p)' <=> \E i \in 1..Len(all_list') : all_list'[i] = p
  BY DEF Live
<1> HIDE DEF at, n
<1>7. n - 1 \in Nat
  BY <1>1, <1>2
<1>8. \A i \in 1..(n - 1) : /\ (IF i < at THEN i ELSE i + 1) \in 1..n
                            /\ (IF i < at THEN i ELSE i + 1) # at
  BY <1>1, <1>2
<1>9. all_list' \in [1..(n - 1) -> Pcbs]
  BY <1>2, <1>4, <1>8
<1>10. all_list' \in Seq(Pcbs) /\ Len(all_list') = n - 1
  BY <1>4, <1>7, <1>9
<1>11. ASSUME NEW i \in 1..(n - 1), NEW j \in 1..(n - 1),
              pid[all_list'[i]] = pid[all_list'[j]]
       PROVE  i = j
  <2>1. (IF i < at THEN i ELSE i + 1) = (IF j < at THEN j ELSE j + 1)
    BY <1>3, <1>4, <1>8, <1>11
  <2> QED
    BY <2>1, <1>1, <1>2
<1>12. ASSUME NEW p \in Pcbs, Live(p), p # c PROVE Live(p)'
  <2>1. PICK i \in 1..n : all_list[i] = p
    BY <1>5, <1>12
  <2>2. i # at
    BY <1>1, <1>12, <2>1
  <2>3. CASE i < at
    <3>1. i \in 1..(n - 1)
      BY <1>1, <1>2, <2>3
    <3> QED
      BY <1>4, <1>6, <1>10, <2>1, <2>3, <3>1
  <2>4. CASE i > at
    <3>1. i - 1 \in 1..(n - 1) /\ ~(i - 1 < at) /\ (i - 1) + 1 = i
      BY <1>1, <1>2, <2>4
    <3>2. all_list'[i - 1] = p
      BY <1>4, <2>1, <3>1
    <3> QED
      BY <1>6, <1>10, <3>1, <3>2
  <2> QED
    BY <1>1, <1>2, <2>2, <2>3, <2>4
<1>13. ASSUME NEW p \in Pcbs, Live(p)' PROVE Live(p) /\ p # c
  <2>1. PICK i \in 1..(n - 1) : all_list'[i] = p
    BY <1>6, <1>10, <1>13
  <2>2. PICK k \in 1..n : k # at /\ all_list[k] = p
    BY <1>4, <1>8, <2>1
  <2>3. p # c
    BY <1>1, <1>3, <2>2
  <2> QED
    BY <1>5, <2>2, <2>3
<1> QED
  BY <1>10, <1>11, <1>12, <1>13

(***************************************************************************)
(* init_thread puts c at the end of the list.                              *)
(***************************************************************************)
LEMMA AppendAddsOne ==
  ASSUME all_list \in Seq(Pcbs), NEW c \in Pcbs, all_list' = Append(all_list, c)
  PROVE  /\ all_list' \in Seq(Pcbs)
         /\ \A p \in Pcbs : Live(p)' <=> Live(p) \/ p = c
BY DEF Live

(***************************************************************************)
(* The kernel starts with init, main, idle and the shell.                  *)
(***************************************************************************)
LEMMA InitOK == Init => IInv
<1> SUFFICES ASSUME Init PROVE IInv
  OBVIOUS
<1> USE ProcessesAssumption
<1>1. /\ Len(all_list) = 4
      /\ all_list[1] = InitPcb /\ all_list[2] = MainPcb
      /\ all_list[3] = IdlePcb /\ all_list[4] = ShellPcb
  BY DEF Init
<1>2. \A p \in Pcbs : Live(p) <=> p \in {InitPcb, MainPcb, IdlePcb, ShellPcb}
  BY <1>1 DEF Live
<1>3. /\ pid[InitPcb] = 1 /\ pid[MainPcb] = 2
      /\ pid[IdlePcb] = 3 /\ pid[ShellPcb] = 4
      /\ \A p \in Pcbs : ~Live(p) => pid[p] = 0
  BY <1>2 DEF Init, System
<1>4. TypeOK
  <2>0. 1 \in Pids /\ 2 \in Pids /\ 3 \in Pids /\ 4 \in Pids
    BY DEF Pids
  <2>1. ASSUME NEW p \in Pcbs PROVE pid[p] \in Pids \cup {0}
    <3>1. CASE Live(p)
      BY <1>2, <1>3, <2>0, <3>1
    <3>2. CASE ~Live(p)
      BY <1>3, <3>2
    <3> QED
      BY <3>1, <3>2
  <2>2. pid \in [Pcbs -> Pids \cup {0}]
    BY <2>1 DEF Init
  <2>3. all_list \in Seq(Pcbs)
    BY DEF Init, System
  <2> QED
    <3>1. parent \in [Pcbs -> Pids \cup {-1}]
      BY <2>0 DEF Init
    <3>2. pool \subseteq Pids
      BY <2>0 DEF Init
    <3>3. status \in [Pcbs -> {"READY", "HANGING", "DIED"}]
      BY DEF Init
    <3>4. pc \in [Pcbs -> {"user", "waiting", "zombie", "free"}]
      BY DEF Init
    <3> QED
      BY <2>2, <2>3, <3>1, <3>2, <3>3, <3>4 DEF Init, TypeOK
<1>5. PidsAreUnique
  <2>1. \A i, j \in 1..Len(all_list) :
           pid[all_list[i]] = pid[all_list[j]] => i = j
    BY <1>1, <1>3
  <2>2. {p \in Pcbs : Live(p)} = {p \in Pcbs : status[p] # "DIED"}
    BY <1>2, <1>3 DEF Init
  <2>3. pool = {pid[p] : p \in {q \in Pcbs : Live(q)}}
    BY <1>2, <1>3 DEF Init, System
  <2> QED
    BY <2>1, <2>2, <2>3 DEF PidsAreUnique
<1>6. ListOK
  BY <1>2, <1>3, <1>5 DEF ListOK, Pids
<1>7. PlacesOK
  BY DEF Init, PlacesOK
<1>8. SystemOK
  BY <1>2, <1>3 DEF Init, SystemOK, System
<1>9. \A p \in Pcbs : pc[p] \notin {"zombie", "waiting"}
  BY DEF Init
<1>10. \A p \in Pcbs : parent[p] = IF p = ShellPcb THEN 1 ELSE -1
  BY DEF Init
<1>11. ParentsOK
  BY <1>2, <1>3, <1>9, <1>10 DEF ParentsOK, System
<1>12. ExitWakesParent
  BY <1>9 DEF ExitWakesParent
<1>13. ParentExists
  BY <1>2, <1>3, <1>10 DEF Init, ParentExists, System
<1> QED
  BY <1>4, <1>6, <1>7, <1>8, <1>11, <1>12, <1>13 DEF IInv

(***************************************************************************)
(* sys_fork: the new process gets a PCB and a pid that nobody uses.        *)
(***************************************************************************)
LEMMA ForkKeeps ==
  ASSUME IInv, NEW p \in Pcbs, sys_fork(p)
  PROVE  IInv'
<1> USE ProcessesAssumption
<1>1. PICK c \in Pcbs \ System :
        /\ pc[c] = "free"
        /\ pid'      = [pid EXCEPT ![c] = allocate_pid]
        /\ parent'   = [parent EXCEPT ![c] = pid[p]]
        /\ status'   = [status EXCEPT ![c] = "READY"]
        /\ pc'       = [pc EXCEPT ![c] = "user"]
        /\ all_list' = Append(all_list, c)
  BY Zenon DEF sys_fork
<1>2. /\ pool' = pool \cup {allocate_pid}
      /\ UNCHANGED <<fault, victims>>
      /\ ~fault /\ p \notin System /\ status[p] = "READY" /\ pc[p] = "user"
  BY DEF sys_fork, InUser, System
<1> DEFINE n == allocate_pid
<1>3. n \in Pids \ pool
  BY AllocatedPidIsFree DEF sys_fork
<1> HIDE DEF n
<1>4. /\ pid'  = [pid EXCEPT ![c] = n]
      /\ pool' = pool \cup {n}
  BY <1>1, <1>2 DEF n
<1>5. all_list \in Seq(Pcbs)
  BY DEF IInv, TypeOK
<1>6. all_list' \in Seq(Pcbs) /\ \A q \in Pcbs : Live(q)' <=> Live(q) \/ q = c
  BY <1>1, <1>5, AppendAddsOne
<1>7. \A q \in Pcbs : Live(q) <=> status[q] # "DIED"
  BY DEF IInv, ListOK, PidsAreUnique
<1>8. ~Live(c) /\ Live(p) /\ p # c
  BY <1>1, <1>2, <1>7 DEF IInv, PlacesOK
<1>9. \A q \in Pcbs : Live(q) => pid[q] \in pool /\ pid[q] \in Pids /\ pid[q] # n
  BY <1>3 DEF IInv, ListOK, PidsAreUnique
<1>10. TypeOK'
  BY <1>1, <1>2, <1>3, <1>4, <1>6, <1>8, <1>9 DEF IInv, TypeOK
<1>11. PidsAreUnique'
  <2>1. ASSUME NEW i \in 1..Len(all_list'), NEW j \in 1..Len(all_list'),
               pid'[all_list'[i]] = pid'[all_list'[j]]
        PROVE  i = j
    <3>1. Len(all_list') = Len(all_list) + 1 /\ Len(all_list) \in Nat
      BY <1>1, <1>5
    <3>2. \A k \in 1..Len(all_list) :
             all_list'[k] = all_list[k] /\ all_list[k] \in Pcbs /\ Live(all_list[k])
      BY <1>1, <1>5 DEF Live
    <3>3. all_list'[Len(all_list) + 1] = c
      BY <1>1, <1>5
    <3>4. pid \in [Pcbs -> Pids \cup {0}]
      BY DEF IInv, TypeOK
    <3>5. \A k \in 1..Len(all_list) :
             pid'[all_list'[k]] = pid[all_list[k]] /\ pid[all_list[k]] # n
      BY <3>2, <3>4, <1>4, <1>8, <1>9
    <3>6. pid'[all_list'[Len(all_list) + 1]] = n
      BY <3>3, <3>4, <1>4
    <3>7. \A k, l \in 1..Len(all_list) :
             pid[all_list[k]] = pid[all_list[l]] => k = l
      BY DEF IInv, ListOK, PidsAreUnique
    <3> QED
      BY <2>1, <3>1, <3>5, <3>6, <3>7
  <2>2. {q \in Pcbs : Live(q)'} = {q \in Pcbs : status'[q] # "DIED"}
    BY <1>1, <1>6, <1>7 DEF IInv, TypeOK
  <2>3. pool' = {pid'[q] : q \in {r \in Pcbs : Live(r)'}}
    <3>1. pool = {pid[q] : q \in {r \in Pcbs : Live(r)}}
      BY DEF IInv, ListOK, PidsAreUnique
    <3>2. \A q \in Pcbs : pid'[q] = IF q = c THEN n ELSE pid[q]
      BY <1>4 DEF IInv, TypeOK
    <3> QED
      BY <1>4, <1>6, <1>8, <3>1, <3>2
  <2> QED
    BY <2>1, <2>2, <2>3 DEF PidsAreUnique
<1>12. ListOK'
  BY <1>3, <1>4, <1>6, <1>9, <1>11 DEF ListOK, IInv, TypeOK, Pids
<1>13. PlacesOK'
  BY <1>1 DEF PlacesOK, IInv, TypeOK
<1>14. SystemOK'
  BY <1>1, <1>4, <1>6 DEF SystemOK, System, IInv, TypeOK
<1>15. /\ \A q \in Pcbs : pid'[q] = IF q = c THEN n ELSE pid[q]
       /\ \A q \in Pcbs : parent'[q] = IF q = c THEN pid[p] ELSE parent[q]
       /\ \A q \in Pcbs : pc'[q] = IF q = c THEN "user" ELSE pc[q]
       /\ \A q \in Pcbs : status'[q] = IF q = c THEN "READY" ELSE status[q]
  BY <1>1, <1>4 DEF IInv, TypeOK
<1>16. \A q \in Pcbs : Live(q) /\ pid[q] = pid[p] => q = p
  BY <1>8, OneProcessPerPid DEF IInv, ListOK
<1>17. ParentsOK'
  <2>1. MainPcb # c /\ MainPcb # p /\ pc[p] # "zombie"
    BY <1>1, <1>2 DEF System
  <2> SUFFICES ASSUME NEW d \in Pcbs, NEW q \in Pcbs, Live(d)', Live(q)',
                      d = q \/ q = MainPcb \/ pc'[q] = "zombie"
               PROVE  parent'[d] # pid'[q]
    BY DEF ParentsOK
  <2>2. CASE d = c
    BY <1>6, <1>8, <1>9, <1>15, <1>16, <2>1, <2>2
  <2>3. CASE d # c
    BY <1>6, <1>15, <2>1, <2>3 DEF IInv, ParentsOK
  <2> QED
    BY <2>2, <2>3
<1>18. ExitWakesParent'
  BY <1>6, <1>15 DEF IInv, ExitWakesParent
<1>19. ParentExists'
  BY <1>2, <1>6, <1>8, <1>15 DEF IInv, ParentExists
<1> QED
  BY <1>10, <1>12, <1>13, <1>14, <1>17, <1>18, <1>19 DEF IInv

(***************************************************************************)
(* thread_exit keeps the list, the pids and the pool in agreement.         *)
(***************************************************************************)
LEMMA ExitKeepsList ==
  ASSUME IInv, NEW c \in Pcbs, Live(c), thread_exit(c), UNCHANGED pid,
         status' = [status EXCEPT ![c] = "DIED"]
  PROVE  /\ all_list' \in Seq(Pcbs)
         /\ pool' \subseteq Pids
         /\ \A p \in Pcbs : Live(p)' <=> Live(p) /\ p # c
         /\ ListOK'
<1>1. /\ all_list' \in Seq(Pcbs)
      /\ \A p \in Pcbs : Live(p)' <=> Live(p) /\ p # c
      /\ \A i, j \in 1..Len(all_list') :
            pid'[all_list'[i]] = pid'[all_list'[j]] => i = j
  BY RemoveKeepsOthers DEF IInv, thread_exit
<1>2. pool' = pool \ {pid[c]} /\ pool \subseteq Pids
  BY DEF thread_exit, IInv, TypeOK
<1>3. \A q \in Pcbs : Live(q) <=> status[q] # "DIED"
  BY DEF IInv, ListOK, PidsAreUnique
<1>4. {q \in Pcbs : Live(q)'} = {q \in Pcbs : status'[q] # "DIED"}
  BY <1>1, <1>3 DEF IInv, TypeOK
<1>5. pool' = {pid'[q] : q \in {r \in Pcbs : Live(r)'}}
  <2>1. pool = {pid[q] : q \in {r \in Pcbs : Live(r)}}
    BY DEF IInv, ListOK, PidsAreUnique
  <2>2. \A q \in Pcbs : Live(q) /\ pid[q] = pid[c] => q = c
    BY OneProcessPerPid DEF IInv, ListOK
  <2> QED
    BY <1>1, <1>2, <2>1, <2>2
<1>6. PidsAreUnique'
  BY <1>1, <1>4, <1>5 DEF PidsAreUnique
<1>7. ListOK'
  BY <1>1, <1>6 DEF IInv, ListOK, Pids
<1> QED
  BY <1>1, <1>2, <1>7

(***************************************************************************)
(* sys_wait, a child is reaped: it is not a system process and not the     *)
(* caller.                                                                 *)
(***************************************************************************)
LEMMA ReapKeeps ==
  ASSUME IInv, NEW p \in Pcbs, sys_wait_reap(p)
  PROVE  IInv'
<1> USE ProcessesAssumption
<1> DEFINE S == find_hanging_child(p)
           c == First(S)
<1>1. S \in SUBSET (1..Len(all_list)) /\ S # {}
  BY DEF sys_wait_reap, find_hanging_child, Matches
<1>2. PICK i \in S : c = all_list[i]
  BY <1>1, FirstIsMember DEF IInv, TypeOK
<1>3. /\ c \in Pcbs /\ Live(c)
      /\ parent[c] = pid[p] /\ status[c] = "HANGING"
  <2> HIDE DEF c
  <2>1. /\ i \in 1..Len(all_list)
        /\ parent[all_list[i]] = pid[p] /\ status[all_list[i]] = "HANGING"
    BY DEF find_hanging_child, Matches
  <2>2. all_list[i] \in Pcbs
    BY <2>1 DEF IInv, TypeOK
  <2> QED
    BY <1>2, <2>1, <2>2 DEF Live
<1>4. /\ thread_exit(c)
      /\ status' = [status EXCEPT ![c] = "DIED"]
      /\ pc'     = [pc EXCEPT ![c] = "free", ![p] = "user"]
      /\ victims' = IF pc[c] = "zombie" THEN victims ELSE victims \cup {c}
      /\ UNCHANGED <<pid, parent, fault>>
  BY DEF sys_wait_reap
<1>5. ~fault /\ status[p] = "READY"
  BY DEF sys_wait_reap, InWait, InUser
<1> HIDE DEF S, c
<1>6. Live(p) /\ p # c
  BY <1>3, <1>5 DEF IInv, ListOK, PidsAreUnique
<1>7. c \notin System
  <2>1. pid[p] # -1
    BY <1>6 DEF IInv, ListOK, Pids
  <2> QED
    BY <1>3, <2>1 DEF IInv, SystemOK
<1>8. /\ all_list' \in Seq(Pcbs)
      /\ pool' \subseteq Pids
      /\ \A q \in Pcbs : Live(q)' <=> Live(q) /\ q # c
      /\ ListOK'
  BY <1>3, <1>4, ExitKeepsList
<1>9. /\ \A q \in Pcbs : status'[q] = IF q = c THEN "DIED" ELSE status[q]
      /\ \A q \in Pcbs : pc'[q] = IF q = c THEN "free"
                                  ELSE IF q = p THEN "user" ELSE pc[q]
  BY <1>3, <1>4, <1>6 DEF IInv, TypeOK
<1>10. TypeOK'
  BY <1>3, <1>4, <1>8 DEF IInv, TypeOK
<1>11. UNCHANGED <<pid, parent>>
  BY <1>4
<1>12. PlacesOK'
  BY <1>5, <1>6, <1>9 DEF IInv, PlacesOK
<1>13. SystemOK'
  BY <1>7, <1>8, <1>9, <1>11 DEF IInv, SystemOK, System
<1>14. ParentsOK'
  BY <1>4, <1>8, <1>9 DEF IInv, ParentsOK
<1>15. ExitWakesParent'
  BY <1>8, <1>9, <1>11 DEF IInv, ExitWakesParent
<1>16. ParentExists'
  <2> SUFFICES ASSUME victims' = {}
               PROVE  /\ ~fault'
                      /\ \A d \in Pcbs : Live(d)' /\ parent'[d] # -1
                            => \E q \in Pcbs : Live(q)' /\ pid'[q] = parent'[d]
    BY DEF ParentExists
  <2>1. pc[c] = "zombie" /\ victims = {}
    BY <1>4
  <2> QED
    BY <1>3, <1>4, <1>5, <1>8, <2>1 DEF IInv, ParentExists, ParentsOK
<1> QED
  BY <1>8, <1>10, <1>12, <1>13, <1>14, <1>15, <1>16 DEF IInv

(***************************************************************************)
(* main leaves: it has no children.                                        *)
(***************************************************************************)
LEMMA MainExitKeeps ==
  ASSUME IInv, main_exit
  PROVE  IInv'
<1> USE ProcessesAssumption DEF System
<1> DEFINE c == MainPcb
<1>1. /\ thread_exit(c)
      /\ status' = [status EXCEPT ![c] = "DIED"]
      /\ pc'     = [pc EXCEPT ![c] = "free"]
      /\ UNCHANGED <<pid, parent, fault, victims>>
      /\ ~fault /\ status[c] = "READY" /\ c \in Pcbs
  BY DEF main_exit
<1>2. Live(c) /\ c # InitPcb
  BY <1>1 DEF IInv, ListOK, PidsAreUnique
<1>3. /\ all_list' \in Seq(Pcbs)
      /\ pool' \subseteq Pids
      /\ \A q \in Pcbs : Live(q)' <=> Live(q) /\ q # c
      /\ ListOK'
  BY <1>1, <1>2, ExitKeepsList
<1>4. /\ \A q \in Pcbs : status'[q] = IF q = c THEN "DIED" ELSE status[q]
      /\ \A q \in Pcbs : pc'[q] = IF q = c THEN "free" ELSE pc[q]
  BY <1>1 DEF IInv, TypeOK
<1>5. TypeOK'
  BY <1>1, <1>3 DEF IInv, TypeOK
<1>6. PlacesOK'
  BY <1>4 DEF IInv, PlacesOK
<1>7. SystemOK'
  BY <1>1, <1>2, <1>3, <1>4 DEF IInv, SystemOK
<1>8. ParentsOK'
  BY <1>1, <1>3, <1>4 DEF IInv, ParentsOK
<1>9. ExitWakesParent'
  BY <1>1, <1>3, <1>4 DEF IInv, ExitWakesParent
<1>10. ParentExists'
  BY <1>1, <1>2, <1>3 DEF IInv, ParentExists, ParentsOK
<1> QED
  BY <1>3, <1>5, <1>6, <1>7, <1>8, <1>9, <1>10 DEF IInv

(***************************************************************************)
(* sys_wait, nothing is reaped.  The caller goes to sleep only when none   *)
(* of its children has exited.                                             *)
(***************************************************************************)
LEMMA WaitKeeps ==
  ASSUME IInv, NEW p \in Pcbs, sys_wait_block(p) \/ sys_wait_none(p)
  PROVE  IInv'
<1>1. /\ UNCHANGED <<pid, parent, all_list, pool, fault, victims>>
      /\ status[p] = "READY" /\ pc[p] \in {"user", "waiting"}
  BY DEF sys_wait_block, sys_wait_none, InWait, InUser
<1>2. \/ /\ status' = [status EXCEPT ![p] = "HANGING"]
         /\ pc'     = [pc EXCEPT ![p] = "waiting"]
         /\ find_hanging_child(p) = {}
      \/ status' = status /\ pc' = [pc EXCEPT ![p] = "user"]
  BY DEF sys_wait_block, sys_wait_none
<1>3. /\ \A q \in Pcbs : Live(q)' <=> Live(q)
      /\ \A q \in Pcbs : Live(q) <=> status[q] # "DIED"
  BY <1>1 DEF Live, IInv, ListOK, PidsAreUnique
<1>4. \A q \in Pcbs : status'[q] # "DIED" <=> status[q] # "DIED"
  BY <1>1, <1>2 DEF IInv, TypeOK
<1>5. /\ \A q \in Pcbs : q # p => status'[q] = status[q] /\ pc'[q] = pc[q]
      /\ \/ status'[p] = "READY" /\ pc'[p] = "user"
         \/ /\ status'[p] = "HANGING" /\ pc'[p] = "waiting"
            /\ find_hanging_child(p) = {}
  BY <1>1, <1>2 DEF IInv, TypeOK
<1>6. TypeOK'
  BY <1>1, <1>2 DEF IInv, TypeOK
<1>7. ListOK'
  <2>1. {q \in Pcbs : Live(q)'} = {q \in Pcbs : status'[q] # "DIED"}
    BY <1>3, <1>4
  <2>2. pool' = {pid'[q] : q \in {r \in Pcbs : Live(r)'}}
    BY <1>1, <1>3 DEF IInv, ListOK, PidsAreUnique
  <2>3. PidsAreUnique'
    BY <1>1, <2>1, <2>2 DEF IInv, ListOK, PidsAreUnique
  <2> QED
    BY <1>1, <1>3, <2>3 DEF IInv, ListOK, Pids
<1>8. PlacesOK'
  BY <1>1, <1>5 DEF IInv, PlacesOK
<1>9. SystemOK'
  BY <1>1, <1>3, <1>5, ProcessesAssumption DEF IInv, SystemOK, System
<1>10. ParentsOK'
  BY <1>1, <1>3, <1>5 DEF IInv, ParentsOK
<1>11. ExitWakesParent'
  <2>1. ASSUME NEW c \in Pcbs, Live(c), parent[c] = pid[p], pc[c] = "zombie"
        PROVE  find_hanging_child(p) # {}
    <3>1. status[c] = "HANGING"
      BY <2>1 DEF IInv, PlacesOK
    <3> QED
      BY <2>1, <3>1 DEF find_hanging_child, Matches, Live
  <2> QED
    BY <1>1, <1>3, <1>5, <2>1 DEF IInv, ExitWakesParent
<1>12. ParentExists'
  BY <1>1, <1>3 DEF IInv, ParentExists
<1> QED
  BY <1>6, <1>7, <1>8, <1>9, <1>10, <1>11, <1>12 DEF IInv

(***************************************************************************)
(* sys_exit: the children go to init, and the one process that has the pid *)
(* of the parent is woken.                                                 *)
(***************************************************************************)
LEMMA ExitKeeps ==
  ASSUME IInv, NEW p \in Pcbs, sys_exit(p)
  PROVE  IInv'
<1> USE ProcessesAssumption
<1> DEFINE found == pid2thread(parent[p])
           f     == First(found)
<1>1. /\ UNCHANGED <<pid, all_list, pool, victims>>
      /\ ~fault /\ p \notin {MainPcb, IdlePcb} /\ status[p] = "READY"
      /\ pc[p] = "user" /\ parent[p] # -1
  BY DEF sys_exit, InUser
<1>2. \A q \in Pcbs : parent'[q] = IF Live(q) /\ parent[q] = pid[p]
                                   THEN 1 ELSE parent[q]
  BY DEF sys_exit, init_adopt_a_child
<1>3. parent' \in [Pcbs -> Pids \cup {-1}]
  BY DEF sys_exit, init_adopt_a_child, IInv, TypeOK, Pids
<1>4. \/ found = {} /\ fault' = TRUE /\ UNCHANGED <<status, pc>>
      \/ /\ found # {}
         /\ status' = [c \in Pcbs |->
                          IF c = p THEN "HANGING"
                          ELSE IF c = f /\ status[c] = "HANGING" THEN "READY"
                          ELSE status[c]]
         /\ pc' = [pc EXCEPT ![p] = "zombie"]
         /\ UNCHANGED fault
  BY Zenon DEF sys_exit
<1>5. \A q \in Pcbs : Live(q) /\ pid[q] = parent[p] => found # {}
  BY DEF pid2thread, Matches, Live
<1>6. found # {} => Live(f) /\ pid[f] = parent[p]
  <2> SUFFICES ASSUME found # {} PROVE Live(f) /\ pid[f] = parent[p]
    OBVIOUS
  <2>1. found \in SUBSET (1..Len(all_list))
    BY DEF pid2thread, Matches
  <2>2. PICK i \in found : f = all_list[i]
    BY <2>1, FirstIsMember DEF IInv, TypeOK
  <2> HIDE DEF f
  <2>3. i \in 1..Len(all_list) /\ pid[all_list[i]] = parent[p]
    BY DEF pid2thread, Matches
  <2> QED
    BY <2>2, <2>3 DEF Live
<1> HIDE DEF found, f
<1>7. /\ \A q \in Pcbs : Live(q)' <=> Live(q)
      /\ \A q \in Pcbs : Live(q) <=> status[q] # "DIED"
  BY <1>1 DEF Live, IInv, ListOK, PidsAreUnique
<1>8. /\ Live(p) /\ p \notin System
      /\ \A q \in Pcbs : Live(q) => parent[q] # pid[q]
  BY <1>1, <1>7 DEF IInv, SystemOK, ParentsOK, System
<1>9. \A q \in Pcbs : Live(q) /\ found # {} /\ pid[q] = parent[p] => q = f
  BY <1>6, OneProcessPerPid DEF IInv, ListOK
<1>10. \A q \in Pcbs : Live(q) /\ pid[q] = pid[p] => q = p
  BY <1>8, OneProcessPerPid DEF IInv, ListOK
<1>11. pid[p] # 1 /\ pid[InitPcb] = 1 /\ Live(InitPcb) /\ InitPcb \in Pcbs
  BY <1>8, <1>10 DEF IInv, SystemOK, System
<1>12. TypeOK'
  <2>1. status' \in [Pcbs -> {"READY", "HANGING", "DIED"}]
    BY <1>4 DEF IInv, TypeOK
  <2> QED
    BY <1>1, <1>3, <1>4, <2>1 DEF IInv, TypeOK
<1>13. /\ \A q \in Pcbs : pc'[q] = IF q = p /\ found # {} THEN "zombie" ELSE pc[q]
       /\ \A q \in Pcbs : status'[q] = IF found = {} THEN status[q]
                                       ELSE IF q = p THEN "HANGING"
                                       ELSE IF q = f /\ status[q] = "HANGING"
                                       THEN "READY" ELSE status[q]
  BY <1>4 DEF IInv, TypeOK
<1>14. ListOK'
  <2>1. {q \in Pcbs : Live(q)'} = {q \in Pcbs : status'[q] # "DIED"}
    BY <1>1, <1>7, <1>13
  <2>2. pool' = {pid'[q] : q \in {r \in Pcbs : Live(r)'}}
    BY <1>1, <1>7 DEF IInv, ListOK, PidsAreUnique
  <2>3. PidsAreUnique'
    BY <1>1, <2>1, <2>2 DEF IInv, ListOK, PidsAreUnique
  <2> QED
    BY <1>1, <1>7, <2>3 DEF IInv, ListOK, Pids
<1>15. found # {} => pc[f] # "zombie"
  BY <1>6, <1>8 DEF IInv, ParentsOK, Live, TypeOK
<1>16. PlacesOK'
  BY <1>1, <1>13, <1>15 DEF IInv, PlacesOK
<1>17. SystemOK'
  BY <1>1, <1>2, <1>7, <1>8, <1>11, <1>13 DEF IInv, SystemOK, System, ListOK, Pids
<1>18. ParentsOK'
  <2> SUFFICES ASSUME NEW d \in Pcbs, NEW q \in Pcbs, Live(d), Live(q),
                      d = q \/ q = MainPcb \/ pc'[q] = "zombie"
               PROVE  parent'[d] # pid[q]
    BY <1>1, <1>7 DEF ParentsOK
  <2>1. pid[MainPcb] # 1 \/ ~Live(MainPcb)
    BY <1>11, OneProcessPerPid DEF IInv, ListOK, System
  <2>2. CASE parent[d] = pid[p]
    <3>1. parent'[d] = 1
      BY <1>2, <2>2
    <3>2. pid[q] = 1 => q = InitPcb
      BY <1>11, OneProcessPerPid DEF IInv, ListOK
    <3>3. q # InitPcb
      BY <1>8, <1>13, <2>2 DEF IInv, SystemOK, System, ListOK, Pids
    <3> QED
      BY <3>1, <3>2, <3>3
  <2>3. CASE parent[d] # pid[p]
    BY <1>2, <1>10, <1>13, <2>3 DEF IInv, ParentsOK
  <2> QED
    BY <2>2, <2>3
<1>19. ExitWakesParent'
  <2> SUFFICES ASSUME NEW q \in Pcbs, NEW c \in Pcbs, Live(q), q # InitPcb,
                      status'[q] = "HANGING", pc'[q] = "waiting",
                      Live(c), parent'[c] = pid[q]
               PROVE  pc'[c] # "zombie"
    BY <1>1, <1>7 DEF ExitWakesParent
  <2>1. pid[q] # 1
    BY <1>11, OneProcessPerPid DEF IInv, ListOK
  <2>2. parent[c] = pid[q]
    BY <1>2, <2>1
  <2>3. status[q] = "HANGING" /\ pc[q] = "waiting"
    BY <1>1, <1>13
  <2>4. pc[c] # "zombie"
    BY <2>2, <2>3 DEF IInv, ExitWakesParent
  <2>5. c = p /\ found # {} => q = f
    BY <1>9, <2>2
  <2>6. ~(q = f /\ found # {})
    BY <1>13, <2>3
  <2> QED
    BY <1>13, <2>4, <2>5, <2>6
<1>20. ParentExists'
  <2> SUFFICES ASSUME victims = {}
               PROVE  /\ ~fault'
                      /\ \A d \in Pcbs : Live(d) /\ parent'[d] # -1
                            => \E q \in Pcbs : Live(q) /\ pid[q] = parent'[d]
    BY <1>1, <1>7 DEF ParentExists
  <2>1. \A d \in Pcbs : Live(d) /\ parent[d] # -1
           => \E q \in Pcbs : Live(q) /\ pid[q] = parent[d]
    BY DEF IInv, ParentExists
  <2>2. found # {}
    BY <1>1, <1>5, <1>8, <2>1
  <2> QED
    BY <1>1, <1>2, <1>4, <1>11, <2>1, <2>2
<1> QED
  BY <1>12, <1>14, <1>16, <1>17, <1>18, <1>19, <1>20 DEF IInv

(***************************************************************************)
(* The invariant holds at all times.                                       *)
(***************************************************************************)
LEMMA Inductive == Spec => []IInv
<1>1. ASSUME IInv, [Next]_vars PROVE IInv'
  <2>1. ASSUME NEW p \in Pcbs, sys_fork(p) PROVE IInv'
    BY <1>1, <2>1, ForkKeeps
  <2>2. ASSUME NEW p \in Pcbs, sys_wait_reap(p) PROVE IInv'
    BY <1>1, <2>2, ReapKeeps
  <2>3. ASSUME NEW p \in Pcbs, sys_wait_block(p) \/ sys_wait_none(p) PROVE IInv'
    BY <1>1, <2>3, WaitKeeps
  <2>4. ASSUME NEW p \in Pcbs, sys_exit(p) PROVE IInv'
    BY <1>1, <2>4, ExitKeeps
  <2>5. CASE main_exit
    BY <1>1, <2>5, MainExitKeeps
  <2>6. CASE fault_spin \/ UNCHANGED vars
    <3>1. UNCHANGED <<status, pid, parent, all_list, pool, pc, fault, victims>>
      BY <2>6 DEF fault_spin, vars
    <3>2. TypeOK'
      BY <1>1, <3>1 DEF IInv, TypeOK
    <3>3. \A p \in Pcbs : Live(p)' <=> Live(p)
      BY <3>1 DEF Live
    <3>4. PidsAreUnique'
      BY <1>1, <3>1, <3>3 DEF IInv, ListOK, PidsAreUnique
    <3>5. ListOK' /\ PlacesOK' /\ ParentsOK' /\ ExitWakesParent' /\ ParentExists'
      BY <1>1, <3>1, <3>3, <3>4 DEF IInv, ListOK, PlacesOK, ParentsOK,
         ExitWakesParent, ParentExists
    <3>6. SystemOK'
      BY <1>1, <3>1, <3>3, ProcessesAssumption DEF IInv, SystemOK, System
    <3> QED
      BY <3>2, <3>5, <3>6 DEF IInv
  <2> QED
    BY <1>1, <2>1, <2>2, <2>3, <2>4, <2>5, <2>6 DEF Next
<1> QED
  BY <1>1, InitOK, PTL DEF Spec

(***************************************************************************)
(* Every field keeps its type, whatever sequence of calls is made.         *)
(***************************************************************************)
THEOREM TypeCorrect == Spec => []TypeOK
<1>1. IInv => TypeOK
  BY DEF IInv
<1> QED
  BY <1>1, Inductive, PTL

(***************************************************************************)
(* thread_all_list, the pid pool and the statuses agree and no two         *)
(* processes share a pid, however fork, wait and exit recycle pids.        *)
(***************************************************************************)
THEOREM PidsAreUniqueHolds == Spec => []PidsAreUnique
<1>1. IInv => PidsAreUnique
  BY DEF IInv, ListOK
<1> QED
  BY <1>1, Inductive, PTL

(***************************************************************************)
(* A process that called sys_exit is not unblocked again.                  *)
(***************************************************************************)
THEOREM ZombieNeverRunsHolds == Spec => []ZombieNeverRuns
<1>1. IInv => ZombieNeverRuns
  BY DEF IInv, PlacesOK, ZombieNeverRuns
<1> QED
  BY <1>1, Inductive, PTL

(***************************************************************************)
(* sys_exit wakes the parent that sleeps in sys_wait, and sys_wait does    *)
(* not sleep over a child that has exited already.                         *)
(***************************************************************************)
THEOREM ExitWakesParentHolds == Spec => []ExitWakesParent
<1>1. IInv => ExitWakesParent
  BY DEF IInv
<1> QED
  BY <1>1, Inductive, PTL

(***************************************************************************)
(* Until a process is reaped alive, every parent_pid names a process and   *)
(* sys_exit does not dereference NULL.                                     *)
(***************************************************************************)
THEOREM ParentExistsHolds == Spec => []ParentExists
<1>1. IInv => ParentExists
  BY DEF IInv
<1> QED
  BY <1>1, Inductive, PTL
=============================================================================
