-------------------------------- MODULE Tree --------------------------------
(***************************************************************************)
(* Paths, the tree of directories and the inodes of open directories:      *)
(* search_file, sys_mkdir, sys_rmdir, sys_unlink, sys_open of a path,      *)
(* sys_opendir, sys_closedir, sys_chdir and sys_getcwd (fs.c), dir_open,   *)
(* dir_close and dir_remove (direct.c).                                    *)
(*                                                                         *)
(* A call is one action here: what can come between its disk accesses is   *)
(* the matter of Directory and OpenFiles.  A path is a sequence of names,  *)
(* "." and "..".  A regular file is closed as soon as it has been opened.  *)
(***************************************************************************)
EXTENDS Integers, Sequences, FiniteSets

CONSTANTS
    Procs,
    Names,
    NInodes,        \* inode numbers, 0 being the root's
    MaxDepth,       \* bound: components of a path
    MaxOpens        \* bound: count up to which sys_open leaves a directory open

ASSUME TreeAssumption ==
    /\ NInodes \in Nat \ {0} /\ MaxDepth \in Nat
    /\ Names \cap {".", ".."} = {}
    /\ IsFiniteSet(Procs)

Inodes   == 0..(NInodes - 1)
NotFound == -1
Root     == 0
Paths    == UNION {[1..k -> Names \cup {".", ".."}] : k \in 0..MaxDepth}

VARIABLES
    kind,           \* [Inodes -> "dir", "file" or "free"]
    entries,        \* [Inodes -> [Names -> inode or NotFound]]
    dotdot,         \* [Inodes -> inode that ".." names, of a directory]
    i_open_cnts,    \* [Inodes -> count of the listed inode, 0 when not listed]
    hold,           \* [Procs -> directory that opendir returned, or NotFound]
    cwd_inode_nr,   \* [Procs -> inode]
    gone,           \* history: processes whose directory was removed
    broken          \* "none", or what went wrong; followed up to there

tree  == <<kind, entries, dotdot>>
opens == <<i_open_cnts, hold>>
tree_vars  == <<tree, opens, cwd_inode_nr, gone, broken>>

NoEntries == [x \in Names |-> NotFound]

TreeInit ==
    /\ kind    = [n \in Inodes |-> IF n = Root THEN "dir" ELSE "free"]
    /\ entries = [n \in Inodes |-> NoEntries]
    /\ dotdot  = [n \in Inodes |-> Root]
    /\ i_open_cnts = [n \in Inodes |-> IF n = Root THEN 1 ELSE 0]
    /\ hold = [p \in Procs |-> NotFound]
    /\ cwd_inode_nr = [p \in Procs |-> Root]
    /\ gone = {} /\ broken = "none"

-----------------------------------------------------------------------------
\* search_dir_entry
Entry(d, x) == IF x = "." THEN d ELSE IF x = ".." THEN dotdot[d] ELSE entries[d][x]

IsDir(n) == n \in Inodes /\ kind[n] = "dir"

\* search_file: what the path leads to after each component.  It stops at a
\* regular file, whatever follows, and at a name that is not there.
Walk(path) ==
    LET w[i \in 0..Len(path)] ==
            IF i = 0 THEN Root
            ELSE LET d == w[i - 1] IN IF IsDir(d) THEN Entry(d, path[i]) ELSE d
    IN  w
Found(path)  == Walk(path)[Len(path)]

\* path_depth_cnt of searched_path
Depth(path) ==
    LET w == Walk(path) IN Cardinality({i \in 1..Len(path) : IsDir(w[i - 1])})

\* parent_dir of the record: where the last name was looked for
Parent(path) == Walk(path)[Depth(path) - 1]

\* whether parent_dir is root_dir itself, which dir_close leaves alone
InRootDir(path) == Depth(path) <= 1

Missing(path) == path # <<>> /\ Found(path) = NotFound /\ Depth(path) = Len(path)
FreeInodes    == {n \in Inodes : kind[n] = "free"}
Lowest(S)     == CHOOSE x \in S : \A y \in S : x <= y

Running == broken = "none"

-----------------------------------------------------------------------------
\* The lowest free number gets an entry in the parent.  A listed inode of that
\* number, left by a removed directory, would be taken for the new one.
NewEntry(path, k) ==
    LET n == Lowest(FreeInodes)
        d == Parent(path)
    IN  /\ Running /\ Missing(path) /\ FreeInodes # {}
        /\ kind'    = [kind EXCEPT ![n] = k]
        /\ entries' = [entries EXCEPT ![d][path[Len(path)]] = n, ![n] = NoEntries]
        /\ dotdot'  = [dotdot EXCEPT ![n] = IF k = "dir" THEN d ELSE Root]
        /\ broken'  = IF i_open_cnts[n] > 0 THEN "stale" ELSE "none"
        /\ UNCHANGED <<opens, cwd_inode_nr, gone>>

sys_mkdir(path) == NewEntry(path, "dir")

\* sys_open with O_CREAT
sys_open_create(path) == NewEntry(path, "file")

\* sys_open of a file that is there: its parent_dir is not closed.
sys_open(path) ==
    LET d == Parent(path)
    IN  /\ Running /\ Found(path) # NotFound /\ kind[Found(path)] = "file"
        /\ Depth(path) = Len(path)
        /\ ~InRootDir(path) /\ i_open_cnts[d] < MaxOpens
        /\ i_open_cnts' = [i_open_cnts EXCEPT ![d] = @ + 1]
        /\ UNCHANGED <<tree, hold, cwd_inode_nr, gone, broken>>

\* sys_unlink: of a file that the path ends in or goes through
sys_unlink(path) ==
    LET n == Found(path)
    IN  /\ Running /\ n # NotFound /\ kind[n] = "file"
        /\ kind'    = [kind EXCEPT ![n] = "free"]
        /\ entries' = [entries EXCEPT ![Parent(path)] =
                          [x \in Names |-> IF @[x] = n THEN NotFound ELSE @[x]]]
        /\ UNCHANGED <<dotdot, opens, cwd_inode_nr, gone, broken>>

\* ASSERT(inode_no != 0) of sys_unlink and sys_rmdir: the path leads to the root.
asserts_not_root(path) ==
    /\ Running /\ Found(path) = Root
    /\ broken' = "panic"
    /\ UNCHANGED <<tree, opens, cwd_inode_nr, gone>>

\* Variant: dir_is_empty is not asked.
removable_any(path) == IsDir(Found(path)) /\ Found(path) # Root

\* what sys_rmdir tests: a directory that dir_is_empty accepts
Removable(path) == IsDir(Found(path)) /\ Found(path) # Root /\ entries[Found(path)] = NoEntries

\* sys_rmdir: nobody asks who else has the directory open or as its own.  The
\* entry is looked for in the directory before the last name; for a path that
\* ends in "." that is the directory itself, and its entry stays.
sys_rmdir(path) ==
    LET n == Found(path)
    IN  /\ Running /\ Removable(path)
        /\ kind'    = [kind EXCEPT ![n] = "free"]
        /\ entries' = [entries EXCEPT ![Parent(path)] =
                          [x \in Names |-> IF @[x] = n THEN NotFound ELSE @[x]]]
        /\ broken'  = IF Parent(path) = n THEN "dangling" ELSE "none"
        /\ gone' = gone \cup {p \in Procs : cwd_inode_nr[p] = n}
        /\ dotdot' = [dotdot EXCEPT ![n] = Root]
        /\ UNCHANGED <<opens, cwd_inode_nr>>

-----------------------------------------------------------------------------
sys_opendir(p, path) ==
    LET n == Found(path)
    IN  /\ Running /\ hold[p] = NotFound /\ path # <<>> /\ IsDir(n)
        /\ hold' = [hold EXCEPT ![p] = n]
        /\ i_open_cnts' = [i_open_cnts EXCEPT ![n] = @ + 1]
        /\ UNCHANGED <<tree, cwd_inode_nr, gone, broken>>

\* The last close takes the inode off the list.
sys_closedir(p) ==
    LET n == hold[p]
    IN  /\ Running /\ n # NotFound
        /\ hold' = [hold EXCEPT ![p] = NotFound]
        /\ i_open_cnts' = [i_open_cnts EXCEPT ![n] = @ - 1]
        /\ UNCHANGED <<tree, cwd_inode_nr, gone, broken>>

sys_chdir(p, path) ==
    /\ Running /\ IsDir(Found(path))
    /\ cwd_inode_nr' = [cwd_inode_nr EXCEPT ![p] = Found(path)]
    /\ gone' = gone \ {p}
    /\ UNCHANGED <<tree, opens, broken>>

\* get_parent_dir_inode_nr asserts that the directory has a block: one that was
\* removed has none, unless its inode is still listed.
sys_getcwd_panics(p) ==
    /\ Running /\ ~IsDir(cwd_inode_nr[p]) /\ i_open_cnts[cwd_inode_nr[p]] = 0
    /\ broken' = "panic"
    /\ UNCHANGED <<tree, opens, cwd_inode_nr, gone>>

stopped == ~Running /\ UNCHANGED tree_vars

TreeNext ==
    \/ \E path \in Paths :
        \/ sys_mkdir(path) \/ sys_open_create(path) \/ sys_open(path)
        \/ sys_unlink(path) \/ sys_rmdir(path) \/ asserts_not_root(path)
        \/ \E p \in Procs : sys_opendir(p, path) \/ sys_chdir(p, path)
    \/ \E p \in Procs : sys_closedir(p) \/ sys_getcwd_panics(p)
    \/ stopped

TreeSpec == TreeInit /\ [][TreeNext]_tree_vars

-----------------------------------------------------------------------------
Namings(n) == {x \in Inodes \X Names : kind[x[1]] = "dir" /\ entries[x[1]][x[2]] = n}

\* sys_getcwd: the names met on the way up, in the order from the root
getcwd ==
    LET up[n \in Inodes] ==
            IF n = Root THEN <<>>
            ELSE LET x == CHOOSE y \in Names : entries[dotdot[n]][y] = n
                 IN  Append(up[dotdot[n]], x)
    IN  up

(***************************************************************************)
(* Whatever is made and removed, every file has one name, ".." leads to    *)
(* the directory that has it, and the path sys_getcwd puts together leads  *)
(* search_file back to the directory it started from, unless that one has  *)
(* been removed meanwhile.                                                 *)
(***************************************************************************)
GetcwdIsPath ==
    broken = "none" =>
        /\ \A n \in Inodes \ {Root} : kind[n] # "free" =>
              \E x \in Namings(n) : Namings(n) = {x} /\ (IsDir(n) => dotdot[n] = x[1])
        /\ \A p \in Procs \ gone :
              /\ IsDir(cwd_inode_nr[p])
              /\ Found(getcwd[cwd_inode_nr[p]]) = cwd_inode_nr[p]
=============================================================================
