------------------------------- MODULE Shell --------------------------------
(***************************************************************************)
(* The shell: readline and my_shell (shell.c), wash_path,                  *)
(* make_clear_abs_path and the commands that change a directory            *)
(* (buildin_cmd.c).  Keys arrive from the keyboard; which command a line   *)
(* spells is left open.  A path is a sequence of names, "." and "..", and  *)
(* starts at the root or at the shell's directory.                         *)
(***************************************************************************)
EXTENDS Integers, Sequences, SequencesExt

CONSTANTS
    PathNames,
    MaxPath,       \* bound: components of an argument and depth of the tree
    Count,          \* MAX_PATH_LEN: size of cmd_line
    MaxShells       \* bound: shells, each started by the one before

ASSUME ShellAssumption == Count \in Nat /\ MaxShells \in Nat \ {0}

Args == [abs : BOOLEAN,
         path : UNION {[1..k -> PathNames \cup {".", ".."}] : k \in 1..MaxPath}]
RootPath == <<>>
\* The number a process keeps of a directory that has been removed.
Gone(path) == <<"gone">> \o path
IsGone(cwd) == cwd # <<>> /\ Head(cwd) = "gone"

VARIABLES
    buf, pos,       \* cmd_line, and where readline stores the next key
    typed,          \* history: the line as the user sees it
    dirs,           \* paths of the directories
    shells,         \* [cwd, cwd_cache] of every shell; the last one reads keys,
                    \* the others wait for it to exit; lost: its directory has
                    \* been removed since the last cd
    fault           \* "none", "overrun" or "panic"; followed up to there

editing    == <<buf, pos, typed>>
shell_vars == <<editing, dirs, shells, fault>>

At(cwd, cache) == [cwd |-> cwd, cwd_cache |-> cache, lost |-> FALSE]

NewLine == [i \in 0..Count |-> "nul"]
ShellInit ==
    /\ buf = NewLine /\ pos = 0 /\ typed = <<>>
    /\ dirs = {RootPath}
    /\ shells = <<At(RootPath, RootPath)>>
    /\ fault = "none"

-----------------------------------------------------------------------------
\* readline stores every key at pos before it looks at it, and tests the count
\* after that: a key at pos = Count is one past the buffer.
Stored(key) ==
    /\ fault = "none"
    /\ IF pos = Count
       THEN fault' = "overrun" /\ UNCHANGED <<buf, pos, typed, dirs, shells>>
       ELSE UNCHANGED <<dirs, shells, fault>>

type_char(c) ==
    /\ Stored(c)
    /\ pos < Count =>
        /\ buf' = [buf EXCEPT ![pos] = c] /\ pos' = pos + 1
        /\ typed' = Append(typed, c)

\* Variant: buf[0] is not looked at.
type_backspace_always(key) ==
    /\ Stored(key)
    /\ pos < Count =>
        /\ buf' = [buf EXCEPT ![pos] = key]
        /\ pos' = pos - 1
        /\ typed' = IF typed = <<>> THEN typed ELSE Front(typed)

\* '\b' is stored like any other key, and moves back unless it is the first.
type_backspace(key) ==
    /\ Stored(key)
    /\ pos < Count =>
        LET stored == [buf EXCEPT ![pos] = key]
        IN  /\ buf' = stored
            /\ pos' = IF stored[0] # key THEN pos - 1 ELSE pos
            /\ typed' = IF typed = <<>> THEN typed ELSE Front(typed)

\* ctrl-l: the line so far is shown again.
type_clear(key) ==
    /\ Stored(key)
    /\ pos < Count => buf' = [buf EXCEPT ![pos] = "nul"] /\ UNCHANGED <<pos, typed>>

\* ctrl-u: the line is erased from the end.
type_erase(key) ==
    /\ Stored(key)
    /\ pos < Count =>
        /\ buf' = [i \in 0..Count |-> IF i \in 1..pos THEN "nul"
                                      ELSE IF i = pos THEN key ELSE buf[i]]
        /\ pos' = 0 /\ typed' = <<>>

-----------------------------------------------------------------------------
\* wash_path: ".." cuts the path at its last '/', "." is dropped.
wash_path(path) ==
    FoldLeft(LAMBDA new, name : CASE name = ".." -> (IF new = <<>> THEN new ELSE Front(new))
                                  [] name = "." -> new
                                  [] OTHER -> Append(new, name),
             <<>>, path)

me == shells[Len(shells)]

\* make_clear_abs_path; a relative path needs getcwd.
NeedsCwd(a) == ~a.abs
make_clear_abs_path(a) == wash_path(IF a.abs THEN a.path ELSE me.cwd \o a.path)

\* the shells whose directory has been removed, its number not given out again
Strays == {i \in 1..Len(shells) : IsGone(shells[i].cwd)}

Usable(a) == NeedsCwd(a) => ~IsGone(me.cwd)

\* '\r': the line is ended, and what it spells is done.
Entered ==
    /\ fault = "none" /\ pos > 0 /\ pos < Count
    /\ buf' = NewLine /\ pos' = 0 /\ typed' = <<>>

empty_line ==
    /\ fault = "none" /\ pos = 0
    /\ buf' = NewLine
    /\ UNCHANGED <<pos, typed, dirs, shells, fault>>

\* Variant: the prompt shows the argument of cd.
buildin_cd_shows_argument(a) ==
    LET final_path == make_clear_abs_path(a)
    IN  /\ Entered /\ Usable(a) /\ final_path \in dirs
        /\ shells' = [shells EXCEPT ![Len(shells)] = At(final_path, a.path)]
        /\ UNCHANGED <<dirs, fault>>

buildin_cd(a) ==
    LET final_path == make_clear_abs_path(a)
    IN  /\ Entered /\ Usable(a) /\ final_path \in dirs
        /\ shells' = [shells EXCEPT ![Len(shells)] = At(final_path, final_path)]
        /\ UNCHANGED <<dirs, fault>>

buildin_cd_home ==
    /\ Entered
    /\ shells' = [shells EXCEPT ![Len(shells)] = At(RootPath, RootPath)]
    /\ UNCHANGED <<dirs, fault>>

\* The new directory may get the number of a removed one, and with it the
\* shells that are still there; g is Gone(<<>>) when it does not.
buildin_mkdir(a) ==
    LET final_path == make_clear_abs_path(a)
    IN  /\ Entered /\ Usable(a) /\ final_path \notin dirs
        /\ Front(final_path) \in dirs /\ Len(final_path) <= MaxPath
        /\ dirs' = dirs \cup {final_path}
        /\ \E g \in {Gone(<<>>)} \cup {shells[i].cwd : i \in Strays} :
              shells' = [i \in 1..Len(shells) |->
                            IF shells[i].lost /\ shells[i].cwd = g
                            THEN [shells[i] EXCEPT !.cwd = final_path] ELSE shells[i]]
        /\ UNCHANGED fault

\* The directory may be that of a shell.
buildin_rmdir(a) ==
    LET final_path == make_clear_abs_path(a)
    IN  /\ Entered /\ Usable(a)
        /\ final_path # RootPath /\ final_path \in dirs
        /\ \A d \in dirs \ {RootPath} : Front(d) # final_path
        /\ dirs' = dirs \ {final_path}
        /\ shells' = [i \in 1..Len(shells) |->
                         IF shells[i].cwd = final_path
                         THEN [shells[i] EXCEPT !.cwd = Gone(final_path), !.lost = TRUE]
                         ELSE shells[i]]
        /\ UNCHANGED fault

\* pwd, ls and any relative path when the directory is gone: sys_getcwd asserts.
getcwd_panics ==
    /\ Entered /\ IsGone(me.cwd)
    /\ fault' = "panic"
    /\ UNCHANGED <<dirs, shells>>

\* A line of blanks: strcmp reads argv[0], which is NULL, and the handler of the
\* page fault does not return.
blank_line ==
    /\ Entered
    /\ fault' = "panic"
    /\ UNCHANGED <<dirs, shells>>

\* Commands that change nothing here: pwd, ls, ps, clear, rm, too many
\* arguments, and a program that is found: it runs, exits and is waited for.
other_command == Entered /\ UNCHANGED <<dirs, shells, fault>>

\* A program that is not found: the child of fork reports it and goes on as a
\* shell, and its parent waits.
not_found ==
    /\ Entered /\ Len(shells) < MaxShells
    /\ shells' = Append(shells, me)
    /\ UNCHANGED <<dirs, fault>>

shell_stopped == fault # "none" /\ UNCHANGED shell_vars

ShellNext ==
    \/ type_char("c") \/ type_char("d") \/ type_backspace("bs")
    \/ type_clear("ctrl-l") \/ type_erase("ctrl-u")
    \/ \E a \in Args : buildin_cd(a) \/ buildin_mkdir(a) \/ buildin_rmdir(a)
    \/ empty_line \/ buildin_cd_home \/ getcwd_panics \/ blank_line \/ other_command
    \/ not_found
    \/ shell_stopped

ShellSpec == ShellInit /\ [][ShellNext]_shell_vars

-----------------------------------------------------------------------------
(***************************************************************************)
(* Through every mixture of keys, backspaces, erasures and redrawings what *)
(* readline hands over is the line the user sees: the test on buf[0] never *)
(* lets pos fall before the buffer, though erased keys stay in it.         *)
(***************************************************************************)
LineIsAsTyped ==
    fault = "none" =>
        /\ pos = Len(typed)
        /\ \A i \in 1..Len(typed) : buf[i - 1] = typed[i]

(***************************************************************************)
(* The prompt of the shell that reads keys names the directory it is in    *)
(* and one that exists, after any cd, mkdir and rmdir and in every shell   *)
(* that a mistyped command has started; unless that directory has been     *)
(* removed since its last cd.                                              *)
(***************************************************************************)
PromptIsCwd ==
    ~me.lost => me.cwd_cache = me.cwd /\ me.cwd \in dirs
=============================================================================
