-------------------------------- MODULE Ide --------------------------------
(***************************************************************************)
(* ide_read, ide_write and intr_hd_handler (device/ide.c) on one channel.  *)
(*                                                                         *)
(* The channel lock is the lock of module Threads, here by what it         *)
(* promises: one owner.  The disk and the interrupt controller are         *)
(* external: the disk raises its interrupt once per sector of a command,   *)
(* the controller latches one interrupt until it can be delivered.  A      *)
(* kernel thread can be interrupted anywhere in these functions, a system  *)
(* call only while it is blocked in sema_down.                             *)
(***************************************************************************)
EXTENDS Naturals

CONSTANTS
    Threads,        \* threads that do disk I/O
    KThreads,       \* those of them that run with interrupts on (main)
    NoThread,
    MaxOp,          \* most sectors in one command: 256 in the code
    MaxSectors      \* bound: longest request explored

ASSUME IdeAssumption ==
    /\ KThreads \subseteq Threads /\ NoThread \notin Threads
    /\ MaxOp \in Nat \ {0} /\ MaxSectors \in Nat \ {0}

VARIABLES
    owner,          \* holder of channel->lock
    expecting_intr, \* channel->expecting_intr
    done,           \* channel->disk_done.value
    at,             \* where the thread is, see Places
    op,             \* "read" or "write"
    todo,           \* sec_cnt - secs_done
    syscall,        \* the thread that has the CPU with interrupts off
    disk,           \* external: what the disk does, see DiskStates
    left,           \* external: sectors of a write it has yet to store
    irq,            \* external: an interrupt is latched
    multi,          \* history: a command of more than one sector was given
    halt            \* "none", or the PANIC that stopped the kernel

thread == <<owner, at, op, todo, syscall>>
ide_vars == <<owner, expecting_intr, done, at, op, todo, syscall, disk, left,
              irq, multi, halt>>

Places == {"out", "command", "outb", "down", "blocked", "poll", "transfer",
           "release"}

\* External.  BSY is set in the first three, DRQ in the next two.
Busy       == {"reading", "accepting", "storing"}
Ready      == {"read_ready", "write_ready"}
DiskStates == Busy \cup Ready \cup {"idle"}

IdeInit ==
    /\ owner = NoThread /\ expecting_intr = FALSE /\ done = 0
    /\ at = [t \in Threads |-> "out"]
    /\ op = [t \in Threads |-> "read"]
    /\ todo = [t \in Threads |-> 0]
    /\ syscall = NoThread
    /\ disk = "idle" /\ left = 0 /\ irq = FALSE /\ multi = FALSE
    /\ halt = "none"

\* t can execute at the given place.
At(t, place) == halt = "none" /\ at[t] = place /\ syscall \in {NoThread, t}

Goto(t, place) == at' = [at EXCEPT ![t] = place]

\* secs_op, and the sectors its low byte stands for in the count register.
secs_op(t)  == IF todo[t] >= MaxOp THEN MaxOp ELSE todo[t]
Sectors(t)  == IF secs_op(t) % MaxOp = 0 THEN MaxOp ELSE secs_op(t) % MaxOp

(***************************************************************************)
(* The driver.                                                             *)
(***************************************************************************)
\* ide_read / ide_write get the channel lock and select the disk.  Which
\* sectors are asked for is left out, and with it select_sector's ASSERT on
\* max_lba: the sectors of a partition are below it.
ide_begin(t) ==
    /\ At(t, "out")
    /\ owner = NoThread
    /\ owner' = t
    /\ \E o \in {"read", "write"} : op' = [op EXCEPT ![t] = o]
    /\ \E n \in 1..MaxSectors : todo' = [todo EXCEPT ![t] = n]
    /\ syscall' = IF t \in KThreads THEN NoThread ELSE t
    /\ Goto(t, "command")
    /\ UNCHANGED <<expecting_intr, done, disk, left, irq, halt, multi>>

\* Variant: the interrupt is not announced to the handler.
cmd_out_unexpected(t) ==
    /\ At(t, "command")
    /\ Goto(t, "outb")
    /\ UNCHANGED <<owner, expecting_intr, done, op, todo, syscall, disk, left,
                   irq, halt, multi>>

\* select_sector, then cmd_out's channel->expecting_intr = true
cmd_out(t) ==
    /\ At(t, "command")
    /\ expecting_intr' = TRUE
    /\ Goto(t, "outb")
    /\ UNCHANGED <<owner, done, op, todo, syscall, disk, left, irq, halt, multi>>

\* cmd_out's outb: a disk that is busy ignores the command.
cmd_out_outb(t) ==
    /\ At(t, "outb")
    /\ disk' = IF disk \in Busy THEN disk
               ELSE IF op[t] = "read" THEN "reading" ELSE "accepting"
    /\ Goto(t, IF op[t] = "read" THEN "down" ELSE "poll")
    /\ multi' = (multi \/ Sectors(t) > 1)
    /\ UNCHANGED <<owner, expecting_intr, done, op, todo, syscall, left, irq, halt>>

\* sema_down(&channel->disk_done), on entry or woken by sema_up
sema_down(t) ==
    /\ At(t, "down") \/ At(t, "blocked")
    /\ done = 1
    /\ done' = 0
    /\ syscall' = IF t \in KThreads THEN NoThread ELSE t
    /\ IF op[t] = "read"
       THEN Goto(t, "poll") /\ UNCHANGED todo
       ELSE /\ todo' = [todo EXCEPT ![t] = @ - secs_op(t)]
            /\ Goto(t, IF todo'[t] = 0 THEN "release" ELSE "command")
    /\ UNCHANGED <<owner, expecting_intr, op, disk, left, irq, halt, multi>>

sema_down_block(t) ==
    /\ At(t, "down")
    /\ done = 0
    /\ Goto(t, "blocked")
    /\ syscall' = NoThread
    /\ UNCHANGED <<owner, expecting_intr, done, op, todo, disk, left, irq, halt, multi>>

\* Variant: DRQ is not looked at.
busy_wait_no_drq(t) ==
    /\ At(t, "poll")
    /\ halt' = IF disk \in Busy THEN "thread_yield" ELSE halt
    /\ Goto(t, "transfer")
    /\ UNCHANGED <<owner, expecting_intr, done, op, todo, syscall, disk, left, irq, multi>>

(***************************************************************************)
(* busy_wait: while the disk is busy it calls mtime_sleep, whose           *)
(* thread_yield panics (see Threads); no data request makes the caller     *)
(* PANIC.                                                                  *)
(***************************************************************************)
busy_wait(t) ==
    /\ At(t, "poll")
    /\ halt' = IF disk \in Busy THEN "thread_yield"
                ELSE IF disk \notin Ready THEN "sector failed" ELSE halt
    /\ Goto(t, "transfer")
    /\ UNCHANGED <<owner, expecting_intr, done, op, todo, syscall, disk, left, irq, multi>>

\* insw of all sectors; the disk interrupts once more for each further one.
read_from_sector(t) ==
    /\ At(t, "transfer") /\ op[t] = "read"
    /\ disk' = "idle"
    /\ irq' = (irq \/ Sectors(t) > 1)
    /\ todo' = [todo EXCEPT ![t] = @ - secs_op(t)]
    /\ Goto(t, IF todo'[t] = 0 THEN "release" ELSE "command")
    /\ UNCHANGED <<owner, expecting_intr, done, op, syscall, left, halt, multi>>

\* Variant: the write is not waited for.
write2sector_no_wait(t) ==
    /\ At(t, "transfer") /\ op[t] = "write"
    /\ disk' = "storing"
    /\ left' = Sectors(t)
    /\ Goto(t, "release")
    /\ UNCHANGED <<owner, expecting_intr, done, op, todo, syscall, irq, halt, multi>>

\* outsw of all sectors; the disk now has to store them.
write2sector(t) ==
    /\ At(t, "transfer") /\ op[t] = "write"
    /\ disk' = "storing"
    /\ left' = Sectors(t)
    /\ Goto(t, "down")
    /\ UNCHANGED <<owner, expecting_intr, done, op, todo, syscall, irq, halt, multi>>

ide_end(t) ==
    /\ At(t, "release")
    /\ owner' = NoThread
    /\ syscall' = NoThread
    /\ Goto(t, "out")
    /\ UNCHANGED <<expecting_intr, done, op, todo, disk, left, irq, halt, multi>>

\* Variant: every interrupt ups disk_done.
intr_hd_handler_any ==
    /\ halt = "none" /\ irq /\ syscall = NoThread
    /\ irq' = FALSE
    /\ expecting_intr' = FALSE
    /\ IF done # 0 THEN halt' = "sema_up" /\ UNCHANGED done
       ELSE done' = 1 /\ UNCHANGED halt
    /\ UNCHANGED <<thread, disk, left, multi>>

(***************************************************************************)
(* intr_hd_handler: only an expected interrupt ups disk_done.              *)
(***************************************************************************)
intr_hd_handler ==
    /\ halt = "none" /\ irq /\ syscall = NoThread
    /\ irq' = FALSE
    /\ IF ~expecting_intr THEN UNCHANGED <<expecting_intr, done, halt>>
       ELSE /\ expecting_intr' = FALSE
            /\ IF done # 0 THEN halt' = "sema_up" /\ UNCHANGED done
               ELSE done' = 1 /\ UNCHANGED halt
    /\ UNCHANGED <<thread, disk, left, multi>>

(***************************************************************************)
(* External: the disk.                                                     *)
(***************************************************************************)
\* The first sector of a read is there, or could not be read.
disk_read ==
    /\ halt = "none" /\ disk = "reading"
    /\ disk' \in {"read_ready", "idle"}
    /\ irq' = TRUE
    /\ UNCHANGED <<thread, expecting_intr, done, left, halt, multi>>

\* A write command asks for its data, without an interrupt.
disk_accept ==
    /\ halt = "none" /\ disk = "accepting"
    /\ disk' = "write_ready"
    /\ UNCHANGED <<thread, expecting_intr, done, left, irq, halt, multi>>

\* One more sector of a write is on the disk.
disk_store ==
    /\ halt = "none" /\ disk = "storing"
    /\ left' = left - 1
    /\ disk' = IF left' = 0 THEN "idle" ELSE disk
    /\ irq' = TRUE
    /\ UNCHANGED <<thread, expecting_intr, done, halt, multi>>

panic_spin == halt # "none" /\ UNCHANGED ide_vars

Step(t) ==
    \/ cmd_out(t) \/ cmd_out_outb(t) \/ sema_down(t) \/ sema_down_block(t)
    \/ busy_wait(t) \/ read_from_sector(t) \/ write2sector(t) \/ ide_end(t)

IdeNext ==
    \/ \E t \in Threads : ide_begin(t) \/ Step(t)
    \/ intr_hd_handler
    \/ disk_read \/ disk_accept \/ disk_store
    \/ panic_spin

IdeSpec == IdeInit /\ [][IdeNext]_ide_vars

(***************************************************************************)
(* Fairness: the threads get the CPU, the disk finishes what it started, a *)
(* latched interrupt is delivered.  No thread has to start a request.      *)
(***************************************************************************)
IdeFairness ==
    /\ \A t \in Threads : WF_ide_vars(Step(t))
    /\ WF_ide_vars(disk_read) /\ WF_ide_vars(disk_accept) /\ WF_ide_vars(disk_store)
    /\ WF_ide_vars(intr_hd_handler)

-----------------------------------------------------------------------------
IdeTypeOK ==
    /\ owner \in Threads \cup {NoThread}
    /\ expecting_intr \in BOOLEAN
    /\ done \in {0, 1}
    /\ at \in [Threads -> Places]
    /\ op \in [Threads -> {"read", "write"}]
    /\ todo \in [Threads -> 0..MaxSectors]
    /\ syscall \in Threads \cup {NoThread}
    /\ disk \in DiskStates
    /\ left \in 0..MaxOp
    /\ irq \in BOOLEAN /\ multi \in BOOLEAN
    /\ halt \in {"none", "sema_up", "thread_yield", "sector failed"}

(***************************************************************************)
(* disk_done never counts to two: interrupts left over from an earlier     *)
(* multi-sector command may come at any time, yet sema_up's ASSERT(value   *)
(* == 0) holds because expecting_intr admits one of them per command.      *)
(***************************************************************************)
DiskDoneIsBinary == halt # "sema_up"

(***************************************************************************)
(* Data move only when the disk asks for them, in the direction of the     *)
(* request at hand, even when an early interrupt ended the wait.           *)
(***************************************************************************)
TransferWhenReady ==
    \A t \in Threads : halt = "none" /\ at[t] = "transfer" =>
        disk = (IF op[t] = "read" THEN "read_ready" ELSE "write_ready")

(***************************************************************************)
(* As long as commands are of one sector every interrupt is answered by    *)
(* the wait it belongs to: the next command finds the disk idle, no        *)
(* interrupt latched and disk_done at 0.                                   *)
(***************************************************************************)
CommandOnIdleDisk ==
    \A t \in Threads : halt = "none" /\ ~multi /\ at[t] = "outb" =>
        disk = "idle" /\ ~irq /\ done = 0

(***************************************************************************)
(* No request hangs: it completes, or the kernel panics.  In particular an *)
(* interrupt that comes before the thread reaches sema_down is not lost.   *)
(***************************************************************************)
RequestEnds ==
    \A t \in Threads : at[t] # "out" ~> (at[t] = "out" \/ halt # "none")
=============================================================================
