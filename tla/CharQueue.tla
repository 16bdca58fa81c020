----------------------------- MODULE CharQueue -----------------------------
(***************************************************************************)
(* What the keyboard buffer promises its readers: characters come out in   *)
(* the order they were typed, none twice, and one is lost only when it is  *)
(* typed while Capacity of them are waiting to be read.                    *)
(***************************************************************************)
EXTENDS Naturals, Sequences

CONSTANTS Chars, Capacity

VARIABLE queue

Init == queue = << >>

Type(c) == Len(queue) < Capacity /\ queue' = Append(queue, c)
Read    == queue # << >> /\ queue' = Tail(queue)

Next == (\E c \in Chars : Type(c)) \/ Read

Spec == Init /\ [][Next]_queue
=============================================================================
