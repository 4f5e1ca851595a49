----------------------------- MODULE FifoQueue -----------------------------
(***************************************************************************)
(* What LockFreeQueue<T> (common/util/LockFreeQueue.h) promises to the     *)
(* code that uses it: an unbounded FIFO between one pushing thread and one *)
(* popping thread.  Items are named by their rank in push order, so the    *)
(* content is always an interval of ranks: everything pushed is delivered  *)
(* once, in order, and nothing else is.                                    *)
(***************************************************************************)
EXTENDS Naturals

VARIABLES
    put,    \* number of push() calls that have taken effect
    got,    \* number of pop() calls that have taken effect
    item    \* rank of the item the last pop() returned, 0 before the first

vars == <<put, got, item>>

Init == put = 0 /\ got = 0 /\ item = 0

\* push(e) takes effect.
Put == put' = put + 1 /\ UNCHANGED <<got, item>>

\* pop() takes effect on the oldest item that was not delivered yet.
Get ==
    /\ got < put
    /\ got' = got + 1
    /\ item' = got + 1
    /\ UNCHANGED put

Next == Put \/ Get

Spec == Init /\ [][Next]_vars
=============================================================================
