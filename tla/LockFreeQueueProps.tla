-------------------------- MODULE LockFreeQueueProps --------------------------
(***************************************************************************)
(* What the users of LockFreeQueue rely on, and the inductive invariant    *)
(* that explains why it holds when the store to tail is the last one of a  *)
(* push() to be seen.                                                      *)
(***************************************************************************)
EXTENDS LockFreeQueue

\* The rank of the newest node that exists, linked or not.
Built == IF node = NoAddr THEN pushed ELSE pushed + 1

\* Type invariant: every field holds a value its C++ type and the code give it.
TypeOK ==
    /\ live \subseteq Addr
    /\ value \in [Addr -> Nat]
    /\ next \in [Addr -> Addr \cup {NoAddr}]
    /\ head \in Addr
    /\ tail \in Addr
    /\ node \in Addr \cup {NoAddr}
    /\ preHead \in Addr \cup {NoAddr}
    /\ unseen \subseteq Stores
    /\ pc \in {"idle", "read", "advance", "free"}
    /\ e \in Nat
    /\ pushed \in Nat
    /\ popped \in Nat
    /\ at \in [0..Built -> Addr]

\* No thread touches a node that is null or was deleted: not pop() through
\* head->next, not push() through its old tail, although the two hold the
\* same node whenever the queue is empty.
NoBadAccess ==
    /\ pc \in {"read", "advance"} => head \in live /\ next[head] \in live
    /\ "next" \in unseen => at[pushed] \in live

\* Every allocated node is the dummy, an item still queued, the one under
\* construction or the one about to be deleted: a queue that runs for the
\* life of the robot, 1000 messages a second, leaks none.
NoLeak ==
    Cardinality(live) = (Built - popped) + (IF pc = "free" THEN 2 ELSE 1)

-----------------------------------------------------------------------------
(* The inductive invariant *)

\* head and tail delimit an interval of ranks, and e follows head.
Window ==
    /\ popped <= pushed
    /\ pc \in {"read", "advance"} => popped < pushed
    /\ head = at[popped]
    /\ tail = at[pushed]
    /\ e = IF pc = "advance" THEN popped + 1 ELSE popped

\* The allocated nodes are those of the interval, without repetition.
Heap ==
    /\ live = {at[k] : k \in popped..Built}
              \cup (IF pc = "free" THEN {preHead} ELSE {})
    /\ \A i, j \in popped..Built : at[i] = at[j] => i = j
    /\ pc = "free" => preHead \in Addr /\ \A k \in popped..Built : at[k] # preHead

\* They are linked in order and hold their items.
Linked ==
    /\ \A k \in popped..(pushed - 1) : next[at[k]] = at[k + 1]
    /\ \A k \in (popped + 1)..pushed : value[at[k]] = k

\* The node under construction is the next one, and tail is stored last.
Building ==
    /\ (node = NoAddr) <=> (unseen = {})
    /\ unseen # {} =>
        /\ "tail" \in unseen
        /\ node = at[pushed + 1]
        /\ "value" \notin unseen => value[node] = pushed + 1
        /\ "next" \notin unseen => next[at[pushed]] = node

\* The strengthening of NoBadAccess that every step preserves.
QueueInv == TypeOK /\ Window /\ Heap /\ Linked /\ Building

-----------------------------------------------------------------------------
(* The promise to the users *)

\* push() takes effect with the store to tail, pop() when it reads the value.
Fifo == INSTANCE FifoQueue WITH
            put <- pushed,
            got <- IF pc = "advance" THEN popped + 1 ELSE popped,
            item <- e

\* The linked list run by two unsynchronised threads is a FIFO queue: no
\* message of the EtherCAT thread is lost, repeated or published out of order.
ImplementsFifo == Fifo!Spec
=============================================================================
