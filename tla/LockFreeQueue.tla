---------------------------- MODULE LockFreeQueue ----------------------------
(***************************************************************************)
(* common/util/LockFreeQueue.h: the linked list with a dummy head node     *)
(* that carries every message from the EtherCAT thread to the publishing   *)
(* thread (BodyControl::msgQueue), and every motor command from the ROS    *)
(* executor to the EtherCAT thread (MotorDevice::reqQueue).  The two       *)
(* threads run it without a lock and its fields are not atomic.            *)
(*                                                                         *)
(* The heap is modelled: new Node() may return any address that is not in  *)
(* use, delete gives it back, and a freed or null node can be seen being   *)
(* touched.  Each plain store of push() is a step of its own.  Items are   *)
(* named by their rank in push order (1, 2, ...).                          *)
(*                                                                         *)
(* The fields are plain pointers, so their visibility to the other thread  *)
(* is what the build makes of it.  A machine that keeps the order of one   *)
(* thread's stores (x86) shows them one by one as below; TailLast = FALSE  *)
(* models a build that may show the three stores of push() in any order.   *)
(***************************************************************************)
EXTENDS Naturals, FiniteSets

CONSTANTS
    Addr,       \* heap addresses a Node may have
    NoAddr,     \* nullptr
    MaxItems,   \* bound: number of push() calls explored
    TailLast    \* the store to tail becomes visible after the other two

ASSUME AddrAssumption ==
    /\ Addr # {}
    /\ NoAddr \notin Addr
    /\ TailLast \in BOOLEAN
    /\ MaxItems \in Nat

VARIABLES
    live,     \* addresses of allocated nodes
    value,    \* Node::value, a rank; 0 is what a fresh Node holds
    next,     \* Node::next
    head, tail,
    node,     \* push(): the node under construction, NoAddr between calls
    unseen,   \* push(): its stores the other thread cannot see yet
    pc,       \* pop(): where the popping thread is
    preHead,  \* pop(): the old dummy, to be deleted
    e,        \* pop(): the value read, 0 before the first
    pushed,   \* history: push() calls completed
    popped,   \* history: times head was advanced
    at        \* history: at[k] is the node that was built for item k

pushVars == <<node, unseen, pushed, tail>>
popVars  == <<head, pc, preHead, e, popped>>
vars == <<live, value, next, pushVars, popVars, at>>

Stores == {"value", "next", "tail"}

\* LockFreeQueue(): head = tail = new Node().
Init ==
    /\ \E dummy \in Addr :
        /\ live = {dummy}
        /\ head = dummy
        /\ tail = dummy
        /\ at = [k \in {0} |-> dummy]
    /\ value = [a \in Addr |-> 0]
    /\ next = [a \in Addr |-> NoAddr]
    /\ node = NoAddr
    /\ unseen = {}
    /\ pc = "idle"
    /\ preHead = NoAddr
    /\ e = 0
    /\ pushed = 0
    /\ popped = 0

-----------------------------------------------------------------------------
(* push(e), by the producing thread *)

\* auto node = new Node(): a fresh node has next = nullptr and no value yet.
NewNode ==
    /\ node = NoAddr
    /\ pushed < MaxItems
    /\ \E a \in Addr \ live :
        /\ node' = a
        /\ live' = live \cup {a}
        /\ value' = [value EXCEPT ![a] = 0]
        /\ next' = [next EXCEPT ![a] = NoAddr]
        /\ at' = [k \in 0..(pushed + 1) |-> IF k = pushed + 1 THEN a ELSE at[k]]
    /\ unseen' = Stores
    /\ UNCHANGED <<tail, pushed, popVars>>

\* One store of push() becomes visible; with the last one the call is over.
Reveal(s) ==
    /\ s \in unseen
    /\ unseen' = unseen \ {s}
    /\ IF unseen = {s}
       THEN node' = NoAddr /\ pushed' = pushed + 1
       ELSE UNCHANGED <<node, pushed>>

\* node->value = e
StoreValue ==
    /\ Reveal("value")
    /\ value' = [value EXCEPT ![node] = pushed + 1]
    /\ UNCHANGED <<live, next, tail, popVars, at>>

\* tail->next = node; the producer reads back its own last store to tail.
StoreNext ==
    /\ Reveal("next")
    /\ next' = [next EXCEPT ![at[pushed]] = node]
    /\ UNCHANGED <<live, value, tail, popVars, at>>

\* Mistake: tail moves to a node that may not be linked yet.
MayStoreTailEarly == TRUE

\* The store to tail waits for the other two unless the build reorders it.
MayStoreTail == TailLast => unseen = {"tail"}

\* tail = node
StoreTail ==
    /\ MayStoreTail
    /\ Reveal("tail")
    /\ tail' = node
    /\ UNCHANGED <<live, value, next, popVars, at>>

-----------------------------------------------------------------------------
(* empty() and pop(), by the consuming thread *)

\* Mistake: an item whose node is linked counts although tail is still behind.
EmptyByLink == next[head] = NoAddr

\* empty(): pop() throws when it holds, every caller asks first and retries.
Empty == head = tail

PollEmpty ==
    /\ pc = "idle"
    /\ Empty
    /\ UNCHANGED vars

\* The test of pop() succeeds.
Enter ==
    /\ pc = "idle"
    /\ ~Empty
    /\ pc' = "read"
    /\ UNCHANGED <<live, value, next, pushVars, head, preHead, e, popped, at>>

\* auto e = head->next->value, when head->next can be dereferenced.
ReadValue ==
    /\ pc = "read"
    /\ next[head] # NoAddr
    /\ e' = value[next[head]]
    /\ pc' = "advance"
    /\ UNCHANGED <<live, value, next, pushVars, head, preHead, popped, at>>

\* auto preHead = head; head = head->next
Advance ==
    /\ pc = "advance"
    /\ preHead' = head
    /\ head' = next[head]
    /\ popped' = popped + 1
    /\ pc' = "free"
    /\ UNCHANGED <<live, value, next, pushVars, e, at>>

\* Mistake: the old dummy is never deleted.
FreeNothing ==
    /\ pc = "free"
    /\ preHead' = NoAddr
    /\ pc' = "idle"
    /\ UNCHANGED <<live, value, next, pushVars, head, e, popped, at>>

\* delete preHead; return e
Free ==
    /\ pc = "free"
    /\ live' = live \ {preHead}
    /\ preHead' = NoAddr
    /\ pc' = "idle"
    /\ UNCHANGED <<value, next, pushVars, head, e, popped, at>>

Push == NewNode \/ StoreValue \/ StoreNext \/ StoreTail
Pop  == Enter \/ ReadValue \/ Advance \/ Free

Next == Push \/ Pop \/ PollEmpty

\* The publishing thread and the EtherCAT thread loop for ever over their
\* queue, and a push() that has begun runs to its end; nobody has to push.
Fairness == WF_vars(Pop) /\ WF_vars(StoreValue \/ StoreNext \/ StoreTail)

Spec == Init /\ [][Next]_vars /\ Fairness
=============================================================================
