-------------------------- MODULE RequestPathProofs --------------------------
(***************************************************************************)
(* Proofs about the way of a request: the lock-free queue it waits in,     *)
(* safe for any heap and any number of items given that the store to tail  *)
(* is the last store of push() to become visible; the dispatch of frames,  *)
(* for any gateways, devices, modes, order of registration and delay of    *)
(* the answers, who is heard included; and the hand's device on it, for    *)
(* any commands: it is a CommandStream, which ends every command.          *)
(***************************************************************************)
EXTENDS LockFreeQueueProps, HandDeviceProps, FiniteSetTheorems, SequenceTheorems,
        WellFoundedInduction, TLAPS

-----------------------------------------------------------------------------
(* The queue *)

\* The constructor establishes the invariant.
LEMMA InitInv == Init => QueueInv
<1> SUFFICES ASSUME Init PROVE QueueInv
  OBVIOUS
<1> USE AddrAssumption
<1>1. PICK dummy \in Addr : /\ live = {dummy}
                            /\ head = dummy
                            /\ tail = dummy
                            /\ at = [k \in {0} |-> dummy]
  BY DEF Init
<1>2. Built = 0 /\ node = NoAddr /\ pushed = 0 /\ popped = 0 /\ unseen = {}
  BY DEF Init, Built
<1>3. 0..0 = {0}
  OBVIOUS
<1>4. TypeOK
  BY <1>1, <1>2, <1>3 DEF Init, TypeOK, Stores
<1>5. Window /\ Heap /\ Linked /\ Building
  BY <1>1, <1>2, <1>3 DEF Init, Window, Heap, Linked, Building
<1> QED
  BY <1>4, <1>5 DEF QueueInv

\* Allocating a node keeps the queue as it is.
LEMMA NewNodeInv == ASSUME QueueInv, NewNode PROVE QueueInv'
<1> USE AddrAssumption
<1>1. PICK a \in Addr \ live :
        /\ node' = a
        /\ live' = live \cup {a}
        /\ value' = [value EXCEPT ![a] = 0]
        /\ next' = [next EXCEPT ![a] = NoAddr]
        /\ at' = [k \in 0..(pushed + 1) |-> IF k = pushed + 1 THEN a ELSE at[k]]
  BY DEF NewNode
<1>2. node = NoAddr /\ unseen = {} /\ unseen' = Stores /\ Built = pushed
  BY DEF NewNode, QueueInv, Building, Built
<1>3. UNCHANGED <<head, tail, pc, preHead, e, pushed, popped>>
  BY DEF NewNode, popVars
<1>4. Built' = pushed + 1
  BY <1>1, <1>3 DEF Built
<1>5. pushed \in Nat /\ popped \in Nat /\ popped <= pushed
  BY DEF QueueInv, TypeOK, Window
<1>6. at'[pushed + 1] = a /\ \A k \in 0..pushed : at'[k] = at[k] /\ at[k] \in Addr
  BY <1>1, <1>2, <1>5 DEF QueueInv, TypeOK
<1>7. \A k \in popped..pushed : at[k] \in live
  BY <1>2 DEF QueueInv, Heap
<1>8. TypeOK'
  BY <1>1, <1>2, <1>3, <1>4, <1>5 DEF QueueInv, TypeOK
<1>9. Window'
  BY <1>3, <1>5, <1>6 DEF QueueInv, Window
<1>10. Heap'
  <2>1. {at'[k] : k \in popped..(pushed + 1)} = {at[k] : k \in popped..pushed} \cup {a}
    BY <1>5, <1>6
  <2>2. live' = {at'[k] : k \in popped..(pushed + 1)}
                \cup (IF pc = "free" THEN {preHead} ELSE {})
    BY <1>1, <1>2, <2>1 DEF QueueInv, Heap
  <2>3. \A i, j \in popped..(pushed + 1) : at'[i] = at'[j] => i = j
    BY <1>1, <1>2, <1>5, <1>6, <1>7 DEF QueueInv, Heap
  <2>4. pc = "free" => /\ preHead \in Addr
                       /\ \A k \in popped..(pushed + 1) : at'[k] # preHead
    <3>1. pc = "free" => preHead \in live /\ preHead \in Addr
      BY DEF QueueInv, Heap
    <3> QED
      BY <1>1, <1>2, <1>5, <1>6, <3>1 DEF QueueInv, Heap
  <2> QED
    BY <1>3, <1>4, <2>2, <2>3, <2>4 DEF Heap
<1>11. Linked'
  BY <1>1, <1>3, <1>5, <1>6, <1>7 DEF QueueInv, Linked, TypeOK
<1>12. Building'
  BY <1>1, <1>2, <1>3, <1>6 DEF Building, Stores
<1> QED
  BY <1>8, <1>9, <1>10, <1>11, <1>12 DEF QueueInv

\* Revealing a store ends the call exactly when it was the store to tail.
LEMMA RevealEnds ==
    ASSUME QueueInv, NEW s \in {"value", "next"}, Reveal(s)
    PROVE  /\ node' = node
           /\ pushed' = pushed
           /\ Built = pushed + 1
           /\ node = at[pushed + 1]
           /\ node \in live
           /\ node # at[pushed]
           /\ "tail" \in unseen'
<1>1. unseen # {s} /\ unseen # {} /\ "tail" \in unseen
  BY DEF Reveal, QueueInv, Building
<1>2. Built = pushed + 1 /\ node = at[pushed + 1]
  BY <1>1 DEF QueueInv, Building, Built
<1>3. pushed \in Nat /\ popped \in Nat /\ popped <= pushed
  BY DEF QueueInv, TypeOK, Window
<1>4. node \in live
  BY <1>2, <1>3 DEF QueueInv, Heap
<1>5. node # at[pushed]
  BY <1>2, <1>3 DEF QueueInv, Heap
<1> QED
  BY <1>1, <1>2, <1>4, <1>5 DEF Reveal

\* Writing the value of the new node keeps the queued items.
LEMMA StoreValueInv == ASSUME QueueInv, StoreValue PROVE QueueInv'
<1>1. /\ node' = node /\ pushed' = pushed /\ Built = pushed + 1
      /\ node = at[pushed + 1] /\ node \in live /\ "tail" \in unseen'
      /\ unseen' = unseen \ {"value"}
  BY RevealEnds DEF StoreValue, Reveal
<1>2. /\ UNCHANGED <<live, next, head, tail, pc, preHead, e, popped, at>>
      /\ value' = [value EXCEPT ![node] = pushed + 1]
  BY DEF StoreValue, popVars
<1>3. pushed \in Nat /\ popped \in Nat /\ popped <= pushed /\ node \in Addr
  BY <1>1 DEF QueueInv, TypeOK, Window
<1>4. Built' = Built
  BY <1>1 DEF Built
<1>5. TypeOK'
  BY <1>1, <1>2, <1>3, <1>4 DEF QueueInv, TypeOK
<1>6. Window' /\ Heap'
  BY <1>1, <1>2, <1>4 DEF QueueInv, Window, Heap
<1>7. \A k \in popped..pushed : at[k] # node
  BY <1>1, <1>3 DEF QueueInv, Heap
<1>8. Linked'
  BY <1>1, <1>2, <1>3, <1>7 DEF QueueInv, Linked, TypeOK
<1>9. Building'
  BY <1>1, <1>2, <1>3 DEF QueueInv, Building, TypeOK
<1> QED
  BY <1>5, <1>6, <1>8, <1>9 DEF QueueInv

\* Linking the new node changes no link pop() may follow.
LEMMA StoreNextInv == ASSUME QueueInv, StoreNext PROVE QueueInv'
<1>1. /\ node' = node /\ pushed' = pushed /\ Built = pushed + 1
      /\ node = at[pushed + 1] /\ node \in live /\ "tail" \in unseen'
      /\ unseen' = unseen \ {"next"}
  BY RevealEnds DEF StoreNext, Reveal
<1>2. /\ UNCHANGED <<live, value, head, tail, pc, preHead, e, popped, at>>
      /\ next' = [next EXCEPT ![at[pushed]] = node]
  BY DEF StoreNext, popVars
<1>3. pushed \in Nat /\ popped \in Nat /\ popped <= pushed /\ node \in Addr
  BY <1>1 DEF QueueInv, TypeOK, Window
<1>4. Built' = Built
  BY <1>1 DEF Built
<1>5. TypeOK'
  BY <1>1, <1>2, <1>3, <1>4 DEF QueueInv, TypeOK
<1>6. Window' /\ Heap'
  BY <1>1, <1>2, <1>4 DEF QueueInv, Window, Heap
<1>7. \A k \in popped..(pushed - 1) : at[k] # at[pushed]
  BY <1>1, <1>3 DEF QueueInv, Heap
<1>8. Linked'
  BY <1>1, <1>2, <1>3, <1>7 DEF QueueInv, Linked, TypeOK
<1>9. Building'
  BY <1>1, <1>2, <1>3 DEF QueueInv, Building, TypeOK
<1> QED
  BY <1>5, <1>6, <1>8, <1>9 DEF QueueInv

\* The last store publishes a node that is linked and holds its item.
LEMMA StoreTailInv == ASSUME TailLast, QueueInv, StoreTail PROVE QueueInv'
<1>1. unseen = {"tail"} /\ unseen' = {} /\ node' = NoAddr /\ pushed' = pushed + 1
  BY DEF StoreTail, MayStoreTail, Reveal
<1>2. /\ UNCHANGED <<live, value, next, head, pc, preHead, e, popped, at>>
      /\ tail' = node
  BY DEF StoreTail, popVars
<1>3. pushed \in Nat /\ popped \in Nat /\ popped <= pushed
  BY DEF QueueInv, TypeOK, Window
<1>4. /\ node = at[pushed + 1] /\ node # NoAddr
      /\ value[node] = pushed + 1 /\ next[at[pushed]] = node
  BY <1>1 DEF QueueInv, Building
<1>5. Built = pushed + 1 /\ Built' = Built
  BY <1>1, <1>4 DEF Built
<1>6. TypeOK'
  BY <1>1, <1>2, <1>3, <1>4, <1>5, AddrAssumption DEF QueueInv, TypeOK
<1>7. Window' /\ Heap'
  BY <1>1, <1>2, <1>3, <1>4, <1>5 DEF QueueInv, Window, Heap
<1>8. Linked'
  BY <1>1, <1>2, <1>3, <1>4 DEF QueueInv, Linked
<1>9. Building'
  BY <1>1 DEF Building
<1> QED
  BY <1>6, <1>7, <1>8, <1>9 DEF QueueInv

\* pop() moves head along the links and frees the node it left behind.
LEMMA PopInv == ASSUME QueueInv, Pop PROVE QueueInv'
<1> USE AddrAssumption
<1>0. pushed \in Nat /\ popped \in Nat /\ popped <= pushed /\ Built \in {pushed, pushed + 1}
  BY DEF QueueInv, TypeOK, Window, Built
<1>1. CASE Enter
  <2>1. /\ UNCHANGED <<live, value, next, node, unseen, pushed, tail, head, preHead, e, popped, at>>
        /\ pc = "idle" /\ pc' = "read" /\ head # tail
    BY <1>1 DEF Enter, Empty, pushVars
  <2>2. popped < pushed
    BY <1>0, <2>1 DEF QueueInv, Window
  <2> QED
    BY <2>1, <2>2 DEF QueueInv, TypeOK, Window, Heap, Linked, Building, Built
<1>2. CASE ReadValue
  <2>1. /\ UNCHANGED <<live, value, next, node, unseen, pushed, tail, head, preHead, popped, at>>
        /\ pc = "read" /\ pc' = "advance" /\ e' = value[next[head]]
    BY <1>2 DEF ReadValue, pushVars
  <2>2. popped < pushed /\ head = at[popped]
    BY <2>1 DEF QueueInv, Window
  <2>3. e' = popped + 1
    BY <1>0, <2>1, <2>2 DEF QueueInv, Linked
  <2> QED
    BY <1>0, <2>1, <2>2, <2>3 DEF QueueInv, TypeOK, Window, Heap, Linked, Building, Built
<1>3. CASE Advance
  <2>1. /\ UNCHANGED <<live, value, next, node, unseen, pushed, tail, e, at>>
        /\ pc = "advance" /\ pc' = "free"
        /\ preHead' = head /\ head' = next[head] /\ popped' = popped + 1
    BY <1>3 DEF Advance, pushVars
  <2>2. popped < pushed /\ head = at[popped] /\ e = popped + 1 /\ tail = at[pushed]
    BY <2>1 DEF QueueInv, Window
  <2>3. head' = at[popped + 1]
    BY <1>0, <2>1, <2>2 DEF QueueInv, Linked
  <2>4. Built' = Built /\ \A k \in 0..Built : at[k] \in Addr
    BY <2>1 DEF Built, QueueInv, TypeOK
  <2>5. TypeOK'
    BY <1>0, <2>1, <2>2, <2>3, <2>4 DEF QueueInv, TypeOK
  <2>6. Window'
    BY <1>0, <2>1, <2>2, <2>3 DEF Window
  <2>7. Heap'
    <3>1. {at[k] : k \in popped..Built} = {at[k] : k \in (popped + 1)..Built} \cup {at[popped]}
      BY <1>0, <2>2
    <3> QED
      BY <1>0, <2>1, <2>2, <2>4, <3>1 DEF QueueInv, Heap
  <2>8. Linked' /\ Building'
    BY <1>0, <2>1 DEF QueueInv, Linked, Building
  <2> QED
    BY <2>5, <2>6, <2>7, <2>8 DEF QueueInv
<1>4. CASE Free
  <2>1. /\ UNCHANGED <<value, next, node, unseen, pushed, tail, head, e, popped, at>>
        /\ pc = "free" /\ pc' = "idle"
        /\ live' = live \ {preHead} /\ preHead' = NoAddr
    BY <1>4 DEF Free, pushVars
  <2>2. Built' = Built
    BY <2>1 DEF Built
  <2>3. TypeOK'
    BY <2>1, <2>2 DEF QueueInv, TypeOK
  <2>4. Heap'
    BY <2>1, <2>2 DEF QueueInv, Heap
  <2> QED
    BY <2>1, <2>2, <2>3, <2>4 DEF QueueInv, Window, Linked, Building
<1> QED
  BY <1>1, <1>2, <1>3, <1>4 DEF Pop

\* Every step of either thread preserves the invariant.
LEMMA NextInv == ASSUME TailLast, QueueInv, [Next]_vars PROVE QueueInv'
<1>1. CASE Push
  BY <1>1, NewNodeInv, StoreValueInv, StoreNextInv, StoreTailInv DEF Push
<1>2. CASE Pop
  BY <1>2, PopInv
<1>3. CASE UNCHANGED vars
  BY <1>3 DEF vars, pushVars, popVars, QueueInv, TypeOK, Window, Heap, Linked, Building, Built
<1>4. CASE PollEmpty
  BY <1>3, <1>4 DEF PollEmpty
<1> QED
  BY <1>1, <1>2, <1>3, <1>4 DEF Next

\* The queue keeps its invariant for every heap and number of items.
THEOREM QueueInvariant == ASSUME TailLast PROVE Spec => []QueueInv
<1>1. QueueInv /\ [Next]_vars => QueueInv'
  BY NextInv, TailLast
<1> QED
  BY InitInv, <1>1, PTL DEF Spec

\* Neither thread touches a null or deleted node (NoBadAccess): pop() deletes a
\* node only after head has left it, and head never passes the tail that
\* push() writes through.
THEOREM NodesAreLive == ASSUME TailLast PROVE Spec => []NoBadAccess
<1>1. QueueInv => NoBadAccess
  <2> SUFFICES ASSUME QueueInv PROVE NoBadAccess
    OBVIOUS
  <2>1. pushed \in Nat /\ popped \in Nat /\ popped <= pushed /\ Built \in {pushed, pushed + 1}
    BY DEF QueueInv, TypeOK, Window, Built
  <2>2. \A k \in popped..pushed : at[k] \in live
    BY <2>1 DEF QueueInv, Heap
  <2>3. ASSUME pc \in {"read", "advance"}
        PROVE  head \in live /\ next[head] \in live
    <3>1. popped < pushed /\ head = at[popped]
      BY <2>3 DEF QueueInv, Window
    <3> QED
      BY <2>1, <2>2, <3>1 DEF QueueInv, Linked
  <2> QED
    BY <2>1, <2>2, <2>3 DEF NoBadAccess
<1> QED
  BY <1>1, QueueInvariant, TailLast, PTL

\* No node leaks (NoLeak): the nodes that exist are counted by their ranks, which
\* go from the dummy's to that of the node under construction.
THEOREM NodesAreCounted == ASSUME TailLast PROVE Spec => []NoLeak
<1>1. QueueInv => NoLeak
  <2> SUFFICES ASSUME QueueInv PROVE NoLeak
    OBVIOUS
  <2> DEFINE Ranks == popped..Built
             Nodes == {at[k] : k \in Ranks}
             f == [k \in Ranks |-> at[k]]
  <2>1. popped \in Int /\ Built \in Int /\ popped <= Built
    BY DEF QueueInv, TypeOK, Window, Built
  <2>2. IsFiniteSet(Ranks) /\ Cardinality(Ranks) = Built - popped + 1
    BY <2>1, FS_Interval
  <2>3. f \in Surjection(Ranks, Nodes) /\ f \in Injection(Ranks, Nodes)
    BY DEF QueueInv, Heap, Surjection, Injection, IsInjective
  <2>4. IsFiniteSet(Nodes) /\ Cardinality(Nodes) = Built - popped + 1
    BY <2>2, <2>3, FS_Surjection
  <2>5. CASE pc = "free"
    <3>1. live = Nodes \cup {preHead} /\ preHead \notin Nodes
      BY <2>5 DEF QueueInv, Heap
    <3>2. Cardinality(Nodes \cup {preHead}) = Cardinality(Nodes) + 1
      <4> HIDE DEF Nodes
      <4> QED  BY <2>4, <3>1, FS_AddElement
    <3>3. Cardinality(live) = Built - popped + 2
      BY <2>1, <2>4, <3>1, <3>2
    <3> QED
      BY <2>1, <2>5, <3>3 DEF NoLeak
  <2>6. CASE pc # "free"
    <3>1. live = Nodes
      BY <2>6 DEF QueueInv, Heap
    <3> QED
      BY <2>4, <2>6, <3>1 DEF NoLeak
  <2> QED
    BY <2>5, <2>6
<1> QED
  BY <1>1, QueueInvariant, TailLast, PTL

\* The linked list implements the FIFO queue (ImplementsFifo): the store to tail
\* is the Put of the abstract queue, the read of the value its Get, and every
\* other step of the two threads leaves the abstract queue alone.
THEOREM QueueRefinesFifo == ASSUME TailLast PROVE Spec => ImplementsFifo
<1>1. Init => Fifo!Init
  BY DEF Init, Fifo!Init
<1>2. QueueInv /\ [Next]_vars => [Fifo!Next]_(Fifo!vars)
  <2> SUFFICES ASSUME QueueInv, [Next]_vars PROVE [Fifo!Next]_(Fifo!vars)
    OBVIOUS
  <2> USE DEF Fifo!Next, Fifo!vars, Fifo!Put, Fifo!Get
  <2>1. CASE NewNode
    BY <2>1 DEF NewNode, popVars
  <2>2. ASSUME NEW s \in {"value", "next"}, Reveal(s) PROVE pushed' = pushed
    BY <2>2, RevealEnds
  <2>3. CASE StoreValue
    BY <2>3, <2>2 DEF StoreValue, popVars
  <2>4. CASE StoreNext
    BY <2>4, <2>2 DEF StoreNext, popVars
  <2>5. CASE StoreTail
    BY <2>5, TailLast DEF StoreTail, MayStoreTail, Reveal, popVars
  <2>6. CASE Enter
    BY <2>6 DEF Enter, pushVars
  <2>7. CASE ReadValue
    <3>1. /\ pc = "read" /\ pc' = "advance" /\ e' = value[next[head]]
          /\ pushed' = pushed /\ popped' = popped
      BY <2>7 DEF ReadValue, pushVars
    <3>2. pushed \in Nat /\ popped \in Nat /\ popped < pushed /\ head = at[popped]
      BY <3>1 DEF QueueInv, TypeOK, Window
    <3>3. e' = popped + 1
      BY <3>1, <3>2 DEF QueueInv, Linked
    <3> QED
      BY <3>1, <3>2, <3>3
  <2>8. CASE Advance
    BY <2>8 DEF Advance, pushVars
  <2>9. CASE Free
    BY <2>9 DEF Free, pushVars
  <2>10. CASE UNCHANGED vars \/ PollEmpty
    BY <2>10 DEF PollEmpty, vars, pushVars, popVars
  <2> QED
    BY <2>1, <2>3, <2>4, <2>5, <2>6, <2>7, <2>8, <2>9, <2>10 DEF Next, Push, Pop
<1> QED
  BY <1>1, <1>2, QueueInvariant, TailLast, PTL DEF Spec, ImplementsFifo, Fifo!Spec

-----------------------------------------------------------------------------
(* The dispatch of frames *)

\* Nothing is sent or on its way when the program starts.
LEMMA DispatchInvInit == DispatchInit => DispatchInv
  <1> SUFFICES ASSUME DispatchInit PROVE DispatchInv
    OBVIOUS
  <1> USE DispatchAssumption DEF DispatchInit, NoFrames
  <1>1. /\ devices \in Seq(Entries)
        /\ slaveModes \in [Gateways -> Modes] /\ curTsMode \in [Gateways -> Kinds]
        /\ half \in {"load", "request", "exchange", "response"}
        /\ inputs \in Frames /\ line \in [1..Lag -> Frames] /\ given \in [Entries -> Slot]
    BY DEF Modes, Kinds, Frames, Slot
  <1>2. outputs \in [Gateways -> [ide : BOOLEAN, slot : [Passages -> Slot]]]
    BY DEF Slot
  <1>3. fresh \in BOOLEAN /\ calm \in BOOLEAN
    BY Zenon
  <1>4. DispatchTypes
    BY <1>1, <1>2, <1>3 DEF DispatchTypes
  <1>5. OwnIdentifier /\ NothingBeforeStart /\ AnswersOfOwnKind
    BY DEF OwnIdentifier, NothingBeforeStart, AnswersOfOwnKind
  <1>6. LineAlternates /\ InputsOfKind
    BY DEF LineAlternates, InputsOfKind, AllOf
  <1> QED  BY <1>4, <1>5, <1>6 DEF DispatchInv

\* Registration and start: the buffers are empty.
LEMMA DispatchInvLoad == DispatchInv /\ Load => DispatchInv'
  <1> SUFFICES ASSUME DispatchInv, Load PROVE DispatchInv'
    OBVIOUS
  <1> USE DEF DispatchInv
  <1>1. ASSUME NEW entry \in Entries, RegisterDevice(entry)
        PROVE  DispatchInv'
    <2>1. devices' \in Seq(Entries) /\ half' = "load"
          /\ UNCHANGED <<slaveModes, curTsMode, half, outputs, inputs, line, given, fresh, calm>>
      BY <1>1 DEF RegisterDevice, DispatchTypes
    <2>2. DispatchTypes'
      BY <2>1 DEF DispatchTypes
    <2>3. OwnIdentifier' /\ NothingBeforeStart' /\ AnswersOfOwnKind'
      BY <2>1 DEF OwnIdentifier, NothingBeforeStart, AnswersOfOwnKind
    <2>4. LineAlternates' /\ InputsOfKind'
      BY <2>1 DEF LineAlternates, InputsOfKind, AllOf, KindBefore
    <2> QED  BY <2>2, <2>3, <2>4
  <1>2. ASSUME NEW m \in [Gateways -> Modes], StartBus(m)
        PROVE  DispatchInv'
    <2>1. /\ slaveModes' = m /\ curTsMode' = [g \in Gateways |-> "standard"] /\ half' = "request"
          /\ UNCHANGED <<devices, outputs, inputs, line, given, fresh, calm>>
          /\ half = "load"
      BY <1>2 DEF StartBus
    <2>2. line = [k \in 1..Lag |-> NoFrames] /\ inputs = NoFrames
          /\ given = [entry \in Entries |-> None]
      BY <2>1 DEF NothingBeforeStart
    <2>3. DispatchTypes'
      BY <2>1 DEF DispatchTypes, Kinds
    <2>4. OwnIdentifier' /\ NothingBeforeStart' /\ AnswersOfOwnKind'
      BY <2>1, <2>2 DEF OwnIdentifier, NothingBeforeStart, AnswersOfOwnKind
    <2>5. LineAlternates' /\ InputsOfKind'
      BY <2>1, <2>2 DEF LineAlternates, InputsOfKind, AllOf, NoFrames
    <2> QED  BY <2>3, <2>4, <2>5
  <1> QED  BY <1>1, <1>2 DEF Load

\* The content of a slot is what a device of the gateway's kind wrote.
LEMMA ContentIsServed ==
  ASSUME DispatchTypes, NEW pick \in Picks, Possible(pick),
         NEW g \in Gateways, NEW p \in Passages
  PROVE  /\ Content(g, p, pick) \in Slot
         /\ Content(g, p, pick) # None => Content(g, p, pick).from.mode = Kind(g)
  <1> DEFINE writers == {i \in DOMAIN devices : /\ devices[i].gateway = g
                                                /\ devices[i].passage = p
                                                /\ Writes(i, pick)}
  <1>1. CASE writers = {}
    BY <1>1 DEF Content, Slot
  <1>2. CASE writers # {}
    <2> DEFINE i == CHOOSE i \in writers : TRUE
               entry == devices[i]
    <2>1. i \in DOMAIN devices /\ entry.gateway = g /\ Writes(i, pick)
      BY <1>2
    <2>2. entry \in Entries /\ Registered(entry) /\ pick[entry] # None
      <3>1. \A j \in DOMAIN devices : devices[j] \in Entries
        BY DEF DispatchTypes
      <3>2. Registered(entry)
        BY <2>1 DEF Registered
      <3> QED  BY <2>1, <3>1, <3>2 DEF Writes
    <2>3. Served(entry) /\ pick[entry] \in Asks
      BY <2>2 DEF Possible, Picks
    <2>4. Content(g, p, pick) = [from |-> entry, ask |-> pick[entry]]
      BY <1>2 DEF Content
    <2>5. entry.mode = Kind(g)
      BY <2>1, <2>3 DEF Served
    <2> HIDE DEF entry
    <2> QED  BY <2>2, <2>3, <2>4, <2>5 DEF Slot
  <1> QED  BY <1>1, <1>2

\* The requests of a cycle are of the kind the gateway serves.
LEMMA DispatchInvRequests ==
  ASSUME DispatchInv, NEW pick \in Picks, GetRequests(pick)
  PROVE  DispatchInv'
  <1> USE DEF DispatchInv
  <1>1. /\ half = "request" /\ half' = "exchange" /\ Possible(pick)
        /\ outputs' = [g \in Gateways |-> [ide  |-> Kind(g) = "extended",
                                           slot |-> [p \in Passages |-> Content(g, p, pick)]]]
        /\ given' = [entry \in Entries |-> None]
        /\ UNCHANGED <<devices, slaveModes, curTsMode, inputs, line, fresh, calm>>
    BY DEF GetRequests
  <1>2. \A g \in Gateways : [p \in Passages |-> Content(g, p, pick)] \in [Passages -> Slot]
    BY <1>1, ContentIsServed
  <1>3. \A g \in Gateways : (Kind(g) = "extended") \in BOOLEAN
    BY Zenon
  <1>4. outputs' \in [Gateways -> [ide : BOOLEAN, slot : [Passages -> Slot]]]
    BY <1>1, <1>2, <1>3
  <1>5. given' \in [Entries -> Slot]
    BY <1>1 DEF Slot
  <1>6. DispatchTypes'
    BY <1>1, <1>4, <1>5 DEF DispatchTypes
  <1>7. OwnIdentifier'
    <2> SUFFICES ASSUME NEW g \in Gateways
                 PROVE  (outputs'[g].ide <=> Kind(g)' = "extended")
                        /\ AllOf(outputs'[g].slot, Kind(g)')
      BY DEF OwnIdentifier, AllOf
    <2>1. Kind(g)' = Kind(g)
      BY <1>1 DEF Kind
    <2>2. outputs'[g].ide <=> Kind(g) = "extended"
      BY <1>1
    <2>3. \A p \in Passages : outputs'[g].slot[p] = Content(g, p, pick)
      BY <1>1
    <2>4. AllOf(outputs'[g].slot, Kind(g))
      BY <1>1, <2>3, ContentIsServed DEF AllOf
    <2> QED  BY <2>1, <2>2, <2>4
  <1>8. LineAlternates' /\ InputsOfKind' /\ NothingBeforeStart' /\ AnswersOfOwnKind'
    BY <1>1 DEF LineAlternates, InputsOfKind, NothingBeforeStart, AnswersOfOwnKind, AllOf, KindBefore
  <1> QED  BY <1>6, <1>7, <1>8

\* The turns of a gateway alternate.
LEMMA Turns ==
  ASSUME slaveModes \in [Gateways -> Modes], curTsMode \in [Gateways -> Kinds],
         UNCHANGED slaveModes, curTsMode' = [g \in Gateways |-> NextTurn(g)],
         NEW g \in Gateways
  PROVE  /\ KindBefore(g, 0) = Kind(g)
         /\ \A n \in Nat : KindBefore(g, n + 1)' = KindBefore(g, n)
  <1>1. \A n \in Nat : Even(n + 1) <=> ~Even(n)
    BY DEF Even
  <1>2. Even(0)
    BY DEF Even
  <1>3. curTsMode[g] \in {"standard", "extended"}
    BY DEF Kinds
  <1>4. slaveModes[g] = "sharing" => curTsMode'[g] = Opposite(curTsMode[g])
    BY DEF NextTurn, Opposite
  <1>5. Opposite(Opposite(curTsMode[g])) = curTsMode[g]
    BY <1>3 DEF Opposite
  <1> QED  BY <1>1, <1>2, <1>4, <1>5 DEF KindBefore, Kind

\* The answers to a request are of its kind.
LEMMA AnswersOfTurn ==
  ASSUME DispatchInv, half = "exchange"
  PROVE  Answers \in Frames /\ \A g \in Gateways : AllOf(Answers[g], Kind(g))
  <1>1. Answers \in Frames
    BY DEF DispatchInv, DispatchTypes, Answers, Frames, Slot
  <1>2. \A g \in Gateways, p \in Passages :
            Answers[g][p] # None => Answers[g][p] = outputs[g].slot[p]
    BY DEF Answers
  <1> QED  BY <1>1, <1>2 DEF DispatchInv, OwnIdentifier, AllOf

\* What is forwarded keeps its turn.
LEMMA ForwardKeepsTurns ==
  ASSUME DispatchInv, half = "exchange", half' = "response", NEW new, Forward(new),
         new = Answers \/ new = NoFrames, UNCHANGED <<slaveModes, curTsMode>>
  PROVE  LineAlternates' /\ line' \in [1..Lag -> Frames]
  <1> USE DispatchAssumption
  <1>1. new \in Frames /\ \A g \in Gateways : AllOf(new[g], Kind(g))
    BY AnswersOfTurn DEF NoFrames, Frames, Slot, AllOf
  <1>2. \A k \in 1..Lag : line'[k] = IF k = 1 THEN new ELSE line[k - 1]
    BY DEF Forward
  <1>3. line' \in [1..Lag -> Frames]
    BY <1>1 DEF Forward, DispatchInv, DispatchTypes
  <1>4. ASSUME NEW g \in Gateways, NEW k \in 1..Lag
        PROVE  AllOf(line'[k][g], KindBefore(g, k - 1))
    <2>1. CASE k = 1
      <3>1. KindBefore(g, k - 1) = Kind(g)
        BY <2>1 DEF KindBefore, Kind, Even
      <3> QED  BY <1>1, <1>2, <2>1, <3>1
    <2>2. CASE k # 1
      <3>1. k - 1 \in 1..Lag
        BY <2>2
      <3> QED  BY <1>2, <2>2, <3>1 DEF DispatchInv, LineAlternates
    <2> QED  BY <2>1, <2>2
  <1>5. \A g \in Gateways, k \in 1..Lag : KindBefore(g, k - 1)' = KindBefore(g, k - 1)
    BY DEF KindBefore
  <1> QED  BY <1>3, <1>4, <1>5 DEF LineAlternates, AllOf

\* An exchange puts the answers of the turn Lag cycles ago into the inputs, and a
\* lost one leaves them alone.
LEMMA DispatchInvExchange ==
  ASSUME DispatchInv, Exchange \/ \E reached \in BOOLEAN : LoseExchange(reached)
  PROVE  DispatchInv'
  <1> USE DispatchAssumption
  <1>1. /\ half = "exchange" /\ half' = "response"
        /\ UNCHANGED <<devices, slaveModes, curTsMode, outputs, given, calm>>
    BY DEF Exchange, LoseExchange
  <1>2. PICK new : Forward(new) /\ (new = Answers \/ new = NoFrames)
    BY DEF Exchange, LoseExchange
  <1>3. LineAlternates' /\ line' \in [1..Lag -> Frames]
    BY <1>1, <1>2, ForwardKeepsTurns
  <1>4. \/ inputs' = line[Lag] /\ fresh'
        \/ inputs' = inputs /\ ~fresh'
    BY DEF Exchange, LoseExchange
  <1>5. inputs' \in Frames
    BY <1>4 DEF DispatchInv, DispatchTypes
  <1>6. fresh' \in BOOLEAN
    BY Zenon DEF Exchange, LoseExchange
  <1>7. DispatchTypes'
    BY <1>1, <1>3, <1>5, <1>6 DEF DispatchInv, DispatchTypes
  <1>8. InputsOfKind'
    <2>1. \A g \in Gateways : AllOf(line[Lag][g], KindBefore(g, Lag))
      BY <1>1 DEF DispatchInv, LineAlternates
    <2>2. \A g \in Gateways : slaveModes[g] # "sharing" => AllOf(inputs[g], KindBefore(g, Lag))
      BY DEF DispatchInv, InputsOfKind
    <2>3. \A g \in Gateways : KindBefore(g, Lag)' = KindBefore(g, Lag)
      BY <1>1 DEF KindBefore
    <2> QED  BY <1>1, <1>4, <2>1, <2>2, <2>3 DEF InputsOfKind, AllOf
  <1>9. OwnIdentifier'
    BY <1>1 DEF DispatchInv, OwnIdentifier, AllOf, Kind
  <1>10. NothingBeforeStart' /\ AnswersOfOwnKind'
    BY <1>1 DEF NothingBeforeStart, AnswersOfOwnKind
  <1> QED  BY <1>3, <1>7, <1>8, <1>9, <1>10 DEF DispatchInv

\* A device is given the inputs when it is served: of its own kind, unless the
\* answers take an odd number of exchanges on a gateway that shares time.
LEMMA DispatchInvResponses == DispatchInv /\ SendResponses => DispatchInv'
  <1> SUFFICES ASSUME DispatchInv, SendResponses PROVE DispatchInv'
    OBVIOUS
  <1> USE DispatchAssumption
  <1>1. /\ half = "response" /\ half' = "request"
        /\ given' = [entry \in Entries |-> IF Registered(entry) /\ Served(entry)
                                       THEN inputs[entry.gateway][entry.passage] ELSE None]
        /\ curTsMode' = [g \in Gateways |-> NextTurn(g)]
        /\ UNCHANGED <<devices, slaveModes, outputs, inputs, line, fresh, calm>>
    BY DEF SendResponses
  <1>2. \A g \in Gateways : /\ KindBefore(g, 0) = Kind(g)
                            /\ \A n \in Nat : KindBefore(g, n + 1)' = KindBefore(g, n)
    BY <1>1, Turns DEF DispatchInv, DispatchTypes
  <1>3. \A entry \in Entries :
           entry.gateway \in Gateways /\ entry.passage \in Passages /\ entry.mode \in Kinds
    BY DEF DispatchAssumption, Entry
  <1>4. DispatchTypes'
    <2>1. given' \in [Entries -> Slot]
      BY <1>1, <1>3 DEF DispatchInv, DispatchTypes, Frames, Slot
    <2>2. curTsMode' \in [Gateways -> Kinds]
      BY <1>1 DEF DispatchInv, DispatchTypes, NextTurn, Kinds
    <2> QED  BY <1>1, <2>1, <2>2 DEF DispatchInv, DispatchTypes
  <1>5. LineAlternates'
    <2>1. \A k \in 1..Lag : k - 1 \in Nat /\ k - 1 + 1 = k
      BY DEF DispatchAssumption
    <2>2. \A g \in Gateways, k \in 1..Lag : KindBefore(g, k)' = KindBefore(g, k - 1)
      BY <1>2, <2>1
    <2> QED  BY <1>1, <2>2 DEF DispatchInv, LineAlternates, AllOf
  <1>6. InputsOfKind'
    BY <1>1 DEF DispatchInv, InputsOfKind, AllOf, KindBefore
  <1>7. AnswersOfOwnKind'
    <2> SUFFICES ASSUME NEW entry \in Entries, given'[entry] # None
                 PROVE  /\ slaveModes[entry.gateway] # "sharing" => given'[entry].from.mode = entry.mode
                        /\ slaveModes[entry.gateway] = "sharing" /\ fresh =>
                                (given'[entry].from.mode = entry.mode <=> Even(Lag))
      BY <1>1 DEF AnswersOfOwnKind
    <2>1. Served(entry) /\ given'[entry] = inputs[entry.gateway][entry.passage]
      BY <1>1
    <2>2. slaveModes[entry.gateway] # "sharing" \/ fresh =>
              given'[entry].from.mode = KindBefore(entry.gateway, Lag)
      BY <1>1, <1>3, <2>1 DEF DispatchInv, InputsOfKind, AllOf
    <2>3. Opposite(entry.mode) # entry.mode
      BY <1>3 DEF Kinds, Opposite
    <2> QED  BY <2>1, <2>2, <2>3 DEF KindBefore, Served, Kind
  <1>8. OwnIdentifier' /\ NothingBeforeStart'
    BY <1>1 DEF OwnIdentifier, NothingBeforeStart
  <1> QED  BY <1>4, <1>5, <1>6, <1>7, <1>8 DEF DispatchInv

\* All steps of the dispatch preserve its invariant.
LEMMA DispatchInvSteps == DispatchInv /\ [DispatchNext]_dispatchVars => DispatchInv'
  <1> SUFFICES ASSUME DispatchInv, [DispatchNext]_dispatchVars PROVE DispatchInv'
    OBVIOUS
  <1>1. CASE CalmsDown \/ UNCHANGED dispatchVars
    <2>1. UNCHANGED <<devices, slaveModes, curTsMode, half, outputs, inputs, line, given, fresh>>
      BY <1>1 DEF CalmsDown, dispatchVars
    <2>2. calm' \in BOOLEAN
      <3>1. calm \in BOOLEAN
        BY DEF DispatchInv, DispatchTypes
      <3> QED  BY <1>1, <3>1, Zenon DEF CalmsDown, dispatchVars
    <2> QED
      BY <2>1, <2>2 DEF DispatchInv, DispatchTypes, OwnIdentifier, LineAlternates, InputsOfKind,
                        NothingBeforeStart, AnswersOfOwnKind, AllOf, KindBefore, Kind
  <1> QED
    BY <1>1, DispatchInvLoad, DispatchInvRequests, DispatchInvExchange, DispatchInvResponses
       DEF DispatchNext, Cycle

-----------------------------------------------------------------------------
(* The hand's device *)

\* A query can only be the last frame of a command.
LEMMA FramesOfACommand ==
  ASSUME NEW c \in Commands
  PROVE  /\ FramesOf[c] \in Seq(FrameTags)
         /\ Len(FramesOf[c]) \in 1..8
         /\ \A i \in 1..Len(FramesOf[c]) : FramesOf[c][i] = "query" => i = Len(FramesOf[c])
         /\ c # "stop" => /\ FramesOf[c][Len(FramesOf[c])] = "query"
                          /\ \A i \in 1..Len(FramesOf[c]) : FramesOf[c][i] # "stop"
         /\ c = "stop" => Len(FramesOf[c]) = 1 /\ FramesOf[c][1] = "stop"
  <1>1. CASE c = "pos"
    <2>1. FramesOf[c] = <<"pos1", "pos2", "query">>
      BY <1>1 DEF FramesOf
    <2> QED  BY <1>1, <2>1 DEF FrameTags
  <1>2. CASE c = "motion"
    <2>1. FramesOf[c] = <<"halt", "set1", "set2", "set3", "set4", "set5", "start", "query">>
      BY <1>2 DEF FramesOf
    <2> QED  BY <1>2, <2>1 DEF FrameTags
  <1>3. CASE c = "stop"
    <2>1. FramesOf[c] = <<"stop">>
      BY <1>3 DEF FramesOf
    <2> QED  BY <1>3, <2>1 DEF FrameTags
  <1> QED  BY <1>1, <1>2, <1>3 DEF Commands

\* A list with a length is not empty.
LEMMA LengthOfNothing ==
  ASSUME NEW s, Len(s) # 0
  PROVE  s # <<>>
  OBVIOUS

\* A list that is not empty is its frames from the first to the last.
LEMMA WholeList ==
  ASSUME NEW S, NEW s \in Seq(S), Len(s) \in 1..8
  PROVE  1 \in 1..Len(s) /\ s = SubSeq(s, 1, Len(s))
  <1>1. 1 \in 1..Len(s)
    <2>1. \A m \in 1..8 : 1 \in 1..m
      OBVIOUS
    <2> QED  BY <2>1
  <1>2. SubSeq(s, 1, Len(s)) = s
    BY SubSeqFull, Zenon
  <1> QED  BY <1>1, <1>2

\* The frames of a list from one of them to the last: the first of them and the rest.
LEMMA RestOfList ==
  ASSUME NEW S, NEW s \in Seq(S), NEW n \in 1..Len(s)
  PROVE  LET rest == SubSeq(s, n, Len(s))
         IN  /\ rest # <<>> /\ Len(rest) = Len(s) - n + 1
             /\ Head(rest) = s[n] /\ Tail(rest) = SubSeq(s, n + 1, Len(s))
             /\ Len(Tail(rest)) = Len(s) - n
  <1>1. Head(SubSeq(s, n, Len(s))) = s[n] /\ Tail(SubSeq(s, n, Len(s))) = SubSeq(s, n + 1, Len(s))
    BY HeadTailOfSubSeq
  <1>2. \A i \in 1..Len(s) : s[i] \in S
    OBVIOUS
  <1>3. SubSeq(s, n, Len(s)) \in Seq(S) /\ Len(SubSeq(s, n, Len(s))) = Len(s) - n + 1
    <2>1. \A i \in n..Len(s) : s[i] \in S
      BY <1>2
    <2> QED  BY <2>1, SubSeqProperties
  <1>4. Len(SubSeq(s, n + 1, Len(s))) = Len(s) - n
    <2>1. \A i \in (n + 1)..Len(s) : s[i] \in S
      BY <1>2
    <2>2. n + 1 \in Int /\ Len(s) \in Int
      OBVIOUS
    <2>3. Len(SubSeq(s, n + 1, Len(s))) = IF n + 1 <= Len(s) THEN Len(s) - (n + 1) + 1 ELSE 0
      BY <2>1, <2>2, SubSeqProperties
    <2> QED  BY <2>3
  <1>5. SubSeq(s, n, Len(s)) # <<>>
    <2>1. Len(SubSeq(s, n, Len(s))) # 0
      BY <1>3
    <2> QED  BY <2>1, LengthOfNothing
  <1> QED  BY <1>1, <1>3, <1>4, <1>5

\* Variables that are Boolean stay so when they do not change.
LEMMA BooleansKept ==
  ASSUME HandTypes, ready' = ready, hit' = hit
  PROVE  ready' \in BOOLEAN /\ hit' \in BOOLEAN
  BY Zenon DEF HandTypes

\* Writing a frame: the next of the list, or the first of the next list.
LEMMA HandInvOnRequest ==
  ASSUME HandInv, half = "request", half' = "exchange", NEW pick, OnRequest(pick)
  PROVE  HandInv'
  <1> DEFINE list == IF TakesCommand THEN FramesOf[Head(cmdQueue)] ELSE FramesOf[current]
             n == IF TakesCommand THEN 1 ELSE Written + 1
             c == IF TakesCommand THEN Head(cmdQueue) ELSE current
  <1>1. /\ HandTypes /\ Counted /\ SlotUsed /\ NothingMixed /\ QueriedBetween
        /\ sent' = Head(ToSend) /\ curReqFrames' = Tail(ToSend)
        /\ cmdQueue' = IF TakesCommand THEN Tail(cmdQueue) ELSE cmdQueue
        /\ current' = c
        /\ since' = CASE Head(ToSend) = "query" -> 0
                      [] Head(ToSend) = "stop"  -> since
                      [] OTHER                  -> since + 1
        /\ UNCHANGED <<ready, accepted, got, hit, outcomes>>
    BY DEF OnRequest, HandInv
  <1>2. sent = "nothing"
    BY <1>1 DEF SlotUsed
  <1>3. curReqFrames = <<>> => current = "none" /\ got = <<>> /\ ~hit
    BY <1>1, <1>2 DEF SlotUsed
  <1>4. TakesCommand => Head(cmdQueue) \in Commands /\ Tail(cmdQueue) \in Seq(Commands)
                        /\ Len(cmdQueue) = Len(Tail(cmdQueue)) + 1
    BY <1>1 DEF HandTypes, TakesCommand
  <1>5. CASE curReqFrames = <<>> /\ cmdQueue = <<>>
    <2>1. ToSend = <<"query">> /\ ~TakesCommand
      BY <1>5 DEF ToSend, TakesCommand
    <2>2. sent' = "query" /\ curReqFrames' = <<>> /\ cmdQueue' = cmdQueue
          /\ current' = "none" /\ current = "none" /\ since' = 0
      BY <1>1, <1>3, <1>5, <2>1
    <2>3. hit' \in BOOLEAN /\ ready' \in BOOLEAN /\ hit' = hit
      BY <1>1, BooleansKept
    <2>4. HandTypes'
      <3>1. HandTypes /\ accepted' = accepted /\ got' = got /\ outcomes' = outcomes
        BY <1>1
      <3> QED  BY <2>2, <2>3, <3>1 DEF HandTypes, FrameTags
    <2>5. Counted' /\ QueriedBetween' /\ NothingMixed'
      BY <1>1, <2>2 DEF Counted, QueriedBetween, NothingMixed
    <2>6. SlotUsed'
      BY <1>1, <1>3, <1>5, <2>2, <2>3 DEF SlotUsed
    <2> QED  BY <2>4, <2>5, <2>6 DEF HandInv
  <1>6. CASE curReqFrames # <<>> \/ cmdQueue # <<>>
    <2>1. TakesCommand <=> curReqFrames = <<>>
      BY <1>6 DEF TakesCommand
    <2>2. c \in Commands /\ list = FramesOf[c]
      <3>1. CASE curReqFrames = <<>>
        BY <1>4, <2>1, <3>1
      <3>2. CASE curReqFrames # <<>>
        BY <1>1, <2>1, <3>2 DEF SlotUsed, HandTypes
      <3> QED  BY <3>1, <3>2
    <2>3. list \in Seq(FrameTags) /\ Len(list) \in 1..8
      BY <2>2, FramesOfACommand
    <2>4. n \in 1..Len(list) /\ ToSend = SubSeq(list, n, Len(list))
      <3>1. CASE curReqFrames = <<>>
        <4>1. ToSend = list /\ n = 1
          BY <2>1, <3>1 DEF ToSend
        <4>2. 1 \in 1..Len(list) /\ list = SubSeq(list, 1, Len(list))
          <5> HIDE DEF list
          <5> QED  BY <2>3, WholeList
        <4> HIDE DEF list, n
        <4> QED  BY <4>1, <4>2
      <3>2. CASE curReqFrames # <<>>
        <4>1. current # "none" /\ n = Written + 1 /\ list = FramesOf[current]
              /\ ToSend = curReqFrames
          BY <1>1, <2>1, <3>2 DEF SlotUsed, ToSend
        <4>2. Written \in 1..Len(list) /\ curReqFrames = SubSeq(list, Written + 1, Len(list))
          BY <1>1, <4>1 DEF NothingMixed
        <4>3. Written # Len(list)
          <5>1. SubSeq(list, Len(list) + 1, Len(list)) = <<>>
            BY <2>3, SubSeqEmpty
          <5> QED  BY <3>2, <4>2, <5>1
        <4>4. \A m \in Nat : \A w \in 1..m : w # m => w + 1 \in 1..m
          OBVIOUS
        <4>5. n \in 1..Len(list)
          BY <2>3, <4>1, <4>2, <4>3, <4>4
        <4> QED  BY <4>1, <4>2, <4>5
      <3> QED  BY <3>1, <3>2
    <2> HIDE DEF list, n, c
    <2>5. sent' = list[n] /\ curReqFrames' = SubSeq(list, n + 1, Len(list))
          /\ Len(curReqFrames') = Len(list) - n
      BY <1>1, <2>3, <2>4, RestOfList
    <2>6. Written' = n /\ FramesOf[current'] = list /\ current' # "none"
      <3>1. FramesOf[current'] = list /\ current' # "none"
        BY <1>1, <2>2 DEF Commands
      <3>2. Len(FramesOf[current']) - Len(curReqFrames') = n
        BY <2>3, <2>4, <2>5, <3>1
      <3> QED  BY <3>1, <3>2 DEF Written
    <2>7. list[n] \in FrameTags
      BY <2>3, <2>4
    <2>8. curReqFrames' \in Seq(FrameTags)
      <3>1. n + 1 \in Int /\ Len(list) \in Int /\ \A i \in (n + 1)..Len(list) : list[i] \in FrameTags
        BY <2>3, <2>4
      <3> QED  BY <2>5, <3>1, SubSeqProperties
    <2>9. HandTypes'
      <3>1. hit' = hit /\ ready' = ready
        BY <1>1
      <3>2. ready' \in BOOLEAN /\ hit' \in BOOLEAN
        BY <1>1, <3>1, BooleansKept
      <3>3. cmdQueue' \in Seq(Commands) /\ accepted' \in Nat
        BY <1>1, <1>4 DEF HandTypes
      <3>4. sent' \in FrameTags \cup {"nothing"} /\ current' \in Commands \cup {"none"}
        BY <1>1, <2>2, <2>5, <2>7
      <3>5. since' \in Nat
        BY <1>1 DEF HandTypes
      <3>6. got' \in Seq(FrameTags) /\ outcomes' \in Seq({"whole", "spoilt"})
        BY <1>1 DEF HandTypes
      <3> QED  BY <2>8, <3>2, <3>3, <3>4, <3>5, <3>6 DEF HandTypes
    <2>10. Counted'
      <3>1. CASE curReqFrames = <<>>
        BY <1>1, <1>3, <1>4, <2>1, <2>6, <3>1 DEF Counted, HandTypes
      <3>2. CASE curReqFrames # <<>>
        <4>1. current # "none" /\ cmdQueue' = cmdQueue
          BY <1>1, <2>1, <3>2 DEF SlotUsed
        <4> QED  BY <1>1, <2>6, <4>1 DEF Counted
      <3> QED  BY <3>1, <3>2
    <2>11. SlotUsed'
      BY <2>5, <2>6, <2>7 DEF SlotUsed, FrameTags
    <2>12. NothingMixed'
      <3>1. Exchanged' = n - 1
        BY <2>5, <2>6, <2>7 DEF Exchanged, FrameTags
      <3>2. got' = IF hit' THEN <<>> ELSE SubSeq(list, 1, n - 1)
        <4>1. CASE curReqFrames = <<>>
          <5>1. n = 1
            BY <2>1, <4>1 DEF n
          <5>2. SubSeq(list, 1, 0) = <<>>
            BY SubSeqEmpty
          <5> QED  BY <1>1, <1>3, <4>1, <5>1, <5>2
        <4>2. CASE curReqFrames # <<>>
          <5>1. current # "none" /\ n = Written + 1 /\ list = FramesOf[current]
            BY <1>1, <2>1, <4>2 DEF SlotUsed, n, list
          <5>2. Exchanged = Written /\ Written \in Nat
            BY <1>1, <1>2, <5>1 DEF Exchanged, NothingMixed
          <5>3. n - 1 = Exchanged
            BY <5>1, <5>2
          <5>4. got = IF hit THEN <<>> ELSE SubSeq(list, 1, n - 1)
            BY <1>1, <5>1, <5>3 DEF NothingMixed
          <5> QED  BY <1>1, <5>4
        <4> QED  BY <4>1, <4>2
      <3> QED  BY <2>4, <2>5, <2>6, <3>1, <3>2 DEF NothingMixed
    <2>13. QueriedBetween'
      <3>1. since = n - 1
        <4>1. CASE curReqFrames = <<>>
          BY <1>1, <2>1, <4>1 DEF QueriedBetween, n
        <4>2. CASE curReqFrames # <<>>
          <5>1. current # "none" /\ n = Written + 1
            BY <1>1, <2>1, <4>2 DEF SlotUsed, n
          <5>2. since = Written /\ Written \in Nat
            BY <1>1, <4>2, <5>1 DEF QueriedBetween, NothingMixed
          <5> QED  BY <5>1, <5>2
        <4> QED  BY <4>1, <4>2
      <3>2. Head(ToSend) = list[n]
        BY <1>1, <2>5
      <3>3. curReqFrames' = <<>> <=> n = Len(list)
        <4>1. Len(curReqFrames') = 0 <=> n = Len(list)
          BY <2>3, <2>4, <2>5
        <4> QED  BY <2>8, <4>1, EmptySeq
      <3>4. since' = CASE list[n] = "query" -> 0 [] list[n] = "stop" -> since [] OTHER -> since + 1
        BY <1>1, <3>2
      <3>5. /\ list[n] = "query" => n = Len(list)
            /\ c # "stop" => list[Len(list)] = "query" /\ list[n] # "stop"
            /\ c = "stop" => n = 1 /\ Len(list) = 1 /\ list[n] = "stop"
        BY <2>2, <2>4, FramesOfACommand
      <3>6. since' = IF n = Len(list) THEN 0 ELSE n
        BY <2>4, <2>3, <3>1, <3>4, <3>5
      <3> QED  BY <2>6, <3>3, <3>6 DEF QueriedBetween
    <2> QED  BY <2>9, <2>10, <2>11, <2>12, <2>13 DEF HandInv
  <1> QED  BY <1>5, <1>6

\* A prefix and the element after it.
LEMMA PrefixGrows ==
  ASSUME NEW S, NEW s \in Seq(S), NEW n \in 1..Len(s)
  PROVE  Append(SubSeq(s, 1, n - 1), s[n]) = SubSeq(s, 1, n)
  <1>1. SubSeq(s, 1, n) = SubSeq(s, 1, n - 1) \o <<s[n]>>
    <2>1. 1 \in 1..Len(s) /\ n \in 1..Len(s)
      OBVIOUS
    <2> QED  BY <2>1, SubSeqRecursiveSecond
  <1>2. SubSeq(s, 1, n - 1) \in Seq(S) /\ s[n] \in S
    <2>1. \A i \in 1..(n - 1) : s[i] \in S
      OBVIOUS
    <2>2. 1 \in Int /\ n - 1 \in Int
      OBVIOUS
    <2> QED  BY <2>1, <2>2, SubSeqProperties
  <1> QED  BY <1>1, <1>2, AppendIsConcat

\* The frame reaches the hand, or the command is hit.
LEMMA HandInvDeliver ==
  ASSUME HandInv, half = "exchange", half' = "response", NEW reached, Deliver(reached)
  PROVE  HandInv'
  <1>1. /\ HandTypes /\ Counted /\ SlotUsed /\ NothingMixed /\ QueriedBetween
        /\ UNCHANGED <<cmdQueue, curReqFrames, ready, sent, current, accepted, since, outcomes>>
    BY DEF Deliver, HandInv
  <1>2. Written' = Written /\ Counted' /\ QueriedBetween'
    BY <1>1 DEF Written, Counted, QueriedBetween
  <1>3. Exchanged' = Written
    BY <1>2 DEF Exchanged
  <1>4. CASE sent = "nothing" \/ current = "none"
    <2>1. UNCHANGED <<got, hit>>
      BY <1>4 DEF Deliver
    <2>2. HandTypes'
      BY <1>1, <2>1, BooleansKept DEF HandTypes
    <2>3. SlotUsed'
      BY <1>1, <2>1 DEF SlotUsed
    <2>4. NothingMixed'
      BY <1>1, <1>2, <1>3, <1>4, <2>1 DEF NothingMixed, Exchanged
    <2> QED  BY <1>2, <2>2, <2>3, <2>4 DEF HandInv
  <1>5. CASE sent # "nothing" /\ current # "none"
    <2> DEFINE list == FramesOf[current]
    <2>1. hit' = (hit \/ ~Arrives(reached)) /\ got' = IF hit' THEN <<>> ELSE Append(got, sent)
      BY <1>5 DEF Deliver
    <2>2. hit' \in BOOLEAN /\ ready' \in BOOLEAN /\ (~hit' => ~hit)
      <3>1. ready \in BOOLEAN /\ ready' = ready
        BY <1>1 DEF HandTypes
      <3> QED  BY <2>1, <3>1, Zenon
    <2>3. list \in Seq(FrameTags) /\ Written \in 1..Len(list) /\ sent = list[Written]
          /\ Exchanged = Written - 1 /\ got = IF hit THEN <<>> ELSE SubSeq(list, 1, Written - 1)
      <3>1. current \in Commands
        BY <1>1, <1>5 DEF HandTypes
      <3>2. Exchanged = Written - 1
        BY <1>5 DEF Exchanged
      <3> QED  BY <1>1, <1>5, <3>1, <3>2, FramesOfACommand DEF NothingMixed
    <2>4. got' = IF hit' THEN <<>> ELSE SubSeq(list, 1, Written)
      BY <2>1, <2>2, <2>3, PrefixGrows
    <2>5. SubSeq(list, 1, Written) \in Seq(FrameTags)
      <3>1. \A i \in 1..Written : list[i] \in FrameTags
        BY <2>3
      <3>2. 1 \in Int /\ Written \in Int
        BY <2>3
      <3> QED  BY <3>1, <3>2, SubSeqProperties
    <2>6. HandTypes'
      <3>1. got' \in Seq(FrameTags)
        BY <2>4, <2>5
      <3> QED  BY <1>1, <2>2, <3>1 DEF HandTypes
    <2>7. SlotUsed'
      BY <1>1, <1>5 DEF SlotUsed
    <2>8. NothingMixed'
      <3>1. list' = list
        BY <1>1
      <3> QED  BY <1>1, <1>2, <1>3, <1>5, <2>4, <3>1 DEF NothingMixed
    <2> QED  BY <1>2, <2>6, <2>7, <2>8 DEF HandInv
  <1> QED  BY <1>4, <1>5

\* The last frame of a command ends it.
LEMMA HandInvResponses ==
  ASSUME HandInv, HandResponses
  PROVE  HandInv'
  <1>1. /\ HandTypes /\ Counted /\ SlotUsed /\ NothingMixed /\ QueriedBetween
        /\ half = "response" /\ half' = "request" /\ sent' = "nothing"
        /\ UNCHANGED <<cmdQueue, curReqFrames, accepted, since>>
    BY DEF HandResponses, SendResponses, HandInv
  <1>2. ready' \in BOOLEAN
    <2>1. ready \in BOOLEAN
      BY <1>1 DEF HandTypes
    <2> QED  BY <2>1, Zenon DEF HandResponses
  <1>3. CASE LastSent
    <2>1. /\ outcomes' = Append(outcomes, IF got = FramesOf[current] THEN "whole" ELSE "spoilt")
          /\ current' = "none" /\ got' = <<>> /\ hit' = FALSE
      BY <1>3 DEF HandResponses
    <2>2. curReqFrames = <<>> /\ current # "none"
      BY <1>3 DEF LastSent
    <2>3. outcomes' \in Seq({"whole", "spoilt"}) /\ Len(outcomes') = Len(outcomes) + 1
      BY <1>1, <2>1 DEF HandTypes
    <2>4. HandTypes'
      <3>1. hit' \in BOOLEAN
        BY <2>1, Zenon
      <3>2. got' \in Seq(FrameTags) /\ current' \in Commands \cup {"none"}
        BY <2>1
      <3> QED  BY <1>1, <1>2, <2>3, <3>1, <3>2 DEF HandTypes
    <2>5. Counted'
      BY <1>1, <2>1, <2>2, <2>3 DEF Counted, HandTypes
    <2>6. SlotUsed' /\ NothingMixed' /\ QueriedBetween'
      BY <1>1, <2>1, <2>2 DEF SlotUsed, NothingMixed, QueriedBetween
    <2> QED  BY <2>4, <2>5, <2>6 DEF HandInv
  <1>4. CASE ~LastSent
    <2>1. UNCHANGED <<outcomes, current, got, hit>>
      BY <1>4 DEF HandResponses
    <2>2. hit' \in BOOLEAN
      <3>1. hit \in BOOLEAN
        BY <1>1 DEF HandTypes
      <3> QED  BY <2>1, <3>1
    <2>3. HandTypes'
      BY <1>1, <1>2, <2>1, <2>2 DEF HandTypes
    <2>4. Written' = Written /\ Exchanged' = Written /\ Exchanged = Written
      BY <1>1, <2>1 DEF Written, Exchanged
    <2>5. SlotUsed'
      BY <1>1, <1>4, <2>1 DEF SlotUsed, LastSent
    <2>6. Counted' /\ NothingMixed' /\ QueriedBetween'
      BY <1>1, <2>1, <2>4 DEF Counted, NothingMixed, QueriedBetween
    <2> QED  BY <2>3, <2>5, <2>6 DEF HandInv
  <1> QED  BY <1>3, <1>4

\* Steps that do not concern the frame in the slot.
LEMMA HandInvKept ==
  ASSUME HandInv, UNCHANGED handVars,
         half' = half \/ (sent = "nothing" /\ half # "exchange" /\ half' # "response")
  PROVE  HandInv'
  <1>1. HandTypes'
    BY BooleansKept DEF HandInv, HandTypes, handVars
  <1>2. Counted' /\ SlotUsed' /\ QueriedBetween'
    BY DEF HandInv, Counted, SlotUsed, QueriedBetween, Written, handVars
  <1>3. NothingMixed'
    BY DEF HandInv, NothingMixed, Exchanged, Written, handVars
  <1> QED  BY <1>1, <1>2, <1>3 DEF HandInv

\* A command waits behind the others.
LEMMA HandInvCommand ==
  ASSUME HandInv, NEW c \in Commands, Command(c)
  PROVE  HandInv'
  <1>1. /\ cmdQueue' = Append(cmdQueue, c) /\ accepted' = accepted + 1 /\ half' = half
        /\ UNCHANGED <<curReqFrames, ready, sent, current, since, got, hit, outcomes>>
    BY DEF Command, dispatchVars
  <1>2. cmdQueue' \in Seq(Commands) /\ Len(cmdQueue') = Len(cmdQueue) + 1
    BY <1>1 DEF HandInv, HandTypes
  <1>3. HandTypes'
    BY <1>1, <1>2, BooleansKept DEF HandInv, HandTypes
  <1>4. Counted'
    BY <1>1, <1>2 DEF HandInv, HandTypes, Counted
  <1>5. SlotUsed' /\ NothingMixed' /\ QueriedBetween'
    BY <1>1 DEF HandInv, SlotUsed, NothingMixed, QueriedBetween, Exchanged, Written
  <1> QED  BY <1>3, <1>4, <1>5 DEF HandInv

-----------------------------------------------------------------------------
(* The hand's device on the bus *)

\* What a step of the whole does to the dispatch and to the hand.
LEMMA HandSteps ==
  ASSUME HandInv, DispatchInv, HandNext
  PROVE  HandInv' /\ DispatchInv'
  <1>1. CASE (Load \/ CalmsDown) /\ UNCHANGED handVars
    <2>1. half' = half \/ (sent = "nothing" /\ half # "exchange" /\ half' # "response")
      BY <1>1 DEF Load, RegisterDevice, StartBus, CalmsDown, HandInv, SlotUsed
    <2> QED  BY <1>1, <2>1, HandInvKept, DispatchInvSteps DEF DispatchNext
  <1>2. ASSUME NEW c \in Commands, Command(c)
        PROVE  HandInv' /\ DispatchInv'
    <2>1. UNCHANGED dispatchVars
      BY <1>2 DEF Command, dispatchVars
    <2> QED  BY <1>2, <2>1, HandInvCommand, DispatchInvSteps
  <1>3. CASE HandRequests
    <2>1. PICK pick \in Picks : /\ GetRequests(pick)
                                /\ IF Called THEN OnRequest(pick) ELSE UNCHANGED handVars
      BY <1>3 DEF HandRequests
    <2>2. half = "request" /\ half' = "exchange" /\ sent = "nothing"
      BY <2>1 DEF GetRequests, HandInv, SlotUsed
    <2>3. HandInv'
      BY <2>1, <2>2, HandInvOnRequest, HandInvKept
    <2> QED  BY <2>1, <2>3, DispatchInvSteps DEF DispatchNext, Cycle
  <1>4. CASE HandExchange
    <2>1. PICK reached : Deliver(reached)
      BY <1>4 DEF HandExchange
    <2>2. half = "exchange" /\ half' = "response" /\ DispatchNext
      BY <1>4 DEF HandExchange, Exchange, LoseExchange, DispatchNext, Cycle
    <2> QED  BY <2>1, <2>2, HandInvDeliver, DispatchInvSteps
  <1>5. CASE HandResponses
    <2>1. DispatchNext
      BY <1>5 DEF HandResponses, DispatchNext, Cycle
    <2> QED  BY <1>5, <2>1, HandInvResponses, DispatchInvSteps
  <1> QED  BY <1>1, <1>2, <1>3, <1>4, <1>5 DEF HandNext, HandCycle

\* The two invariants together.
LEMMA BothInvariants == HandSpec => [](DispatchInv /\ HandInv)
  <1>1. HandInit => DispatchInv /\ HandInv
    <2> SUFFICES ASSUME HandInit PROVE DispatchInv /\ HandInv
      OBVIOUS
    <2>1. DispatchInv
      BY DispatchInvInit DEF HandInit
    <2>2. ready \in BOOLEAN /\ hit \in BOOLEAN
      BY Zenon DEF HandInit
    <2>3. HandTypes
      BY <2>2 DEF HandInit, HandTypes
    <2>4. Counted /\ SlotUsed /\ NothingMixed /\ QueriedBetween
      BY DEF HandInit, Counted, SlotUsed, NothingMixed, QueriedBetween
    <2> QED  BY <2>1, <2>3, <2>4 DEF HandInv
  <1>2. DispatchInv /\ HandInv /\ [HandNext]_handDispatchVars => (DispatchInv /\ HandInv)'
    <2> SUFFICES ASSUME DispatchInv, HandInv, [HandNext]_handDispatchVars
                 PROVE  (DispatchInv /\ HandInv)'
      OBVIOUS
    <2>1. CASE HandNext
      BY <2>1, HandSteps
    <2>2. CASE UNCHANGED handDispatchVars
      <3>1. UNCHANGED dispatchVars /\ UNCHANGED handVars
        BY <2>2 DEF handDispatchVars
      <3>2. half' = half
        BY <3>1 DEF dispatchVars
      <3> QED  BY <3>1, <3>2, HandInvKept, DispatchInvSteps
    <2> QED  BY <2>1, <2>2
  <1> QED  BY <1>1, <1>2, PTL DEF HandSpec

\* Whatever is registered, in whatever order, and whatever exchanges are lost: no
\* device is asked with an identifier it does not understand, and the turns of a
\* gateway that shares time stay in step with the answers.
THEOREM DispatchInvariant == HandSpec => []DispatchInv
  BY BothInvariants, PTL

\* The hand's commands are sent one after the other, each frame once.
THEOREM HandInvariant == HandSpec => []HandInv
  BY BothInvariants, PTL

\* At most seven frames that are no emergency stops go between two queries, for
\* any number of commands.
THEOREM HandIsAskedOften == HandSpec => []AskedOften
  <1>1. HandInv => AskedOften
    <2> SUFFICES ASSUME HandInv PROVE since <= 7
      BY DEF AskedOften
    <2>1. CASE curReqFrames = <<>>
      BY <2>1 DEF HandInv, QueriedBetween
    <2>2. CASE curReqFrames # <<>>
      <3>1. current \in Commands /\ since = Written
        BY <2>2 DEF HandInv, HandTypes, SlotUsed, QueriedBetween
      <3>2. Len(FramesOf[current]) \in 1..8
        BY <3>1, FramesOfACommand
      <3>3. Len(curReqFrames) \in Nat \ {0}
        BY <2>2, EmptySeq DEF HandInv, HandTypes
      <3>4. Written <= 7
        <4>1. \A m \in 1..8 : \A n \in Nat \ {0} : m - n <= 7
          OBVIOUS
        <4> QED  BY <3>2, <3>3, <4>1 DEF Written
      <3> QED  BY <3>1, <3>4
    <2> QED  BY <2>1, <2>2
  <1> QED  BY <1>1, HandInvariant, PTL

\* A command ends with its last frame, and is whole exactly if none was lost.
LEMMA LastFrameFinishes ==
  ASSUME HandInv, HandResponses, LastSent
  PROVE  Stream!Finish
  <1>1. /\ outcomes' = Append(outcomes, IF got = FramesOf[current] THEN "whole" ELSE "spoilt")
        /\ hit' = FALSE /\ half = "response" /\ UNCHANGED accepted
    BY DEF HandResponses, SendResponses
  <1>2. current \in Commands /\ curReqFrames = <<>>
    BY DEF LastSent, HandInv, HandTypes
  <1>3. FramesOf[current] \in Seq(FrameTags) /\ Len(FramesOf[current]) \in 1..8
    BY <1>2, FramesOfACommand
  <1>4. Len(outcomes) < accepted
    BY DEF LastSent, HandInv, HandTypes, Counted
  <1>5. Exchanged = Len(FramesOf[current])
    BY <1>1, <1>2, <1>3 DEF Exchanged, Written
  <1>6. got = IF hit THEN <<>> ELSE FramesOf[current]
    BY <1>2, <1>3, <1>5, SubSeqFull DEF HandInv, NothingMixed, Commands
  <1>7. FramesOf[current] # <<>>
    <2>1. \A s \in Seq(FrameTags) : Len(s) \in 1..8 => s # <<>>
      OBVIOUS
    <2> QED  BY <1>3, <2>1
  <1>8. hit \in BOOLEAN
    BY DEF HandInv, HandTypes
  <1>9. got = FramesOf[current] <=> ~hit
    BY <1>6, <1>7, <1>8
  <1>10. outcomes' = Append(outcomes, IF hit THEN "spoilt" ELSE "whole")
    BY <1>1, <1>9
  <1> QED  BY <1>1, <1>4, <1>10 DEF Stream!Finish

\* Every step of the device is one of the stream of commands, or none of its
\* concern: a command is done in its turn, and spoilt only if a frame of its own
\* was lost.
THEOREM HandIsAStream == HandSpec => Stream!StreamSafety
  <1>1. HandInit => Stream!StreamInit
    BY DEF HandInit, Stream!StreamInit
  <1>2. ASSUME HandInv, HandInv', [HandNext]_handDispatchVars
        PROVE  [Stream!StreamNext]_(Stream!streamVars)
    <2> USE DEF Stream!StreamNext, Stream!streamVars
    <2>1. CASE UNCHANGED handVars
      BY <2>1 DEF handVars
    <2>2. ASSUME NEW c \in Commands, Command(c)
          PROVE  Stream!Accept
      BY <2>2 DEF Command, Stream!Accept
    <2>3. CASE HandRequests
      BY <2>3 DEF HandRequests, OnRequest, handVars
    <2>4. CASE HandExchange
      <3>1. PICK reached : Deliver(reached)
        BY <2>4 DEF HandExchange
      <3>2. CASE sent = "nothing" \/ current = "none"
        BY <3>1, <3>2 DEF Deliver
      <3>3. CASE sent # "nothing" /\ current # "none"
        <4>1. hit' = (hit \/ ~Arrives(reached)) /\ UNCHANGED <<accepted, outcomes>>
          BY <3>1, <3>3 DEF Deliver
        <4>2. Len(outcomes) < accepted
          BY <1>2, <3>3 DEF HandInv, HandTypes, Counted
        <4>3. hit \in BOOLEAN
          BY <1>2 DEF HandInv, HandTypes
        <4>4. hit' = hit \/ hit' = TRUE
          BY <4>1, <4>3, Zenon
        <4> QED  BY <4>1, <4>2, <4>4 DEF Stream!Lose
      <3> QED  BY <3>2, <3>3
    <2>5. CASE HandResponses
      <3>1. UNCHANGED accepted
        BY <2>5 DEF HandResponses
      <3>2. CASE ~LastSent
        BY <2>5, <3>1, <3>2 DEF HandResponses
      <3>3. CASE LastSent
        BY <1>2, <2>5, <3>3, LastFrameFinishes
      <3> QED  BY <3>2, <3>3
    <2>6. CASE UNCHANGED handDispatchVars
      BY <2>6 DEF handDispatchVars, handVars
    <2> QED  BY <1>2, <2>1, <2>2, <2>3, <2>4, <2>5, <2>6 DEF HandNext, HandCycle
  <1> QED  BY <1>1, <1>2, HandInvariant, PTL DEF HandSpec, Stream!StreamSafety

-----------------------------------------------------------------------------
(* Every command is sent at last *)

\* A command waits or is being sent.
Waiting == Len(outcomes) < accepted

\* The frames to go before the command in hand ends, and the steps of the bus
\* thread until it next asks the hand for one: the hand's turn, then the turn of
\* the others on a gateway that shares time.
Left == IF current = "none" THEN 8 ELSE Len(curReqFrames)
Ahead ==
    CASE half = "request"  /\ Served(Hand)  -> 1
      [] half = "response" /\ ~Served(Hand) -> 2
      [] half = "exchange" /\ ~Served(Hand) -> 3
      [] half = "request"  /\ ~Served(Hand) -> 4
      [] half = "response" /\ Served(Hand)  -> 5
      [] OTHER                              -> 6

\* Nearer the end of a command: fewer frames to go, or as many and fewer steps.
Nearer == Left' < Left \/ (Left' = Left /\ Ahead' < Ahead)
NotFarther == Left' < Left \/ (Left' = Left /\ Ahead' <= Ahead)

LEMMA LeftAndAhead ==
  HandInv => Left \in 0..8 /\ Ahead \in 1..6 /\ (current # "none" => Left \in 0..7)
  <1>1. Ahead \in 1..6
    BY DEF Ahead
  <1>2. HandInv /\ current # "none" => Left \in 0..7
    <2> SUFFICES ASSUME HandInv, current # "none" PROVE Left \in 0..7
      OBVIOUS
    <2>1. current \in Commands /\ Len(curReqFrames) \in Nat
      BY DEF HandInv, HandTypes
    <2>2. Len(FramesOf[current]) \in 1..8
      BY <2>1, FramesOfACommand
    <2>3. Len(FramesOf[current]) - Len(curReqFrames) >= 1
      BY <2>2 DEF HandInv, NothingMixed, Written
    <2>4. Left = Len(curReqFrames)
      BY DEF Left
    <2> HIDE DEF Left
    <2>5. \A a \in 1..8, b \in Nat : a - b >= 1 => b \in 0..7
      OBVIOUS
    <2> QED  BY <2>1, <2>2, <2>3, <2>4, <2>5
  <1>3. current = "none" => Left \in 0..8
    BY DEF Left
  <1>4. \A a \in 0..7 : a \in 0..8
    OBVIOUS
  <1> QED  BY <1>1, <1>2, <1>3, <1>4

\* A request in the hand's turn takes a frame off.
LEMMA RequestTakesAFrame ==
  ASSUME HandInv, HandInv', Waiting, OnTheBus, HandRequests
  PROVE  Waiting' /\ Nearer
  <1>1. PICK pick \in Picks : /\ GetRequests(pick)
                              /\ IF Called THEN OnRequest(pick) ELSE UNCHANGED handVars
    BY DEF HandRequests
  <1>2. /\ half = "request" /\ half' = "exchange" /\ UNCHANGED <<slaveModes, curTsMode>>
        /\ UNCHANGED <<outcomes, accepted>>
    BY <1>1 DEF GetRequests, OnRequest, handVars
  <1>3. Served(Hand)' <=> Served(Hand)
    BY <1>2 DEF Served, Kind
  <1>4. Waiting'
    BY <1>2 DEF Waiting
  <1>5. CASE ~Served(Hand)
    <2>1. UNCHANGED handVars
      BY <1>1, <1>5 DEF Called
    <2>2. Left' = Left /\ Ahead = 4 /\ Ahead' = 3
      BY <1>2, <1>3, <1>5, <2>1 DEF Left, Ahead, handVars
    <2> QED  BY <1>4, <2>2 DEF Nearer
  <1>6. CASE Served(Hand)
    <2>1. OnRequest(pick) /\ sent = "nothing"
      BY <1>1, <1>2, <1>6 DEF Called, OnTheBus, HandInv, SlotUsed
    <2>2. Left' < Left
      <3>1. CASE current = "none"
        <4>1. curReqFrames = <<>> /\ TakesCommand
          <5>1. curReqFrames = <<>> /\ Len(cmdQueue) > 0
            BY <3>1 DEF HandInv, HandTypes, SlotUsed, Counted, Waiting
          <5> QED  BY <5>1 DEF TakesCommand, HandInv, HandTypes
        <4>2. current' # "none"
          BY <2>1, <4>1 DEF OnRequest, TakesCommand, HandInv, HandTypes, Commands
        <4>3. Left' \in 0..7
          <5>1. (HandInv => Left \in 0..8 /\ Ahead \in 1..6 /\ (current # "none" => Left \in 0..7))'
            BY LeftAndAhead, PTL
          <5> QED  BY <4>2, <5>1
        <4>4. Left = 8
          BY <3>1 DEF Left
        <4>5. \A a \in 0..7 : a < 8
          OBVIOUS
        <4> HIDE DEF Left
        <4> QED  BY <4>3, <4>4, <4>5
      <3>2. CASE current # "none"
        <4>1. curReqFrames # <<>> /\ ~TakesCommand /\ ToSend = curReqFrames
          BY <2>1, <3>2 DEF HandInv, SlotUsed, TakesCommand, ToSend
        <4>2. curReqFrames' = Tail(curReqFrames) /\ current' = current
          BY <2>1, <4>1 DEF OnRequest
        <4>3. Len(curReqFrames') < Len(curReqFrames)
          BY <4>1, <4>2 DEF HandInv, HandTypes
        <4> QED  BY <3>2, <4>2, <4>3 DEF Left
      <3> QED  BY <3>1, <3>2
    <2> QED  BY <1>4, <2>2 DEF Nearer
  <1> QED  BY <1>5, <1>6

\* The turn comes nearer, or the command ends.
LEMMA ResponseEndsTheCycle ==
  ASSUME DispatchInv, HandInv, Waiting, OnTheBus, HandResponses
  PROVE  Stream!Finish \/ (Waiting' /\ Nearer)
  <1>1. CASE LastSent
    BY <1>1, LastFrameFinishes
  <1>2. CASE ~LastSent
    <2>1. /\ half = "response" /\ half' = "request" /\ UNCHANGED slaveModes
          /\ curTsMode' = [g \in Gateways |-> NextTurn(g)]
          /\ UNCHANGED <<outcomes, accepted, current, curReqFrames>>
      BY <1>2 DEF HandResponses, SendResponses
    <2>2. Hand.gateway \in Gateways /\ Hand.mode = "extended"
      BY HandAssumption, DispatchAssumption DEF HandAssumption, DispatchAssumption, Entry
    <2>3. curTsMode'[Hand.gateway] = NextTurn(Hand.gateway)
      BY <2>1, <2>2
    <2>4. /\ slaveModes[Hand.gateway] = "sharing" => (Served(Hand)' <=> ~Served(Hand))
          /\ slaveModes[Hand.gateway] # "sharing" => Served(Hand)' /\ Served(Hand)
      <3>1. curTsMode[Hand.gateway] \in {"standard", "extended"}
        BY <2>2 DEF DispatchInv, DispatchTypes, Kinds
      <3> QED  BY <2>1, <2>2, <2>3, <3>1 DEF Served, Kind, NextTurn, OnTheBus
    <2>5. Left' = Left /\ Waiting'
      BY <2>1 DEF Left, Waiting
    <2>6. Ahead' < Ahead
      BY <2>1, <2>4 DEF Ahead
    <2> QED  BY <2>5, <2>6 DEF Nearer
  <1> QED  BY <1>1, <1>2

\* On a bus that serves the hand every step of the bus thread brings the command
\* in hand nearer to its end, and no other step takes it further away.
LEMMA CommandsGoOn ==
  ASSUME DispatchInv, HandInv, HandInv', Waiting, OnTheBus, [HandNext]_handDispatchVars
  PROVE  /\ Stream!Finish \/ (Waiting' /\ NotFarther)
         /\ HandCycle => Stream!Finish \/ (Waiting' /\ Nearer)
  <1>0. Left \in 0..8 /\ Ahead \in 1..6 /\ Left' \in 0..8 /\ Ahead' \in 1..6
    <2>1. (HandInv => Left \in 0..8 /\ Ahead \in 1..6 /\ (current # "none" => Left \in 0..7))'
      BY LeftAndAhead, PTL
    <2> QED  BY <2>1, LeftAndAhead
  <1>1. Nearer => NotFarther
    BY <1>0 DEF Nearer, NotFarther
  <1>2. CASE HandCycle
    <2>1. CASE HandExchange
      <3>1. /\ half = "exchange" /\ half' = "response"
            /\ UNCHANGED <<slaveModes, curTsMode, current, curReqFrames, outcomes, accepted>>
        BY <2>1 DEF HandExchange, Exchange, LoseExchange, Deliver
      <3>2. Served(Hand)' <=> Served(Hand)
        BY <3>1 DEF Served, Kind
      <3>3. Left' = Left /\ Ahead' < Ahead /\ Waiting'
        BY <3>1, <3>2 DEF Left, Ahead, Waiting
      <3> QED  BY <1>1, <3>3 DEF Nearer
    <2> QED
      BY <1>1, <1>2, <2>1, RequestTakesAFrame, ResponseEndsTheCycle DEF HandCycle
  <1>3. CASE ~HandCycle
    <2>1. /\ UNCHANGED <<half, slaveModes, curTsMode, current, curReqFrames, outcomes>>
          /\ accepted' \in {accepted, accepted + 1}
      BY <1>3 DEF OnTheBus, HandNext, Load, RegisterDevice, StartBus, CalmsDown, handVars, Command,
                  dispatchVars, handDispatchVars
    <2>2. Served(Hand)' <=> Served(Hand)
      BY <2>1 DEF Served, Kind
    <2>3. Left' = Left /\ Ahead' = Ahead
      BY <2>1, <2>2 DEF Left, Ahead
    <2>4. Waiting'
      BY <2>1 DEF Waiting, HandInv, HandTypes
    <2> QED  BY <1>0, <1>3, <2>3, <2>4 DEF NotFarther
  <1> QED  BY <1>2, <1>3

\* A command waits or is being sent and at most r steps of the bus thread are left
\* until it ends, and from r steps left it comes to q, if no command ends before.
Within(r) == Waiting /\ 6 * Left + Ahead <= r
ComesNearer(r, q) ==
    HandSpec => []([]OnTheBus /\ Within(r) =>
                       <>Within(q) \/ <><<Stream!Finish>>_(Stream!streamVars))

LEMMA WithinSteps ==
  ASSUME NEW r \in Int, DispatchInv, HandInv, HandInv', OnTheBus, Within(r),
         [HandNext]_handDispatchVars
  PROVE  /\ <<Stream!Finish>>_(Stream!streamVars) \/ Within(r)'
         /\ HandCycle => <<Stream!Finish>>_(Stream!streamVars) \/ Within(r - 1)'
  <1>1. /\ Stream!Finish \/ (Waiting' /\ NotFarther)
        /\ HandCycle => Stream!Finish \/ (Waiting' /\ Nearer)
    BY CommandsGoOn DEF Within
  <1>2. Stream!Finish => <<Stream!Finish>>_(Stream!streamVars)
    <2> SUFFICES ASSUME Stream!Finish PROVE Stream!streamVars' # Stream!streamVars
      OBVIOUS
    <2>1. outcomes \in Seq({"whole", "spoilt"}) /\ hit \in BOOLEAN
      BY DEF HandInv, HandTypes
    <2>2. Len(outcomes') = Len(outcomes) + 1
      BY <2>1 DEF Stream!Finish
    <2>3. outcomes' # outcomes
      BY <2>1, <2>2
    <2> QED  BY <2>3 DEF Stream!streamVars
  <1>3. (HandInv => Left \in 0..8 /\ Ahead \in 1..6 /\ (current # "none" => Left \in 0..7))'
    BY LeftAndAhead, PTL
  <1>4. Left \in 0..8 /\ Ahead \in 1..6 /\ Left' \in 0..8 /\ Ahead' \in 1..6
    BY <1>3, LeftAndAhead
  <1>5. \A a, c \in 0..8 : \A b, m \in 1..6 :
            6 * a + b <= r =>
                /\ c < a \/ (c = a /\ m <= b) => 6 * c + m <= r
                /\ c < a \/ (c = a /\ m < b) => 6 * c + m <= r - 1
    OBVIOUS
  <1>6. 6 * Left + Ahead <= r
    BY DEF Within
  <1>7. NotFarther => 6 * Left' + Ahead' <= r
    BY <1>4, <1>5, <1>6 DEF NotFarther
  <1>8. Nearer => 6 * Left' + Ahead' <= r - 1
    BY <1>4, <1>5, <1>6 DEF Nearer
  <1>9. Within(r)' <=> Waiting' /\ 6 * Left' + Ahead' <= r
    BY DEF Within
  <1>10. Within(r - 1)' <=> Waiting' /\ 6 * Left' + Ahead' <= r - 1
    BY DEF Within
  <1> QED  BY <1>1, <1>2, <1>7, <1>8, <1>9, <1>10

\* By the fairness of the bus thread.
LEMMA OneStepNearer ==
  ASSUME [](half # "load" => ENABLED <<HandCycle>>_handDispatchVars), NEW r \in Int
  PROVE  ComesNearer(r, r - 1)
  <1>1. DispatchInv /\ HandInv /\ HandInv' /\ OnTheBus /\ Within(r) /\ [HandNext]_handDispatchVars =>
            <<Stream!Finish>>_(Stream!streamVars) \/ Within(r)'
    BY WithinSteps
  <1>2. DispatchInv /\ HandInv /\ HandInv' /\ OnTheBus /\ Within(r) /\ [HandNext]_handDispatchVars
          /\ <<HandCycle>>_handDispatchVars =>
            <<Stream!Finish>>_(Stream!streamVars) \/ Within(r - 1)'
    BY WithinSteps
  <1>3. OnTheBus => half # "load"
    BY DEF OnTheBus
  <1> QED  BY <1>1, <1>2, <1>3, BothInvariants, PTL DEF ComesNearer, HandSpec

\* Twice d steps, one after the other.
LEMMA TwiceAsNear ==
  ASSUME NEW d \in Int, \A r \in Int : ComesNearer(r, r - d)
  PROVE  \A r \in Int : ComesNearer(r, r - 2 * d)
  <1> TAKE r \in Int
  <1>1. ComesNearer(r, r - d)
    OBVIOUS
  <1>2. ComesNearer(r - d, r - 2 * d)
    <2>1. r - d \in Int /\ (r - d) - d = r - 2 * d
      OBVIOUS
    <2>2. ComesNearer(r - d, (r - d) - d)
      BY <2>1
    <2> QED  BY <2>1, <2>2
  <1> QED  BY <1>1, <1>2, PTL DEF ComesNearer

\* The hand's device is a CommandStream, its promise that every command is sent
\* at last included: at most 54 steps of the bus thread end one.  By the fairness
\* of the bus thread; the hypotheses say when it applies, and that a stream goes
\* on only if a command waits.
THEOREM HandImplementsStream ==
  ASSUME [](half # "load" => ENABLED <<HandCycle>>_handDispatchVars),
         [](ENABLED <<Stream!Finish>>_(Stream!streamVars) => Waiting)
  PROVE  HandSpec => ImplementsStream
  <1>1. \A r \in Int : ComesNearer(r, r - 1)
    BY OneStepNearer
  <1>2. \A r \in Int : ComesNearer(r, r - 2 * 1)
    BY <1>1, TwiceAsNear
  <1>3. \A r \in Int : ComesNearer(r, r - 4)
    BY <1>2, TwiceAsNear
  <1>4. \A r \in Int : ComesNearer(r, r - 8)
    BY <1>3, TwiceAsNear
  <1>5. \A r \in Int : ComesNearer(r, r - 16)
    BY <1>4, TwiceAsNear
  <1>6. \A r \in Int : ComesNearer(r, r - 32)
    BY <1>5, TwiceAsNear
  <1>7. \A r \in Int : ComesNearer(r, r - 64)
    BY <1>6, TwiceAsNear
  <1>8. ComesNearer(64, 0)
    BY <1>7
  <1>9. HandInv /\ Waiting => Within(64)
    <2>1. \A a \in 0..8, b \in 1..6 : 6 * a + b <= 64
      OBVIOUS
    <2> QED  BY LeftAndAhead, <2>1 DEF Within
  <1>10. ~(HandInv /\ Within(0))
    <2>1. \A a \in 0..8, b \in 1..6 : ~(6 * a + b <= 0)
      OBVIOUS
    <2> QED  BY LeftAndAhead, <2>1 DEF Within
  <1>11. HandSpec => []([]OnTheBus /\ Waiting => <><<Stream!Finish>>_(Stream!streamVars))
    BY <1>8, <1>9, <1>10, HandInvariant, PTL DEF ComesNearer
  <1> QED
    BY <1>11, HandIsAStream, PTL DEF ImplementsStream, Stream!StreamFairness

-----------------------------------------------------------------------------
(* Who is registered last hears *)

\* The bus loses nothing any more and heeds the device.
Peace(d) == calm /\ Heeded(d)

\* The frame of the device's slot is its own.
Own(d, frames) == frames[d.passage] # None /\ frames[d.passage].from = d

\* The stations of a request and its answer: written in the device's turn, on the
\* line, how far, in the inputs.
Asked(d) == half = "exchange" /\ Served(d) /\ Own(d, outputs[d.gateway].slot)
Places(d) == {k \in 1..Lag : Own(d, line[k][d.gateway])}
OnTheLine(d) == Peace(d) /\ Places(d) # {}
Place(d) == CHOOSE k \in Places(d) : \A j \in Places(d) : j <= k
Arrived(d) == Peace(d) /\ half = "response" /\ fresh /\ Own(d, inputs[d.gateway])

\* The steps of the bus thread until the device's frame is on the line, and from
\* there until the answer is in the inputs.
ToLine(d) ==
    CASE Asked(d)                            -> 1
      [] half = "request" /\ Served(d)       -> 2
      [] half = "response" /\ ~Served(d)     -> 3
      [] half = "exchange" /\ ~Served(d)     -> 4
      [] half = "request" /\ ~Served(d)      -> 5
      [] half = "response" /\ Served(d)      -> 6
      [] OTHER                               -> 7
ToInputs(d) ==
    3 * (Lag - Place(d)) + (CASE half = "response" -> 2 [] half = "request" -> 1 [] OTHER -> 0)

\* Of places on the line, one is the farthest.
LEMMA Farthest ==
  ASSUME NEW S, S \subseteq 1..Lag, S # {}
  PROVE  \E k \in S : \A j \in S : j <= k
  <1> DEFINE rest == {Lag - k : k \in S}
  <1>1. Lag \in Nat /\ \A k \in S : k \in Nat /\ Lag - k \in Nat
    BY DispatchAssumption DEF DispatchAssumption
  <1>2. rest \subseteq Nat /\ rest # {}
    BY <1>1
  <1>3. PICK m \in rest : \A n \in rest : <<n, m>> \notin OpToRel(<, Nat)
    BY <1>2, WFMin, NatLessThanWellFounded, Zenon
  <1>4. \A n \in rest : ~(n < m)
    BY <1>2, <1>3, Zenon DEF OpToRel
  <1>5. PICK k \in S : m = Lag - k
    OBVIOUS
  <1>6. \A j \in S : ~(Lag - j < m)
    BY <1>4
  <1>7. \A j \in S : j <= k
    BY <1>1, <1>5, <1>6
  <1> QED  BY <1>7

LEMMA PlaceIsFarthest ==
  ASSUME NEW d \in Entries, Places(d) # {}
  PROVE  Place(d) \in Places(d) /\ Place(d) \in 1..Lag /\ \A j \in Places(d) : j <= Place(d)
  <1>1. Places(d) \subseteq 1..Lag
    BY DEF Places
  <1>2. \E k \in Places(d) : \A j \in Places(d) : j <= k
    BY <1>1, Farthest
  <1> QED  BY <1>1, <1>2 DEF Place

\* What a device writes in its turn is sent: those registered later for its slot
\* are not called.
LEMMA AskedInTurn ==
  ASSUME NEW d \in Entries, DispatchTypes, Heeded(d), Served(d), NEW pick \in Picks,
         GetRequests(pick)
  PROVE  Own(d, outputs'[d.gateway].slot)
  <1>1. PICK i \in DOMAIN devices :
          /\ devices[i] = d
          /\ \A j \in DOMAIN devices : j > i => \/ devices[j].gateway # d.gateway
                                                \/ devices[j].passage # d.passage
                                                \/ devices[j].mode # d.mode
    BY DEF Heeded
  <1>2. pick[d] \in Asks /\ pick[d] # None
    <2>1. Registered(d)
      BY <1>1 DEF Registered
    <2> QED  BY <2>1 DEF GetRequests, Possible, Heeded, Picks
  <1>3. \A j \in DOMAIN devices : devices[j] \in Entries /\ j \in Nat
    BY DEF DispatchTypes
  <1>4. \A j \in DOMAIN devices :
          devices[j].gateway = d.gateway /\ devices[j].mode # d.mode => pick[devices[j]] = None
    BY <1>3 DEF GetRequests, Possible, Served
  <1>5. Writes(i, pick)
    BY <1>1, <1>2, <1>4 DEF Writes
  <1> DEFINE writers == {j \in DOMAIN devices : /\ devices[j].gateway = d.gateway
                                                /\ devices[j].passage = d.passage
                                                /\ Writes(j, pick)}
  <1>6. i \in writers
    BY <1>1, <1>5
  <1>7. \A j \in writers : j = i
    <2>1. \A j \in writers : ~(j > i) /\ ~(i > j)
      BY <1>1, <1>2, <1>4, <1>6 DEF Writes
    <2> QED  BY <1>3, <2>1
  <1>8. Content(d.gateway, d.passage, pick) = [from |-> d, ask |-> pick[d]]
    <2>1. (CHOOSE j \in writers : TRUE) = i
      BY <1>6, <1>7
    <2> QED  BY <1>1, <1>6, <2>1 DEF Content
  <1>9. [from |-> d, ask |-> pick[d]] # None
    BY <1>2, DispatchAssumption DEF DispatchAssumption
  <1>10. d.gateway \in Gateways /\ d.passage \in Passages
    BY DispatchAssumption DEF DispatchAssumption, Entry
  <1>11. outputs'[d.gateway].slot[d.passage] = [from |-> d, ask |-> pick[d]]
    BY <1>8, <1>10 DEF GetRequests
  <1> QED  BY <1>9, <1>11 DEF Own

\* A request of the turn goes on the line, with the identifier of the device.
LEMMA AskedGoesOnTheLine ==
  ASSUME NEW d \in Entries, DispatchInv, Asked(d), Exchange
  PROVE  1 \in Places(d)'
  <1>1. d.gateway \in Gateways /\ d.passage \in Passages /\ 1 \in 1..Lag
    BY DispatchAssumption DEF DispatchAssumption, Entry
  <1>2. outputs[d.gateway].ide <=> d.mode = "extended"
    BY <1>1 DEF DispatchInv, OwnIdentifier, Asked, Served
  <1>3. outputs[d.gateway].ide \in BOOLEAN
    BY <1>1 DEF DispatchInv, DispatchTypes
  <1>4. (outputs[d.gateway].slot[d.passage].from.mode = "extended") = outputs[d.gateway].ide
    BY <1>2, <1>3 DEF Asked, Own
  <1>5. Answers[d.gateway][d.passage] = outputs[d.gateway].slot[d.passage]
    BY <1>1, <1>4 DEF Answers, Asked, Own
  <1>6. line'[1][d.gateway] = Answers[d.gateway]
    BY <1>1 DEF Exchange, Forward
  <1>7. Own(d, line'[1][d.gateway])
    BY <1>5, <1>6 DEF Own, Asked
  <1> QED  BY <1>1, <1>7 DEF Places

\* An answer goes one place further in every exchange, and then into the inputs.
LEMMA AnswerGoesOn ==
  ASSUME NEW d \in Entries, NEW k \in Places(d), Exchange
  PROVE  IF k = Lag THEN Own(d, inputs'[d.gateway]) ELSE k + 1 \in Places(d)'
  <1>1. k \in 1..Lag /\ Lag \in Nat
    BY DispatchAssumption DEF Places, DispatchAssumption
  <1>2. CASE k = Lag
    <2>1. inputs' = line[k]
      BY <1>2 DEF Exchange
    <2> QED  BY <1>2, <2>1 DEF Places, Own
  <1>3. CASE k # Lag
    <2>1. k + 1 \in 1..Lag /\ k + 1 # 1 /\ (k + 1) - 1 = k
      BY <1>1, <1>3
    <2>2. line'[k + 1] = line[k]
      BY <2>1 DEF Exchange, Forward
    <2> QED  BY <1>3, <2>1, <2>2 DEF Places, Own
  <1> QED  BY <1>2, <1>3

\* The answer in the inputs comes in the turn of the device.
LEMMA ArrivedInTurn ==
  ASSUME NEW d \in Entries, DispatchInv, Arrived(d)
  PROVE  Served(d) /\ Registered(d)
  <1>1. d.gateway \in Gateways /\ d.passage \in Passages
    BY DispatchAssumption DEF DispatchAssumption, Entry
  <1>2. d.mode = KindBefore(d.gateway, Lag)
    BY <1>1 DEF DispatchInv, InputsOfKind, AllOf, Arrived, Own
  <1>3. Served(d)
    BY <1>2 DEF Arrived, Peace, Heeded, KindBefore, Served, Kind
  <1> QED  BY <1>3 DEF Arrived, Peace, Heeded, Registered

\* In peace the bus thread only goes through its cycles, and nobody else acts on it.
LEMMA PeaceSteps ==
  ASSUME NEW d \in Entries, Peace(d), [HandNext]_handDispatchVars
  PROVE  /\ Peace(d)' /\ UNCHANGED slaveModes
         /\ HandCycle => (\E pick \in Picks : GetRequests(pick)) \/ Exchange \/ SendResponses
         /\ ~HandCycle => UNCHANGED dispatchVars
  <1>1. HandCycle => (\E pick \in Picks : GetRequests(pick)) \/ Exchange \/ SendResponses
    BY DEF Peace, HandCycle, HandRequests, HandExchange, LoseExchange, HandResponses
  <1>2. ~HandCycle => UNCHANGED dispatchVars
    BY DEF Peace, Heeded, HandNext, Load, RegisterDevice, StartBus, CalmsDown, Command,
           handDispatchVars
  <1>3. UNCHANGED <<devices, slaveModes, calm>> /\ half' # "load"
    BY <1>1, <1>2 DEF GetRequests, Exchange, SendResponses, dispatchVars, Peace, Heeded
  <1>4. Peace(d)'
    BY <1>3 DEF Peace, Heeded
  <1> QED  BY <1>1, <1>2, <1>3, <1>4

\* Every step of the bus thread brings the device's frame nearer to the line.
LEMMA NearerToLine ==
  ASSUME NEW d \in Entries, DispatchInv, Peace(d), HandCycle, [HandNext]_handDispatchVars
  PROVE  Places(d)' # {} \/ ToLine(d)' < ToLine(d)
  <1>1. UNCHANGED slaveModes
    BY PeaceSteps
  <1>2. CASE \E pick \in Picks : GetRequests(pick)
    <2>1. PICK pick \in Picks : GetRequests(pick)
      BY <1>2
    <2>2. half = "request" /\ half' = "exchange" /\ UNCHANGED curTsMode
      BY <2>1 DEF GetRequests
    <2>3. Served(d)' <=> Served(d)
      BY <1>1, <2>2 DEF Served, Kind
    <2>4. Served(d) => Asked(d)'
      BY <2>1, <2>2, <2>3, AskedInTurn DEF Asked, Own, Peace, DispatchInv
    <2> QED  BY <2>2, <2>3, <2>4 DEF ToLine, Asked
  <1>3. CASE Exchange
    <2>1. half = "exchange" /\ half' = "response" /\ UNCHANGED curTsMode
      BY <1>3 DEF Exchange
    <2>2. Served(d)' <=> Served(d)
      BY <1>1, <2>1 DEF Served, Kind
    <2>3. Asked(d) => Places(d)' # {}
      BY <1>3, AskedGoesOnTheLine
    <2>4. ~Asked(d) => ToLine(d)' < ToLine(d)
      BY <2>1, <2>2 DEF ToLine, Asked
    <2> QED  BY <2>3, <2>4
  <1>4. CASE SendResponses
    <2>1. half = "response" /\ half' = "request" /\ curTsMode' = [g \in Gateways |-> NextTurn(g)]
      BY <1>4 DEF SendResponses
    <2>2. d.gateway \in Gateways /\ d.mode \in Kinds
      BY DispatchAssumption DEF DispatchAssumption, Entry
    <2>3. curTsMode'[d.gateway] = NextTurn(d.gateway) /\ curTsMode[d.gateway] \in Kinds
      BY <2>1, <2>2 DEF DispatchInv, DispatchTypes
    <2>4. ~Served(d) => Served(d)'
      BY <1>1, <2>2, <2>3 DEF Served, Kind, NextTurn, Kinds, Peace, Heeded
    <2> QED  BY <2>1, <2>4 DEF ToLine, Asked
  <1> QED  BY <1>2, <1>3, <1>4, PeaceSteps

\* Every step of the bus thread brings the answer nearer to the inputs.
LEMMA NearerToInputs ==
  ASSUME NEW d \in Entries, DispatchInv, OnTheLine(d), HandCycle, [HandNext]_handDispatchVars
  PROVE  Arrived(d)' \/ (OnTheLine(d)' /\ ToInputs(d)' < ToInputs(d))
  <1>1. Peace(d)' /\ Lag \in Nat
    BY PeaceSteps, DispatchAssumption DEF OnTheLine, DispatchAssumption
  <1>2. Place(d) \in Places(d) /\ Place(d) \in 1..Lag
    BY PlaceIsFarthest DEF OnTheLine
  <1>3. CASE (\E pick \in Picks : GetRequests(pick)) \/ SendResponses
    <2>1. /\ UNCHANGED line
          /\ \/ half = "request" /\ half' = "exchange"
             \/ half = "response" /\ half' = "request"
      BY <1>3 DEF GetRequests, SendResponses
    <2>2. Places(d)' = Places(d)
      BY <2>1 DEF Places, Own
    <2>3. Place(d)' = Place(d)
      BY <2>2 DEF Place
    <2>4. ToInputs(d)' < ToInputs(d)
      BY <1>1, <1>2, <2>1, <2>3 DEF ToInputs
    <2> QED  BY <1>1, <2>2, <2>4 DEF OnTheLine
  <1>4. CASE Exchange
    <2>1. half = "exchange" /\ half' = "response" /\ fresh'
      BY <1>4 DEF Exchange
    <2>2. CASE Place(d) = Lag
      <3>1. Own(d, inputs'[d.gateway])
        BY <1>2, <1>4, <2>2, AnswerGoesOn
      <3>2. Own(d, inputs[d.gateway])'
        BY <3>1 DEF Own
      <3> QED  BY <1>1, <2>1, <3>2 DEF Arrived
    <2>3. CASE Place(d) # Lag
      <3>1. Place(d) + 1 \in Places(d)'
        BY <1>2, <1>4, <2>3, AnswerGoesOn
      <3>2. (Places(d) # {} => /\ Place(d) \in Places(d) /\ Place(d) \in 1..Lag
                               /\ \A j \in Places(d) : j <= Place(d))'
        BY PlaceIsFarthest, PTL
      <3>3. Place(d)' \in 1..Lag /\ Place(d) + 1 <= Place(d)'
        BY <3>1, <3>2
      <3>4. ToInputs(d)' < ToInputs(d)
        BY <1>1, <1>2, <2>1, <3>3 DEF ToInputs
      <3> QED  BY <1>1, <3>1, <3>4 DEF OnTheLine
    <2> QED  BY <2>2, <2>3
  <1> QED  BY <1>3, <1>4, PeaceSteps DEF OnTheLine

\* In the next step of the bus thread the device is given its answer.
LEMMA HearsNext ==
  ASSUME NEW d \in Entries, DispatchInv, Arrived(d), HandCycle, [HandNext]_handDispatchVars
  PROVE  Hears(d)'
  <1>1. SendResponses
    BY PeaceSteps DEF Arrived, GetRequests, Exchange
  <1>2. given'[d] = inputs[d.gateway][d.passage]
    BY <1>1, ArrivedInTurn DEF SendResponses
  <1> QED  BY <1>2 DEF Hears, Arrived, Own

\* The ranks are natural numbers.
LEMMA RanksAreNat ==
  ASSUME NEW d \in Entries
  PROVE  /\ ToLine(d) \in 1..7
         /\ OnTheLine(d) => ToInputs(d) \in Nat
  <1>1. ToLine(d) \in 1..7
    BY DEF ToLine
  <1>2. ASSUME OnTheLine(d) PROVE ToInputs(d) \in Nat
    <2>1. Place(d) \in 1..Lag /\ Lag \in Nat
      BY <1>2, PlaceIsFarthest, DispatchAssumption DEF OnTheLine, DispatchAssumption
    <2> QED  BY <2>1 DEF ToInputs
  <1> QED  BY <1>1, <1>2

\* Within n steps, or fewer, to the line.
Near(d, n) == Peace(d) /\ ToLine(d) <= n
OneNearer(d, n) == Near(d, n) ~> (OnTheLine(d) \/ Near(d, n - 1))

\* What is not a step of the bus thread changes nothing of the way.
LEMMA OthersWait ==
  ASSUME NEW d \in Entries, Peace(d), [HandNext]_handDispatchVars, ~HandCycle
  PROVE  /\ ToLine(d)' = ToLine(d) /\ ToInputs(d)' = ToInputs(d)
         /\ OnTheLine(d) => OnTheLine(d)'
         /\ Arrived(d) => Arrived(d)'
  <1>1. UNCHANGED <<devices, slaveModes, curTsMode, half, outputs, inputs, line, fresh, calm>>
    BY PeaceSteps DEF dispatchVars
  <1>2. /\ Asked(d)' <=> Asked(d)
        /\ Served(d)' <=> Served(d)
        /\ Places(d)' = Places(d)
        /\ Own(d, inputs[d.gateway])' <=> Own(d, inputs[d.gateway])
    BY <1>1 DEF Asked, Served, Kind, Places, Own
  <1>3. Place(d)' = Place(d)
    BY <1>2 DEF Place
  <1>4. Peace(d)'
    BY PeaceSteps
  <1> QED  BY <1>1, <1>2, <1>3, <1>4 DEF ToLine, ToInputs, OnTheLine, Arrived

LEMMA LineComesNearer ==
  ASSUME [](half # "load" => ENABLED <<HandCycle>>_handDispatchVars),
         NEW d \in Entries, NEW n \in Int
  PROVE  HandSpec => OneNearer(d, n)
  <1> DEFINE Here == Near(d, n)
             Gone == OnTheLine(d) \/ Near(d, n - 1)
  <1>1. DispatchInv /\ Here /\ [HandNext]_handDispatchVars => Here' \/ Gone'
    <2> SUFFICES ASSUME DispatchInv, Here, [HandNext]_handDispatchVars PROVE Here' \/ Gone'
      OBVIOUS
    <2>1. Peace(d)' /\ ToLine(d) \in Int /\ (ToLine(d) \in 1..7)'
      <3>1. (ToLine(d) \in 1..7)'
        BY RanksAreNat, PTL
      <3> QED  BY <3>1, PeaceSteps, RanksAreNat DEF Near
    <2>2. CASE HandCycle
      BY <2>1, <2>2, NearerToLine DEF Near, OnTheLine
    <2>3. CASE ~HandCycle
      BY <2>1, <2>3, OthersWait DEF Near
    <2> QED  BY <2>2, <2>3
  <1>2. DispatchInv /\ Here /\ [HandNext]_handDispatchVars /\ <<HandCycle>>_handDispatchVars
           => Gone'
    <2> SUFFICES ASSUME DispatchInv, Here, [HandNext]_handDispatchVars, HandCycle PROVE Gone'
      OBVIOUS
    <2>1. Peace(d)' /\ ToLine(d) \in Int /\ (ToLine(d) \in 1..7)'
      <3>1. (ToLine(d) \in 1..7)'
        BY RanksAreNat, PTL
      <3> QED  BY <3>1, PeaceSteps, RanksAreNat DEF Near
    <2> QED  BY <2>1, NearerToLine DEF Near, OnTheLine
  <1>3. Here => half # "load"
    BY DEF Near, Peace, Heeded
  <1> HIDE DEF Here, Gone
  <1>4. HandSpec => (Here ~> Gone)
    BY <1>1, <1>2, <1>3, DispatchInvariant, PTL DEF HandSpec
  <1> QED  BY <1>4 DEF Here, Gone, OneNearer

\* In peace the device's frame comes to the line: in at most seven steps.
ComesToLine(d) == Peace(d) ~> OnTheLine(d)

LEMMA FrameComesToLine ==
  ASSUME [](half # "load" => ENABLED <<HandCycle>>_handDispatchVars), NEW d \in Entries
  PROVE  HandSpec => ComesToLine(d)
  <1>1. HandSpec => \A n \in Int : OneNearer(d, n)
    BY LineComesNearer
  <1>2. HandSpec => /\ OneNearer(d, 7) /\ OneNearer(d, 6) /\ OneNearer(d, 5)
                    /\ OneNearer(d, 4) /\ OneNearer(d, 3) /\ OneNearer(d, 2)
                    /\ OneNearer(d, 1)
    BY <1>1
  <1>3. /\ Near(d, 7 - 1) <=> Near(d, 6)
        /\ Near(d, 6 - 1) <=> Near(d, 5)
        /\ Near(d, 5 - 1) <=> Near(d, 4)
        /\ Near(d, 4 - 1) <=> Near(d, 3)
        /\ Near(d, 3 - 1) <=> Near(d, 2)
        /\ Near(d, 2 - 1) <=> Near(d, 1)
        /\ ~Near(d, 1 - 1)
    BY RanksAreNat DEF Near
  <1>4. Peace(d) => Near(d, 7)
    BY RanksAreNat DEF Near
  <1> QED  BY <1>2, <1>3, <1>4, PTL DEF OneNearer, ComesToLine

\* The rule of descent on the natural numbers, for states: from P one comes to Q
\* if from P with R = n one comes to Q, or to P with a smaller R, for every n.
\* It holds of every behaviour; theorems take the instances they need of it.
ByDescent(P, Q, R) ==
    /\ [](P => R \in Nat)
    /\ \A n \in Nat : (P /\ R = n) ~> (Q \/ (P /\ R < n))
    => (P ~> Q)

\* From n steps to the inputs one comes to fewer.
AnswerNearer(d, n) ==
    (OnTheLine(d) /\ ToInputs(d) = n) ~> (Arrived(d) \/ (OnTheLine(d) /\ ToInputs(d) < n))

LEMMA AnswerComesNearer ==
  ASSUME [](half # "load" => ENABLED <<HandCycle>>_handDispatchVars),
         NEW d \in Entries, NEW n \in Nat
  PROVE  HandSpec => AnswerNearer(d, n)
  <1> DEFINE Here == OnTheLine(d) /\ ToInputs(d) = n
             Gone == Arrived(d) \/ (OnTheLine(d) /\ ToInputs(d) < n)
  <1>1. DispatchInv /\ Here /\ [HandNext]_handDispatchVars => Here' \/ Gone'
    BY NearerToInputs, OthersWait DEF OnTheLine
  <1>2. DispatchInv /\ Here /\ [HandNext]_handDispatchVars /\ <<HandCycle>>_handDispatchVars
           => Gone'
    BY NearerToInputs
  <1>3. Here => half # "load"
    BY DEF OnTheLine, Peace, Heeded
  <1> HIDE DEF Here, Gone
  <1>4. HandSpec => (Here ~> Gone)
    BY <1>1, <1>2, <1>3, DispatchInvariant, PTL DEF HandSpec
  <1> QED  BY <1>4 DEF Here, Gone, AnswerNearer

\* The answer in the inputs is given to the device.
IsGiven(d) == Arrived(d) ~> Hears(d)

LEMMA ArrivedIsGiven ==
  ASSUME [](half # "load" => ENABLED <<HandCycle>>_handDispatchVars), NEW d \in Entries
  PROVE  HandSpec => IsGiven(d)
  <1>1. DispatchInv /\ Arrived(d) /\ [HandNext]_handDispatchVars => Arrived(d)' \/ Hears(d)'
    BY HearsNext, OthersWait DEF Arrived
  <1>2. DispatchInv /\ Arrived(d) /\ [HandNext]_handDispatchVars
          /\ <<HandCycle>>_handDispatchVars => Hears(d)'
    BY HearsNext
  <1>3. Arrived(d) => half # "load"
    BY DEF Arrived
  <1> QED  BY <1>1, <1>2, <1>3, DispatchInvariant, PTL DEF HandSpec, IsGiven

LEMMA DeviceIsHeard ==
  ASSUME [](half # "load" => ENABLED <<HandCycle>>_handDispatchVars), NEW d \in Entries
  PROVE  ByDescent(OnTheLine(d), Arrived(d), ToInputs(d)) => (HandSpec => IsHeard(d))
  <1>1. HandSpec => \A n \in Nat : AnswerNearer(d, n)
    BY AnswerComesNearer
  <1>2. OnTheLine(d) => ToInputs(d) \in Nat
    BY RanksAreNat
  <1>3. HandSpec /\ ByDescent(OnTheLine(d), Arrived(d), ToInputs(d))
           => (OnTheLine(d) ~> Arrived(d))
    BY <1>1, <1>2, PTL DEF ByDescent, AnswerNearer
  <1>4. HandSpec => ComesToLine(d) /\ IsGiven(d)
    BY FrameComesToLine, ArrivedIsGiven
  <1>5. calm /\ Heeded(d) => Peace(d)
    BY DEF Peace
  <1> QED  BY <1>3, <1>4, <1>5, PTL DEF ComesToLine, IsGiven, IsHeard

\* Of the devices of one kind on a passage the one registered last is heard of,
\* for any gateways, modes, devices and delay: its request is on the line within
\* seven steps of the bus thread, and the answer comes in a turn of the device
\* because the turns are as they were when it was asked.  By the fairness of the
\* bus thread, and descent along the line.
THEOREM LastRegisteredIsHeard ==
  ASSUME [](half # "load" => ENABLED <<HandCycle>>_handDispatchVars),
         \A d \in Entries : ByDescent(OnTheLine(d), Arrived(d), ToInputs(d))
  PROVE  HandSpec => LastRegisteredHears
  <1>1. ASSUME NEW d \in Entries PROVE HandSpec => IsHeard(d)
    BY DeviceIsHeard
  <1>2. HandSpec => \A d \in Entries : IsHeard(d)
    BY <1>1
  <1> QED  BY <1>2 DEF LastRegisteredHears
=============================================================================
