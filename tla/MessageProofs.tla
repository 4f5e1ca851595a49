---------------------------- MODULE MessageProofs ----------------------------
(***************************************************************************)
(* Proofs about the messages that pass through the node: those of          *)
(* PublishLoop, for any topics and any number of messages and subscribers, *)
(* who gets them and that they get there; and those of CommandFanout, for  *)
(* any number of motors, any order of the commands in a message and any    *)
(* number of messages.                                                     *)
(***************************************************************************)
EXTENDS PublishLoop, CommandFanout, TLAPS

-----------------------------------------------------------------------------
(* PublishLoop *)

\* What the provers need to know of the two sequences.
LEMMA Shapes ==
  ASSUME PublishTypeOK
  PROVE  /\ Len(msgs) \in Nat /\ Len(subs) \in Nat /\ Len(msgs) <= MaxMsgs
         /\ popped \in Nat /\ popped <= Len(msgs)
         /\ current \in Nat /\ current <= Len(subs) /\ at \in Nat /\ at >= 1
         /\ \A s \in 1..Len(subs) : subs[s].since \in Nat /\ subs[s].topic \in Topic
         /\ \A k \in 1..MaxMsgs : threw[k] \in Nat
  <1>1. Len(msgs) \in Nat /\ Len(subs) \in Nat
    BY DEF PublishTypeOK
  <1>2. \A s \in 1..Len(subs) : subs[s] \in Subscription
    BY DEF PublishTypeOK
  <1>3. \A s \in 1..Len(subs) : subs[s].since \in Nat /\ subs[s].topic \in Topic
    BY <1>2 DEF Subscription
  <1> QED  BY <1>1, <1>3 DEF PublishTypeOK

\* The invariant holds before anything is pushed or subscribed.
LEMMA InitInv == PublishInit => PublishInv
  <1> SUFFICES ASSUME PublishInit PROVE PublishInv
    OBVIOUS
  <1> USE PublishAssumption DEF PublishInit
  <1>0. telling \in BOOLEAN
    OBVIOUS
  <1>1. PublishTypeOK
    <2>1. msgs \in Seq(Topic \cup {Native}) /\ Len(msgs) = 0 /\ subs \in Seq(Subscription) /\ Len(subs) = 0
      OBVIOUS
    <2>2. threw \in [1..MaxMsgs -> Nat]
      OBVIOUS
    <2> QED  BY <2>1, <2>2 DEF PublishTypeOK
  <1>2. Counted
    BY DEF Counted
  <1>3. Publishing
    BY DEF Publishing, Finished
  <1>4. HeardInTurn
    BY DEF HeardInTurn
  <1>5. Served
    BY DEF Served
  <1> QED  BY <1>0, <1>1, <1>2, <1>3, <1>4, <1>5 DEF PublishInv

\* A step that leaves the publishing thread alone, and the messages and the
\* subscribers it already knows, keeps the invariant.
LEMMA OutsideKeepsInv ==
  ASSUME PublishInv, telling' \in BOOLEAN, PublishTypeOK',
         UNCHANGED <<popped, sent, current, at, heard, threw>>,
         pub' = pub \/ (pub = "wait" /\ pub' = "drain"),
         \A k \in 1..popped : msgs'[k] = msgs[k],
         Len(subs') >= Len(subs),
         \A s \in 1..Len(subs) : subs'[s] = subs[s],
         \A s \in 1..Len(subs') : s \notin 1..Len(subs) => subs'[s].since = popped
  PROVE  PublishInv'
  <1> USE Shapes DEF PublishInv
  <1>1. \A k : Finished(k)' <=> Finished(k)
    BY DEF Finished
  <1>2. \A s \in 1..Len(subs), k \in 1..popped : Owed(s, k)' <=> Owed(s, k)
    BY DEF Owed
  <1>3. \A s \in 1..Len(subs'), k \in 1..popped : s \notin 1..Len(subs) => ~Owed(s, k)'
    BY DEF Owed
  <1>4. Counted'
    BY DEF Counted
  <1>5. Publishing'
    <2>1. \A s \in 1..Len(subs') : (subs[s].since <= popped)'
      BY DEF Publishing
    <2>2. \A k \in 1..MaxMsgs : (~Finished(k) => threw[k] = 0)'
      BY <1>1 DEF Publishing
    <2>3. pub' = "call" => \A s \in 1..Len(subs') : (subs[s].since < popped => s <= current)'
      BY DEF Publishing
    <2>4. pub' = "call" => popped \in 1..popped
      BY DEF Counted, PublishTypeOK
    <2>5. pub' = "call" => \A s \in 1..Len(subs') : (s < at /\ Owed(s, popped) => <<s, popped>> \in heard)'
      BY <1>2, <1>3, <2>4 DEF Publishing
    <2> QED  BY <2>1, <2>2, <2>3, <2>5 DEF Publishing
  <1>6. HeardInTurn'
    BY DEF HeardInTurn
  <1>7. Served'
    BY <1>1, <1>2, <1>3 DEF Served
  <1> QED  BY <1>4, <1>5, <1>6, <1>7

\* The bus thread appends a message.
LEMMA PushKeepsInv == PublishInv /\ Push => PublishInv'
  <1> SUFFICES ASSUME PublishInv, Push PROVE PublishInv'
    OBVIOUS
  <1> USE Shapes DEF PublishInv
  <1>1. PICK t \in Topic \cup {Native} : msgs' = Append(msgs, t)
    BY DEF Push
  <1>2. /\ msgs' \in Seq(Topic \cup {Native})
        /\ Len(msgs') = Len(msgs) + 1
        /\ \A k \in 1..Len(msgs) : msgs'[k] = msgs[k]
    BY <1>1 DEF PublishTypeOK
  <1>3. /\ telling' = TRUE
        /\ UNCHANGED <<pub, popped, sent, subs, current, at, heard, threw>>
        /\ Len(msgs) < MaxMsgs
    BY DEF Push
  <1>4. PublishTypeOK'
    BY <1>2, <1>3, PublishAssumption DEF PublishTypeOK
  <1>5. \A k \in 1..popped : msgs'[k] = msgs[k]
    BY <1>2
  <1> QED  BY <1>3, <1>4, <1>5, OutsideKeepsInv

\* The bus thread notifies.
LEMMA NotifyKeepsInv == PublishInv /\ Notify => PublishInv'
  <1> SUFFICES ASSUME PublishInv, Notify PROVE PublishInv'
    OBVIOUS
  <1>1. /\ telling' = FALSE
        /\ pub' = IF pub = "wait" THEN "drain" ELSE pub
        /\ UNCHANGED <<msgs, popped, sent, subs, current, at, heard, threw>>
    BY DEF Notify
  <1>2. PublishTypeOK'
    BY <1>1 DEF PublishInv, PublishTypeOK
  <1>3. Len(subs) \in Nat /\ UNCHANGED <<subs, msgs>>
    BY <1>1, Shapes DEF PublishInv
  <1>4. telling' \in BOOLEAN /\ (pub' = pub \/ (pub = "wait" /\ pub' = "drain"))
    BY <1>1
  <1>5. /\ Len(subs') >= Len(subs)
        /\ \A s \in 1..Len(subs) : subs'[s] = subs[s]
        /\ \A s \in 1..Len(subs') : s \notin 1..Len(subs) => subs'[s].since = popped
        /\ \A k \in 1..popped : msgs'[k] = msgs[k]
    BY <1>3
  <1> QED  BY <1>1, <1>2, <1>4, <1>5, OutsideKeepsInv

\* A new subscriber is owed nothing that was popped before it joined.
LEMMA SubscribeKeepsInv == PublishInv /\ Subscribe => PublishInv'
  <1> SUFFICES ASSUME PublishInv, Subscribe PROVE PublishInv'
    OBVIOUS
  <1> USE Shapes DEF PublishInv
  <1>1. PICK t \in Topic : subs' = Append(subs, [topic |-> t, since |-> popped])
    BY DEF Subscribe
  <1> DEFINE new == [topic |-> t, since |-> popped]
  <1>2. new \in Subscription /\ new.since = popped
    BY DEF Subscription
  <1> HIDE DEF new
  <1>3. subs \in Seq(Subscription) /\ subs' = Append(subs, new)
    BY <1>1 DEF PublishTypeOK, new
  <1>4. /\ subs' \in Seq(Subscription)
        /\ Len(subs') = Len(subs) + 1
        /\ \A s \in 1..Len(subs) : subs'[s] = subs[s]
        /\ subs'[Len(subs) + 1] = new
    <2>1. ASSUME NEW S, NEW q \in Seq(S), NEW x \in S
          PROVE  /\ Append(q, x) \in Seq(S) /\ Len(Append(q, x)) = Len(q) + 1
                 /\ \A i \in 1..Len(q) : Append(q, x)[i] = q[i]
                 /\ Append(q, x)[Len(q) + 1] = x
      OBVIOUS
    <2> QED  BY <1>2, <1>3, <2>1
  <1>5. UNCHANGED <<msgs, telling, pub, popped, sent, current, at, heard, threw>>
    BY DEF Subscribe, busVars
  <1>6. PublishTypeOK'
    BY <1>4, <1>5 DEF PublishTypeOK
  <1>7. \A s \in 1..Len(subs') : s \notin 1..Len(subs) => subs'[s].since = popped
    BY <1>2, <1>4
  <1> QED  BY <1>4, <1>5, <1>6, <1>7, OutsideKeepsInv

\* Looking for messages and waiting leave everything else alone.
LEMMA IdleKeepsInv == PublishInv /\ (FindEmpty \/ Wait \/ Timeout) => PublishInv'
  <1> SUFFICES ASSUME PublishInv, FindEmpty \/ Wait \/ Timeout PROVE PublishInv'
    OBVIOUS
  <1> USE DEF PublishInv
  <1>1. /\ pub \in {"drain", "tired", "wait"} /\ pub' \in {"drain", "tired", "wait"}
        /\ UNCHANGED <<msgs, telling, popped, sent, subs, current, at, heard, threw>>
    BY DEF FindEmpty, Wait, Timeout, busVars
  <1>2. \A k : Finished(k)' <=> Finished(k)
    BY <1>1 DEF Finished
  <1>3. \A s, k : Owed(s, k)' <=> Owed(s, k)
    BY <1>1 DEF Owed
  <1>4. PublishTypeOK'
    BY <1>1 DEF PublishTypeOK
  <1>5. Counted'
    BY <1>1 DEF Counted
  <1>6. Publishing'
    BY <1>1, <1>2 DEF Publishing
  <1>7. HeardInTurn'
    BY <1>1 DEF HeardInTurn
  <1>8. Served'
    BY <1>1, <1>2, <1>3 DEF Served
  <1> QED  BY <1>1, <1>4, <1>5, <1>6, <1>7, <1>8

\* A popped message is heard by nobody yet; one for ROS only is owed to nobody.
LEMMA PopKeepsInv == PublishInv /\ PopMessage => PublishInv'
  <1> SUFFICES ASSUME PublishInv, PopMessage PROVE PublishInv'
    OBVIOUS
  <1> USE Shapes DEF PublishInv
  <1>1. /\ pub = "drain" /\ popped < Len(msgs) /\ popped' = popped + 1
        /\ pub' = IF msgs[popped + 1] = Native THEN "ros" ELSE "lists"
        /\ UNCHANGED <<msgs, telling, sent, subs, current, at, heard, threw>>
    BY DEF PopMessage, busVars
  <1>2. \A k \in 1..popped : Finished(k) /\ Finished(k)'
    BY <1>1 DEF Finished
  <1>3. \A k \in 1..MaxMsgs : ~Finished(k)' => ~Finished(k)
    BY <1>1 DEF Finished
  <1>4. \A s, k : Owed(s, k)' <=> Owed(s, k)
    BY <1>1 DEF Owed
  <1>5. \A k : k = popped + 1 /\ Finished(k)' => \A s \in 1..Len(subs) : ~Owed(s, k)
    BY <1>1, PublishAssumption DEF Finished, Owed
  <1>6. PublishTypeOK'
    BY <1>1 DEF PublishTypeOK
  <1>7. Counted'
    BY <1>1 DEF Counted, PublishTypeOK
  <1>8. Publishing'
    BY <1>1, <1>3 DEF Publishing
  <1>9. HeardInTurn'
    <2>1. \A c \in heard : c[1] \in 1..current /\ c[2] \in 1..popped
      BY DEF HeardInTurn
    <2>2. popped \in Nat
      OBVIOUS
    <2>3. \A c \in heard : c[2] \in 1..(popped + 1) /\ c[2] # popped + 1
      BY <2>1, <2>2
    <2> QED  BY <1>1, <2>1, <2>3 DEF HeardInTurn
  <1>10. Served'
    <2> SUFFICES ASSUME NEW k \in 1..popped', Finished(k)',
                        NEW s \in 1..Len(subs), Owed(s, k)
                 PROVE  <<s, k>> \in heard
      BY <1>1, <1>4 DEF Served
    <2>1. k \in 1..popped
      BY <1>1, <1>5
    <2> QED  BY <1>2, <2>1 DEF Served
  <1> QED  BY <1>1, <1>6, <1>7, <1>8, <1>9, <1>10

\* When queueSubs is found empty, subsCurrent holds everybody who had joined.
LEMMA ListsKeepInv == PublishInv /\ (PopList \/ ListsRead) => PublishInv'
  <1> SUFFICES ASSUME PublishInv, PopList \/ ListsRead PROVE PublishInv'
    OBVIOUS
  <1> USE Shapes DEF PublishInv
  <1>1. /\ pub = "lists" /\ pub' \in {"lists", "call"}
        /\ current' \in Nat /\ current' >= current /\ current' <= Len(subs)
        /\ pub' = "call" => current' = Len(subs) /\ at' = 1
        /\ at' \in Nat \ {0}
        /\ UNCHANGED <<msgs, telling, popped, sent, subs, heard, threw>>
    BY DEF PopList, ListsRead, NewList, busVars
  <1>2. \A k : Finished(k)' <=> Finished(k)
    BY <1>1 DEF Finished
  <1>3. \A s, k : Owed(s, k)' <=> Owed(s, k)
    BY <1>1 DEF Owed
  <1>4. PublishTypeOK'
    BY <1>1 DEF PublishTypeOK
  <1>5. Counted'
    BY <1>1 DEF Counted
  <1>6. Publishing'
    BY <1>1, <1>2 DEF Publishing
  <1>7. HeardInTurn'
    BY <1>1 DEF HeardInTurn
  <1>8. Served'
    BY <1>1, <1>2, <1>3 DEF Served
  <1> QED  BY <1>1, <1>4, <1>5, <1>6, <1>7, <1>8

\* The publishing thread leaves the list, done or cut short, and hands the
\* message to ROS.
LEMMA EndKeepsInv == PublishInv /\ (CallsDone \/ SendToRos) => PublishInv'
  <1> SUFFICES ASSUME PublishInv, CallsDone \/ SendToRos PROVE PublishInv'
    OBVIOUS
  <1> USE Shapes DEF PublishInv
  <1>1. /\ pub \in {"call", "ros"} /\ pub' \in {"ros", "drain"}
        /\ pub = "call" => at > current
        /\ IF pub = "call" THEN pub' = "ros" /\ sent' = sent
                           ELSE pub' = "drain" /\ sent' = sent + 1
        /\ UNCHANGED <<msgs, telling, popped, subs, current, at, heard, threw>>
    BY DEF CallsDone, SendToRos, busVars
  <1>2. \A k : Finished(k)' <=> Finished(k) \/ (k = popped /\ pub = "call")
    BY <1>1 DEF Finished
  <1>3. \A s, k : Owed(s, k)' <=> Owed(s, k)
    BY <1>1 DEF Owed
  <1>4. PublishTypeOK'
    BY <1>1 DEF PublishTypeOK
  <1>5. Counted'
    BY <1>1 DEF Counted, PublishTypeOK
  <1>6. Publishing'
    BY <1>1, <1>2 DEF Publishing
  <1>7. HeardInTurn'
    BY <1>1 DEF HeardInTurn
  <1>8. \A k : k = popped /\ pub = "call" => \A s \in 1..Len(subs) : Owed(s, k) => <<s, k>> \in heard
    BY <1>1 DEF Publishing, Owed
  <1>9. Served'
    BY <1>1, <1>2, <1>3, <1>8 DEF Served
  <1> QED  BY <1>1, <1>4, <1>5, <1>6, <1>7, <1>9

\* One step of the loop over the subscribers: to the next one, which was called
\* if the topic is its own, or out of the loop by an exception.
LEMMA CallKeepsInv == PublishInv /\ CallSubscriber => PublishInv'
  <1> SUFFICES ASSUME PublishInv, CallSubscriber PROVE PublishInv'
    OBVIOUS
  <1> USE Shapes DEF PublishInv
  <1>0. at \in 1..Len(subs) /\ at \in 1..current /\ popped \in 1..MaxMsgs /\ popped \in 1..popped
    BY PublishAssumption DEF CallSubscriber, Counted, PublishTypeOK
  <1>1. /\ pub = "call"
        /\ UNCHANGED <<msgs, telling, popped, sent, subs, current>>
    BY DEF CallSubscriber, busVars
  <1>2. heard' \subseteq heard \cup {<<at, popped>>} /\ heard \subseteq heard'
    BY DEF CallSubscriber
  <1>3. \/ pub' = "call" /\ at' = at + 1 /\ threw' = threw
        \/ pub' = "ros" /\ at' = at /\ threw' = [threw EXCEPT ![popped] = at]
    BY DEF CallSubscriber, AfterThrow
  <1>4. Owed(at, popped) => <<at, popped>> \in heard'
    BY DEF CallSubscriber, Owed
  <1>5. threw[popped] = 0
    BY <1>0, <1>1 DEF Publishing, Finished
  <1>6. \A k \in 1..MaxMsgs : k # popped => threw'[k] = threw[k]
    BY <1>3 DEF PublishTypeOK
  <1>7. \A k : Finished(k)' <=> Finished(k) \/ (k = popped /\ pub' = "ros")
    BY <1>1, <1>3 DEF Finished
  <1>8. \A s, k : k \in 1..popped /\ k # popped => (Owed(s, k)' <=> Owed(s, k))
    <2>1. \A k \in 1..popped : k # popped => threw'[k] = threw[k]
      BY <1>0, <1>6, PublishAssumption
    <2> QED  BY <1>1, <2>1 DEF Owed
  <1>9. \A s \in 1..Len(subs) : Owed(s, popped)' => Owed(s, popped)
    BY <1>0, <1>1, <1>5 DEF Owed
  <1>10. \A s \in 1..Len(subs) : s < at /\ Owed(s, popped) => <<s, popped>> \in heard
    BY <1>1 DEF Publishing
  <1>11. PublishTypeOK'
    BY <1>0, <1>1, <1>2, <1>3 DEF PublishTypeOK
  <1>12. Counted'
    BY <1>1, <1>3 DEF Counted
  <1>13. Publishing'
    <2>1. \A k \in 1..MaxMsgs : (~Finished(k) => threw[k] = 0)'
      BY <1>0, <1>1, <1>3, <1>6, <1>7 DEF Publishing
    <2>2. pub' = "call" => \A s \in 1..Len(subs) : (s < at /\ Owed(s, popped) => <<s, popped>> \in heard)'
      BY <1>0, <1>1, <1>2, <1>3, <1>4, <1>9, <1>10
    <2>3. \A s \in 1..Len(subs) : subs[s].since <= popped /\ (subs[s].since < popped => s <= current)
      BY <1>1 DEF Publishing
    <2> QED  BY <1>1, <2>1, <2>2, <2>3 DEF Publishing
  <1>14. HeardInTurn'
    <2>1. \A c \in heard : c[1] \in 1..current /\ c[2] \in 1..popped /\ (c[2] = popped => c[1] < at)
      BY <1>1 DEF HeardInTurn
    <2>2. \A c \in heard' : c \in heard \/ (c[1] = at /\ c[2] = popped)
      BY <1>2
    <2>3. \A c \in heard' : c[1] \in 1..current /\ c[2] \in 1..popped /\ (c[2] = popped => c[1] < at + 1)
      BY <1>0, <2>1, <2>2
    <2> QED  BY <1>1, <1>3, <2>3 DEF HeardInTurn
  <1>15. Served'
    <2> SUFFICES ASSUME NEW k \in 1..popped, Finished(k)',
                        NEW s \in 1..Len(subs), Owed(s, k)'
                 PROVE  <<s, k>> \in heard'
      BY <1>1 DEF Served
    <2>1. CASE k # popped
      BY <1>2, <1>7, <1>8, <2>1 DEF Served
    <2>2. CASE k = popped
      <3>0. pub' = "ros"
        BY <1>1, <1>3, <2>2 DEF Finished
      <3>1. threw'[popped] = at
        BY <1>0, <1>3, <3>0 DEF PublishTypeOK
      <3>2. s <= at
        BY <1>0, <3>1, <2>2 DEF Owed
      <3>3. Owed(s, popped)
        BY <1>0, <1>1, <1>5, <2>2 DEF Owed
      <3>4. s \in Nat /\ at \in Nat /\ (s < at \/ s = at)
        BY <1>0, <3>2
      <3> QED  BY <1>2, <1>4, <1>10, <2>2, <3>3, <3>4
    <2> QED  BY <2>1, <2>2
  <1> QED  BY <1>1, <1>11, <1>12, <1>13, <1>14, <1>15

\* Nothing changes.
LEMMA StutterKeepsInv == PublishInv /\ UNCHANGED vars => PublishInv'
  BY DEF PublishInv, PublishTypeOK, Counted, Publishing, HeardInTurn, Served, Finished, Owed,
         vars, busVars

\* The inductive invariant of the publishing thread.
THEOREM PublishInvariant == PublishSpec => []PublishInv
  <1>1. PublishInv /\ [PublishNext]_vars => PublishInv'
    BY PushKeepsInv, NotifyKeepsInv, SubscribeKeepsInv, IdleKeepsInv, PopKeepsInv, ListsKeepInv,
       EndKeepsInv, CallKeepsInv, StutterKeepsInv DEF PublishNext, Publisher
  <1> QED  BY <1>1, InitInv, PTL DEF PublishSpec

\* Every subscriber is called with every message of its topic popped after it
\* joined, unless one before it threw on that message.
THEOREM EverySubscriberServed == PublishSpec => []Served
  <1>1. PublishInv => Served
    BY DEF PublishInv
  <1> QED  BY <1>1, PublishInvariant, PTL

\* Messages reach subscribers in order, each subscriber once.
THEOREM CalledInOrder == PublishSpec => InOrder
  <1> DEFINE Turn == CallSubscriber /\ subs[at].topic = msgs[popped] =>
                       \A c \in heard : c[2] < popped \/ (c[2] = popped /\ c[1] < at)
  <1>1. PublishInv => Turn
    <2> SUFFICES ASSUME PublishInv, CallSubscriber
                 PROVE  \A c \in heard : c[2] < popped \/ (c[2] = popped /\ c[1] < at)
      OBVIOUS
    <2>1. pub = "call" /\ popped \in Nat
      BY Shapes DEF CallSubscriber, PublishInv
    <2>2. \A c \in heard : c[2] \in 1..popped /\ (c[2] = popped => c[1] < at)
      BY <2>1 DEF PublishInv, HeardInTurn
    <2> QED  BY <2>1, <2>2
  <1>2. PublishInv /\ [PublishNext]_vars => [Turn]_vars
    BY <1>1
  <1> HIDE DEF Turn
  <1>3. PublishSpec => [][Turn]_vars
    BY <1>2, PublishInvariant, PTL DEF PublishSpec
  <1> QED  BY <1>3 DEF InOrder, Turn

-----------------------------------------------------------------------------
(* Every message goes out *)

\* The rule of descent on the natural numbers, for states: from P one comes to Q
\* if from P with R = n one comes to Q, or to P with a smaller R, for every n.
\* It holds of every behaviour; theorems take the instances they need of it.
ByDescent(P, Q, R) ==
    /\ [](P => R \in Nat)
    /\ \A n \in Nat : (P /\ R = n) ~> (Q \/ (P /\ R < n))
    => (P ~> Q)

\* Message k was pushed and not yet handed to ROS.
Pending(k) == Len(msgs) >= k /\ sent < k

\* The steps of the publishing thread to the end of the turn it is in, whoever
\* joins meanwhile, and to the end of the turn of message k.
InTurn ==
    CASE pub = "tired" -> 2 * MaxSubs + 6
      [] pub = "wait"  -> 2 * MaxSubs + 5
      [] pub = "drain" -> 2 * MaxSubs + 4
      [] pub = "lists" -> 2 * MaxSubs + 3 - current
      [] pub = "call"  -> IF at > current THEN 2 ELSE current + 3 - at
      [] OTHER         -> 1
ToGo(k) == (k - sent) * (2 * MaxSubs + 7) + InTurn

\* There are never more subscribers than may join.
FewSubs == Len(subs) <= MaxSubs

LEMMA SubsAreFew == PublishSpec => []FewSubs
  <1>1. PublishInit => FewSubs
    BY PublishAssumption DEF PublishInit, FewSubs
  <1>2. PublishInv /\ FewSubs /\ [PublishNext]_vars => FewSubs'
    <2> SUFFICES ASSUME PublishInv, FewSubs, [PublishNext]_vars PROVE FewSubs'
      OBVIOUS
    <2>1. CASE Subscribe
      <3>1. subs \in Seq(Subscription) /\ Len(subs) + 1 <= MaxSubs
        BY <2>1, PublishAssumption DEF PublishInv, PublishTypeOK, Subscribe
      <3>2. Len(subs') = Len(subs) + 1
        BY <2>1, <3>1 DEF Subscribe
      <3> QED  BY <3>1, <3>2 DEF FewSubs
    <2>2. CASE ~Subscribe
      <3>1. subs' = subs
        BY <2>2 DEF PublishNext, Push, Notify, Publisher, PopMessage, PopList, ListsRead,
                    CallSubscriber, CallsDone, SendToRos, FindEmpty, Wait, Timeout, vars
      <3> QED  BY <3>1 DEF FewSubs
    <2> QED  BY <2>1, <2>2
  <1> QED  BY <1>1, <1>2, PublishInvariant, PTL DEF PublishSpec

LEMMA InTurnIsNat == PublishInv /\ FewSubs => InTurn \in Nat
  <1> SUFFICES ASSUME PublishInv, FewSubs PROVE InTurn \in Nat
    OBVIOUS
  <1>1. MaxSubs \in Nat /\ current \in Nat /\ at \in Nat /\ at >= 1 /\ current <= MaxSubs
    BY Shapes, PublishAssumption DEF PublishInv, FewSubs
  <1> QED  BY <1>1 DEF InTurn

LEMMA ToGoIsNat ==
  PublishInv /\ FewSubs => \A k \in 1..MaxMsgs : Pending(k) => ToGo(k) \in Nat
  <1> SUFFICES ASSUME PublishInv, FewSubs, NEW k \in 1..MaxMsgs, Pending(k)
               PROVE  ToGo(k) \in Nat
    OBVIOUS
  <1>1. k - sent \in Nat /\ 2 * MaxSubs + 7 \in Nat
    BY PublishAssumption DEF PublishInv, PublishTypeOK, Pending
  <1>2. \A a, c \in Nat : a * c \in Nat
    OBVIOUS
  <1> QED  BY <1>1, <1>2, InTurnIsNat DEF ToGo

\* While message k is pending the publishing thread always has something to do,
\* every step of it leaves it fewer, and no other step gives it more: neither a
\* push nor a subscriber that joins, nor a notification, lost or not.
LEMMA TurnsGoOn ==
  ASSUME NEW k \in 1..MaxMsgs, PublishInv, PublishInv', FewSubs, FewSubs', Pending(k),
         [PublishNext]_vars
  PROVE  /\ ToGo(k) \in Nat
         /\ sent' >= k \/ Pending(k)'
         /\ Pending(k)' => ToGo(k)' \in Nat /\ ToGo(k)' <= ToGo(k)
         /\ Pending(k)' /\ Publisher => ToGo(k)' < ToGo(k)
  <1>0. /\ MaxSubs \in Nat /\ MaxMsgs \in Nat /\ k \in Nat /\ sent \in Nat /\ sent < k
        /\ Len(msgs) \in Nat /\ popped \in Nat /\ k <= Len(msgs)
        /\ current \in Nat /\ at \in Nat /\ at >= 1 /\ current <= MaxSubs
        /\ popped = sent + (IF pub \in {"lists", "call", "ros"} THEN 1 ELSE 0)
    BY Shapes, PublishAssumption DEF PublishInv, PublishTypeOK, FewSubs, Pending, Counted
  <1>1. InTurn \in Nat /\ InTurn' \in Nat
    <2>1. (PublishInv /\ FewSubs => InTurn \in Nat)'
      BY InTurnIsNat, PTL
    <2> QED  BY <2>1, InTurnIsNat
  <1>2. /\ sent' \in {sent, sent + 1}
        /\ Len(msgs') >= Len(msgs)
    <2>1. sent' \in {sent, sent + 1}
      BY DEF PublishNext, Push, Notify, Publisher, PopMessage, PopList, ListsRead, CallSubscriber,
             CallsDone, SendToRos, FindEmpty, Wait, Timeout, Subscribe, vars
    <2>2. msgs' = msgs \/ Len(msgs') = Len(msgs) + 1
      <3>1. msgs \in Seq(Topic \cup {Native})
        BY DEF PublishInv, PublishTypeOK
      <3>2. CASE Push
        BY <3>1, <3>2 DEF Push
      <3>3. CASE ~Push
        BY <3>3 DEF PublishNext, Notify, Publisher, PopMessage, PopList, ListsRead, CallSubscriber,
                    CallsDone, SendToRos, FindEmpty, Wait, Timeout, Subscribe, vars, busVars
      <3> QED  BY <3>2, <3>3
    <2> QED  BY <1>0, <2>1, <2>2
  <1>3. Publisher => \/ sent' = sent /\ InTurn' < InTurn
                     \/ sent' = sent + 1 /\ InTurn' < InTurn + 2 * MaxSubs + 7
    <2>1. CASE PopMessage
      BY <1>0, <2>1 DEF PopMessage, InTurn
    <2>2. CASE PopList
      BY <1>0, <2>2 DEF PopList, NewList, InTurn
    <2>3. CASE ListsRead
      BY <1>0, <2>3 DEF ListsRead, InTurn
    <2>4. CASE CallSubscriber
      BY <1>0, <2>4 DEF CallSubscriber, AfterThrow, InTurn
    <2>5. CASE CallsDone
      BY <1>0, <2>5 DEF CallsDone, InTurn
    <2>6. CASE SendToRos
      BY <1>0, <2>6 DEF SendToRos, InTurn
    <2>7. CASE FindEmpty
      BY <1>0, <2>7 DEF FindEmpty
    <2>8. CASE Wait \/ Timeout
      BY <1>0, <2>8 DEF Wait, Timeout, InTurn
    <2> QED  BY <2>1, <2>2, <2>3, <2>4, <2>5, <2>6, <2>7, <2>8 DEF Publisher
  <1>4. ~Publisher => sent' = sent /\ InTurn' <= InTurn
    <2>1. CASE Notify
      BY <1>0, <2>1 DEF Notify, InTurn
    <2>2. CASE Push \/ Subscribe \/ UNCHANGED vars
      <3>1. UNCHANGED <<pub, current, at, sent>>
        BY <2>2 DEF Push, Subscribe, vars
      <3>2. InTurn' = InTurn
        BY <3>1 DEF InTurn
      <3> QED  BY <1>1, <3>1, <3>2
    <2> QED  BY <2>1, <2>2 DEF PublishNext
  <1>5. \A a \in Nat \ {0}, c \in Nat :
            a * c \in Nat /\ (a - 1) * c = a * c - c /\ (a - 1) * c \in Nat
    OBVIOUS
  <1>6. k - sent \in Nat \ {0} /\ 2 * MaxSubs + 7 \in Nat
    BY <1>0
  <1> DEFINE full == 2 * MaxSubs + 7
             turns == (k - sent) * full
  <1>7. turns \in Nat /\ ((k - sent) - 1) * full = turns - full /\ turns - full \in Nat
    BY <1>5, <1>6
  <1>8. (sent' = sent => ToGo(k)' = turns + InTurn') /\ ToGo(k) = turns + InTurn
    BY DEF ToGo
  <1>9. sent' = sent + 1 => ToGo(k)' = turns - full + InTurn'
    <2> SUFFICES ASSUME sent' = sent + 1 PROVE ToGo(k)' = turns - full + InTurn'
      OBVIOUS
    <2>1. k - sent' = (k - sent) - 1
      BY <1>0
    <2> QED  BY <1>7, <2>1 DEF ToGo
  <1>10. Pending(k)' <=> Len(msgs') >= k /\ sent' < k
    BY DEF Pending
  <1> QED  BY <1>0, <1>1, <1>2, <1>3, <1>4, <1>6, <1>7, <1>8, <1>9, <1>10

\* The publishing thread can take a step: the guards of its actions.
PublisherCan ==
    \/ pub \in {"lists", "call", "ros", "tired"}
    \/ pub = "drain" /\ popped <= Len(msgs)
    \/ pub = "wait" /\ TimesOut

\* From n steps one comes to fewer.  By the fairness of the publishing thread.
Nearer(k, n) == (Pending(k) /\ ToGo(k) = n) ~> (sent >= k \/ (Pending(k) /\ ToGo(k) < n))

LEMMA ToGoFalls ==
  ASSUME [](PublisherCan => ENABLED <<Publisher>>_vars), NEW k \in 1..MaxMsgs, NEW n \in Nat
  PROVE  PublishSpec => Nearer(k, n)
  <1> DEFINE Here == Pending(k) /\ ToGo(k) = n
             Gone == sent >= k \/ (Pending(k) /\ ToGo(k) < n)
  <1>1. PublishInv /\ PublishInv' /\ FewSubs /\ FewSubs' /\ Here /\ [PublishNext]_vars =>
            Here' \/ Gone'
    <2> SUFFICES ASSUME PublishInv, PublishInv', FewSubs, FewSubs', Here, [PublishNext]_vars
                 PROVE  Here' \/ Gone'
      OBVIOUS
    <2>1. /\ ToGo(k) = n /\ (sent' >= k \/ Pending(k)')
          /\ Pending(k)' => ToGo(k)' \in Nat /\ ToGo(k)' <= n
      BY TurnsGoOn
    <2> QED  BY <2>1
  <1>2. PublishInv /\ PublishInv' /\ FewSubs /\ FewSubs' /\ Here /\ [PublishNext]_vars
          /\ <<Publisher>>_vars => Gone'
    BY TurnsGoOn
  <1>3. PublishInv => PublisherCan
    <2>1. PublishInv => popped <= Len(msgs)
      BY Shapes DEF PublishInv
    <2> QED  BY <2>1 DEF PublisherCan, TimesOut, PublishInv, PublishTypeOK
  <1> HIDE DEF Here, Gone
  <1>4. PublishSpec => (Here ~> Gone)
    BY <1>1, <1>2, <1>3, PublishInvariant, SubsAreFew, PTL DEF PublishSpec
  <1> QED  BY <1>4 DEF Here, Gone, Nearer

Published(k) == Len(msgs) >= k ~> sent >= k

LEMMA MessagePublished ==
  ASSUME [](PublisherCan => ENABLED <<Publisher>>_vars), NEW k \in 1..MaxMsgs
  PROVE  ByDescent(Pending(k), sent >= k, ToGo(k)) => (PublishSpec => Published(k))
  <1>1. PublishSpec => \A n \in Nat : Nearer(k, n)
    BY ToGoFalls
  <1>2. PublishInv /\ FewSubs => (Pending(k) => ToGo(k) \in Nat)
    BY ToGoIsNat
  <1>3. PublishInv => (Len(msgs) >= k => Pending(k) \/ sent >= k)
    <2>1. PublishInv => sent \in Nat /\ k \in Nat
      BY PublishAssumption DEF PublishInv, PublishTypeOK
    <2> QED  BY <2>1 DEF Pending
  <1>4. PublishSpec /\ ByDescent(Pending(k), sent >= k, ToGo(k)) => (Pending(k) ~> (sent >= k))
    BY <1>1, <1>2, PublishInvariant, SubsAreFew, PTL DEF ByDescent, Nearer
  <1> QED  BY <1>3, <1>4, PublishInvariant, PTL DEF Published

\* Every message pushed reaches ROS, for any topics and any number of messages and
\* subscribers, although notifications are lost and subscribers join and throw.
\* By descent and the fairness of the publishing thread, which waits for a limited
\* time; the hypotheses say when fairness applies, and are the instances of the rule.
THEOREM AllMessagesPublished ==
  ASSUME [](PublisherCan => ENABLED <<Publisher>>_vars),
         \A k \in 1..MaxMsgs : ByDescent(Pending(k), sent >= k, ToGo(k))
  PROVE  PublishSpec => EveryMessagePublished
  <1>1. ASSUME NEW k \in 1..MaxMsgs PROVE PublishSpec => Published(k)
    BY MessagePublished
  <1>2. PublishSpec => \A k \in 1..MaxMsgs : Published(k)
    BY <1>1
  <1> QED  BY <1>2 DEF EveryMessagePublished, Published

-----------------------------------------------------------------------------
(* CommandFanout *)

\* Motors are numbers.
LEMMA MotorsAreNat == M \in Nat \ {0} /\ \A m : m \in Motors <=> m \in Nat /\ 1 <= m /\ m <= M
  <1>1. M \in Nat \ {0}
    BY FanoutAssumption
  <1> QED  BY <1>1 DEF Motors

\* All queues were filled up to the message received last, or to the one
\* before it: the executor thread distributes one message at a time.
LEMMA PushedTogether ==
  ASSUME FanoutTypeOK, NEW a \in Motors
  PROVE  pushed[a] \in {received - 1, received} /\ (next = 0 => pushed[a] = received)
  <1> PICK i \in Motors : Order[i] = a
    BY FanoutAssumption
  <1> QED  BY DEF FanoutTypeOK, Motors

\* Therefore a motor two messages behind has a frame waiting.
LEMMA BehindHasFrame ==
  ASSUME FanoutTypeOK, NEW a \in Motors, NEW b \in Motors
  PROVE  asked[a] <= pushed[b] + 1
  <1>1. asked[a] <= pushed[a] /\ asked[a] \in Nat /\ pushed[a] \in Nat /\ pushed[b] \in Nat
        /\ received \in Nat
    BY DEF FanoutTypeOK
  <1>2. pushed[a] <= received /\ received - 1 <= pushed[b]
    BY <1>1, PushedTogether
  <1> QED  BY <1>1, <1>2

\* The queues are empty and the stop of the constructor counts as sent.
LEMMA FanoutInvInit == FanoutInit => FanoutInv
  <1>1. FanoutInit => theirs \in BOOLEAN
    BY Zenon DEF FanoutInit
  <1> QED
    <2> SUFFICES ASSUME FanoutInit PROVE FanoutInv
      OBVIOUS
    <2>1. FanoutTypeOK
      <3>1. Order \in [Motors -> Motors] /\ M \in Nat \ {0} /\ MaxReceived \in Nat
        BY FanoutAssumption
      <3>2. 1 \in 1..(M + 1) /\ 0 \in 0..M /\ 0 \in 0..MaxReceived
        BY <3>1
      <3> QED  BY <1>1, <3>1, <3>2 DEF FanoutInit, FanoutTypeOK
    <2>2. \A a, b \in Motors : asked[a] = 0 /\ asked[b] = 0 /\ Lead(a, b) \in Nat
      BY DEF FanoutInit, Lead
    <2> QED  BY <2>1, <2>2 DEF FanoutInv

\* Whether a motor was asked is as it was while its turn and the kind of cycle are.
LEMMA SamePassed ==
  ASSUME UNCHANGED <<turn, shared, theirs>>, NEW a \in Motors, NEW b \in Motors
  PROVE  Lead(a, b)' = Lead(a, b) /\ (AsOften(a, b)' <=> AsOften(a, b))
  <1>1. \A m : Passed(m)' <=> Passed(m)
    BY DEF Passed, HasTurn
  <1> QED  BY <1>1 DEF Lead, AsOften

\* Receiving a message changes no queue.
LEMMA FanoutReceive == FanoutInv /\ Receive => FanoutInv'
  <1> SUFFICES ASSUME FanoutInv, Receive PROVE FanoutInv'
    OBVIOUS
  <1>1. FanoutTypeOK'
    <2>1. received' \in 0..MaxReceived /\ received' = received + 1 /\ received' > 0
      BY FanoutAssumption DEF Receive, FanoutInv, FanoutTypeOK
    <2>2. next' = 1 /\ next' \in 0..M
      BY MotorsAreNat DEF Receive
    <2>3. \A i \in Motors : pushed[Order[i]] = received /\ i >= next'
      BY <2>2, MotorsAreNat DEF Receive, FanoutInv, FanoutTypeOK
    <2>4. theirs' \in BOOLEAN
      BY Zenon DEF Receive, FanoutInv, FanoutTypeOK
    <2> QED  BY <2>1, <2>2, <2>3, <2>4 DEF Receive, FanoutInv, FanoutTypeOK
  <1>2. \A a, b \in Motors : (AsOften(a, b) => asked[a] <= asked[b] + Lead(a, b))'
    BY SamePassed DEF Receive, FanoutInv
  <1> QED  BY <1>1, <1>2 DEF FanoutInv

\* Pushing a frame completes the message for one more motor.
LEMMA FanoutPush == FanoutInv /\ PushNext => FanoutInv'
  <1> SUFFICES ASSUME FanoutInv, PushNext PROVE FanoutInv'
    OBVIOUS
  <1> USE FanoutAssumption
  <1>0. next \in Motors /\ received \in Nat
    BY MotorsAreNat DEF PushNext, FanoutInv, FanoutTypeOK
  <1>1. next \in Motors /\ Order[next] \in Motors /\ received \in Nat
    BY <1>0
  <1>2. received' = received /\ asked' = asked /\ turn' = turn /\ shared' = shared
        /\ next' = (IF next = M THEN 0 ELSE next + 1)
        /\ pushed' = [pushed EXCEPT ![Order[next]] = received]
    BY DEF PushNext
  <1>3. pushed' \in [Motors -> Nat]
    BY <1>1, <1>2 DEF FanoutInv, FanoutTypeOK
  <1>4. ASSUME NEW i \in Motors
        PROVE  pushed'[Order[i]] = IF next' # 0 /\ i >= next' THEN received - 1 ELSE received
    <2>1. CASE i = next
      BY <1>1, <1>2, <2>1 DEF FanoutInv, FanoutTypeOK, Motors
    <2>2. CASE i # next
      <3>1. Order[i] \in Motors /\ Order[i] # Order[next]
        BY <1>1, <2>2
      <3>2. pushed'[Order[i]] = pushed[Order[i]]
        BY <1>2, <3>1 DEF FanoutInv, FanoutTypeOK
      <3>3. pushed[Order[i]] = IF i >= next THEN received - 1 ELSE received
        BY <1>1, MotorsAreNat DEF FanoutInv, FanoutTypeOK
      <3>4. i \in Nat /\ next \in Nat /\ i <= M /\ M \in Nat
        BY <1>0, MotorsAreNat
      <3>5. i >= next <=> next' # 0 /\ i >= next'
        BY <1>2, <2>2, <3>4
      <3> QED  BY <3>2, <3>3, <3>5
    <2> QED  BY <2>1, <2>2
  <1>5. ASSUME NEW m \in Motors PROVE asked[m] <= pushed'[m]
    BY <1>1, <1>2, PushedTogether DEF FanoutInv, FanoutTypeOK
  <1>6. next' \in 0..M /\ (next' # 0 => received > 0)
    BY <1>1, <1>2 DEF FanoutInv, FanoutTypeOK, Motors
  <1>7. FanoutTypeOK'
    <2>1. theirs' \in BOOLEAN
      BY Zenon DEF PushNext, FanoutInv, FanoutTypeOK
    <2> QED  BY <1>2, <1>3, <1>4, <1>5, <1>6, <2>1 DEF FanoutInv, FanoutTypeOK
  <1>8. \A a, b \in Motors : (AsOften(a, b) => asked[a] <= asked[b] + Lead(a, b))'
    BY <1>2, SamePassed DEF PushNext, FanoutInv
  <1> QED  BY <1>7, <1>8 DEF FanoutInv

\* A turn of the bus thread moves one motor by at most one message, and does
\* move it when it is served and behind.
LEMMA FanoutRequest == FanoutInv /\ OnRequest => FanoutInv'
  <1> SUFFICES ASSUME FanoutInv, OnRequest PROVE FanoutInv'
    OBVIOUS
  <1> USE FanoutAssumption
  <1>0. FanoutTypeOK
    BY DEF FanoutInv
  <1>1. /\ turn \in Motors /\ turn' = turn + 1
        /\ asked' = IF HasTurn(turn) THEN [asked EXCEPT ![turn] = Taken(turn)] ELSE asked
        /\ UNCHANGED <<received, next, pushed, shared, theirs>>
    BY DEF OnRequest
  <1>2. \A m \in Motors : asked[m] \in Nat /\ pushed[m] \in Nat /\ asked[m] <= pushed[m]
    BY DEF FanoutInv, FanoutTypeOK
  <1>3. /\ Taken(turn) \in Nat
        /\ Taken(turn) \in asked[turn]..(asked[turn] + 1)
        /\ Taken(turn) <= pushed[turn]
        /\ Taken(turn) = asked[turn] => pushed[turn] = asked[turn]
    BY <1>1, <1>2 DEF Taken
  <1>4. \A m \in Motors : asked'[m] = IF m = turn /\ HasTurn(turn) THEN Taken(turn) ELSE asked[m]
    BY <1>1 DEF FanoutInv, FanoutTypeOK
  <1>5. FanoutTypeOK'
    <2>1. asked' \in [Motors -> Nat]
      BY <1>1, <1>3 DEF FanoutInv, FanoutTypeOK
    <2>2. \A m \in Motors : asked'[m] <= pushed[m]
      BY <1>2, <1>3, <1>4
    <2>3. turn' \in 1..(M + 1)
      BY <1>1 DEF Motors
    <2>4. theirs' \in BOOLEAN
      BY Zenon DEF OnRequest, FanoutInv, FanoutTypeOK
    <2> QED  BY <1>1, <2>1, <2>2, <2>3, <2>4 DEF FanoutInv, FanoutTypeOK
  <1>6. ASSUME NEW m \in Motors
        PROVE  /\ m # turn => (Passed(m)' <=> Passed(m))
               /\ m = turn => ~Passed(m) /\ (Passed(m)' <=> HasTurn(m))
    <2>1. m \in Nat /\ turn \in Nat /\ turn' = turn + 1
      BY <1>1, MotorsAreNat
    <2>2. HasTurn(m)' <=> HasTurn(m)
      BY <1>1, Zenon DEF HasTurn
    <2>3. m # turn => (m < turn' <=> m < turn)
      BY <2>1
    <2>4. m = turn => ~(m < turn) /\ m < turn'
      BY <2>1
    <2> QED  BY <2>2, <2>3, <2>4, Zenon DEF Passed
  <1>7. ASSUME NEW a \in Motors, NEW b \in Motors, AsOften(a, b)'
        PROVE  (asked[a] <= asked[b] + Lead(a, b))'
    <2>1. asked[a] <= asked[b] + Lead(a, b)
      BY <1>1, <1>7 DEF FanoutInv, AsOften
    <2>2. asked[a] \in Nat /\ asked[b] \in Nat
      BY <1>2
    <2>3. CASE a # turn /\ b # turn
      BY <1>4, <1>6, <2>1, <2>3 DEF Lead
    <2>4. CASE a = turn /\ b = turn
      BY <1>3, <1>4, <1>6, <2>2, <2>4 DEF Lead
    <2>5. CASE a = turn /\ b # turn
      BY <1>3, <1>4, <1>6, <2>1, <2>2, <2>5 DEF Lead
    <2>6. CASE a # turn /\ b = turn /\ ~HasTurn(turn)
      BY <1>4, <1>6, <2>1, <2>6 DEF Lead
    <2>7. CASE a # turn /\ b = turn /\ HasTurn(turn)
      <3>1. asked[a] <= pushed[b] + 1
        BY <1>0, BehindHasFrame
      <3>2. asked'[a] = asked[a] /\ asked'[b] = Taken(turn)
        BY <1>4, <2>7
      <3>3. CASE Taken(turn) = asked[turn]
        BY <1>3, <1>6, <2>2, <2>7, <3>1, <3>2, <3>3 DEF Lead
      <3>4. CASE Taken(turn) = asked[turn] + 1
        <4>1. CASE asked[a] <= asked[b] + 1
          BY <1>6, <2>2, <2>7, <3>2, <3>4, <4>1 DEF Lead
        <4>2. CASE asked[a] > asked[b] + 1
          BY <1>6, <2>1, <2>2, <2>7, <3>2, <3>4, <4>2 DEF Lead
        <4> QED  BY <2>2, <4>1, <4>2
      <3> QED  BY <1>1, <1>2, <1>3, <3>3, <3>4
    <2> QED  BY <2>3, <2>4, <2>5, <2>6, <2>7
  <1> QED  BY <1>5, <1>7 DEF FanoutInv

\* At the exchange every motor that is served was asked, so one that was not is asked
\* as rarely as the other or more rarely.
LEMMA FanoutExchange == FanoutInv /\ Exchange => FanoutInv'
  <1> SUFFICES ASSUME FanoutInv, Exchange PROVE FanoutInv'
    OBVIOUS
  <1>1. FanoutTypeOK'
    <2>1. theirs' \in BOOLEAN
      BY Zenon DEF Exchange
    <2> QED  BY <2>1, FanoutAssumption DEF Exchange, FanoutInv, FanoutTypeOK
  <1>2. ASSUME NEW a \in Motors, NEW b \in Motors, AsOften(a, b)'
        PROVE  (asked[a] <= asked[b] + Lead(a, b))'
    <2>1. AsOften(a, b) /\ asked[a] <= asked[b] + Lead(a, b)
      BY <1>2 DEF Exchange, AsOften, FanoutInv
    <2>2. a < turn /\ b < turn /\ turn' = 1 /\ asked' = asked /\ ~(a < 1) /\ ~(b < 1)
      BY MotorsAreNat DEF Exchange
    <2>3. Passed(a) => Passed(b)
      BY <2>1, <2>2, Zenon DEF AsOften, Passed, HasTurn
    <2>4. Lead(a, b)' = 2 /\ Lead(a, b) <= 2
      BY <2>2, <2>3 DEF Lead, Passed
    <2>5. asked[a] \in Nat /\ asked[b] \in Nat /\ Lead(a, b) \in Nat
      BY DEF FanoutInv, FanoutTypeOK, Lead
    <2> QED  BY <2>1, <2>2, <2>4, <2>5
  <1> QED  BY <1>1, <1>2 DEF FanoutInv

\* The inductive invariant: a motor two messages behind another always finds a
\* frame waiting when its turn comes.
THEOREM FanoutInvariant == FanoutSpec => []FanoutInv
  <1>1. FanoutInv /\ UNCHANGED fanoutVars => FanoutInv'
    <2>1. UNCHANGED fanoutVars => (theirs \in BOOLEAN => theirs' \in BOOLEAN)
      BY Zenon DEF fanoutVars
    <2> QED  BY <2>1, SamePassed DEF FanoutInv, FanoutTypeOK, fanoutVars
  <1>2. FanoutInv /\ [FanoutNext]_fanoutVars => FanoutInv'
    BY <1>1, FanoutReceive, FanoutPush, FanoutRequest, FanoutExchange DEF FanoutNext, Bus
  <1> QED  BY FanoutInvInit, <1>2, PTL DEF FanoutSpec

\* At every exchange no motor is more than two messages ahead of another that is
\* asked at least as often.
THEOREM MessagesStayTogether == FanoutSpec => []FramesTogether
  <1>1. FanoutInv => FramesTogether
    <2> SUFFICES ASSUME FanoutInv, turn = M + 1, NEW a \in Motors, NEW b \in Motors, AsOften(a, b)
                 PROVE  asked[a] <= asked[b] + 2
      BY DEF FramesTogether
    <2>1. a < turn /\ b < turn
      BY MotorsAreNat
    <2>2. Passed(a) => Passed(b)
      BY <2>1, Zenon DEF AsOften, Passed, HasTurn
    <2>3. Lead(a, b) \in {1, 2}
      BY <2>2 DEF Lead
    <2> QED  BY <2>3 DEF FanoutInv, FanoutTypeOK
  <1> QED  BY FanoutInvariant, <1>1, PTL
=============================================================================
