---------------------------- MODULE PublishLoop ----------------------------
(***************************************************************************)
(* How a message of the bus thread reaches the subscribers.  The bus thread *)
(* pushes it on msgQueue and notifies the condition variable without taking *)
(* its mutex; RunPubMsg drains the queue, waits at most 500 us and starts   *)
(* over.  A message of a fast_ros publisher is first handed, in the same    *)
(* thread, to every subscriber of its topic (FastConnection::publish) and   *)
(* then to ROS; other messages only to ROS.                                 *)
(*                                                                         *)
(* Subscribers join at any time from other threads.  subscribe() copies the *)
(* list under a mutex, appends, and pushes the copy on queueSubs; publish() *)
(* pops the copies, without the mutex, until the queue is empty.  The lists *)
(* grow by one each, so subsLast is the sequence of all subscribers, the    *)
(* n-th list holds the first n of them, subsCurrent is a number, and        *)
(* queueSubs holds the numbers above it.  Both queues are FIFO, which is    *)
(* what LockFreeQueue refines.                                              *)
(***************************************************************************)
EXTENDS Naturals, Sequences

CONSTANTS
    Topic,      \* topics with a fast_ros publisher: motors and IMUs
    Native,     \* stands for the topics published through ROS only
    MaxMsgs,    \* bound of the model: messages pushed
    MaxSubs     \* bound of the model: subscribers

ASSUME PublishAssumption ==
    /\ Native \notin Topic
    /\ MaxMsgs \in Nat
    /\ MaxSubs \in Nat

VARIABLES
    msgs,       \* topics of the messages pushed on msgQueue
    telling,    \* the bus thread has pushed and not yet notified
    pub,        \* RunPubMsg: "drain", "lists", "call", "ros", "tired", "wait"
    popped,     \* messages popped from msgQueue
    sent,       \* messages handed to ROS
    subs,       \* subsLast: the subscribers, in the order they joined
    current,    \* subsCurrent: how many of them publish() knows
    at,         \* the subscriber publish() looks at
    heard,      \* history: <<s, k>> when subscriber s was called with message k
    threw       \* history: threw[k] is the subscriber that threw on k, or 0

busVars == <<msgs, telling>>
vars == <<busVars, pub, popped, sent, subs, current, at, heard, threw>>

\* A subscriber and the number of messages popped when it joined.
Subscription == [topic : Topic, since : Nat]

PublishInit ==
    /\ msgs = <<>>
    /\ telling = FALSE
    /\ pub = "drain"
    /\ popped = 0
    /\ sent = 0
    /\ subs = <<>>
    /\ current = 0
    /\ at = 1
    /\ heard = {}
    /\ threw = [k \in 1..MaxMsgs |-> 0]

-----------------------------------------------------------------------------
(* The bus thread, in the status callbacks of the devices *)

\* msgQueue.push(cmsg)
Push ==
    /\ ~telling
    /\ Len(msgs) < MaxMsgs
    /\ \E t \in Topic \cup {Native} : msgs' = Append(msgs, t)
    /\ telling' = TRUE
    /\ UNCHANGED <<pub, popped, sent, subs, current, at, heard, threw>>

\* cvPubMsg.notify_one(): nobody hears it unless the publisher is waiting.
Notify ==
    /\ telling
    /\ telling' = FALSE
    /\ pub' = IF pub = "wait" THEN "drain" ELSE pub
    /\ UNCHANGED <<msgs, popped, sent, subs, current, at, heard, threw>>

-----------------------------------------------------------------------------
(* The publishing thread *)

\* msgQueue.pop(); a fast_ros publisher first brings its list up to date.
PopMessage ==
    /\ pub = "drain"
    /\ popped < Len(msgs)
    /\ popped' = popped + 1
    /\ pub' = IF msgs[popped'] = Native THEN "ros" ELSE "lists"
    /\ UNCHANGED <<busVars, sent, subs, current, at, heard, threw>>

\* Mistake: the list is taken only when there is none yet.
NewListFirst == current = 0 /\ subs # <<>>

\* queueSubs holds a list that publish() has not seen.
NewList == current < Len(subs)

\* subsCurrent = queueSubs.pop()
PopList ==
    /\ pub = "lists"
    /\ NewList
    /\ current' = current + 1
    /\ UNCHANGED <<busVars, pub, popped, sent, subs, at, heard, threw>>

\* queueSubs is empty: go through the list.
ListsRead ==
    /\ pub = "lists"
    /\ ~NewList
    /\ pub' = "call"
    /\ at' = 1
    /\ UNCHANGED <<busVars, popped, sent, subs, current, heard, threw>>

\* An exception ends the loop over the subscribers.
AfterThrow == pub' = "ros" /\ UNCHANGED at

\* The next subscriber of the list, called if the topic is its own; it returns
\* or it throws (a message of another type makes its any_cast throw).
CallSubscriber ==
    /\ pub = "call"
    /\ at <= current
    /\ \/ /\ subs[at].topic # msgs[popped]
          /\ at' = at + 1
          /\ UNCHANGED <<pub, heard, threw>>
       \/ /\ subs[at].topic = msgs[popped]
          /\ heard' = heard \cup {<<at, popped>>}
          /\ at' = at + 1
          /\ UNCHANGED <<pub, threw>>
       \/ /\ subs[at].topic = msgs[popped]
          /\ heard' = heard \cup {<<at, popped>>}
          /\ threw' = [threw EXCEPT ![popped] = at]
          /\ AfterThrow
    /\ UNCHANGED <<busVars, popped, sent, subs, current>>

\* The list is done.
CallsDone ==
    /\ pub = "call"
    /\ at > current
    /\ pub' = "ros"
    /\ UNCHANGED <<busVars, popped, sent, subs, current, at, heard, threw>>

\* publish() of the ROS publisher.
SendToRos ==
    /\ pub = "ros"
    /\ sent' = sent + 1
    /\ pub' = "drain"
    /\ UNCHANGED <<busVars, popped, subs, current, at, heard, threw>>

\* msgQueue was found empty, but the thread does not wait yet: what is pushed
\* and notified now goes unnoticed.
FindEmpty ==
    /\ pub = "drain"
    /\ popped = Len(msgs)
    /\ pub' = "tired"
    /\ UNCHANGED <<busVars, popped, sent, subs, current, at, heard, threw>>

\* cvPubMsg.wait_for() begins ...
Wait ==
    /\ pub = "tired"
    /\ pub' = "wait"
    /\ UNCHANGED <<busVars, popped, sent, subs, current, at, heard, threw>>

\* Mistake: wait() instead of wait_for().
NeverTimesOut == FALSE

\* The wait has a limit.
TimesOut == TRUE

\* ... and ends by itself.
Timeout ==
    /\ pub = "wait"
    /\ TimesOut
    /\ pub' = "drain"
    /\ UNCHANGED <<busVars, popped, sent, subs, current, at, heard, threw>>

Publisher == PopMessage \/ PopList \/ ListsRead \/ CallSubscriber \/ CallsDone
             \/ SendToRos \/ FindEmpty \/ Wait \/ Timeout

-----------------------------------------------------------------------------
(* Any other thread *)

\* FastConnection::subscribe()
Subscribe ==
    /\ Len(subs) < MaxSubs
    /\ \E t \in Topic : subs' = Append(subs, [topic |-> t, since |-> popped])
    /\ UNCHANGED <<busVars, pub, popped, sent, current, at, heard, threw>>

PublishNext == Push \/ Notify \/ Publisher \/ Subscribe

\* The threads run; the bus thread, once it has pushed, notifies; subscribers
\* return.  Nobody has to push or to subscribe.
PublishSpec == PublishInit /\ [][PublishNext]_vars /\ WF_vars(Publisher) /\ WF_vars(Notify)

-----------------------------------------------------------------------------
(* Properties *)

\* Message k has been through the loop over the subscribers.
Finished(k) == k < popped \/ (k = popped /\ pub \notin {"lists", "call"})

\* Subscriber s must have been called with message k: it had joined before k
\* was popped, k is of its topic and no subscriber before it threw on k.
Owed(s, k) ==
    /\ subs[s].topic = msgs[k]
    /\ subs[s].since < k
    /\ threw[k] = 0 \/ s <= threw[k]

\* Types, and where the counters of the two queues can be.
PublishTypeOK ==
    /\ msgs \in Seq(Topic \cup {Native})
    /\ pub \in {"drain", "lists", "call", "ros", "tired", "wait"}
    /\ sent \in Nat
    /\ popped \in 0..Len(msgs)
    /\ subs \in Seq(Subscription)
    /\ Len(msgs) <= MaxMsgs
    /\ current \in 0..Len(subs)
    /\ at \in Nat \ {0}
    /\ heard \subseteq (Nat \X Nat)
    /\ threw \in [1..MaxMsgs -> Nat]

\* Every message goes to ROS once, whatever the subscribers do.
Counted == popped = sent + (IF pub \in {"lists", "call", "ros"} THEN 1 ELSE 0)

\* While publish() runs, the message is one of a fast topic, and its list holds
\* every subscriber that had joined before; none has thrown on what is to come.
Publishing ==
    /\ \A s \in 1..Len(subs) : subs[s].since <= popped
    /\ \A k \in 1..MaxMsgs : ~Finished(k) => threw[k] = 0
    /\ pub = "call" => \A s \in 1..Len(subs) : subs[s].since < popped => s <= current
    /\ pub = "call" => \A s \in 1..Len(subs) : s < at /\ Owed(s, popped) => <<s, popped>> \in heard

\* Nobody is called with a message that was not popped, or out of turn.
HeardInTurn ==
    \A c \in heard :
        /\ c[1] \in 1..current
        /\ c[2] \in 1..popped
        /\ c[2] = popped => pub # "lists" /\ (pub = "call" => c[1] < at)

\* A subscriber is called with every message of its topic that is popped after
\* it joined, however joining and publishing interleave, except those on which
\* one that joined earlier threw.
Served ==
    \A k \in 1..popped : Finished(k) =>
        \A s \in 1..Len(subs) : Owed(s, k) => <<s, k>> \in heard

\* The inductive invariant of the publishing thread.
PublishInv == telling \in BOOLEAN /\ PublishTypeOK /\ Counted /\ Publishing /\ HeardInTurn /\ Served

\* Messages reach the subscribers in the order they were pushed, each of them
\* once, and within a message the subscribers in the order they joined.
InOrder ==
    [][CallSubscriber /\ subs[at].topic = msgs[popped] =>
        \A c \in heard : c[2] < popped \/ (c[2] = popped /\ c[1] < at)]_vars

\* Every message pushed reaches ROS although notifications are lost.
EveryMessagePublished == \A k \in 1..MaxMsgs : Len(msgs) >= k ~> sent >= k
=============================================================================
