--------------------------- MODULE PowerBoardProps ---------------------------
(* What the polling of the power board promises to the subscribers. *)
EXTENDS PowerBoard

\* Types of the variables.
TypeOK ==
    /\ phase \in {"request", "response"}
    /\ reqId \in 0..N /\ lastReq \in 0..N
    /\ sinceRound \in 1..Round /\ sinceSend \in 1..Retry /\ sinceBeep \in 1..BeepGap
    /\ beeping \in BOOLEAN /\ quiet \in BOOLEAN
    /\ frame \in {"beep", "request", "nothing"}
    /\ readyBits \subseteq Ins /\ taken \subseteq Ins
    /\ known \in Switches /\ board \in Switches
    /\ topic \in {"none"} \cup Switches
    /\ out \in {"nothing", "change", "full"}
    /\ pending \subseteq Answers

\* The instructions before this one were all answered and stored.
Before(k) == {j \in Ins : j < k} \subseteq taken

\* Instructions are asked for in order: to ask for one, to have its answer on
\* the way or to have its bit set, all those before it must have been stored.
AskedInOrder ==
    /\ Before(reqId)
    /\ \A a \in pending : Before(a.ins)
    /\ \A k \in readyBits : Before(k)

\* The inductive invariant of the polling.
PowerInv == TypeOK /\ AskedInOrder

\* A complete status never shows a value that was never received, whatever
\* answers were lost, late or duplicated; only the switches, asked for last,
\* may be the driver's initial ones, because a late answer sets the bit of an
\* instruction whose data is not stored (PowerMgr.cpp:49-56).
StatusHasValues == out = "full" => Before(N)

\* The last message on the topic shows the switches as the driver knows them:
\* a change is not held back until the next complete status.
TopicIsCurrent == topic \in {"none", known}

\* An emergency stop is reported: when the bus is quiet the topic shows the
\* switches of the board from some moment on.
SwitchesReported == <>[](quiet => topic = board)
=============================================================================
