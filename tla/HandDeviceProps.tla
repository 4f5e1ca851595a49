--------------------------- MODULE HandDeviceProps ---------------------------
(* What the hand's device promises to those who command the hand. *)
EXTENDS HandDevice

FrameTags == {"pos1", "pos2", "query", "halt", "set1", "set2", "set3", "set4", "set5",
              "start", "stop"}

\* Types of the variables.
HandTypes ==
    /\ cmdQueue \in Seq(Commands)
    /\ curReqFrames \in Seq(FrameTags)
    /\ ready \in BOOLEAN
    /\ sent \in FrameTags \cup {"nothing"}
    /\ current \in Commands \cup {"none"}
    /\ accepted \in Nat
    /\ since \in Nat
    /\ got \in Seq(FrameTags)
    /\ hit \in BOOLEAN
    /\ outcomes \in Seq({"whole", "spoilt"})

\* Every command is waiting, being sent or done.
Counted ==
    accepted = Len(outcomes) + Len(cmdQueue) + (IF current = "none" THEN 0 ELSE 1)

\* A frame is in its slot only during the exchange and the responses.  A command
\* is being sent as long as frames of it are left or the last is in the slot.
SlotUsed ==
    /\ sent # "nothing" => half \in {"exchange", "response"}
    /\ current = "none" => curReqFrames = <<>> /\ got = <<>> /\ ~hit
    /\ current # "none" => curReqFrames # <<>> \/ sent # "nothing"

\* How many frames of the command were written, and how many of them the exchange
\* is over for.
Written == Len(FramesOf[current]) - Len(curReqFrames)
Exchanged == IF half = "exchange" /\ sent # "nothing" THEN Written - 1 ELSE Written

\* What is left to send is the end of the command, the frame in the slot is the
\* one before it, and the hand has received all frames before that if none was
\* lost: commands are never mixed and no frame is sent twice.
NothingMixed ==
    current # "none" =>
        /\ Written \in 1..Len(FramesOf[current])
        /\ curReqFrames = SubSeq(FramesOf[current], Written + 1, Len(FramesOf[current]))
        /\ sent # "nothing" => sent = FramesOf[current][Written]
        /\ got = IF hit THEN <<>> ELSE SubSeq(FramesOf[current], 1, Exchanged)

\* A list of frames that was begun was begun after a query.
QueriedBetween == since = IF curReqFrames = <<>> THEN 0 ELSE Written

\* The inductive invariant of the hand's device.
HandInv == HandTypes /\ Counted /\ SlotUsed /\ NothingMixed /\ QueriedBetween

\* However many commands are given, the hand's status is queried at least once
\* in eight frames that are not emergency stops.
AskedOften == since <= 7

Stream == INSTANCE CommandStream

\* The bus serves the hand.
OnTheBus ==
    half # "load" /\ Registered(Hand) /\ slaveModes[Hand.gateway] \in {"extended", "sharing"}

\* The hand's device is a CommandStream: a lost exchange, or a device on the
\* same passage, spoils the command it takes a frame of and nothing else.  On a
\* bus that serves the hand, every command is sent at last.
ImplementsStream ==
    /\ Stream!StreamSafety
    /\ <>[]OnTheBus => Stream!StreamFairness
=============================================================================
