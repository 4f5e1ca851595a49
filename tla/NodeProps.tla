------------------------------ MODULE NodeProps ------------------------------
(* What the node promises when it says that it runs, and what the monitor reports. *)
EXTENDS NodeMonitor

\* Types of the node's variables.
NodeTypes ==
    /\ life \in {"down", "starting", "up", "failed", "ended"}
    /\ answer \in {"no", "true"}
    /\ phase \in {"load", "off", "init", "waiting", "check", "wait", "over"}
    /\ toLoad \subseteq Sections
    /\ registered \subseteq Devices
    /\ enabled \subseteq Sections
    /\ checkReady \in BOOLEAN
    /\ heard \subseteq registered
    /\ nodeState \in {"idle", "running"}
    /\ seconds \in 0..(GiveUp + Oversleep)
    /\ heardAt \in [Devices -> 0..Never]
    /\ topic \in {"none", "idle", "running"}

\* Every device that was put on the bus is one the node waits for, and no other:
\* whichever entries of a section are malformed.
RegisteredAreEnabled == enabled = {SectionOf[d] : d \in registered}

\* The threads of the node and of the master go on in step.
InStep ==
    /\ phase \in {"load", "off", "init"} <=> life = "down"
    /\ answer = "no" <=> life \in {"down", "starting"}
    /\ life \in {"down", "starting"} => phase \notin {"check", "wait", "over"}
    /\ heard # {} => life \in {"up", "ended"}
    /\ phase \in {"check", "wait"} => nodeState = "idle"
    /\ nodeState = "running" => phase = "over"
    /\ phase = "wait" => ~checkReady
    /\ phase = "check" => checkReady
    /\ topic = "running" => nodeState = "running"
    /\ phase = "over" /\ nodeState = "idle" => seconds >= GiveUp

\* A node asked to check says it runs only when every device on the bus was
\* heard; so the bus was up, although Init() does not say whether it is.
RunningMeansHeard ==
    nodeState = "running" /\ checkReady =>
        /\ registered = heard
        /\ registered # {} => life \in {"up", "ended"}

\* The history of what was heard: a device not heard has no time, and one heard
\* has the time of a pass.
HeardWhen ==
    \A d \in Devices :
        /\ heardAt[d] = Never <=> d \notin heard
        /\ phase # "over" /\ d \in heard => heardAt[d] <= seconds

\* The node gives up only on a device that was not heard within three seconds:
\* one heard in time, even just before the last pass, is never missed.
GivesUpOnTheLate ==
    phase = "over" /\ nodeState = "idle" =>
        \E d \in registered : heardAt[d] > GiveUp

\* The inductive invariant of the node.
NodeInv ==
    /\ NodeTypes
    /\ RegisteredAreEnabled
    /\ InStep
    /\ RunningMeansHeard
    /\ HeardWhen
    /\ GivesUpOnTheLate

\* A node whose devices were all heard while it checked says so, and those who
\* follow the node state start; nothing can come in between.
ReadyIsFollowed == (phase = "check" /\ registered = heard) ~> started

-----------------------------------------------------------------------------

\* Types of the monitor's variables.
MonitorTypes ==
    /\ thread \in {"none", "reset", "sleep", "lock", "unlock"}
    /\ callback \in Mutexes \cup {"none"}
    /\ owned \subseteq Mutexes
    /\ count \in Nat
    /\ countAnyMotor \in [Motors -> Nat]
    /\ message \in [Motors -> Nat]
    /\ window \in [messages : Nat, having : [Motors -> Nat], several : SUBSET Motors]

\* What the messages of the window make of the count of a motor, once all are counted:
\* the number of messages that had it, and more if one had several statuses of it.
CountedAs(m, n) ==
    IF m \in window.several THEN n > window.having[m] ELSE n = window.having[m]

\* Nobody counts while the report is made, and after the first report the
\* records are those of the window.  In the first window the messages that came
\* before the reset are missing in count but not in countAnyMotor.
MonitorInv ==
    /\ MonitorTypes
    /\ started \in BOOLEAN /\ first \in BOOLEAN
    /\ callback \notin owned
    /\ callback # "motor" => message = NoCounts
    /\ thread \in {"none", "reset", "sleep"} => owned = {}
    /\ thread \in {"none", "reset"} => first
    /\ started <=> thread # "none"
    /\ count <= window.messages
    /\ \A m \in Motors : CountedAs(m, countAnyMotor[m] + message[m])
    /\ ~first => count = window.messages

\* Every report but the first counts exactly the messages of its window, and for each
\* motor those that had it, none twice and none left to the next window: if no message
\* had several statuses of the motor.  If one had, as the first message may, the motor
\* is counted too often, and the loss that is logged for it is too small.
ReportsExact ==
    [][Reports /\ ~first =>
        /\ reported'.all = window.messages
        /\ \A m \in Motors : CountedAs(m, reported'.motor[m])]_monitorVars
=============================================================================
