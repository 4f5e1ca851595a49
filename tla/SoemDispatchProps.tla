-------------------------- MODULE SoemDispatchProps --------------------------
(* What the dispatch of frames promises to the devices. *)
EXTENDS SoemDispatch

\* Types of the variables.
DispatchTypes ==
    /\ devices \in Seq(Entries)
    /\ slaveModes \in [Gateways -> Modes]
    /\ curTsMode \in [Gateways -> Kinds]
    /\ half \in {"load", "request", "exchange", "response"}
    /\ outputs \in [Gateways -> [ide : BOOLEAN, slot : [Passages -> Slot]]]
    /\ inputs \in Frames
    /\ line \in [1..Lag -> Frames]
    /\ given \in [Entries -> Slot]
    /\ fresh \in BOOLEAN
    /\ calm \in BOOLEAN

Even(n) == n % 2 = 0
Opposite(kind) == IF kind = "standard" THEN "extended" ELSE "standard"

\* The kind of the frames a gateway carried n cycles before this one's turn.
KindBefore(g, n) ==
    IF slaveModes[g] # "sharing" THEN slaveModes[g]
    ELSE IF Even(n) THEN curTsMode[g] ELSE Opposite(curTsMode[g])

\* All frames are of devices of the kind.
AllOf(frames, kind) == \A p \in Passages : frames[p] # None => frames[p].from.mode = kind

\* A gateway is sent requests of one kind at a time, with the identifier of
\* that kind: no device is asked in frames it does not understand, also on a
\* gateway that shares time.
OwnIdentifier ==
    half \in {"exchange", "response"} =>
        \A g \in Gateways : /\ outputs[g].ide <=> Kind(g) = "extended"
                            /\ AllOf(outputs[g].slot, Kind(g))

\* The answers on their way alternate with the turns of their gateway, lost
\* frames or not.
LineAlternates ==
    \A g \in Gateways, k \in 1..Lag :
        AllOf(line[k][g], KindBefore(g, IF half = "response" THEN k - 1 ELSE k))

\* The inputs are those of the last exchange; on a gateway that does not share
\* time all inputs are of its kind.
InputsOfKind ==
    \A g \in Gateways :
        slaveModes[g] # "sharing" \/ (half = "response" /\ fresh) =>
            AllOf(inputs[g], KindBefore(g, Lag))

\* Nobody is polled, and nothing is on its way, before the bus is started.
NothingBeforeStart ==
    half = "load" => /\ line = [k \in 1..Lag |-> NoFrames]
                     /\ inputs = NoFrames
                     /\ given = [e \in Entries |-> None]

\* A device is given answers of its own kind: always on a gateway of one kind,
\* and on one that shares time after an exchange that succeeded, if and only if
\* the answers take an even number of exchanges.  A lost exchange does not put
\* the two sides out of step for the exchanges that follow.
AnswersOfOwnKind ==
    half = "request" =>
        \A e \in Entries :
            given[e] # None =>
                /\ slaveModes[e.gateway] # "sharing" => given[e].from.mode = e.mode
                /\ slaveModes[e.gateway] = "sharing" /\ fresh =>
                        (given[e].from.mode = e.mode <=> Even(Lag))

\* The inductive invariant of the dispatch.
DispatchInv ==
    /\ DispatchTypes
    /\ OwnIdentifier
    /\ LineAlternates
    /\ InputsOfKind
    /\ NothingBeforeStart
    /\ AnswersOfOwnKind

\* The device asks in each of its turns and nothing else of its kind is
\* registered for its passage later.
Heeded(e) ==
    /\ half # "load"
    /\ None \notin e.asks
    /\ slaveModes[e.gateway] \in {e.mode, "sharing"}
    /\ slaveModes[e.gateway] = "sharing" => Even(Lag)
    /\ \E i \in DOMAIN devices :
        /\ devices[i] = e
        /\ \A j \in DOMAIN devices :
            j > i => \/ devices[j].gateway # e.gateway
                     \/ devices[j].passage # e.passage
                     \/ devices[j].mode # e.mode

\* OnResponse of the device was given the answer to a request of its own.
Hears(e) == given[e] # None /\ given[e].from = e

\* Of the devices of one kind on a passage the one registered last is heard of
\* again and again, whatever was lost before and whoever shares the gateway.
\* Nothing is said of the others, whose requests it overwrites.
IsHeard(e) == (calm /\ Heeded(e)) ~> Hears(e)
LastRegisteredHears == \A e \in Entries : IsHeard(e)
=============================================================================
