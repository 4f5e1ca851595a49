---------------------------- MODULE SoemDispatch ----------------------------
(***************************************************************************)
(* SoemMaster.cpp: RegisterDevice, and one cycle of Run() in three steps:  *)
(* GetRequestFromDevices, the exchange of process data with the gateways,  *)
(* SendResponseToDevices.  A gateway (slave) carries one CAN frame per     *)
(* passage and direction.  Its mode says whether standard devices,         *)
(* extended ones, or both in turns (TIME_SHARING) use it.  Exchanges get   *)
(* lost on either way until the environment is calm.                       *)
(*                                                                         *)
(* External: a gateway forwards the requests of a cycle on its CAN buses   *)
(* and has the answers in its inputs Lag exchanges later; a device answers *)
(* only a frame with the kind of identifier it uses (can_ide).  The        *)
(* gateways on the bus are those configured in slave_mode: the code reads  *)
(* slaveModes beyond its end for any other.                                *)
(***************************************************************************)
EXTENDS Integers, Sequences

CONSTANTS
    Gateways,   \* the slaves: ec_slavecount, and the length of slave_mode
    Passages,   \* the CAN buses of a gateway, 6 in the code
    Entries,    \* what the configuration may register: records Entry
    Asks,       \* what a request asks, as far as properties distinguish it
    None,       \* an empty frame (id 0), no request
    Lag         \* exchanges from a request to its answer

Kinds == {"standard", "extended"}
Modes == Kinds \cup {"sharing"}

\* RegisteredDevice.  asks: what OnRequest may write for this passage; None
\* if it may leave the slot as it is.  The mode is never TIME_SHARING, as the
\* comment in SoemMaster.h demands.
Entry == [dev : STRING, gateway : Gateways, passage : Passages, mode : Kinds,
          asks : SUBSET (Asks \cup {None})]

ASSUME DispatchAssumption ==
    /\ Entries \subseteq Entry
    /\ \A e \in Entries : e.asks # {}
    /\ None \notin Asks \cup [from : Entries, ask : Asks]
    /\ Lag \in Nat \ {0}

VARIABLES
    devices,    \* SoemMaster::devices
    slaveModes, \* SoemMaster::slaveModes
    curTsMode,  \* vecCurTsMode
    half,       \* what Run() does next: "load" (not started), "request",
                \*   "exchange", "response"
    outputs,    \* ec_slave[].outputs: can_ide and the frame of each passage
    inputs,     \* ec_slave[].inputs
    line,       \* external: answers not yet in the inputs, the newest first
    given,      \* history: in half "request", what OnResponse of each entry was given
    fresh,      \* history: the last exchange succeeded
    calm        \* external: no exchange is lost any more

dispatchVars == <<devices, slaveModes, curTsMode, half, outputs, inputs, line, given,
                  fresh, calm>>

Slot == {None} \cup [from : Entries, ask : Asks]
Frames == [Gateways -> [Passages -> Slot]]
NoFrames == [g \in Gateways |-> [p \in Passages |-> None]]

DispatchInit ==
    /\ devices = <<>>
    /\ slaveModes = [g \in Gateways |-> "standard"]
    /\ curTsMode = [g \in Gateways |-> "standard"]
    /\ half = "load"
    /\ outputs = [g \in Gateways |-> [ide |-> FALSE, slot |-> NoFrames[g]]]
    /\ inputs = NoFrames
    /\ line = [k \in 1..Lag |-> NoFrames]
    /\ given = [e \in Entries |-> None]
    /\ fresh = TRUE
    /\ calm = FALSE

\* The entry is registered.
Registered(e) == \E i \in DOMAIN devices : devices[i] = e

\* RegisterDevice appends and checks nothing; the Load functions of the plugin
\* call it, in an order and selection that depend on the configuration.
RegisterDevice(e) ==
    /\ half = "load"
    /\ ~Registered(e)
    /\ devices' = Append(devices, e)
    /\ UNCHANGED <<slaveModes, curTsMode, half, outputs, inputs, line, given, fresh, calm>>

\* Init() with a vector of modes starts the bus; a gateway that shares time
\* begins with standard frames.
StartBus(modes) ==
    /\ half = "load"
    /\ slaveModes' = modes
    /\ curTsMode' = [g \in Gateways |-> "standard"]
    /\ half' = "request"
    /\ UNCHANGED <<devices, outputs, inputs, line, given, fresh, calm>>

\* The kind of frames the gateway carries in this cycle.
Kind(g) == IF slaveModes[g] = "sharing" THEN curTsMode[g] ELSE slaveModes[g]

\* Mistake: a gateway that shares time serves everybody in every cycle.
ServedAlways(e) == slaveModes[e.gateway] \in {"sharing", e.mode}

\* The device is called in this cycle, with requests and with responses.
Served(e) == Kind(e.gateway) = e.mode

\* What the devices write, one choice for each entry.
Picks == [Entries -> Asks \cup {None}]
Possible(pick) ==
    \A e \in Entries : IF Registered(e) /\ Served(e) THEN pick[e] \in e.asks
                                                     ELSE pick[e] = None

\* Entry i is the last that writes to its slot: devices are called in the order
\* of registration and write to the same buffer.
Writes(i, pick) ==
    /\ pick[devices[i]] # None
    /\ \A j \in DOMAIN devices :
        j > i /\ devices[j].gateway = devices[i].gateway
              /\ devices[j].passage = devices[i].passage => pick[devices[j]] = None

\* The slot after all calls.  reqBuff is empty before the first.
Content(g, p, pick) ==
    LET writers == {i \in DOMAIN devices : /\ devices[i].gateway = g
                                           /\ devices[i].passage = p
                                           /\ Writes(i, pick)}
    IN  IF writers = {} THEN None
        ELSE LET e == devices[CHOOSE i \in writers : TRUE]
             IN  [from |-> e, ask |-> pick[e]]

\* GetRequestFromDevices: the frames of this cycle and can_ide.
GetRequests(pick) ==
    /\ half = "request"
    /\ Possible(pick)
    /\ outputs' = [g \in Gateways |-> [ide  |-> Kind(g) = "extended",
                                       slot |-> [p \in Passages |-> Content(g, p, pick)]]]
    /\ half' = "exchange"
    /\ given' = [e \in Entries |-> None]
    /\ UNCHANGED <<devices, slaveModes, curTsMode, inputs, line, fresh, calm>>

\* The devices on the CAN buses that answer the outputs.
Answers == [g \in Gateways |-> [p \in Passages |->
    IF outputs[g].slot[p] # None /\ (outputs[g].slot[p].from.mode = "extended") = outputs[g].ide
    THEN outputs[g].slot[p] ELSE None]]

\* The gateways are a cycle further; new are the answers to what reached them.
Forward(new) ==
    line' = [k \in 1..Lag |-> IF k = 1 THEN new ELSE line[k - 1]]

\* The frame goes round: the gateways take the outputs and give their inputs.
Exchange ==
    /\ half = "exchange"
    /\ inputs' = line[Lag]
    /\ Forward(Answers)
    /\ fresh' = TRUE
    /\ half' = "response"
    /\ UNCHANGED <<devices, slaveModes, curTsMode, outputs, given, calm>>

\* The frame is lost, before the gateways or after them; the inputs stay as the
\* last exchange left them.
LoseExchange(reached) ==
    /\ half = "exchange"
    /\ ~calm
    /\ Forward(IF reached THEN Answers ELSE NoFrames)
    /\ fresh' = FALSE
    /\ half' = "response"
    /\ UNCHANGED <<devices, slaveModes, curTsMode, outputs, inputs, given, calm>>

\* Mistake: the turn changes only after a successful exchange.
NextTurnIfFresh(g) ==
    IF slaveModes[g] = "sharing" /\ fresh
    THEN IF curTsMode[g] = "standard" THEN "extended" ELSE "standard"
    ELSE curTsMode[g]

\* Whose turn it is in the next cycle.
NextTurn(g) ==
    IF slaveModes[g] = "sharing"
    THEN IF curTsMode[g] = "standard" THEN "extended" ELSE "standard"
    ELSE curTsMode[g]

\* SendResponseToDevices, and the turn of the gateways that share time.
SendResponses ==
    /\ half = "response"
    /\ given' = [e \in Entries |->
                    IF Registered(e) /\ Served(e) THEN inputs[e.gateway][e.passage]
                                                  ELSE None]
    /\ curTsMode' = [g \in Gateways |-> NextTurn(g)]
    /\ half' = "request"
    /\ UNCHANGED <<devices, slaveModes, outputs, inputs, line, fresh, calm>>

\* From here on no exchange is lost.
CalmsDown ==
    /\ half # "load"
    /\ ~calm
    /\ calm' = TRUE
    /\ UNCHANGED <<devices, slaveModes, curTsMode, half, outputs, inputs, line, given, fresh>>

Load == (\E e \in Entries : RegisterDevice(e)) \/ (\E m \in [Gateways -> Modes] : StartBus(m))
Cycle == \/ \E pick \in Picks : GetRequests(pick)
         \/ Exchange
         \/ \E reached \in BOOLEAN : LoseExchange(reached)
         \/ SendResponses

DispatchNext == Load \/ Cycle \/ CalmsDown
=============================================================================
