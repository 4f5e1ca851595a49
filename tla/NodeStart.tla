------------------------------ MODULE NodeStart ------------------------------
(***************************************************************************)
(* BodyControlPlugin.cpp: onInit, the Load functions, autoInit, CheckReady *)
(* and WaitAndSendReady, and the thread that publishes the node state.     *)
(* The EtherCAT master is a BusLife, which SoemMaster implements.          *)
(*                                                                         *)
(* A device is registered with the master and, through its manager or      *)
(* itself, asked by CheckReady whether it was heard: SoemDevice::ready.    *)
(* Devices on the bus may answer late or never.                            *)
(***************************************************************************)
EXTENDS Naturals, BusLife

CONSTANTS
    Devices,        \* what the configuration files may map
    Sections,       \* the device classes, each with a section of a file
    SectionOf,      \* the class of a device
    Single,         \* the classes of one device: the IMUs and the power board
    Oversleep       \* bound: seconds a sleep of one second may take

ASSUME NodeAssumption ==
    /\ SectionOf \in [Devices -> Sections]
    /\ Single \subseteq Sections
    /\ \A c \in Single : \E d \in Devices : SectionOf[d] = c
    /\ \A c, d \in Devices : SectionOf[c] = SectionOf[d] /\ SectionOf[c] \in Single => c = d
    /\ Oversleep \in Nat \ {0}

GiveUp == 3         \* the seconds CheckReady waits
Never == GiveUp + Oversleep + 2

VARIABLES
    phase,          \* initialisation: "load"; "off" without auto_init; "init",
                    \*   "waiting" (in Init()), "check" or "wait", "over"
    toLoad,         \* sections whose Load function has not run
    registered,     \* devices registered with the master, and held by a manager
    enabled,        \* the bEnable flags
    checkReady,     \* enable_check_ready
    heard,          \* SoemDevice::ready of the devices
    nodeState,      \* nodeState: "idle" or "running"
    seconds,        \* CheckReady: seconds since it began, as the next pass finds them
    heardAt,        \* history: seconds at the pass after the device was heard, or Never
    topic           \* node_state: the last message published, or "none"

loadVars == <<toLoad, registered, enabled, checkReady>>
nodeVars == <<phase, loadVars, heard, nodeState, seconds, heardAt, topic>>
allNodeVars == <<busLifeVars, nodeVars>>

NodeInit ==
    /\ BusLifeInit
    /\ phase = "load"
    /\ toLoad = Sections
    /\ registered = {}
    /\ enabled = {}
    /\ checkReady = FALSE
    /\ heard = {}
    /\ nodeState = "idle"
    /\ seconds = 0
    /\ heardAt = [d \in Devices |-> Never]
    /\ topic = "none"

-----------------------------------------------------------------------------
(* The timer of the node that calls onInit *)

In(c) == {d \in Devices : SectionOf[d] = c}

\* Mistake: one entry that is malformed leaves the section disabled.
EnablesIfComplete(c, good) == good = In(c)

\* The section is waited for if any of its devices was created.
Enables(c, good) == good # {}

\* A Load function that maps a list: a malformed entry is logged and skipped, the
\* others are created, registered and enabled.
LoadList(c, good) ==
    /\ c \notin Single
    /\ registered' = registered \cup good
    /\ enabled' = IF Enables(c, good) THEN enabled \cup {c} ELSE enabled

\* A Load function of one device: it returns at the first parameter that is
\* missing, or creates, registers and enables the device.
LoadOne(c, found) ==
    /\ c \in Single
    /\ registered' = IF found THEN registered \cup In(c) ELSE registered
    /\ enabled' = IF found THEN enabled \cup {c} ELSE enabled

\* onInit calls the Load functions; nothing depends on their order.
LoadSection(c) ==
    /\ phase = "load"
    /\ c \in toLoad
    /\ toLoad' = toLoad \ {c}
    /\ \/ \E good \in SUBSET In(c) : LoadList(c, good)
       \/ \E found \in BOOLEAN : LoadOne(c, found)
    /\ UNCHANGED <<busLifeVars, phase, checkReady, heard, nodeState, seconds, heardAt, topic>>

\* The rest of onInit: with auto_init it starts the thread that initialises.
AutoInit(auto, wanted) ==
    /\ phase = "load"
    /\ toLoad = {}
    /\ phase' = IF auto THEN "init" ELSE "off"
    /\ checkReady' = wanted
    /\ UNCHANGED <<busLifeVars, toLoad, registered, enabled, heard, nodeState, seconds,
                   heardAt, topic>>

-----------------------------------------------------------------------------
(* The thread of autoInit *)

\* It calls Init() of the master.
CallInit ==
    /\ phase = "init"
    /\ Begin
    /\ phase' = "waiting"
    /\ UNCHANGED <<loadVars, heard, nodeState, seconds, heardAt, topic>>

\* Init() has returned.  What it says is only logged.
GoesOn == answer # "no"

\* The thread goes on after Init().
InitReturned ==
    /\ phase = "waiting"
    /\ GoesOn
    /\ phase' = IF checkReady THEN "check" ELSE "wait"
    /\ UNCHANGED <<busLifeVars, loadVars, heard, nodeState, seconds, heardAt, topic>>

\* IsReady of the manager or device: all its devices were heard.  The managers
\* keep the answer once it is true, as the devices do.
IsReady(c) == \A d \in registered : SectionOf[d] = c => d \in heard

\* Everything enabled is ready.
AllReady == \A c \in enabled : IsReady(c)

\* More than three seconds, by a clock read a moment after it was first read.
TooLate == IF seconds = GiveUp THEN BOOLEAN ELSE {seconds > GiveUp}

\* Mistake: CheckReady looks at the clock before it looks at the devices.
RunsInTime(late) == AllReady /\ ~late

\* A pass of CheckReady ends the wait: the node runs.
Runs(late) == AllReady

\* One pass of CheckReady.
CheckPass ==
    /\ phase = "check"
    /\ \E late \in TooLate, sleep \in 1..Oversleep :
        /\ nodeState' = IF Runs(late) THEN "running" ELSE nodeState
        /\ phase' = IF Runs(late) \/ late THEN "over" ELSE phase
        /\ seconds' = IF Runs(late) \/ late THEN seconds ELSE seconds + sleep
    /\ UNCHANGED <<busLifeVars, loadVars, heard, heardAt, topic>>

\* WaitAndSendReady after its three seconds.
WaitAndSendReady ==
    /\ phase = "wait"
    /\ nodeState' = "running"
    /\ phase' = "over"
    /\ UNCHANGED <<busLifeVars, loadVars, heard, seconds, heardAt, topic>>

AutoInitThread == CallInit \/ InitReturned \/ CheckPass \/ WaitAndSendReady

-----------------------------------------------------------------------------
(* The master, and the other threads *)

\* The start of the bus succeeds or fails, the bus ends.
BusChanges == (Settle \/ End) /\ UNCHANGED nodeVars

\* The bus thread hands the device a response it accepts, and the device sets
\* ready; the thread of a CANopen motor does so a little later.
Hear(d) ==
    /\ life \in {"up", "ended"}
    /\ d \in registered \ heard
    /\ heard' = heard \cup {d}
    /\ heardAt' = [heardAt EXCEPT ![d] = IF phase = "over" THEN seconds + 1 ELSE seconds]
    /\ UNCHANGED <<busLifeVars, phase, loadVars, nodeState, seconds, topic>>

\* The thread onInit starts publishes nodeState every second.
PublishState ==
    /\ phase # "load"
    /\ topic # nodeState
    /\ topic' = nodeState
    /\ UNCHANGED <<busLifeVars, phase, loadVars, heard, nodeState, seconds, heardAt>>

OnInit == \/ \E c \in Sections : LoadSection(c)
          \/ \E auto, wanted \in BOOLEAN : AutoInit(auto, wanted)

NodeNext == OnInit \/ AutoInitThread \/ BusChanges \/ (\E d \in Devices : Hear(d)) \/ PublishState
=============================================================================
