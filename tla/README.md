# TLA+ models of the TienKung body-control stack

This directory holds TLA+ models of the code of TienKung_ROS, the TLC configurations that
check them on small instances, and TLAPS proofs about them for every value of their
constants. `PROJECT.json` lists components, runs, theorems, hazards and, under `map`, the
source lines every definition stands for. Its paths start with `src/`, the checkout; so the
packages are under `src/src/`. Below, files are named relative to `src/src/`, and those of
the `body_control` plugin by their name only.

To check a model, run `tlc -config MCxxx.cfg MCxxx`; to check proofs, `tlapm XxxProofs.tla`.

## The system

`body_control` is a ROS 2 component that drives the motors, hands, IMU, force sensors and
power board of a humanoid robot over EtherCAT-to-CAN gateways. A gateway (*slave*) carries
one CAN frame per *passage* in each direction in each bus cycle. The program has no locks
around the state its threads share, except in the places named below, and no automated
tests.

| thread | code | what it does |
|---|---|---|
| bus thread | `SoemMaster::Run` | about every millisecond: `OnRequest` of every registered device, exchange of process data, `OnResponse` of every device; devices tell their managers, which push messages on `msgQueue` |
| supervision | `ecatcheck` in `SoemMaster.cpp` | reads the slaves' states, brings them back to operation, stops the master when one is lost |
| initialisation | `BodyControl::autoInit` | starts the master (`SoemMaster::Init`), then waits until all devices are ready (`CheckReady`) and sets `nodeState` |
| publishing | `BodyControl::RunPubMsg` | takes messages from `msgQueue` and publishes them, for motors and IMUs first to in-process subscribers (`fast_ros`) |
| executor | `component_container` | runs the command handlers, which push frames on the devices' queues |
| node state | `BodyControl::onInit` | publishes `nodeState` once a second |
| drive start-up | `ZeroErrMotorDevice`, `EyouMotorDevice` | one thread per CANopen motor switches it off, sets its mode, switches it on |

### Components

*State* is what a component keeps between calls. *Right when* is what its users rely on.

| component | state | operations | talks to | hard because | right when |
|---|---|---|---|---|---|
| `SoemMaster`, life | `state`, `running`, `inOP`, `wkc`, error counters, slave states | `Init`, `InitSoem`, `Start`, `Run`, `ecatcheck`, `Stop` | SOEM; init, bus and supervision threads | three threads share flags without a lock; slaves fail at any moment | the bus is started once, supervised only afterwards, ended when a slave is lost; the caller learns of a failure |
| `SoemMaster`, dispatch | `devices`, `slaveModes`, `vecCurTsMode`, `reqBuff`, `respBuff` | `RegisterDevice`, `GetRequestFromDevices`, `SendResponseToDevices` | every device | time sharing, stale inputs after a lost exchange, tables sized by the configuration | a device gets the answers of its own passage and mode only |
| motor device | `reqQueue`, `reqBuff`, `position`, `ready` | `Set...`, `OnRequest`, `OnResponse`, `OnStatus` | handlers, manager, bus thread | commands and answers in two threads; the last frame repeats for ever | nothing moves before the motor was heard of; it goes where it was sent |
| device managers (4) | `ready`, `statusReady`, `msgStatus` | report and miss callbacks, `CheckAndSendStatus` | devices, plugin | devices answer, miss or stay silent in any order | messages are complete at first, current later, and keep coming |
| command handlers | `nodeState`, device maps | `OnCmd...` | executor, device queues | a message is pushed queue by queue while the bus empties them | the motors of one message stay together |
| `RunPubMsg` | `msgQueue`, `mtxPubMsgCv`, `cvPubMsg` | push and notify, pop, publish, wait | bus thread, `fast_ros`, ROS | notifications are sent without the mutex and get lost | every message is published, in order |
| `LockFreeQueue` | linked list, `head`, `tail` | `push`, `pop`, `empty` | every queue above | two threads on one node | a FIFO queue, no freed node touched |
| `fast_ros` `FastConnection` | `subsLast`, `subsCurrent`, `queueSubs` | `subscribe`, `publish` | subscribers of other threads | the list grows while it is used; subscribers throw | each subscriber gets each message from when it joined, once |
| power board device, `PowerMgr` | `req_id_`, `last_req_id_`, times, `readyBits` | `OnRequest`, `OnResponse`, `IsReady`, `ClearReady`, beep | bus thread, motor manager | requests and answers are lost, late, repeated | polling never ends, a complete status was received, a pressed stop is shown |
| IMUs (Xsens 1, 2, high rate; RM), SRI force sensor | `readyMsg`, `count`, the packages stored | `OnRequest`, `OnResponse` | bus thread, plugin | a reading comes in several packages of which any may be lost or late | a message is one reading, and comes once |
| Tsinghua hand device | `cmdQueue`, `curReqFrames` | `Set...`, `OnRequest`, `OnResponse` | handlers, manager | commands of several frames | a command's frames stay together |
| Eyou and ZeroErr motors | drive state, answer flags | worker thread, `OnRequest`, `OnResponse` | bus thread | request and answer across two threads, lost answers | the drive ends up on, in its mode |
| node start | `nodeState`, `bEnable...` | `onInit`, `Load...`, `CheckReady`, `WaitAndSendReady` | all of the above | a limit of three seconds races the devices' first answers | RUNNING is announced when everything was heard in time, and only then |
| `MonitorPlugin` | `count`, `countAnyMotor`, one mutex per topic | `OnNodeState`, callbacks, reporting thread | `node_state`, the topics of the node | callbacks count while the thread reports and resets | a report tells what the messages of its window lacked |
| `ThreadsManager`, `usb_sbus`, `Channel`, filters | small | | | | not modelled, see below |

How they interact: the handlers push on `LockFreeQueue`s which `OnRequest` pops; the bus
thread calls devices and, through them and in the same thread, managers and the callbacks
of the plugin, which push on `msgQueue`, also a `LockFreeQueue`; `RunPubMsg` pops it and
calls `FastConnection::publish` and ROS. `CheckReady` reads the managers' `IsReady` from
the initialisation thread. A motor's temperature sets the power board's beep. The only
mutexes are that of the condition variable, taken by the publishing thread alone, that of
`subscribe` and that of the hand's handlers. The monitor, a node of its own, follows
`node_state` and has one mutex per topic.

## Modules

A component `X` has `X.tla` (state, actions, specification), usually `XProps.tla`
(properties and the inductive invariant), and `MCX.tla` with its `.cfg`. Proofs are in
`XProofs.tla`; `NodeProofs` holds those of `SoemMaster`, `NodeStart` and `Monitor`,
`RequestPathProofs` those of `LockFreeQueue`, `SoemDispatch` and `HandDevice`, and `MessageProofs` those of
`PublishLoop` and `CommandFanout`, whose properties are in their modules. Operators with the comment *Mistake* are plausible errors in the definition that
follows them; they are used by nothing and document what a property guards against.

**`LockFreeQueue`** - `LockFreeQueue.h` at the level of the heap: nodes are allocated at
any free address and given back, and each plain store of `push()` (value, next, tail) is a
step; so are the four parts of `pop()`. The fields are not atomic, so what the other thread
sees is up to the build: `TailLast = TRUE` is a build and machine that show the store to
`tail` after the other two, `FALSE` one that may reorder them. `FifoQueue` is the abstract
specification: two counters and the item last taken; `LockFreeQueue` implements it with
`put <- pushed`, `got` moving when the value is read. `CommandFanout`, `MotorDevice` and
`PublishLoop` use their queues at this abstract level.

**`StatusBatch`** - the assembly of a status message by `MotorDeviceManager`,
`TsinghuaHandDeviceManager`, `EyouMotorDevMgr` and `ZeroErrMotorDevMgr`, which have the
same code but for the miss callback only the first has. One action is one device's turn in
`SendResponseToDevices`: `Own`, `Miss` or `Other` frame, with all of `CheckAndSendStatus`; or
`PassBy`, when the gateway does not carry the device's frames in this cycle. Each device has
a gateway that always carries them, one in mode `TIME_SHARING` that carries them in every second
cycle, or one of the other mode that never does.
A manager is the set of what the passages of its devices may hold; `"thread"` in it stands
for the CANopen motors in position mode, which their own threads make ready (`SetReady`),
before or after their first status. Statuses are counted, and aged in cycles.

**`SoemMaster`** - `InitThread` (one action per attempt of `InitSoem`), `BusThread` (one
iteration of `Run`), `CheckThread` (`ecatcheck`, one action per slave looked at, because
slaves change between) and the slaves themselves, which change state until the environment
is `quiet`. A start that finds fewer slaves than it should goes on with those (`slavecount`),
as `Start` only logs a warning; the others are never looked for again. Exchange of frames with devices is left to the other modules; here an exchange
has a working counter that is or is not too low. `BusLife` is the abstract specification:
the bus is started once, the start ends in a bus or a failure, a bus that ended stays so,
and the caller of `Init` is not told which it was. `SoemMaster` implements it, and
`NodeStart` is built on it.

**`SoemDispatch`** - `RegisterDevice` and the three steps of a bus cycle: `GetRequests`
calls the devices whose turn it is, in the order of registration, so of two on one passage
the later overwrites the earlier; `Exchange` or `LoseExchange`, which loses the frame before
or after the gateways; `SendResponses`, then the turns change. External are the gateways:
what reaches them is answered `Lag` exchanges later, by devices that only understand their
kind of identifier. Registration happens in any order and selection (`Entries` is what a
configuration may name) and with any modes.

**`HandDevice`** - `TsinghuaHandDevice` as one entry of `SoemDispatch`, whose actions it
joins with `OnRequest`, the arrival of a frame and `OnResponse`. A command is the list of
frames its handler pushes. Histories (`outcomes`, `hit`, `since`) record how a command ended.
`CommandStream` is the abstract specification: commands end in the order given, each once,
and one is spoilt only by a frame lost while it was sent.

**`NodeStart`** - `onInit`: each `Load` function registers what is well-formed in its section
and enables the section (`LoadList` for lists, `LoadOne` for the IMUs and the power board);
`autoInit`, `CheckReady` pass by pass, with sleeps that take up to `Oversleep` seconds and a
clock read before the devices are looked at; `WaitAndSendReady`; and the thread that
publishes `nodeState`. The bus is `BusLife`. When a device is heard is up to it (`Hear`).

**`Monitor`** - `MonitorPlugin`: the callbacks under their mutex, the thread that takes all
mutexes one by one, reports and resets, and its first reset without them. `OnMotorStatus` is
several steps, one for each status it counts, as that reset can fall between. A message is how
many statuses of each motor it holds: the first message of `StatusBatch` may hold several.
`NodeMonitor` composes it with `NodeStart` over the
topic `node_state`.

**`PowerBoard`** - `OnRequest` and `OnResponse` with `PowerMgr::ParseCanPackage`,
`IsReady`, `ClearReady`. Time is counted in bus cycles; the three timers saturate at their
limits. Answers sit in a set from which each may be delivered once, again, late or never.
All data are abstracted to one word, the switches, which the last instruction asks for.

**`CommandFanout`** - `OnCmdMotorCtrlMsg` and its siblings against `GetRequestFromDevices`,
for messages that name every motor. Frames are numbered by their message; a queue holds
consecutive numbers, so two numbers describe it. Any of the motors may sit on a gateway that
shares time, where they are asked in every second cycle.

**`MotorDevice`** - one motor: the handlers' tests, `SetMotorPosition`, `SetMotorDistance`,
`SetMotorSpeed`, `SendMotorCtrlCmd` with the zero offset and limits, the frame that is sent
again, the answer. `OnStatus` is two steps, as the executor reads `position` and `ready`
without a lock. `position` starts with any value, as the code does not initialise it.

**`PublishLoop`** - `RunPubMsg` and `FastConnection::publish` in one thread, step by step,
against the bus thread that pushes and then notifies, and threads that subscribe. The
successive lists of subscribers are prefixes of one sequence, so a list is its length.

**`SensorFrames`** - `XsensImuDevice` (modes 1 and 2), `XsensImuHRDevice`, `RmImuDevice`
and the SRI sensor. One action per `OnResponse`; one for the requests and the exchange. A
device is a record of its passages, the packages it needs and the marks an empty passage
takes back, which is where the five differ. A package is the number of the reading it is
of. A dropped exchange leaves the inputs as they were, and the devices are called with them
again.

**`CanOpenMotor`** - `ZeroErrMotorDevice` and `EyouMotorDevice`: the worker (`LoopStep`,
`LoopEnds`, `PositionCycle`, `TorqueCycle`, with the division of the Eyou motor as `Divide`),
the bus thread (`Exchange`, `LoseExchange`: `OnRequest`, the exchange, `OnResponse` in one
action, as the worker shares only a queue and single fields with it) and the drive, which is
external: the part of CiA 402 that the requests use. In position mode the worker reads the
received position twice, without a lock, so a period in which the motor is far from its target is
two actions: `Look` notices the distance, `Move` makes the set point from the position received by
then. A kind of motor is a record of where the
two classes and their modes differ. The worker's sleeps are not counted; `late` remembers
that one ended before the answer it was for, `lost` that an exchange failed. Modes the plugin
cannot select (`POS_2`, `FPHC` of the Eyou motor) are left out.

## Runs

| run | bounds | what it shows |
|---|---|---|
| `lock_free_queue` | 4 addresses, 5 items | no null or freed node is touched, what is allocated is what is queued or being built, FIFO is implemented |
| `status_batch` | 3 devices, each on one of three kinds of gateway, three kinds of manager, ages to 3 | first message complete, later ones current, without end |
| `soem_master` | 2 slaves, any of them silent, 2 attempts, window of 1, no error allowed | flags agree, supervision waits for the start, a lost slave ends the bus, slaves that were found recover, `BusLife` is implemented |
| `hand_device` | 1 gateway and CAN bus, 3 devices that may register, answers 2 exchanges late, 2 commands | answers reach their own kind, the last registered is heard, `CommandStream` is implemented |
| `node_monitor` | 2 motors and a power board, sleeps of 1 or 2 s, 1 motor monitored, 2 messages a window, 2 statuses a message | RUNNING means heard, only the late are given up, followers start, reports count what came |
| `power_board` | 3 instructions, round 6, retry 2, beep 2 | asked in order, complete statuses were received, a changed switch is shown, so polling goes on |
| `command_fanout` | 3 motors on gateways of either kind, named in reverse, 5 messages | at an exchange no motor is more than two messages ahead of one that is asked as often |
| `motor_device` | raw positions -2..2, offset 1, 2 frames queued | only stops before the motor is heard of, targets within limits, positions are reached |
| `motor_distance` (violation) | the same | a distance moves the motor by distance + offset |
| `publish_loop` | 2 fast topics and one other, 3 messages, 2 subscribers | nobody misses a message, all are published though notifications get lost |
| `sensor_frames` | 5 devices, warm-up 5, 2 readings | one message per whole cycle, never backwards, mixed only after an inner loss |
| `canopen_motor` | 3 kinds of motor, positions 0 and 4, a step of 2, tolerance 1, set points to 4, 4 requests queued | the drive is never on in a wrong mode, is switched on where it stands, ends up on, goes where it is sent |

Why the bounds are enough. *Queue*: five items on four addresses make each address be
reused while the other thread still holds it. *Batch*: three devices have a first, an inner
and a last turn, and each can complete the set; ages of 3 and three statuses of one device
would break the properties and can be represented. *SoemMaster*: two slaves, so that the scan stands
between them while either changes; with a window of one cycle the counters reach their
limit and their reset in every behaviour; two attempts give a failure before a success and
a total failure; with one of the two silent the start goes on with the other. *Power board*: first, inner and last instruction; a round of six cycles
ends in time after one loss and is cut short by two (each costs two cycles), so a new round
meets answers of the old. *Fan-out*: with three motors the order of a message and of the bus can
be opposite; five messages exceed the lead of three that is possible within a cycle, and let
a motor that is asked in every second cycle fall behind further than that.
*Motor*: two positions inside the limits, one beyond, motors that start anywhere. *Publishing*: one
subscriber joins before and one after another, in every phase; three messages so that one is popped while one waits and one is not yet pushed.
*Sensors*: a package may be of the reading before, this one or none; five requests end the
warm-up of the four-passage devices in their second cycle. *CANopen*: a queue of four holds a
whole round of the last loop behind the thread that has gone on, and the requests of a period;
from 0 to 4 takes two steps of 2 with a tolerance of 1; `Reach` is a bound of the model on set points,
which lead past a target of 0, to -2. A commanded speed of less than a count a period, which
moves nothing, is a step of 0: the proofs allow it, the instance has none. *Hand*: one gateway is enough, as nothing
in the dispatch relates two of them; on one CAN bus the hand has a rival of its own kind and
one of the other; with a lag of two, answers are on the line, in the inputs and handed out at
once, and a lost exchange shifts them; two commands give one waiting behind one being sent.
A lag of one is in the proofs, where it is a constant. *Node*: a list of two and a
single device give a section that is partly malformed, empty or whole; sleeps of one and two
seconds make passes before, at and after the limit. *Monitor*: two messages, one
before and one after the first reset, with and without the motor; two statuses make a motor
counted twice in one message. The proofs hold for all
values of these numbers.

Deadlock is checked in every run but two: in `canopen_motor` a division by zero may end the
process, and in `node_monitor` nothing is left to do on a node without `auto_init`. No
configuration replaces a definition.

## Fairness

* Bus, supervision and initialisation threads, publishing thread: weak fairness of the
  thread. They are loops without a lock that sleep a bounded time; the operating system
  runs each. `StartSucceeds` and `StartFails` are one fair action, as the thread goes on
  either way; which of the two happens is not promised.
* A call that has begun ends: the stores of `push()`, the loop of a command handler over a
  message, the notification after a push.
* Nothing is assumed of clients, subscribers, slaves or sensors: nobody has to command,
  join or push. Losses need not end: instead the models have `quiet`, a step that may
  happen and after which nothing is lost, and the properties say what follows it.
* The bus thread that calls the hand runs (`HandCycle`); that an exchange succeeds is
  promised only after `calm`. `CommandStream`'s fairness is shown for a bus that serves the
  hand for ever, whether or not its exchanges get lost.
* The node's timer, the threads of `autoInit` and of the node state, and the executor of the
  monitor run; `Init` returns (`Settle`), which `soem_master` shows of the master. Devices
  need not be heard, and the monitor's reports are not promised.
* The worker thread of a CANopen motor, which sleeps and pushes, runs. Whether a division by
  zero traps is not promised.
* Subscribers return (`CallSubscriber` is part of the publishing thread). The code has no
  limit for it: a subscriber that never returns stops all publishing.

## Proofs

All for arbitrary constants under the `ASSUME` of their module, which only bound the
domains (a positive number of slaves, devices or motors; limits in `Nat`).

* **`RequestPathProofs`**, the queue - `QueueInvariant`, `NodesAreLive`, `NodesAreCounted`,
  `QueueRefinesFifo`, *if* `TailLast`. The code does not ensure it: x86 keeps the order of stores if the compiler does;
  a build or machine that lets the store to `tail` be seen first breaks the queue. The
  invariant: `head` and `tail` are the nodes of ranks `popped` and `pushed`, allocated
  nodes are exactly those between and the one being built, pairwise different, linked and
  filled; while `push()` runs, what it has stored is in place. That the number of nodes is that
  of the items, the dummy and at most two in hand follows by counting the ranks.
* **`StatusBatchProofs`** - `BatchInvariant`, `MessagesLackNobody`, `MessagesAsPromised`,
  `PhaseIsKept`, `MessagesKeepComing`. After the
  first message `reported` is exactly the set of devices that were called since it left: those
  whose last call (`Ago`) is no further back than the message (`since`). Without gateways that share
  time all are called within a cycle, so the next message leaves in the same turn, and each has one
  status, at most a cycle old. Otherwise it takes two cycles, within which a device that is called in
  every cycle reports twice; and it is at last a device of a shared gateway that completes the set.
  Before it, every device heard of has a status waiting; that is why the first is complete. Every turn
  comes nearer to that of the last device that has not reported, at the latest its own end.
* **`NodeProofs`** - of the master: `SoemInvariant`, `StartAndCheckApart`,
  `MasterImplementsBusLife` (its safety alone: `MasterIsABusLife`), `LostSlaveEndsBus`,
  `RecoveryHelps`, `SlavesComeBack`. `inOP` is raised only by the attempt that ends the start, and `ecatcheck`
  scans only if it is; its error counter is bounded through the slave it stands at. When the
  disturbances end, the scan under way ends, the next lifts every slave to SAFE_OP at least and
  the one after that to operation; this is about the slaves the start found. Of the node: `NodeInvariant`, `ReadyNodeIsFollowed`. Every enabled section has a registered device and every registered
  device an enabled section; so when all enabled sections are ready all devices were heard.
  `heardAt` remembers when, and a pass that gives up found one missing after the limit. Of the
  monitor: `MonitorInvariant`, `ReportsAreExact`. A callback never has a mutex the thread has, so
  at a report none is half done. What was counted and what the callback has still to count are
  together what the messages of the window held; only a motor that one of them held several
  times is counted more often than messages had it.
* **`RequestPathProofs`**, the dispatch and the hand - `DispatchInvariant`, `HandInvariant`, `HandIsAskedOften`,
  `HandImplementsStream` (its safety alone: `HandIsAStream`), `LastRegisteredIsHeard`, for any gateways, devices, modes and lag. What is on the line alternates with
  the turns of its gateway because both advance once a cycle, lost or not: so a gateway that
  shares time gives devices the answers of their own kind if and only if the lag is even.
  What is left of a command is a suffix of it, the frame in the slot the one before, and at most
  54 steps of the bus thread end it. A request of the device registered last is on the line within
  seven steps; its answer arrives in a turn of that device.
* **`CanOpenMotorProofs`** - `CanInvariant`, `OnInTheWantedMode`, `OnWithoutAJump`, `MotorGoesThere`, for any
  positions, speeds and queue. Only requests that fit the worker's loop wait (no mode but the one
  wanted, no "enable" before the last loop), so a drive in its mode stays in it, and a drive that
  said it was off was not switched on behind the worker; so an answer may be late, or handed out
  again, and yet is true. When the worker is in time, at most one request or answer is about,
  and the mode is asked for only after the position received was set: this order is what
  `InPlace` records request by request, and what the end of the loop relies on.
  That a motor goes where it was sent (`GetsThere`) is not plain, because set points are computed
  from positions that may be out of date; and it holds only while what the worker notices between its
  two reads stays so (`Whole`). If a position arrives there, the set point is the new position and a step
  computed for the old one, so it may lead past the target; and if that happens again and again the
  motor swings round its target for ever, which TLC shows when `Whole` is left out. No distance known, waiting or under way is ever greater than
  before (`Within`), since a set point is nearer to the target than the position it is computed
  from. A bound `m + 1` above the tolerance falls to `m`: set points that wait are taken and the drive
  comes to stand at the last (`Tidy`, `Still`); a drive that stands at `m + 1` is at last seen there by the
  worker (`Settled`, `Mark`, `Shown`), who then lets the queue drain or sends it nearer (`Drained`,
  `HasSet`, `SetDue`), after it has noticed the distance (`DrainNoticed`); and a drive that stands nearer is at last seen there, when nothing recalls `m + 1`.
* **`PowerBoardProofs`** - `PowerInvariant`, `CompleteStatus`, `TopicFollows`, `SwitchesAreReported`. An
  instruction is asked for, on its way or marked only if all before it were stored; so when
  the bit of the last is set, all others hold received values. The last itself may not: a
  late answer sets its bit without being stored (`PowerMgr.cpp:49-56`), so a complete status
  can show the initial switches. That the topic comes to show
  the switches of a quiet bus needs `RoundIsLong`: a round of `N` requests fits between two
  (1000 against 14 + 10 in the code); TLC refutes it with shorter rounds, which start over before
  they end. `AnsweredAtOnce`: on a quiet bus an answer comes in the exchange of its request.
* **`MotorDeviceProofs`** - `MotorInvariant`: frames other than a stop exist only after the
  node runs and the motor was heard of, and positions in frames are within the limits.
  `LastCommand`: the last frame on its way is that of the last command; hence `MotorGetsThere`.
* **`MessageProofs`** - of `PublishLoop`: `PublishInvariant`, `EverySubscriberServed`,
  `CalledInOrder`, `AllMessagesPublished`. While `publish()` goes through its list, it holds everybody that joined
  before the message was popped, and those before the current place were called. Of
  `CommandFanout`: `FanoutInvariant`, `MessagesStayTogether`. A motor that is behind by two
  finds a frame in its queue, so the lead of a motor that is asked no more often cannot grow; within
  a cycle the bound depends on which of the two was asked (`Passed`).
* **`SensorFramesProofs`** - `SensorInvariant`, `WholeCyclePublishes`, `InOrderMessages`,
  `MessagesOnlyAdvance`, `FirstPackageIsCurrent`, for all five devices. Once a message has
  left in a cycle, one of the packages handled before is unmarked and stays so; if none has
  left and none is lost, all handled are marked. While packages come in order the last is
  never kept, so a message is one reading.

*How liveness is proved.* A theorem about what happens at last has the form *hypotheses imply
`Spec => Property`*. Its proof has three parts: lemmas about single steps (from where the thread
stands no step leads away, and a step of the thread leads on), which the SMT solver checks; the
rule of fairness, which LS4 checks for one `n` at a time; and the composition. Where the number
of steps is fixed (the 54 of the hand, the seven of a request) the composition is a chain of such
steps. Where it depends on a constant or on data the prover would need induction inside a
temporal formula, which it has not; there the theorem has as a hypothesis the instance of the
rule of descent for its rank, `ByDescent(P, Q, R)`: if for every `n` a state of `P` with rank `n`
leads to `Q` or to a state of `P` of smaller rank, then `P` leads to `Q`. Every behaviour satisfies it,
as `R` is a natural number; what is proved is that the ranks fall. `ByInduction` of
`CanOpenMotorProofs` is the same for a family of states in place of a rank. The other hypotheses say
when fairness applies: `[](guard => ENABLED <<A>>_vars)`, where `guard` is the condition the
action of the thread begins with. `ENABLED` cannot be expanded by the prover either; TLC finds
each of these true in every state of the instance of its run, but for those of
`MasterImplementsBusLife` and `HandImplementsStream` about a step of the instanced abstract
specification, which repeat its guard. No other hypothesis restricts the code, but
`RoundIsLong`.

*Only model-checked.* `StartsUp` of the CANopen motor, whose worker and bus thread both have to
go on through loops of several requests; and the hypotheses just named.

## Findings

`MotorDevice::SetMotorDistance` applies the zero offset twice (`MotorDevice.cpp:127`), so a
motor moves by distance + offset. Run `motor_distance`.

Plain from the text, so without a run: `SoemMaster::Init` returns true when every attempt
to start the bus failed (`SoemMaster.cpp:298`), so the branch of `BodyControlPlugin.cpp:986`
("SOEM init failed.") is dead. A node that does not check, or has no device enabled, then
announces RUNNING without a bus; `BusLife` and `NodeInv` say so. The Xsens IMU does not abandon
a frame whose first package is missing, against the comment at `XsensImuDevice.cpp:45`: the
rest of it is joined to the next reading, and so on until another package is lost;
`OneReadingPerMessage` excepts it. The high-rate IMU has the related flaw that its marks are
numbered the other way round than its passages (`XsensImuHRDevice.cpp:38`).

Also noted while modelling: the bus thread's error limit logs "Stopping
RT process." (`SoemMaster.cpp:35, 317`) and nothing stops. An Eyou motor that stands exactly on
its target divides 0 by 0 (`EyouMotorDevice.cpp:190`), which can happen as soon as it has been
switched on. A CANopen motor in position mode whose last answer before the set point was lost
or late is switched on with an old set point, at first 0, and jumps: `SwitchedOnInPlace` needs
both its conditions. The rated current is asked for once (`ZeroErrMotorDevice.cpp:120`); if that
exchange fails, every torque is divided by zero, hence the condition in `TorqueDefined`, a part
of `StartsUp`. A worker that loops once more than needed leaves a "shutdown" in the queue behind
its last look at the drive; if the exchange of the "enable" after it fails, the motor is taken
to be on and is off. A fault after the first loop is never cleared. On a gateway that shares
time, devices get answers of their own kind only if answers take an even number of exchanges
(`AnswersOfOwnKind`). `nodeState` stays RUNNING when the bus ends. The first report of the
monitor may show a negative loss: the counts of motors are not reset with the others
(`MonitorPlugin.cpp:168`); and as it counts statuses and not messages (`MonitorPlugin.cpp:276`), a
message that holds several of one motor, as the first one does when another motor was awaited, makes
the loss logged for it too small, in whatever window it falls. Its first reset runs without the
mutex and is lost if a callback is just counting.
If motors are on gateways that share time and on others, a message of `~/motor_state` comes every second
cycle and holds two statuses of each of the others; and a command a cycle makes the queue of a motor
on a gateway that shares time grow without a bound, so it lags behind the others of the same message.
A slave that is silent when the bus is started is only warned about (`SoemMaster.cpp:56`); nothing
looks for it again. A CANopen or other motor mapped twice under one name is on the bus twice but
waited for once. A number that is none in a configuration file throws out of `onInit`.

The topics `~/set_motor_cur_tor` and `~/init` of `bodyctrl_msgs/doc/BodyControlNode.md`
(lines 20 and 26) do not exist in the code.

## Not modelled

Left out for good: SOEM, vendor SDKs and CerealPort (third-party; SOEM appears as the slave states it reports); packing of values into frames, IMU filters
(floating point without control state); `Channel` and `ThreadsManager` (used by nobody);
`usb_sbus` (one thread: it looks for a byte 0x0F as the start of a frame and then reads the rest
without a time limit, so a constant payload of that value can keep it out of step); plugins that are not built; messages and launch files. The end of
the process is not modelled. `FastConnection::subscribe` returns a function
that unsubscribes; `NodeHandle` drops it, so no code can call it.

## Plan

The models planned are done. Left, in this order:

1. A proof of `StartsUp`, the last property without a theorem.
2. `Pipeline`, from a motor's answer to a subscriber, out of `StatusBatch`, `FifoQueue` and
   `PublishLoop`: order of statuses end to end.
3. The executor's handlers of hands and CANopen motors in `CommandFanout`, with messages that
   name some motors only.

To stay readable, runs of a component are merged rather than added (`status_batch` covers four
managers, `sensor_frames` five devices), and theorems about a composition go with the proofs
of the part they extend.

Hazards noted and not in `PROJECT.json`: the power board measures time
with the adjustable system clock; a negative current is cast to unsigned in
`MotorDevice.cpp:76`; `MotorDeviceManager.cpp:83` may read a temperature nobody has set; the
hand handlers index their arrays unchecked (`BodyControlPlugin.cpp:1117`); a frame cut in two reads in `usbSbus.cpp:78`.
