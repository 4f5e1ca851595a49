--------------------------- MODULE SoemMasterProps ---------------------------
(* What the EtherCAT master guarantees to the node, and what it only claims. *)
EXTENDS SoemMaster

\* The switches of the three threads; inOP is raised only by the attempt that
\* ends the start.
Switches ==
    /\ running \in BOOLEAN /\ inOP \in BOOLEAN /\ wkcLow \in BOOLEAN
    /\ doCheck \in BOOLEAN /\ quiet \in BOOLEAN
    /\ inOP <=> init = "done"

\* Types; the counters stay within their windows, so they never wrap.
Types ==
    /\ state \in {"NOT_INITIALIZED", "INITIALIZING", "INITIALIZED"}
    /\ init \in {"idle", "start", "failed", "done"}
    /\ try \in 0..Tries
    /\ returned \in {"no", "true"}
    /\ bus \in {"none", "cycle", "ended"}
    /\ wkcIter \in 0..(Period + 1)
    /\ wkcErr \in 0..wkcIter
    /\ check \in {"none", "top", "scan", "lost", "degraded"}
    /\ errIter \in 0..(Period + 1)
    /\ errCount \in 0..(MaxErr + Slaves)
    /\ slavecount \in 0..Slaves
    /\ scan \in 0..slavecount
    /\ seen \in [Slave -> AlState]
    /\ real \in [Slave -> AlState]

\* The three threads share their state without a lock and agree all the same:
\* the bus thread exists only in state INITIALIZED, ecatcheck scans only after
\* the start, only slaves that were found, and it counts at most one error per slave
\* and loop.
Agreement ==
    /\ bus # "none" => state = "INITIALIZED"
    /\ state = "INITIALIZED" <=> init = "done" /\ returned # "no"
    /\ returned = "true" => init \in {"done", "failed"}
    /\ init = "done" <=> slavecount # 0
    /\ check = "none" <=> init = "idle"
    /\ check \in {"scan", "lost"} => init = "done"
    /\ check = "scan" <=> scan # 0
    /\ check = "scan" => errCount < MaxErr + scan

\* The inductive invariant of the EtherCAT master.
SoemInv == Switches /\ Types /\ Agreement

\* The supervision thread, alive from before the first attempt to start the
\* bus, commands no slave while the bus is being started: Start() and
\* ecatcheck() never drive the slaves at the same time.
SupervisionWaitsForStart == [][CheckThread /\ real' # real => init = "done"]_vars

\* A slave that stays silent stops the bus: whatever the three threads are
\* doing, the bus thread ends and is not started again.
LostSlaveStopsBus == check = "lost" ~> [](bus = "ended")

\* When the disturbances end, every slave the start found is brought back to operation
\* as long as the bus runs and the supervision thread is alive.  A slave that was
\* missing then is never brought back.
SlavesRecover ==
    (quiet /\ bus = "cycle") ~>
        \/ \A s \in Found : real[s] = "op"
        \/ check \in {"lost", "degraded"}
        \/ ~running

\* What the node sees of the master.
Life ==
    CASE init = "idle"                        -> "down"
      [] init # "idle" /\ returned = "no"     -> "starting"
      [] returned # "no" /\ init = "failed"   -> "failed"
      [] returned # "no" /\ bus = "cycle"     -> "up"
      [] OTHER                                -> "ended"

Bus == INSTANCE BusLife WITH life <- Life, answer <- returned

\* Whatever the three threads and the slaves do, and in whatever order, the
\* master is a BusLife: the start is decided at last, once, and the bus thread
\* that ended is not started again.
ImplementsBusLife == Bus!BusLifeSpec
=============================================================================
