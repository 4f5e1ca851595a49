----------------------------- MODULE SoemMaster -----------------------------
(***************************************************************************)
(* SoemMaster.cpp: the life of the EtherCAT master.  Three threads of the  *)
(* program share it without a lock: the initialisation thread in Init(),   *)
(* the bus thread in Run() and the supervision thread in ecatcheck(),      *)
(* which Init() starts before the bus is up.  The slaves change state on   *)
(* their own until the environment becomes quiet.                          *)
(*                                                                         *)
(* Slave states: "op", "safeop", "error" (SAFE_OP + ERROR), "other" (any   *)
(* other state above 0) and "none" (0, the slave does not answer).  They    *)
(* sit on one line: the start finds those before the first silent one, and *)
(* nothing looks for the others again.                                     *)
(***************************************************************************)
EXTENDS Naturals, FiniteSets

CONSTANTS
    Slaves,     \* number of slaves there should be, SLAVE_NUMBER
    Tries,      \* attempts of InitSoem to start the bus, 9 in the code
    Period,     \* K_ETHERCAT_ERR_PERIOD, 100 in the code
    MaxErr      \* K_ETHERCAT_ERR_MAX, 20 in the code

ASSUME SoemAssumption ==
    /\ Slaves \in Nat \ {0}
    /\ Tries \in Nat \ {0}
    /\ Period \in Nat \ {0}
    /\ MaxErr \in Nat

Slave == 1..Slaves
AlState == {"op", "safeop", "error", "other", "none"}

VARIABLES
    state,      \* SoemMaster::state
    init,       \* initialisation thread: "idle", "start", "failed", "done"
    try,        \* InitSoem: attempts made
    returned,   \* what Init() returned, "no" before it does
    running,    \* SoemMaster::running
    inOP,       \* set by Start() when every slave it found is operational
    slavecount, \* ec_slavecount, the slaves Start() found; read only when inOP
    bus,        \* bus thread: "none", "cycle", "ended"
    wkcLow,     \* wkc < expectedWKC after the last exchange
    wkcErr,     \* wkc_err_count
    wkcIter,    \* wkc_err_iteration_count
    check,      \* supervision thread: "none", "top", "scan", "lost", "degraded"
    doCheck,    \* ec_group[0].docheckstate
    errCount,   \* err_count
    errIter,    \* err_iteration_count
    scan,       \* the slave ecatcheck looks at, 0 outside its loop
    seen,       \* ec_slave[].state as ec_readstate left it, during the scan
    real,       \* the slave's own state
    quiet       \* the environment disturbs the bus no more

initVars  == <<state, init, try, returned, inOP, slavecount>>
busVars   == <<bus, wkcLow, wkcErr, wkcIter>>
checkVars == <<check, doCheck, errCount, errIter, scan, seen>>
vars == <<initVars, running, busVars, checkVars, real, quiet>>

\* Outside the scan nobody looks at the states read last.
Unread == [s \in Slave |-> "none"]

SoemInit ==
    /\ state = "NOT_INITIALIZED"
    /\ init = "idle"
    /\ try = 0
    /\ returned = "no"
    /\ running = TRUE
    /\ inOP = FALSE
    /\ slavecount = 0
    /\ bus = "none"
    /\ wkcLow = TRUE
    /\ wkcErr = 0
    /\ wkcIter = 0
    /\ check = "none"
    /\ doCheck = FALSE
    /\ errCount = 0
    /\ errIter = 0
    /\ scan = 0
    /\ seen = Unread
    /\ real \in [Slave -> {"other", "none"}]
    /\ quiet = FALSE

\* The slaves the master knows of.
Found == 1..slavecount

-----------------------------------------------------------------------------
(* The initialisation thread *)

\* Init() up to the first attempt: the exchange on state succeeds, InitSoem
\* starts the supervision thread.
InitCall ==
    /\ init = "idle"
    /\ state = "NOT_INITIALIZED"
    /\ state' = "INITIALIZING"
    /\ init' = "start"
    /\ check' = "top"
    /\ UNCHANGED <<try, returned, running, inOP, slavecount, busVars, doCheck, errCount,
                   errIter, scan, seen, real, quiet>>

\* Start() finds the slaves before the first silent one and brings them to OPERATIONAL;
\* that there are fewer than expected is only logged.  InitSoem leaves its loop.
StartSucceeds ==
    /\ init = "start"
    /\ try < Tries
    /\ \E n \in Slave :
        /\ \A s \in 1..n : real[s] # "none"
        /\ n < Slaves => real[n + 1] = "none"
        /\ slavecount' = n
        /\ real' = [s \in Slave |-> IF s <= n THEN "op" ELSE real[s]]
    /\ inOP' = TRUE
    /\ try' = try + 1
    /\ init' = "done"
    /\ UNCHANGED <<state, returned, running, busVars, checkVars, quiet>>

\* Mistake: a last attempt that fails does not end the start.
NeverLastTry == FALSE

\* The attempt is the last InitSoem makes.
LastTry == try + 1 = Tries

\* Start() fails: no socket, no slave, or not all it found operational.  Some slaves
\* may have become operational all the same.
StartFails ==
    /\ init = "start"
    /\ try < Tries
    /\ quiet => real[1] = "none"
    /\ \E up \in SUBSET {s \in Slave : real[s] # "none"} :
        real' = [s \in Slave |-> IF s \in up THEN "op" ELSE real[s]]
    /\ inOP' = FALSE
    /\ try' = try + 1
    /\ init' = IF LastTry THEN "failed" ELSE "start"
    /\ UNCHANGED <<state, returned, slavecount, running, busVars, checkVars, quiet>>

\* The rest of Init(): state follows the result, the bus thread is started on
\* success, and the caller gets true either way.
InitReturns ==
    /\ init \in {"done", "failed"}
    /\ returned = "no"
    /\ state' = IF init = "done" THEN "INITIALIZED" ELSE "NOT_INITIALIZED"
    /\ bus' = IF init = "done" THEN "cycle" ELSE bus
    /\ returned' = "true"
    /\ UNCHANGED <<init, try, running, inOP, slavecount, wkcLow, wkcErr, wkcIter, checkVars,
                   real, quiet>>

-----------------------------------------------------------------------------
(* The bus thread *)

\* Mistake: the counters are never reset.
WindowNeverOver == FALSE

\* The window over which errors are counted is over.
WindowOver == wkcIter > Period

\* One iteration of Run(): reset the counters, exchange a frame, count it.  That there
\* were too many errors is only logged, by degraded_handler().
BusCycle ==
    /\ bus = "cycle"
    /\ running
    /\ \E low \in BOOLEAN :
        /\ (\E s \in Found : real[s] # "op") => low
        /\ quiet /\ (\A s \in Found : real[s] = "op") => ~low
        /\ wkcLow' = low
        /\ wkcErr' = (IF WindowOver THEN 0 ELSE wkcErr) + (IF low THEN 1 ELSE 0)
    /\ wkcIter' = (IF WindowOver THEN 0 ELSE wkcIter) + 1
    /\ UNCHANGED <<initVars, running, bus, checkVars, real, quiet>>

\* Run() leaves its loop.
BusEnds ==
    /\ bus = "cycle"
    /\ ~running
    /\ bus' = "ended"
    /\ UNCHANGED <<initVars, running, wkcLow, wkcErr, wkcIter, checkVars, real, quiet>>

-----------------------------------------------------------------------------
(* The supervision thread *)

\* The counters at the top of the loop; they are reset together.
TopErr  == IF errIter > Period THEN 0 ELSE errCount
TopIter == IF errIter > Period THEN 0 ELSE errIter

\* Mistake: ecatcheck does not wait for Start().
MustLookEarly == wkcLow \/ doCheck

\* Mistake: ecatcheck looks at the slaves only when it has looked before.
MustLookAgain == inOP /\ doCheck

\* A slave may be out of operation.
MustLook == inOP /\ (wkcLow \/ doCheck)

\* Too many errors: the thread logs that the process is stopped, and ends.
CheckDegraded ==
    /\ check = "top"
    /\ TopErr > MaxErr
    /\ check' = "degraded"
    /\ errCount' = TopErr
    /\ errIter' = TopIter
    /\ UNCHANGED <<initVars, running, busVars, doCheck, scan, seen, real, quiet>>

\* Read the states of the slaves, to look at each.
CheckBegins ==
    /\ check = "top"
    /\ TopErr <= MaxErr
    /\ MustLook
    /\ errCount' = TopErr
    /\ errIter' = TopIter + 1
    /\ doCheck' = FALSE
    /\ seen' = real
    /\ scan' = 1
    /\ check' = "scan"
    /\ UNCHANGED <<initVars, running, busVars, real, quiet>>

\* Nothing to look at in this iteration.
CheckIdle ==
    /\ check = "top"
    /\ TopErr <= MaxErr
    /\ ~MustLook
    /\ errCount' = TopErr
    /\ errIter' = TopIter + 1
    /\ UNCHANGED <<initVars, running, busVars, check, doCheck, scan, seen, real, quiet>>

\* The loop over the slaves goes on, or the thread sleeps and starts over.
ScanNext ==
    /\ scan' = IF scan = slavecount THEN 0 ELSE scan + 1
    /\ check' = IF scan = slavecount THEN "top" ELSE "scan"
    /\ seen' = IF scan = slavecount THEN Unread ELSE seen

\* The slave looked at is operational.
ScanOp ==
    /\ check = "scan"
    /\ seen[scan] = "op"
    /\ ScanNext
    /\ UNCHANGED <<initVars, running, busVars, doCheck, errCount, errIter, real, quiet>>

\* SAFE_OP + ERROR is acknowledged; SAFE_OP is asked to become operational.  The
\* slave obeys unless it has changed its state meanwhile.
ScanSafe ==
    /\ check = "scan"
    /\ seen[scan] \in {"error", "safeop"}
    /\ LET asked == IF seen[scan] = "error" THEN "safeop" ELSE "op"
       IN  real' = IF real[scan] = seen[scan] THEN [real EXCEPT ![scan] = asked] ELSE real
    /\ doCheck' = TRUE
    /\ errCount' = errCount + 1
    /\ ScanNext
    /\ UNCHANGED <<initVars, running, busVars, errIter, quiet>>

\* Any other state: ec_reconfig_slave takes the slave up to SAFE_OP.
ScanOther ==
    /\ check = "scan"
    /\ seen[scan] = "other"
    /\ real' = IF real[scan] = "none" THEN real ELSE [real EXCEPT ![scan] = "safeop"]
    /\ doCheck' = TRUE
    /\ ScanNext
    /\ UNCHANGED <<initVars, running, busVars, errCount, errIter, quiet>>

\* No answer, and an answer when asked again: left for the next iteration.
ScanBack ==
    /\ check = "scan"
    /\ seen[scan] = "none"
    /\ real[scan] # "none"
    /\ doCheck' = TRUE
    /\ ScanNext
    /\ UNCHANGED <<initVars, running, busVars, errCount, errIter, real, quiet>>

\* Mistake: the lost slave is only logged.
StopMasterSkipped == running' = running

\* SoemMaster::Stop().
StopMaster == running' = FALSE

\* Still no answer: the slave is lost, the master is stopped and the thread
\* returns.  islost is never seen by the recovery code that follows the return.
ScanLost ==
    /\ check = "scan"
    /\ seen[scan] = "none"
    /\ real[scan] = "none"
    /\ StopMaster
    /\ check' = "lost"
    /\ doCheck' = TRUE
    /\ scan' = 0
    /\ seen' = Unread
    /\ UNCHANGED <<initVars, busVars, errCount, errIter, real, quiet>>

-----------------------------------------------------------------------------
(* The environment *)

\* A slave leaves operation, loses power or comes back from it.
SlaveChanges ==
    /\ ~quiet
    /\ \E s \in Slave, a \in AlState \ {"op"} : real' = [real EXCEPT ![s] = a]
    /\ UNCHANGED <<initVars, running, busVars, checkVars, quiet>>

\* The wiring settles: no slave the master knows of is without power, slaves change no
\* more, and no frame is lost.
Settles ==
    /\ \A s \in Found : real[s] # "none"
    /\ quiet' = TRUE
    /\ UNCHANGED <<initVars, running, busVars, checkVars, real>>

\* ~BodyControl() calls Stop().
StopCall ==
    /\ StopMaster
    /\ UNCHANGED <<initVars, busVars, checkVars, real, quiet>>

InitThread  == InitCall \/ StartSucceeds \/ StartFails \/ InitReturns
BusThread   == BusCycle \/ BusEnds
CheckThread == CheckDegraded \/ CheckBegins \/ CheckIdle \/ ScanOp \/ ScanSafe
               \/ ScanOther \/ ScanBack \/ ScanLost
Environment == SlaveChanges \/ Settles \/ StopCall

SoemNext == InitThread \/ BusThread \/ CheckThread \/ Environment

\* The operating system runs every thread that can run.
SoemFairness == WF_vars(InitThread) /\ WF_vars(BusThread) /\ WF_vars(CheckThread)

SoemSpec == SoemInit /\ [][SoemNext]_vars /\ SoemFairness
=============================================================================
