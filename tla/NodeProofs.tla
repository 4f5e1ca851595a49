----------------------------- MODULE NodeProofs -----------------------------
(***************************************************************************)
(* Proofs about the EtherCAT master, for any number of slaves, attempts    *)
(* and any limits: the flags its three threads share agree, the error      *)
(* counters stay in their windows, Start() and ecatcheck() never command   *)
(* the slaves at the same time, a silent slave stops the bus, the others   *)
(* come back when the disturbances end, and it is a BusLife.  About the    *)
(* node that uses a BusLife, for any devices: what it means that the node  *)
(* runs, and that the monitor follows it.  And about that monitor, for any *)
(* motors and messages.                                                    *)
(***************************************************************************)
EXTENDS SoemMasterProps, NodeProps, FiniteSetTheorems, TLAPS

-----------------------------------------------------------------------------
(* The EtherCAT master *)

\* SoemInv holds when the program starts (static initialisers of SoemMaster).
LEMMA InvInit == SoemInit => SoemInv
  <1>1. SoemInit => Switches
    BY Zenon DEF SoemInit, Switches
  <1>2. SoemInit => Types /\ Agreement
    BY SoemAssumption DEF SoemAssumption, SoemInit, Types, Agreement, Unread, AlState, Slave
  <1> QED  BY <1>1, <1>2 DEF SoemInv

\* The steps of Init() and Start() preserve SoemInv.
LEMMA InvInitThread == SoemInv /\ InitThread => SoemInv'
  <1> SUFFICES ASSUME Switches, Types, Agreement, InitThread
               PROVE Switches' /\ Types' /\ Agreement'
    BY DEF SoemInv
  <1> USE SoemAssumption DEF SoemAssumption
  <1>1. CASE InitCall
    <2>1. Switches'
      BY <1>1, Zenon DEF InitCall, busVars, Switches
    <2> QED  BY <1>1, <2>1 DEF InitCall, busVars, Types, Agreement
  <1>2. CASE StartSucceeds
    <2>1. real' \in [Slave -> AlState] /\ slavecount' \in Slave
      BY <1>2 DEF StartSucceeds, Types, AlState
    <2>3. check \notin {"scan", "lost"} /\ scan = 0
      BY <1>2 DEF StartSucceeds, Types, Agreement
    <2>2. Switches'
      BY <1>2, Zenon DEF StartSucceeds, busVars, checkVars, Switches
    <2> QED
      BY <1>2, <2>1, <2>2, <2>3 DEF StartSucceeds, busVars, checkVars, Types, Agreement, Slave
  <1>3. CASE StartFails
    <2>1. real' \in [Slave -> AlState]
      BY <1>3 DEF StartFails, Types, AlState
    <2>2. init' # "done"
      BY <1>3 DEF StartFails
    <2>3. Switches'
      BY <1>3, <2>2, Zenon DEF StartFails, busVars, checkVars, Switches
    <2> QED  BY <1>3, <2>1, <2>3 DEF StartFails, busVars, checkVars, Types, Agreement
  <1>4. CASE InitReturns
    <2>1. Switches'
      BY <1>4, Zenon DEF InitReturns, checkVars, Switches
    <2> QED  BY <1>4, <2>1 DEF InitReturns, checkVars, Types, Agreement
  <1> QED  BY <1>1, <1>2, <1>3, <1>4 DEF InitThread

\* The steps of Run() preserve SoemInv.
LEMMA InvBusThread == SoemInv /\ BusThread => SoemInv'
  <1> SUFFICES ASSUME Switches, Types, Agreement, BusThread
               PROVE Switches' /\ Types' /\ Agreement'
    BY DEF SoemInv
  <1> USE SoemAssumption DEF SoemAssumption
  <1>1. CASE BusCycle
    <2>1. wkcIter' \in 0..(Period + 1) /\ wkcErr' \in 0..wkcIter'
      BY <1>1 DEF BusCycle, WindowOver, Types
    <2>2. wkcLow' \in BOOLEAN
      BY <1>1, Zenon DEF BusCycle
    <2>3. Switches'
      BY <1>1, <2>2, Zenon DEF BusCycle, Switches, initVars, checkVars
    <2> QED  BY <1>1, <2>1, <2>3 DEF BusCycle, initVars, checkVars, Types, Agreement
  <1>2. CASE BusEnds
    <2>1. Switches'
      BY <1>2, Zenon DEF BusEnds, Switches, initVars, checkVars
    <2> QED  BY <1>2, <2>1 DEF BusEnds, initVars, checkVars, Types, Agreement
  <1> QED  BY <1>1, <1>2 DEF BusThread

\* The counters after the test at the top of ecatcheck's loop.
LEMMA TopCounters ==
  ASSUME Types
  PROVE  /\ TopErr \in 0..(MaxErr + Slaves)
         /\ TopIter \in 0..Period
  BY SoemAssumption DEF SoemAssumption, Types, TopErr, TopIter

\* The steps of ecatcheck() keep the switches well-formed.
LEMMA SwitchesCheckThread == Switches /\ CheckThread => Switches'
  <1> SUFFICES ASSUME Switches, CheckThread PROVE Switches'
    OBVIOUS
  <1> USE DEF Switches, initVars, busVars
  <1>1. CASE CheckDegraded  BY <1>1, Zenon DEF CheckDegraded
  <1>2. CASE CheckBegins    BY <1>2, Zenon DEF CheckBegins
  <1>3. CASE CheckIdle      BY <1>3, Zenon DEF CheckIdle
  <1>4. CASE ScanOp         BY <1>4, Zenon DEF ScanOp
  <1>5. CASE ScanSafe       BY <1>5, Zenon DEF ScanSafe
  <1>6. CASE ScanOther      BY <1>6, Zenon DEF ScanOther
  <1>7. CASE ScanBack       BY <1>7, Zenon DEF ScanBack
  <1>8. CASE ScanLost       BY <1>8, Zenon DEF ScanLost, StopMaster
  <1> QED  BY <1>1, <1>2, <1>3, <1>4, <1>5, <1>6, <1>7, <1>8 DEF CheckThread

\* The steps of ecatcheck() preserve SoemInv.
LEMMA InvCheckThread == SoemInv /\ CheckThread => SoemInv'
  <1> SUFFICES ASSUME Switches, Types, Agreement, CheckThread
               PROVE Types' /\ Agreement'
    BY SwitchesCheckThread DEF SoemInv
  <1> USE SoemAssumption, TopCounters DEF SoemAssumption
  <1>0. Unread \in [Slave -> AlState]
    BY DEF Unread, AlState
  <1>1. CASE CheckDegraded
    BY <1>1 DEF CheckDegraded, initVars, busVars, Types, Agreement
  <1>2. CASE CheckBegins
    <2>1. init = "done"
      BY <1>2, Zenon DEF CheckBegins, MustLook, Switches
    <2> QED  BY <1>2, <2>1 DEF CheckBegins, initVars, busVars, Types, Agreement, Slave
  <1>3. CASE CheckIdle
    BY <1>3 DEF CheckIdle, initVars, busVars, Types, Agreement
  <1>4. ASSUME check = "scan", ScanNext, errCount' \in {errCount, errCount + 1}
        PROVE  /\ scan' \in 0..slavecount
               /\ seen' \in [Slave -> AlState]
               /\ check' \in {"top", "scan"}
               /\ check' = "scan" <=> scan' # 0
               /\ errCount' \in 0..(MaxErr + Slaves)
               /\ check' = "scan" => errCount' < MaxErr + scan'
    BY <1>0, <1>4 DEF ScanNext, Types, Agreement
  <1>5. check = "scan" => scan \in Slave
    BY DEF Slave, Types, Agreement
  <1>6. CASE ScanOp
    BY <1>4, <1>6 DEF ScanOp, initVars, busVars, Types, Agreement
  <1>7. CASE ScanSafe
    <2>1. real' \in [Slave -> AlState]
      BY <1>5, <1>7 DEF ScanSafe, AlState, Types
    <2> QED  BY <1>4, <1>7, <2>1 DEF ScanSafe, initVars, busVars, Types, Agreement
  <1>8. CASE ScanOther
    <2>1. real' \in [Slave -> AlState]
      BY <1>5, <1>8 DEF ScanOther, AlState, Types
    <2> QED  BY <1>4, <1>8, <2>1 DEF ScanOther, initVars, busVars, Types, Agreement
  <1>9. CASE ScanBack
    BY <1>4, <1>9 DEF ScanBack, initVars, busVars, Types, Agreement
  <1>10. CASE ScanLost
    BY <1>0, <1>10 DEF ScanLost, initVars, busVars, Types, Agreement
  <1> QED  BY <1>1, <1>2, <1>3, <1>6, <1>7, <1>8, <1>9, <1>10 DEF CheckThread

\* The steps of the slaves and of Stop() preserve SoemInv.
LEMMA InvEnvironment == SoemInv /\ Environment => SoemInv'
  <1> SUFFICES ASSUME Switches, Types, Agreement, Environment
               PROVE Switches' /\ Types' /\ Agreement'
    BY DEF SoemInv
  <1> USE DEF initVars, busVars, checkVars
  <1>1. CASE SlaveChanges
    <2>1. real' \in [Slave -> AlState]
      BY <1>1 DEF SlaveChanges, Types
    <2>2. Switches'
      BY <1>1, Zenon DEF SlaveChanges, Switches
    <2> QED  BY <1>1, <2>1, <2>2 DEF SlaveChanges, Types, Agreement
  <1>2. CASE Settles
    <2>1. Switches'
      BY <1>2, Zenon DEF Settles, Switches
    <2> QED  BY <1>2, <2>1 DEF Settles, Types, Agreement
  <1>3. CASE StopCall
    <2>1. Switches'
      BY <1>3, Zenon DEF StopCall, StopMaster, Switches
    <2> QED  BY <1>3, <2>1 DEF StopCall, Types, Agreement
  <1> QED  BY <1>1, <1>2, <1>3 DEF Environment

\* The inductive invariant of the EtherCAT master: the flags shared without a
\* lock by Init(), Run() and ecatcheck() agree and the counters are bounded.
THEOREM SoemInvariant == SoemSpec => []SoemInv
  <1>1. SoemInv /\ [SoemNext]_vars => SoemInv'
    <2>1. Switches /\ UNCHANGED vars => Switches'
      BY DEF Switches, vars, initVars, busVars, checkVars
    <2>2. Types /\ Agreement /\ UNCHANGED vars => Types' /\ Agreement'
      BY DEF Types, Agreement, vars, initVars, busVars, checkVars
    <2>3. SoemInv /\ UNCHANGED vars => SoemInv'
      BY <2>1, <2>2 DEF SoemInv
    <2> QED
      BY <2>3, InvInitThread, InvBusThread, InvCheckThread, InvEnvironment DEF SoemNext
  <1> QED  BY InvInit, <1>1, PTL DEF SoemSpec

\* While Start() brings the slaves up, ecatcheck() commands none of them: the
\* only steps of it that touch a slave are taken in a scan, and a scan begins
\* after inOP, which the last attempt of Start() raises.
THEOREM StartAndCheckApart == SoemSpec => SupervisionWaitsForStart
  <1>1. SoemInv /\ [SoemNext]_vars => [CheckThread /\ real' # real => init = "done"]_vars
    <2> SUFFICES ASSUME SoemInv, CheckThread, real' # real PROVE init = "done"
      OBVIOUS
    <2>1. check = "scan"
      BY DEF CheckThread, CheckDegraded, CheckBegins, CheckIdle, ScanOp, ScanSafe,
             ScanOther, ScanBack, ScanLost
    <2> QED  BY <2>1 DEF SoemInv, Agreement
  <1> QED  BY SoemInvariant, <1>1, PTL DEF SoemSpec, SupervisionWaitsForStart

\* The steps of the threads, as far as the node sees the master.
LEMMA LifeSteps ==
  ASSUME SoemInv, SoemNext
  PROVE  Bus!BusLifeNext \/ UNCHANGED <<Life, returned>>
  <1> USE DEF SoemInv, Agreement, Types, Life, Bus!BusLifeNext
  <1>1. CASE InitCall
    BY <1>1 DEF InitCall, busVars, Bus!Begin
  <1>2. CASE StartSucceeds
    BY <1>2 DEF StartSucceeds, busVars
  <1>3. CASE StartFails
    <2>1. init = "start" /\ init' \in {"start", "failed"} /\ UNCHANGED <<returned, bus>>
      BY <1>3 DEF StartFails, busVars
    <2> QED  BY <2>1
  <1>4. CASE InitReturns
    BY <1>4 DEF InitReturns, Bus!Settle
  <1>5. CASE BusCycle
    BY <1>5 DEF BusCycle, initVars
  <1>6. CASE BusEnds
    BY <1>6 DEF BusEnds, initVars, Bus!End
  <1>7. CASE CheckThread \/ Environment
    BY <1>7 DEF CheckThread, CheckDegraded, CheckBegins, CheckIdle, ScanOp, ScanSafe, ScanOther,
                ScanBack, ScanLost, Environment, SlaveChanges, Settles, StopCall, initVars, busVars
  <1> QED
    BY <1>1, <1>2, <1>3, <1>4, <1>5, <1>6, <1>7 DEF SoemNext, InitThread, BusThread

\* The master is a BusLife: however its threads and the slaves interleave, the
\* start is decided once and a bus that ended stays ended.
THEOREM MasterIsABusLife == SoemSpec => Bus!BusLifeSafety
  <1>1. SoemInit => Bus!BusLifeInit
    BY DEF SoemInit, Bus!BusLifeInit, Life
  <1>2. SoemInv /\ [SoemNext]_vars => [Bus!BusLifeNext]_(Bus!busLifeVars)
    <2>1. UNCHANGED vars => UNCHANGED <<Life, returned>>
      BY DEF vars, initVars, busVars, Life
    <2> QED  BY <2>1, LifeSteps DEF Bus!busLifeVars
  <1> QED  BY SoemInvariant, <1>1, <1>2, PTL DEF SoemSpec, Bus!BusLifeSafety

\* What a lost slave has led to: the master is stopped; and once Init() has
\* returned from a start that succeeded there is a bus thread.
LostStops ==
    /\ check = "lost" => ~running
    /\ init = "done" /\ returned = "true" => bus # "none"

\* Running is never set again and Init() starts the bus thread as it returns.
LEMMA LostStopsAlways == SoemSpec => []LostStops
  <1>1. SoemInit => LostStops
    BY DEF SoemInit, LostStops
  <1>2. SoemInv /\ LostStops /\ [SoemNext]_vars => LostStops'
    <2> SUFFICES ASSUME SoemInv, LostStops, [SoemNext]_vars PROVE LostStops'
      OBVIOUS
    <2> USE DEF LostStops, SoemInv, Agreement, initVars, busVars, checkVars
    <2>1. CASE InitThread
      BY <2>1 DEF InitThread, InitCall, StartSucceeds, StartFails, InitReturns
    <2>2. CASE BusThread
      BY <2>2 DEF BusThread, BusCycle, BusEnds
    <2>3. CASE CheckThread
      BY <2>3 DEF CheckThread, CheckDegraded, CheckBegins, CheckIdle, ScanNext, ScanOp, ScanSafe,
                  ScanOther, ScanBack, ScanLost, StopMaster
    <2>4. CASE Environment
      BY <2>4 DEF Environment, SlaveChanges, Settles, StopCall, StopMaster
    <2>5. CASE UNCHANGED vars
      BY <2>5 DEF vars
    <2> QED  BY <2>1, <2>2, <2>3, <2>4, <2>5 DEF SoemNext
  <1> QED  BY SoemInvariant, <1>1, <1>2, PTL DEF SoemSpec

\* The supervision thread found a slave lost, and the bus thread is there or not.
LostWhile(stage) == check = "lost" /\ bus = stage

\* After a slave is lost the bus thread only goes on to its end.
LEMMA LostSteps ==
  ASSUME SoemInv, LostStops, [SoemNext]_vars
  PROVE  /\ LostWhile("none") => LostWhile("none")' \/ LostWhile("cycle")'
         /\ LostWhile("cycle") => LostWhile("cycle")' \/ LostWhile("ended")'
         /\ LostWhile("ended") => LostWhile("ended")'
         /\ LostWhile("none") /\ InitThread => LostWhile("cycle")'
         /\ LostWhile("cycle") /\ BusThread => LostWhile("ended")'
  <1> USE DEF LostWhile, LostStops, SoemInv, Agreement, initVars, busVars, checkVars
  <1>1. CASE InitThread
    <2>1. check = "lost" => InitReturns /\ init = "done"
      BY <1>1 DEF InitThread, InitCall, StartSucceeds, StartFails
    <2> QED  BY <1>1, <2>1 DEF InitReturns, BusThread, BusCycle, BusEnds
  <1>2. CASE BusThread
    <2>1. check = "lost" => BusEnds
      BY <1>2 DEF BusThread, BusCycle
    <2> QED  BY <1>2, <2>1 DEF BusEnds, InitThread, InitCall, StartSucceeds, StartFails, InitReturns
  <1>3. CASE CheckThread \/ Environment \/ UNCHANGED vars
    <2>1. check = "lost" => UNCHANGED <<check, bus, init, returned>>
      BY <1>3 DEF CheckThread, CheckDegraded, CheckBegins, CheckIdle, ScanOp, ScanSafe, ScanOther,
                  ScanBack, ScanLost, Environment, SlaveChanges, Settles, StopCall, vars
    <2>2. check = "lost" => ~InitThread /\ ~BusThread
      BY <2>1 DEF InitThread, InitCall, StartSucceeds, StartFails, InitReturns,
                  BusThread, BusCycle, BusEnds
    <2> QED  BY <2>1, <2>2
  <1> QED  BY <1>1, <1>2, <1>3 DEF SoemNext

\* A slave that stays silent stops the bus: Init() returns if it has not yet, the
\* bus thread leaves its loop, and nothing starts it again.  By the fairness of
\* these two threads; the hypotheses say when it applies.
THEOREM LostSlaveEndsBus ==
  ASSUME [](init = "done" /\ returned = "no" => ENABLED <<InitThread>>_vars),
         [](bus = "cycle" => ENABLED <<BusThread>>_vars)
  PROVE  SoemSpec => LostSlaveStopsBus
  <1>1. SoemInv /\ check = "lost" =>
            LostWhile("none") \/ LostWhile("cycle") \/ LostWhile("ended")
    BY DEF SoemInv, Types, LostWhile
  <1>2. SoemInv /\ LostStops /\ LostWhile("none") => init = "done" /\ returned = "no"
    BY DEF SoemInv, Types, Agreement, LostStops, LostWhile
  <1>3. LostWhile("cycle") => bus = "cycle"
    BY DEF LostWhile
  <1>4. LostWhile("ended") => bus = "ended"
    BY DEF LostWhile
  <1>5. SoemInv /\ LostStops /\ LostWhile("none") /\ [SoemNext]_vars =>
            LostWhile("none")' \/ LostWhile("cycle")'
    BY LostSteps
  <1>6. SoemInv /\ LostStops /\ LostWhile("none") /\ [SoemNext]_vars /\ <<InitThread>>_vars =>
            LostWhile("cycle")'
    BY LostSteps
  <1>7. SoemInv /\ LostStops /\ LostWhile("cycle") /\ [SoemNext]_vars =>
            LostWhile("cycle")' \/ LostWhile("ended")'
    BY LostSteps
  <1>8. SoemInv /\ LostStops /\ LostWhile("cycle") /\ [SoemNext]_vars /\ <<BusThread>>_vars =>
            LostWhile("ended")'
    BY LostSteps
  <1>9. SoemInv /\ LostStops /\ LostWhile("ended") /\ [SoemNext]_vars => LostWhile("ended")'
    BY LostSteps
  <1>10. SoemSpec => (LostWhile("none") ~> LostWhile("cycle"))
    BY SoemInvariant, LostStopsAlways, <1>2, <1>5, <1>6, PTL DEF SoemSpec, SoemFairness
  <1>11. SoemSpec => (LostWhile("cycle") ~> LostWhile("ended"))
    BY SoemInvariant, LostStopsAlways, <1>3, <1>7, <1>8, PTL DEF SoemSpec, SoemFairness
  <1>12. SoemSpec => [](LostWhile("ended") => [](bus = "ended"))
    BY SoemInvariant, LostStopsAlways, <1>4, <1>9, PTL DEF SoemSpec
  <1> QED
    BY SoemInvariant, <1>1, <1>10, <1>11, <1>12, PTL DEF LostSlaveStopsBus

\* How far a slave is from operation: the requests ecatcheck() makes of it until
\* it gets there.
Away(al) == CASE al = "op" -> 0 [] al = "safeop" -> 1 [] al \in {"error", "other"} -> 2
              [] OTHER -> 3

\* ecatcheck() takes no slave out of operation, however long ago it read the
\* states, and once the disturbances end nobody does: whatever step is taken, no
\* slave gets further from operation.  A slave that is still as it was read, and
\* answers, gets nearer when it is looked at.
RecoveryOnlyHelps ==
    [][/\ CheckThread \/ quiet => \A s \in Slave : Away(real'[s]) <= Away(real[s])
       /\ CheckThread /\ check = "scan" /\ seen[scan] = real[scan]
            /\ real[scan] \notin {"op", "none"} => Away(real'[scan]) < Away(real[scan])]_vars

\* A slave that is operational and still to be looked at was read as such.
ReadAsOperational ==
    check = "scan" => \A s \in Slave : s >= scan /\ real[s] = "op" => seen[s] = "op"

\* Only ecatcheck() makes slaves operational while it scans, one by one as it
\* looks at them.
LEMMA ReadAsOperationalAlways == SoemSpec => []ReadAsOperational
  <1>1. SoemInit => ReadAsOperational
    BY DEF SoemInit, ReadAsOperational
  <1>2. SoemInv /\ ReadAsOperational /\ [SoemNext]_vars => ReadAsOperational'
    <2> SUFFICES ASSUME SoemInv, ReadAsOperational, [SoemNext]_vars, check' = "scan",
                        NEW s \in Slave, s >= scan', real'[s] = "op"
                 PROVE  seen'[s] = "op"
      BY DEF ReadAsOperational
    <2> USE DEF ReadAsOperational, SoemInv, Agreement, Types, initVars, busVars, checkVars
    <2>1. CASE check # "scan"
      <3>1. CheckBegins
        BY <2>1 DEF vars, SoemNext, InitThread, InitCall, StartSucceeds, StartFails, InitReturns,
                    BusThread, BusCycle, BusEnds, CheckThread, CheckDegraded, CheckIdle, ScanOp,
                    ScanSafe, ScanOther, ScanBack, ScanLost, Environment, SlaveChanges, Settles,
                    StopCall
      <3> QED  BY <3>1 DEF CheckBegins
    <2>2. CASE check = "scan" /\ CheckThread
      <3>1. /\ scan \in Slave /\ scan' = scan + 1 /\ seen' = seen
            /\ \A r \in Slave : r # scan => real'[r] = real[r]
        <4>1. ScanOp \/ ScanSafe \/ ScanOther \/ ScanBack
          BY <2>2 DEF CheckThread, CheckDegraded, CheckBegins, CheckIdle, ScanLost
        <4>2. scan \in Slave /\ scan' = scan + 1 /\ seen' = seen
          BY <2>2, <4>1, SoemAssumption DEF SoemAssumption, ScanNext, ScanOp, ScanSafe, ScanOther,
             ScanBack, Slave
        <4> QED  BY <4>1, <4>2 DEF ScanOp, ScanSafe, ScanOther, ScanBack
      <3> QED  BY <2>2, <3>1 DEF Slave
    <2>3. CASE check = "scan" /\ ~CheckThread
      <3>1. UNCHANGED <<check, scan, seen>>
        BY <2>3 DEF vars, SoemNext, InitThread, InitCall, StartSucceeds, StartFails, InitReturns,
                    BusThread, BusCycle, BusEnds, Environment, SlaveChanges, Settles, StopCall
      <3>2. real[s] = "op"
        BY <2>3 DEF vars, SoemNext, InitThread, InitCall, StartSucceeds, StartFails, InitReturns,
                    BusThread, BusCycle, BusEnds, Environment, SlaveChanges, Settles, StopCall
      <3> QED  BY <2>3, <3>1, <3>2
    <2> QED  BY <2>1, <2>2, <2>3
  <1> QED  BY SoemInvariant, <1>1, <1>2, PTL DEF SoemSpec

\* A stale reading never costs an operational slave its operation, and without new
\* disturbances the slaves only come nearer to it.
THEOREM RecoveryHelps == SoemSpec => RecoveryOnlyHelps
  <1>1. SoemInv /\ ReadAsOperational /\ [SoemNext]_vars =>
          [/\ CheckThread \/ quiet => \A s \in Slave : Away(real'[s]) <= Away(real[s])
           /\ CheckThread /\ check = "scan" /\ seen[scan] = real[scan]
                /\ real[scan] \notin {"op", "none"} => Away(real'[scan]) < Away(real[scan])]_vars
    <2> SUFFICES ASSUME SoemInv, ReadAsOperational, SoemNext
                 PROVE  /\ CheckThread \/ quiet =>
                              \A s \in Slave : Away(real'[s]) <= Away(real[s])
                        /\ CheckThread /\ check = "scan" /\ seen[scan] = real[scan]
                             /\ real[scan] \notin {"op", "none"} =>
                              Away(real'[scan]) < Away(real[scan])
      BY DEF vars
    <2> USE DEF SoemInv, Types, Agreement, initVars, busVars, checkVars
    <2>0. \A s \in Slave : Away(real[s]) \in 0..3
      BY DEF Away
    <2>1. CASE CheckThread /\ check # "scan"
      <3>1. real' = real
        BY <2>1 DEF CheckThread, CheckDegraded, CheckBegins, CheckIdle, ScanOp, ScanSafe,
                    ScanOther, ScanBack, ScanLost
      <3> QED  BY <2>0, <2>1, <3>1
    <2>2. CASE CheckThread /\ check = "scan"
      <3>1. scan \in Slave
        BY <2>2, SoemAssumption DEF SoemAssumption, Slave
      <3>2. CASE ScanSafe
        <4>1. real' = real \/ (seen[scan] = real[scan] /\ real' = [real EXCEPT ![scan] =
                 IF seen[scan] = "error" THEN "safeop" ELSE "op"])
          BY <3>2 DEF ScanSafe
        <4>2. seen[scan] \in {"error", "safeop"}
          BY <3>2 DEF ScanSafe
        <4>3. seen[scan] = real[scan] => real' = [real EXCEPT ![scan] =
                 IF seen[scan] = "error" THEN "safeop" ELSE "op"]
          BY <3>2 DEF ScanSafe
        <4> QED  BY <2>0, <3>1, <4>1, <4>2, <4>3 DEF Away
      <3>3. CASE ScanOther
        <4>1. seen[scan] = "other" /\ real[scan] # "op"
          BY <2>2, <3>1, <3>3 DEF ScanOther, ReadAsOperational, Slave
        <4>2. real' = real \/ real' = [real EXCEPT ![scan] = "safeop"]
          BY <3>3 DEF ScanOther
        <4>3. seen[scan] = real[scan] => real' = [real EXCEPT ![scan] = "safeop"]
          BY <3>3, <4>1 DEF ScanOther
        <4> QED  BY <2>0, <3>1, <4>1, <4>2, <4>3 DEF Away, AlState
      <3>4. CASE UNCHANGED real /\ ~(seen[scan] = real[scan] /\ real[scan] \notin {"op", "none"})
        BY <2>0, <3>4
      <3> QED
        BY <2>2, <3>1, <3>2, <3>3, <3>4 DEF CheckThread, CheckDegraded, CheckBegins, CheckIdle,
           ScanOp, ScanBack, ScanLost
    <2>3. CASE ~CheckThread /\ quiet
      <3>1. \A s \in Slave : real'[s] \in {real[s], "op"}
        BY <2>3 DEF SoemNext, InitThread, InitCall, StartSucceeds, StartFails, InitReturns,
                    BusThread, BusCycle, BusEnds, Environment, SlaveChanges, Settles, StopCall
      <3>2. Away("op") = 0
        BY DEF Away
      <3> QED  BY <2>0, <2>3, <3>1, <3>2
    <2> QED  BY <2>1, <2>2, <2>3
  <1> QED
    BY SoemInvariant, ReadAsOperationalAlways, <1>1, PTL DEF SoemSpec, RecoveryOnlyHelps

-----------------------------------------------------------------------------
(* The slaves come back, and the start is decided *)

\* The rule of descent on the natural numbers, for states: from P one comes to Q
\* if from P with R = n one comes to Q, or to P with a smaller R, for every n.
\* It holds of every behaviour; theorems take the instances they need of it.
Falls(P, Q, R, n) == (P /\ R = n) ~> (Q \/ (P /\ R < n))
ByDescent(P, Q, R) == [](P => R \in Nat) /\ (\A n \in Nat : Falls(P, Q, R, n)) => (P ~> Q)

\* No slave the master knows of is without power once the disturbances have ended.
QuietAlive == quiet => \A s \in Found : real[s] # "none"

LEMMA QuietAliveAlways == SoemSpec => []QuietAlive
  <1>1. SoemInit => QuietAlive
    BY DEF SoemInit, QuietAlive
  <1>2. SoemInv /\ QuietAlive /\ [SoemNext]_vars => QuietAlive'
    <2> SUFFICES ASSUME SoemInv, QuietAlive, [SoemNext]_vars PROVE QuietAlive'
      OBVIOUS
    <2> USE DEF QuietAlive, SoemInv, Types, Found, Slave, initVars, busVars, checkVars
    <2>0. slavecount \in 0..Slaves /\ Slaves \in Nat
      BY SoemAssumption DEF SoemAssumption
    <2>1. CASE InitThread \/ BusThread
      <3>1. CASE StartSucceeds
        BY <2>0, <3>1 DEF StartSucceeds
      <3>2. CASE StartFails
        <4>1. /\ quiet' = quiet /\ slavecount' = slavecount
              /\ \A s \in Slave : real'[s] \in {real[s], "op"}
          BY <3>2 DEF StartFails
        <4> QED  BY <2>0, <4>1
      <3>3. CASE UNCHANGED <<real, quiet, slavecount>>
        BY <3>3
      <3> QED
        BY <2>1, <3>1, <3>2, <3>3 DEF InitThread, InitCall, InitReturns, BusThread, BusCycle,
                                      BusEnds
    <2>2. CASE CheckThread
      <3>1. /\ quiet' = quiet /\ slavecount' = slavecount
            /\ \/ real' = real
               \/ \E a \in {"safeop", "op"} : real' = [real EXCEPT ![scan] = a]
        BY <2>2 DEF CheckThread, CheckDegraded, CheckBegins, CheckIdle, ScanOp, ScanSafe,
                    ScanOther, ScanBack, ScanLost
      <3> QED  BY <2>0, <3>1
    <2>3. CASE Environment \/ UNCHANGED vars
      BY <2>0, <2>3 DEF vars, Environment, SlaveChanges, Settles, StopCall
    <2> QED  BY <2>1, <2>2, <2>3 DEF SoemNext
  <1> QED  BY SoemInvariant, <1>1, <1>2, PTL DEF SoemSpec

\* Every slave is back, or nothing is there any more to bring it back.
Recovered ==
    \/ \A s \in Found : real[s] = "op"
    \/ check \in {"lost", "degraded"}
    \/ ~running

\* It is not so yet, nothing disturbs the bus and it runs; the bus thread has
\* noticed; the supervision thread is at the top of its loop.
NotYet == quiet /\ bus = "cycle" /\ ~Recovered
Noticed == NotYet /\ wkcLow
AtTop == Noticed /\ check = "top"

\* The steps of the supervision thread to the end of a scan.
ToEnd == IF check = "scan" THEN slavecount + 1 - scan ELSE slavecount + 1

\* A scan in which every slave is still as it was read: those that were looked at
\* are in a state of after, the others in one of before.
Scanning(before, after) ==
    /\ Noticed
    /\ check = "top" => \A s \in Found : real[s] \in before
    /\ check = "scan" =>
        \A s \in Found : IF s < scan THEN real[s] \in after
                                     ELSE seen[s] = real[s] /\ real[s] \in before

\* Two scans lead every slave to operation, by way of SAFE_OP.
FirstScan == Scanning(AlState \ {"none"}, {"safeop", "op"})
SecondScan == Scanning({"safeop", "op"}, {"op"})

\* Until the slaves are back nobody but the supervision thread changes them, and
\* the bus thread misses them in every cycle.
LEMMA NotYetSteps ==
  ASSUME SoemInv, NotYet, [SoemNext]_vars
  PROVE  /\ NotYet' \/ Recovered'
         /\ ~CheckThread => UNCHANGED <<real, check, scan, seen>>
         /\ slavecount' = slavecount
         /\ wkcLow => wkcLow'
         /\ BusThread => wkcLow'
  <1> USE DEF NotYet, Recovered, SoemInv, Types, Agreement, Found, initVars, busVars, checkVars
  <1>1. init = "done" /\ returned = "true" /\ running
    OBVIOUS
  <1>2. CASE InitThread
    BY <1>1, <1>2 DEF InitThread, InitCall, StartSucceeds, StartFails, InitReturns
  <1>3. CASE BusThread
    <2>1. BusCycle
      BY <1>1, <1>3 DEF BusThread, BusEnds
    <2>2. wkcLow' /\ UNCHANGED <<real, check, scan, seen, quiet, bus, running, slavecount>>
      BY <2>1 DEF BusCycle
    <2> QED  BY <2>2
  <1>4. CASE CheckThread
    <2>1. UNCHANGED <<quiet, bus, wkcLow, slavecount>>
      BY <1>4 DEF CheckThread, CheckDegraded, CheckBegins, CheckIdle, ScanOp, ScanSafe,
                  ScanOther, ScanBack, ScanLost
    <2>2. BusThread => wkcLow'
      BY <1>1 DEF BusThread, BusCycle, BusEnds
    <2> QED  BY <1>4, <2>1, <2>2
  <1>5. CASE Environment \/ UNCHANGED vars
    <2>1. UNCHANGED <<bus, wkcLow, real, check, scan, seen, slavecount>> /\ (quiet => quiet')
      BY <1>5 DEF vars, Environment, SlaveChanges, Settles, StopCall
    <2>2. BusThread => UNCHANGED running /\ wkcLow'
      BY <1>1 DEF BusThread, BusCycle, BusEnds
    <2> QED  BY <2>1, <2>2
  <1> QED  BY <1>2, <1>3, <1>4, <1>5 DEF SoemNext

\* The steps of the supervision thread: it begins a scan, looks at the next slave,
\* or comes to the end.
LEMMA ScanSteps ==
  ASSUME SoemInv, Noticed, CheckThread, ~Recovered'
  PROVE  /\ ToEnd \in Nat
         /\ check = "top" => check' = "scan" /\ scan' = 1 /\ seen' = real /\ real' = real
         /\ check = "scan" =>
              /\ scan \in Found
              /\ \A s \in Found : s # scan => real'[s] = real[s]
              /\ seen[scan] = real[scan] /\ real[scan] # "none" =>
                   real'[scan] = IF real[scan] \in {"safeop", "op"} THEN "op" ELSE "safeop"
              /\ scan = slavecount => check' = "top"
              /\ scan # slavecount => check' = "scan" /\ scan' = scan + 1 /\ seen' = seen
         /\ check # "scan" => check = "top"
  <1> USE DEF Noticed, NotYet, SoemInv, Types, Agreement, Found
  <1>1. check \in {"top", "scan"} /\ slavecount \in Nat \ {0} /\ slavecount \in 0..Slaves /\ inOP
    BY SoemAssumption DEF SoemAssumption, Recovered, Switches
  <1>2. CASE check = "top"
    <2>1. CheckBegins
      BY <1>1, <1>2 DEF CheckThread, CheckDegraded, CheckIdle, MustLook, ScanOp, ScanSafe,
                        ScanOther, ScanBack, ScanLost, Recovered
    <2> QED  BY <1>1, <1>2, <2>1 DEF CheckBegins, ToEnd
  <1>3. CASE check = "scan"
    <2>1. scan \in Found /\ scan \in Slave /\ scan \in Nat
      BY <1>1, <1>3, SoemAssumption DEF SoemAssumption, Slave
    <2>2. ScanOp \/ ScanSafe \/ ScanOther \/ ScanBack
      BY <1>3 DEF CheckThread, CheckDegraded, CheckBegins, CheckIdle, ScanLost, Recovered
    <2>3. /\ scan = slavecount => check' = "top"
          /\ scan # slavecount => check' = "scan" /\ scan' = scan + 1 /\ seen' = seen
      BY <2>2 DEF ScanNext, ScanOp, ScanSafe, ScanOther, ScanBack
    <2>4. \A s \in Found : s # scan => real'[s] = real[s]
      <3>1. Found \subseteq Slave
        BY <1>1, SoemAssumption DEF SoemAssumption, Slave
      <3> QED  BY <2>1, <2>2, <3>1 DEF ScanOp, ScanSafe, ScanOther, ScanBack
    <2>5. ASSUME seen[scan] = real[scan], real[scan] # "none"
          PROVE  real'[scan] = IF real[scan] \in {"safeop", "op"} THEN "op" ELSE "safeop"
      <3>1. CASE ScanOp
        BY <2>5, <3>1 DEF ScanOp
      <3>2. CASE ScanSafe
        BY <2>1, <2>5, <3>2 DEF ScanSafe
      <3>3. CASE ScanOther
        BY <2>1, <2>5, <3>3 DEF ScanOther
      <3> QED  BY <2>2, <2>5, <3>1, <3>2, <3>3 DEF ScanBack
    <2>6. ToEnd \in Nat
      BY <1>1, <1>3, <2>1 DEF ToEnd, Found, Slave
    <2> QED  BY <1>3, <2>1, <2>3, <2>4, <2>5, <2>6
  <1> QED  BY <1>1, <1>2, <1>3

LEMMA ToEndIsNat == SoemInv => ToEnd \in Nat
  BY SoemAssumption DEF SoemAssumption, SoemInv, Types, ToEnd

\* Every step of a scan brings the supervision thread nearer to its end, and at the
\* end all slaves are in a state of after.
LEMMA ScanGoesOn ==
  ASSUME SoemInv, NEW before, NEW after, Scanning(before, after), [SoemNext]_vars,
         "none" \notin before,
         \A a \in before : (IF a \in {"safeop", "op"} THEN "op" ELSE "safeop") \in after
  PROVE  \/ Recovered'
         \/ AtTop' /\ \A s \in Found : real'[s] \in after
         \/ /\ Scanning(before, after)' /\ ToEnd' <= ToEnd
            /\ CheckThread => ToEnd' < ToEnd
  <1> SUFFICES ASSUME ~Recovered'
               PROVE  \/ AtTop' /\ \A s \in Found : real'[s] \in after
                      \/ /\ Scanning(before, after)' /\ ToEnd' <= ToEnd
                         /\ CheckThread => ToEnd' < ToEnd
    OBVIOUS
  <1>1. Noticed' /\ Found' = Found /\ slavecount' = slavecount /\ slavecount \in Nat
    BY NotYetSteps DEF Noticed, Scanning, Found, SoemInv, Types
  <1>2. CASE ~CheckThread
    <2>1. UNCHANGED <<real, check, scan, seen>>
      BY <1>2, NotYetSteps DEF Noticed, Scanning
    <2> QED  BY <1>1, <1>2, <2>1, ToEndIsNat DEF Scanning, ToEnd
  <1>3. CASE CheckThread /\ check = "top"
    <2>1. check' = "scan" /\ scan' = 1 /\ seen' = real /\ real' = real
      BY <1>3, ScanSteps DEF Scanning
    <2>2. \A s \in Found : ~(s < 1)
      BY <1>1 DEF Found
    <2>3. Scanning(before, after)'
      BY <1>1, <1>3, <2>1, <2>2 DEF Scanning
    <2> QED  BY <1>1, <1>3, <2>1, <2>3 DEF ToEnd
  <1>4. CASE CheckThread /\ check = "scan"
    <2>1. /\ scan \in Found
          /\ \A s \in Found : s # scan => real'[s] = real[s]
          /\ scan = slavecount => check' = "top"
          /\ scan # slavecount => check' = "scan" /\ scan' = scan + 1 /\ seen' = seen
      BY <1>4, ScanSteps DEF Scanning
    <2>2. seen[scan] = real[scan] /\ real[scan] \in before
      BY <1>4, <2>1 DEF Scanning, Found, Slave
    <2>3. real'[scan] \in after
      BY <1>4, <2>2, ScanSteps DEF Scanning
    <2>4. \A s \in Found : s < scan + 1 => real'[s] \in after
      BY <1>4, <2>1, <2>3 DEF Scanning, Found, Slave
    <2>5. CASE scan = slavecount
      <3>1. \A s \in Found : s < scan + 1
        BY <1>1, <2>5 DEF Found
      <3> QED  BY <1>1, <2>1, <2>4, <2>5, <3>1 DEF AtTop
    <2>6. CASE scan # slavecount
      <3>1. \A s \in Found : ~(s < scan + 1) => seen[s] = real'[s] /\ real'[s] \in before
        BY <1>4, <2>1 DEF Scanning, Found, Slave
      <3>2. Scanning(before, after)'
        BY <1>1, <2>1, <2>4, <2>6, <3>1 DEF Scanning
      <3> QED  BY <1>1, <1>4, <2>1, <2>6, <3>2 DEF ToEnd, Found
    <2> QED  BY <2>5, <2>6
  <1>5. check \in {"top", "scan"}
    BY DEF SoemInv, Types, Agreement, Scanning, Noticed, NotYet, Recovered
  <1> QED  BY <1>2, <1>3, <1>4, <1>5

\* What a scan that is not stopped leads to.
AfterScan(after) == Recovered \/ (AtTop /\ \A s \in Found : real[s] \in after)
ScanFalls(before, after, n) == Falls(Scanning(before, after), AfterScan(after), ToEnd, n)

LEMMA EveryScanFalls ==
  ASSUME [](check \in {"top", "scan"} => ENABLED <<CheckThread>>_vars),
         NEW before, NEW after, NEW n \in Nat,
         "none" \notin before,
         \A a \in before : (IF a \in {"safeop", "op"} THEN "op" ELSE "safeop") \in after
  PROVE  SoemSpec => ScanFalls(before, after, n)
  <1> DEFINE Here == Scanning(before, after) /\ ToEnd = n
             Gone == AfterScan(after) \/ (Scanning(before, after) /\ ToEnd < n)
  <1>1. SoemInv /\ SoemInv' /\ Here /\ [SoemNext]_vars => Here' \/ Gone'
    <2> SUFFICES ASSUME SoemInv, SoemInv', Here, [SoemNext]_vars PROVE Here' \/ Gone'
      OBVIOUS
    <2>1. ToEnd' \in Nat
      <3>1. (SoemInv => ToEnd \in Nat)'
        BY ToEndIsNat, PTL
      <3> QED  BY <3>1
    <2> QED  BY <2>1, ScanGoesOn, NotYetSteps DEF AfterScan, Found, Scanning, Noticed
  <1>2. SoemInv /\ Here /\ [SoemNext]_vars /\ <<CheckThread>>_vars => Gone'
    <2> SUFFICES ASSUME SoemInv, Here, [SoemNext]_vars, CheckThread PROVE Gone'
      OBVIOUS
    <2> QED  BY ScanGoesOn, NotYetSteps DEF AfterScan, Found, Scanning, Noticed
  <1>3. SoemInv /\ Here => check \in {"top", "scan"}
    BY DEF SoemInv, Types, Agreement, Scanning, Noticed, NotYet, Recovered
  <1> HIDE DEF Here, Gone
  <1>4. SoemSpec => (Here ~> Gone)
    BY <1>1, <1>2, <1>3, SoemInvariant, PTL DEF SoemSpec, SoemFairness
  <1> QED  BY <1>4 DEF Here, Gone, Falls, ScanFalls

\* A scan that was under way when the disturbances ended comes to its end, too.
LEMMA OldScanFalls ==
  ASSUME [](check \in {"top", "scan"} => ENABLED <<CheckThread>>_vars), NEW n \in Nat
  PROVE  SoemSpec => Falls(Noticed, AtTop \/ Recovered, ToEnd, n)
  <1> DEFINE Here == Noticed /\ ToEnd = n
             Gone == AtTop \/ Recovered \/ (Noticed /\ ToEnd < n)
  <1>1. SoemInv /\ Here /\ ~Gone /\ [SoemNext]_vars =>
            /\ Here' \/ Gone'
            /\ CheckThread => Gone'
    <2> SUFFICES ASSUME SoemInv, Here, ~Gone, [SoemNext]_vars, ~Recovered'
                 PROVE  /\ Here' \/ Gone'
                        /\ CheckThread => Gone'
      OBVIOUS
    <2>0. slavecount' = slavecount /\ slavecount \in Nat
      BY NotYetSteps DEF Noticed, SoemInv, Types
    <2>1. Noticed'
      BY NotYetSteps DEF Noticed
    <2>2. check = "scan"
      BY DEF AtTop, SoemInv, Types, Agreement, Noticed, NotYet, Recovered
    <2>3. CASE ~CheckThread
      <3>1. ToEnd' = ToEnd
        BY <2>0, <2>3, NotYetSteps DEF Noticed, ToEnd
      <3> QED  BY <2>1, <2>3, <3>1
    <2>4. CASE CheckThread
      <3>1. /\ scan \in Found
            /\ scan = slavecount => check' = "top"
            /\ scan # slavecount => check' = "scan" /\ scan' = scan + 1
        BY <2>2, <2>4, ScanSteps
      <3>2. CASE scan = slavecount
        BY <2>1, <3>1, <3>2 DEF AtTop
      <3>3. CASE scan # slavecount
        BY <2>0, <2>1, <2>2, <3>1, <3>3 DEF ToEnd, Found
      <3> QED  BY <3>2, <3>3
    <2> QED  BY <2>3, <2>4
  <1>2. SoemInv /\ Here => check \in {"top", "scan"}
    BY DEF SoemInv, Types, Agreement, Noticed, NotYet, Recovered
  <1>3. Gone <=> (AtTop \/ Recovered) \/ (Noticed /\ ToEnd < n)
    OBVIOUS
  <1> HIDE DEF Here, Gone
  <1>4. SoemSpec => (Here ~> Gone)
    BY <1>1, <1>2, SoemInvariant, PTL DEF SoemSpec, SoemFairness
  <1>5. SoemSpec => (Here ~> ((AtTop \/ Recovered) \/ (Noticed /\ ToEnd < n)))
    BY <1>3, <1>4, PTL
  <1> QED  BY <1>5 DEF Here, Falls

\* The bus thread misses the slaves that are out of operation.
LEMMA BusThreadNotices ==
  ASSUME [](bus = "cycle" => ENABLED <<BusThread>>_vars)
  PROVE  SoemSpec => (NotYet ~> (Noticed \/ Recovered))
  <1>1. SoemInv /\ NotYet /\ [SoemNext]_vars =>
            NotYet' \/ (Noticed \/ Recovered)'
    BY NotYetSteps
  <1>2. SoemInv /\ NotYet /\ [SoemNext]_vars /\ <<BusThread>>_vars => (Noticed \/ Recovered)'
    <2> SUFFICES ASSUME SoemInv, NotYet, [SoemNext]_vars, BusThread PROVE Noticed' \/ Recovered'
      OBVIOUS
    <2> QED  BY NotYetSteps DEF Noticed
  <1>3. NotYet => bus = "cycle"
    BY DEF NotYet
  <1> QED  BY <1>1, <1>2, <1>3, SoemInvariant, PTL DEF SoemSpec, SoemFairness

\* Once the disturbances end every slave the start found is brought back to operation
\* while the bus runs and the supervision thread is alive, for any number of slaves
\* and however many others were silent at the start: the scan under way ends, the next
\* lifts every slave it found to SAFE_OP at least, the one after that to operation.  By
\* the fairness of the two threads, and descent along each scan.
THEOREM SlavesComeBack ==
  ASSUME [](bus = "cycle" => ENABLED <<BusThread>>_vars),
         [](check \in {"top", "scan"} => ENABLED <<CheckThread>>_vars)
  PROVE  /\ ByDescent(Noticed, AtTop \/ Recovered, ToEnd)
         /\ ByDescent(FirstScan, AfterScan({"safeop", "op"}), ToEnd)
         /\ ByDescent(SecondScan, AfterScan({"op"}), ToEnd)
         => (SoemSpec => SlavesRecover)
  <1>1. SoemSpec => \A n \in Nat : Falls(Noticed, AtTop \/ Recovered, ToEnd, n)
    BY OldScanFalls
  <1>2. SoemSpec => \A n \in Nat : Falls(FirstScan, AfterScan({"safeop", "op"}), ToEnd, n)
    <2>1. SoemSpec => \A n \in Nat : ScanFalls(AlState \ {"none"}, {"safeop", "op"}, n)
      <3>1. \A a \in AlState \ {"none"} :
              (IF a \in {"safeop", "op"} THEN "op" ELSE "safeop") \in {"safeop", "op"}
        OBVIOUS
      <3> QED  BY <3>1, EveryScanFalls
    <2> QED  BY <2>1 DEF FirstScan, ScanFalls
  <1>3. SoemSpec => \A n \in Nat : Falls(SecondScan, AfterScan({"op"}), ToEnd, n)
    <2>1. SoemSpec => \A n \in Nat : ScanFalls({"safeop", "op"}, {"op"}, n)
      BY EveryScanFalls
    <2> QED  BY <2>1 DEF SecondScan, ScanFalls
  <1>4. SoemInv /\ QuietAlive /\ AtTop => FirstScan
    <2> SUFFICES ASSUME SoemInv, QuietAlive, AtTop PROVE FirstScan
      OBVIOUS
    <2>1. Found \subseteq Slave
      BY SoemAssumption DEF SoemAssumption, SoemInv, Types, Found, Slave
    <2> QED
      BY <2>1 DEF SoemInv, Types, QuietAlive, AtTop, Noticed, NotYet, FirstScan, Scanning
  <1>5. AfterScan({"safeop", "op"}) => SecondScan \/ Recovered
    BY DEF AfterScan, AtTop, SecondScan, Scanning
  <1>6. AfterScan({"op"}) => Recovered
    BY DEF AfterScan, Recovered
  <1>7. quiet /\ bus = "cycle" => NotYet \/ Recovered
    BY DEF NotYet
  <1>8. SoemSpec => (NotYet ~> (Noticed \/ Recovered))
    BY BusThreadNotices
  <1>9. /\ SoemSpec /\ ByDescent(Noticed, AtTop \/ Recovered, ToEnd)
             => (Noticed ~> (AtTop \/ Recovered))
        /\ SoemSpec /\ ByDescent(FirstScan, AfterScan({"safeop", "op"}), ToEnd)
             => (FirstScan ~> AfterScan({"safeop", "op"}))
        /\ SoemSpec /\ ByDescent(SecondScan, AfterScan({"op"}), ToEnd)
             => (SecondScan ~> AfterScan({"op"}))
    BY <1>1, <1>2, <1>3, ToEndIsNat, SoemInvariant, PTL DEF ByDescent
  <1> QED
    BY <1>4, <1>5, <1>6, <1>7, <1>8, <1>9, SoemInvariant, QuietAliveAlways, PTL
       DEF SlavesRecover, Recovered

\* An attempt to start the bus is to be made; the start is decided and Init() has
\* not returned.
Attempting == init = "start"
Decided == init \in {"failed", "done"} /\ returned = "no"
TriesLeft == Tries - try

\* Every attempt is the last or leaves one less, and the return of Init() tells
\* the node that the start is decided.
LEMMA StartSteps ==
  ASSUME SoemInv, [SoemNext]_vars
  PROVE  /\ TriesLeft \in Nat
         /\ Attempting => \/ Decided'
                          \/ /\ Attempting' /\ TriesLeft' <= TriesLeft
                             /\ InitThread => TriesLeft' < TriesLeft
         /\ Decided => Decided' \/ <<Bus!Settle>>_(Bus!busLifeVars)
         /\ Decided /\ InitThread => <<Bus!Settle>>_(Bus!busLifeVars)
  <1> USE DEF Attempting, Decided, TriesLeft, SoemInv, Types, Agreement, initVars
  <1>0. try \in Int /\ Tries \in Int /\ TriesLeft \in Nat
    BY SoemAssumption
  <1>1. CASE InitReturns
    <2>1. Bus!Settle /\ returned' # returned
      BY <1>1 DEF InitReturns, Bus!Settle, Life
    <2> QED  BY <1>0, <1>1, <2>1 DEF InitReturns, Bus!busLifeVars
  <1>2. CASE StartSucceeds \/ StartFails
    <2>1. /\ init = "start" /\ returned = "no" /\ returned' = returned /\ try' = try + 1
          /\ init' \in {"start", "failed", "done"}
      BY <1>2 DEF StartSucceeds, StartFails
    <2> QED  BY <1>0, <2>1
  <1>3. CASE InitCall
    BY <1>0, <1>3 DEF InitCall
  <1>4. CASE BusThread \/ CheckThread \/ Environment \/ UNCHANGED vars
    <2>1. UNCHANGED <<init, returned, try>>
      BY <1>4 DEF BusThread, BusCycle, BusEnds, CheckThread, CheckDegraded, CheckBegins,
                  CheckIdle, ScanOp, ScanSafe, ScanOther, ScanBack, ScanLost, Environment,
                  SlaveChanges, Settles, StopCall, vars
    <2>2. init \in {"start", "failed", "done"} /\ returned = "no" =>
              ~InitCall /\ (InitThread => InitReturns \/ StartSucceeds \/ StartFails)
      BY DEF InitThread, InitCall
    <2>3. ASSUME InitThread, Attempting \/ Decided PROVE FALSE
      BY <2>1, <2>2, <2>3, <1>0 DEF InitReturns, StartSucceeds, StartFails
    <2> QED  BY <1>0, <2>1, <2>3
  <1> QED  BY <1>1, <1>2, <1>3, <1>4 DEF SoemNext, InitThread

LEMMA AttemptsFall ==
  ASSUME [](Attempting \/ Decided => ENABLED <<InitThread>>_vars), NEW n \in Nat
  PROVE  SoemSpec => Falls(Attempting, Decided, TriesLeft, n)
  <1> DEFINE Here == Attempting /\ TriesLeft = n
             Gone == Decided \/ (Attempting /\ TriesLeft < n)
  <1>1. SoemInv /\ SoemInv' /\ Here /\ [SoemNext]_vars => Here' \/ Gone'
    <2> SUFFICES ASSUME SoemInv, SoemInv', Here, [SoemNext]_vars PROVE Here' \/ Gone'
      OBVIOUS
    <2>1. TriesLeft' \in Int
      BY SoemAssumption DEF TriesLeft, SoemInv, Types
    <2> QED  BY <2>1, StartSteps
  <1>2. SoemInv /\ Here /\ [SoemNext]_vars /\ <<InitThread>>_vars => Gone'
    BY StartSteps
  <1>3. Here => Attempting
    OBVIOUS
  <1> HIDE DEF Here, Gone
  <1>4. SoemSpec => (Here ~> Gone)
    BY <1>1, <1>2, <1>3, SoemInvariant, PTL DEF SoemSpec, SoemFairness
  <1> QED  BY <1>4 DEF Here, Gone, Falls

\* The master is a BusLife, its promise included that the start is decided at
\* last, for any number of attempts.  By the fairness of the initialisation
\* thread, and descent along the attempts; the hypotheses say when fairness
\* applies, and that a start is decided only while it is under way.
THEOREM MasterImplementsBusLife ==
  ASSUME [](Attempting \/ Decided => ENABLED <<InitThread>>_vars),
         [](ENABLED <<Bus!Settle>>_(Bus!busLifeVars) => Life = "starting")
  PROVE  ByDescent(Attempting, Decided, TriesLeft) => (SoemSpec => ImplementsBusLife)
  <1>1. SoemSpec => \A n \in Nat : Falls(Attempting, Decided, TriesLeft, n)
    BY AttemptsFall
  <1>2. SoemInv => TriesLeft \in Nat
    BY SoemAssumption DEF SoemInv, Types, TriesLeft
  <1>3. SoemSpec /\ ByDescent(Attempting, Decided, TriesLeft) => (Attempting ~> Decided)
    BY <1>1, <1>2, SoemInvariant, PTL DEF ByDescent
  <1>4. SoemInv /\ Life = "starting" => Attempting \/ Decided
    BY DEF SoemInv, Types, Life, Attempting, Decided
  <1>5. SoemInv /\ Decided /\ [SoemNext]_vars => Decided' \/ <<Bus!Settle>>_(Bus!busLifeVars)
    BY StartSteps
  <1>6. SoemInv /\ Decided /\ [SoemNext]_vars /\ <<InitThread>>_vars =>
            <<Bus!Settle>>_(Bus!busLifeVars)
    BY StartSteps
  <1>7. SoemSpec => [](Decided => <><<Bus!Settle>>_(Bus!busLifeVars))
    BY <1>5, <1>6, SoemInvariant, PTL DEF SoemSpec, SoemFairness
  <1> QED
    BY <1>3, <1>4, <1>7, SoemInvariant, MasterIsABusLife, PTL
       DEF ImplementsBusLife, Bus!BusLifeSpec

-----------------------------------------------------------------------------
(* The node *)

\* The program starts with nothing loaded and nothing heard.
LEMMA NodeInvInit == NodeInit => NodeInv
  <1>1. NodeInit => NodeTypes
    <2>1. 0 \in 0..(GiveUp + Oversleep) /\ Never \in 0..Never
      BY NodeAssumption DEF NodeAssumption, GiveUp, Never
    <2> QED  BY <2>1 DEF NodeInit, BusLifeInit, NodeTypes
  <1>2. NodeInit => RegisteredAreEnabled /\ InStep /\ RunningMeansHeard
    BY DEF NodeInit, BusLifeInit, RegisteredAreEnabled, InStep, RunningMeansHeard
  <1>3. NodeInit => HeardWhen /\ GivesUpOnTheLate
    BY DEF NodeInit, HeardWhen, GivesUpOnTheLate
  <1> QED  BY <1>1, <1>2, <1>3 DEF NodeInv

\* A Load function enables exactly the sections it registers devices of.
LEMMA NodeInvOnInit == NodeInv /\ OnInit => NodeInv'
  <1> SUFFICES ASSUME NodeInv, OnInit PROVE NodeInv'
    OBVIOUS
  <1> USE DEF NodeInv, loadVars, busLifeVars
  <1>1. ASSUME NEW c \in Sections, LoadSection(c)
        PROVE  NodeInv'
    <2>1. PICK good \in SUBSET In(c) : registered' = registered \cup good
                /\ enabled' = IF good # {} THEN enabled \cup {c} ELSE enabled
      <3>1. CASE \E good \in SUBSET In(c) : LoadList(c, good)
        BY <3>1 DEF LoadList, Enables
      <3>2. CASE \E found \in BOOLEAN : LoadOne(c, found)
        <4>1. In(c) # {}
          BY <3>2, NodeAssumption DEF NodeAssumption, LoadOne, In
        <4> QED  BY <3>2, <4>1 DEF LoadOne
      <3> QED  BY <1>1, <3>1, <3>2 DEF LoadSection
    <2>2. registered' \subseteq Devices /\ enabled' \subseteq Sections
      BY <1>1, <2>1 DEF In, NodeTypes
    <2>3. RegisteredAreEnabled'
      BY <2>1 DEF RegisteredAreEnabled, In
    <2>4. UNCHANGED <<life, answer, phase, checkReady, heard, nodeState, seconds, heardAt, topic>>
          /\ phase = "load"
      BY <1>1 DEF LoadSection
    <2>5. toLoad' \subseteq Sections
      BY <1>1 DEF LoadSection, NodeTypes
    <2>6. NodeTypes'
      BY <2>1, <2>2, <2>4, <2>5 DEF NodeTypes
    <2> QED
      BY <2>3, <2>4, <2>6 DEF InStep, RunningMeansHeard, HeardWhen, GivesUpOnTheLate
  <1>2. ASSUME NEW auto \in BOOLEAN, NEW wanted \in BOOLEAN, AutoInit(auto, wanted)
        PROVE  NodeInv'
    <2>1. NodeTypes'
      BY <1>2 DEF AutoInit, NodeTypes
    <2>2. RegisteredAreEnabled' /\ InStep'
      BY <1>2 DEF AutoInit, RegisteredAreEnabled, InStep
    <2> QED
      BY <1>2, <2>1, <2>2 DEF AutoInit, InStep, RunningMeansHeard, HeardWhen, GivesUpOnTheLate
  <1> QED  BY <1>1, <1>2 DEF OnInit

\* A pass of CheckReady says "running" only when everything registered was heard,
\* and gives up only on a device that was not heard in time.
LEMMA NodeInvPass == NodeInv /\ CheckPass => NodeInv'
  <1> SUFFICES ASSUME NodeInv, CheckPass PROVE NodeInv'
    OBVIOUS
  <1> USE NodeAssumption DEF NodeInv, loadVars, busLifeVars
  <1>1. PICK late \in TooLate, sleep \in 1..Oversleep :
            /\ nodeState' = IF AllReady THEN "running" ELSE nodeState
            /\ phase' = IF AllReady \/ late THEN "over" ELSE phase
            /\ seconds' = IF AllReady \/ late THEN seconds ELSE seconds + sleep
    BY DEF CheckPass, Runs
  <1>2. /\ phase = "check" /\ checkReady /\ nodeState = "idle"
        /\ UNCHANGED <<life, answer, toLoad, registered, enabled, checkReady, heard, heardAt,
                       topic>>
    BY DEF CheckPass, InStep
  <1>3. AllReady <=> registered = heard
    BY DEF AllReady, IsReady, RegisteredAreEnabled, NodeTypes
  <1>4. /\ seconds \in Nat /\ late \in BOOLEAN /\ sleep \in 1..Oversleep
        /\ seconds < GiveUp => ~late
        /\ seconds > GiveUp => late
    <2>1. seconds \in Nat
      BY DEF NodeTypes
    <2>2. CASE seconds = GiveUp
      BY <2>1, <2>2 DEF TooLate, GiveUp
    <2>3. CASE seconds < GiveUp
      <3>1. seconds # GiveUp /\ (seconds > GiveUp) = FALSE
        BY <2>1, <2>3 DEF GiveUp
      <3>2. ~late /\ late \in BOOLEAN
        BY <3>1, Zenon DEF TooLate
      <3> QED  BY <2>1, <2>3, <3>2 DEF GiveUp
    <2>4. CASE seconds > GiveUp
      <3>1. seconds # GiveUp /\ (seconds > GiveUp) = TRUE
        BY <2>1, <2>4 DEF GiveUp
      <3>2. late /\ late \in BOOLEAN
        BY <3>1, Zenon DEF TooLate
      <3> QED  BY <2>1, <2>4, <3>2 DEF GiveUp
    <2> QED  BY <2>1, <2>2, <2>3, <2>4 DEF GiveUp
  <1>5. ~late => seconds + sleep \in 0..(GiveUp + Oversleep)
    BY <1>4 DEF GiveUp
  <1>6. NodeTypes'
    BY <1>1, <1>2, <1>5 DEF NodeTypes
  <1>7. RegisteredAreEnabled' /\ InStep'
    BY <1>1, <1>2, <1>4 DEF RegisteredAreEnabled, InStep, GiveUp
  <1>8. RunningMeansHeard'
    BY <1>1, <1>2, <1>3 DEF RunningMeansHeard, InStep
  <1>9. HeardWhen'
    <2> SUFFICES ASSUME NEW d \in Devices
                 PROVE  /\ heardAt'[d] = Never <=> d \notin heard'
                        /\ phase' # "over" /\ d \in heard' => heardAt'[d] <= seconds'
      BY DEF HeardWhen
    <2>1. heardAt[d] \in Nat
      BY DEF NodeTypes
    <2> QED  BY <1>1, <1>2, <1>4, <2>1 DEF HeardWhen
  <1>10. GivesUpOnTheLate'
    <2> SUFFICES ASSUME phase' = "over", nodeState' = "idle"
                 PROVE  \E d \in registered' : heardAt'[d] > GiveUp
      BY DEF GivesUpOnTheLate
    <2>1. ~AllReady
      BY <1>1
    <2>2. PICK d \in registered : d \notin heard
      BY <1>3, <2>1 DEF NodeTypes
    <2>3. heardAt[d] = Never
      BY <2>2 DEF HeardWhen, NodeTypes
    <2> QED  BY <1>2, <2>3 DEF Never, GiveUp
  <1> QED  BY <1>6, <1>7, <1>8, <1>9, <1>10

\* The other steps of the thread that initialises.
LEMMA NodeInvThread == NodeInv /\ AutoInitThread => NodeInv'
  <1> SUFFICES ASSUME NodeInv, CallInit \/ InitReturned \/ WaitAndSendReady PROVE NodeInv'
    BY NodeInvPass DEF AutoInitThread
  <1> USE DEF NodeInv, loadVars, busLifeVars
  <1>0. UNCHANGED <<toLoad, registered, enabled, checkReady, heard, seconds, heardAt, topic>>
        /\ phase' \in {"waiting", "check", "wait", "over"}
    BY DEF CallInit, InitReturned, WaitAndSendReady
  <1>1. NodeTypes' /\ RegisteredAreEnabled'
    BY <1>0 DEF CallInit, Begin, InitReturned, WaitAndSendReady, NodeTypes, RegisteredAreEnabled
  <1>2. CASE CallInit
    BY <1>0, <1>1, <1>2 DEF CallInit, Begin, InStep, RunningMeansHeard, HeardWhen, GivesUpOnTheLate
  <1>3. CASE InitReturned
    <2>1. InStep' /\ RunningMeansHeard' /\ GivesUpOnTheLate'
      BY <1>0, <1>3 DEF InitReturned, GoesOn, InStep, RunningMeansHeard, GivesUpOnTheLate, NodeTypes
    <2>2. HeardWhen'
      BY <1>0, <1>3 DEF InitReturned, HeardWhen
    <2> QED  BY <1>1, <2>1, <2>2
  <1>4. CASE WaitAndSendReady
    BY <1>0, <1>1, <1>4 DEF WaitAndSendReady, InStep, RunningMeansHeard, HeardWhen, GivesUpOnTheLate
  <1> QED  BY <1>2, <1>3, <1>4

\* The steps of the bus, of the devices and of the thread that publishes.
LEMMA NodeInvOthers ==
  NodeInv /\ (BusChanges \/ (\E d \in Devices : Hear(d)) \/ PublishState) => NodeInv'
  <1> USE DEF NodeInv, loadVars, nodeVars, busLifeVars
  <1>1. ASSUME NodeInv, BusChanges
        PROVE  NodeInv'
    <2>1. NodeTypes' /\ RegisteredAreEnabled' /\ HeardWhen' /\ GivesUpOnTheLate'
      BY <1>1 DEF BusChanges, Settle, End, NodeTypes, RegisteredAreEnabled, HeardWhen,
                  GivesUpOnTheLate
    <2> QED  BY <1>1, <2>1 DEF BusChanges, Settle, End, InStep, RunningMeansHeard
  <1>2. ASSUME NodeInv, NEW d \in Devices, Hear(d)
        PROVE  NodeInv'
    <2>1. /\ life \in {"up", "ended"} /\ d \in registered /\ d \notin heard /\ heard' = heard \cup {d}
          /\ heardAt' = [heardAt EXCEPT ![d] = IF phase = "over" THEN seconds + 1 ELSE seconds]
          /\ UNCHANGED <<life, answer, phase, toLoad, registered, enabled, checkReady, nodeState,
                         seconds, topic>>
      BY <1>2 DEF Hear
    <2>2. /\ seconds \in Nat /\ seconds + 1 < Never
          /\ seconds \in 0..Never /\ seconds + 1 \in 0..Never
      BY <1>2, NodeAssumption DEF NodeTypes, NodeAssumption, GiveUp, Never
    <2>3. \A e \in Devices : heardAt'[e] = IF e # d THEN heardAt[e]
                                ELSE IF phase = "over" THEN seconds + 1 ELSE seconds
      BY <1>2, <2>1 DEF NodeTypes
    <2>4. NodeTypes'
      BY <1>2, <2>1, <2>2 DEF NodeTypes
    <2>5. RegisteredAreEnabled' /\ InStep' /\ RunningMeansHeard'
      BY <1>2, <2>1 DEF RegisteredAreEnabled, InStep, RunningMeansHeard
    <2>6. HeardWhen'
      <3>1. Never # seconds /\ Never # seconds + 1
        BY <2>2 DEF Never, GiveUp
      <3> QED  BY <1>2, <2>1, <2>2, <2>3, <3>1 DEF HeardWhen
    <2>7. GivesUpOnTheLate'
      <3> SUFFICES ASSUME phase = "over", nodeState = "idle"
                   PROVE  \E e \in registered : heardAt'[e] > GiveUp
        BY <2>1 DEF GivesUpOnTheLate
      <3>1. PICK e \in registered : heardAt[e] > GiveUp
        BY <1>2 DEF GivesUpOnTheLate
      <3>2. seconds + 1 > GiveUp
        BY <1>2, <2>2 DEF InStep, GiveUp
      <3> QED  BY <1>2, <2>1, <2>3, <3>1, <3>2 DEF NodeTypes
    <2> QED  BY <2>4, <2>5, <2>6, <2>7
  <1>3. ASSUME NodeInv, PublishState
        PROVE  NodeInv'
    <2>1. NodeTypes' /\ RegisteredAreEnabled' /\ HeardWhen' /\ GivesUpOnTheLate'
      BY <1>3 DEF PublishState, NodeTypes, RegisteredAreEnabled, HeardWhen, GivesUpOnTheLate
    <2> QED  BY <1>3, <2>1 DEF PublishState, InStep, RunningMeansHeard
  <1> QED  BY <1>1, <1>2, <1>3

\* Whatever is configured and whichever devices answer when, a node that was
\* asked to check runs only with every device on the bus heard, and gives up only
\* on a device that was late.
THEOREM NodeInvariant == NodeMonitorSpec => []NodeInv
  <1>1. NodeMonitorInit => NodeInv
    BY NodeInvInit DEF NodeMonitorInit
  <1>2. NodeInv /\ UNCHANGED allNodeVars => NodeInv'
    BY DEF allNodeVars, nodeVars, loadVars, busLifeVars, NodeInv, NodeTypes, RegisteredAreEnabled,
           InStep, RunningMeansHeard, HeardWhen, GivesUpOnTheLate
  <1>3. NodeInv /\ [NodeMonitorNext]_nodeMonitorVars => NodeInv'
    BY <1>2, NodeInvOnInit, NodeInvThread, NodeInvOthers
       DEF NodeMonitorNext, NodeNext, nodeMonitorVars
  <1> QED  BY <1>1, <1>3, PTL DEF NodeMonitorSpec

\* The node checks and everything it waits for was heard.
HeardAll == phase = "check" /\ registered = heard

\* What a step can do on the way from there to the monitor's start: the next pass
\* says that the node runs, this is published, and the monitor starts when told.
LEMMA FollowSteps ==
  ASSUME NodeInv, [NodeMonitorNext]_nodeMonitorVars
  PROVE  /\ HeardAll => HeardAll' \/ (nodeState = "running")'
         /\ HeardAll /\ AutoInitThread => (nodeState = "running")'
         /\ nodeState = "running" => (nodeState = "running")'
         /\ nodeState = "running" /\ PublishState => (topic = "running")'
         /\ topic = "running" => (topic = "running")'
         /\ topic = "running" /\ MonitorHears => started'
         /\ started => started'
  <1> USE DEF loadVars, nodeVars, busLifeVars, allNodeVars, monitorVars, nodeMonitorVars
  <1>1. HeardAll => AllReady
    BY DEF NodeInv, RegisteredAreEnabled, NodeTypes, HeardAll, AllReady, IsReady
  <1>2. HeardAll /\ AutoInitThread => (nodeState = "running")'
    <2>1. HeardAll /\ AutoInitThread => CheckPass
      BY DEF HeardAll, AutoInitThread, CallInit, InitReturned, WaitAndSendReady
    <2> QED  BY <1>1, <2>1 DEF CheckPass, Runs
  <1>3. NodeNext \/ UNCHANGED allNodeVars
    BY DEF NodeMonitorNext
  <1>4. HeardAll => HeardAll' \/ (nodeState = "running")'
    <2>1. HeardAll /\ NodeNext => AutoInitThread \/ UNCHANGED <<phase, registered, heard>>
      <3>1. HeardAll => ~OnInit /\ ~\E d \in Devices : Hear(d)
        BY DEF HeardAll, OnInit, LoadSection, AutoInit, Hear
      <3> QED  BY <3>1 DEF NodeNext, BusChanges, PublishState
    <2> QED  BY <1>2, <1>3, <2>1 DEF HeardAll
  <1>5. nodeState = "running" => (nodeState = "running")'
    BY <1>3 DEF NodeNext, OnInit, LoadSection, AutoInit, AutoInitThread, CallInit, InitReturned,
                CheckPass, WaitAndSendReady, BusChanges, Hear, PublishState
  <1>6. nodeState = "running" /\ PublishState => (topic = "running")'
    BY DEF PublishState
  <1>7. topic = "running" => (topic = "running")'
    <2>1. topic = "running" => nodeState = "running"
      BY DEF NodeInv, InStep
    <2> QED
      BY <1>3, <2>1 DEF NodeNext, OnInit, LoadSection, AutoInit, AutoInitThread, CallInit,
                        InitReturned, CheckPass, WaitAndSendReady, BusChanges, Hear, PublishState
  <1>8. MonitorHears => started'
    BY DEF MonitorHears, OnNodeState
  <1>9. started => started'
    BY DEF NodeMonitorNext, MonitorHears, OnNodeState, MonitorThread, FirstReset, WakesUp, Takes,
           Reports, GivesBack, Callbacks, OnMotorStatus, CountsStatus, MotorStatusEnds, OtherBegins,
           OtherEnds
  <1> QED  BY <1>2, <1>4, <1>5, <1>6, <1>7, <1>8, <1>9

\* A node whose devices were all heard while it checks makes the monitor start,
\* whatever the configuration and whatever else happens: no step leads away from
\* "running", and none can come between.  By the fairness of the three threads;
\* the hypotheses say when it applies.
THEOREM ReadyNodeIsFollowed ==
  ASSUME [](HeardAll => ENABLED <<AutoInitThread /\ UNCHANGED monitorVars>>_nodeMonitorVars),
         [](nodeState = "running" /\ topic # nodeState =>
                ENABLED <<PublishState /\ UNCHANGED monitorVars>>_nodeMonitorVars),
         [](topic = "running" /\ ~started =>
                ENABLED <<MonitorHears /\ UNCHANGED allNodeVars>>_nodeMonitorVars)
  PROVE  NodeMonitorSpec => ReadyIsFollowed
  <1> DEFINE Says == nodeState = "running"
             Told  == topic = "running"
  <1>1. NodeInv /\ HeardAll /\ [NodeMonitorNext]_nodeMonitorVars => HeardAll' \/ Says'
    BY FollowSteps
  <1>2. NodeInv /\ HeardAll /\ [NodeMonitorNext]_nodeMonitorVars
          /\ <<AutoInitThread /\ UNCHANGED monitorVars>>_nodeMonitorVars => Says'
    BY FollowSteps
  <1>3. NodeInv /\ Says /\ [NodeMonitorNext]_nodeMonitorVars => Says'
    BY FollowSteps
  <1>4. NodeInv /\ Says /\ [NodeMonitorNext]_nodeMonitorVars
          /\ <<PublishState /\ UNCHANGED monitorVars>>_nodeMonitorVars => Told'
    BY FollowSteps
  <1>5. NodeInv /\ Told /\ [NodeMonitorNext]_nodeMonitorVars => Told'
    BY FollowSteps
  <1>6. NodeInv /\ Told /\ [NodeMonitorNext]_nodeMonitorVars
          /\ <<MonitorHears /\ UNCHANGED allNodeVars>>_nodeMonitorVars => started'
    BY FollowSteps
  <1>7. Says /\ ~Told => nodeState = "running" /\ topic # nodeState
    OBVIOUS
  <1>8. NodeMonitorSpec => (HeardAll ~> Says)
    BY NodeInvariant, <1>1, <1>2, PTL DEF NodeMonitorSpec
  <1>9. NodeMonitorSpec => (Says ~> Told)
    BY NodeInvariant, <1>3, <1>4, <1>7, PTL DEF NodeMonitorSpec
  <1>10. Told /\ ~started => topic = "running" /\ ~started
    OBVIOUS
  <1>11. NodeMonitorSpec => (Told ~> started)
    BY NodeInvariant, <1>5, <1>6, <1>10, PTL DEF NodeMonitorSpec
  <1>12. phase = "check" /\ registered = heard => HeardAll
    BY DEF HeardAll
  <1> QED  BY <1>8, <1>9, <1>11, <1>12, PTL DEF ReadyIsFollowed

-----------------------------------------------------------------------------
(* The monitor *)

\* A callback that begins counts the message but not yet its statuses.
LEMMA MonitorBegins ==
  ASSUME MonitorInv, NEW statuses \in Messages, OnMotorStatus(statuses)
  PROVE  MonitorInv'
  <1> USE MonitorAssumption DEF MonitorAssumption, MonitorInv, MonitorTypes, OnMotorStatus
  <1>1. statuses \in [Motors -> Nat]
    BY DEF Messages
  <1>2. MonitorTypes'
    <2>1. window' \in [messages : Nat, having : [Motors -> Nat], several : SUBSET Motors]
      BY <1>1
    <2> QED  BY <1>1, <2>1 DEF Mutexes
  <1>3. ASSUME NEW m \in Motors
        PROVE  CountedAs(m, countAnyMotor[m] + message[m])'
    <2>1. /\ CountedAs(m, countAnyMotor[m]) /\ countAnyMotor' = countAnyMotor
          /\ message' = statuses /\ statuses[m] \in Nat
          /\ countAnyMotor[m] \in Nat /\ window.having[m] \in Nat
      <3>1. message[m] = 0 /\ countAnyMotor[m] + message[m] = countAnyMotor[m]
        BY DEF NoCounts
      <3>2. CountedAs(m, countAnyMotor[m] + message[m])
        OBVIOUS
      <3> QED  BY <1>1, <3>1, <3>2
    <2>2. /\ window'.having[m] = window.having[m] + IF statuses[m] > 0 THEN 1 ELSE 0
          /\ m \in window'.several <=> m \in window.several \/ statuses[m] > 1
      OBVIOUS
    <2> QED  BY <2>1, <2>2 DEF CountedAs
  <1>4. callback' \notin owned' /\ callback' = "motor"
    BY DEF Free
  <1>5. window'.messages = window.messages + 1 /\ count' = count + 1
    OBVIOUS
  <1> QED  BY <1>2, <1>3, <1>4, <1>5

\* A status that is counted is no longer to be counted.
LEMMA MonitorCounts ==
  ASSUME MonitorInv, CountsStatus
  PROVE  MonitorInv'
  <1> USE DEF MonitorInv, MonitorTypes, CountsStatus
  <1>1. PICK x \in Motors :
            /\ message[x] > 0
            /\ countAnyMotor' = [countAnyMotor EXCEPT ![x] = @ + 1]
            /\ message' = [message EXCEPT ![x] = @ - 1]
    OBVIOUS
  <1>2. MonitorTypes'
    BY <1>1 DEF Mutexes
  <1>3. \A m \in Motors : countAnyMotor'[m] + message'[m] = countAnyMotor[m] + message[m]
    BY <1>1
  <1>4. \A m \in Motors : CountedAs(m, countAnyMotor[m] + message[m])'
    BY <1>3 DEF CountedAs
  <1> QED  BY <1>2, <1>4

\* The report is made when nobody counts, and starts an empty window.
LEMMA MonitorReports ==
  ASSUME MonitorInv, Reports
  PROVE  MonitorInv'
  <1> USE DEF MonitorInv, MonitorTypes, Reports
  <1>1. callback = "none" /\ message = NoCounts
    BY DEF Mutexes
  <1>2. MonitorTypes'
    BY <1>1 DEF MotorsReset, NoCounts, EmptyWindow
  <1>3. \A m \in Motors : CountedAs(m, countAnyMotor[m] + message[m])'
    BY <1>1 DEF CountedAs, MotorsReset, NoCounts, EmptyWindow
  <1>4. count' = 0 /\ window'.messages = 0
    BY DEF EmptyWindow
  <1>5. started' \in BOOLEAN /\ first' \in BOOLEAN /\ ~first'
    BY Zenon DEF MonitorInv, Reports
  <1> QED  BY <1>1, <1>2, <1>3, <1>4, <1>5

\* The other steps leave the records alone, but for the first reset.
LEMMA MonitorOthers ==
  ASSUME MonitorInv,
         \/ \E told \in {"idle", "running"} : OnNodeState(told)
         \/ MotorStatusEnds \/ OtherBegins \/ OtherEnds \/ FirstReset \/ WakesUp
         \/ \E x \in Mutexes : Takes(x) \/ GivesBack(x)
         \/ UNCHANGED monitorVars
  PROVE  MonitorInv'
  <1> USE DEF MonitorInv, MonitorTypes
  <1>1. /\ UNCHANGED <<window, countAnyMotor, message>>
        /\ count' \in {count, 0} /\ (count' # count => first')
        /\ callback' # "motor" => message = NoCounts
        /\ first' = first
    BY DEF OnNodeState, MotorStatusEnds, OtherBegins, OtherEnds, FirstReset, WakesUp, Takes,
           GivesBack, monitorVars
  <1>2. started' \in BOOLEAN /\ first' \in BOOLEAN
    BY Zenon DEF OnNodeState, MotorStatusEnds, OtherBegins, OtherEnds, FirstReset, WakesUp, Takes,
                 GivesBack, monitorVars
  <1>3. /\ thread' \in {"none", "reset", "sleep", "lock", "unlock"}
        /\ callback' \in Mutexes \cup {"none"} /\ owned' \subseteq Mutexes
        /\ callback' \notin owned'
        /\ thread' \in {"none", "reset", "sleep"} => owned' = {}
    BY DEF OnNodeState, MotorStatusEnds, OtherBegins, OtherEnds, FirstReset, WakesUp, Takes,
           GivesBack, monitorVars, Mutexes, Free
  <1>4. /\ thread' \in {"none", "reset"} => first'
        /\ started' <=> thread' # "none"
    <2>1. CASE \E told \in {"idle", "running"} : OnNodeState(told)
      <3>1. first' = first /\ started' /\ thread = "none" /\ thread' = "reset"
        BY <2>1 DEF OnNodeState
      <3> QED  BY <3>1
    <2>2. CASE UNCHANGED <<started, thread, first>>
      BY <2>2
    <2>3. CASE UNCHANGED <<started, first>> /\ thread # "none" /\ thread' \notin {"none", "reset"}
      BY <2>3
    <2> QED
      BY <2>1, <2>2, <2>3 DEF MotorStatusEnds, OtherBegins, OtherEnds, FirstReset, WakesUp, Takes,
                              GivesBack, monitorVars
  <1>5. \A m \in Motors : CountedAs(m, countAnyMotor[m] + message[m])'
    BY <1>1 DEF CountedAs
  <1>6. MonitorTypes'
    BY <1>1, <1>3
  <1>7. count' <= window'.messages /\ (~first' => count' = window'.messages)
    BY <1>1
  <1> QED  BY <1>1, <1>2, <1>3, <1>4, <1>5, <1>6, <1>7

\* The records of the monitor are those of the messages of its window.
THEOREM MonitorInvariant == NodeMonitorSpec => []MonitorInv
  <1>1. MonitorInit => MonitorInv
    <2> SUFFICES ASSUME MonitorInit PROVE MonitorInv
      OBVIOUS
    <2>1. \A m \in Motors : CountedAs(m, countAnyMotor[m] + message[m])
      BY DEF MonitorInit, CountedAs, NoCounts, EmptyWindow
    <2>2. started \in BOOLEAN /\ first \in BOOLEAN
      BY Zenon DEF MonitorInit
    <2>3. MonitorTypes
      BY DEF MonitorInit, MonitorTypes, NoCounts, EmptyWindow, Mutexes
    <2> QED  BY <2>1, <2>2, <2>3 DEF MonitorInit, MonitorInv, EmptyWindow
  <1>2. NodeInv /\ MonitorInv /\ [NodeMonitorNext]_nodeMonitorVars => MonitorInv'
    <2> SUFFICES ASSUME NodeInv, MonitorInv, [NodeMonitorNext]_nodeMonitorVars PROVE MonitorInv'
      OBVIOUS
    <2>1. CASE MonitorHears
      <3>1. topic \in {"idle", "running"}
        BY <2>1 DEF MonitorHears, NodeInv, NodeTypes
      <3> QED  BY <2>1, <3>1, MonitorOthers DEF MonitorHears
    <2>2. CASE MonitorThread
      BY <2>2, MonitorReports, MonitorOthers DEF MonitorThread
    <2>3. CASE Callbacks
      BY <2>3, MonitorBegins, MonitorCounts, MonitorOthers DEF Callbacks
    <2>4. CASE UNCHANGED monitorVars
      BY <2>4, MonitorOthers
    <2> QED
      BY <2>1, <2>2, <2>3, <2>4 DEF NodeMonitorNext, nodeMonitorVars
  <1> QED  BY NodeInvariant, <1>1, <1>2, PTL DEF NodeMonitorSpec, NodeMonitorInit

\* Every report but the first counts exactly the messages of its window and, of a
\* motor no message had several statuses of, those that had it, because no callback
\* is half way when the mutexes are taken.
THEOREM ReportsAreExact == NodeMonitorSpec => ReportsExact
  <1>1. MonitorInv => [Reports /\ ~first =>
            /\ reported'.all = window.messages
            /\ \A m \in Motors : CountedAs(m, reported'.motor[m])]_monitorVars
    <2> SUFFICES ASSUME MonitorInv, Reports, ~first
                 PROVE  /\ reported'.all = window.messages
                        /\ \A m \in Motors : CountedAs(m, reported'.motor[m])
      OBVIOUS
    <2>1. callback = "none" /\ message = NoCounts
      BY DEF MonitorInv, MonitorTypes, Reports, Mutexes
    <2>2. \A m \in Motors : countAnyMotor[m] + message[m] = countAnyMotor[m]
      BY <2>1 DEF MonitorInv, MonitorTypes, NoCounts
    <2> QED  BY <2>1, <2>2 DEF MonitorInv, Reports
  <1> QED  BY MonitorInvariant, <1>1, PTL DEF ReportsExact
=============================================================================
