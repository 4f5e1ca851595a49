------------------------------- MODULE Monitor -------------------------------
(***************************************************************************)
(* MonitorPlugin.cpp: once the node runs, the monitor subscribes to its    *)
(* topics and logs every five seconds how many messages came and which     *)
(* motors they lacked.  The callbacks count under the mutex of their topic *)
(* and the thread that reports takes all the mutexes.  The records are     *)
(* reset without a mutex before the first window, when the subscriptions   *)
(* are already there.                                                      *)
(*                                                                         *)
(* A message is how many statuses of each motor it holds: none of a motor  *)
(* that was silent, several of one that answered while others were awaited *)
(* (StatusBatch).  OnMotorStatus stands for all callbacks; the others      *)
(* count one number under another mutex, as "other" here.                  *)
(***************************************************************************)
EXTENDS Naturals

CONSTANTS
    Motors,         \* namesAvailable
    MaxMessages,    \* bound: messages in a window
    MaxStatuses     \* bound: statuses of one motor in a message

ASSUME MonitorAssumption == MaxMessages \in Nat /\ MaxStatuses \in Nat

Mutexes == {"motor", "other"}

VARIABLES
    started,        \* static started of OnNodeState
    thread,         \* the thread it starts: "none", "reset", "sleep", "lock", "unlock"
    count,          \* count[TYPE_MOTOR_STATUS]
    countAnyMotor,  \* of each motor
    owned,          \* the mutexes the thread has
    callback,       \* "none", or the mutex a callback has
    message,        \* the statuses of each motor the callback has still to count
    window,         \* history: what came since the last reset: the messages, those that had
                    \* a motor, and the motors some message had several statuses of
    first,          \* history: nothing was reported yet
    reported        \* the count and the counts of motors in the last report

monitorVars == <<started, thread, count, countAnyMotor, owned, callback, message, window,
                 first, reported>>

NoCounts == [m \in Motors |-> 0]
Messages == [Motors -> 0..MaxStatuses]
EmptyWindow == [messages |-> 0, having |-> NoCounts, several |-> {}]

MonitorInit ==
    /\ started = FALSE
    /\ thread = "none"
    /\ count = 0
    /\ countAnyMotor = NoCounts
    /\ owned = {}
    /\ callback = "none"
    /\ message = NoCounts
    /\ window = EmptyWindow
    /\ first = TRUE
    /\ reported = [all |-> 0, motor |-> NoCounts]

\* OnNodeState: the first message that says the node runs starts the thread, which
\* subscribes.
OnNodeState(told) ==
    /\ told = "running"
    /\ ~started
    /\ started' = TRUE
    /\ thread' = "reset"
    /\ UNCHANGED <<count, countAnyMotor, owned, callback, message, window, first, reported>>

-----------------------------------------------------------------------------
(* The callbacks, one at a time *)

\* Mistake: a callback does not take its mutex.
FreeAlways(mutex) == TRUE

\* Nobody has the mutex.
Free(mutex) == mutex \notin owned

\* OnMotorStatus takes its mutex and counts the message.
OnMotorStatus(statuses) ==
    /\ thread # "none"
    /\ callback = "none"
    /\ window.messages < MaxMessages
    /\ Free("motor")
    /\ callback' = "motor"
    /\ message' = statuses
    /\ count' = count + 1
    /\ window' = [messages |-> window.messages + 1,
                  having |-> [m \in Motors |->
                                 window.having[m] + IF statuses[m] > 0 THEN 1 ELSE 0],
                  several |-> window.several \cup {m \in Motors : statuses[m] > 1}]
    /\ UNCHANGED <<started, thread, countAnyMotor, owned, first, reported>>

\* It counts the statuses of the message, one after the other.
CountsStatus ==
    /\ callback = "motor"
    /\ \E m \in Motors :
        /\ message[m] > 0
        /\ countAnyMotor' = [countAnyMotor EXCEPT ![m] = @ + 1]
        /\ message' = [message EXCEPT ![m] = @ - 1]
    /\ UNCHANGED <<started, thread, count, owned, callback, window, first, reported>>

\* It gives the mutex back.
MotorStatusEnds ==
    /\ callback = "motor"
    /\ message = NoCounts
    /\ callback' = "none"
    /\ UNCHANGED <<started, thread, count, countAnyMotor, owned, message, window, first, reported>>

\* A callback of another topic.
OtherBegins ==
    /\ thread # "none"
    /\ callback = "none"
    /\ Free("other")
    /\ callback' = "other"
    /\ UNCHANGED <<started, thread, count, countAnyMotor, owned, message, window, first, reported>>

OtherEnds ==
    /\ callback = "other"
    /\ callback' = "none"
    /\ UNCHANGED <<started, thread, count, countAnyMotor, owned, message, window, first, reported>>

-----------------------------------------------------------------------------
(* The thread *)

\* The reset before the first window: the counts of the motors are left alone.  It is
\* lost when a callback is just adding to the count.
FirstReset ==
    /\ thread = "reset"
    /\ thread' = "sleep"
    /\ count' \in (IF callback = "motor" THEN {0, count} ELSE {0})
    /\ UNCHANGED <<started, countAnyMotor, owned, callback, message, window, first, reported>>

\* Five seconds later.
WakesUp ==
    /\ thread = "sleep"
    /\ thread' = "lock"
    /\ UNCHANGED <<started, count, countAnyMotor, owned, callback, message, window, first, reported>>

\* The mutexes are taken one by one, the motors' before the others.
Takes(mutex) ==
    /\ thread = "lock"
    /\ mutex \notin owned
    /\ mutex = "other" => "motor" \in owned
    /\ callback # mutex
    /\ owned' = owned \cup {mutex}
    /\ UNCHANGED <<started, thread, count, countAnyMotor, callback, message, window, first, reported>>

\* Mistake: the counts of the motors go on from window to window.
MotorsKept == countAnyMotor

\* The counts of the motors at the end of a window.
MotorsReset == NoCounts

\* The report, and the reset for the next window.
Reports ==
    /\ thread = "lock"
    /\ owned = Mutexes
    /\ reported' = [all |-> count, motor |-> countAnyMotor]
    /\ count' = 0
    /\ countAnyMotor' = MotorsReset
    /\ window' = EmptyWindow
    /\ first' = FALSE
    /\ thread' = "unlock"
    /\ UNCHANGED <<started, owned, callback, message>>

\* The mutexes are given back one by one, in the same order.
GivesBack(mutex) ==
    /\ thread = "unlock"
    /\ mutex \in owned
    /\ mutex = "other" => "motor" \notin owned
    /\ owned' = owned \ {mutex}
    /\ thread' = IF owned' = {} THEN "sleep" ELSE thread
    /\ UNCHANGED <<started, count, countAnyMotor, callback, message, window, first, reported>>

MonitorThread ==
    FirstReset \/ WakesUp \/ Reports \/ \E x \in Mutexes : Takes(x) \/ GivesBack(x)
Callbacks == \/ \E statuses \in Messages : OnMotorStatus(statuses)
             \/ CountsStatus \/ MotorStatusEnds \/ OtherBegins \/ OtherEnds
=============================================================================
