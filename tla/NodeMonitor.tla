----------------------------- MODULE NodeMonitor -----------------------------
(* The node of NodeStart and the Monitor that follows its node state. *)
EXTENDS NodeStart, Monitor

NodeMonitorInit == NodeInit /\ MonitorInit

\* The monitor is told the state published last.
MonitorHears ==
    /\ topic # "none"
    /\ OnNodeState(topic)

NodeMonitorNext ==
    \/ NodeNext /\ UNCHANGED monitorVars
    \/ (MonitorHears \/ MonitorThread) /\ UNCHANGED allNodeVars
    \/ Callbacks /\ UNCHANGED allNodeVars

nodeMonitorVars == <<allNodeVars, monitorVars>>

\* The threads of the node run on, the executor of the monitor calls back.
NodeMonitorSpec ==
    /\ NodeMonitorInit
    /\ [][NodeMonitorNext]_nodeMonitorVars
    /\ WF_nodeMonitorVars(OnInit /\ UNCHANGED monitorVars)
    /\ WF_nodeMonitorVars(AutoInitThread /\ UNCHANGED monitorVars)
    /\ WF_nodeMonitorVars(Settle /\ UNCHANGED <<nodeVars, monitorVars>>)
    /\ WF_nodeMonitorVars(PublishState /\ UNCHANGED monitorVars)
    /\ WF_nodeMonitorVars(MonitorHears /\ UNCHANGED allNodeVars)
=============================================================================
