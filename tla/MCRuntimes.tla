----------------------------- MODULE MCRuntimes -----------------------------
(* Small instances of what stands behind a display, in one state graph:    *)
(* the Node-RED manager with its tenants, the gate in front of their       *)
(* dashboards, a display's session, and the bundle a kiosk renders.  They  *)
(* share no state here, so a behaviour chooses one of them (part) and      *)
(* leaves the others alone; fairness is asked of the one that runs.        *)
EXTENDS NodeRed, DashboardGate, DisplaySession, KioskConfig

VARIABLE part   \* the component that runs

Parts == {"nodered", "gate", "session", "config"}

\* Of a component that does not run one initial state is enough.
RuntimesInit ==
  /\ part \in Parts
  /\ NrInit
  /\ part = "nodered" \/ (\A t \in Tenants : row[t] = "none")
  /\ GateInit
  /\ part = "gate" \/ gFlows.roots = {}
  /\ DvInit
  /\ part = "session" \/ vflows = [w \in DvWidgets |-> CHOOSE p \in DvPages : TRUE]
  /\ CfgInit
  /\ part = "config" \/ isViewer

RuntimesNext ==
  /\ UNCHANGED part
  /\ \/ /\ part = "nodered" /\ NrNext
        /\ UNCHANGED <<gVars, dvVars, cfgVars>>
     \/ /\ part = "gate" /\ GateNext
        /\ UNCHANGED <<nrVars, dvVars, cfgVars>>
     \/ /\ part = "session" /\ DvNext
        /\ UNCHANGED <<nrVars, gVars, cfgVars>>
     \/ /\ part = "config" /\ CfgNext
        /\ UNCHANGED <<nrVars, gVars, dvVars>>

RuntimesSpec ==
  RuntimesInit /\ [][RuntimesNext]_<<part, nrVars, gVars, dvVars, cfgVars>>

\* The fairness of NrFairSpec, for the part that runs.
RuntimesFairSpec ==
  /\ RuntimesSpec
  /\ WF_nrVars(part = "nodered" /\ ServerStep)
  /\ WF_nrVars(part = "nodered" /\ CallStep)
=============================================================================
