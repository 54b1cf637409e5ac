----------------------------- MODULE MCContent ------------------------------
(* Small instances of what administrators edit and kiosks fetch, in one    *)
(* state graph: the layout grid, AbleSign screens, dashboard pages, the    *)
(* heartbeat with its display rows and managed configuration, and release  *)
(* management.  They share no state, so a behaviour chooses one of them    *)
(* (part) and leaves the others alone.                                     *)
EXTENDS Releases, LayoutGrid, AbleSign, DashboardSync, KioskHeartbeat, TLC

CONSTANT k1     \* a kiosk

MCInBucket == {}

VARIABLE part   \* the component that runs

Parts == {"releases", "grid", "screens", "pages", "heartbeat"}

\* Editors, AbleSign requests, heartbeats and digests are the same model values.
Symmetry == Permutations(Editors) \cup Permutations(Savers)

\* Of a component that does not run one initial state is enough.
ContentInit ==
  /\ part \in Parts
  /\ RelInit
  /\ \/ part = "releases"
     \/ /\ kind = "fw"
        /\ TargetOf = [k \in Kiosks |-> "linux"]
        /\ \A k \in Kiosks : pref[k].pin = NoPin
  /\ GridInit
  /\ part = "grid" \/ cells = <<>>
  /\ AsInit
  /\ \/ part = "screens"
     \/ /\ asAcct = "ok"
        /\ asRemote[1] = "t"
  /\ DashInit
  /\ \/ part = "pages"
     \/ /\ dsTabs = <<>>
        /\ dsRows = <<>>
  /\ HeartbeatInit
  /\ \/ part = "heartbeat"
     \/ /\ heViewer
        /\ heDefault
        /\ hePlugged = <<>>

ContentNext ==
  /\ UNCHANGED part
  /\ \/ /\ part = "releases" /\ RelNext
        /\ UNCHANGED <<gridVars, asVars, dsVars, heVars>>
     \/ /\ part = "grid" /\ GridNext
        /\ UNCHANGED <<relVars, asVars, dsVars, heVars>>
     \/ /\ part = "screens" /\ AsNext
        /\ UNCHANGED <<relVars, gridVars, dsVars, heVars>>
     \/ /\ part = "pages" /\ DashNext
        /\ UNCHANGED <<relVars, gridVars, asVars, heVars>>
     \/ /\ part = "heartbeat" /\ HeartbeatNext
        /\ UNCHANGED <<relVars, gridVars, asVars, dsVars>>

ContentSpec ==
  ContentInit /\ [][ContentNext]_<<part, relVars, gridVars, asVars, dsVars, heVars>>
=============================================================================
