------------------------------ MODULE MCKiosk -------------------------------
(* Small instances of Pairing and ViewerPower in one state graph.  They    *)
(* share no state here, so a behaviour chooses one of them (part) and      *)
(* leaves the other alone.                                                 *)
EXTENDS Pairing, ViewerPower, TLC

VARIABLE part   \* the component that runs

\* Codes; devices and sockets, which are the same model values; tenants and
\* commands, likewise.
Symmetry == Permutations(Codes) \cup Permutations(Devices) \cup Permutations(Tenants)

KioskInit == part \in {"pairing", "viewer"} /\ Init /\ ViewerInit

KioskNext ==
  /\ UNCHANGED part
  /\ \/ part = "pairing" /\ Next /\ UNCHANGED viewerVars
     \/ part = "viewer" /\ ViewerNext /\ UNCHANGED vars

KioskSpec == KioskInit /\ [][KioskNext]_<<part, vars, viewerVars>>

\* The viewer power alone, with its fairness.
ViewerLiveInit == part = "viewer" /\ Init /\ ViewerInit

ViewerLiveSpec ==
  /\ ViewerLiveInit
  /\ [][KioskNext]_<<part, vars, viewerVars>>
  /\ ViewerFairness
=============================================================================
