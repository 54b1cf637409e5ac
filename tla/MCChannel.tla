----------------------------- MODULE MCChannel ------------------------------
(* Small instances of the channels to devices in one state graph: the      *)
(* coordinator's socket to a kiosk, the events kiosks and boxes post, and  *)
(* ioBOX enrolment, configuration and firmware.  They share no state here, *)
(* so a behaviour chooses one of them (part) and leaves the others alone.  *)
EXTENDS Coordinator, EventIngest, IoBoxPairing, IoBoxDevices, TLC

VARIABLE part   \* the component that runs

Parts == {"coordinator", "ingest", "enrolment", "boxes"}

MCIoModelOf == [b \in IoBoxes |-> "m1"]

\* Administrators and event slots are the same model values.
Symmetry == Permutations(Admins)

\* Of a component that does not run one initial state is enough.
ChannelInit ==
  /\ part \in Parts
  /\ CoordInit
  /\ part = "coordinator" \/ viewer
  /\ IngestInit
  /\ IoPairInit
  /\ part = "enrolment" \/ ioLegacy = {}
  /\ IoDevInit
  /\ \/ part = "boxes"
     \/ /\ \A b \in IoBoxes : ibox[b].assigned = None
        /\ \A d \in IoDisplays : idisp[d] = None

ChannelNext ==
  /\ UNCHANGED part
  /\ \/ /\ part = "coordinator" /\ CoordNext
        /\ UNCHANGED <<egVars, ioPairVars, ioDevVars>>
     \/ /\ part = "ingest" /\ IngestNext
        /\ UNCHANGED <<coordVars, ioPairVars, ioDevVars>>
     \/ /\ part = "enrolment" /\ IoPairNext
        /\ UNCHANGED <<coordVars, egVars, ioDevVars>>
     \/ /\ part = "boxes" /\ IoDevNext
        /\ UNCHANGED <<coordVars, egVars, ioPairVars>>

ChannelSpec ==
  ChannelInit /\ [][ChannelNext]_<<part, coordVars, egVars, ioPairVars, ioDevVars>>
=============================================================================
