----------------------------- MODULE MCCameras ------------------------------
(* Small instances of everything about cameras in one state graph: cloud   *)
(* cameras, a device's channels and streams, event topics, subscriptions,  *)
(* and ONVIF commands.  They share no state here, so a behaviour chooses   *)
(* one of them (part) and leaves the others alone.                         *)
EXTENDS CloudCameras, CameraDevices, EventTopics, OnvifEvents, OnvifClient, TLC

VARIABLE part   \* the component that runs

Parts == {"cloud", "devices", "topics", "events", "commands"}

P(token, source, channel, area) ==
  [token |-> token, source |-> source, channel |-> channel, area |-> area]

\* Channels of one or two profiles, and a device that names no channels.
MCDvDevices == {<<P("a", "s1", "", 1), P("b", "s1", "", 2), P("c", "s2", "", 2)>>,
                <<P("c", "s2", "", 2)>>,
                <<P("d", "", "", 1), P("e", "", "", 1)>>,
                <<P("e", "", "", 1)>>}

\* Syncs, device handlers and kiosks are the same model values.
Symmetry == Permutations(Syncs)

\* Of a component that does not run one initial state is enough.
CamerasInit ==
  /\ part \in Parts
  /\ CloudInit
  /\ \/ part = "cloud"
     \/ /\ cvendor = "tuya"
        /\ cremote = [c \in Cams |-> IF c = 1 THEN DefaultName ELSE NoCam]
  /\ DevicesInit
  /\ \/ part = "devices"
     \/ /\ Len(dvReal) = 1
        /\ dvCred = 0
        /\ dvStreams = {}
  /\ TopicsInit
  /\ part = "topics" \/ etReal = {}
  /\ EventsInit
  /\ OnvifInit
  /\ \/ part = "commands"
     \/ /\ ocBy = "server"
        /\ ocReq = [action |-> "unknown", token |-> TRUE, complete |-> TRUE]
        /\ ocCam.accepts = {}
        /\ ocCam.services = {}
        /\ ocCam.username

CamerasNext ==
  /\ UNCHANGED part
  /\ \/ /\ part = "cloud" /\ CloudNext
        /\ UNCHANGED <<dvVars, etVars, oeVars, ocVars>>
     \/ /\ part = "devices" /\ DevicesNext
        /\ UNCHANGED <<cloudVars, etVars, oeVars, ocVars>>
     \/ /\ part = "topics" /\ TopicsNext
        /\ UNCHANGED <<cloudVars, dvVars, oeVars, ocVars>>
     \/ /\ part = "events" /\ EventsNext
        /\ UNCHANGED <<cloudVars, dvVars, etVars, ocVars>>
     \/ /\ part = "commands" /\ OnvifNext
        /\ UNCHANGED <<cloudVars, dvVars, etVars, oeVars>>

CamerasSpec ==
  CamerasInit /\ [][CamerasNext]_<<part, cloudVars, dvVars, etVars, oeVars, ocVars>>
=============================================================================
