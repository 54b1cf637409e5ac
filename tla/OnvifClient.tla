---------------------------- MODULE OnvifClient -----------------------------
(***************************************************************************)
(* An ONVIF action on a camera, from the admin API's request to its        *)
(* answer: run by the server itself, or by the kiosk that owns the         *)
(* camera.  An action is up to three SOAP calls (capabilities, profiles,   *)
(* the action), and a SOAP call tries one way of authenticating after the  *)
(* other.  Requests and answers are lost, cameras refuse.                  *)
(***************************************************************************)
EXTENDS Naturals, FiniteSets, Sequences

CONSTANTS OnvifServices,     \* services a camera may advertise besides media
          MaxOnvifProfiles

ASSUME OnvifAssumption ==
  /\ OnvifServices \subseteq {"ptz", "deviceio", "imaging"}
  /\ MaxOnvifProfiles \in Nat

VARIABLES ocCam,       \* the camera (external)
          ocReq,       \* request: action, profile token given, parameters complete
          ocBy,        \* "server" or "kiosk"
          ocStage,     \* SOAP call under way: "capabilities", "profiles", "action" or "end"
          ocTries,     \* ways of authenticating not tried yet, the one in use first
          ocWire,      \* "idle", "sent", "answered" or "refused"
          ocHeard,     \* what the refusals of this call said
          ocServices,  \* services found
          ocReply,     \* what the API answered, "none" before
          ocRuns,      \* times the camera has carried out the command
          ocFaulty     \* history: something was lost, or refused in spite of its credentials

ocVars == <<ocCam, ocReq, ocBy, ocStage, ocTries, ocWire, ocHeard, ocServices,
            ocReply, ocRuns, ocFaulty>>

PtzCommands == {"ptz.relative_move"}
PtzActions == PtzCommands \cup {"ptz.get_nodes", "ptz.get_configuration_options"}
MediaActions == {"media.get_stream_uri"}
RelayCommands == {"deviceio.set_relay_output_state"}
ImagingActions == {"imaging.get_settings"}
OnvifCommands == PtzCommands \cup RelayCommands
OnvifActions == PtzActions \cup MediaActions \cup RelayCommands \cup ImagingActions
                \cup {"media.get_profiles", "unknown"}

needsProfiles(action) ==
  action \in (PtzActions \ {"ptz.get_nodes"}) \cup MediaActions \cup {"media.get_profiles"}

AuthMethods == {"wsse-digest", "wsse-text", "basic", "plain", "digest"}

\* The server's attempts in order; "digest" answers a challenge met on the way.
buildAuthEnvelopes(username) ==
  IF username THEN <<"wsse-digest", "wsse-text", "basic", "plain", "digest">> ELSE <<"plain">>

KioskEnvelopes(username) ==
  IF username THEN <<"wsse-digest", "basic", "digest">> ELSE <<"plain">>

Tries == IF ocBy = "server" THEN buildAuthEnvelopes(ocCam.username) ELSE KioskEnvelopes(ocCam.username)

\* A refusal that is a fault hides what the others said.
classifySoapError(heard) ==
  CASE "fault" \in heard -> "soap_fault"
    [] "fault" \notin heard /\ "unauthorized" \in heard -> "auth_failed"
    [] OTHER -> "camera_unreachable"

Codes400 == {"invalid_params", "unsupported_action", "unsupported_capability"}

\* The first answer stands: the coordinator drops one that comes after its timeout.
AnswerRequest(code) ==
  ocReply' = IF ocReply = "none" THEN code ELSE ocReply

EndWith(code) ==
  /\ AnswerRequest(code) /\ ocStage' = "end"
  /\ ocTries' = <<>> /\ ocWire' = "idle" /\ ocHeard' = {}

Call(stage) ==
  /\ ocStage' = stage /\ ocTries' = Tries /\ ocWire' = "idle" /\ ocHeard' = {}
  /\ UNCHANGED ocReply

requireProfileToken(profiles) == ocReq.token \/ profiles = 1

\* The kiosk takes the profiles from its bundle if that has any.
FromBundle == ocBy = "kiosk" /\ ocCam.bundled /\ ocCam.profiles > 0 /\ ocReq.action # "media.get_profiles"

\* Early returns of performAction between its SOAP calls.
requestError(services, profiles) ==
  LET a == ocReq.action
      service == CASE a \in PtzActions -> "ptz" [] a \in RelayCommands -> "deviceio"
                   [] a \in ImagingActions -> "imaging" [] OTHER -> "media" IN
  CASE a = "unknown" -> "unsupported_action"
    [] a # "unknown" /\ service # "media" /\ service \notin services -> "unsupported_capability"
    [] OTHER ->
       IF needsProfiles(a) /\ ~requireProfileToken(profiles) THEN "invalid_params"
       ELSE IF a = "ptz.get_configuration_options" /\ (FromBundle \/ ~ocCam.ptzConfigured) THEN "unsupported_capability"
       ELSE IF ~ocReq.complete THEN "invalid_params" ELSE "none"

\* performAction once services and profiles are known.
performAction(services, profiles) ==
  LET error == requestError(services, profiles) IN
  IF ocReq.action = "media.get_profiles" THEN EndWith("ok")
  ELSE IF error # "none" THEN EndWith(error) ELSE Call("action")

WellKnown == {"ptz", "imaging"}

\* Without capabilities the server knows only the media service, the kiosk
\* goes by the usual paths.
discoverServices(code) ==
  LET services == IF code = "ok" THEN ocCam.services ELSE IF ocBy = "server" THEN {} ELSE WellKnown IN
  /\ ocServices' = services
  /\ IF needsProfiles(ocReq.action) /\ ~FromBundle THEN Call("profiles")
     ELSE performAction(services, IF FromBundle THEN ocCam.profiles ELSE 0)

\* The server does not classify the failure of this call.
getProfileSummaries(code) ==
  /\ IF code = "ok" THEN performAction(ocServices, ocCam.profiles)
     ELSE EndWith(IF ocBy = "server" THEN "camera_unreachable" ELSE code)
  /\ UNCHANGED ocServices

execActionSoap(code) == EndWith(code) /\ UNCHANGED ocServices

SoapEnds(code) ==
  \/ ocStage = "capabilities" /\ discoverServices(code)
  \/ ocStage = "profiles" /\ getProfileSummaries(code)
  \/ ocStage = "action" /\ execActionSoap(code)

-----------------------------------------------------------------------------
SendAttempt ==
  /\ ocStage # "end" /\ ocWire = "idle" /\ ocTries # <<>>
  /\ Head(ocTries) = "digest" => "challenge" \in ocHeard
  /\ ocWire' = "sent"
  /\ UNCHANGED <<ocCam, ocReq, ocBy, ocStage, ocTries, ocHeard, ocServices, ocReply, ocRuns, ocFaulty>>

\* Every way was tried.
AllFailed ==
  /\ ocStage # "end" /\ ocWire = "idle"
  /\ ocTries # <<>> => (Head(ocTries) = "digest" /\ "challenge" \notin ocHeard)
  /\ SoapEnds(classifySoapError(ocHeard))
  /\ UNCHANGED <<ocCam, ocReq, ocBy, ocRuns, ocFaulty>>

CameraServes ==
  /\ ocWire = "sent" /\ Head(ocTries) \in ocCam.accepts
  /\ ocWire' = "answered"
  /\ ocRuns' = IF ocStage = "action" /\ ocReq.action \in OnvifCommands THEN ocRuns + 1 ELSE ocRuns
  /\ UNCHANGED <<ocCam, ocReq, ocBy, ocStage, ocTries, ocHeard, ocServices, ocReply, ocFaulty>>

\* The kiosk reports its last error, the server all of them.
Remember(word) ==
  {word} \cup (IF ocBy = "server" THEN ocHeard ELSE ocHeard \cap {"challenge"})

CameraRefuses(word) ==
  /\ ocWire = "sent" /\ ocWire' = "refused"
  /\ ocHeard' = Remember(word) \cup (IF "digest" \in ocCam.accepts THEN {"challenge"} ELSE {})
  /\ ocFaulty' = (ocFaulty \/ Head(ocTries) \in ocCam.accepts)
  /\ UNCHANGED <<ocCam, ocReq, ocBy, ocStage, ocTries, ocServices, ocReply, ocRuns>>

\* A 2xx answer without a fault ends the call.
AnswerArrives ==
  /\ ocWire = "answered" /\ SoapEnds("ok")
  /\ UNCHANGED <<ocCam, ocReq, ocBy, ocRuns, ocFaulty>>

RefusalArrives ==
  /\ ocWire = "refused" /\ ocWire' = "idle" /\ ocTries' = Tail(ocTries)
  /\ UNCHANGED <<ocCam, ocReq, ocBy, ocStage, ocHeard, ocServices, ocReply, ocRuns, ocFaulty>>

\* Mutant: a lost attempt is followed by the next.
AttemptLostRetried ==
  /\ ocBy = "server" /\ ocWire # "idle" /\ ocFaulty' = TRUE
  /\ ocWire' = "idle" /\ ocTries' = Tail(ocTries)
  /\ UNCHANGED <<ocCam, ocReq, ocBy, ocStage, ocHeard, ocServices, ocReply, ocRuns>>

\* soap: an abort or a network error ends the call, whatever was left to try.
AttemptLost ==
  /\ ocBy = "server" /\ ocWire # "idle" /\ ocFaulty' = TRUE
  /\ \E code \in {"timeout", "camera_unreachable"} : SoapEnds(code)
  /\ UNCHANGED <<ocCam, ocReq, ocBy, ocRuns>>

\* soap_post_with_fallback: the kiosk goes on to the next way.
KioskAttemptLost ==
  /\ ocBy = "kiosk" /\ ocWire # "idle" /\ ocFaulty' = TRUE
  /\ ocWire' = "idle" /\ ocTries' = Tail(ocTries) /\ ocHeard' = Remember("http")
  /\ UNCHANGED <<ocCam, ocReq, ocBy, ocStage, ocServices, ocReply, ocRuns>>

\* requestKiosk gives up; the kiosk does not.
RequestTimesOut ==
  /\ ocBy = "kiosk" /\ ocStage # "end" /\ ocReply = "none"
  /\ ocReply' = "executor_unavailable" /\ ocFaulty' = TRUE
  /\ UNCHANGED <<ocCam, ocReq, ocBy, ocStage, ocTries, ocWire, ocHeard, ocServices, ocRuns>>

\* Kiosk offline, or its bundle has no such camera.
KioskRefuses ==
  /\ ocBy = "kiosk" /\ ocStage = "capabilities" /\ ocWire = "idle" /\ ocTries = Tries
  /\ EndWith("executor_unavailable") /\ ocFaulty' = TRUE
  /\ UNCHANGED <<ocCam, ocReq, ocBy, ocServices, ocRuns>>

-----------------------------------------------------------------------------
OnvifInit ==
  /\ ocCam \in [accepts : {{}, AuthMethods} \cup {{x} : x \in AuthMethods}, username : BOOLEAN,
                services : SUBSET OnvifServices, profiles : 0..MaxOnvifProfiles, bundled : BOOLEAN,
                ptzConfigured : BOOLEAN]
  /\ ocReq \in [action : OnvifActions, token : BOOLEAN, complete : BOOLEAN]
  /\ ocBy \in {"server", "kiosk"}
  \* What the request does not depend on has one value.
  /\ ocBy = "server" => ~ocCam.bundled
  /\ ~needsProfiles(ocReq.action) => ocReq.token /\ ocCam.profiles = 0 /\ ~ocCam.bundled
  /\ ocReq.action # "ptz.get_configuration_options" => ocCam.ptzConfigured
  /\ ocStage = "capabilities" /\ ocTries = Tries /\ ocWire = "idle" /\ ocHeard = {}
  /\ ocServices = {} /\ ocReply = "none" /\ ocRuns = 0 /\ ocFaulty = FALSE

OnvifNext ==
  \/ SendAttempt \/ AllFailed \/ CameraServes \/ AnswerArrives \/ RefusalArrives
  \/ \E word \in {"fault", "unauthorized"} : CameraRefuses(word)
  \/ AttemptLost \/ KioskAttemptLost \/ RequestTimesOut \/ KioskRefuses

OnvifSpec == OnvifInit /\ [][OnvifNext]_ocVars

-----------------------------------------------------------------------------
(* Properties. *)

\* soap goes on to the next way of authenticating only after a refusal, never
\* after an attempt that was lost: one request of the server moves a camera
\* or switches a relay at most once.
CommandRunsOnce == ocBy = "server" => ocRuns <= 1

\* What the API answers is true of the camera: "ok" only when the command was
\* carried out, and an answer that blames the request (HTTP 400) only when
\* the camera did nothing, now or later.
ReplyIsTrue ==
  /\ (ocReply = "ok" /\ ocReq.action \in OnvifCommands) => ocRuns >= 1
  /\ ocReply \in Codes400 => (ocRuns = 0 /\ ocStage = "end")

\* With nothing lost, a camera that accepts any way of authenticating the
\* server has gets the action or a 400 that is right about the camera.
OneWayIsEnough ==
  (ocBy = "server" /\ ~ocFaulty /\ ocStage = "end"
     /\ ocCam.accepts # {} /\ (ocCam.username \/ "plain" \in ocCam.accepts))
  => (ocReply \in {"ok"} \cup Codes400
      /\ (ocReply = "ok" \/ ocReply = requestError(ocCam.services, ocCam.profiles)))

\* The client as a whole: the claims above.
OnvifSafe == CommandRunsOnce /\ ReplyIsTrue /\ OneWayIsEnough
=============================================================================
