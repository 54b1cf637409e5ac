---------------------------- MODULE OnvifEvents -----------------------------
(***************************************************************************)
(* The events of one ONVIF camera: the token in the address it pushes to,  *)
(* which kiosk is told to subscribe, and the subscription as the kiosks    *)
(* report it.                                                              *)
(***************************************************************************)
EXTENDS Naturals, FiniteSets

CONSTANTS OeKiosks,     \* kiosks with the camera in their bundle
          MaxNonces     \* bound on callback nonces

ASSUME EventsAssumption == MaxNonces \in Nat

VARIABLES oeSub,       \* row of topic 'onvif': [status, owner]
          oeReport,    \* kiosk -> what it last reported of the camera
          oeStale,     \* kiosks not seen for a day
          oeSource,    \* cameras.event_source
          oeNonce,     \* cameras.event_callback_nonce, 0: none; the hash goes with it
          oeNonces,    \* nonces made so far
          oeGen,       \* kiosk -> its bundle under way: [pc, nonce]
          oeToken,     \* kiosk -> nonce of the token in its bundle, 0: no bundle
          oeTold,      \* kiosks whose bundle tells them to subscribe
          oeDue,       \* kiosks told to reload that have not yet
          oeRaced      \* history: a first token was made twice

oeVars == <<oeSub, oeReport, oeStale, oeSource, oeNonce, oeNonces, oeGen, oeToken, oeTold, oeDue, oeRaced>>
oeSubVars == <<oeSub, oeReport, oeStale>>
oeTokenVars == <<oeNonce, oeNonces, oeGen, oeToken, oeTold, oeDue, oeRaced>>

NoGen == [pc |-> "idle", nonce |-> 0]

-----------------------------------------------------------------------------
(* The subscription. *)

Status(state) ==
  CASE state = "active" -> "active" [] state = "failed" -> "failed"
    [] state = "subscribing" -> "pending" [] OTHER -> "inactive"

\* Mutant: on conflict only the status is written.
syncStatusOnly(k, state) ==
  /\ oeToken[k] # 0 /\ oeReport[k] # state
  /\ oeReport' = [oeReport EXCEPT ![k] = state] /\ oeStale' = oeStale \ {k}
  /\ oeSub' = [status |-> Status(state), owner |-> IF oeSub.owner = "none" THEN k ELSE oeSub.owner]
  /\ UNCHANGED oeSource /\ UNCHANGED oeTokenVars

\* Heartbeat of a kiosk: the row is its whatever it held before.
syncKioskSubscriptions(k, state) ==
  /\ oeToken[k] # 0 /\ oeReport[k] # state
  /\ oeReport' = [oeReport EXCEPT ![k] = state] /\ oeStale' = oeStale \ {k}
  /\ oeSub' = [status |-> Status(state), owner |-> k]
  /\ UNCHANGED oeSource /\ UNCHANGED oeTokenVars

KioskUnseen(k) ==
  /\ k \notin oeStale /\ oeStale' = oeStale \cup {k}
  /\ UNCHANGED <<oeSub, oeReport, oeSource>> /\ UNCHANGED oeTokenVars

releaseStaleEventOwnership ==
  IF oeSub.owner \in oeStale /\ oeSub.status \in {"active", "pending"}
  THEN [oeSub EXCEPT !.status = "inactive"] ELSE oeSub

\* Camera edit: which kiosk, or the server, subscribes.
SetSource(source) ==
  /\ source # oeSource /\ oeSource' = source
  /\ oeDue' = OeKiosks
  /\ UNCHANGED <<oeNonce, oeNonces, oeGen, oeToken, oeTold, oeRaced>>
  /\ UNCHANGED oeSubVars

-----------------------------------------------------------------------------
(* Bundles and the callback token. *)

setCameraEventCallbackToken == oeNonces' = oeNonces + 1 /\ oeNonce' = oeNonces'

setAllEventSubscriptionsStatus(from, to) ==
  oeSub' = IF oeSub.status = from THEN [oeSub EXCEPT !.status = to] ELSE oeSub

\* POST /admin/cameras/:id/subscribe-events: a new token, inactive becomes pending.
SubscribeEvents ==
  /\ oeNonces < MaxNonces /\ setCameraEventCallbackToken
  /\ setAllEventSubscriptionsStatus("inactive", "pending")
  /\ oeDue' = OeKiosks
  /\ UNCHANGED <<oeReport, oeStale, oeSource, oeGen, oeToken, oeTold, oeRaced>>

\* generateBundle reads the camera, then releases what is stale.
BundleBegin(k) ==
  /\ oeGen[k].pc = "idle" /\ (oeToken[k] = 0 \/ k \in oeDue)
  /\ oeGen' = [oeGen EXCEPT ![k] = [pc |-> "token", nonce |-> oeNonce]]
  /\ oeDue' = oeDue \ {k} /\ oeStale' = oeStale \ {k}
  /\ oeSub' = releaseStaleEventOwnership
  /\ UNCHANGED <<oeReport, oeSource, oeNonce, oeNonces, oeToken, oeTold, oeRaced>>

\* createOnvifCallbackToken: a nonce is made, and written, if none was read.
BundleToken(k) ==
  /\ oeGen[k].pc = "token"
  /\ IF oeGen[k].nonce # 0
     THEN /\ oeGen' = [oeGen EXCEPT ![k].pc = "send"]
          /\ UNCHANGED <<oeNonce, oeNonces, oeRaced>>
     ELSE /\ setCameraEventCallbackToken
          /\ oeGen' = [oeGen EXCEPT ![k] = [pc |-> "send", nonce |-> oeNonces']]
          /\ oeRaced' = (oeRaced \/ oeNonce # 0)
  /\ UNCHANGED <<oeToken, oeTold, oeDue, oeSource>> /\ UNCHANGED oeSubVars

\* An "auto" camera is every kiosk's own in its bundle.
BundleSent(k) ==
  /\ oeGen[k].pc = "send"
  /\ oeToken' = [oeToken EXCEPT ![k] = oeGen[k].nonce]
  /\ oeTold' = IF oeSource \in {"auto", k} THEN oeTold \cup {k} ELSE oeTold \ {k}
  /\ oeGen' = [oeGen EXCEPT ![k] = NoGen]
  /\ UNCHANGED <<oeNonce, oeNonces, oeDue, oeRaced, oeSource>> /\ UNCHANGED oeSubVars

-----------------------------------------------------------------------------
EventsInit ==
  /\ oeSub = [status |-> "none", owner |-> "none"]
  /\ oeReport = [k \in OeKiosks |-> "none"] /\ oeStale = {} /\ oeSource = "auto"
  /\ oeNonce = 0 /\ oeNonces = 0 /\ oeGen = [k \in OeKiosks |-> NoGen]
  /\ oeToken = [k \in OeKiosks |-> 0] /\ oeTold = {} /\ oeDue = {} /\ oeRaced = FALSE

EventsNext ==
  \/ \E k \in OeKiosks : \/ KioskUnseen(k) \/ BundleBegin(k) \/ BundleToken(k) \/ BundleSent(k)
                         \/ \E state \in {"active", "subscribing"} : syncKioskSubscriptions(k, state)
  \/ \E source \in OeKiosks \cup {"auto", "server"} : SetSource(source)
  \/ SubscribeEvents

EventsSpec == EventsInit /\ [][EventsNext]_oeVars

-----------------------------------------------------------------------------
(* Properties. *)

\* Once the reloads asked for are done, the token in every kiosk's bundle is
\* the one /oce accepts, rotations while bundles are made included.  Two
\* first bundles made at once are the exception: the later nonce wins.
TokenAccepted ==
  (oeDue = {} /\ ~oeRaced /\ \A k \in OeKiosks : oeGen[k].pc = "idle")
    => \A k \in OeKiosks : oeToken[k] \in {0, oeNonce}

\* Actions on the camera go to the kiosk that says it is subscribed: an active
\* row's owner was the last to report, reported just that, and has not been
\* given up since.
OwnerSaidSo ==
  oeSub.status = "active" => oeReport[oeSub.owner] = "active"

\* Subscriptions as a whole: the claims above.
EventsSafe == TokenAccepted /\ OwnerSaidSo
=============================================================================
