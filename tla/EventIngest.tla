---------------------------- MODULE EventIngest -----------------------------
(***************************************************************************)
(* Events reach the server from kiosks (POST /api/kiosk/event), from       *)
(* ioBOXes (POST /api/iobox/event) and from cameras that push (/oce/...).  *)
(* Each is checked against a cache of recent ones, logged, acted on and    *)
(* forwarded to Node-RED.  Handlers interleave at their awaits, reports    *)
(* are sent by a thread each, inserts fail, cameras are deleted meanwhile. *)
(***************************************************************************)
EXTENDS Naturals, FiniteSets

CONSTANTS EvDisplays, EvLayouts, EvCameras,
          Slots,          \* requests under way
          IoTopics,       \* topics of ioBOX events; NoTopic: none given
          NoTopic,
          KioskWindow, IoWindow,   \* seconds a repetition is dropped for
          MaxTime, MaxEvents      \* bounds on the clock and on the requests sent

ASSUME IngestAssumption == {KioskWindow, IoWindow, MaxTime, MaxEvents} \subseteq Nat

VARIABLES egNow,
          egShown,     \* kiosk: [EvDisplays -> layout on screen]
          egActive,    \* displays.active_layout_id
          egCams,      \* cameras that exist
          egReq,       \* [Slots -> request under way]
          egCache,     \* both dedup caches: function from keys to the time last seen
          egLog,       \* event_log: [id, key, at, cam, fwd]
          egIds,       \* rows ever inserted
          egSent,      \* requests sent
          egSeq,       \* firmware: eventSeq, in RAM
          egForward,   \* forwards to Node-RED under way: row ids
          egMark,      \* forwards answered, markEventForwarded outstanding
          egGot,       \* history: rows Node-RED has accepted
          egAcked,     \* history: [key, at] of events answered with ok
          egLogged,    \* history: [key, at] of the rows inserted
          egFailed,    \* history: [key, at] of the events whose insert failed
          egPut,       \* history: io controls run by the kiosk, by key
          egSince      \* history: rows inserted before the server's last restart

egServer == <<egSince, egCache, egLog, egIds, egForward, egMark, egGot, egAcked, egLogged,
             egFailed, egPut>>
egVars == <<egSent, egNow, egShown, egActive, egCams, egReq, egSeq, egServer>>

NoEvent == [pc |-> "none", kind |-> "none", topic |-> "none", cam |-> "none", disp |-> "none",
            lay |-> "none", seq |-> 0,
            key |-> [src |-> "none", topic |-> "none", cam |-> "none", n |-> 0],
            row |-> 0, at |-> 0, left |-> {}]

\* The dedup key: kiosk, camera, topic and payload.source (reports of layouts
\* have neither camera nor source); box and event id for an ioBOX.
dedupKey(e) ==
  [src |-> e.kind, cam |-> e.cam, topic |-> IF e.kind = "io" THEN "none" ELSE e.topic, n |-> e.seq]

-----------------------------------------------------------------------------
(* Kiosk, cameras and firmware. *)

\* post_event: one request, on a thread of its own.
post_event(s, e) ==
  /\ egReq[s].pc = "none" /\ egSent < MaxEvents
  /\ egSent' = egSent + 1
  /\ egReq' = [egReq EXCEPT ![s] = [e EXCEPT !.pc = "sent", !.key = dedupKey(e)]]

report_layout_change(s, d, l) ==
  /\ egShown[d] # l
  /\ egShown' = [egShown EXCEPT ![d] = l]
  /\ post_event(s, [NoEvent EXCEPT !.kind = "kiosk", !.topic = "layout.changed", !.disp = d, !.lay = l])
  /\ UNCHANGED <<egNow, egActive, egCams, egSeq, egServer>>

forward_event(s, c) ==
  /\ post_event(s, [NoEvent EXCEPT !.kind = "kiosk", !.topic = "motion", !.cam = c])
  /\ UNCHANGED <<egNow, egShown, egActive, egCams, egSeq, egServer>>

\* emitIoEvent, to the server; a display is assigned or not.
emitIoEvent(s, t, d) ==
  /\ egSeq' = egSeq + 1
  /\ post_event(s, [NoEvent EXCEPT !.kind = "io", !.topic = t, !.seq = egSeq + 1, !.disp = d])
  /\ UNCHANGED <<egNow, egShown, egActive, egCams, egServer>>

Reboot ==
  /\ egSeq > 0 /\ egSeq' = 0
  /\ UNCHANGED <<egSent, egNow, egShown, egActive, egCams, egReq, egServer>>

\* A camera's Notify envelope with two messages.
Notify(s, c) ==
  /\ post_event(s, [NoEvent EXCEPT !.kind = "push", !.topic = "motion", !.cam = c, !.left = {1, 2}])
  /\ UNCHANGED <<egNow, egShown, egActive, egCams, egSeq, egServer>>

LostRequest(s) ==
  /\ egReq[s].pc = "sent"
  /\ egReq' = [egReq EXCEPT ![s] = NoEvent]
  /\ UNCHANGED <<egSent, egNow, egShown, egActive, egCams, egSeq, egServer>>

-----------------------------------------------------------------------------
(* The handlers. *)

Fresh(e) == [key |-> e.key, at |-> e.at]
ReqDone(s) == egReq' = [egReq EXCEPT ![s] = NoEvent]
egOutside == <<egSent, egNow, egShown, egCams, egSeq, egSince>>

Window(e) == IF e.kind = "io" THEN IoWindow ELSE KioskWindow

Seen(e) == e.key \in DOMAIN egCache /\ egNow - egCache[e.key] < Window(e)

\* A repetition is answered with ok and dropped.
Deduplicated(s) ==
  LET e == egReq[s] IN
  /\ e.pc = "sent" /\ e.kind \in {"kiosk", "io"} /\ e.topic # NoTopic
  /\ Seen(e)
  /\ egAcked' = egAcked \cup {[key |-> e.key, at |-> egNow]}
  /\ ReqDone(s)
  /\ UNCHANGED <<egOutside, egActive, egCache, egLog, egIds, egForward, egMark, egGot, egLogged,
                 egFailed, egPut>>

\* Mutant: the cache learns of an event only when its row is in.
AdmitLate(s) ==
  LET e == egReq[s] IN
  /\ e.pc = "sent" /\ e.kind \in {"kiosk", "io"} /\ e.topic # NoTopic
  /\ ~Seen(e)
  /\ egReq' = [egReq EXCEPT ![s].pc = "insert", ![s].at = egNow]
  /\ UNCHANGED <<egOutside, egActive, egServer>>

\* Check and entry in the cache are one step: no await lies between them.
Admit(s) ==
  LET e == egReq[s] IN
  /\ e.pc = "sent" /\ e.kind \in {"kiosk", "io"} /\ e.topic # NoTopic
  /\ ~Seen(e)
  /\ egCache' = [k \in DOMAIN egCache \cup {e.key} |-> IF k = e.key THEN egNow ELSE egCache[k]]
  /\ egReq' = [egReq EXCEPT ![s].pc = "insert", ![s].at = egNow]
  /\ UNCHANGED <<egOutside, egActive, egLog, egIds, egForward, egMark, egGot, egAcked, egLogged,
                 egFailed, egPut>>

\* validateBody: an event without a topic is refused.
Rejected(s) ==
  /\ egReq[s].pc = "sent" /\ egReq[s].topic = NoTopic
  /\ ReqDone(s)
  /\ UNCHANGED <<egSent, egNow, egShown, egCams, egSeq, egActive, egSince, egCache, egLog, egIds,
                 egForward, egMark, egGot, egAcked, egLogged, egFailed, egPut>>

\* The trim of a cache that has grown drops only entries past the window.
TrimCache ==
  LET old == {k \in DOMAIN egCache : egNow - egCache[k] > (IF k.src = "io" THEN IoWindow ELSE KioskWindow)} IN
  /\ old # {}
  /\ egCache' = [k \in DOMAIN egCache \ old |-> egCache[k]]
  /\ UNCHANGED <<egOutside, egActive, egReq, egLog, egIds, egForward, egMark, egGot, egAcked,
                 egLogged, egFailed, egPut>>

insertEvent(s, cam, next) ==
  LET e == egReq[s] IN
  /\ egIds' = egIds + 1
  /\ egLog' = egLog \cup {[id |-> egIds + 1, key |-> e.key, at |-> e.at, cam |-> cam, fwd |-> FALSE]}
  /\ egLogged' = egLogged \cup {Fresh(e)}
  /\ egReq' = [egReq EXCEPT ![s] = [next EXCEPT !.row = egIds + 1]]
  /\ UNCHANGED <<egOutside, egActive, egCache, egForward, egMark, egGot, egAcked, egFailed, egPut>>

Insert(s) ==
  LET e == egReq[s] IN
  /\ e.pc = "insert" /\ e.cam \in egCams \cup {"none"}
  /\ insertEvent(s, e.cam, [e EXCEPT !.pc = "act"])

\* The camera was deleted meanwhile (23503): the event is logged without it.
InsertWithoutCamera(s) ==
  LET e == egReq[s] IN
  /\ e.pc = "insert" /\ e.kind = "kiosk" /\ e.cam \notin egCams \cup {"none"}
  /\ insertEvent(s, "none", [e EXCEPT !.pc = "act"])

\* Any other error of the database: 500, and the cache keeps the key.
InsertFails(s) ==
  LET e == egReq[s] IN
  /\ e.pc = "insert"
  /\ egFailed' = egFailed \cup {Fresh(e)}
  /\ IF e.kind = "push" THEN egReq' = [egReq EXCEPT ![s].pc = "next"] ELSE ReqDone(s)
  /\ UNCHANGED <<egOutside, egActive, egCache, egLog, egIds, egForward, egMark, egGot, egAcked,
                 egLogged, egPut>>

\* layout.changed sets the display's active layout (errors are ignored).
updateActiveLayout(s) ==
  LET e == egReq[s] IN
  /\ e.pc = "act" /\ e.topic = "layout.changed"
  /\ egActive' = [egActive EXCEPT ![e.disp] = e.lay]
  /\ egReq' = [egReq EXCEPT ![s].pc = "forward"]
  /\ UNCHANGED <<egOutside, egServer>>

\* proxyIoBoxEventToKiosk: the mappings of the assigned display, through the
\* coordinator; whether any matches, and whether the kiosk answers, is open.
proxyIoBoxEventToKiosk(s) ==
  LET e == egReq[s] IN
  /\ e.pc = "act" /\ e.kind = "io" /\ e.disp # "none"
  /\ egPut' \in {egPut, egPut \cup {Fresh(e)}}
  /\ egReq' = [egReq EXCEPT ![s].pc = "forward"]
  /\ UNCHANGED <<egOutside, egActive, egCache, egLog, egIds, egForward, egMark, egGot, egAcked,
                 egLogged, egFailed>>

NothingToDo(s) ==
  LET e == egReq[s] IN
  /\ e.pc = "act" /\ e.topic # "layout.changed" /\ (e.kind = "io" => e.disp = "none")
  /\ egReq' = [egReq EXCEPT ![s].pc = "forward"]
  /\ UNCHANGED <<egOutside, egActive, egServer>>

\* The forwards are started and not waited for; only the first marks the row.
forward(s) ==
  LET e == egReq[s] IN
  /\ e.pc = "forward"
  /\ egForward' = IF e.kind = "push" THEN egForward ELSE egForward \cup {e.row}
  /\ egAcked' = egAcked \cup {Fresh(e)}
  /\ IF e.kind = "push" THEN egReq' = [egReq EXCEPT ![s].pc = "next"] ELSE ReqDone(s)
  /\ UNCHANGED <<egOutside, egActive, egCache, egLog, egIds, egMark, egGot, egLogged, egFailed, egPut>>

-----------------------------------------------------------------------------
(* /oce/...: the messages of one envelope, one after the other. *)

PushArrive(s) ==
  LET e == egReq[s] IN
  /\ e.pc = "sent" /\ e.kind = "push"
  /\ IF e.cam \in egCams THEN egReq' = [egReq EXCEPT ![s].pc = "next"] ELSE ReqDone(s)
  /\ UNCHANGED <<egOutside, egActive, egServer>>

PushNext(s) ==
  LET e == egReq[s] IN
  /\ e.pc = "next"
  /\ IF e.left = {} THEN ReqDone(s)
     ELSE LET k == CHOOSE k \in e.left : \A j \in e.left : k <= j IN
          egReq' = [egReq EXCEPT ![s] = [e EXCEPT !.pc = "insert", !.left = @ \ {k}, !.at = egNow,
                                                  !.key.n = k]]
  /\ UNCHANGED <<egOutside, egActive, egServer>>

-----------------------------------------------------------------------------
(* Node-RED, the administrator, time. *)

NoderedAnswers(r, ok) ==
  /\ r \in egForward /\ egForward' = egForward \ {r}
  /\ egMark' = IF ok THEN egMark \cup {r} ELSE egMark
  /\ egGot' = IF ok THEN egGot \cup {r} ELSE egGot
  /\ UNCHANGED <<egOutside, egActive, egReq, egCache, egLog, egIds, egAcked, egLogged, egFailed, egPut>>

markEventForwarded(r) ==
  /\ r \in egMark /\ egMark' = egMark \ {r}
  /\ egLog' = {IF e.id = r THEN [e EXCEPT !.fwd = TRUE] ELSE e : e \in egLog}
  /\ UNCHANGED <<egOutside, egActive, egReq, egCache, egIds, egForward, egGot, egAcked, egLogged,
                 egFailed, egPut>>

DeleteCamera(c) ==
  /\ c \in egCams /\ egCams' = egCams \ {c}
  /\ egLog' = {IF e.cam = c THEN [e EXCEPT !.cam = "none"] ELSE e : e \in egLog}
  /\ UNCHANGED <<egSent, egSince, egNow, egShown, egActive, egReq, egSeq, egCache, egIds, egForward, egMark,
                 egGot, egAcked, egLogged, egFailed, egPut>>

\* Rows past the retention go.
purgeEventLog ==
  /\ \E e \in egLog : e.at < egNow
  /\ egLog' = {e \in egLog : e.at >= egNow}
  /\ UNCHANGED <<egOutside, egActive, egReq, egCache, egIds, egForward, egMark, egGot, egAcked,
                 egLogged, egFailed, egPut>>

\* A restart of the server loses the caches and the requests under way.
ServerRestart ==
  /\ egCache # <<>> /\ egCache' = <<>>
  /\ egReq' = [s \in Slots |-> NoEvent] /\ egForward' = {} /\ egMark' = {}
  /\ egSince' = egIds
  /\ egFailed' = egFailed \cup {Fresh(egReq[s]) : s \in {q \in Slots : egReq[q].pc = "insert"}}
  /\ UNCHANGED <<egSent, egNow, egShown, egActive, egCams, egSeq, egLog, egIds, egGot, egAcked, egLogged,
                 egPut>>

EvTick ==
  /\ egNow < MaxTime /\ egNow' = egNow + 1
  /\ UNCHANGED <<egSent, egShown, egActive, egCams, egReq, egSeq, egServer>>

-----------------------------------------------------------------------------
IngestInit ==
  /\ egNow = 0 /\ egIds = 0 /\ egSeq = 0 /\ egSince = 0 /\ egSent = 0
  /\ egShown \in [EvDisplays -> EvLayouts] /\ egActive = egShown
  /\ egCams = EvCameras
  /\ egReq = [s \in Slots |-> NoEvent]
  /\ egCache = <<>>
  /\ egLog = {} /\ egForward = {} /\ egMark = {} /\ egGot = {}
  /\ egAcked = {} /\ egLogged = {} /\ egFailed = {} /\ egPut = {}

IngestHandler(s) ==
  \/ Deduplicated(s) \/ Admit(s) \/ Rejected(s) \/ Insert(s) \/ InsertWithoutCamera(s)
  \/ InsertFails(s) \/ updateActiveLayout(s) \/ proxyIoBoxEventToKiosk(s) \/ NothingToDo(s)
  \/ forward(s) \/ PushArrive(s) \/ PushNext(s)

IngestNext ==
  \/ \E s \in Slots :
       \/ \E d \in EvDisplays, l \in EvLayouts : report_layout_change(s, d, l)
       \/ \E c \in EvCameras : forward_event(s, c) \/ Notify(s, c)
       \/ \E t \in IoTopics, d \in EvDisplays \cup {"none"} : emitIoEvent(s, t, d)
       \/ LostRequest(s) \/ IngestHandler(s)
  \/ Reboot \/ TrimCache \/ purgeEventLog \/ ServerRestart \/ EvTick
  \/ \E r \in 1..egIds : markEventForwarded(r) \/ \E ok \in BOOLEAN : NoderedAnswers(r, ok)
  \/ \E c \in EvCameras : DeleteCamera(c)

IngestSpec == IngestInit /\ [][IngestNext]_egVars

-----------------------------------------------------------------------------
(* Properties. *)

\* However requests overlap, an event of one kiosk, camera and topic, or one
\* ioBOX event id, is logged once per window while the server runs.
OneRowPerWindow ==
  \A e, f \in egLog :
    (e.id # f.id /\ e.at <= f.at /\ e.key = f.key /\ e.key.src # "push" /\ {e.id, f.id} \cap (1..egSince) = {})
      => f.at - e.at >= (IF e.key.src = "io" THEN IoWindow ELSE KioskWindow)

\* What the events taken in have come to: a row, a failed insert, or an insert
\* that is still outstanding.
Recorded == egLogged \cup egFailed
              \cup {Fresh(egReq[s]) : s \in {q \in Slots : egReq[q].pc = "insert"}}

\* An event that is answered with ok has been logged, or one with its key has
\* in the window, unless the insert of that one failed or is outstanding:
\* events are not lost to deleted cameras, to the other messages of an
\* envelope or to the trim.
AcknowledgedIsLogged ==
  \A a \in egAcked :
    \E e \in Recorded :
      /\ e.key = a.key /\ e.at <= a.at
      /\ a.at - e.at <= (IF a.key.src = "io" THEN IoWindow ELSE KioskWindow)

\* A row marked as forwarded was accepted by Node-RED.
MarkedMeansDelivered == \A e \in egLog : e.fwd => e.id \in egGot

\* A control a kiosk ran for an ioBOX is in the log: an administrator can see
\* what switched a display.
ControlIsLogged == egPut \subseteq egLogged

\* Ingestion as a whole: the claims above.
IngestSafe ==
  /\ OneRowPerWindow
  /\ AcknowledgedIsLogged
  /\ MarkedMeansDelivered
  /\ ControlIsLogged
=============================================================================
