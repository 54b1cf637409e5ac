--------------------------- MODULE CameraDevices ----------------------------
(***************************************************************************)
(* A physical ONVIF device (camera, NVR) and the rows made of it: what     *)
(* discovery makes of the device's media profiles, and how a sync, or the  *)
(* cameras an administrator picks from a discovery, are imported while     *)
(* the device, its credentials and its cameras change.                     *)
(***************************************************************************)
EXTENDS Naturals, FiniteSets, Sequences

CONSTANTS DvDevices,    \* what the device may look like: sequences of profiles
          DvHandlers,   \* requests that may be under way at once
          MaxDvRows,    \* bound on camera rows
          MaxDvRuns,    \* bound on imports
          MaxDvEdits    \* bound on changes by the administrator or at the device

Profile == [token : STRING, source : STRING, channel : STRING, area : Nat]

ASSUME DevicesAssumption ==
  /\ {MaxDvRows, MaxDvRuns, MaxDvEdits} \subseteq Nat
  /\ \A d \in DvDevices : d \in Seq(Profile)

VARIABLES dvReal,      \* the device's profiles now (external)
          dvPast,      \* what it looked like so far
          dvCred,      \* camera_devices row: its credentials, 0: no row
          dvRows,      \* cameras of the device: id -> [chan, cred, enabled]
          dvStreams,   \* camera_streams: [cam, token, role, run]
          dvH,         \* requests
          dvNext,      \* next row id; ids are never used again
          dvRuns, dvEdits,
          dvSettled    \* history: nothing happened since a sync that ran alone

dvVars == <<dvReal, dvPast, dvCred, dvRows, dvStreams, dvH, dvNext, dvRuns, dvEdits, dvSettled>>

\* A camera as found: its first profile, its channel and its streams.
NoChannel == <<"none", {}>>
NoCamera == [first |-> 0, chan |-> NoChannel, streams |-> {}]

DvIdle == [pc |-> "idle", kind |-> "none", run |-> 0, cred |-> 0, todo |-> {}, cur |-> NoCamera, cam |-> 0,
           left |-> {}, seen |-> {}, whole |-> FALSE, alone |-> FALSE]

-----------------------------------------------------------------------------
(* Discovery. *)

\* Source token, else a number in the stream URI or name, else one group.
profileGroupKey(p) ==
  IF p.source # "" THEN <<"source", p.source>>
  ELSE IF p.channel # "" THEN <<"channel", p.channel>> ELSE <<"source", "default">>

\* A device has a profile token once, and for good for one channel; channels
\* are told apart by their names alone.
ProfilesAssumption ==
  \A d, e \in DvDevices : \A i \in DOMAIN d, j \in DOMAIN e :
    /\ \/ d[i].token = e[j].token
       \/ profileGroupKey(d[i])[2] = profileGroupKey(e[j])[2]
       => profileGroupKey(d[i]) = profileGroupKey(e[j])
    /\ d = e /\ d[i].token = e[j].token => i = j

ASSUME ProfilesAssumption

\* What the sort by area, which is stable, puts before profile i of a group.
Ahead(profiles, group, i) ==
  {j \in group : \/ profiles[j].area > profiles[i].area
                 \/ profiles[j].area = profiles[i].area /\ j < i}

\* The largest of a group is its main stream, the next one its sub stream.
Role(place) == IF place = 0 THEN "main" ELSE IF place = 1 THEN "sub" ELSE "other"
roleProfiles(profiles, group) ==
  {[n |-> i, token |-> profiles[i].token, role |-> Role(Cardinality(Ahead(profiles, group, i)))] : i \in group}

\* importDiscoveredCamera's device_channel_id: the source token, else the number,
\* and for a device with neither the tokens of all profiles, sorted and joined.
channelId(profiles, group) ==
  LET sources == {profiles[i].source : i \in group} \ {""}
      ids == IF sources # {} THEN sources ELSE {profiles[i].channel : i \in group} \ {""} IN
  IF ids # {} THEN <<"id", ids>> ELSE <<"tokens", {profiles[i].token : i \in group}>>

\* The cameras of the profiles asked for, each with the place of its first one.
groupProfiles(profiles, asked) ==
  LET group(i) == {j \in asked : profileGroupKey(profiles[j]) = profileGroupKey(profiles[i])}
      firsts == {i \in asked : \A j \in group(i) : i <= j} IN
  {[first |-> i, chan |-> channelId(profiles, group(i)), streams |-> roleProfiles(profiles, group(i))] : i \in firsts}

\* Profiles without a stream URI are skipped: GetStreamUri failed for `skipped`.
discover(profiles, skipped) ==
  groupProfiles(profiles, {i \in DOMAIN profiles : profiles[i].token \notin skipped})

Tokens(profiles) == {profiles[i].token : i \in DOMAIN profiles}

-----------------------------------------------------------------------------
(* Rows. *)

With(f, i, v) == [x \in DOMAIN f \cup {i} |-> IF x = i THEN v ELSE f[x]]

\* Any step of another request or of an administrator ends being alone.
DisturbSyncs(h, st) == dvH' = [g \in DvHandlers |-> IF g = h THEN st ELSE [dvH[g] EXCEPT !.alone = FALSE]]
DisturbAll == dvH' = [g \in DvHandlers |-> [dvH[g] EXCEPT !.alone = FALSE]]

ImportStops(h) ==
  /\ dvH[h].pc # "idle" /\ DisturbSyncs(h, DvIdle) /\ dvSettled' = FALSE
  /\ UNCHANGED <<dvReal, dvPast, dvCred, dvRows, dvStreams, dvRuns, dvEdits, dvNext>>

\* POST /admin/camera-devices/:id/sync reads the device row and asks the device.
SyncBegin(h, skipped) ==
  /\ dvH[h].pc = "idle" /\ dvCred # 0 /\ dvRuns < MaxDvRuns
  /\ dvRuns' = dvRuns + 1 /\ dvSettled' = FALSE
  /\ DisturbSyncs(h, [DvIdle EXCEPT !.pc = "find", !.kind = "sync", !.run = dvRuns', !.cred = dvCred,
                               !.todo = discover(dvReal, skipped), !.whole = skipped = {},
                               !.alone = \A g \in DvHandlers \ {h} : dvH[g].pc = "idle"])
  /\ UNCHANGED <<dvReal, dvPast, dvCred, dvRows, dvStreams, dvEdits, dvNext>>

\* updateCameraDevice, one transaction: the cameras follow.
updateCameraDevice(cred) ==
  /\ dvCred' = cred
  /\ dvRows' = [i \in DOMAIN dvRows |-> [dvRows[i] EXCEPT !.cred = cred]]

\* POST /admin/cameras/discover/add: device by endpoint, then the cameras
\* picked from a discovery that may be old.
DiscoverAdd(h, profiles, cred) ==
  /\ dvH[h].pc = "idle" /\ dvRuns < MaxDvRuns
  /\ dvRuns' = dvRuns + 1 /\ dvSettled' = FALSE
  /\ updateCameraDevice(cred)
  /\ DisturbSyncs(h, [DvIdle EXCEPT !.pc = "find", !.kind = "add", !.run = dvRuns', !.cred = cred,
                               !.todo = discover(profiles, {})])
  /\ UNCHANGED <<dvReal, dvPast, dvStreams, dvEdits, dvNext>>

ByChannel(chan) == {i \in DOMAIN dvRows : dvRows[i].chan = chan}
ByToken(tokens) == {i \in DOMAIN dvRows : \E s \in dvStreams : s.cam = i /\ s.token \in tokens}

\* Mutant: a channel without a row takes any row of the device.
MatchAny(camera) ==
  IF ByChannel(camera.chan) # {} THEN ByChannel(camera.chan) ELSE DOMAIN dvRows

\* importDiscoveredCamera: the row of the channel, else one that shares a profile.
MatchRow(camera) ==
  IF ByChannel(camera.chan) # {} THEN ByChannel(camera.chan)
  ELSE ByToken({s.token : s \in camera.streams})

\* The cameras are imported one by one, in the order they were found.
FindRow(h) ==
  LET st == dvH[h] IN
  /\ st.pc = "find"
  /\ \E camera \in st.todo :
       LET found == [st EXCEPT !.todo = @ \ {camera}, !.cur = camera] IN
       /\ \A c \in st.todo : camera.first <= c.first
       /\ \/ \E i \in MatchRow(camera) : DisturbSyncs(h, [found EXCEPT !.pc = "update", !.cam = i])
          \/ MatchRow(camera) = {} /\ DisturbSyncs(h, [found EXCEPT !.pc = "create"])
  /\ dvSettled' = FALSE
  /\ UNCHANGED <<dvReal, dvPast, dvCred, dvRows, dvStreams, dvRuns, dvEdits, dvNext>>

\* A unique index on (device, channel): the second of two inserts fails.
UpdateRow(h) ==
  LET st == dvH[h] IN
  /\ st.pc = "update" /\ ByChannel(st.cur.chan) \subseteq {st.cam}
  /\ dvRows' = [i \in DOMAIN dvRows |-> IF i # st.cam THEN dvRows[i]
                                         ELSE [chan |-> st.cur.chan, cred |-> st.cred, enabled |-> TRUE]]
  /\ DisturbSyncs(h, [st EXCEPT !.pc = "clear"]) /\ dvSettled' = FALSE
  /\ UNCHANGED <<dvReal, dvPast, dvCred, dvStreams, dvRuns, dvEdits, dvNext>>

deleteCameraStreams(h) ==
  LET st == dvH[h] IN
  /\ st.pc = "clear"
  /\ dvStreams' = {s \in dvStreams : s.cam # st.cam}
  /\ DisturbSyncs(h, [st EXCEPT !.pc = "stream", !.left = st.cur.streams]) /\ dvSettled' = FALSE
  /\ UNCHANGED <<dvReal, dvPast, dvCred, dvRows, dvRuns, dvEdits, dvNext>>

createCamera(h) ==
  LET st == dvH[h] IN
  /\ st.pc = "create" /\ dvCred # 0 /\ ByChannel(st.cur.chan) = {} /\ dvNext <= MaxDvRows
  /\ dvRows' = With(dvRows, dvNext, [chan |-> st.cur.chan, cred |-> st.cred, enabled |-> TRUE])
  /\ DisturbSyncs(h, [st EXCEPT !.pc = "stream", !.cam = dvNext, !.left = st.cur.streams])
  /\ dvNext' = dvNext + 1 /\ dvSettled' = FALSE
  /\ UNCHANGED <<dvReal, dvPast, dvCred, dvStreams, dvRuns, dvEdits>>

\* In the order of the profiles.  The row may be gone: the foreign key refuses
\* the stream.
createCameraStream(h) ==
  LET st == dvH[h] IN
  /\ st.pc = "stream" /\ st.cam \in DOMAIN dvRows
  /\ \E s \in st.left :
       /\ \A t \in st.left : s.n <= t.n
       /\ dvStreams' = dvStreams \cup {[cam |-> st.cam, token |-> s.token, role |-> s.role, run |-> st.run]}
       /\ DisturbSyncs(h, [st EXCEPT !.left = @ \ {s}])
  /\ dvSettled' = FALSE
  /\ UNCHANGED <<dvReal, dvPast, dvCred, dvRows, dvRuns, dvEdits, dvNext>>

Imported(h) ==
  LET st == dvH[h] IN
  /\ st.pc = "stream" /\ st.left = {}
  /\ DisturbSyncs(h, [st EXCEPT !.pc = "find", !.cur = NoCamera, !.seen = @ \cup {st.cam}, !.cam = 0])
  /\ dvSettled' = FALSE
  /\ UNCHANGED <<dvReal, dvPast, dvCred, dvRows, dvStreams, dvRuns, dvEdits, dvNext>>

\* The sync disables the rows of the device it has not seen.
SyncEnd(h) ==
  LET st == dvH[h] IN
  /\ st.pc = "find" /\ st.todo = {}
  /\ dvRows' = IF st.kind = "add" THEN dvRows
               ELSE [i \in DOMAIN dvRows |-> IF i \in st.seen THEN dvRows[i]
                                             ELSE [dvRows[i] EXCEPT !.enabled = FALSE]]
  /\ DisturbSyncs(h, DvIdle) /\ dvSettled' = (st.alone /\ st.whole)
  /\ UNCHANGED <<dvReal, dvPast, dvCred, dvStreams, dvRuns, dvEdits, dvNext>>

-----------------------------------------------------------------------------
(* The administrator and the device. *)

Edit == dvEdits < MaxDvEdits /\ dvEdits' = dvEdits + 1 /\ dvSettled' = FALSE /\ DisturbAll

DeviceUpdate(cred) ==
  /\ dvCred # 0 /\ Edit /\ updateCameraDevice(cred)
  /\ UNCHANGED <<dvReal, dvPast, dvStreams, dvRuns, dvNext>>

\* ON DELETE CASCADE to cameras and streams.
deleteCameraDevice ==
  /\ dvCred # 0 /\ Edit /\ dvCred' = 0
  /\ dvRows' = [i \in {} |-> 0] /\ dvStreams' = {}
  /\ UNCHANGED <<dvReal, dvPast, dvRuns, dvNext>>

deleteCamera(i) ==
  /\ i \in DOMAIN dvRows /\ Edit
  /\ dvRows' = [x \in DOMAIN dvRows \ {i} |-> dvRows[x]]
  /\ dvStreams' = {s \in dvStreams : s.cam # i}
  /\ UNCHANGED <<dvReal, dvPast, dvCred, dvRuns, dvNext>>

SetEnabled(i, on) ==
  /\ i \in DOMAIN dvRows /\ dvRows[i].enabled # on /\ Edit
  /\ dvRows' = [dvRows EXCEPT ![i].enabled = on]
  /\ UNCHANGED <<dvReal, dvPast, dvCred, dvStreams, dvRuns, dvNext>>

DeviceChanges(d) ==
  /\ d # dvReal /\ Edit /\ dvReal' = d /\ dvPast' = dvPast \cup {d}
  /\ UNCHANGED <<dvCred, dvRows, dvStreams, dvRuns, dvNext>>

-----------------------------------------------------------------------------
\* Rows from before devices had channel ids have none.
DevicesInit ==
  /\ dvReal \in DvDevices /\ dvPast = {dvReal}
  /\ dvCred \in {0, 1}
  /\ \/ dvRows = [i \in {} |-> 0] /\ dvStreams = {}
     \/ /\ dvCred = 1 /\ dvRows = [i \in {1} |-> [chan |-> NoChannel, cred |-> 1, enabled |-> TRUE]]
        /\ \E p \in Tokens(dvReal) : dvStreams = {[cam |-> 1, token |-> p, role |-> "main", run |-> 0]}
  /\ dvH = [h \in DvHandlers |-> DvIdle]
  /\ dvNext = 1 + Cardinality(DOMAIN dvRows) /\ dvRuns = 0 /\ dvEdits = 0 /\ dvSettled = FALSE

DevicesNext ==
  \/ \E h \in DvHandlers :
       \/ ImportStops(h) \/ FindRow(h) \/ UpdateRow(h) \/ deleteCameraStreams(h) \/ createCamera(h)
       \/ createCameraStream(h) \/ Imported(h) \/ SyncEnd(h)
       \/ \E skipped \in {{}, Tokens(dvReal)} : SyncBegin(h, skipped)
       \/ \E d \in dvPast : DiscoverAdd(h, d, 2)
  \/ \E cred \in {1, 2} : DeviceUpdate(cred)
  \/ deleteCameraDevice
  \/ \E i \in 1..MaxDvRows : deleteCamera(i) \/ \E on \in BOOLEAN : SetEnabled(i, on)
  \/ \E d \in DvDevices : DeviceChanges(d)

DevicesSpec == DevicesInit /\ [][DevicesNext]_dvVars

-----------------------------------------------------------------------------
(* Properties. *)

\* Whatever stopped, overlapped or was edited before, one complete sync that
\* runs alone puts the tables right: for every group of the device's profiles
\* one enabled camera, with the device's credentials and each profile once,
\* its largest stream main; every other camera of the device is disabled.
SyncSettles ==
  LET keys == {profileGroupKey(dvReal[i]) : i \in DOMAIN dvReal}
      group(k) == {i \in DOMAIN dvReal : profileGroupKey(dvReal[i]) = k}
      of(cam) == {s \in dvStreams : s.cam = cam} IN
  dvSettled =>
    /\ \A k \in keys : \E cam \in DOMAIN dvRows :
         /\ dvRows[cam].enabled /\ dvRows[cam].cred = dvCred /\ dvRows[cam].chan = channelId(dvReal, group(k))
         /\ Cardinality(of(cam)) = Cardinality(group(k))
         /\ \A i \in group(k) : \E s \in of(cam) :
              /\ s.token = dvReal[i].token
              /\ s.role = "main" => \A j \in group(k) : dvReal[j].area <= dvReal[i].area
         /\ \E s \in of(cam) : s.role = "main"
    /\ Cardinality({cam \in DOMAIN dvRows : dvRows[cam].enabled}) = Cardinality(keys)

\* Layouts refer to cameras by id: a row that stands for a source or a number of
\* the device never comes to stand for another one, in spite of the match by
\* profile token and of imports that overlap.
RowKeepsChannel ==
  [][\A i \in DOMAIN dvRows :
       i \in DOMAIN dvRows' /\ dvRows[i].chan[1] = "id" /\ dvRows[i].chan # <<"id", {"default"}>>
         => dvRows'[i].chan = dvRows[i].chan]_dvVars

\* What every step of a sync keeps, as a whole: the claims above.
DevicesSteps == [][SyncSettles']_dvVars /\ RowKeepsChannel
=============================================================================
