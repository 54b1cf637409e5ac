---------------------------- MODULE IoBoxDevices ----------------------------
(***************************************************************************)
(* ioBOX devices after pairing: the administrator's pages for models,      *)
(* boxes, input mappings and firmware (routes-admin.ts, routes-firmware.ts)*)
(* the device API the boxes poll (service-api-http/index.ts) and the       *)
(* firmware's side of both (iobox-firmware/src/main.cpp).                  *)
(*                                                                         *)
(* A device runs one loop, so it has one request under way at a time; the  *)
(* server's handler reads its rows one await at a time, and administrators *)
(* write between any two of them.  Names, network details and the contents *)
(* of models and mappings are left out: a mapping is its display, a kiosk  *)
(* its local address, an image its version, model and digest.              *)
(***************************************************************************)
EXTENDS Naturals

CONSTANTS
    IoBoxes,        \* paired boxes
    IoModels,       \* ids of hardware models
    IoModelOf,      \* box -> its model_id, fixed at enrolment
    IoDisplays,     \* displays a box can be assigned to
    IoKiosks,       \* kiosks that own displays
    IoChannels,     \* release channels
    IoVersions,     \* release versions, in order
    MaxIoEdits,     \* administrators' writes in a behaviour
    MaxIoRels       \* firmware imports in a behaviour

ASSUME IoDevAssumption ==
    /\ IoModelOf \in [IoBoxes -> IoModels]
    /\ IoVersions \subseteq Nat \ {0}
    /\ MaxIoEdits \in Nat
    /\ MaxIoRels \in Nat
    /\ "none" \notin IoDisplays
    /\ "none" \notin IoKiosks /\ "gone" \notin IoKiosks

None == "none"
NoVersion == 0

VARIABLES
    ibox,       \* box -> the ioboxes row
    imodels,    \* ids in public.iobox_models
    idisp,      \* display -> its kiosk_id or None, "gone" once deleted
    ikiosk,     \* kiosk -> whether it has a local key and a LAN address
    imaps,      \* iobox_input_mappings: <<id, display or None>>
    irels,      \* iobox_firmware_releases: rows, with the order of their uploads
    iadm,       \* an administrator's handler between its read and its write
    idev,       \* box -> what the device holds: configuration in RAM, image in flash
    iwork,      \* box -> the request the device has under way, and the rows read for it
    fresh,      \* box -> ghost: "pulling" or "yes" while nothing changed since the pull began
    iedits,     \* ghost: administrators' writes so far
    iimports    \* ghost: imports so far

ioDevVars == <<ibox, imodels, idisp, ikiosk, imaps, irels, iadm, idev, iwork, fresh,
               iedits, iimports>>

\* The rows of the tables: a mapping of no display applies to every one, a
\* release of no model to every model.
MaybeDisplay == IoDisplays \cup {None}
MaybeModel == IoModels \cup {None}
MapRows == Nat \X MaybeDisplay
BoxRows == [assigned : MaybeDisplay, config : Nat, version : Nat,
            channel : IoChannels \cup {"stable"}, target : Nat, error : BOOLEAN]
IoRelRows == [id : Nat, version : Nat, channel : IoChannels, model : MaybeModel, sha : Nat,
              uploaded : Nat]

\* What a device knows before its first pull, and the image it left the factory with.
Blank == [display |-> None, kiosk |-> None, maps |-> {}]
Factory == [version |-> NoVersion, model |-> None, sha |-> 0]
Resting == [at |-> "idle", assigned |-> None, kiosk |-> None, local |-> None, maps |-> {},
            target |-> NoVersion, channel |-> None, row |-> 0, sha |-> 0, ok |-> FALSE]
NoAdmin == [op |-> "none", box |-> None, row |-> None]

IoDevInit ==
    /\ \E at \in [IoBoxes -> IoDisplays \cup {None}] :
          ibox = [b \in IoBoxes |-> [assigned |-> at[b], config |-> 0, version |-> NoVersion,
                                     channel |-> "stable", target |-> NoVersion, error |-> FALSE]]
    /\ imodels = {IoModelOf[b] : b \in IoBoxes}
    /\ idisp \in [IoDisplays -> IoKiosks \cup {None}]
    /\ ikiosk = [k \in IoKiosks |-> TRUE]
    /\ imaps = {}
    /\ irels = {}
    /\ iadm = NoAdmin
    /\ idev = [b \in IoBoxes |-> [config |-> Blank, image |-> Factory, told |-> 0]]
    /\ iwork = [b \in IoBoxes |-> Resting]
    /\ fresh = [b \in IoBoxes |-> "no"]
    /\ iedits = 0
    /\ iimports = 0

\* A write of the server's rows: a pull under way may have read the old ones.
ServerEdit ==
    /\ iedits < MaxIoEdits
    /\ iedits' = iedits + 1
    /\ fresh' = [b \in IoBoxes |-> "no"]

Exists(d) == d # None /\ idisp[d] # "gone"

----------------------------------------------------------------------------
(* The administrator's pages.  A handler reads the box and writes later.    *)

(* POST /admin/iobox/models: INSERT, refused when the id exists. *)
createIoBoxModel(m) ==
    /\ iedits < MaxIoEdits
    /\ m \notin imodels
    /\ imodels' = imodels \cup {m}
    /\ iedits' = iedits + 1
    /\ UNCHANGED <<ibox, idisp, ikiosk, imaps, irels, iadm, idev, iwork, fresh, iimports>>

\* A handler reads the box's row, to write it later with the form's fields.
AdminReads(b, op) ==
    /\ iadm.op = "none"
    /\ iedits < MaxIoEdits
    /\ iadm' = [op |-> op, box |-> b, row |-> ibox[b]]
    /\ UNCHANGED <<ibox, imodels, idisp, ikiosk, imaps, irels, idev, iwork, fresh, iedits,
                   iimports>>

(* updateIoBox: the columns of the patch, here the display and the configuration  *)
(* version: the one read before, plus one.                                        *)
updateIoBox(b, assigned, row) ==
    ibox' = [ibox EXCEPT ![b].assigned = assigned, ![b].config = row.config + 1]

(* POST /admin/iobox/:id *)
AdminAssigns(d) ==
    /\ iadm.op = "assign"
    /\ d = None \/ Exists(d)
    /\ updateIoBox(iadm.box, d, iadm.row)
    /\ iadm' = NoAdmin
    /\ ServerEdit
    /\ UNCHANGED <<imodels, idisp, ikiosk, imaps, irels, idev, iwork, iimports>>

createIoBoxMapping(d) == imaps' = imaps \cup {<<iedits + 1, d>>}

(* POST /admin/iobox/:id/mappings: the mapping takes the display read with the box; *)
(* the foreign key refuses one that was deleted meanwhile.                           *)
AdminMaps ==
    LET b == iadm.box
        d == iadm.row.assigned IN
    /\ iadm.op = "map"
    /\ iadm' = NoAdmin
    /\ IF d = None \/ Exists(d)
       THEN /\ createIoBoxMapping(d)
            /\ updateIoBox(b, ibox[b].assigned, iadm.row)
            /\ ServerEdit
       ELSE UNCHANGED <<imaps, ibox, fresh, iedits>>
    /\ UNCHANGED <<imodels, idisp, ikiosk, irels, idev, iwork, iimports>>

(* POST /admin/iobox/:id/mappings/:mappingId/delete: the row goes first, then the *)
(* box is read for its version.                                                   *)
deleteIoBoxMapping(b, x) ==
    /\ iadm.op = "none"
    /\ imaps' = imaps \ {x}
    /\ iadm' = [op |-> "bump", box |-> b, row |-> ibox[b]]
    /\ ServerEdit
    /\ UNCHANGED <<ibox, imodels, idisp, ikiosk, irels, idev, iwork, iimports>>

BumpConfig ==
    /\ iadm.op = "bump"
    /\ updateIoBox(iadm.box, ibox[iadm.box].assigned, iadm.row)
    /\ iadm' = NoAdmin
    /\ UNCHANGED <<imodels, idisp, ikiosk, imaps, irels, idev, iwork, fresh, iedits, iimports>>

(* POST /admin/iobox/:id/firmware: the channel and the pinned version. *)
setIoBoxFirmware(b, c, v) ==
    /\ iedits < MaxIoEdits
    /\ iedits' = iedits + 1
    /\ ibox' = [ibox EXCEPT ![b].channel = c, ![b].target = v]
    /\ UNCHANGED <<imodels, idisp, ikiosk, imaps, irels, iadm, idev, iwork, fresh, iimports>>

(* External to the pages of ioBOX: a display moves to another kiosk or is deleted, *)
(* its mappings with it (ON DELETE CASCADE) and the boxes unassigned (SET NULL).    *)
MoveDisplay(d, k) ==
    /\ Exists(d)
    /\ idisp[d] # k
    /\ idisp' = [idisp EXCEPT ![d] = k]
    /\ ServerEdit
    /\ UNCHANGED <<ibox, imodels, ikiosk, imaps, irels, iadm, idev, iwork, iimports>>

DeleteDisplay(d) ==
    /\ Exists(d)
    /\ idisp' = [idisp EXCEPT ![d] = "gone"]
    /\ imaps' = {x \in imaps : x[2] # d}
    /\ ibox' = [b \in IoBoxes |-> IF ibox[b].assigned = d
                                 THEN [ibox[b] EXCEPT !.assigned = None] ELSE ibox[b]]
    /\ ServerEdit
    /\ UNCHANGED <<imodels, ikiosk, irels, iadm, idev, iwork, iimports>>

\* A kiosk's heartbeat reports its LAN address, or a new pairing takes its key away.
KioskAddress(k) ==
    /\ ikiosk' = [ikiosk EXCEPT ![k] = ~@]
    /\ ServerEdit
    /\ UNCHANGED <<ibox, imodels, idisp, imaps, irels, iadm, idev, iwork, iimports>>

----------------------------------------------------------------------------
(* Firmware releases. *)

(* UNIQUE(version, firmware_arch, model_id): NULL models never conflict. *)
Conflicting(v, m) == {r \in irels : m # None /\ r.version = v /\ r.model = m}

(* createIoBoxFirmwareRelease: an upsert, the row's id kept and uploaded_at renewed. *)
createIoBoxFirmwareRelease(v, c, m) ==
    LET old == Conflicting(v, m)
        id == IF old = {} THEN iimports + 1 ELSE (CHOOSE r \in old : TRUE).id
        now == iimports + 1 IN
    irels' = {r \in irels : r.id # id} \cup
               {[id |-> id, version |-> v, channel |-> c, model |-> m, sha |-> now,
                 uploaded |-> now]}

(* POST /api/admin/iobox/firmware/import: a named model must exist. *)
importIoBoxFirmware(v, c, m) ==
    /\ iimports < MaxIoRels
    /\ m = None \/ m \in imodels
    /\ createIoBoxFirmwareRelease(v, c, m)
    /\ iimports' = iimports + 1
    /\ UNCHANGED <<ibox, imodels, idisp, ikiosk, imaps, iadm, idev, iwork, fresh, iedits>>

(* getIoBoxFirmwareReleaseByVersionArchModel: of several general rows, any one. *)
ByVersion(v, m) == {r \in irels : r.version = v /\ r.model = m}

(* getLatestIoBoxFirmwareRelease: for this model or for all *)
Applicable(c, m) == {r \in irels : r.channel = c /\ r.model \in {None, m}}

(* ... the model's own first, then the latest upload. *)
getLatestIoBoxFirmwareRelease(c, m) ==
    LET all == Applicable(c, m)
        own == {r \in all : r.model = m}
        best == IF own # {} THEN own ELSE all IN
    {r \in best : \A s \in best : s.uploaded <= r.uploaded}

(* isVersionUpgrade, on versions that parse. *)
IoUpgrade(candidate, installed) == candidate > installed

----------------------------------------------------------------------------
(* The device's loop. *)
IdleBox(b) == iwork[b].at = "idle"
Goto(b, at) == iwork' = [iwork EXCEPT ![b].at = at]
Rest(b) == iwork' = [iwork EXCEPT ![b] = Resting]

(* heartbeat / touchIoBox: the running version; no configuration version is sent. *)
heartbeat(b) ==
    /\ IdleBox(b)
    /\ ibox' = [ibox EXCEPT ![b].version = idev[b].image.version]
    /\ UNCHANGED <<imodels, idisp, ikiosk, imaps, irels, iadm, idev, iwork, fresh, iedits,
                   iimports>>

(* GET /api/iobox/config: the box, then the display, its mappings and its kiosk. *)
ConfigBox(b) ==
    /\ IdleBox(b)
    /\ iwork' = [iwork EXCEPT ![b] = [Resting EXCEPT
                     !.at = IF ibox[b].assigned = None THEN "answer" ELSE "display",
                     !.assigned = ibox[b].assigned]]
    /\ fresh' = [fresh EXCEPT ![b] = "pulling"]
    /\ UNCHANGED <<ibox, imodels, idisp, ikiosk, imaps, irels, iadm, idev, iedits, iimports>>

ConfigDisplay(b) ==
    /\ iwork[b].at = "display"
    /\ iwork' = [iwork EXCEPT ![b].at = "mappings",
                     ![b].kiosk = IF Exists(iwork[b].assigned)
                                  THEN idisp[iwork[b].assigned] ELSE "gone"]
    /\ UNCHANGED <<ibox, imodels, idisp, ikiosk, imaps, irels, iadm, idev, fresh, iedits,
                   iimports>>

(* listIoBoxMappingsForDisplay: those of the display and those of no display. *)
listIoBoxMappingsForDisplay(d) == {x \in imaps : x[2] \in {d, None}}

ConfigMappings(b) ==
    /\ iwork[b].at = "mappings"
    /\ iwork' = [iwork EXCEPT ![b].at = "kiosk",
                     ![b].maps = listIoBoxMappingsForDisplay(iwork[b].assigned)]
    /\ UNCHANGED <<ibox, imodels, idisp, ikiosk, imaps, irels, iadm, idev, fresh, iedits,
                   iimports>>

\* Only a kiosk with a local key and an address becomes the local target.
ConfigKiosk(b) ==
    LET k == iwork[b].kiosk IN
    /\ iwork[b].at = "kiosk"
    /\ iwork' = [iwork EXCEPT ![b].at = "answer",
                     ![b].local = IF k \in IoKiosks /\ ikiosk[k] THEN k ELSE None]
    /\ UNCHANGED <<ibox, imodels, idisp, ikiosk, imaps, irels, iadm, idev, fresh, iedits,
                   iimports>>

\* The answer's assigned_display is null when the display was not found.
Answered(w) == [display |-> IF w.kiosk = "gone" THEN None ELSE w.assigned,
                kiosk |-> w.local, maps |-> w.maps]

(* pullConfig: everything the answer names replaces what was held, absent or not. *)
pullConfig(b) == Answered(iwork[b])

PullAnswer(b) ==
    /\ iwork[b].at = "answer"
    /\ idev' = [idev EXCEPT ![b].config = pullConfig(b)]
    /\ fresh' = [fresh EXCEPT ![b] = IF @ = "pulling" THEN "yes" ELSE @]
    /\ Rest(b)
    /\ UNCHANGED <<ibox, imodels, idisp, ikiosk, imaps, irels, iadm, iedits, iimports>>

\* A request fails or its answer is lost: the device keeps what it has.
RequestLost(b) ==
    /\ ~IdleBox(b)
    /\ iwork[b].at # "flashed"
    /\ Rest(b)
    /\ fresh' = [fresh EXCEPT ![b] = "no"]
    /\ UNCHANGED <<ibox, imodels, idisp, ikiosk, imaps, irels, iadm, idev, iedits, iimports>>

(* otaCheck / GET /api/iobox/firmware/check: the box, *)
CheckBox(b) ==
    /\ IdleBox(b)
    /\ iwork' = [iwork EXCEPT ![b] = [Resting EXCEPT !.target = ibox[b].target,
                     !.channel = ibox[b].channel,
                     !.at = IF ibox[b].target # NoVersion THEN "pinned" ELSE "latest"]]
    /\ UNCHANGED <<ibox, imodels, idisp, ikiosk, imaps, irels, iadm, idev, fresh, iedits,
                   iimports>>

\* The device is told of a newer release, or that it is up to date.
Offer(b, r) ==
    iwork' = [iwork EXCEPT ![b] =
        IF IoUpgrade(r.version, idev[b].image.version)
        THEN [@ EXCEPT !.at = "download", !.row = r.id, !.sha = r.sha]
        ELSE Resting]

(* ... the pinned version built for the model, else for every model, *)
CheckPinned(b) ==
    LET own == ByVersion(iwork[b].target, IoModelOf[b])
        any == ByVersion(iwork[b].target, None) IN
    /\ iwork[b].at = "pinned"
    /\ IF own \cup any = {} THEN Goto(b, "latest")
       ELSE \E r \in IF own # {} THEN own ELSE any : Offer(b, r)
    /\ UNCHANGED <<ibox, imodels, idisp, ikiosk, imaps, irels, iadm, idev, fresh, iedits,
                   iimports>>

(* ... else the channel's latest. *)
CheckLatest(b) ==
    LET found == getLatestIoBoxFirmwareRelease(iwork[b].channel, IoModelOf[b]) IN
    /\ iwork[b].at = "latest"
    /\ IF found = {} THEN Rest(b) ELSE \E r \in found : Offer(b, r)
    /\ UNCHANGED <<ibox, imodels, idisp, ikiosk, imaps, irels, iadm, idev, fresh, iedits,
                   iimports>>

NoVerify(announced, r) == TRUE

(* streamUpdateWithSha: the digest announced by the check, and its signature. *)
Verified(announced, r) == r.sha = announced

(* GET /api/iobox/firmware/download/:id: the blob of the row as it is now. *)
Download(b) ==
    /\ iwork[b].at = "download"
    /\ \E r \in irels :
          /\ r.id = iwork[b].row
          /\ IF Verified(iwork[b].sha, r)
             THEN /\ idev' = [idev EXCEPT ![b].told = iwork[b].sha, ![b].image =
                                [version |-> r.version, model |-> r.model, sha |-> r.sha]]
                  /\ iwork' = [iwork EXCEPT ![b].at = "flashed", ![b].ok = TRUE]
             ELSE /\ iwork' = [iwork EXCEPT ![b].at = "flashed"]
                  /\ idev' = idev
    /\ UNCHANGED <<ibox, imodels, idisp, ikiosk, imaps, irels, iadm, fresh, iedits, iimports>>

(* POST /api/iobox/firmware/applied, which may be lost, then ESP.restart() on success: *)
(* the configuration was only in RAM.                                                  *)
Applied(b, arrives) ==
    LET w == iwork[b] IN
    /\ w.at = "flashed"
    /\ ibox' = IF ~arrives THEN ibox
               ELSE IF w.ok THEN [ibox EXCEPT ![b].version = idev[b].image.version,
                                             ![b].error = FALSE]
               ELSE [ibox EXCEPT ![b].error = TRUE]
    /\ idev' = IF w.ok THEN [idev EXCEPT ![b].config = Blank] ELSE idev
    /\ fresh' = IF w.ok THEN [fresh EXCEPT ![b] = "no"] ELSE fresh
    /\ Rest(b)
    /\ UNCHANGED <<imodels, idisp, ikiosk, imaps, irels, iadm, iedits, iimports>>

\* Power is cut: a partly written slot is not booted, a finished one is.
PowerCut(b) ==
    /\ idev' = [idev EXCEPT ![b].config = Blank]
    /\ Rest(b)
    /\ fresh' = [fresh EXCEPT ![b] = "no"]
    /\ UNCHANGED <<ibox, imodels, idisp, ikiosk, imaps, irels, iadm, iedits, iimports>>

DeviceStep(b) ==
    \/ heartbeat(b)
    \/ ConfigBox(b) \/ ConfigDisplay(b) \/ ConfigMappings(b) \/ ConfigKiosk(b) \/ PullAnswer(b)
    \/ RequestLost(b)
    \/ CheckBox(b) \/ CheckPinned(b) \/ CheckLatest(b) \/ Download(b)
    \/ \E arrives \in BOOLEAN : Applied(b, arrives)
    \/ PowerCut(b)

IoDevNext ==
    \/ \E m \in IoModels : createIoBoxModel(m)
    \/ \E b \in IoBoxes, op \in {"assign", "map"} : AdminReads(b, op)
    \/ \E d \in IoDisplays \cup {None} : AdminAssigns(d)
    \/ AdminMaps \/ BumpConfig
    \/ \E b \in IoBoxes, x \in imaps : deleteIoBoxMapping(b, x)
    \/ \E b \in IoBoxes, c \in IoChannels, v \in IoVersions \cup {NoVersion} :
          setIoBoxFirmware(b, c, v)
    \/ \E d \in IoDisplays, k \in IoKiosks \cup {None} : MoveDisplay(d, k)
    \/ \E d \in IoDisplays : DeleteDisplay(d)
    \/ \E k \in IoKiosks : KioskAddress(k)
    \/ \E v \in IoVersions, c \in IoChannels, m \in IoModels \cup {None} :
          importIoBoxFirmware(v, c, m)
    \/ \E b \in IoBoxes : DeviceStep(b)

IoDevSpec == IoDevInit /\ [][IoDevNext]_ioDevVars

----------------------------------------------------------------------------
(* Properties. *)

\* What the rows say a box should hold, read all at once.
ConfigOf(b) ==
    LET d == ibox[b].assigned IN
    IF ~Exists(d) THEN Blank
    ELSE [display |-> d,
          kiosk |-> IF idisp[d] # None /\ ikiosk[idisp[d]] THEN idisp[d] ELSE None,
          maps |-> {x \in imaps : x[2] = d \/ x[2] = None}]

(* A device whose last pull overlapped no write holds exactly what the rows  *)
(* say: its display, the mappings to run and the kiosk to call, with nothing *)
(* left of an earlier assignment (GET /api/iobox/config, pullConfig).        *)
CalmPullIsCurrent == \A b \in IoBoxes : fresh[b] = "yes" => idev[b].config = ConfigOf(b)

(* Whatever is imported, pinned or imported again while a device checks and  *)
(* downloads, it never runs an image built for another model.                *)
ImageFits == \A b \in IoBoxes : idev[b].image.model \in {None, IoModelOf[b]}

(* The image a device boots is the one its check announced, even when the    *)
(* row was imported again between the check and the download                 *)
(* (streamUpdateWithSha, main.cpp:342-350).                                  *)
InstalledAsAnnounced == \A b \in IoBoxes : idev[b].image.sha = idev[b].told

(* No step of anyone takes a device back to an older version, not even a pin *)
(* to one (isVersionUpgrade in GET /api/iobox/firmware/check).               *)
FirmwareNeverOlder ==
    [][\A b \in IoBoxes : idev'[b].image.version >= idev[b].image.version]_ioDevVars

\* Configuration and firmware of the boxes as a whole: the claims above.
IoDevSafe == CalmPullIsCurrent /\ ImageFits /\ InstalledAsAnnounced

\* What every step keeps, as a whole: the claims above.
IoDevSteps == [][IoDevSafe']_ioDevVars /\ FirmwareNeverOlder
=============================================================================
