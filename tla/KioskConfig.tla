----------------------------- MODULE KioskConfig -----------------------------
(***************************************************************************)
(* The configuration of a kiosk: cameras, entities, layouts and labels in  *)
(* the database, the admin handlers that change them, and the bundle the   *)
(* server generates from them (generateBundle) when the kiosk is told to   *)
(* reload.                                                                 *)
(*                                                                         *)
(* Each SQL statement is a round trip of its own: a handler is the list of *)
(* the statements it still has to run, and handlers interleave between     *)
(* statements, as does the generation of a bundle.  A statement that fails *)
(* ends its handler.  Only what a bundle shows is kept: contents are a     *)
(* camera or Web, and everything else of the bundle (names, timeouts, GPIO *)
(* bindings, console settings) is the revision `prefs'.                    *)
(***************************************************************************)
EXTENDS Integers, Sequences, FiniteSets, SequencesExt

CONSTANTS Layouts, Cells, Entities, Cameras,  \* ids
          DeviceCams,   \* cameras of one ONVIF device
          Present,      \* cameras that exist initially
          Null, Web,    \* no value; content that is not a camera
          Workers,      \* requests handled at the same time
          MaxChanges    \* bound on handlers started

\* What a bundle depends on of a camera's row.
CameraRows == [enabled : BOOLEAN, streams : BOOLEAN]

\* Ids of different tables are told apart where a row is looked up by them,
\* there is a row of every table to start from, and Null is no id.
ASSUME ConfigAssumption ==
  /\ DeviceCams \subseteq Cameras /\ Present \subseteq Cameras /\ DeviceCams \cap Present # {}
  /\ Layouts # {} /\ Cells # {} /\ Entities # {} /\ MaxChanges \in Nat
  /\ IsFiniteSet(DeviceCams) /\ IsFiniteSet(Workers)
  /\ Null \notin Layouts \cup Cells \cup Entities \cup Cameras \cup CameraRows \cup {Web}
  /\ Web \notin Cameras /\ Entities \cap (Layouts \cup Cells \cup Cameras) = {}

VARIABLES
  db,       \* the tables
  op,       \* per worker: statements to run, and the value last read
  cfgStarted,  \* number of handlers started
  isViewer, \* isAndroidViewer(kiosk)
  reloads,  \* reload messages on their way to the kiosk
  fetch,    \* the generation under way
  bundle,   \* the bundle the kiosk renders
  lapsed,   \* ghost: something changed and no reload will follow it
  overlap   \* ghost: two handlers ran at the same time

cfgVars == <<db, op, cfgStarted, isViewer, reloads, fetch, bundle, lapsed, overlap>>
kioskVars == <<isViewer, reloads, fetch, bundle>>

NoRow == [layout |-> Null, entity |-> Null, camera |-> Null]
Inserts == {"insertCamera", "insertEntity", "insertCell", "insertLayout", "import"}
NoHandler == [todo |-> <<>>, reg |-> Null]
S(k, x, y) == [k |-> k, x |-> x, y |-> y]
CellsOf(d, l) == {c \in Cells : d.cells[c].layout = l}
Exists(d, c) == d.cells[c].layout # Null
Notify == S("notify", Null, Null)
-----------------------------------------------------------------------------
(* Handlers, as the statements they run *)

\* createCamera, with its mirror entity, then the streams.
createCamera(c, e) == <<S("insertCamera", c, Null), S("insertEntity", e, c), S("addStream", c, Null)>>
cameraNew(c, e) == createCamera(c, e) \o <<Notify>>

\* A camera is found again by channel or profile: re-enabled, streams replaced.
importDiscoveredCamera(c, e) == <<S("import", c, e)>>
importFound(c) == <<S("enable", c, TRUE), S("dropStreams", c, Null), S("addStream", c, Null)>>

\* Import what was discovered, disable what was not.
deviceSync(found, free) ==
  (IF found = {} THEN <<>> ELSE importDiscoveredCamera(CHOOSE c \in found : TRUE, free))
    \o <<S("disableOthers", Null, found), Notify>>
discoverAdd(c, e) == <<S("ensureDevice", Null, Null)>> \o importDiscoveredCamera(c, e) \o <<Notify>>
deviceUpdate == <<S("prefs", Null, Null), Notify>>
deviceLabel(on) == <<S("labelDevice", on, Null), Notify>>
deviceDelete == <<S("deleteDevice", Null, Null), Notify>>

\* updateEntity: write, read back, copy into the cells that use it.
updateEntity(e, x) == <<S("setEntity", e, x), S("readEntity", e, Null), S("propagate", e, Null)>>

\* The camera, then its entity's name, which copies the content again.
cameraUpdate(c, enabled, e) ==
  <<S("enable", c, enabled)>> \o (IF e = Null THEN <<>> ELSE updateEntity(e, Null)) \o <<Notify>>
cameraEnabled(c, enabled) == <<S("enable", c, enabled), Notify>>
deleteCamera(c) ==
  <<S("unlabel", c, Null), S("dropStreams", c, Null), S("dropCameraCells", c, Null),
    S("deleteCamera", c, Null)>>
cameraDelete(c) == deleteCamera(c) \o <<Notify>>

entityNew(e, x) == <<S("insertEntity", e, x), Notify>>
entityUpdate(e, x) == updateEntity(e, x) \o <<Notify>>
entityName(e) == updateEntity(e, Null) \o <<Notify>>
entityDelete(e) == <<S("deleteEntity", e, Null), Notify>>

\* A dashboard of Node-RED becomes an entity, or gives its entity a new name.
syncDashboards(e, known) ==
  (IF known = Null THEN <<S("insertEntity", e, Web)>> ELSE updateEntity(known, Null)) \o <<Notify>>

createLayoutCell(c, l, e) == <<S("readEntity", e, Null), S("insertCell", c, <<l, e>>)>>
cellNew(c, l, e) == createLayoutCell(c, l, e) \o <<Notify>>
assignCellEntity(c, e) ==
  IF e = Null THEN <<S("clearCell", c, Null)>> ELSE <<S("readEntity", e, Null), S("assignCell", c, e)>>
cellUpdate(c, e) == assignCellEntity(c, e) \o <<Notify>>
cellDelete(c) == <<S("deleteCell", c, Null), Notify>>

layoutNew(l) == <<S("insertLayout", l, Null)>>
layoutUpdate == <<S("prefs", Null, Null), Notify>>
layoutPriority == <<S("prefs", Null, Null), Notify>>

\* cloneLayout: the layout, then the cells and the displays it reads later.
cloneLayout(l, copy) ==
  <<S("insertLayout", copy, Null), S("cloneCells", l, copy), S("cloneDisplays", l, copy)>>
layoutClone(l, copy) == cloneLayout(l, copy) \o <<Notify>>
deleteLayout(l) ==
  <<S("dropLayoutCells", l, Null), S("detach", l, Null), S("clearDefault", l, Null), S("deleteLayout", l, Null)>>
layoutDelete(l) == deleteLayout(l) \o <<Notify>>

\* The default is validated against the attached layouts, then written.
displayUpdate(l, enabled) == <<S("readAttached", l, Null), S("setDisplay", enabled, Null), Notify>>
\* The API refuses a layout that is not attached instead of clearing the default.
apiDefaultLayout(l) == <<S("readAttached", l, Null), S("setDefault", l, Null), Notify>>
attachLayout(l) == <<S("attach", l, Null), Notify>>

\* Mutant: the kiosks are told before the default is cleared.
detachLayoutEarly(l) == <<S("detach", l, Null), Notify, S("clearDefault", l, Null)>>

detachLayoutFromDisplay(l) == <<S("detach", l, Null), S("clearDefault", l, Null)>>
detachLayout(l) == detachLayoutFromDisplay(l) \o <<Notify>>

cameraLabel(c) == <<S("label", c, Null), Notify>>
cameraLabelRemove(c) == <<S("unlabel", c, Null), Notify>>
kioskLabel(operates) == <<S("operate", operates, Null), Notify>>

\* Deleting a label changes what the kiosk operates, and tells nobody.
deleteLabel == <<S("unlabelAll", Null, Null), S("labelDevice", FALSE, Null), S("operate", FALSE, Null)>>
labelDelete == deleteLabel
kioskUpdate == <<S("prefs", Null, Null)>>
gpioChange == <<S("prefs", Null, Null), Notify>>
operatorConsole == <<S("prefs", Null, Null), Notify>>
subscribeEvents == <<S("prefs", Null, Null), Notify>>

\* Ids are never given twice: not after a deletion, and not to two handlers.
Promised == {s \in UNION {Range(op[w].todo) : w \in Workers} : s.k \in Inserts}
Taken == db.used \cup UNION {{s.x, s.y} : s \in Promised}
Fresh(ids) == IF ids \subseteq Taken THEN Null ELSE CHOOSE x \in ids : x \notin Taken
FreeEntity == Fresh(Entities)

\* The entity that mirrors a camera.
EntityOf(c) == IF \E e \in Entities : db.entities[e] = c
               THEN CHOOSE e \in Entities : db.entities[e] = c ELSE Null

\* The requests an administrator can make in this state of the pages.
Handlers ==
  LET present == {e \in Entities : db.entities[e] # Null}
      rows    == {c \in Cells : Exists(db, c)}
      free    == {Fresh(Cells), Null} \ {Null}
      blank   == {Fresh(Layouts), Null} \ {Null}
      cams    == {c \in Cameras : db.cams[c] # Null}
      Importable == DeviceCams \ (Taken \ cams)
  IN  {cameraNew(c, FreeEntity) : c \in Cameras \ (Taken \cup DeviceCams)}
      \cup {deviceSync(f, FreeEntity) : f \in {x \in SUBSET Importable : db.device /\ Cardinality(x) < 2}}
      \cup {discoverAdd(c, FreeEntity) : c \in Importable} \cup {deviceDelete}
      \cup {cameraUpdate(p[1], p[2], EntityOf(p[1])) : p \in cams \X BOOLEAN}
      \cup {cameraEnabled(p[1], p[2]) : p \in cams \X BOOLEAN}
      \cup {cameraDelete(c) : c \in cams} \cup {cameraLabel(c) : c \in cams}
      \cup {cameraLabelRemove(c) : c \in db.labeled}
      \cup {entityNew(p[1], p[2]) : p \in ({FreeEntity} \ {Null}) \X (cams \cup {Web})}
      \cup {entityUpdate(p[1], p[2]) : p \in {x \in present : db.entities[x] \in Cameras} \X cams}
      \cup {entityDelete(e) : e \in present}
      \cup {cellNew(p[1], p[2], p[3]) : p \in free \X db.layouts \X present}
      \cup {cellUpdate(p[1], p[2]) : p \in rows \X (present \cup {Null})}
      \cup {cellDelete(c) : c \in rows}
      \cup {layoutNew(l) : l \in blank} \cup {layoutUpdate}
      \cup {layoutClone(p[1], p[2]) : p \in db.layouts \X blank}
      \cup {layoutDelete(l) : l \in db.layouts}
      \cup {displayUpdate(p[1], p[2]) : p \in (db.layouts \cup {Null}) \X BOOLEAN}
      \cup {attachLayout(l) : l \in db.layouts} \cup {detachLayout(l) : l \in db.attached}
      \cup {kioskLabel(o) : o \in BOOLEAN} \cup {labelDelete, kioskUpdate, gpioChange, operatorConsole}
      \cup {subscribeEvents, deviceUpdate, layoutPriority} \cup {deviceLabel(o) : o \in BOOLEAN}
      \cup {entityName(e) : e \in present} \cup {apiDefaultLayout(l) : l \in db.layouts \cup {Null}}
      \cup {syncDashboards(FreeEntity, e) : e \in {x \in present : db.entities[x] = Web} \cup {Null}}
-----------------------------------------------------------------------------
(* Statements *)

\* References that must exist when the row is written (foreign keys).
Fails(d, s, reg) ==
  \/ s.k = "insertEntity" /\ (s.x = Null \/ (s.y \in Cameras /\ d.cams[s.y] = Null))
  \/ s.k = "setEntity" /\ s.y \in Cameras /\ d.cams[s.y] = Null
  \/ s.k \in {"addStream", "label"} /\ d.cams[s.x] = Null
  \/ s.k = "insertCell" /\ (s.y[1] \notin d.layouts \/ (reg \in Cameras /\ d.cams[reg] = Null))
  \/ s.k \in {"assignCell", "propagate"} /\ reg \in Cameras /\ d.cams[reg] = Null
  \/ s.k = "attach" /\ s.x \notin d.layouts
  \/ s.k = "cloneDisplays" /\ s.x \in d.attached /\ s.y \notin d.layouts
  \/ s.k = "setDefault" /\ reg # s.x
  \/ ~d.device /\ ((s.k = "labelDevice" /\ s.x) \/ (s.k = "insertCamera" /\ s.x \in DeviceCams))
  \/ s.k \in {"setDisplay", "setDefault"} /\ reg # Null /\ reg \notin d.layouts

SetCells(d, P(_), row(_)) == [d EXCEPT !.cells = [c \in Cells |-> IF P(c) THEN row(c) ELSE @[c]]]
DropCells(d, P(_)) == SetCells(d, P, LAMBDA c : NoRow)
CamOf(x) == IF x \in Cameras THEN x ELSE Null

\* DELETE FROM cameras: streams and entities cascade, cells lose the camera
\* (SET NULL) but keep the id of the entity, which no foreign key covers.
DropCameras(d, gone) ==
  [SetCells(d, LAMBDA c : d.cells[c].camera \in gone, LAMBDA c : [d.cells[c] EXCEPT !.camera = Null])
     EXCEPT !.cams = [c \in Cameras |-> IF c \in gone THEN Null ELSE @[c]],
            !.labeled = @ \ gone,
            !.entities = [e \in Entities |-> IF @[e] \in gone THEN Null ELSE @[e]]]

Camera(enabled, streams) == [enabled |-> enabled, streams |-> streams]
updateCamera(d, c, enabled, streams) ==
  IF d.cams[c] = Null THEN d ELSE [d EXCEPT !.cams[c] = Camera(enabled, streams)]
createCameraStream(d, c) == updateCamera(d, c, d.cams[c].enabled, TRUE)
deleteCameraStreams(d, c) == updateCamera(d, c, d.cams[c].enabled, FALSE)
createEntity(d, e, x) == [d EXCEPT !.entities[e] = x, !.used = @ \cup {e}]
createLayout(d, l) == [d EXCEPT !.layouts = @ \cup {l}, !.used = @ \cup {l}]
updateDisplay(d, l, enabled) == [d EXCEPT !.default = l, !.enabled = enabled]
attachLayoutToDisplay(d, l) == [d EXCEPT !.attached = @ \cup {l}]

createCameraDevice(d) == [d EXCEPT !.device = TRUE]
deleteCameraDevice(d) == [DropCameras(d, DeviceCams) EXCEPT !.device = FALSE, !.devLabel = FALSE]

\* Labels of cameras, of the device, and of what the kiosk operates.
attachCameraLabel(d, c) == [d EXCEPT !.labeled = @ \cup {c}]
attachCameraDeviceLabel(d) == [d EXCEPT !.devLabel = TRUE]
attachKioskLabel(d) == [d EXCEPT !.operates = TRUE]
detachKioskLabel(d) == [d EXCEPT !.operates = FALSE]

\* The effect of one statement on the tables.
Apply(d, s, reg) ==
  CASE s.k = "insertCamera"    -> [d EXCEPT !.cams[s.x] = Camera(TRUE, FALSE), !.used = @ \cup {s.x}]
    [] s.k = "insertEntity"    -> createEntity(d, s.x, s.y)
    [] s.k = "addStream"       -> createCameraStream(d, s.x)
    [] s.k = "dropStreams"     -> deleteCameraStreams(d, s.x)
    [] s.k = "enable"          -> updateCamera(d, s.x, s.y, d.cams[s.x].streams)
    [] s.k = "deleteCamera"    -> DropCameras(d, {s.x})
    [] s.k = "deleteDevice"    -> deleteCameraDevice(d)
    [] s.k = "ensureDevice"    -> createCameraDevice(d)
    [] s.k = "setEntity"       -> IF d.entities[s.x] = Null \/ s.y = Null THEN d
                                  ELSE [d EXCEPT !.entities[s.x] = s.y]
    [] s.k = "deleteEntity"    -> [d EXCEPT !.entities[s.x] = Null]
    [] s.k = "propagate"       -> IF reg = Null THEN d
                                  ELSE SetCells(d, LAMBDA c : d.cells[c].entity = s.x,
                                                LAMBDA c : [d.cells[c] EXCEPT !.camera = CamOf(reg)])
    [] s.k = "insertCell"      -> [d EXCEPT !.cells[s.x] = [layout |-> s.y[1], entity |-> s.y[2], camera |-> CamOf(reg)],
                                           !.used = @ \cup {s.x}]
    [] s.k = "assignCell"      -> IF reg = Null \/ ~Exists(d, s.x) THEN d
                                  ELSE [d EXCEPT !.cells[s.x] = [@ EXCEPT !.entity = s.y, !.camera = CamOf(reg)]]
    [] s.k = "clearCell"       -> IF ~Exists(d, s.x) THEN d
                                  ELSE [d EXCEPT !.cells[s.x] = [NoRow EXCEPT !.layout = d.cells[s.x].layout]]
    [] s.k = "deleteCell"      -> [d EXCEPT !.cells[s.x] = NoRow]
    [] s.k = "dropCameraCells" -> DropCells(d, LAMBDA c : d.cells[c].camera = s.x)
    [] s.k = "dropLayoutCells" -> DropCells(d, LAMBDA c : d.cells[c].layout = s.x)
    [] s.k = "insertLayout"    -> createLayout(d, s.x)
    [] s.k = "deleteLayout"    -> [DropCells(d, LAMBDA c : d.cells[c].layout = s.x)
                                     EXCEPT !.layouts = @ \ {s.x}, !.attached = @ \ {s.x},
                                            !.default = IF @ = s.x THEN Null ELSE @]
    [] s.k = "attach"          -> attachLayoutToDisplay(d, s.x)
    [] s.k = "cloneDisplays"   -> IF s.x \in d.attached THEN attachLayoutToDisplay(d, s.y) ELSE d
    [] s.k = "detach"          -> [d EXCEPT !.attached = @ \ {s.x}]
    [] s.k = "clearDefault"    -> [d EXCEPT !.default = IF @ = s.x THEN Null ELSE @]
    [] s.k = "setDisplay"      -> updateDisplay(d, reg, s.x)
    [] s.k = "setDefault"      -> updateDisplay(d, reg, d.enabled)
    [] s.k = "labelDevice"     -> IF s.x THEN attachCameraDeviceLabel(d) ELSE [d EXCEPT !.devLabel = FALSE]
    [] s.k = "label"           -> attachCameraLabel(d, s.x)
    [] s.k = "unlabel"         -> [d EXCEPT !.labeled = @ \ {s.x}]
    [] s.k = "unlabelAll"      -> [d EXCEPT !.labeled = {}]
    [] s.k = "operate"         -> IF s.x THEN attachKioskLabel(d) ELSE detachKioskLabel(d)
    [] s.k = "prefs"           -> [d EXCEPT !.prefs = @ + 1]
    [] OTHER                   -> d

listLayoutsForDisplay(d) == d.attached

\* What a statement reads.
Read(d, s, reg) ==
  CASE s.k = "readEntity"   -> d.entities[s.x]
    [] s.k = "readAttached" -> IF s.x \in listLayoutsForDisplay(d) THEN s.x ELSE Null
    [] OTHER                -> reg

\* What a statement adds to the work of its handler: a camera known or new, the
\* cameras of the device to disable, the cells to copy.
Then(d, s) ==
  CASE s.k = "import" -> IF d.cams[s.x] # Null THEN importFound(s.x) ELSE createCamera(s.x, s.y)
    [] s.k = "disableOthers" ->
         SetToSeq({S("enable", c, FALSE) :
                     c \in {x \in DeviceCams \ s.y : d.cams[x] # Null /\ d.cams[x].enabled}})
    [] s.k = "cloneCells" ->
         LET src  == {c \in CellsOf(d, s.x) : d.cells[c].entity # Null}
             new  == Fresh(Cells)
         IN  IF src = {} \/ new = Null THEN <<>>
             ELSE createLayoutCell(new, s.y, d.cells[CHOOSE c \in src : TRUE].entity)
    [] OTHER -> <<>>

\* The two handlers that change a bundle and end without telling the kiosks:
\* labelDelete and kioskUpdate.
SilentEnds == {"operate", "prefs"}

\* A handler begins.
Start(w) ==
  /\ op[w] = NoHandler /\ cfgStarted < MaxChanges
  /\ \E h \in Handlers : op' = [op EXCEPT ![w] = [todo |-> h, reg |-> Null]]
  /\ cfgStarted' = cfgStarted + 1
  /\ overlap' = (overlap \/ \E v \in Workers : op[v] # NoHandler)
  /\ UNCHANGED <<db, kioskVars, lapsed>>

Head1(w) == Head(op[w].todo)

\* A statement runs; the last one ends the handler.
Run(w) ==
  /\ op[w] # NoHandler /\ Head1(w) # Notify /\ ~Fails(db, Head1(w), op[w].reg)
  /\ LET s    == Head1(w)
         rest == Then(db, s) \o Tail(op[w].todo)
     IN  /\ db' = Apply(db, s, op[w].reg)
         /\ op' = [op EXCEPT ![w] = IF rest = <<>> THEN NoHandler
                                    ELSE [todo |-> rest, reg |-> Read(db, s, op[w].reg)]]
         /\ lapsed' = (lapsed \/ (rest = <<>> /\ s.k \in SilentEnds))
  /\ UNCHANGED <<kioskVars, cfgStarted, overlap>>

\* A statement fails: the handler answers 500 and tells no kiosk.
RunFails(w) ==
  /\ op[w] # NoHandler /\ Fails(db, Head1(w), op[w].reg)
  /\ op' = [op EXCEPT ![w] = NoHandler] /\ lapsed' = TRUE
  /\ UNCHANGED <<db, kioskVars, cfgStarted, overlap>>

\* notifyKiosks: a reload for every connected kiosk; an absent one misses it.
notifyKiosks(w) ==
  /\ op[w] # NoHandler /\ Head1(w) = Notify
  /\ op' = [op EXCEPT ![w] = IF Len(@.todo) = 1 THEN NoHandler ELSE [@ EXCEPT !.todo = Tail(@)]]
  /\ \/ reloads' = reloads + 1 /\ UNCHANGED lapsed
     \/ lapsed' = TRUE /\ UNCHANGED reloads
  /\ UNCHANGED <<db, isViewer, fetch, bundle, cfgStarted, overlap>>
-----------------------------------------------------------------------------
(* Bundles *)

NoBundle == [layouts |-> {}, cams |-> {}, default |-> Null, prefs |-> -1]
NoFetch == [at |-> "none", part |-> NoBundle]

\* An entity's current content before the copy in the cell.
CellContent(d, c) ==
  IF d.cells[c].entity # Null /\ d.entities[d.cells[c].entity] # Null
  THEN d.entities[d.cells[c].entity] ELSE d.cells[c].camera

Enabled(d, c) == d.cams[c] # Null /\ d.cams[c].enabled

\* By the cells' own column, not by the entity.
camerasForLayoutIds(d) ==
  {c \in Cameras : Enabled(d, c) /\ \E x \in Cells : /\ d.cells[x].layout \in listLayoutsForDisplay(d)
                                                   /\ d.cells[x].camera = c}
camerasForLabelIds(d) ==
  {c \in Cameras : Enabled(d, c) /\ (c \in d.labeled \/ (d.devLabel /\ c \in DeviceCams))}

\* The labels the kiosk operates.
ScopeCams(d) == camerasForLayoutIds(d) \cup (IF d.operates THEN camerasForLabelIds(d) ELSE {})

\* buildLayouts.
BuiltLayouts(d) == {<<l, {<<c, CellContent(d, c)>> : c \in CellsOf(d, l)}>> : l \in d.attached}
CellCams(built) == {c \in Cameras : \E l \in built : \E p \in l[2] : p[2] = c}
WithStreams(d, cams) == {<<c, IF d.cams[c] = Null THEN FALSE ELSE d.cams[c].streams>> : c \in cams}

\* What the generation reads, in three parts.
ReadScope(d, viewer) == [NoBundle EXCEPT !.default = d.default, !.prefs = d.prefs,
                                         !.cams = IF viewer THEN {} ELSE ScopeCams(d)]
ReadLayouts(d, b) == [b EXCEPT !.layouts = BuiltLayouts(d)]
ReadCameras(d, b, viewer) ==
  [b EXCEPT !.cams = WithStreams(d, IF viewer THEN {c \in CellCams(b.layouts) : Enabled(d, c)} ELSE b.cams)]

\* The kiosk takes a reload and asks for its bundle; there is none without an
\* enabled display, and it keeps what it renders.
BundleRequest ==
  /\ fetch = NoFetch /\ reloads > 0 /\ reloads' = reloads - 1
  /\ fetch' = IF db.enabled THEN [at |-> "scope", part |-> ReadScope(db, isViewer)] ELSE NoFetch
  /\ lapsed' = ~db.enabled
  /\ UNCHANGED <<db, op, cfgStarted, isViewer, bundle, overlap>>

\* generateBundle goes on reading while handlers write.
generateBundle ==
  /\ fetch.at = "scope"
  /\ fetch' = [at |-> "layouts", part |-> ReadLayouts(db, fetch.part)]
  /\ UNCHANGED <<db, op, cfgStarted, isViewer, reloads, bundle, lapsed, overlap>>

\* The answer; a viewer gets none without a layout.
BundleDone ==
  /\ fetch.at = "layouts" /\ (isViewer => fetch.part.layouts # {})
  /\ fetch' = NoFetch /\ bundle' = ReadCameras(db, fetch.part, isViewer)
  /\ UNCHANGED <<db, op, cfgStarted, isViewer, reloads, lapsed, overlap>>

\* The request fails; the kiosk keeps what it renders.
BundleFails ==
  /\ fetch # NoFetch
  /\ fetch' = NoFetch /\ lapsed' = TRUE
  /\ UNCHANGED <<db, op, cfgStarted, isViewer, reloads, bundle, overlap>>

\* The bundle of the tables as they are.
Current(d, viewer) == ReadCameras(d, ReadLayouts(d, ReadScope(d, viewer)), viewer)
-----------------------------------------------------------------------------
CfgInit ==
  LET cam == CHOOSE c \in DeviceCams \cap Present : TRUE
      ent == CHOOSE e \in Entities : TRUE
      lay == CHOOSE l \in Layouts : TRUE
      row == CHOOSE c \in Cells : TRUE
  IN  /\ db = [layouts |-> {lay}, attached |-> {lay}, default |-> lay, enabled |-> TRUE,
               device |-> TRUE, cells |-> [c \in Cells |-> IF c = row THEN [layout |-> lay, entity |-> ent, camera |-> cam] ELSE NoRow],
               entities |-> [e \in Entities |-> IF e = ent THEN cam ELSE Null],
               cams |-> [c \in Cameras |-> IF c \in Present THEN Camera(TRUE, TRUE) ELSE Null],
               labeled |-> {}, devLabel |-> FALSE, operates |-> FALSE, prefs |-> 0, used |-> Present \cup {ent, lay, row}]
      /\ isViewer \in BOOLEAN
      /\ bundle = Current(db, isViewer)
      /\ op = [w \in Workers |-> NoHandler] /\ cfgStarted = 0
      /\ reloads = 0 /\ fetch = NoFetch
      /\ lapsed = FALSE /\ overlap = FALSE

CfgNext ==
  \/ \E w \in Workers : Start(w) \/ Run(w) \/ RunFails(w) \/ notifyKiosks(w)
  \/ BundleRequest \/ generateBundle \/ BundleDone \/ BundleFails

CfgSpec == CfgInit /\ [][CfgNext]_cfgVars
-----------------------------------------------------------------------------
\* The state has its types, and the references the foreign keys keep exist.
CfgTypeOK ==
  /\ db.attached \subseteq db.layouts /\ db.default \in db.layouts \cup {Null}
  /\ \A c \in Cells : /\ db.cells[c].layout \in db.layouts \cup {Null}
                      /\ db.cells[c].camera = Null \/ db.cams[db.cells[c].camera] # Null
  /\ \A e \in Entities : db.entities[e] \in Cameras => db.cams[db.entities[e]] # Null
  /\ reloads \in 0..MaxChanges /\ fetch.at \in {"none", "scope", "layouts"}

Settled == (\A w \in Workers : op[w] = NoHandler) /\ reloads = 0 /\ fetch = NoFetch /\ ~lapsed

\* A kiosk that missed no reload renders the configuration as it is, whichever
\* handlers and generations interleaved: each handler tells the kiosks after its
\* last write, so a bundle read in the middle of one is replaced.
BundleIsCurrent == Settled => bundle = Current(db, isViewer)

\* The bundle holds every enabled camera its cells show.  For a viewer the
\* cameras are taken from the cells; for other kiosks from the cells' own
\* column, which handlers that overlap may leave behind its entity.
BundleIsClosed ==
  (Settled /\ (isViewer \/ ~overlap)) =>
     {c \in CellCams(bundle.layouts) : Enabled(db, c)} \subseteq {p[1] : p \in bundle.cams}

\* The kiosk's bundle as a whole: the claims above.
BundleSafe == CfgTypeOK /\ BundleIsCurrent /\ BundleIsClosed
====
