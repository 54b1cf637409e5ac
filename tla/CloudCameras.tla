---------------------------- MODULE CloudCameras ----------------------------
(***************************************************************************)
(* Cloud camera accounts: syncCloudAccount asks a vendor for its cameras   *)
(* and makes the local cameras agree, statement by statement, while other  *)
(* syncs run, the vendor's list changes and the account may be deleted.    *)
(* What a vendor's module answers when its service fails is part of the    *)
(* model: some answer with an exception, most with a shorter list.         *)
(***************************************************************************)
EXTENDS Naturals, FiniteSets, Sequences

CONSTANTS Cams,          \* vendor camera ids, naturals
          CamNames,      \* names a vendor gives a camera
          CloudVendors,  \* the vendor modules of this instance
          Syncs,         \* sync requests that may be under way
          MaxRows,       \* bound on the camera rows ever inserted
          MaxChanges     \* bound on changes at the vendor and on failures

NoCam == "none"

ASSUME CloudAssumption ==
  /\ Cams \subseteq Nat \ {0} /\ IsFiniteSet(Cams) /\ 1 \in Cams
  /\ CamNames # {} /\ NoCam \notin CamNames
  /\ CloudVendors \subseteq {"hikconnect", "ezviz", "eagle_eye", "tuya", "dahua", "uniview", "tplink",
                            "reolink"}
  /\ MaxRows \in Nat /\ MaxChanges \in Nat

Throws == <<<<0, NoCam>>>>   \* stands for an exception: no camera is 0
DefaultName == CHOOSE n \in CamNames : TRUE

VARIABLES cvendor,    \* vendor of the account
          cremote,    \* [Cams -> CamNames \cup {NoCam}], what the vendor really has
          cacct,      \* account row: [alive, count, error]
          crows,      \* camera rows, [id, cam, name, ent], ent: the camera's entities
          csync,      \* [Syncs -> state of a sync request]
          crowId,     \* ids given to rows
          cchanges,   \* changes and failures so far
          crenamed,   \* history: a camera was answered under a second name
          cfailed,    \* history: a statement failed
          cmoved      \* history: [Syncs -> something else happened since the sync began]

cloudVars == <<cvendor, cremote, cacct, crows, csync, crowId, cchanges, crenamed, cfailed,
               cmoved>>

IdleSync == [pc |-> "idle", list |-> <<>>, i |-> 1, row |-> 0]

-----------------------------------------------------------------------------
(* What listCameras answers: a sequence of <<camera, name>>, or it throws. *)

Present == {<<c, cremote[c]>> : c \in {c \in Cams : cremote[c] # NoCam}}

\* The whole list, in whatever order.
Listings == {l \in [1..Cardinality(Present) -> Present] : \A p \in Present : \E k \in DOMAIN l : l[k] = p}
FirstPages == UNION {{SubSeq(l, 1, n) : n \in 0..Len(l)} : l \in Listings}

\* A paged list: no token is no camera, a page that fails ends the list, a
\* page that times out throws.
HikConnectList == FirstPages \cup {Throws}
EzvizList == FirstPages \cup {Throws}
EagleEyeList == FirstPages \cup {Throws}

\* One request: it fails to an empty list, the token request may throw.
TuyaList == Listings \cup {<<>>, Throws}

\* One request to the device, every failure caught: an empty list.
DahuaList == Listings \cup {<<>>}

\* An unreachable device counts as one with its first channel only.
UniviewList == Listings \cup {<<>>, <<<<1, DefaultName>>>>}

\* No list at all: the host the account names is the camera.
TpLinkList == {<<<<1, DefaultName>>>>}
ReolinkList == {<<<<1, DefaultName>>>>}

listCameras ==
  CASE cvendor = "hikconnect" -> HikConnectList
    [] cvendor = "ezviz" -> EzvizList
    [] cvendor = "eagle_eye" -> EagleEyeList
    [] cvendor = "tuya" -> TuyaList
    [] cvendor = "dahua" -> DahuaList
    [] cvendor = "uniview" -> UniviewList
    [] cvendor = "tplink" -> TpLinkList
    [] cvendor = "reolink" -> ReolinkList

-----------------------------------------------------------------------------
CloudInit ==
  /\ cvendor \in CloudVendors
  /\ cremote \in {f \in [Cams -> CamNames \cup {NoCam}] : f[1] = DefaultName}
  /\ cacct = [alive |-> FALSE, count |-> 0, error |-> FALSE]
  /\ crows = {}
  /\ csync = [s \in Syncs |-> IdleSync]
  /\ crowId = 0 /\ cchanges = 0 /\ crenamed = FALSE /\ cfailed = FALSE
  /\ cmoved = [s \in Syncs |-> FALSE]

\* Every other sync under way has seen the database or the vendor change.
Disturb(s) == cmoved' = [t \in Syncs |-> IF t = s THEN cmoved[t] ELSE TRUE]
Calm == UNCHANGED cmoved
Goto(s, pc) == csync' = [csync EXCEPT ![s].pc = pc]
Cam(s) == csync[s].list[csync[s].i][1]
Name(s) == csync[s].list[csync[s].i][2]
RowsOf(c) == {r \in crows : r.cam = c}

\* POST /admin/cloud-accounts/add: the credentials are tested, then stored.
createCloudAccount ==
  /\ ~cacct.alive /\ crows = {}
  /\ cacct' = [cacct EXCEPT !.alive = TRUE]
  /\ UNCHANGED <<cvendor, cremote, crows, csync, crowId, cchanges, crenamed, cfailed, cmoved>>

\* POST /admin/cloud-accounts/:id/delete.  cameras.cloud_account_id is no
\* foreign key: the account's cameras stay.
deleteCloudAccount ==
  /\ cacct.alive
  /\ cacct' = [cacct EXCEPT !.alive = FALSE]
  /\ cmoved' = [s \in Syncs |-> TRUE]
  /\ UNCHANGED <<cvendor, cremote, crows, csync, crowId, cchanges, crenamed, cfailed>>

\* POST /admin/cloud-accounts/:id/sync reads the account.
SyncStart(s) ==
  /\ csync[s].pc = "idle" /\ cacct.alive
  /\ csync' = [csync EXCEPT ![s] = [IdleSync EXCEPT !.pc = "list"]]
  /\ cmoved' = [t \in Syncs |-> IF t = s THEN \E u \in Syncs : csync[u].pc # "idle" ELSE TRUE]
  /\ UNCHANGED <<cvendor, cremote, cacct, crows, crowId, cchanges, crenamed, cfailed>>

\* The vendor answers; an answer other than its list is a failure.
SyncList(s) ==
  /\ csync[s].pc = "list"
  /\ \E a \in listCameras :
       /\ cchanges' = cchanges + (IF a \in Listings THEN 0 ELSE 1) /\ cchanges' <= MaxChanges
       /\ IF a = Throws THEN Goto(s, "failed")
          ELSE csync' = [csync EXCEPT ![s].list = a,
                                      ![s].pc = IF a = <<>> THEN "prune" ELSE "select"]
       /\ cmoved' = [cmoved EXCEPT ![s] = @ \/ a \notin Listings]
       /\ crenamed' = (crenamed \/ (a # Throws /\ \E k \in DOMAIN a : a[k][2] # cremote[a[k][1]]))
  /\ UNCHANGED <<cvendor, cremote, cacct, crows, crowId, cfailed>>

\* upsertCloudCamera, first statement: is there a row of this vendor camera?
UpsertSelect(s) ==
  /\ csync[s].pc = "select"
  /\ \E r \in RowsOf(Cam(s)) \cup {[id |-> 0, cam |-> Cam(s), name |-> Name(s), ent |-> 0]} :
       /\ (r.id = 0) <=> (RowsOf(Cam(s)) = {})
       /\ csync' = [csync EXCEPT ![s].row = r.id, ![s].pc = "write"]
  /\ Calm
  /\ UNCHANGED <<cvendor, cremote, cacct, crows, crowId, cchanges, crenamed, cfailed>>

After(s) == IF csync[s].i = Len(csync[s].list) THEN "prune" ELSE "select"
NextCam(s) == csync' = [csync EXCEPT ![s].pc = After(s), ![s].i = @ + 1]
NameFree(n, id) == \A r \in crows : r.name = n => r.id = id

\* Second statement, the row was there: UPDATE of that row, if it still is.
UpsertUpdate(s) ==
  /\ csync[s].pc = "write" /\ csync[s].row # 0
  /\ IF \A r \in crows : r.id = csync[s].row => NameFree(Name(s), r.id)
     THEN /\ crows' = {IF r.id = csync[s].row THEN [r EXCEPT !.name = Name(s)] ELSE r : r \in crows}
          /\ NextCam(s) /\ UNCHANGED cfailed
     ELSE Goto(s, "failed") /\ cfailed' = TRUE /\ UNCHANGED crows
  /\ Disturb(s)
  /\ UNCHANGED <<cvendor, cremote, cacct, crowId, cchanges, crenamed>>

\* Mutant: the name of a camera need not be free.
InsertAny(s) ==
  /\ csync[s].pc = "write" /\ csync[s].row = 0 /\ crowId < MaxRows
  /\ crowId' = crowId + 1
  /\ crows' = crows \cup {[id |-> crowId', cam |-> Cam(s), name |-> Name(s), ent |-> 0]}
  /\ csync' = [csync EXCEPT ![s].pc = "entity", ![s].row = crowId']
  /\ Disturb(s)
  /\ UNCHANGED <<cvendor, cremote, cacct, cchanges, crenamed, cfailed>>

\* Second statement, there was none: INSERT, whose name must be unused.
UpsertInsert(s) ==
  /\ csync[s].pc = "write" /\ csync[s].row = 0 /\ crowId < MaxRows
  /\ IF NameFree(Name(s), 0)
     THEN /\ crowId' = crowId + 1
          /\ crows' = crows \cup {[id |-> crowId', cam |-> Cam(s), name |-> Name(s), ent |-> 0]}
          /\ csync' = [csync EXCEPT ![s].pc = "entity", ![s].row = crowId']
          /\ UNCHANGED cfailed
     ELSE Goto(s, "failed") /\ cfailed' = TRUE /\ UNCHANGED <<crowId, crows>>
  /\ Disturb(s)
  /\ UNCHANGED <<cvendor, cremote, cacct, cchanges, crenamed>>

\* ensureCameraEntity of the inserted row; when the row is gone meanwhile the
\* insert of the entity fails on its foreign key.
ensureCameraEntity(s) ==
  /\ csync[s].pc = "entity"
  /\ IF \E r \in crows : r.id = csync[s].row
     THEN /\ crows' = {IF r.id = csync[s].row THEN [r EXCEPT !.ent = 1] ELSE r : r \in crows}
          /\ NextCam(s) /\ UNCHANGED cfailed
     ELSE Goto(s, "failed") /\ cfailed' = TRUE /\ UNCHANGED crows
  /\ Calm
  /\ UNCHANGED <<cvendor, cremote, cacct, crowId, cchanges, crenamed>>

Kept(s) == {csync[s].list[k][1] : k \in DOMAIN csync[s].list}

\* deleteCloudCamerasNotIn: every camera of the account that the list lacks,
\* all of them when the list is empty; the entities go with them.
deleteCloudCamerasNotIn(s) ==
  /\ csync[s].pc = "prune"
  /\ crows' = {r \in crows : r.cam \in Kept(s)}
  /\ Goto(s, "finish") /\ Disturb(s)
  /\ UNCHANGED <<cvendor, cremote, cacct, crowId, cchanges, crenamed, cfailed>>

\* updateCloudAccount closes the sync; on a deleted account it changes no row.
updateCloudAccount(s) ==
  /\ csync[s].pc \in {"finish", "failed"}
  /\ cacct' = IF ~cacct.alive THEN cacct
              ELSE IF csync[s].pc = "failed" THEN [cacct EXCEPT !.error = TRUE]
              ELSE [cacct EXCEPT !.error = FALSE, !.count = Len(csync[s].list)]
  /\ csync' = [csync EXCEPT ![s] = IdleSync]
  /\ Disturb(s)
  /\ UNCHANGED <<cvendor, cremote, crows, crowId, cchanges, crenamed, cfailed>>

\* The database fails a statement: the sync's catch records the error.
StatementFails(s) ==
  /\ csync[s].pc \in {"select", "write", "entity", "prune"} /\ cchanges < MaxChanges
  /\ cchanges' = cchanges + 1 /\ cfailed' = TRUE
  /\ Goto(s, "failed") /\ Calm
  /\ UNCHANGED <<cvendor, cremote, cacct, crows, crowId, crenamed>>

\* A camera is added, renamed or removed at the vendor.
VendorChanges(c, n) ==
  /\ cremote[c] # n /\ cchanges < MaxChanges
  /\ cremote' = [cremote EXCEPT ![c] = n]
  /\ cchanges' = cchanges + 1
  /\ crenamed' = (crenamed \/ n # NoCam)
  /\ cmoved' = [s \in Syncs |-> TRUE]
  /\ UNCHANGED <<cvendor, cacct, crows, csync, crowId, cfailed>>

CloudNext ==
  \/ createCloudAccount \/ deleteCloudAccount
  \/ \E s \in Syncs : \/ SyncStart(s) \/ SyncList(s) \/ UpsertSelect(s) \/ UpsertUpdate(s)
                      \/ UpsertInsert(s) \/ ensureCameraEntity(s) \/ deleteCloudCamerasNotIn(s)
                      \/ updateCloudAccount(s) \/ StatementFails(s)
  \/ \E c \in Cams, n \in CamNames \cup {NoCam} : VendorChanges(c, n)

CloudSpec == CloudInit /\ [][CloudNext]_cloudVars

-----------------------------------------------------------------------------
NoTwin == \A r, q \in crows : r.cam = q.cam => r.id = q.id

\* A sync that ran alone, on a full answer and with no twin rows to begin with has
\* made the local cameras the vendor's: the same cameras, under their names
\* ("Creates new cameras, updates existing, deletes removed", routes-cloud.ts).
SyncConverges ==
  \A s \in Syncs : csync[s].pc = "finish" /\ ~cmoved[s] /\ NoTwin
     => {<<r.cam, r.name>> : r \in crows} = Present

\* The upsert looks a vendor camera up and inserts it in two statements and
\* (account, vendor camera) is not unique: two syncs may both find nothing.
\* The unique name stops the second insert, unless the vendor answered
\* them different names (a rename, or the fallback channel of an unreachable device).
OneRowPerVendorCamera ==
  ~crenamed => NoTwin

\* The upsert creates the camera's entity only with the row.  Without a failed
\* statement every camera row has its entity, or its insert is still under way.
CameraPickable ==
  ~cfailed => \A r \in crows :
    r.ent = 1 \/ \E s \in Syncs : csync[s].pc = "entity" /\ csync[s].row = r.id

\* Cloud cameras as a whole: the claims above.
CloudSafe == SyncConverges /\ OneRowPerVendorCamera /\ CameraPickable
=============================================================================
