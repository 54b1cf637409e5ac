------------------------------ MODULE AbleSign ------------------------------
(***************************************************************************)
(* Digital signage: the admin routes keep local rows of AbleSign screens   *)
(* beside the service's own, and edit its playlists by reading a playlist, *)
(* changing it and putting it back.  A request is a sequence of database   *)
(* statements and calls of the service (external); requests interleave at  *)
(* each of them, and a call may fail after its ten seconds.                *)
(***************************************************************************)
EXTENDS Naturals, FiniteSets, Sequences, SequencesExt

CONSTANTS AsReqs,      \* request slots
          AsScreens,   \* screen ids the service gives out, naturals
          AsTitles,
          Owners,      \* playlists: the screen or the group they belong to
          Groups,      \* the owners that are groups
          MaxItems,    \* bound on the items ever added to a playlist
          MaxAsOps,    \* bound on requests
          MaxFaults    \* bound on failed calls

ASSUME AsAssumption ==
  /\ AsScreens \subseteq Nat \ {0} /\ IsFiniteSet(AsScreens) /\ Groups \subseteq Owners
  /\ {MaxItems, MaxAsOps, MaxFaults} \subseteq Nat

ContentKinds == {"website", "media", "folder", "group"}
Code == 0   \* the registration code that stands in for an unknown screen id

VARIABLES asAcct,      \* "none", "ok" or "error" (last_sync_error)
          asRemote,    \* [AsScreens -> title, "none" before and "gone" after its life]
          asRows,      \* ablesign_screens: [id, scr, title, token, kiosk]
          asEnt,       \* managed entities: [row, title]
          asReq,       \* [AsReqs -> the request under way]
          asList,      \* [Owners -> playlist of the service]
          asContent,   \* [ContentKinds -> 0 absent, 1 created, 2 updated]
          asIds,       \* row ids given
          asOps, asFaults,
          asVer,       \* history: [Owners -> number of changes]
          asWant,      \* history: [Owners -> items added and not removed]
          asClash,     \* history: a playlist was put back over a later one
          asStale      \* history: a screen left the service while a request held it or a
                       \* row other than the deleted one was its, or the account went

asVars == <<asAcct, asRemote, asRows, asEnt, asReq, asList, asContent, asIds, asOps, asFaults,
            asVer, asWant, asClash, asStale>>
serviceVars == <<asRemote, asList, asContent, asVer, asWant, asClash>>
localVars == <<asAcct, asRows, asEnt, asIds>>

FreeReq == [op |-> "free", pc |-> "free"]
EmptyList == [items |-> <<>>, shuffle |-> FALSE, images |-> FALSE]
Present(s) == s \in AsScreens /\ asRemote[s] \in AsTitles
RowOf(scr) == {r \in asRows : r.scr = scr}
Live(id) == \E r \in asRows : r.id = id

AsInit ==
  /\ asAcct \in {"none", "ok"}
  /\ \E t \in AsTitles, s \in AsScreens : asRemote = [[u \in AsScreens |-> "none"] EXCEPT ![s] = t]
  /\ asRows = {} /\ asEnt = {}
  /\ asReq = [q \in AsReqs |-> FreeReq]
  /\ asList = [o \in Owners |-> [EmptyList EXCEPT !.items = [i \in 1..2 |-> [id |-> i, long |-> FALSE]]]]
  /\ asContent = [k \in ContentKinds |-> 0]
  /\ asIds = 0 /\ asOps = 0 /\ asFaults = 0
  /\ asVer = [o \in Owners |-> 2] /\ asWant = [o \in Owners |-> {1, 2}]
  /\ asClash = FALSE /\ asStale = FALSE

Arrive(q, req) ==
  /\ asReq[q] = FreeReq /\ asOps < MaxAsOps
  /\ asOps' = asOps + 1
  /\ asReq' = [asReq EXCEPT ![q] = req]
To(q, req) == asReq' = [asReq EXCEPT ![q] = req] /\ UNCHANGED asOps
At(q, op, pc) == asReq[q].op = op /\ asReq[q].pc = pc
Fault == asFaults < MaxFaults /\ asFaults' = asFaults + 1
Works == UNCHANGED asFaults

\* apiFetch: a call either works or fails (an HTTP error, the timeout).
apiFetch(q, req, failed) ==
  \/ Works /\ To(q, req)
  \/ Fault /\ To(q, failed)

-----------------------------------------------------------------------------
(* Accounts and the sync of screens.                                       *)

SyncFor(q, from) == [op |-> "sync", pc |-> "list", from |-> from, todo |-> {}, cur |-> <<0, "">>, row |-> 0]

\* POST /admin/ablesign/add: the key is tested, the row stored, then a sync
\* whose failure is ignored.
addAccount(q) ==
  /\ asAcct = "none"
  /\ asAcct' = "ok"
  /\ Arrive(q, SyncFor(q, "add")) /\ Works
  /\ UNCHANGED <<asRows, asEnt, asIds, asStale>> /\ UNCHANGED serviceVars

\* POST /admin/ablesign/:id/sync, and the sync of every account at startup.
syncAccount(q) ==
  /\ asAcct # "none"
  /\ Arrive(q, SyncFor(q, "sync")) /\ Works
  /\ UNCHANGED asStale /\ UNCHANGED localVars /\ UNCHANGED serviceVars

\* POST /admin/ablesign/:id/delete: rows and entities cascade.
deleteAccount(q) ==
  /\ asAcct # "none" /\ asOps < MaxAsOps /\ asOps' = asOps + 1
  /\ asAcct' = "none" /\ asRows' = {} /\ asEnt' = {}
  /\ asStale' = TRUE
  /\ UNCHANGED <<asReq, asIds, asFaults>> /\ UNCHANGED serviceVars

\* The route's catch records a failed sync on the account; the others ignore it.
SyncFailed(q) == IF asReq[q].from = "sync" /\ asAcct # "none" THEN asAcct' = "error" ELSE UNCHANGED asAcct

\* listScreens.
syncList(q) ==
  /\ At(q, "sync", "list")
  /\ \/ /\ Works /\ UNCHANGED asAcct
        /\ To(q, [asReq[q] EXCEPT !.pc = "next",
                     !.todo = {<<s, asRemote[s]>> : s \in {t \in AsScreens : Present(t)}}])
     \/ Fault /\ SyncFailed(q) /\ To(q, FreeReq)
  /\ UNCHANGED <<asRows, asEnt, asIds, asStale>> /\ UNCHANGED serviceVars

\* upsertAbleSignScreen, first statement.
upsertSelect(q) ==
  /\ At(q, "sync", "next")
  /\ \E s \in asReq[q].todo :
       To(q, [asReq[q] EXCEPT !.pc = "write", !.cur = s, !.todo = @ \ {s},
                 !.row = IF RowOf(s[1]) = {} THEN 0 ELSE (CHOOSE r \in RowOf(s[1]) : TRUE).id])
  /\ Works /\ UNCHANGED asStale /\ UNCHANGED localVars /\ UNCHANGED serviceVars

NewRow(scr, title, token) ==
  [id |-> asIds + 1, scr |-> scr, title |-> title, token |-> token, kiosk |-> FALSE]

\* Mutant: the row is written anew.
upsertReplace(q) ==
  /\ At(q, "sync", "write") /\ asReq[q].row # 0
  /\ asRows' = {IF r.id = asReq[q].row THEN [r EXCEPT !.title = asReq[q].cur[2], !.token = FALSE] ELSE r
                  : r \in asRows}
  /\ To(q, [asReq[q] EXCEPT !.pc = "next"]) /\ Works
  /\ UNCHANGED <<asAcct, asEnt, asIds, asStale>> /\ UNCHANGED serviceVars

\* Second statement, the row was there: title and state are refreshed.
upsertUpdate(q) ==
  /\ At(q, "sync", "write") /\ asReq[q].row # 0
  /\ asRows' = {IF r.id = asReq[q].row THEN [r EXCEPT !.title = asReq[q].cur[2]] ELSE r : r \in asRows}
  /\ To(q, [asReq[q] EXCEPT !.pc = "next"]) /\ Works
  /\ UNCHANGED <<asAcct, asEnt, asIds, asStale>> /\ UNCHANGED serviceVars

\* createAbleSignScreen: the account must exist and (account, screen) be new;
\* otherwise the statement throws.
MayInsert(scr) == asAcct # "none" /\ RowOf(scr) = {}

\* Second statement, there was none: the insert, which a request that added the
\* same screen meanwhile makes fail, and the sync with it.
upsertInsert(q) ==
  /\ At(q, "sync", "write") /\ asReq[q].row = 0
  /\ IF MayInsert(asReq[q].cur[1])
     THEN /\ asRows' = asRows \cup {NewRow(asReq[q].cur[1], asReq[q].cur[2], FALSE)}
          /\ asIds' = asIds + 1
          /\ To(q, [asReq[q] EXCEPT !.pc = "next"]) /\ UNCHANGED asAcct
     ELSE SyncFailed(q) /\ To(q, FreeReq) /\ UNCHANGED <<asRows, asIds>>
  /\ Works /\ UNCHANGED <<asEnt, asStale>> /\ UNCHANGED serviceVars

\* The account row is closed with the count and no error.
syncEnd(q) ==
  /\ At(q, "sync", "next") /\ asReq[q].todo = {}
  /\ asAcct' = IF asAcct = "none" THEN "none" ELSE "ok"
  /\ To(q, FreeReq) /\ Works
  /\ UNCHANGED <<asRows, asEnt, asIds, asStale>> /\ UNCHANGED serviceVars

-----------------------------------------------------------------------------
(* Screens.                                                                *)

\* POST screens/add.
addScreen(q, title) ==
  /\ asAcct # "none"
  /\ Arrive(q, [op |-> "add", pc |-> "pair", title |-> title, scr |-> 0, token |-> FALSE, row |-> 0])
  /\ Works /\ UNCHANGED asStale /\ UNCHANGED localVars /\ UNCHANGED serviceVars

\* headlessPairScreen: the code is registered, which creates the screen, and
\* the registration polled five times for its id and token.
headlessPairScreen(q) ==
  /\ At(q, "add", "pair")
  /\ \/ Fault /\ To(q, FreeReq) /\ UNCHANGED asRemote
     \/ \E s \in {t \in AsScreens : asRemote[t] = "none"}, token, idKnown \in BOOLEAN :
          /\ Works
          /\ token => idKnown
          /\ asRemote' = [asRemote EXCEPT ![s] = asReq[q].title]
          /\ To(q, [asReq[q] EXCEPT !.pc = "row", !.scr = IF idKnown THEN s ELSE Code, !.token = token])
  /\ UNCHANGED <<asList, asContent, asVer, asWant, asClash, asStale>> /\ UNCHANGED localVars

\* createAbleSignScreen of the paired screen.
addRow(q) ==
  /\ At(q, "add", "row")
  /\ IF MayInsert(asReq[q].scr)
     THEN /\ asRows' = asRows \cup {NewRow(asReq[q].scr, asReq[q].title, asReq[q].token)}
          /\ asIds' = asIds + 1
          /\ To(q, [asReq[q] EXCEPT !.pc = "entity", !.row = asIds + 1])
     ELSE To(q, FreeReq) /\ UNCHANGED <<asRows, asIds>>
  /\ Works /\ UNCHANGED <<asAcct, asEnt, asStale>> /\ UNCHANGED serviceVars

\* createEntity of the row, whose name must be new; then the sync.
addEntity(q) ==
  /\ At(q, "add", "entity")
  /\ IF Live(asReq[q].row) /\ \A e \in asEnt : e.title # asReq[q].title
     THEN /\ asEnt' = asEnt \cup {[row |-> asReq[q].row, title |-> asReq[q].title]}
          /\ To(q, SyncFor(q, "add"))
     ELSE To(q, FreeReq) /\ UNCHANGED asEnt
  /\ Works /\ UNCHANGED <<asAcct, asRows, asIds, asStale>> /\ UNCHANGED serviceVars

\* POST screens/:sid/assign.
assignScreen(r) ==
  /\ asOps < MaxAsOps /\ asOps' = asOps + 1
  /\ asRows' = (asRows \ {r}) \cup {[r EXCEPT !.kiosk = ~@]}
  /\ UNCHANGED <<asAcct, asEnt, asIds, asReq, asFaults, asStale>> /\ UNCHANGED serviceVars

\* POST screens/:sid: the service first, then the row; a failure is swallowed.
updateScreen(q, r, title) ==
  /\ Arrive(q, [op |-> "update", pc |-> "remote", row |-> r.id, scr |-> r.scr, title |-> title])
  /\ Works /\ UNCHANGED asStale /\ UNCHANGED localVars /\ UNCHANGED serviceVars
updateScreenRemote(q) ==
  /\ At(q, "update", "remote")
  /\ IF Present(asReq[q].scr)
     THEN apiFetch(q, [asReq[q] EXCEPT !.pc = "row"], FreeReq)
          /\ asRemote' = IF asFaults' = asFaults THEN [asRemote EXCEPT ![asReq[q].scr] = asReq[q].title]
                         ELSE asRemote
     ELSE To(q, FreeReq) /\ Works /\ UNCHANGED asRemote
  /\ UNCHANGED <<asList, asContent, asVer, asWant, asClash, asStale>> /\ UNCHANGED localVars
updateScreenRow(q) ==
  /\ At(q, "update", "row")
  /\ asRows' = {IF r.id = asReq[q].row THEN [r EXCEPT !.title = asReq[q].title] ELSE r : r \in asRows}
  /\ To(q, FreeReq) /\ Works
  /\ UNCHANGED <<asAcct, asEnt, asIds, asStale>> /\ UNCHANGED serviceVars

\* A request that learned of the screen and may still insert its row: a sync
\* that has read the service's list, an add that has paired it.
Holding(scr) ==
  \E q \in AsReqs :
       \/ asReq[q].op = "sync" /\ asReq[q].pc # "list"
       \/ asReq[q].op = "add" /\ asReq[q].scr = scr

\* POST screens/:sid/delete: the service as far as it answers, then the row.
deleteScreen(q, r) ==
  /\ Arrive(q, [op |-> "delete", pc |-> "remote", row |-> r.id, scr |-> r.scr])
  /\ Works /\ UNCHANGED asStale /\ UNCHANGED localVars /\ UNCHANGED serviceVars

deleteScreenRemote(q) ==
  /\ At(q, "delete", "remote")
  /\ \/ /\ Works
        /\ asRemote' = [s \in AsScreens |-> IF s = asReq[q].scr THEN "gone" ELSE asRemote[s]]
        /\ asStale' = (asStale \/ Holding(asReq[q].scr)
                              \/ \E r \in RowOf(asReq[q].scr) : r.id # asReq[q].row)
     \/ Fault /\ UNCHANGED <<asRemote, asStale>>
  /\ To(q, [asReq[q] EXCEPT !.pc = "row"])
  /\ UNCHANGED <<asList, asContent, asVer, asWant, asClash>> /\ UNCHANGED localVars
deleteScreenRow(q) ==
  /\ At(q, "delete", "row")
  /\ asRows' = {r \in asRows : r.id # asReq[q].row}
  /\ asEnt' = {e \in asEnt : e.row # asReq[q].row}
  /\ To(q, FreeReq) /\ Works
  /\ UNCHANGED <<asAcct, asIds, asStale>> /\ UNCHANGED serviceVars

-----------------------------------------------------------------------------
(* Playlists: the playlist as read, changed by an index of the page.       *)

InList(pl, i) == i \in 1..Len(pl.items)

settings(pl, i) == [pl EXCEPT !.shuffle = ~@, !.images = ~@]
groupSettings(pl, i) == [pl EXCEPT !.shuffle = ~@]

\* reorder: item i and its neighbour change places (up from i + 1, down from i).
reorder(pl, i) ==
  IF InList(pl, i) /\ InList(pl, i + 1)
  THEN [pl EXCEPT !.items[i] = pl.items[i + 1], !.items[i + 1] = pl.items[i]] ELSE pl

removeItem(pl, i) == IF InList(pl, i) THEN [pl EXCEPT !.items = RemoveAt(@, i)] ELSE pl
updateItem(pl, i) == IF InList(pl, i) THEN [pl EXCEPT !.items[i].long = ~@] ELSE pl
groupReorder(pl, i) == reorder(pl, i)
groupRemoveItem(pl, i) == removeItem(pl, i)

Edited(op, o, pl, i) ==
  CASE op = "settings" -> IF o \in Groups THEN groupSettings(pl, i) ELSE settings(pl, i)
    [] op = "reorder" -> IF o \in Groups THEN groupReorder(pl, i) ELSE reorder(pl, i)
    [] op = "remove" -> IF o \in Groups THEN groupRemoveItem(pl, i) ELSE removeItem(pl, i)
    [] op = "item" -> updateItem(pl, i)

\* A playlist form is posted; only a screen's items are updated one by one.
postEdit(q, o, op, i) ==
  /\ asAcct # "none"
  /\ op = "item" => o \notin Groups
  /\ Arrive(q, [op |-> "edit", pc |-> "get", owner |-> o, what |-> op, i |-> i, pl |-> EmptyList, ver |-> 0])
  /\ Works /\ UNCHANGED asStale /\ UNCHANGED localVars /\ UNCHANGED serviceVars

getPlaylist(q) ==
  /\ At(q, "edit", "get")
  /\ LET o == asReq[q].owner
     IN apiFetch(q, [asReq[q] EXCEPT !.pc = "put", !.pl = asList[o], !.ver = asVer[o]], FreeReq)
  /\ UNCHANGED asStale /\ UNCHANGED localVars /\ UNCHANGED serviceVars

\* Nothing is put when the index fits no item.
savePlaylist(q) ==
  /\ At(q, "edit", "put")
  /\ LET o == asReq[q].owner
         pl == asReq[q].pl
         new == Edited(asReq[q].what, o, pl, asReq[q].i)
     IN \/ /\ new # pl /\ Works
           /\ asList' = [asList EXCEPT ![o] = new]
           /\ asVer' = [asVer EXCEPT ![o] = @ + 1]
           /\ asClash' = (asClash \/ asVer[o] # asReq[q].ver)
           /\ asWant' = IF asReq[q].what = "remove"
                        THEN [asWant EXCEPT ![o] = @ \ {pl.items[asReq[q].i].id}] ELSE asWant
        \/ /\ (new = pl /\ Works) \/ Fault
           /\ UNCHANGED <<asList, asVer, asClash, asWant>>
  /\ To(q, FreeReq)
  /\ UNCHANGED <<asRemote, asContent, asStale>> /\ UNCHANGED localVars

\* POST playlist/add-items: one call of the service, at either end.
Add(o, atStart) ==
  /\ asAcct # "none" /\ asVer[o] < MaxItems /\ asOps < MaxAsOps /\ asOps' = asOps + 1
  /\ LET it == [id |-> asVer[o] + 1, long |-> FALSE]
     IN /\ asList' = [asList EXCEPT ![o].items = IF atStart THEN <<it>> \o @ ELSE Append(@, it)]
        /\ asWant' = [asWant EXCEPT ![o] = @ \cup {it.id}]
        /\ asVer' = [asVer EXCEPT ![o] = @ + 1]
  /\ UNCHANGED <<asReq, asFaults, asRemote, asContent, asClash, asStale>> /\ UNCHANGED localVars

addPlaylistItems(o, atStart) == o \notin Groups /\ Add(o, atStart)
addGroupPlaylistItems(o, atStart) == o \in Groups /\ Add(o, atStart)

-----------------------------------------------------------------------------
(* Content of the service: one call each, for an account that exists.      *)

Content(kind, from, to) ==
  /\ asAcct # "none" /\ asContent[kind] \in from /\ asOps < MaxAsOps /\ asOps' = asOps + 1
  /\ asContent' = [asContent EXCEPT ![kind] = to]
  /\ UNCHANGED <<asReq, asFaults, asRemote, asList, asVer, asWant, asClash, asStale>>
  /\ UNCHANGED localVars

createWebApp == Content("website", {0}, 1)
updateWebApp == Content("website", {1, 2}, 2)
deleteWebApp == Content("website", {1, 2}, 0)
updateMediaFile == Content("media", {1, 2}, 2)
deleteMediaFile == Content("media", {1, 2}, 0)
createFolder == Content("folder", {0}, 1)
updateFolder == Content("folder", {1, 2}, 2)
deleteFolder == Content("folder", {1, 2}, 0)
createScreenGroup == Content("group", {0}, 1)
updateScreenGroup == Content("group", {1, 2}, 2)
setScreenGroupMembers == Content("group", {1, 2}, 2)
deleteScreenGroup == Content("group", {1, 2}, 0)

\* The upload of a media file: announced, put, finished; only then is it media.
initMediaUpload(q) ==
  /\ asAcct # "none" /\ asContent["media"] = 0
  /\ Arrive(q, [op |-> "upload", pc |-> "put"])
  /\ Works /\ UNCHANGED asStale /\ UNCHANGED localVars /\ UNCHANGED serviceVars
putMedia(q) ==
  /\ At(q, "upload", "put")
  /\ apiFetch(q, [asReq[q] EXCEPT !.pc = "finish"], FreeReq)
  /\ UNCHANGED asStale /\ UNCHANGED localVars /\ UNCHANGED serviceVars
finishMediaUpload(q) ==
  /\ At(q, "upload", "finish")
  /\ apiFetch(q, FreeReq, FreeReq)
  /\ asContent' = IF asFaults' = asFaults THEN [asContent EXCEPT !["media"] = 1] ELSE asContent
  /\ UNCHANGED <<asRemote, asList, asVer, asWant, asClash, asStale>> /\ UNCHANGED localVars

ContentStep ==
  \/ createWebApp \/ updateWebApp \/ deleteWebApp \/ updateMediaFile \/ deleteMediaFile
  \/ createFolder \/ updateFolder \/ deleteFolder
  \/ createScreenGroup \/ updateScreenGroup \/ setScreenGroupMembers \/ deleteScreenGroup
  \/ \E q \in AsReqs : initMediaUpload(q) \/ putMedia(q) \/ finishMediaUpload(q)

ScreenStep ==
  \/ \E q \in AsReqs :
       \/ addAccount(q) \/ syncAccount(q) \/ deleteAccount(q)
       \/ syncList(q) \/ upsertSelect(q) \/ upsertUpdate(q) \/ upsertInsert(q) \/ syncEnd(q)
       \/ headlessPairScreen(q) \/ addRow(q) \/ addEntity(q)
       \/ updateScreenRemote(q) \/ updateScreenRow(q)
       \/ deleteScreenRemote(q) \/ deleteScreenRow(q)
       \/ \E t \in AsTitles : addScreen(q, t)
       \/ \E r \in asRows : deleteScreen(q, r) \/ \E t \in AsTitles : updateScreen(q, r, t)
  \/ \E r \in asRows : assignScreen(r)

PlaylistStep ==
  \/ \E q \in AsReqs : \/ getPlaylist(q) \/ savePlaylist(q)
                       \/ \E o \in Owners, op \in {"settings", "reorder", "remove", "item"}, i \in 1..2 :
                            postEdit(q, o, op, i)
  \/ \E o \in Owners, atStart \in BOOLEAN :
       addPlaylistItems(o, atStart) \/ addGroupPlaylistItems(o, atStart)

AsNext == ScreenStep \/ PlaylistStep \/ ContentStep

AsSpec == AsInit /\ [][AsNext]_asVars

-----------------------------------------------------------------------------
\* Every playlist form but add-items puts a whole playlist back.  As long as
\* none was put over a later one, a playlist holds each item that was added and
\* not removed, once: no edit loses or doubles another item.
NoItemLost ==
  ~asClash => \A o \in Owners :
     /\ {it.id : it \in ToSet(asList[o].items)} = asWant[o]
     /\ Len(asList[o].items) = Cardinality(asWant[o])

\* The delete asks the service first, so that a sync started later cannot list
\* the screen.  A row of a screen the service no longer has is about to be
\* deleted, unless another request held the screen before it left, a row made
\* anew took the place of the one the delete names, or the account was deleted.
NoGhostRow ==
  ~asStale => \A r \in asRows : r.scr # Code /\ ~Present(r.scr)
     => \E q \in AsReqs : asReq[q].op = "delete" /\ asReq[q].row = r.id

\* Pairing gives a row its player token and the admin its kiosk; neither a sync
\* nor an update of the screen takes a token away while the row lives.
TokenKept ==
  [][\A r \in asRows, n \in asRows' : r.id = n.id /\ r.token => n.token]_asVars

\* AbleSign as a whole: the claims above.
ScreensSafe == NoItemLost /\ NoGhostRow

\* What every step keeps, as a whole: the claims above.
ScreensSteps == [][ScreensSafe']_asVars /\ TokenKept
=============================================================================
