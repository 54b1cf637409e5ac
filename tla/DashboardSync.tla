---------------------------- MODULE DashboardSync ----------------------------
(***************************************************************************)
(* Mirroring Node-RED dashboard tabs as entities                           *)
(* (syncDashboardsFromNodered, routes-admin.ts): run by the sync button    *)
(* and by every visit of the entities page, so two may overlap.  Each      *)
(* repository call is a step; entities.name is UNIQUE, dashboard_id not.   *)
(***************************************************************************)
EXTENDS Naturals, Sequences, FiniteSets

CONSTANTS
    DsTabs,         \* ids of Node-RED dashboard pages
    DsNames,        \* names pages and entities have
    DsHandlers,     \* requests that run the sync
    MaxDsRows,      \* bound: entity rows
    MaxDsRuns,      \* bound: syncs
    MaxDsChanges    \* bound: edits in Node-RED and by administrators

VARIABLES
    dsTabs,     \* the runtime's pages, in order: [tab, name]
    dsRows,     \* entities: [name, tab], a sequence (its index is the id)
    dsRun,      \* handler -> its sync
    dsRuns, dsChanges

dsVars == <<dsTabs, dsRows, dsRun, dsRuns, dsChanges>>

NoTab == "none"

ASSUME DashAssumption == IsFiniteSet(DsTabs) /\ NoTab \notin DsTabs

Plain(name) == <<name>>
Suffixed(name, tab) == <<name, tab>>       \* "<name> (dash <id>)"

NoRun == [at |-> "idle", todo |-> <<>>, row |-> 0, name |-> <<>>, calm |-> TRUE]

\* Lists of pages: no page twice.
Pages == { s \in UNION { [1..n -> [tab : DsTabs, name : DsNames]] : n \in 0..Cardinality(DsTabs) } :
             \A i, j \in DOMAIN s : i # j => s[i].tab # s[j].tab }

DashInit ==
    /\ dsTabs \in Pages
    /\ dsRows \in {<<>>} \cup { <<[name |-> Plain(n), tab |-> NoTab]>> : n \in DsNames }
    /\ dsRun = [h \in DsHandlers |-> NoRun]
    /\ dsRuns = 0
    /\ dsChanges = 0

\* What happens elsewhere: every other sync under way is no longer calm.
Stirred(run) == [h \in DsHandlers |-> [run[h] EXCEPT !.calm = FALSE]]

SetRun(h, run) == dsRun' = [dsRun EXCEPT ![h] = run]

DsFails(h) == SetRun(h, [dsRun[h] EXCEPT !.at = "failed"]) /\ UNCHANGED dsRows

NextTab(h) == [dsRun[h] EXCEPT !.at = "find", !.todo = Tail(@)]

-----------------------------------------------------------------------------
(* One sync.                                                                *)

\* listDashboards; a failure of the manager fails the sync.
ListDashboards(h) ==
    /\ dsRun[h].at \in {"idle", "done", "failed"}
    /\ dsRuns < MaxDsRuns
    /\ dsRuns' = dsRuns + 1
    /\ dsRun' = [Stirred(dsRun) EXCEPT ![h] =
                   [NoRun EXCEPT !.at = "find", !.todo = dsTabs,
                                 !.calm = \A o \in DsHandlers \ {h} :
                                            dsRun[o].at \in {"idle", "done", "failed"}]]
    /\ UNCHANGED <<dsTabs, dsRows, dsChanges>>

ListFails(h) ==
    /\ dsRun[h].at \in {"idle", "done"}
    /\ dsRuns < MaxDsRuns
    /\ dsRuns' = dsRuns + 1
    /\ SetRun(h, [NoRun EXCEPT !.at = "failed", !.calm = FALSE])
    /\ UNCHANGED <<dsTabs, dsRows, dsChanges>>

\* The rows getEntityForDashboard and getEntityByName may return.
getEntityForDashboard(tab) == { i \in DOMAIN dsRows : dsRows[i].tab = tab }
getEntityByName(name) == { i \in DOMAIN dsRows : dsRows[i].name = name }

\* existing: an unchanged name needs nothing, another one a check.
FindEntity(h) ==
    /\ dsRun[h].at = "find" /\ dsRun[h].todo # <<>>
    /\ LET page == Head(dsRun[h].todo)
           found == getEntityForDashboard(page.tab)
       IN  IF found = {}
           THEN SetRun(h, [dsRun[h] EXCEPT !.at = "name", !.row = 0])
           ELSE \E i \in found :
                  IF dsRows[i].name = Plain(page.name)
                  THEN SetRun(h, NextTab(h))
                  ELSE SetRun(h, [dsRun[h] EXCEPT !.at = "name", !.row = i])
    /\ UNCHANGED <<dsTabs, dsRows, dsRuns, dsChanges>>

plainName(page, row) == Plain(page.name)

\* Avoid name collisions with other entities of the same name.
safeName(page, row) ==
    IF getEntityByName(Plain(page.name)) \subseteq {row} THEN Plain(page.name)
    ELSE Suffixed(page.name, page.tab)

ChooseName(h) ==
    /\ dsRun[h].at = "name"
    /\ SetRun(h, [dsRun[h] EXCEPT !.at = "save",
                                  !.name = safeName(Head(dsRun[h].todo), dsRun[h].row)])
    /\ UNCHANGED <<dsTabs, dsRows, dsRuns, dsChanges>>

\* createEntity or updateEntity; a name taken meanwhile is a failure.
SaveEntity(h) ==
    /\ dsRun[h].at = "save"
    /\ LET run == dsRun[h]
           tab == Head(run.todo).tab
       IN  IF getEntityByName(run.name) \ {run.row} # {}
           THEN DsFails(h)
           ELSE /\ SetRun(h, NextTab(h))
                /\ IF run.row = 0
                   THEN /\ Len(dsRows) < MaxDsRows
                        /\ dsRows' = Append(dsRows, [name |-> run.name, tab |-> tab])
                   ELSE dsRows' = [dsRows EXCEPT ![run.row].name = run.name]
    /\ UNCHANGED <<dsTabs, dsRuns, dsChanges>>

DashSyncEnds(h) ==
    /\ dsRun[h].at = "find" /\ dsRun[h].todo = <<>>
    /\ SetRun(h, [dsRun[h] EXCEPT !.at = "done"])
    /\ UNCHANGED <<dsTabs, dsRows, dsRuns, dsChanges>>

-----------------------------------------------------------------------------
(* Others: deploys in Node-RED, and renames by an administrator.            *)

EditFlows ==
    /\ dsChanges < MaxDsChanges
    /\ dsChanges' = dsChanges + 1
    /\ \E pages \in Pages : pages # dsTabs /\ dsTabs' = pages
    /\ dsRun' = Stirred(dsRun)
    /\ UNCHANGED <<dsRows, dsRuns>>

RenameEntity ==
    /\ dsChanges < MaxDsChanges
    /\ dsChanges' = dsChanges + 1
    /\ \E i \in DOMAIN dsRows, n \in DsNames :
         /\ getEntityByName(Plain(n)) = {}
         /\ dsRows' = [dsRows EXCEPT ![i].name = Plain(n)]
    /\ dsRun' = Stirred(dsRun)
    /\ UNCHANGED <<dsTabs, dsRuns>>

DashNext ==
    \/ EditFlows \/ RenameEntity
    \/ \E h \in DsHandlers :
         \/ ListDashboards(h) \/ ListFails(h) \/ FindEntity(h) \/ ChooseName(h)
         \/ SaveEntity(h) \/ DashSyncEnds(h)

DashSpec == DashInit /\ [][DashNext]_dsVars

-----------------------------------------------------------------------------
(* Properties.                                                              *)

\* "Idempotent: existing entities matched by dashboard_id get name updates,
\* new tabs get inserted": never two entities for one page.
OneEntityPerPage ==
    \A i, j \in DOMAIN dsRows :
        dsRows[i].tab = dsRows[j].tab /\ dsRows[i].tab # NoTab => i = j

\* Where no page has two entities, a sync that nothing overlaps succeeds,
\* whatever names other entities have, and leaves an entity for every page.
CalmSyncMirrors ==
    OneEntityPerPage =>
        \A h \in DsHandlers : dsRun[h].calm =>
            /\ dsRun[h].at # "failed"
            /\ dsRun[h].at = "done" =>
                 \A i \in DOMAIN dsTabs : \E e \in DOMAIN dsRows : dsRows[e].tab = dsTabs[i].tab
=============================================================================
