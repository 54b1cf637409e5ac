------------------------------- MODULE NodeRed -------------------------------
(***************************************************************************)
(* Tenants and their Node-RED runtimes: the tenant rows and the reconcile  *)
(* queue of the server (routes-tenants, service-admin-http), and the       *)
(* manager process (deploy/nodered-manager) with its state file, its HTTP  *)
(* handlers and the child processes it spawns.                             *)
(*                                                                         *)
(* A handler of the manager is a call that advances from await to await;   *)
(* calls, exits of children, restart timers, timeouts of the server and a  *)
(* crash of the manager interleave freely.  A tenant stands for its slug,  *)
(* its id and its directory; the settings file, probes and flow deployment *)
(* of a runtime are the await between the check and the spawn.             *)
(***************************************************************************)
EXTENDS Integers, FiniteSets, FiniteSetsExt

CONSTANTS Tenants,      \* tenant ids
          Ports,        \* ports of the runtimes: MAX_TENANTS of them
          Attempts,     \* attempts of a reconcile (length of delaysMs)
          MaxProcs,     \* bound on children alive together
          MaxNrChanges,   \* bound on changes by administrators
          MaxCalls,     \* bound on calls under way in the manager
          MaxFaults     \* bound on timeouts, exits and crashes

ASSUME NoderedAssumption == Attempts \in Nat \ {0} /\ Ports \subseteq Nat \ {0}

VARIABLES
  row,      \* server: tenants table, "none" for no row
  changes,  \* number of changes so far
  queued,   \* server: reconciles scheduled behind the running one
  rec,      \* server: the running reconcile
  del,      \* server: the tenant whose deletion waits for the manager
  st,       \* manager: state.tenants
  file,     \* manager: STATE_FILE
  temp,     \* manager: STATE_FILE.tmp, if it is there
  calls,    \* manager: handlers and restarts under way
  rt,       \* manager: child of the registered runtime, 0 if none
  proc,     \* spawned children: owner, alive, stopping
  timers,   \* manager: restart timers
  faults, crashed,
  unsure    \* history: tenants the server failed to delete

serverVars == <<row, changes, queued, rec, del, unsure>>
diskVars == <<file, temp>>
runVars == <<rt, proc, timers>>
nrVars == <<serverVars, st, diskVars, calls, runVars, faults, crashed>>

NoEntry == [active |-> FALSE, port |-> 0]
NoFile == [t \in Tenants |-> NoEntry]
NoTemp == [there |-> FALSE, data |-> NoFile]
Procs == 1..MaxProcs
NoProc == [owner |-> "none", alive |-> FALSE, stopping |-> FALSE]
Idle == [pc |-> "idle", configs |-> [t \in Tenants |-> "none"], todo |-> {}, left |-> 0]
Known(t) == st[t] # NoEntry
Alive == {p \in Procs : proc[p].alive}
\* Process slots that cannot be reused: alive, or still waited for by stopRuntime.
InUse == Alive \cup {c.p : c \in calls}
-----------------------------------------------------------------------------
(* Server: tenants and reconciliation *)

Change == changes < MaxNrChanges /\ changes' = changes + 1

\* POST /admin/tenants: row and schema in one transaction, then a reconcile.
CreateTenant(t) ==
  /\ Change /\ row[t] = "none" /\ del # t
  /\ row' = [row EXCEPT ![t] = "active"] /\ queued' = queued + 1
  /\ UNCHANGED <<rec, del, st, diskVars, calls, runVars, faults, crashed, unsure>>

\* Mutant: an update that schedules no reconcile.
UpdateTenantQuiet(t, active) ==
  /\ Change /\ row[t] # "none"
  /\ row' = [row EXCEPT ![t] = active] /\ queued' = queued
  /\ UNCHANGED <<rec, del, st, diskVars, calls, runVars, faults, crashed, unsure>>

\* POST /admin/tenants/:id
UpdateTenant(t, active) ==
  /\ Change /\ row[t] # "none"
  /\ row' = [row EXCEPT ![t] = active] /\ queued' = queued + 1
  /\ UNCHANGED <<rec, del, st, diskVars, calls, runVars, faults, crashed, unsure>>

NewCall(kind, t, active) ==
  [kind |-> kind, t |-> t, active |-> active, pc |-> "arrived", snap |-> NoFile, p |-> 0,
   waited |-> kind # "restart"]

\* POST /admin/tenants/:id/delete: the manager archives the tenant first.
DeleteTenant(t) ==
  /\ Change /\ row[t] # "none" /\ del = "none"
  /\ Cardinality(calls) < MaxCalls
  /\ del' = t /\ calls' = calls \cup {NewCall("delete", t, FALSE)}
  /\ UNCHANGED <<row, queued, rec, st, diskVars, runVars, faults, crashed, unsure>>

\* scheduleNoderedReconcile runs one reconcile after the other; the rows are
\* read once (listNoderedTenantConfigs), before the first delay.
ReconcileStart ==
  /\ rec.pc = "idle" /\ queued > 0
  /\ queued' = queued - 1
  /\ rec' = [pc |-> "put", configs |-> row, left |-> Attempts,
             todo |-> {t \in Tenants : row[t] # "none"}]
  /\ UNCHANGED <<row, changes, del, st, diskVars, calls, runVars, faults, crashed, unsure>>

\* reconcileServerConfigs puts one tenant after the other.
ReconcilePut(t) ==
  /\ rec.pc = "put" /\ t \in rec.todo
  /\ Cardinality(calls) < MaxCalls
  /\ NewCall("put", t, rec.configs[t] = "active") \notin calls
  /\ calls' = calls \cup {NewCall("put", t, rec.configs[t] = "active")}
  /\ rec' = [rec EXCEPT !.pc = "await"]
  /\ UNCHANGED <<row, changes, queued, del, st, diskVars, runVars, faults, crashed, unsure>>

ReconcileDone ==
  /\ rec.pc = "put" /\ rec.todo = {}
  /\ rec' = Idle
  /\ UNCHANGED <<row, changes, queued, del, st, diskVars, calls, runVars, faults, crashed, unsure>>

\* What an answer to a PUT means for the reconcile: go on, or the next attempt
\* with all tenants, or give up.
Answered(t, ok) ==
  IF ok THEN [rec EXCEPT !.pc = "put", !.todo = @ \ {t}]
  ELSE IF rec.left = 1 THEN Idle
  ELSE [rec EXCEPT !.pc = "put", !.left = @ - 1, !.todo = {u \in Tenants : rec.configs[u] # "none"}]

\* An aborted upload never becomes a call; one that began goes on unheard.
Aborted(kind) == calls' = {IF c.kind = kind THEN [c EXCEPT !.waited = FALSE] ELSE c :
                             c \in {d \in calls : d.kind # kind \/ d.pc # "arrived"}}

\* The server stops waiting after three seconds.
PutTimeout ==
  /\ faults < MaxFaults /\ faults' = faults + 1
  /\ \E t \in rec.todo : rec.pc = "await" /\ rec' = Answered(t, FALSE)
  /\ Aborted("put")
  /\ UNCHANGED <<row, changes, queued, del, st, diskVars, runVars, crashed, unsure>>

\* deleteTenant of the bridge answers: the row goes, or the page says 503.
Deleted(ok) ==
  /\ del' = "none"
  /\ row' = IF ok THEN [row EXCEPT ![del] = "none"] ELSE row
  /\ queued' = IF ok THEN queued + 1 ELSE queued
  /\ unsure' = IF ok THEN unsure ELSE unsure \cup {del}

DeleteTimeout ==
  /\ faults < MaxFaults /\ faults' = faults + 1
  /\ del # "none" /\ Deleted(FALSE) /\ Aborted("delete")
  /\ UNCHANGED <<changes, rec, st, diskVars, runVars, crashed>>
-----------------------------------------------------------------------------
(* Manager: handlers *)

Goes(c, pc) == calls' = (calls \ {c}) \cup {[c EXCEPT !.pc = pc, !.p = 0]}
GoesSaved(c, pc) == calls' = (calls \ {c}) \cup {[c EXCEPT !.pc = pc, !.snap = NoFile]}

\* A call ends; the server hears of it unless it stopped waiting.
Ends(c, ok) ==
  /\ calls' = calls \ {c}
  /\ IF c.kind = "put" /\ c.waited THEN rec' = Answered(c.t, ok) /\ UNCHANGED <<row, queued, del, unsure>>
     ELSE IF c.kind = "delete" /\ c.waited THEN Deleted(ok) /\ rec' = rec
     ELSE UNCHANGED <<row, queued, del, unsure, rec>>
  /\ changes' = changes

\* nextPort: the first free port.
nextPort == Min(Ports \ {st[t].port : t \in {u \in Tenants : Known(u)}})

\* ensureTenant up to its first await: the entry is made or updated in memory,
\* and the state to save is fixed (JSON.stringify).
EnsureTenant(c) ==
  /\ c.kind = "put" /\ c.pc = "arrived"
  /\ IF ~Known(c.t) /\ Cardinality({t \in Tenants : Known(t)}) >= Cardinality(Ports)
     THEN Ends(c, FALSE) /\ UNCHANGED st
     ELSE /\ st' = [st EXCEPT ![c.t] = [active |-> c.active,
                                        port |-> IF Known(c.t) THEN @.port ELSE nextPort]]
          /\ calls' = (calls \ {c}) \cup {[c EXCEPT !.pc = "write", !.snap = st']}
          /\ UNCHANGED serverVars
  /\ UNCHANGED <<diskVars, runVars, faults, crashed>>

\* saveState: write the temporary file ...
SaveWrite(c) ==
  /\ c.pc = "write"
  /\ temp' = [there |-> TRUE, data |-> c.snap] /\ GoesSaved(c, "rename")
  /\ UNCHANGED <<serverVars, st, file, runVars, faults, crashed>>

\* ... and rename it: another save may have written or renamed it meanwhile.
SaveRename(c) ==
  /\ c.pc = "rename"
  /\ IF ~temp.there THEN Ends(c, FALSE) /\ UNCHANGED diskVars
     ELSE /\ file' = temp.data /\ temp' = NoTemp
          /\ IF c.kind = "delete" THEN Ends(c, TRUE)
             ELSE GoesSaved(c, IF (Known(c.t) /\ st[c.t].active) \/ (~Known(c.t) /\ c.active)
                               THEN "start" ELSE "stop") /\ UNCHANGED serverVars
  /\ UNCHANGED <<st, runVars, faults, crashed>>

\* startRuntime: nothing to do for a running child, else the awaits begin.
StartCheck(c) ==
  /\ c.pc = "start"
  /\ IF rt[c.t] \in Alive THEN Ends(c, TRUE) ELSE Goes(c, "spawn") /\ UNCHANGED serverVars
  /\ UNCHANGED <<st, diskVars, runVars, faults, crashed>>

\* The rest of startRuntime: the new runtime is registered and its child spawned.
Spawn(c) ==
  /\ c.pc = "spawn" /\ Procs \ InUse # {}
  /\ LET p == Min(Procs \ InUse)
     IN  /\ proc' = [proc EXCEPT ![p] = [owner |-> c.t, alive |-> TRUE, stopping |-> FALSE]]
         /\ rt' = [rt EXCEPT ![c.t] = p]
  /\ Ends(c, TRUE)
  /\ UNCHANGED <<st, diskVars, timers, faults, crashed>>

\* A child exits, stopped or not: its runtime forgets it, and a tenant that is
\* still active gets a restart timer.
ChildExit(p) ==
  /\ proc[p].alive
  /\ IF proc[p].stopping THEN faults' = faults ELSE faults < MaxFaults /\ faults' = faults + 1
  /\ LET t == proc[p].owner
     IN  /\ proc' = [proc EXCEPT ![p] = NoProc]
         /\ rt' = [rt EXCEPT ![t] = IF @ = p THEN 0 ELSE @]
         /\ timers' = IF ~proc[p].stopping /\ st[t].active THEN timers \cup {t} ELSE timers
  /\ UNCHANGED <<serverVars, st, diskVars, calls, crashed>>

\* The timer starts the runtime without looking at the state again.
RestartTimer(t) ==
  /\ t \in timers /\ Cardinality(calls) < MaxCalls
  /\ timers' = timers \ {t}
  /\ calls' = calls \cup {[NewCall("restart", t, TRUE) EXCEPT !.pc = "start"]}
  /\ UNCHANGED <<serverVars, st, diskVars, rt, proc, faults, crashed>>

\* deleteTenant: an unknown tenant is deleted already.
DeleteArrives(c) ==
  /\ c.kind = "delete" /\ c.pc = "arrived"
  /\ IF Known(c.t) THEN Goes(c, "stop") /\ UNCHANGED serverVars ELSE Ends(c, TRUE)
  /\ UNCHANGED <<st, diskVars, runVars, faults, crashed>>

\* stopRuntime: without a child there is nothing to stop.
StopBegin(c) ==
  /\ c.pc = "stop"
  /\ IF rt[c.t] = 0
     THEN /\ IF c.kind = "delete" THEN Goes(c, "archive") /\ UNCHANGED serverVars ELSE Ends(c, TRUE)
          /\ proc' = proc
     ELSE /\ proc' = [proc EXCEPT ![rt[c.t]].stopping = TRUE]
          /\ calls' = (calls \ {c}) \cup {[c EXCEPT !.pc = "stopping", !.p = rt[c.t]]}
          /\ UNCHANGED serverVars
  /\ UNCHANGED <<st, diskVars, rt, timers, faults, crashed>>

\* The child has exited, or is killed after ten seconds; the entry of the
\* tenant is removed from runtimes whatever it holds by now.
StopEnd(c) ==
  /\ c.pc = "stopping"
  /\ proc' = [proc EXCEPT ![c.p] = NoProc]
  /\ rt' = [rt EXCEPT ![c.t] = 0]
  /\ IF c.kind = "delete" THEN Goes(c, "archive") /\ UNCHANGED serverVars ELSE Ends(c, TRUE)
  /\ UNCHANGED <<st, diskVars, timers, faults, crashed>>

\* The directory is archived, the entry deleted, the state saved.
Archive(c) ==
  /\ c.pc = "archive"
  /\ st' = [st EXCEPT ![c.t] = NoEntry]
  /\ calls' = (calls \ {c}) \cup {[c EXCEPT !.pc = "write", !.snap = st']}
  /\ UNCHANGED <<serverVars, diskVars, runVars, faults, crashed>>

\* The manager's container dies with its children and starts again: loadState,
\* then every active tenant is started.
ManagerCrash ==
  /\ faults < MaxFaults /\ faults' = faults + 1 /\ crashed' = TRUE
  /\ st' = file
  /\ calls' = {[NewCall("restart", t, TRUE) EXCEPT !.pc = "start"] : t \in {u \in Tenants : file[u].active}}
  /\ rt' = [t \in Tenants |-> 0] /\ timers' = {}
  /\ proc' = [p \in Procs |-> NoProc]
  /\ rec' = IF rec.pc = "await" THEN CHOOSE r \in {Answered(t, FALSE) : t \in rec.todo} : TRUE ELSE rec
  /\ IF del # "none" THEN Deleted(FALSE) ELSE UNCHANGED <<row, queued, del, unsure>>
  /\ UNCHANGED <<changes, diskVars>>
-----------------------------------------------------------------------------
\* Both processes have just started, with the same tenants.
NrInit ==
  /\ \E K \in SUBSET Tenants, f \in [Tenants -> Ports] :
       /\ \A t, u \in K : t # u => f[t] # f[u]
       /\ \A t \in Tenants \ K : f[t] = Min(Ports)
       /\ row = [t \in Tenants |-> IF t \in K THEN "active" ELSE "none"]
       /\ st = [t \in Tenants |-> IF t \in K THEN [active |-> TRUE, port |-> f[t]] ELSE NoEntry]
  /\ changes = 0 /\ queued = 1
  /\ rec = Idle /\ del = "none"
  /\ file = st /\ temp = NoTemp
  /\ calls = {[NewCall("restart", t, TRUE) EXCEPT !.pc = "start"] : t \in {u \in Tenants : st[u].active}}
  /\ timers = {}
  /\ rt = [t \in Tenants |-> 0]
  /\ proc = [p \in Procs |-> NoProc]
  /\ faults = 0 /\ crashed = FALSE /\ unsure = {}

\* Steps the server and the manager take by themselves.
ServerStep == ReconcileStart \/ (\E t \in Tenants : ReconcilePut(t)) \/ ReconcileDone
CallStep == \E c \in calls : \/ EnsureTenant(c) \/ SaveWrite(c) \/ SaveRename(c)
                             \/ StartCheck(c) \/ Spawn(c)
                             \/ DeleteArrives(c) \/ StopBegin(c) \/ StopEnd(c) \/ Archive(c)

NrNext ==
  \/ \E t \in Tenants : \/ CreateTenant(t) \/ DeleteTenant(t)
                        \/ \E a \in {"active", "inactive"} : UpdateTenant(t, a)
  \/ ServerStep \/ PutTimeout \/ DeleteTimeout
  \/ CallStep
  \/ \E p \in Procs : ChildExit(p)
  \/ \E t \in Tenants : RestartTimer(t)
  \/ ManagerCrash

NrSpec == NrInit /\ [][NrNext]_nrVars

\* Timers and awaited calls of both processes end.
NrFairSpec == NrSpec /\ WF_nrVars(ServerStep) /\ WF_nrVars(CallStep)
-----------------------------------------------------------------------------
\* Types; the manager never keeps more tenants than it has ports.
NrTypeOK ==
  /\ row \in [Tenants -> {"none", "active", "inactive"}]
  /\ queued \in 0..(MaxNrChanges + 1) /\ rec.left \in 0..Attempts
  /\ del \in Tenants \cup {"none"}
  /\ \A s \in {st, file, temp.data} : \A t \in Tenants : s[t].port \in Ports \cup {0}
  /\ rt \in [Tenants -> 0..MaxProcs] /\ timers \subseteq Tenants
  /\ \A c \in calls : c.t \in Tenants

\* Two tenants never share a port, in memory or in the state file, whatever
\* was deleted, saved late or lost in a crash.
PortsDistinct ==
  \A s \in {st, file} : \A t, u \in Tenants :
    t # u /\ s[t] # NoEntry /\ s[u] # NoEntry => s[t].port # s[u].port

\* The manager knows every tenant whose deletion did not fail, with its state.
Agree == \A t \in Tenants \ unsure :
  row[t] # "none" /\ del # t => Known(t) /\ st[t].active = (row[t] = "active")

\* Without a crash of the manager, it agrees with the server in the end:
\* reconciles that time out, run from stale rows, or overlap are made up for.
TenantsConverge == <>[](crashed \/ Agree)

\* The manager as a whole: the claims above, along every behaviour.
TenantsServed == [][NrTypeOK' /\ PortsDistinct']_nrVars /\ TenantsConverge
====
