---------------------------- MODULE DashboardGate ----------------------------
(***************************************************************************)
(* The Node-RED manager between the public and one tenant's runtime        *)
(* (deploy/nodered-manager/manager.mjs).  Public webhooks may reach every  *)
(* path of the tenant's flows except its dashboards, which need a login.   *)
(* Which paths are dashboards is discovered from the runtime and cached;   *)
(* editor requests and configuration deploys change the flows and must     *)
(* invalidate the cache.  Discovery, deploys and requests overlap, and     *)
(* the runtime may exit at any time.                                       *)
(***************************************************************************)
EXTENDS Naturals, FiniteSets

CONSTANTS
    GatePaths,      \* paths the tenant's flows serve
    GateReqs,       \* requests in flight
    GateEdits,      \* editor requests in flight
    MaxGateGen,     \* bound: invalidations
    MaxGateChild    \* bound: runtime processes

ASSUME GateAssumption == MaxGateGen \in Nat \ {0} /\ MaxGateChild \in Nat

VARIABLES
    gFlows,     \* the runtime: its dashboard roots and its revision
    gCache,     \* rootCache: roots, loading, generation, mutations, retryAfter
    gLoad,      \* generation -> the discovery started for it
    gReq,       \* request -> where it is
    gEdit,      \* editor request -> where it is
    gSync,      \* syncConfig
    gChild,     \* the runtime process: number, alive
    gProbe      \* runtimeReady

gVars == <<gFlows, gCache, gLoad, gReq, gEdit, gSync, gChild, gProbe>>

Unknown == [known |-> FALSE, paths |-> {}]
Roots(paths) == [known |-> TRUE, paths |-> paths]
NoLoading == 0
NoGateReq == [at |-> "none", public |-> FALSE, path |-> "none", gen |-> 0, headers |-> {}]
NoEdit == [at |-> "none", roots |-> {}]
NoSync == [at |-> "none", rev |-> 0, roots |-> {}]
NoLoad == [at |-> "none", paths |-> {}]
NoProbe == [at |-> "none", child |-> 0, by |-> 0]

AdminPath == "nrdp"

GateInit ==
    /\ gFlows \in [roots : SUBSET GatePaths, rev : {0}]
    /\ gCache = [roots |-> Unknown, loading |-> NoLoading, gen |-> 1, mutations |-> 0,
                 retryAfter |-> FALSE]
    /\ gLoad = [g \in 1..MaxGateGen |-> NoLoad]
    /\ gReq = [r \in GateReqs |-> NoGateReq]
    /\ gEdit = [e \in GateEdits |-> NoEdit]
    /\ gSync = NoSync
    /\ gChild = [n |-> 1, alive |-> TRUE]
    /\ gProbe = NoProbe

-----------------------------------------------------------------------------
(* The cache.                                                               *)

\* changingFlows: one mutation more or fewer, and nothing is known any more.
invalidate(cache, mutations) ==
    [roots |-> Unknown, loading |-> NoLoading, gen |-> cache.gen + 1,
     mutations |-> mutations, retryAfter |-> FALSE]

changingFlows ==
    /\ gCache.gen < MaxGateGen
    /\ gCache' = invalidate(gCache, gCache.mutations + 1)

\* The returned function; "close" and "error" both call it, the first counts.
finishChange ==
    /\ gCache.gen < MaxGateGen
    /\ gCache' = invalidate(gCache, gCache.mutations - 1)

\* runtimeFlows answers with the flows of the moment.
LoadRead(g) ==
    /\ gLoad[g].at = "asked"
    /\ gChild.alive
    /\ gLoad' = [gLoad EXCEPT ![g] = [at |-> "answered", paths |-> gFlows.roots]]
    /\ UNCHANGED <<gFlows, gCache, gReq, gEdit, gSync, gChild, gProbe>>

\* A discovery that an invalidation overtook is dropped.
storeRoots(g) ==
    IF gCache.gen # g THEN gCache
    ELSE [gCache EXCEPT !.roots = Roots(gLoad[g].paths), !.loading = NoLoading]

LoadDone(g) ==
    /\ gLoad[g].at = "answered"
    /\ gCache' = storeRoots(g)
    /\ gLoad' = [gLoad EXCEPT ![g] = NoLoad]
    /\ UNCHANGED <<gFlows, gReq, gEdit, gSync, gChild, gProbe>>

\* An error or three seconds without an answer.
LoadFails(g) ==
    /\ gLoad[g].at # "none"
    /\ gCache' = IF gCache.gen # g THEN gCache
                 ELSE [gCache EXCEPT !.retryAfter = TRUE, !.loading = NoLoading]
    /\ gLoad' = [gLoad EXCEPT ![g] = NoLoad]
    /\ UNCHANGED <<gFlows, gReq, gEdit, gSync, gChild, gProbe>>

RetryAfterPasses ==
    /\ gCache.retryAfter
    /\ gCache' = [gCache EXCEPT !.retryAfter = FALSE]
    /\ UNCHANGED <<gFlows, gLoad, gReq, gEdit, gSync, gChild, gProbe>>

-----------------------------------------------------------------------------
(* Requests.                                                                *)

\* runtimeHeaders: what of the caller's and the manager's credentials is sent.
\* The ingress sets x-betterframe-tenant after authentication.
runtimeHeaders(public, path) ==
    (IF public THEN {} ELSE {"dashboard-token", "display-scope"})
        \cup (IF path = AdminPath THEN {"runtime-token"} ELSE {})

GateEnds(r, at) ==
    gReq' = [gReq EXCEPT ![r].at = at,
                         ![r].headers = IF at = "passed"
                                        THEN runtimeHeaders(gReq[r].public, gReq[r].path) ELSE {}]

\* tenantForRequest: reserved paths are no public paths.
publicRuntimePath(path) == path # AdminPath

\* publicDashboardRequest, after the discovery it may have waited for.
dashboardClosed(cache, path) ==
    cache.mutations > 0 \/ ~cache.roots.known \/ path \in cache.roots.paths

GateRequestArrives(r, public, path) ==
    /\ gReq[r] = NoGateReq
    /\ gReq' = [gReq EXCEPT ![r] = [NoGateReq EXCEPT !.at = "arrived", !.public = public, !.path = path]]
    /\ UNCHANGED <<gFlows, gCache, gLoad, gEdit, gSync, gChild, gProbe>>

Refuse(r) ==
    /\ gReq[r].at = "arrived"
    /\ \/ gReq[r].public /\ ~publicRuntimePath(gReq[r].path)
       \/ ~gChild.alive
       \/ gReq[r].public /\ (gCache.mutations > 0 \/ gCache.retryAfter)
    /\ GateEnds(r, "refused")
    /\ UNCHANGED <<gFlows, gCache, gLoad, gEdit, gSync, gChild, gProbe>>

Open(r) ==
    /\ gReq[r].at = "arrived"
    /\ gChild.alive
    /\ gReq[r].public =>
         publicRuntimePath(gReq[r].path) /\ gCache.mutations = 0 /\ ~gCache.retryAfter

\* The request starts the discovery, or joins the one under way.
Discover(r) ==
    /\ Open(r) /\ gReq[r].public /\ ~gCache.roots.known
    /\ gReq' = [gReq EXCEPT ![r].at = "waiting", ![r].gen = gCache.gen]
    /\ IF gCache.loading # NoLoading
       THEN UNCHANGED <<gCache, gLoad>>
       ELSE /\ gCache' = [gCache EXCEPT !.loading = gCache.gen]
            /\ gLoad' = [gLoad EXCEPT ![gCache.gen] = [at |-> "asked", paths |-> {}]]
    /\ UNCHANGED <<gFlows, gEdit, gSync, gChild, gProbe>>

\* The gate decides; what passes is sent to the runtime.
Decide(r) ==
    /\ \/ Open(r) /\ (gReq[r].public => gCache.roots.known)
       \/ gReq[r].at = "waiting" /\ gLoad[gReq[r].gen].at = "none"
    /\ GateEnds(r, IF gReq[r].public /\ dashboardClosed(gCache, gReq[r].path)
                   THEN "refused" ELSE "passed")
    /\ UNCHANGED <<gFlows, gCache, gLoad, gEdit, gSync, gChild, gProbe>>

RequestDone(r) ==
    /\ gReq[r].at \in {"passed", "refused"}
    /\ gReq' = [gReq EXCEPT ![r] = NoGateReq]
    /\ UNCHANGED <<gFlows, gCache, gLoad, gEdit, gSync, gChild, gProbe>>

-----------------------------------------------------------------------------
(* Changes of the flows.                                                    *)

\* proxy: an authenticated editor request that is not a read.
EditBegins(e, roots) ==
    /\ gEdit[e] = NoEdit
    /\ gChild.alive
    /\ changingFlows
    /\ gEdit' = [gEdit EXCEPT ![e] = [at |-> "sent", roots |-> roots]]
    /\ UNCHANGED <<gFlows, gLoad, gReq, gSync, gChild, gProbe>>

\* The runtime deploys.
EditApplies(e) ==
    /\ gEdit[e].at = "sent"
    /\ gChild.alive
    /\ gFlows' = [roots |-> gEdit[e].roots, rev |-> gFlows.rev + 1]
    /\ gEdit' = [gEdit EXCEPT ![e].at = "applied"]
    /\ UNCHANGED <<gCache, gLoad, gReq, gSync, gChild, gProbe>>

\* The answer was relayed, or the connection failed: upstream closes.
EditEnds(e) ==
    /\ gEdit[e].at \in {"sent", "applied"}
    /\ finishChange
    /\ gEdit' = [gEdit EXCEPT ![e] = NoEdit]
    /\ UNCHANGED <<gFlows, gLoad, gReq, gSync, gChild, gProbe>>

\* syncConfig: GET flows with their revision.
SyncRead ==
    /\ gSync = NoSync
    /\ gChild.alive
    /\ gSync' = [at |-> "read", rev |-> gFlows.rev, roots |-> gFlows.roots]
    /\ UNCHANGED <<gFlows, gCache, gLoad, gReq, gEdit, gChild, gProbe>>

SyncSend ==
    /\ gSync.at = "read"
    /\ changingFlows
    /\ gSync' = [gSync EXCEPT !.at = "sent"]
    /\ UNCHANGED <<gFlows, gLoad, gReq, gEdit, gChild, gProbe>>

\* Node-RED refuses a POST of flows whose revision is no longer its own.
RevisionMatches(sync) == sync.rev = gFlows.rev

SyncApplies ==
    /\ gSync.at = "sent"
    /\ gChild.alive
    /\ IF RevisionMatches(gSync)
       THEN gFlows' = [roots |-> gSync.roots, rev |-> gFlows.rev + 1]
       ELSE gFlows' = gFlows
    /\ gSync' = [gSync EXCEPT !.at = "applied"]
    /\ UNCHANGED <<gCache, gLoad, gReq, gEdit, gChild, gProbe>>

ConfigSyncEnds ==
    /\ gSync.at \in {"sent", "applied"}
    /\ finishChange
    /\ gSync' = NoSync
    /\ UNCHANGED <<gFlows, gLoad, gReq, gEdit, gChild, gProbe>>

-----------------------------------------------------------------------------
(* The runtime process and the readiness probe.                             *)

RuntimeExits ==
    /\ gChild.alive
    /\ gChild' = [gChild EXCEPT !.alive = FALSE]
    /\ UNCHANGED <<gFlows, gCache, gLoad, gReq, gEdit, gSync, gProbe>>

RuntimeStarts ==
    /\ ~gChild.alive /\ gChild.n < MaxGateChild
    /\ gChild' = [n |-> gChild.n + 1, alive |-> TRUE]
    /\ UNCHANGED <<gFlows, gCache, gLoad, gReq, gEdit, gSync, gProbe>>

\* runtimeReady: the child at the start of the probe.
ProbeBegins ==
    /\ gProbe.at \in {"none", "ready", "not_ready"}
    /\ gProbe' = IF gChild.alive THEN [at |-> "asked", child |-> gChild.n, by |-> 0]
                 ELSE [NoProbe EXCEPT !.at = "not_ready"]
    /\ UNCHANGED <<gFlows, gCache, gLoad, gReq, gEdit, gSync, gChild>>

ProbeAnswered ==
    /\ gProbe.at = "asked"
    /\ gChild.alive
    /\ gProbe' = [gProbe EXCEPT !.at = "answered", !.by = gChild.n]
    /\ UNCHANGED <<gFlows, gCache, gLoad, gReq, gEdit, gSync, gChild>>

readyAnyhow(probe) == TRUE

\* The child that was probed is still the runtime's child and still runs.
stillRunning(probe) == gChild.alive /\ probe.child = gChild.n

ProbeEnds ==
    /\ gProbe.at \in {"asked", "answered"}
    /\ gProbe' = [gProbe EXCEPT !.at =
                    IF gProbe.at = "answered" /\ stillRunning(gProbe) THEN "ready" ELSE "not_ready"]
    /\ UNCHANGED <<gFlows, gCache, gLoad, gReq, gEdit, gSync, gChild>>

GateNext ==
    \/ RetryAfterPasses \/ SyncRead \/ SyncSend \/ SyncApplies \/ ConfigSyncEnds
    \/ RuntimeExits \/ RuntimeStarts \/ ProbeBegins \/ ProbeAnswered \/ ProbeEnds
    \/ \E g \in 1..MaxGateGen : LoadRead(g) \/ LoadDone(g) \/ LoadFails(g)
    \/ \E r \in GateReqs :
         \/ Refuse(r) \/ Discover(r) \/ Decide(r) \/ RequestDone(r)
         \/ \E public \in BOOLEAN, path \in GatePaths \cup {AdminPath} : GateRequestArrives(r, public, path)
    \/ \E e \in GateEdits :
         \/ EditApplies(e) \/ EditEnds(e)
         \/ \E roots \in SUBSET GatePaths : EditBegins(e, roots)

GateSpec == GateInit /\ [][GateNext]_gVars

-----------------------------------------------------------------------------
(* Properties.                                                              *)

\* A public request that passes goes to a path that is no dashboard of the
\* runtime at that moment, whatever discovery and deploys overlapped it, and
\* carries none of the manager's credentials.
PublicNeverReachesDashboard ==
    [][\A r \in GateReqs :
         (gReq[r].at # "passed" /\ gReq'[r].at = "passed" /\ gReq[r].public) =>
            gReq[r].path \notin gFlows.roots /\ gReq'[r].headers = {}]_gVars

\* The number of mutations the cache counts is the number under way: a count
\* that stays above zero (or falls below) closes the webhooks for good.
MutationsCounted ==
    gCache.mutations = Cardinality({ e \in GateEdits : gEdit[e] # NoEdit })
                         + (IF gSync.at \in {"sent", "applied"} THEN 1 ELSE 0)

\* A request never joins a discovery that has ended: it would refuse every
\* later request until the next deploy.
LoadingIsLive ==
    gCache.loading # NoLoading => gLoad[gCache.loading].at # "none"

\* A configuration deploy never undoes what the editor deployed since it read
\* the flows.
ConfigKeepsDeploys == [][(gSync'.at = "applied" /\ gSync.at = "sent") => gFlows'.roots = gFlows.roots]_gVars

\* Readiness is reported only when the process that answered is the one that
\* runs: an old process that answers before it exits does not qualify the next.
ReadyIsRunning ==
    [][(gProbe.at = "answered" /\ gProbe'.at = "ready") =>
         gChild.alive /\ gProbe.by = gChild.n]_gVars

\* The gate's state as a whole: the claims above.
GateSafe == MutationsCounted /\ LoadingIsLive

\* What every step of the gate keeps, as a whole: the claims above.
GateSteps ==
  /\ [][GateSafe']_gVars
  /\ PublicNeverReachesDashboard /\ ConfigKeepsDeploys /\ ReadyIsRunning
========================================
