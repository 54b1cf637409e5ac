---------------------------- MODULE UpdatePolicy ----------------------------
(***************************************************************************)
(* The Linux kiosk's update gate: which update preferences the kiosk acts  *)
(* on, and which updates a preference change stops.                        *)
(*                                                                         *)
(* update_recovery.rs keeps the last policy a heartbeat delivered in       *)
(* update-policy.json so that the recovery thread can still update a kiosk *)
(* whose server is unreachable.  Heartbeats are sent by several threads    *)
(* and answered in any order; a CancelUpdates message invalidates what was *)
(* saved until a heartbeat started afterwards brings its replacement.      *)
(* ui.rs starts one update worker per kind (OS, app) from three threads.   *)
(*                                                                         *)
(* A policy is abstracted to its revision: how many times the              *)
(* administrator has changed it on the server.  Whether the maintenance    *)
(* window of a policy is open is a nondeterministic choice.                *)
(***************************************************************************)
EXTENDS Integers, FiniteSets

CONSTANTS
  Kinds,        \* kinds of update the installation runs: "os", "fw"
  Slots,        \* threads that may have a heartbeat in flight
  MaxRev,       \* bound: administrator changes
  MaxRequest,   \* bound: heartbeats started by one process
  MaxGeneration,\* bound: cancellations handled by one process
  MaxRestart    \* bound: process restarts

ASSUME KindsAssumption == Kinds \subseteq {"os", "fw"}

ASSUME BoundsAssumption ==
  /\ MaxRev \in Nat /\ MaxRequest \in Nat
  /\ MaxGeneration \in Nat /\ MaxRestart \in Nat

Starters == {"main", "recovery", "ws"}   \* the threads that start workers
None     == -1                           \* no policy file / empty cache

VARIABLES
  serverRev,   \* the server's current policy revision
  cancels,     \* revisions whose CancelUpdates message is still on the wire
  generation, next_request, last_saved,  \* POLICY_WRITE
  fresh,       \* LAST_HEARTBEAT is less than 120 s old
  hbs,         \* heartbeats in flight, per slot
  policy,      \* update-policy.json (durable)
  suspended,   \* update-policy.suspended (durable)
  cached,      \* CACHED_FIRMWARE_CHANNEL and its three siblings
  cancelFlag,  \* CANCEL_REQUESTED of os_update.rs and firmware.rs
  active,      \* OS_UPDATE_ACTIVE, FIRMWARE_ACTIVE
  applyActive, \* UPDATE_APPLY_ACTIVE
  starter,     \* program counters of the threads that start workers
  worker,      \* the update workers
  wsRev,       \* history: the change whose CancelUpdates the ws thread handles
  lastCancel,  \* history: newest change whose suspension marker was written
  doomed,      \* history: workers running when a cancellation was requested
  restarts

policyVars  == <<generation, next_request, last_saved, fresh>>
fileVars    == <<policy, suspended>>
workerVars  == <<active, applyActive, worker, doomed>>
vars == <<serverRev, cancels, policyVars, hbs, fileVars, cached, cancelFlag,
          workerVars, starter, wsRev, lastCancel, restarts>>

Revs == 0..MaxRev

IdleHb     == [stage |-> "idle", generation |-> 0, sequence |-> 0, rev |-> 0]
IdleStart  == [pc |-> "idle", force |-> FALSE]
IdleWorker == [pc |-> "off", rev |-> 0, recovery |-> FALSE, force |-> FALSE]

Heartbeats == [stage : {"idle", "sent", "answered", "recorded"},
               generation : 0..MaxGeneration, sequence : 0..MaxRequest, rev : Revs]
StarterStates == [pc : {"idle", "os", "os_clear", "fw", "fw_clear", "suspend"},
                  force : BOOLEAN]
WorkerStates == [pc : {"off", "checking", "selected", "applying", "committed"},
                 rev : Revs, recovery : BOOLEAN, force : BOOLEAN]

TypeOK ==
  /\ serverRev \in Revs
  /\ cancels \subseteq Revs
  /\ generation \in 0..MaxGeneration
  /\ next_request \in 0..MaxRequest
  /\ last_saved \in 0..MaxRequest
  /\ fresh \in BOOLEAN
  /\ hbs \in [Slots -> Heartbeats]
  /\ policy \in Revs \cup {None}
  /\ suspended \in BOOLEAN
  /\ cached \in Revs \cup {None}
  /\ cancelFlag \in [Kinds -> BOOLEAN]
  /\ active \in [Kinds -> BOOLEAN]
  /\ applyActive \in BOOLEAN
  /\ starter \in [Starters -> StarterStates]
  /\ worker \in [Kinds -> WorkerStates]
  /\ wsRev \in Revs
  /\ lastCancel \in Revs
  /\ doomed \in [Kinds -> BOOLEAN]
  /\ restarts \in 0..MaxRestart

Init ==
  /\ serverRev = 0 /\ cancels = {}
  /\ generation = 0 /\ next_request = 0 /\ last_saved = 0 /\ fresh = FALSE
  /\ hbs = [s \in Slots |-> IdleHb]
  /\ policy = None /\ suspended = FALSE /\ cached = None
  /\ cancelFlag = [k \in Kinds |-> FALSE]
  /\ active = [k \in Kinds |-> FALSE] /\ applyActive = FALSE
  /\ starter = [t \in Starters |-> IdleStart]
  /\ worker = [k \in Kinds |-> IdleWorker]
  /\ wsRev = 0 /\ lastCancel = 0 /\ doomed = [k \in Kinds |-> FALSE]
  /\ restarts = 0

-----------------------------------------------------------------------------
(* The server: an administrator saves new preferences, then CancelUpdates  *)
(* is sent over the kiosk's WebSocket, which may lose it.                  *)

AdminChange ==
  /\ serverRev < MaxRev
  /\ serverRev' = serverRev + 1
  /\ cancels' = cancels \cup {serverRev + 1}
  /\ UNCHANGED <<policyVars, hbs, fileVars, cached, cancelFlag, workerVars,
                 starter, wsRev, lastCancel, restarts>>

LoseCancel ==
  /\ \E r \in cancels : cancels' = cancels \ {r}
  /\ UNCHANGED <<serverRev, policyVars, hbs, fileVars, cached, cancelFlag,
                 workerVars, starter, wsRev, lastCancel, restarts>>

-----------------------------------------------------------------------------
(* Heartbeats.                                                             *)

begin_heartbeat(s) ==
  /\ hbs[s].stage = "idle"
  /\ next_request < MaxRequest
  /\ next_request' = next_request + 1
  /\ hbs' = [hbs EXCEPT ![s] = [stage |-> "sent", generation |-> generation,
                                sequence |-> next_request + 1, rev |-> 0]]
  /\ UNCHANGED <<serverRev, cancels, generation, last_saved, fresh, fileVars,
                 cached, cancelFlag, workerVars, starter, wsRev, lastCancel, restarts>>

(* The server samples its current preferences into the response.           *)
HeartbeatAnswered(s) ==
  /\ hbs[s].stage = "sent"
  /\ hbs' = [hbs EXCEPT ![s].stage = "answered", ![s].rev = serverRev]
  /\ UNCHANGED <<serverRev, cancels, policyVars, fileVars, cached, cancelFlag,
                 workerVars, starter, wsRev, lastCancel, restarts>>

(* Timeout, 401, 5xx or an unreadable body: the response is not used.      *)
HeartbeatFails(s) ==
  /\ hbs[s].stage \in {"sent", "answered"}
  /\ hbs' = [hbs EXCEPT ![s] = IdleHb]
  /\ UNCHANGED <<serverRev, cancels, policyVars, fileVars, cached, cancelFlag,
                 workerVars, starter, wsRev, lastCancel, restarts>>

(* What save() can leave on disk: success, a failure before the rename,    *)
(* or a failed directory sync after the new file has been published.       *)
SaveOutcomes == {"saved", "unwritten", "published_unsynced"}

(* Mutant: the response's generation is not compared.                      *)
AcceptsAnyGeneration(h) == h.sequence > last_saved

Accepts(h) == h.generation = generation /\ h.sequence > last_saved

(* A response without a usable schedule only refreshes LAST_HEARTBEAT.     *)
record_heartbeat(s) ==
  LET h == hbs[s] IN
  /\ h.stage = "answered"
  /\ fresh' = TRUE
  /\ hbs' = [hbs EXCEPT ![s].stage = "recorded"]
  /\ \/ UNCHANGED <<fileVars, last_saved>> \* no schedule, or not accepted
     \/ \E outcome \in SaveOutcomes :
          /\ Accepts(h)
          /\ policy' = IF outcome = "unwritten" THEN policy ELSE h.rev
          /\ last_saved' = IF outcome = "saved" THEN h.sequence ELSE last_saved
          /\ suspended' = IF outcome = "saved" THEN FALSE ELSE suspended
  /\ UNCHANGED <<serverRev, cancels, generation, next_request, cached, cancelFlag,
                 workerVars, starter, wsRev, lastCancel, restarts>>

Running(k) == worker[k].pc \in {"checking", "selected", "applying"}

(* request_cancel() of both updaters.                                      *)
cancel_active_updates ==
  /\ cancelFlag' = [k \in Kinds |-> TRUE]
  /\ doomed' = [k \in Kinds |-> doomed[k] \/ Running(k)]

(* The cached channel and pin are overwritten by every response, in        *)
(* arrival order; a difference cancels active updates.                     *)
update_cached_update_preferences(s) ==
  /\ hbs[s].stage = "recorded"
  /\ cached' = hbs[s].rev
  /\ IF cached \notin {None, hbs[s].rev}
       THEN cancel_active_updates
       ELSE UNCHANGED <<cancelFlag, doomed>>
  /\ hbs' = [hbs EXCEPT ![s] = IdleHb]
  /\ UNCHANGED <<serverRev, cancels, policyVars, fileVars, active, applyActive,
                 worker, starter, wsRev, lastCancel, restarts>>

(* Two minutes pass without a valid heartbeat.                             *)
HeartbeatGoesStale ==
  /\ fresh
  /\ fresh' = FALSE
  /\ UNCHANGED <<serverRev, cancels, generation, next_request, last_saved, hbs,
                 fileVars, cached, cancelFlag, workerVars, starter, wsRev,
                 lastCancel, restarts>>

-----------------------------------------------------------------------------
(* ServerMsg::CancelUpdates, in the order the ws thread executes it.       *)

CancelUpdates ==
  /\ starter["ws"].pc = "idle"
  /\ \E r \in cancels :
       /\ \A other \in cancels : r <= other
       /\ cancels' = cancels \ {r}
       /\ wsRev' = r
  /\ cancel_active_updates
  /\ starter' = [starter EXCEPT !["ws"].pc = "suspend"]
  /\ UNCHANGED <<serverRev, policyVars, hbs, fileVars, cached, active,
                 applyActive, worker, lastCancel, restarts>>

(* clear_cached_update_preferences; writing the marker may fail.           *)
suspend ==
  /\ starter["ws"].pc = "suspend"
  /\ generation < MaxGeneration
  /\ generation' = generation + 1
  /\ cached' = None
  /\ \/ suspended' = TRUE /\ lastCancel' = wsRev
     \/ UNCHANGED <<suspended, lastCancel>>
  /\ starter' = [starter EXCEPT !["ws"] = IdleStart]
  /\ UNCHANGED <<serverRev, cancels, next_request, last_saved, fresh, hbs, policy,
                 cancelFlag, workerVars, wsRev, restarts>>

-----------------------------------------------------------------------------
(* Gates.  The maintenance window is left open nondeterministically, so    *)
(* each gate is a necessary condition only.                                *)

usable == policy # None /\ ~suspended

allowed == usable

auto_updates_allowed == (policy # None) => allowed

(* The main loop and the recovery thread pass their gate, then try both    *)
(* kinds in turn; a push from the server tries one kind.                   *)
MainLoopTick ==
  /\ Kinds # {}   \* with both kinds disabled the tick does nothing
  /\ starter["main"].pc = "idle"
  /\ auto_updates_allowed
  /\ starter' = [starter EXCEPT !["main"].pc = "os"]
  /\ UNCHANGED <<serverRev, cancels, policyVars, hbs, fileVars, cached, cancelFlag,
                 workerVars, wsRev, lastCancel, restarts>>

RecoveryTick ==
  /\ Kinds # {}
  /\ starter["recovery"].pc = "idle"
  /\ ~fresh
  /\ allowed
  /\ starter' = [starter EXCEPT !["recovery"].pc = "os"]
  /\ UNCHANGED <<serverRev, cancels, policyVars, hbs, fileVars, cached, cancelFlag,
                 workerVars, wsRev, lastCancel, restarts>>

PushCheck(k) ==
  /\ starter["ws"].pc = "idle"
  /\ \E force \in BOOLEAN :
       /\ force \/ auto_updates_allowed
       /\ starter' = [starter EXCEPT !["ws"] = [pc |-> k, force |-> force]]
  /\ UNCHANGED <<serverRev, cancels, policyVars, hbs, fileVars, cached, cancelFlag,
                 workerVars, wsRev, lastCancel, restarts>>

NextPc(t, k) == IF t # "ws" /\ k = "os" THEN [starter[t] EXCEPT !.pc = "fw"] ELSE IdleStart
ClearPc(k)   == IF k = "os" THEN "os_clear" ELSE "fw_clear"

(* maybe_apply_* returns early: deferred by a rate limit, this kind of     *)
(* update disabled, or (OS) the current boot not yet confirmed.            *)
SkipKind(t, k) ==
  /\ starter[t].pc = k
  /\ starter' = [starter EXCEPT ![t] = NextPc(t, k)]
  /\ UNCHANGED <<serverRev, cancels, policyVars, hbs, fileVars, cached, cancelFlag,
                 workerVars, wsRev, lastCancel, restarts>>

(* Mutant: clear_cancel runs before the ACTIVE flag is won.                *)
TryStartClearFirst(t, k) ==
  /\ starter[t].pc = k
  /\ cancelFlag' = [cancelFlag EXCEPT ![k] = FALSE]
  /\ IF active[k]
       THEN /\ starter' = [starter EXCEPT ![t] = NextPc(t, k)]
            /\ UNCHANGED active
       ELSE /\ starter' = [starter EXCEPT ![t].pc = ClearPc(k)]
            /\ active' = [active EXCEPT ![k] = TRUE]
  /\ UNCHANGED <<serverRev, cancels, policyVars, hbs, fileVars, cached,
                 applyActive, worker, doomed, wsRev, lastCancel, restarts>>

(* maybe_apply_*: compare-and-set of the kind's ACTIVE flag.               *)
TryStart(t, k) ==
  /\ starter[t].pc = k
  /\ IF active[k]
       THEN /\ starter' = [starter EXCEPT ![t] = NextPc(t, k)]
            /\ UNCHANGED active
       ELSE /\ starter' = [starter EXCEPT ![t].pc = ClearPc(k)]
            /\ active' = [active EXCEPT ![k] = TRUE]
  /\ UNCHANGED <<serverRev, cancels, policyVars, hbs, fileVars, cached, cancelFlag,
                 applyActive, worker, doomed, wsRev, lastCancel, restarts>>

(* ... then clear_cancel and the spawn of the worker thread.               *)
Spawn(t, k) ==
  /\ starter[t].pc = ClearPc(k)
  /\ cancelFlag' = [cancelFlag EXCEPT ![k] = FALSE]
  /\ worker' = [worker EXCEPT ![k] = [pc |-> "checking", rev |-> 0,
                                      recovery |-> t = "recovery",
                                      force |-> starter[t].force]]
  /\ starter' = [starter EXCEPT ![t] = NextPc(t, k)]
  /\ UNCHANGED <<serverRev, cancels, policyVars, hbs, fileVars, cached, active,
                 applyActive, doomed, wsRev, lastCancel, restarts>>

-----------------------------------------------------------------------------
(* The worker thread.                                                      *)

(* The release to install is selected by the server's preferences, or in   *)
(* recovery by the saved ones.  policy_for refuses a suspended policy.     *)
WorkerCheck(k) ==
  /\ worker[k].pc = "checking"
  /\ worker[k].recovery => usable
  /\ worker' = [worker EXCEPT ![k].pc = "selected",
                              ![k].rev = IF worker[k].recovery THEN policy ELSE serverRev]
  /\ UNCHANGED <<serverRev, cancels, policyVars, hbs, fileVars, cached, cancelFlag,
                 active, applyActive, doomed, starter, wsRev, lastCancel, restarts>>

(* The second gate, then UPDATE_APPLY_ACTIVE.                              *)
WorkerApply(k) ==
  /\ worker[k].pc = "selected"
  /\ worker[k].force \/ auto_updates_allowed
  /\ ~applyActive
  /\ applyActive' = TRUE
  /\ worker' = [worker EXCEPT ![k].pc = "applying"]
  /\ UNCHANGED <<serverRev, cancels, policyVars, hbs, fileVars, cached, cancelFlag,
                 active, doomed, starter, wsRev, lastCancel, restarts>>

(* No release, blocked version, closed gate, other apply active, or a      *)
(* failed, deferred or cancelled apply: the worker ends.                   *)
WorkerEnds(k) ==
  /\ Running(k)
  /\ applyActive' = (applyActive /\ worker[k].pc # "applying")
  /\ active' = [active EXCEPT ![k] = FALSE]
  /\ worker' = [worker EXCEPT ![k] = IdleWorker]
  /\ doomed' = [doomed EXCEPT ![k] = FALSE]
  /\ UNCHANGED <<serverRev, cancels, policyVars, hbs, fileVars, cached, cancelFlag,
                 starter, wsRev, lastCancel, restarts>>

(* The last cancellation check, after which the swap (or rauc install) is  *)
(* finished even if a cancellation arrives.                                *)
WorkerCommits(k) ==
  /\ worker[k].pc = "applying"
  /\ ~cancelFlag[k]
  /\ worker' = [worker EXCEPT ![k].pc = "committed"]
  /\ UNCHANGED <<serverRev, cancels, policyVars, hbs, fileVars, cached, cancelFlag,
                 active, applyActive, doomed, starter, wsRev, lastCancel, restarts>>

(* The process exits (after a swap, a reboot or a crash) and systemd       *)
(* starts it again: only the two files survive.                            *)
Restart ==
  /\ restarts < MaxRestart
  /\ restarts' = restarts + 1
  /\ generation' = 0 /\ next_request' = 0 /\ last_saved' = 0 /\ fresh' = FALSE
  /\ hbs' = [s \in Slots |-> IdleHb]
  /\ cached' = None
  /\ cancelFlag' = [k \in Kinds |-> FALSE]
  /\ active' = [k \in Kinds |-> FALSE] /\ applyActive' = FALSE
  /\ starter' = [t \in Starters |-> IdleStart]
  /\ worker' = [k \in Kinds |-> IdleWorker]
  /\ doomed' = [k \in Kinds |-> FALSE]
  /\ UNCHANGED <<serverRev, cancels, fileVars, wsRev, lastCancel>>

HeartbeatStep(s) ==
  \/ begin_heartbeat(s) \/ HeartbeatAnswered(s) \/ HeartbeatFails(s)
  \/ record_heartbeat(s) \/ update_cached_update_preferences(s)

WorkerStep(k) ==
  \/ PushCheck(k) \/ WorkerCheck(k) \/ WorkerApply(k) \/ WorkerEnds(k) \/ WorkerCommits(k)
  \/ \E t \in Starters : TryStart(t, k) \/ Spawn(t, k)

Next ==
  \/ AdminChange \/ LoseCancel \/ HeartbeatGoesStale
  \/ CancelUpdates \/ suspend
  \/ MainLoopTick \/ RecoveryTick \/ Restart
  \/ \E s \in Slots : HeartbeatStep(s)
  \/ \E k \in Kinds : WorkerStep(k)
  \/ \E t \in Starters, k \in {"os", "fw"} : SkipKind(t, k)

Spec == Init /\ [][Next]_vars

-----------------------------------------------------------------------------
(* A policy the gates accept is never older than a change whose            *)
(* suspension marker reached the disk: neither a response already in       *)
(* flight when the cancellation arrived nor one that survives a restart    *)
(* brings the invalidated preferences back.                                *)
UsablePolicyIsCurrent == usable => policy >= lastCancel

(* A worker that was already running when a cancellation was requested     *)
(* never passes its commit point: no later start of a worker clears the    *)
(* cancellation flag it has yet to look at.                                *)
CancelReachesWorkers == \A k \in Kinds : worker[k].pc = "committed" => ~doomed[k]

(* The OS installer and the app swap are never in progress together, and   *)
(* a kind's worker exists only under that kind's ACTIVE flag.              *)
ApplyExclusive ==
  /\ Cardinality({k \in Kinds : worker[k].pc \in {"applying", "committed"}}) <= 1
  /\ \A k \in Kinds : worker[k].pc # "off" => active[k]

(* The update workers as a whole: the claims above.                        *)
WorkersSafe == TypeOK /\ CancelReachesWorkers /\ ApplyExclusive

=============================================================================
