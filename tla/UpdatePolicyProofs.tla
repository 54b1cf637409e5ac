------------------------- MODULE UpdatePolicyProofs -------------------------
(***************************************************************************)
(* For every number of threads, changes, heartbeats and restarts: the      *)
(* update gate never accepts preferences that a handled cancellation has   *)
(* invalidated, and the update workers neither overlap nor miss a          *)
(* cancellation.                                                           *)
(***************************************************************************)
EXTENDS UpdatePolicy, FiniteSetTheorems, TLAPS

(* A response of the current generation was requested after the last       *)
(* suspension, so it carries preferences at least as new as that change.   *)
ResponsesAreCurrent ==
  \A s \in Slots :
    /\ hbs[s].generation <= generation
    /\ (hbs[s].stage = "answered" /\ hbs[s].generation = generation)
         => hbs[s].rev >= lastCancel

(* Every cancellation on the wire or in the ws thread is about a change    *)
(* the server has already saved.                                           *)
CancelsAreSaved ==
  /\ \A r \in cancels : r <= serverRev
  /\ wsRev <= serverRev
  /\ lastCancel <= serverRev

PolicyInv == TypeOK /\ CancelsAreSaved /\ ResponsesAreCurrent /\ UsablePolicyIsCurrent

-----------------------------------------------------------------------------
(* The records of the threads, and the updates the actions make to them.   *)
LEMMA IdleTypes == IdleHb \in Heartbeats /\ IdleStart \in StarterStates /\ IdleWorker \in WorkerStates
BY BoundsAssumption DEF IdleHb, IdleStart, IdleWorker, Heartbeats, StarterStates, WorkerStates, Revs

LEMMA StarterMoves ==
  ASSUME NEW st \in StarterStates,
         NEW p \in {"idle", "os", "os_clear", "fw", "fw_clear", "suspend"}
  PROVE  [st EXCEPT !.pc = p] \in StarterStates
BY DEF StarterStates

LEMMA WorkerMoves ==
  ASSUME NEW w \in WorkerStates,
         NEW p \in {"off", "checking", "selected", "applying", "committed"}, NEW r \in Revs
  PROVE  [w EXCEPT !.pc = p] \in WorkerStates /\ [w EXCEPT !.pc = p, !.rev = r] \in WorkerStates
BY DEF WorkerStates

LEMMA HeartbeatMoves ==
  ASSUME NEW h \in Heartbeats, NEW g \in {"idle", "sent", "answered", "recorded"}, NEW r \in Revs
  PROVE  [h EXCEPT !.stage = g] \in Heartbeats /\ [h EXCEPT !.stage = g, !.rev = r] \in Heartbeats
BY DEF Heartbeats

(* The state each step leaves has the declared types.                      *)
LEMMA TypeStep == TypeOK /\ [Next]_vars => TypeOK'
<1> SUFFICES ASSUME TypeOK, [Next]_vars PROVE TypeOK'
  OBVIOUS
<1> USE BoundsAssumption, KindsAssumption, IdleTypes
<1> USE DEF TypeOK, Starters, policyVars, fileVars, workerVars
<1>1. CASE AdminChange BY <1>1 DEF AdminChange, Revs
<1>2. CASE LoseCancel BY <1>2 DEF LoseCancel
<1>3. CASE HeartbeatGoesStale BY <1>3 DEF HeartbeatGoesStale
<1>4. CASE CancelUpdates
  <2>1. starter' \in [Starters -> StarterStates]
    BY <1>4, StarterMoves DEF CancelUpdates
  <2> QED BY <1>4, <2>1 DEF CancelUpdates, cancel_active_updates, Running
<1>5. CASE suspend
  <2>1. generation' \in 0..MaxGeneration BY <1>5 DEF suspend
  <2>2. suspended' \in BOOLEAN /\ lastCancel' \in Revs BY <1>5 DEF suspend
  <2>3. starter' \in [Starters -> StarterStates] BY <1>5 DEF suspend
  <2>4. UNCHANGED <<serverRev, cancels, next_request, last_saved, fresh, hbs, policy,
                    cancelFlag, active, applyActive, worker, doomed, wsRev, restarts>>
    BY <1>5 DEF suspend
  <2>5. cached' \in Revs \cup {None} BY <1>5 DEF suspend
  <2> QED BY <2>1, <2>2, <2>3, <2>4, <2>5
<1>6. CASE MainLoopTick BY <1>6, StarterMoves DEF MainLoopTick
<1>7. CASE RecoveryTick BY <1>7, StarterMoves DEF RecoveryTick
<1>8. CASE Restart
  <2>1. /\ generation' \in 0..MaxGeneration /\ next_request' \in 0..MaxRequest
        /\ last_saved' \in 0..MaxRequest /\ restarts' \in 0..MaxRestart
    BY <1>8 DEF Restart
  <2>2. /\ fresh' \in BOOLEAN /\ applyActive' \in BOOLEAN
        /\ cancelFlag' \in [Kinds -> BOOLEAN] /\ active' \in [Kinds -> BOOLEAN]
        /\ doomed' \in [Kinds -> BOOLEAN] /\ cached' \in Revs \cup {None}
    BY <1>8 DEF Restart
  <2>3. /\ hbs' \in [Slots -> Heartbeats] /\ starter' \in [Starters -> StarterStates]
        /\ worker' \in [Kinds -> WorkerStates]
    BY <1>8 DEF Restart
  <2>4. UNCHANGED <<serverRev, cancels, policy, suspended, wsRev, lastCancel>>
    BY <1>8 DEF Restart
  <2> QED BY <2>1, <2>2, <2>3, <2>4
<1>9. ASSUME NEW s \in Slots, HeartbeatStep(s) PROVE TypeOK'
  <2>1. CASE begin_heartbeat(s)
    <3>1. [stage |-> "sent", generation |-> generation,
           sequence |-> next_request + 1, rev |-> 0] \in Heartbeats
      BY <2>1 DEF begin_heartbeat, Heartbeats, Revs
    <3> QED BY <2>1, <3>1 DEF begin_heartbeat
  <2>2. CASE HeartbeatAnswered(s) BY <2>2, HeartbeatMoves DEF HeartbeatAnswered
  <2>3. CASE HeartbeatFails(s) BY <2>3 DEF HeartbeatFails
  <2>4. CASE record_heartbeat(s)
    <3>1. hbs' \in [Slots -> Heartbeats] BY <2>4, HeartbeatMoves DEF record_heartbeat
    <3>2. hbs[s].rev \in Revs /\ hbs[s].sequence \in 0..MaxRequest BY DEF Heartbeats
    <3> QED BY <2>4, <3>1, <3>2 DEF record_heartbeat, SaveOutcomes
  <2>5. CASE update_cached_update_preferences(s)
    <3>1. hbs[s].rev \in Revs BY DEF Heartbeats
    <3>2. cancelFlag' \in [Kinds -> BOOLEAN] /\ doomed' \in [Kinds -> BOOLEAN]
      BY <2>5 DEF update_cached_update_preferences, cancel_active_updates, Running
    <3> QED BY <2>5, <3>1, <3>2 DEF update_cached_update_preferences
  <2> QED BY <1>9, <2>1, <2>2, <2>3, <2>4, <2>5 DEF HeartbeatStep
<1>10. ASSUME NEW k \in Kinds, WorkerStep(k) PROVE TypeOK'
  <2>1. CASE PushCheck(k)
    <3>1. \A f \in BOOLEAN : [pc |-> k, force |-> f] \in StarterStates
      BY DEF StarterStates
    <3> QED BY <2>1, <3>1 DEF PushCheck
  <2>2. CASE WorkerCheck(k)
    <3>1. (IF worker[k].recovery THEN policy ELSE serverRev) \in Revs
      BY <2>2 DEF WorkerCheck, usable
    <3> QED BY <2>2, <3>1, WorkerMoves DEF WorkerCheck
  <2>3. CASE WorkerApply(k) BY <2>3, WorkerMoves DEF WorkerApply, Revs
  <2>4. CASE WorkerEnds(k) BY <2>4 DEF WorkerEnds
  <2>5. CASE WorkerCommits(k) BY <2>5, WorkerMoves DEF WorkerCommits, Revs
  <2>6. ASSUME NEW t \in Starters, TryStart(t, k) PROVE TypeOK'
    <3>1. NextPc(t, k) \in StarterStates BY StarterMoves DEF NextPc
    <3>2. [starter[t] EXCEPT !.pc = ClearPc(k)] \in StarterStates BY StarterMoves DEF ClearPc
    <3>3. starter' \in [Starters -> StarterStates] BY <2>6, <3>1, <3>2 DEF TryStart
    <3>4. active' \in [Kinds -> BOOLEAN] BY <2>6 DEF TryStart
    <3> QED BY <2>6, <3>3, <3>4 DEF TryStart
  <2>7. ASSUME NEW t \in Starters, Spawn(t, k) PROVE TypeOK'
    <3>1. NextPc(t, k) \in StarterStates BY StarterMoves DEF NextPc
    <3>2. [pc |-> "checking", rev |-> 0, recovery |-> t = "recovery",
           force |-> starter[t].force] \in WorkerStates
      BY DEF WorkerStates, StarterStates, Revs
    <3> QED BY <2>7, <3>1, <3>2 DEF Spawn
  <2> QED BY <1>10, <2>1, <2>2, <2>3, <2>4, <2>5, <2>6, <2>7 DEF WorkerStep
<1>11. ASSUME NEW t \in Starters, NEW k \in {"os", "fw"}, SkipKind(t, k) PROVE TypeOK'
  <2>1. NextPc(t, k) \in StarterStates BY StarterMoves DEF NextPc
  <2> QED BY <1>11, <2>1 DEF SkipKind
<1>12. CASE UNCHANGED vars BY <1>12 DEF vars
<1> QED
  BY <1>1, <1>2, <1>3, <1>4, <1>5, <1>6, <1>7, <1>8, <1>9, <1>10, <1>11, <1>12 DEF Next

-----------------------------------------------------------------------------
(* Steps that leave the policy files, the responses and the cancellations  *)
(* alone keep the rest of the invariant.                                   *)
policyState == <<serverRev, cancels, generation, hbs, fileVars, wsRev, lastCancel>>

LEMMA UntouchedStep == PolicyInv /\ UNCHANGED policyState => (CancelsAreSaved /\ ResponsesAreCurrent /\ UsablePolicyIsCurrent)'
BY DEF PolicyInv, policyState, fileVars, CancelsAreSaved, ResponsesAreCurrent, UsablePolicyIsCurrent, usable

LEMMA PolicyInvInit == Init => PolicyInv
<1> SUFFICES ASSUME Init PROVE PolicyInv
  OBVIOUS
<1> USE BoundsAssumption DEF Init, Revs, None
<1>1. TypeOK
  <2>1. /\ hbs \in [Slots -> Heartbeats] /\ starter \in [Starters -> StarterStates]
        /\ worker \in [Kinds -> WorkerStates]
    BY IdleTypes
  <2>2. /\ cancelFlag \in [Kinds -> BOOLEAN] /\ active \in [Kinds -> BOOLEAN]
        /\ doomed \in [Kinds -> BOOLEAN] /\ applyActive \in BOOLEAN
        /\ fresh \in BOOLEAN /\ suspended \in BOOLEAN
    OBVIOUS
  <2> QED BY <2>1, <2>2 DEF TypeOK
<1>2. CancelsAreSaved BY DEF CancelsAreSaved
<1>3. ResponsesAreCurrent BY DEF ResponsesAreCurrent, IdleHb
<1>4. UsablePolicyIsCurrent BY DEF UsablePolicyIsCurrent, usable
<1> QED BY <1>1, <1>2, <1>3, <1>4 DEF PolicyInv

LEMMA PolicyInvStep == PolicyInv /\ [Next]_vars => PolicyInv'
<1> SUFFICES ASSUME PolicyInv, [Next]_vars PROVE PolicyInv'
  OBVIOUS
<1>t. TypeOK' BY TypeStep DEF PolicyInv
<1> SUFFICES (CancelsAreSaved /\ ResponsesAreCurrent /\ UsablePolicyIsCurrent)'
  BY <1>t DEF PolicyInv
<1> DEFINE Rest == CancelsAreSaved /\ ResponsesAreCurrent /\ UsablePolicyIsCurrent
<1> USE BoundsAssumption
<1>1. CASE AdminChange
  BY <1>1 DEF AdminChange, PolicyInv, TypeOK, Heartbeats, Revs, CancelsAreSaved, ResponsesAreCurrent,
     UsablePolicyIsCurrent, usable, policyVars, fileVars
<1>2. CASE LoseCancel
  BY <1>2 DEF LoseCancel, PolicyInv, CancelsAreSaved, ResponsesAreCurrent,
     UsablePolicyIsCurrent, usable, policyVars, fileVars
<1>3. CASE CancelUpdates
  BY <1>3 DEF CancelUpdates, PolicyInv, CancelsAreSaved, ResponsesAreCurrent,
     UsablePolicyIsCurrent, usable, policyVars, fileVars
<1>4. CASE suspend
  \* Every response in flight belongs to an older generation.
  BY <1>4 DEF suspend, PolicyInv, TypeOK, Heartbeats, Revs, CancelsAreSaved, ResponsesAreCurrent,
     UsablePolicyIsCurrent, usable
<1>5. CASE Restart
  BY <1>5 DEF Restart, IdleHb, PolicyInv, CancelsAreSaved, ResponsesAreCurrent,
     UsablePolicyIsCurrent, usable, fileVars
<1>6. ASSUME NEW s \in Slots, HeartbeatStep(s) PROVE Rest'
  <2> USE DEF PolicyInv, TypeOK, Heartbeats, Revs, CancelsAreSaved, ResponsesAreCurrent,
              UsablePolicyIsCurrent, usable, policyVars, fileVars
  <2>1. CASE begin_heartbeat(s) BY <2>1 DEF begin_heartbeat
  <2>2. CASE HeartbeatAnswered(s) BY <2>2 DEF HeartbeatAnswered
  <2>3. CASE HeartbeatFails(s) BY <2>3 DEF HeartbeatFails, IdleHb
  <2>4. CASE record_heartbeat(s)
    \* An accepted response has the current generation.
    BY <2>4 DEF record_heartbeat, Accepts, SaveOutcomes
  <2>5. CASE update_cached_update_preferences(s)
    BY <2>5 DEF update_cached_update_preferences, IdleHb
  <2> QED BY <1>6, <2>1, <2>2, <2>3, <2>4, <2>5 DEF HeartbeatStep
<1>7. ASSUME NEW k \in Kinds, WorkerStep(k) PROVE Rest'
  <2>1. UNCHANGED policyState
    BY <1>7 DEF WorkerStep, PushCheck, WorkerCheck, WorkerApply, WorkerEnds, WorkerCommits,
       TryStart, Spawn, policyState, policyVars, fileVars
  <2> QED BY <2>1, UntouchedStep
<1>8. CASE HeartbeatGoesStale \/ MainLoopTick \/ RecoveryTick
  BY <1>8, UntouchedStep DEF HeartbeatGoesStale, MainLoopTick, RecoveryTick,
     policyState, policyVars, fileVars
<1>9. ASSUME NEW t \in Starters, NEW k \in {"os", "fw"}, SkipKind(t, k) PROVE Rest'
  BY <1>9, UntouchedStep DEF SkipKind, policyState, policyVars, fileVars
<1>10. CASE UNCHANGED vars
  BY <1>10, UntouchedStep DEF vars, policyState, policyVars, fileVars
<1> QED
  BY <1>1, <1>2, <1>3, <1>4, <1>5, <1>6, <1>7, <1>8, <1>9, <1>10 DEF Next

-----------------------------------------------------------------------------
(* The update workers.                                                     *)

Applying(k) == worker[k].pc \in {"applying", "committed"}

(* A thread that won a kind's ACTIVE flag is alone in doing so and has not *)
(* started the worker yet: the cancellation it clears is about no worker.  *)
StartersAlone ==
  \A t \in Starters, k \in Kinds :
    starter[t].pc = ClearPc(k) =>
      /\ active[k] /\ worker[k].pc = "off"
      /\ \A u \in Starters : starter[u].pc = ClearPc(k) => u = t

(* A worker holds its kind's ACTIVE flag; the one that applies also holds  *)
(* UPDATE_APPLY_ACTIVE, and no second one does.                            *)
FlagsHeld ==
  /\ \A k \in Kinds : worker[k].pc # "off" => active[k]
  /\ \A k \in Kinds : Applying(k) => applyActive
  /\ \A j, k \in Kinds : Applying(j) /\ Applying(k) => j = k

(* A worker told to cancel is still ahead of its commit point and its flag *)
(* is still set.                                                           *)
DoomedSeeTheFlag == \A k \in Kinds : doomed[k] => Running(k) /\ cancelFlag[k]

WorkersInv == TypeOK /\ StartersAlone /\ FlagsHeld /\ DoomedSeeTheFlag

(* Steps that leave workers, flags and starting threads alone.             *)
workerState == <<active, applyActive, worker, doomed, cancelFlag, starter>>

LEMMA WorkersUntouched ==
  WorkersInv /\ UNCHANGED workerState => (StartersAlone /\ FlagsHeld /\ DoomedSeeTheFlag)'
BY DEF WorkersInv, workerState, StartersAlone, FlagsHeld, DoomedSeeTheFlag, Applying, Running

(* The records of the threads after the updates the actions make.          *)
LEMMA ClearPcs ==
  ASSUME NEW j \in Kinds, NEW k \in Kinds
  PROVE  /\ ClearPc(k) \in {"os_clear", "fw_clear"}
         /\ ClearPc(j) = ClearPc(k) => j = k
BY KindsAssumption DEF ClearPc

LEMMA NextPcs ==
  ASSUME TypeOK, NEW t \in Starters, NEW j
  PROVE  NextPc(t, j).pc \in {"idle", "fw"}
BY DEF NextPc, IdleStart, TypeOK, StarterStates

(* A step that moves one thread to a state without a claim, and nothing    *)
(* else of the workers.                                                    *)
LEMMA StarterStep ==
  ASSUME WorkersInv, NEW t \in Starters, NEW st,
         st.pc \notin {"os_clear", "fw_clear"},
         starter' = [starter EXCEPT ![t] = st],
         UNCHANGED <<active, applyActive, worker, doomed, cancelFlag>>
  PROVE  (StartersAlone /\ FlagsHeld /\ DoomedSeeTheFlag)'
<1>1. \A u \in Starters : starter'[u] = IF u = t THEN st ELSE starter[u]
  BY DEF WorkersInv, TypeOK
<1>2. \A k \in Kinds : starter'[t].pc # ClearPc(k)
  BY <1>1, ClearPcs
<1>3. StartersAlone' BY <1>1, <1>2 DEF WorkersInv, StartersAlone
<1> QED BY <1>3 DEF WorkersInv, FlagsHeld, DoomedSeeTheFlag, Applying, Running

LEMMA WorkersInvInit == Init => WorkersInv
<1> SUFFICES ASSUME Init PROVE WorkersInv
  OBVIOUS
<1>1. TypeOK BY PolicyInvInit DEF PolicyInv
<1>2. \A t \in Starters, k \in Kinds : starter[t].pc # ClearPc(k)
  BY ClearPcs DEF Init, IdleStart
<1>3. \A k \in Kinds : worker[k].pc = "off" /\ ~doomed[k]
  BY DEF Init, IdleWorker
<1> QED BY <1>1, <1>2, <1>3 DEF WorkersInv, StartersAlone, FlagsHeld, DoomedSeeTheFlag, Applying

LEMMA WorkersInvStep == WorkersInv /\ [Next]_vars => WorkersInv'
<1> SUFFICES ASSUME WorkersInv, [Next]_vars PROVE WorkersInv'
  OBVIOUS
<1>t. TypeOK /\ TypeOK' BY TypeStep DEF WorkersInv
<1> DEFINE Rest == StartersAlone /\ FlagsHeld /\ DoomedSeeTheFlag
<1> SUFFICES Rest'
  BY <1>t DEF WorkersInv
<1> USE <1>t DEF Starters
<1>1. CASE AdminChange \/ LoseCancel \/ HeartbeatGoesStale
  BY <1>1, WorkersUntouched DEF AdminChange, LoseCancel, HeartbeatGoesStale, workerVars, workerState
<1>2. CASE CancelUpdates
  \* Whoever runs is doomed and sees the flag; the ws thread claims nothing.
  <2>1. /\ cancelFlag' = [k \in Kinds |-> TRUE]
        /\ doomed' = [k \in Kinds |-> doomed[k] \/ Running(k)]
        /\ UNCHANGED <<active, applyActive, worker>>
    BY <1>2 DEF CancelUpdates, cancel_active_updates
  <2>2. \A u \in Starters : starter'[u].pc = IF u = "ws" THEN "suspend" ELSE starter[u].pc
    BY <1>2 DEF CancelUpdates, TypeOK
  <2>3. StartersAlone' BY <2>1, <2>2, ClearPcs DEF WorkersInv, StartersAlone
  <2> QED BY <2>1, <2>3 DEF WorkersInv, FlagsHeld, DoomedSeeTheFlag, Applying, Running
<1>3. CASE suspend
  <2>1. IdleStart.pc \notin {"os_clear", "fw_clear"} BY DEF IdleStart
  <2> QED BY <1>3, <2>1, StarterStep DEF suspend, workerVars
<1>4. CASE MainLoopTick
  <2>1. starter' = [starter EXCEPT !["main"] = [starter["main"] EXCEPT !.pc = "os"]]
    BY <1>4 DEF MainLoopTick
  <2>2. [starter["main"] EXCEPT !.pc = "os"].pc = "os" BY DEF TypeOK, StarterStates
  <2> QED BY <1>4, <2>1, <2>2, StarterStep DEF MainLoopTick, workerVars
<1>5. CASE RecoveryTick
  <2>1. starter' = [starter EXCEPT !["recovery"] = [starter["recovery"] EXCEPT !.pc = "os"]]
    BY <1>5 DEF RecoveryTick
  <2>2. [starter["recovery"] EXCEPT !.pc = "os"].pc = "os" BY DEF TypeOK, StarterStates
  <2> QED BY <1>5, <2>1, <2>2, StarterStep DEF RecoveryTick, workerVars
<1>6. CASE Restart
  <2>1. \A t \in Starters : starter'[t].pc = "idle" BY <1>6 DEF Restart, IdleStart
  <2>2. \A k \in Kinds : worker'[k].pc = "off" /\ ~doomed'[k] BY <1>6 DEF Restart, IdleWorker
  <2>3. \A k \in Kinds : ClearPc(k) # "idle" BY ClearPcs
  <2> QED BY <2>1, <2>2, <2>3 DEF StartersAlone, FlagsHeld, DoomedSeeTheFlag, Applying
<1>7. ASSUME NEW s \in Slots, HeartbeatStep(s) PROVE Rest'
  <2>1. CASE update_cached_update_preferences(s)
    <3>1. CASE cancel_active_updates
      BY <2>1, <3>1, ZenonT(60) DEF update_cached_update_preferences, cancel_active_updates, WorkersInv,
         StartersAlone, FlagsHeld, DoomedSeeTheFlag, Applying, Running
    <3>2. CASE UNCHANGED <<cancelFlag, doomed>>
      BY <2>1, <3>2, WorkersUntouched DEF update_cached_update_preferences, workerState
    <3> QED BY <2>1, <3>1, <3>2 DEF update_cached_update_preferences
  <2>2. CASE begin_heartbeat(s) \/ HeartbeatAnswered(s) \/ HeartbeatFails(s) \/ record_heartbeat(s)
    BY <2>2, WorkersUntouched DEF begin_heartbeat, HeartbeatAnswered, HeartbeatFails,
       record_heartbeat, workerVars, workerState
  <2> QED BY <1>7, <2>1, <2>2 DEF HeartbeatStep
<1>8. ASSUME NEW t \in Starters, NEW k \in {"os", "fw"}, SkipKind(t, k) PROVE Rest'
  BY <1>8, NextPcs, StarterStep DEF SkipKind, workerVars
<1>9. ASSUME NEW k \in Kinds, WorkerStep(k) PROVE Rest'
  <2>1. CASE PushCheck(k)
    <3>1. PICK f \in BOOLEAN : starter' = [starter EXCEPT !["ws"] = [pc |-> k, force |-> f]]
      BY <2>1 DEF PushCheck
    <3>2. [pc |-> k, force |-> f].pc \notin {"os_clear", "fw_clear"} BY KindsAssumption
    <3> QED BY <2>1, <3>1, <3>2, StarterStep DEF PushCheck, workerVars
  <2>2. ASSUME NEW t \in Starters, TryStart(t, k) PROVE Rest'
    <3>1. CASE active[k]
      BY <2>2, <3>1, NextPcs, StarterStep DEF TryStart
    <3>2. CASE ~active[k]
      \* The flag was free: no worker and no other thread held it.
      <4>1. /\ active' = [active EXCEPT ![k] = TRUE]
            /\ UNCHANGED <<applyActive, worker, doomed, cancelFlag>>
            /\ \A u \in Starters : starter'[u].pc = IF u = t THEN ClearPc(k) ELSE starter[u].pc
        BY <2>2, <3>2 DEF TryStart, TypeOK, StarterStates
      <4>2. worker[k].pc = "off" /\ \A u \in Starters : starter[u].pc # ClearPc(k)
        BY <3>2 DEF WorkersInv, StartersAlone, FlagsHeld
      <4>3. StartersAlone'
        BY <4>1, <4>2, ClearPcs DEF WorkersInv, StartersAlone, TypeOK
      <4> QED BY <4>1, <4>3 DEF WorkersInv, FlagsHeld, DoomedSeeTheFlag, Applying, Running, TypeOK
    <3> QED BY <3>1, <3>2
  <2>3. ASSUME NEW t \in Starters, Spawn(t, k) PROVE Rest'
    \* No worker of this kind existed, so none misses the flag that is cleared.
    <3>1. /\ UNCHANGED <<active, applyActive, doomed>>
          /\ cancelFlag' = [cancelFlag EXCEPT ![k] = FALSE]
          /\ \A j \in Kinds : worker'[j].pc = IF j = k THEN "checking" ELSE worker[j].pc
          /\ \A u \in Starters : starter'[u] = IF u = t THEN NextPc(t, k) ELSE starter[u]
      BY <2>3 DEF Spawn, TypeOK
    <3>2. /\ active[k] /\ worker[k].pc = "off" /\ ~doomed[k]
          /\ \A u \in Starters : starter[u].pc = ClearPc(k) => u = t
      BY <2>3 DEF Spawn, WorkersInv, StartersAlone, DoomedSeeTheFlag, Running
    <3>3. \A j \in Kinds : NextPc(t, k).pc # ClearPc(j)
      BY NextPcs, ClearPcs
    <3>4. StartersAlone'
      BY <3>1, <3>2, <3>3, ClearPcs DEF WorkersInv, StartersAlone
    <3>5. FlagsHeld'
      BY <3>1, <3>2 DEF WorkersInv, FlagsHeld, Applying
    <3>6. DoomedSeeTheFlag'
      BY <3>1, <3>2 DEF WorkersInv, DoomedSeeTheFlag, Running, TypeOK
    <3> QED BY <3>4, <3>5, <3>6
  <2>4. CASE WorkerCheck(k)
    <3>1. /\ UNCHANGED <<active, applyActive, doomed, cancelFlag, starter>>
          /\ \A j \in Kinds : worker'[j].pc = IF j = k THEN "selected" ELSE worker[j].pc
          /\ worker[k].pc = "checking"
      BY <2>4 DEF WorkerCheck, TypeOK, WorkerStates
    <3> QED BY <3>1 DEF WorkersInv, StartersAlone, FlagsHeld, DoomedSeeTheFlag, Applying, Running
  <2>5. CASE WorkerApply(k)
    \* UPDATE_APPLY_ACTIVE was free, so nobody applies.
    <3>1. /\ UNCHANGED <<active, doomed, cancelFlag, starter>> /\ ~applyActive /\ applyActive'
          /\ \A j \in Kinds : worker'[j].pc = IF j = k THEN "applying" ELSE worker[j].pc
          /\ worker[k].pc = "selected"
      BY <2>5 DEF WorkerApply, TypeOK, WorkerStates
    <3>2. \A j \in Kinds : ~Applying(j) BY <3>1 DEF WorkersInv, FlagsHeld
    <3> QED BY <3>1, <3>2 DEF WorkersInv, StartersAlone, FlagsHeld, DoomedSeeTheFlag, Applying, Running
  <2>6. CASE WorkerEnds(k)
    <3>1. /\ UNCHANGED <<cancelFlag, starter>> /\ Running(k)
          /\ applyActive' = (applyActive /\ worker[k].pc # "applying")
          /\ \A j \in Kinds : worker'[j].pc = IF j = k THEN "off" ELSE worker[j].pc
          /\ \A j \in Kinds : active'[j] = IF j = k THEN FALSE ELSE active[j]
          /\ \A j \in Kinds : doomed'[j] = IF j = k THEN FALSE ELSE doomed[j]
      BY <2>6 DEF WorkerEnds, TypeOK, IdleWorker
    <3>2. \A t \in Starters : starter[t].pc # ClearPc(k)
      BY <3>1 DEF WorkersInv, StartersAlone, Running
    <3>3. \A t \in Starters, j \in Kinds : starter[t].pc = ClearPc(j) => active'[j] /\ worker'[j].pc = "off"
      BY <3>1, <3>2 DEF WorkersInv, StartersAlone
    <3>6. StartersAlone' BY <3>1, <3>3 DEF WorkersInv, StartersAlone
    <3>4. FlagsHeld' BY <3>1 DEF WorkersInv, FlagsHeld, Applying, Running
    <3>5. DoomedSeeTheFlag' BY <3>1 DEF WorkersInv, DoomedSeeTheFlag, Running
    <3> QED BY <3>4, <3>5, <3>6
  <2>7. CASE WorkerCommits(k)
    \* The flag is clear, so this worker was not told to cancel.
    <3>1. /\ UNCHANGED <<active, applyActive, doomed, cancelFlag, starter>>
          /\ \A j \in Kinds : worker'[j].pc = IF j = k THEN "committed" ELSE worker[j].pc
          /\ worker[k].pc = "applying" /\ ~cancelFlag[k]
      BY <2>7 DEF WorkerCommits, TypeOK, WorkerStates
    <3> QED BY <3>1 DEF WorkersInv, StartersAlone, FlagsHeld, DoomedSeeTheFlag, Applying, Running
  <2> QED BY <1>9, <2>1, <2>2, <2>3, <2>4, <2>5, <2>6, <2>7 DEF WorkerStep
<1>10. CASE UNCHANGED vars BY <1>10, WorkersUntouched DEF vars, workerVars, workerState
<1> QED BY <1>1, <1>2, <1>3, <1>4, <1>5, <1>6, <1>7, <1>8, <1>9, <1>10 DEF Next

(* A set with no two different elements has at most one.                   *)
LEMMA AtMostOne ==
  ASSUME NEW S, \A x, y \in S : x = y
  PROVE  Cardinality(S) <= 1
<1>1. CASE S = {} BY <1>1, FS_EmptySet
<1>2. CASE S # {}
  <2>1. PICK x \in S : TRUE BY <1>2
  <2>2. S = {x} BY <2>1
  <2> QED BY <2>2, FS_Singleton
<1> QED BY <1>1, <1>2

LEMMA WorkersInvSafe == WorkersInv => WorkersSafe
<1> SUFFICES ASSUME WorkersInv PROVE WorkersSafe
  OBVIOUS
<1>1. CancelReachesWorkers BY DEF WorkersInv, DoomedSeeTheFlag, CancelReachesWorkers, Running
<1>2. Cardinality({k \in Kinds : worker[k].pc \in {"applying", "committed"}}) <= 1
  BY AtMostOne DEF WorkersInv, FlagsHeld, Applying
<1>3. ApplyExclusive BY <1>2 DEF WorkersInv, FlagsHeld, ApplyExclusive
<1> QED BY <1>1, <1>3 DEF WorkersInv, WorkersSafe

-----------------------------------------------------------------------------
(* The variables of the update gate always have their declared types.      *)
THEOREM UpdatePolicyTypes == Spec => []TypeOK
<1>1. Init => TypeOK BY PolicyInvInit DEF PolicyInv
<1> QED BY <1>1, TypeStep, PTL DEF Spec

(* No thread count, reordering, lost message, failed save or restart makes *)
(* update_recovery::allowed or policy_for accept preferences older than a  *)
(* change whose suspension marker was written.                             *)
THEOREM UsablePolicyStaysCurrent == Spec => []UsablePolicyIsCurrent
<1>1. PolicyInv => UsablePolicyIsCurrent BY DEF PolicyInv
<1> QED BY <1>1, PolicyInvInit, PolicyInvStep, PTL DEF Spec

(* However the main loop, the recovery thread and pushes start workers,    *)
(* and whenever cancellations arrive: the OS installer and the app swap    *)
(* never overlap, and a worker that ran when a cancellation was requested  *)
(* does not pass its commit point.                                         *)
THEOREM WorkersStaySafe == Spec => []WorkersSafe
BY WorkersInvInit, WorkersInvStep, WorkersInvSafe, PTL DEF Spec
=============================================================================
