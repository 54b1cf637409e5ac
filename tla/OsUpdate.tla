------------------------------ MODULE OsUpdate ------------------------------
(***************************************************************************)
(* Updating the whole operating system of a Raspberry Pi kiosk: the app's  *)
(* update worker and heartbeat thread with their durable journal           *)
(* (os_update.rs, os_journal.rs, update_guard.rs), RAUC's daemon, the A/B  *)
(* slots and the tryboot configuration (betterframe-rauc-boot.sh), the     *)
(* root-owned reboot guard (hook.sh, reboot-after-install.sh), the health  *)
(* confirmation (betterframe-rauc-mark-good.sh), and the server's record   *)
(* of what the device reported (os-update-status.ts).                      *)
(*                                                                         *)
(* An OS image is identified by its version.  A reboot loses everything in *)
(* memory and under /run; slots, boot configuration, journal and attempt   *)
(* counts are durable.                                                     *)
(***************************************************************************)
EXTENDS Integers, FiniteSets

CONSTANTS
  MaxVer,       \* bound: OS releases 1..MaxVer
  Healthy,      \* releases whose kiosk renders and sends heartbeats
  MaxBoots,     \* bound: boots
  MaxCrashes,   \* bound: exits of the app without a reboot
  MaxForces,    \* bound: retries pushed by an administrator
  MaxInFlight,  \* bound: reports between device and database
  MaxHandlers,  \* bound: status requests the server handles at a time
  None, Torn    \* nothing; a slot whose writing was interrupted

Versions == 1..MaxVer
Slots == {"A", "B"}
other_slot(s) == IF s = "A" THEN "B" ELSE "A"

Stages == {"Downloading", "Installing", "PendingReboot", "Failed", "RolledBack", "Confirmed"}
Journals == [v : Versions, boot : 1..MaxBoots, stage : Stages]

ASSUME OsAssumption ==
  /\ MaxVer \in Nat \ {0} /\ MaxBoots \in Nat \ {0}
  /\ MaxCrashes \in Nat /\ MaxForces \in Nat
  /\ MaxInFlight \in Nat /\ MaxHandlers \in Nat
  /\ Healthy \subseteq Versions /\ 1 \in Healthy
  /\ None \notin Versions /\ Torn \notin Versions /\ None # Torn
  /\ None \notin Journals

ATTEMPT_LIMIT == 3

VARIABLES
  slots, perm,     \* the images; the slot that a plain boot selects
  pending,         \* slot-state: the slot activated for one trial boot
  cur, boot,       \* the running slot and the boot id
  rauc,            \* the daemon: its operation, release and LastError
  reboot,          \* the reboot guard
  health,          \* /run: kiosk-healthy, mark-good done, rauc-confirmed
  app, worker, hb, \* the app, its OS update worker and heartbeat thread
  journal,         \* os-update.json
  attempts,        \* update-attempts.json
  net, writes,     \* reports sent, reports the server is about to record
  server,          \* the kiosk's row
  crashes, forces, \* counters for the bounds
  good, auto       \* history: releases marked good; automatic attempts

disk == <<slots, perm, pending>>
volatile == <<rauc, reboot, health>>
device == <<disk, cur, boot, volatile>>
cloud == <<net, writes, server>>
counters == <<crashes, forces>>
vars == <<device, app, worker, hb, journal, attempts, cloud, counters, good, auto>>

States == {"pending_reboot", "failed", "rolled_back", "confirmed"}
Reports == [v : Versions, state : States, err : BOOLEAN]

NoWorker == [pc |-> "idle", v |-> None, force |-> FALSE]
NoHeartbeat == [pc |-> "idle", sent |-> None]
IdleRauc(err) == [op |-> "idle", v |-> None, err |-> err]

TypeOK ==
  /\ slots \in [Slots -> Versions \cup {None, Torn}]
  /\ perm \in Slots /\ pending \in Slots \cup {None}
  /\ cur \in Slots /\ boot \in 1..MaxBoots
  /\ rauc \in [op : {"idle", "writing", "written", "activated"},
               v : Versions \cup {None}, err : BOOLEAN]
  /\ reboot \in {"off", "waiting", "grace", "rebooting"}
  /\ health \in {"none", "healthy", "marked", "confirmed"}
  /\ app \in {"down", "up"}
  /\ worker \in [pc : {"idle", "journaled", "downloading", "verified", "handoff",
                       "installing", "installed", "rebooting"},
                 v : Versions \cup {None}, force : BOOLEAN]
  /\ hb \in [pc : {"idle", "waiting", "answered", "reported"}, sent : Reports \cup {None}]
  /\ journal \in Journals \cup {None}
  /\ attempts \in [Versions -> Nat]
  /\ net \subseteq Reports /\ writes \subseteq (Reports \X (Reports \cup {None}))
  /\ server \in [v : Versions \cup {None}, state : States, err : BOOLEAN]
  /\ crashes \in 0..MaxCrashes /\ forces \in 0..MaxForces
  /\ good \subseteq Versions /\ auto \in [Versions -> Nat]

(* A factory-fresh device: release 1 in slot A, proven by its maker.       *)
Init ==
  /\ slots = [s \in Slots |-> IF s = "A" THEN 1 ELSE None]
  /\ perm = "A" /\ pending = None /\ cur = "A" /\ boot = 1
  /\ rauc = IdleRauc(FALSE) /\ reboot = "off" /\ health = "none"
  /\ app = "down" /\ worker = NoWorker /\ hb = NoHeartbeat
  /\ journal = None /\ attempts = [v \in Versions |-> 0]
  /\ net = {} /\ writes = {}
  /\ server = [v |-> None, state |-> "confirmed", err |-> FALSE]
  /\ crashes = 0 /\ forces = 0
  /\ good = {1} /\ auto = [v \in Versions |-> 0]

current_os_version == slots[cur]

boot_is_confirmed == health = "confirmed"

installer_idle == rauc.op = "idle"

-----------------------------------------------------------------------------
(* The journal.                                                            *)

(* Mutant: an installation that the reboot cut short is not judged.        *)
ReconcileFinished(j) ==
  IF j.boot = boot \/ j.stage \notin {"PendingReboot", "Confirmed"} THEN j
  ELSE [j EXCEPT !.stage = IF j.v # current_os_version THEN "RolledBack"
                           ELSE IF boot_is_confirmed THEN "Confirmed"
                           ELSE "PendingReboot"]

(* Only a journal of an earlier boot is judged.                            *)
reconcile(j) ==
  IF j.boot = boot \/ j.stage \notin {"Installing", "PendingReboot", "Confirmed"} THEN j
  ELSE [j EXCEPT !.stage = IF j.v # current_os_version THEN "RolledBack"
                           ELSE IF boot_is_confirmed THEN "Confirmed"
                           ELSE "PendingReboot"]

reconciled == IF journal = None THEN None ELSE reconcile(journal)

blocks_apply(j) ==
  j # None /\ j.stage \in {"Installing", "PendingReboot", "RolledBack"}

save_stage(stage) ==
  journal' = IF journal = None THEN None ELSE [journal EXCEPT !.stage = stage]

(* The heartbeat thread holds the journal's lock from before it posts      *)
(* until it has used the answer.                                           *)
JournalFree == hb.pc \notin {"waiting", "answered"}

(* A report goes out, or is lost when the bound on reports is reached.     *)
(* report_applied does not retry.                                          *)
Send(r) ==
  net' = IF Cardinality(net \cup {r}) + Cardinality(writes) <= MaxInFlight
         THEN net \cup {r} ELSE net

Report(v, state) == [v |-> v, state |-> state, err |-> state \in {"failed", "rolled_back"}]

-----------------------------------------------------------------------------
(* The update worker.                                                      *)

(* Mutant: an unconfirmed boot replaces the other slot.                    *)
MayApplyUnconfirmed(v, force) ==
  /\ app = "up" /\ worker.pc = "idle" /\ JournalFree
  /\ v > current_os_version
  /\ force => forces < MaxForces

(* maybe_apply_os_update and the checks before pairing: only a confirmed   *)
(* boot may replace the other slot, and only by a newer release.           *)
MayApply(v, force) ==
  /\ app = "up" /\ worker.pc = "idle" /\ JournalFree
  /\ boot_is_confirmed
  /\ v > current_os_version
  /\ force => forces < MaxForces

CountForce(force) == forces' = IF force THEN forces + 1 ELSE forces

blocked(v, force) == ~force /\ attempts[v] >= ATTEMPT_LIMIT

Refused(v, force) ==
  \/ blocks_apply(reconciled) /\ (force => ~installer_idle)
  \/ blocked(v, force)

(* A refused attempt still writes the reconciled journal.                  *)
ApplyRefused(v, force) ==
  /\ MayApply(v, force) /\ Refused(v, force)
  /\ journal' = reconciled
  /\ CountForce(force)
  /\ UNCHANGED <<device, app, worker, hb, attempts, cloud, crashes, good, auto>>

ApplyAdmitted(v, force) ==
  /\ MayApply(v, force) /\ ~Refused(v, force)
  /\ journal' = [v |-> v, boot |-> boot, stage |-> "Downloading"]
  /\ worker' = [pc |-> "journaled", v |-> v, force |-> force]
  /\ CountForce(force)
  /\ UNCHANGED <<device, app, hb, attempts, cloud, crashes, good, auto>>

WorkerAt(pc) == app = "up" /\ worker.pc = pc

Goto(pc) == worker' = [worker EXCEPT !.pc = pc]

(* The attempt is counted before any work is done.                         *)
record_attempt ==
  /\ WorkerAt("journaled")
  /\ Goto("downloading")
  /\ attempts' = [attempts EXCEPT ![worker.v] = @ + 1]
  /\ auto' = IF worker.force THEN auto ELSE [auto EXCEPT ![worker.v] = @ + 1]
  /\ UNCHANGED <<device, app, hb, journal, cloud, counters, good>>

(* update-attempts.json cannot be written: nothing is started.             *)
RecordFails ==
  /\ WorkerAt("journaled")
  /\ worker' = NoWorker
  /\ UNCHANGED <<device, app, hb, journal, attempts, cloud, counters, good, auto>>

(* The server defers the download: the reservation is given back, if its   *)
(* write succeeds, and nothing is reported.                                *)
Deferred ==
  /\ WorkerAt("downloading")
  /\ worker' = NoWorker
  /\ \/ /\ attempts' = [attempts EXCEPT ![worker.v] = IF @ > 0 THEN @ - 1 ELSE 0]
        /\ auto' = IF worker.force THEN auto ELSE [auto EXCEPT ![worker.v] = @ - 1]
     \/ UNCHANGED <<attempts, auto>>
  /\ UNCHANGED <<device, app, hb, journal, cloud, counters, good>>

Downloaded ==
  /\ WorkerAt("downloading")
  /\ Goto("verified")
  /\ UNCHANGED <<device, app, hb, journal, attempts, cloud, counters, good, auto>>

(* An error ends the attempt.  An installation whose outcome is unknown    *)
(* keeps its stage.                                                        *)
Fail ==
  /\ JournalFree
  /\ worker' = NoWorker
  /\ journal' = [journal EXCEPT !.stage =
                   IF @ \in {"Installing", "PendingReboot"} THEN @ ELSE "Failed"]
  /\ Send(Report(worker.v, "failed"))
  /\ UNCHANGED <<device, app, hb, attempts, writes, server, counters, good, auto>>

(* The download fails or is cancelled, a check of the bundle fails, RAUC   *)
(* is busy or cannot be started.                                           *)
ApplyFails == (WorkerAt("downloading") \/ WorkerAt("verified")) /\ Fail

HandOff ==
  /\ WorkerAt("verified") /\ JournalFree
  /\ installer_idle
  /\ save_stage("Installing")
  /\ Goto("handoff")
  /\ UNCHANGED <<device, app, hb, attempts, cloud, counters, good, auto>>

(* rauc cannot be started: the journal is made retryable again, if its     *)
(* write succeeds.                                                         *)
SpawnFails ==
  /\ WorkerAt("handoff") /\ JournalFree
  /\ worker' = NoWorker
  /\ save_stage("Failed") \/ UNCHANGED journal
  /\ Send(Report(worker.v, "failed"))
  /\ UNCHANGED <<device, app, hb, attempts, writes, server, counters, good, auto>>

(* rauc exits with an error: the installation failed, or the command lost  *)
(* the daemon, which works on.                                             *)
CliFails == (WorkerAt("handoff") \/ WorkerAt("installing")) /\ Fail

CliSucceeds ==
  /\ WorkerAt("installing") /\ installer_idle /\ ~rauc.err
  /\ Goto("installed")
  /\ Send(Report(worker.v, "pending_reboot"))
  /\ UNCHANGED <<device, app, hb, journal, attempts, writes, server, counters, good, auto>>

SavePendingReboot ==
  /\ WorkerAt("installed") /\ JournalFree
  /\ save_stage("PendingReboot")
  /\ Goto("rebooting")
  /\ UNCHANGED <<device, app, hb, attempts, cloud, counters, good, auto>>

(* No reboot within 180 s, or the journal could not be written.            *)
NoReboot == (WorkerAt("installed") \/ WorkerAt("rebooting")) /\ Fail

-----------------------------------------------------------------------------
(* The heartbeat thread reports the outcome of the last attempt until the  *)
(* server has answered once.                                               *)

Post(j, r) ==
  /\ journal' = j
  /\ Send(r)
  /\ hb' = [pc |-> "waiting", sent |-> r]

report_confirmed ==
  /\ app = "up" /\ hb.pc = "idle" /\ current_os_version \in Healthy
  /\ worker.pc # "journaled"   \* the worker holds the journal's lock
  /\ LET j == reconciled IN
     \/ /\ j = None /\ boot_is_confirmed
        /\ Post(None, Report(current_os_version, "confirmed"))
     \/ /\ j # None /\ j.stage = "RolledBack"
        /\ Post(j, Report(j.v, "rolled_back"))
     \/ /\ j # None /\ j.stage = "Failed"
        /\ Post(j, Report(j.v, "failed"))
     \/ /\ j # None /\ boot_is_confirmed
        /\ j.stage = "Confirmed" \/ (j.stage = "PendingReboot" /\ j.boot # boot)
        /\ Post([j EXCEPT !.stage = "Confirmed"], Report(j.v, "confirmed"))
  /\ UNCHANGED <<device, app, worker, attempts, writes, server, counters, good, auto>>

(* The answer arrived: a confirmed release's attempts are forgotten.       *)
ReportAnswered ==
  /\ app = "up" /\ hb.pc = "answered"
  /\ hb' = [hb EXCEPT !.pc = "reported"]
  /\ attempts' = IF hb.sent.state = "confirmed" THEN [attempts EXCEPT ![hb.sent.v] = 0]
                                                ELSE attempts
  /\ UNCHANGED <<device, app, worker, journal, cloud, counters, good, auto>>

(* No answer within 5 s: the next heartbeat tries again.                   *)
ReportTimesOut ==
  /\ app = "up" /\ hb.pc = "waiting"
  /\ hb' = NoHeartbeat
  /\ UNCHANGED <<device, app, worker, journal, attempts, cloud, counters, good, auto>>

-----------------------------------------------------------------------------
(* RAUC's daemon, and the guard that its post-install hook starts.         *)

RaucAccepts ==
  /\ WorkerAt("handoff") /\ installer_idle
  /\ rauc' = [op |-> "writing", v |-> worker.v, err |-> FALSE]
  /\ slots' = [slots EXCEPT ![other_slot(cur)] = Torn]
  /\ Goto("installing")
  /\ UNCHANGED <<perm, pending, cur, boot, reboot, health, app, hb, journal,
                 attempts, cloud, counters, good, auto>>

Environment == UNCHANGED <<cur, boot, health, app, worker, hb, journal, attempts,
                           cloud, counters, good, auto>>

(* The slot is written and the hook has started the guard, which must not  *)
(* be running yet.                                                         *)
schedule_reboot ==
  /\ rauc.op = "writing" /\ reboot = "off"
  /\ slots' = [slots EXCEPT ![other_slot(cur)] = rauc.v]
  /\ rauc' = [rauc EXCEPT !.op = "written"]
  /\ reboot' = "waiting"
  /\ UNCHANGED <<perm, pending>>
  /\ Environment

(* The running slot becomes the permanent one, the other one the trial.    *)
set_primary ==
  /\ rauc.op = "written"
  /\ perm' = cur /\ pending' = other_slot(cur)
  /\ rauc' = [rauc EXCEPT !.op = "activated"]
  /\ UNCHANGED <<slots, reboot>>
  /\ Environment

RaucFinishes ==
  /\ rauc.op = "activated"
  /\ rauc' = IdleRauc(FALSE)
  /\ UNCHANGED <<disk, reboot>>
  /\ Environment

RaucFails ==
  /\ rauc.op # "idle"
  /\ rauc' = IdleRauc(TRUE)
  /\ UNCHANGED <<disk, reboot>>
  /\ Environment

Installed == installer_idle /\ ~rauc.err

GuardVerifies ==
  /\ reboot = "waiting" /\ Installed /\ pending = other_slot(cur)
  /\ reboot' = "grace"
  /\ UNCHANGED <<disk, rauc>>
  /\ Environment

GuardRechecks ==
  /\ reboot = "grace" /\ Installed
  /\ reboot' = "rebooting"
  /\ UNCHANGED <<disk, rauc>>
  /\ Environment

(* A check fails, the daemon was restarted, or the deadline has passed.    *)
GuardCancels ==
  /\ reboot \in {"waiting", "grace"}
  /\ reboot' = "off"
  /\ UNCHANGED <<disk, rauc>>
  /\ Environment

-----------------------------------------------------------------------------
(* Boots, exits of the app, and the confirmation of health.                *)

Boot(s) ==
  /\ boot < MaxBoots /\ boot' = boot + 1
  /\ cur' = s
  /\ rauc' = IdleRauc(FALSE) /\ reboot' = "off" /\ health' = "none"
  /\ app' = "down" /\ worker' = NoWorker /\ hb' = NoHeartbeat
  /\ UNCHANGED <<disk, journal, attempts, cloud, counters, good, auto>>

PowerCycle == Boot(perm)

(* reboot '0 tryboot'                                                      *)
Tryboot == reboot = "rebooting" /\ Boot(other_slot(perm))

AppStarts ==
  /\ app = "down" /\ current_os_version \in Versions
  /\ app' = "up"
  /\ UNCHANGED <<device, worker, hb, journal, attempts, cloud, counters, good, auto>>

AppCrashes ==
  /\ app = "up" /\ crashes < MaxCrashes
  /\ crashes' = crashes + 1
  /\ app' = "down" /\ worker' = NoWorker /\ hb' = NoHeartbeat
  /\ UNCHANGED <<device, journal, attempts, cloud, forces, good, auto>>

mark_kiosk_healthy ==
  /\ app = "up" /\ current_os_version \in Healthy
  /\ health = "none" /\ health' = "healthy"
  /\ UNCHANGED <<disk, cur, boot, rauc, reboot, app, worker, hb, journal, attempts,
                 cloud, counters, good, auto>>

(* rauc status mark-good makes the running slot permanent.                 *)
mark_good ==
  /\ health = "healthy" /\ health' = "marked"
  /\ perm' = cur /\ pending' = None
  /\ good' = good \cup {current_os_version}
  /\ UNCHANGED <<slots, cur, boot, rauc, reboot, app, worker, hb, journal, attempts,
                 cloud, counters, auto>>

ConfirmBoot ==
  /\ health = "marked" /\ health' = "confirmed"
  /\ UNCHANGED <<disk, cur, boot, rauc, reboot, app, worker, hb, journal, attempts,
                 cloud, counters, good, auto>>

-----------------------------------------------------------------------------
(* The server.  The handler reads the row, decides, and writes the row:    *)
(* two requests may overlap.                                               *)

(* Mutant: a late report may undo a confirmation.                          *)
ReconcileReportLate(p, r) ==
  IF p.v = None THEN r
  ELSE IF r.v # p.v THEN
    IF r.state = "confirmed" /\ p.state # "confirmed" THEN
      IF r.v > p.v THEN r
      ELSE IF p.err THEN None
      ELSE [p EXCEPT !.err = TRUE]
    ELSE IF p.v > r.v THEN None ELSE r
  ELSE IF r = p THEN None ELSE r

(* What to record, or None.                                                *)
reconcileOsUpdateReport(p, r) ==
  IF p.v = None THEN r
  ELSE IF r.v # p.v THEN
    IF r.state = "confirmed" /\ p.state # "confirmed" THEN
      IF r.v > p.v THEN r
      ELSE IF p.err THEN None
      ELSE [p EXCEPT !.err = TRUE]
    ELSE IF p.v > r.v THEN None ELSE r
  ELSE IF p.state = "confirmed" /\ r.state \notin {"confirmed", "rolled_back"} THEN None
  ELSE IF r = p THEN None ELSE r

Local == UNCHANGED <<device, app, worker, journal, attempts, counters, good, auto>>

ServerReads(r) ==
  /\ r \in net /\ Cardinality(writes) < MaxHandlers
  /\ net' = net \ {r}
  /\ writes' = writes \cup {<<r, reconcileOsUpdateReport(server, r)>>}
  /\ UNCHANGED <<server, hb>> /\ Local

ServerWrites(w) ==
  /\ w \in writes
  /\ writes' = writes \ {w}
  /\ server' = IF w[2] = None THEN server ELSE w[2]
  /\ hb' = IF hb.pc = "waiting" /\ hb.sent = w[1] THEN [hb EXCEPT !.pc = "answered"] ELSE hb
  /\ UNCHANGED net /\ Local

Lost(r) ==
  /\ r \in net
  /\ net' = net \ {r}
  /\ UNCHANGED <<writes, server, hb>> /\ Local

-----------------------------------------------------------------------------
Worker ==
  \/ \E v \in Versions, force \in BOOLEAN : ApplyRefused(v, force) \/ ApplyAdmitted(v, force)
  \/ record_attempt \/ RecordFails \/ Deferred \/ Downloaded \/ ApplyFails
  \/ HandOff \/ SpawnFails \/ CliFails \/ CliSucceeds \/ SavePendingReboot \/ NoReboot

Heartbeat == report_confirmed \/ ReportAnswered \/ ReportTimesOut

Installer ==
  \/ RaucAccepts \/ schedule_reboot \/ set_primary \/ RaucFinishes \/ RaucFails
  \/ GuardVerifies \/ GuardRechecks \/ GuardCancels

System ==
  \/ PowerCycle \/ Tryboot \/ AppStarts \/ AppCrashes
  \/ mark_kiosk_healthy \/ mark_good \/ ConfirmBoot

Server ==
  \/ \E r \in Reports : ServerReads(r) \/ Lost(r)
  \/ \E w \in writes : ServerWrites(w)

Next == Worker \/ Heartbeat \/ Installer \/ System \/ Server

Spec == Init /\ [][Next]_vars

-----------------------------------------------------------------------------
(* Properties.                                                             *)

(* A power cycle at any moment boots an image that has been marked good:   *)
(* neither an image still being written nor a trial becomes permanent,     *)
(* because only a confirmed boot may hand a bundle to RAUC and because     *)
(* set-primary keeps the running slot (docs/full-os-ota.md: the prior slot *)
(* stays available for rollback).                                          *)
FallbackProven == slots[perm] \in good

(* No attempt, automatic or forced, gets past apply_tracked while RAUC     *)
(* still installs, however often the app has exited since it started that  *)
(* installation and whatever became of the rauc command.                   *)
AttemptAlone ==
  worker.pc \in {"journaled", "downloading", "verified"} => installer_idle

(* A journal that says rolled back is final: nothing installs or is about  *)
(* to reboot into that image.  The old OS's heartbeats during an           *)
(* installation do not produce it (os_journal.rs, reconcile).              *)
RollbackIsFinal ==
  journal # None /\ journal.stage = "RolledBack" =>
    installer_idle /\ reboot = "off" /\ worker.pc = "idle" /\ journal.boot # boot

(* The server calls a release confirmed only if this device has marked it  *)
(* good, with reports lost, delayed and reordered.                         *)
ConfirmedIsProven == server.state = "confirmed" => server.v \in good \cup {None}

(* A release that never proves itself is started automatically at most     *)
(* three times, power losses included and deferred downloads not counted.  *)
AttemptsLimited == \A v \in Versions \ good : auto[v] <= ATTEMPT_LIMIT

(* Boots, attempts and reports as a whole: the claims above.               *)
BootSafe ==
  /\ TypeOK /\ FallbackProven /\ AttemptAlone /\ RollbackIsFinal
  /\ ConfirmedIsProven /\ AttemptsLimited

(* A report of an installation or a failure that arrives late does not     *)
(* undo the confirmation of the same release (os-update-status.ts).        *)
ConfirmationSticks ==
  [][server.state = "confirmed" /\ server'.v = server.v
       => server'.state \in {"confirmed", "rolled_back"}]_server

(* The newest release, once it runs and is confirmed, is confirmed on the  *)
(* server too: the new boot is reconciled and reported (report_confirmed). *)
NewBootReported ==
  (current_os_version = MaxVer /\ boot_is_confirmed)
    ~> (server.v = MaxVer /\ server.state = "confirmed")

(* systemd restarts the app and the health service; the heartbeat thread   *)
(* runs every 60 s and repeats its report; the server works on; and a      *)
(* report that is sent again and again is delivered at last.               *)
Fairness ==
  /\ WF_vars(AppStarts \/ mark_kiosk_healthy \/ mark_good \/ ConfirmBoot)
  /\ WF_vars(Heartbeat)
  /\ WF_vars((\E r \in Reports : ServerReads(r)) \/ (\E w \in writes : ServerWrites(w)))
  /\ SF_vars(ServerReads(Report(MaxVer, "confirmed")))

FairSpec == Spec /\ Fairness
=============================================================================
