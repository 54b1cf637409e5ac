--------------------------- MODULE OsUpdateProofs ---------------------------
(***************************************************************************)
(* For every set of releases, healthy or not, and any number of boots,     *)
(* crashes, forced retries, reports in flight and overlapping requests.    *)
(***************************************************************************)
EXTENDS OsUpdate, FiniteSetTheorems, TLAPS

(* The plain boot is proven; once this boot is marked good it is the       *)
(* permanent one.                                                          *)
SlotInv ==
  /\ FallbackProven
  /\ health # "none" => slots[cur] \in Healthy
  /\ health \in {"marked", "confirmed"} => perm = cur

(* A worker, an installation and a reboot guard belong to an attempt that  *)
(* the journal recorded in this boot, and the journal's stage follows the  *)
(* worker: while RAUC installs it says Installing, which blocks the next   *)
(* attempt.                                                                *)
WorkInv ==
  /\ worker.pc # "idle" =>
       /\ app = "up" /\ health = "confirmed" /\ worker.v \in Versions
       /\ journal # None /\ journal.boot = boot
  /\ rauc.op # "idle" =>
       /\ health = "confirmed" /\ rauc.v \in Versions
       /\ journal # None /\ journal.boot = boot /\ journal.stage = "Installing"
  /\ reboot # "off" => journal # None /\ journal.boot = boot
  /\ worker.pc \in {"journaled", "downloading", "verified"} => journal.stage = "Downloading"
  /\ worker.pc \in {"handoff", "installing", "installed"} => journal.stage = "Installing"
  /\ worker.pc = "rebooting" => journal.stage = "PendingReboot"
  /\ worker.pc \notin {"idle", "installing"} => rauc.op = "idle"

(* Verdicts are about earlier boots.                                       *)
JournalInv ==
  journal # None =>
    /\ journal.boot <= boot
    /\ journal.stage \in {"Confirmed", "RolledBack"} => journal.boot < boot

Proven(r) == r.state = "confirmed" => r.v \in good

(* Confirmations are true wherever they are.                               *)
ReportInv ==
  /\ \A r \in net : Proven(r)
  /\ \A w \in writes : w[2] # None => Proven(w[2])
  /\ hb.pc \in {"waiting", "answered"} => hb.sent \in Reports /\ Proven(hb.sent)
  /\ ConfirmedIsProven

(* The durable count bounds the automatic attempts of unproven releases; a *)
(* forced download has its own reservation.                                *)
AttemptInv ==
  /\ \A v \in Versions \ good : auto[v] <= attempts[v]
  /\ AttemptsLimited
  /\ worker.pc = "journaled" /\ ~worker.force => attempts[worker.v] < ATTEMPT_LIMIT
  /\ worker.pc = "downloading" /\ ~worker.force => auto[worker.v] > 0
  /\ worker.pc = "downloading" /\ worker.force /\ worker.v \notin good =>
       auto[worker.v] < attempts[worker.v]

OsInv == TypeOK /\ SlotInv /\ WorkInv /\ JournalInv /\ ReportInv /\ AttemptInv

LEMMA OsInvInit == Init => OsInv
BY OsAssumption
DEF Init, OsInv, TypeOK, SlotInv, WorkInv, JournalInv, ReportInv, AttemptInv, FallbackProven,
    Proven, ConfirmedIsProven, AttemptsLimited, Versions, Slots, NoWorker, NoHeartbeat,
    IdleRauc, States, ATTEMPT_LIMIT

(* A report is under way or lost: what holds of it and of the earlier ones *)
(* holds of all.                                                           *)
LEMMA SendKeeps ==
  ASSUME NEW r \in Reports, Send(r), net \subseteq Reports,
         Proven(r), \A q \in net : Proven(q)
  PROVE  net' \subseteq Reports /\ \A q \in net' : Proven(q)
<1>1. net' \subseteq net \cup {r} BY DEF Send
<1> QED BY <1>1

(* Whatever ends an attempt with an error.                                 *)
LEMMA FailKeeps == OsInv /\ app = "up" /\ worker.pc # "idle" /\ Fail => OsInv'
<1> SUFFICES ASSUME OsInv, app = "up", worker.pc # "idle", Fail PROVE OsInv'
  OBVIOUS
<1> USE OsAssumption DEF OsInv, TypeOK, SlotInv, WorkInv, JournalInv, ReportInv, AttemptInv, FallbackProven,
        Proven, ConfirmedIsProven, AttemptsLimited, device, disk, volatile, cloud, counters,
        boot_is_confirmed, installer_idle, current_os_version, NoWorker, NoHeartbeat, IdleRauc,
        WorkerAt, Goto, Report, JournalFree, Environment, Local, save_stage, Slots, other_slot,
        ATTEMPT_LIMIT, Journals, Reports, States, Stages
<1>1. Report(worker.v, "failed") \in Reports BY DEF Versions
<1>2. net' \subseteq Reports /\ \A q \in net' : Proven(q)
  <2>1. Send(Report(worker.v, "failed")) BY DEF Fail
  <2>2. Proven(Report(worker.v, "failed")) OBVIOUS
  <2> HIDE DEF Reports, Report, Proven
  <2> QED BY <1>1, <2>1, <2>2, SendKeeps
<1>3. journal' \in Journals /\ journal'.boot = boot BY DEF Fail
<1>4. \A q \in net' : q.state = "confirmed" => q.v \in good' BY <1>2 DEF Fail
<1> QED BY <1>1, <1>2, <1>3, <1>4 DEF Fail

(* The update worker's steps.                                              *)
LEMMA WorkerKeeps == OsInv /\ Worker => OsInv'
<1> SUFFICES ASSUME OsInv, Worker PROVE OsInv'
  OBVIOUS
<1> USE OsAssumption DEF OsInv, TypeOK, SlotInv, WorkInv, JournalInv, ReportInv, AttemptInv, FallbackProven,
        Proven, ConfirmedIsProven, AttemptsLimited, device, disk, volatile, cloud, counters,
        boot_is_confirmed, installer_idle, current_os_version, NoWorker, NoHeartbeat, IdleRauc,
        WorkerAt, Goto, Report, JournalFree, Environment, Local, save_stage, Slots, other_slot,
        ATTEMPT_LIMIT, Journals, Reports, States, Stages
<1>1. ASSUME NEW v \in Versions, NEW force \in BOOLEAN, ApplyRefused(v, force) PROVE OsInv'
  BY <1>1 DEF ApplyRefused, MayApply, CountForce, reconciled, reconcile
<1>2. ASSUME NEW v \in Versions, NEW force \in BOOLEAN, ApplyAdmitted(v, force) PROVE OsInv'
  BY <1>2 DEF ApplyAdmitted, MayApply, CountForce, Refused, blocked, blocks_apply, reconciled, reconcile
<1>3. CASE record_attempt BY <1>3 DEF record_attempt
<1>4. CASE RecordFails BY <1>4 DEF RecordFails
<1>5. CASE Deferred BY <1>5 DEF Deferred
<1>6. CASE Downloaded BY <1>6 DEF Downloaded
<1>7. CASE ApplyFails BY <1>7, FailKeeps DEF ApplyFails
<1>8. CASE HandOff BY <1>8 DEF HandOff
<1>9. CASE SpawnFails
  <2>1. net' \subseteq Reports /\ \A q \in net' : Proven(q)
    <3>1. /\ Send(Report(worker.v, "failed"))
          /\ Report(worker.v, "failed") \in Reports /\ Proven(Report(worker.v, "failed"))
      BY <1>9 DEF SpawnFails
    <3> HIDE DEF Reports, Report, Proven
    <3> QED BY <3>1, SendKeeps
  <2>2. \A q \in net' : q.state = "confirmed" => q.v \in good' BY <1>9, <2>1 DEF SpawnFails
  <2> QED BY <1>9, <2>1, <2>2 DEF SpawnFails
<1>10. CASE CliFails BY <1>10, FailKeeps DEF CliFails
<1>11. CASE CliSucceeds
  <2>1. net' \subseteq Reports /\ \A q \in net' : Proven(q)
    <3>1. /\ Send(Report(worker.v, "pending_reboot"))
          /\ Report(worker.v, "pending_reboot") \in Reports
          /\ Proven(Report(worker.v, "pending_reboot"))
      BY <1>11 DEF CliSucceeds
    <3> HIDE DEF Reports, Report, Proven
    <3> QED BY <3>1, SendKeeps
  <2>2. \A q \in net' : q.state = "confirmed" => q.v \in good' BY <1>11, <2>1 DEF CliSucceeds
  <2> QED BY <1>11, <2>1, <2>2 DEF CliSucceeds
<1>12. CASE SavePendingReboot BY <1>12 DEF SavePendingReboot
<1>13. CASE NoReboot BY <1>13, FailKeeps DEF NoReboot
<1> HIDE DEF OsInv
<1> QED BY <1>1, <1>2, <1>3, <1>4, <1>5, <1>6, <1>7, <1>8, <1>9, <1>10, <1>11, <1>12, <1>13 DEF Worker

(* The heartbeat thread's steps.                                           *)
LEMMA HeartbeatKeeps == OsInv /\ Heartbeat => OsInv'
<1> SUFFICES ASSUME OsInv, Heartbeat PROVE OsInv'
  OBVIOUS
<1> USE OsAssumption DEF OsInv, TypeOK, SlotInv, WorkInv, JournalInv, ReportInv, AttemptInv, FallbackProven,
        Proven, ConfirmedIsProven, AttemptsLimited, device, disk, volatile, cloud, counters,
        boot_is_confirmed, installer_idle, current_os_version, NoWorker, NoHeartbeat, IdleRauc,
        WorkerAt, Goto, Report, JournalFree, Environment, Local, save_stage, Slots, other_slot,
        ATTEMPT_LIMIT, Journals, Reports, States, Stages
<1>1. CASE report_confirmed
  <2> DEFINE j == reconcile(journal)
  <2>1. journal # None =>
          /\ j \in Journals /\ j.boot = journal.boot /\ j.v = journal.v
          /\ journal.boot = boot => j = journal
          /\ j.stage \in {"Confirmed", "RolledBack"} => j.boot < boot
          /\ j.stage \in {"Confirmed", "PendingReboot"} /\ j.boot # boot => j.v = slots[cur]
    BY DEF reconcile
  <2>2. /\ hb' = [pc |-> "waiting", sent |-> hb'.sent] /\ Send(hb'.sent)
        /\ hb'.sent \in Reports /\ Proven(hb'.sent)
        /\ journal' \in Journals \cup {None}
        /\ worker.pc # "idle" \/ rauc.op # "idle" \/ reboot # "off" => journal' = journal
        /\ journal' # None =>
             /\ journal'.boot <= boot
             /\ journal'.stage \in {"Confirmed", "RolledBack"} => journal'.boot < boot
    <3> HIDE DEF j
    <3>1. slots[cur] \in Versions BY <1>1 DEF report_confirmed
    <3>2. CASE journal = None
      <4>1. boot_is_confirmed /\ Post(None, Report(slots[cur], "confirmed"))
        BY <1>1, <3>2 DEF report_confirmed, reconciled
      <4>2. worker.pc = "idle" /\ rauc.op = "idle" /\ reboot = "off" BY <3>2
      <4>3. Report(slots[cur], "confirmed") \in Reports /\ slots[cur] \in good
        BY <3>1, <4>1
      <4> QED BY <4>1, <4>2, <4>3 DEF Post
    <3>3. CASE journal # None /\ Post(j, Report(j.v, "rolled_back")) /\ j.stage = "RolledBack"
      BY <2>1, <3>3 DEF Post
    <3>4. CASE journal # None /\ Post(j, Report(j.v, "failed")) /\ j.stage = "Failed"
      BY <2>1, <3>4 DEF Post
    <3>5. CASE /\ journal # None /\ boot_is_confirmed
               /\ j.stage = "Confirmed" \/ (j.stage = "PendingReboot" /\ j.boot # boot)
               /\ Post([j EXCEPT !.stage = "Confirmed"], Report(j.v, "confirmed"))
      BY <2>1, <3>1, <3>5 DEF Post
    <3> QED BY <1>1, <2>1, <3>2, <3>3, <3>4, <3>5 DEF report_confirmed, reconciled, j
  <2>3. UNCHANGED <<device, app, worker, attempts, writes, server, counters, good, auto>>
    BY <1>1 DEF report_confirmed
  <2>4. net' \subseteq Reports /\ \A q \in net' : Proven(q)
    <3>1. net \subseteq Reports /\ \A q \in net : Proven(q) OBVIOUS
    <3> HIDE DEF Reports, Proven
    <3> QED BY <2>2, <3>1, SendKeeps
  <2>5. TypeOK' BY <2>2, <2>3, <2>4
  <2>6. SlotInv' /\ AttemptInv' BY <2>3
  <2>7. WorkInv' /\ JournalInv' BY <2>2, <2>3
  <2>8. ReportInv' BY <2>2, <2>3, <2>4
  <2> QED BY <2>5, <2>6, <2>7, <2>8
<1>2. CASE ReportAnswered BY <1>2 DEF ReportAnswered
<1>3. CASE ReportTimesOut BY <1>3 DEF ReportTimesOut
<1> QED BY <1>1, <1>2, <1>3 DEF Heartbeat

(* The steps of RAUC and of the reboot guard.                              *)
LEMMA InstallerKeeps == OsInv /\ Installer => OsInv'
<1> SUFFICES ASSUME OsInv, Installer PROVE OsInv'
  OBVIOUS
<1> USE OsAssumption DEF OsInv, TypeOK, SlotInv, WorkInv, JournalInv, ReportInv, AttemptInv, FallbackProven,
        Proven, ConfirmedIsProven, AttemptsLimited, device, disk, volatile, cloud, counters,
        boot_is_confirmed, installer_idle, current_os_version, NoWorker, NoHeartbeat, IdleRauc,
        WorkerAt, Goto, Report, JournalFree, Environment, Local, save_stage, Slots, other_slot,
        ATTEMPT_LIMIT, Journals, Reports, States, Stages
<1>1. CASE RaucAccepts BY <1>1 DEF RaucAccepts
<1>2. CASE schedule_reboot BY <1>2 DEF schedule_reboot
<1>3. CASE set_primary BY <1>3 DEF set_primary
<1>4. CASE RaucFinishes BY <1>4 DEF RaucFinishes
<1>5. CASE RaucFails BY <1>5 DEF RaucFails
<1>6. CASE GuardVerifies BY <1>6 DEF GuardVerifies, Installed
<1>7. CASE GuardRechecks BY <1>7 DEF GuardRechecks, Installed
<1>8. CASE GuardCancels BY <1>8 DEF GuardCancels
<1> QED BY <1>1, <1>2, <1>3, <1>4, <1>5, <1>6, <1>7, <1>8 DEF Installer

(* Boots, exits and the confirmation of health.                            *)
LEMMA SystemKeeps == OsInv /\ System => OsInv'
<1> SUFFICES ASSUME OsInv, System PROVE OsInv'
  OBVIOUS
<1> USE OsAssumption DEF OsInv, TypeOK, SlotInv, WorkInv, JournalInv, ReportInv, AttemptInv, FallbackProven,
        Proven, ConfirmedIsProven, AttemptsLimited, device, disk, volatile, cloud, counters,
        boot_is_confirmed, installer_idle, current_os_version, NoWorker, NoHeartbeat, IdleRauc,
        WorkerAt, Goto, Report, JournalFree, Environment, Local, save_stage, Slots, other_slot,
        ATTEMPT_LIMIT, Journals, Reports, States, Stages
<1>1. CASE PowerCycle BY <1>1 DEF PowerCycle, Boot
<1>2. CASE Tryboot BY <1>2 DEF Tryboot, Boot
<1>3. CASE AppStarts BY <1>3 DEF AppStarts
<1>4. CASE AppCrashes BY <1>4 DEF AppCrashes
<1>5. CASE mark_kiosk_healthy BY <1>5 DEF mark_kiosk_healthy
<1>6. CASE mark_good BY <1>6 DEF mark_good
<1>7. CASE ConfirmBoot BY <1>7 DEF ConfirmBoot
<1> QED BY <1>1, <1>2, <1>3, <1>4, <1>5, <1>6, <1>7 DEF System

(* The server's steps.                                                     *)
LEMMA ServerKeeps == OsInv /\ Server => OsInv'
<1> SUFFICES ASSUME OsInv, Server PROVE OsInv'
  OBVIOUS
<1> USE OsAssumption DEF OsInv, TypeOK, SlotInv, WorkInv, JournalInv, ReportInv, AttemptInv, FallbackProven,
        Proven, ConfirmedIsProven, AttemptsLimited, device, disk, volatile, cloud, counters,
        boot_is_confirmed, installer_idle, current_os_version, NoWorker, NoHeartbeat, IdleRauc,
        WorkerAt, Goto, Report, JournalFree, Environment, Local, save_stage, Slots, other_slot,
        ATTEMPT_LIMIT, Journals, Reports, States, Stages
<1>1. ASSUME NEW r \in Reports, ServerReads(r) PROVE OsInv'
  <2> DEFINE d == reconcileOsUpdateReport(server, r)
  <2>1. d \in Reports \cup {None} /\ (d # None => Proven(d))
    <3>1. Proven(r) BY <1>1 DEF ServerReads
    <3> QED BY <3>1, ZenonT(60) DEF reconcileOsUpdateReport
  <2> HIDE DEF d
  <2>2. writes' = writes \cup {<<r, d>>} BY <1>1 DEF ServerReads, d
  <2>3. writes' \subseteq Reports \X (Reports \cup {None}) BY <2>1, <2>2
  <2>4. \A w \in writes' : w[2] # None => (w[2].state = "confirmed" => w[2].v \in good)
    BY <2>1, <2>2
  <2> QED BY <1>1, <2>3, <2>4 DEF ServerReads
<1>2. ASSUME NEW r \in Reports, Lost(r) PROVE OsInv'
  BY <1>2 DEF Lost
<1>3. ASSUME NEW w \in writes, ServerWrites(w) PROVE OsInv'
  BY <1>3 DEF ServerWrites
<1> QED BY <1>1, <1>2, <1>3 DEF Server

LEMMA OsInvStep == OsInv /\ [Next]_vars => OsInv'
<1> SUFFICES ASSUME OsInv, [Next]_vars PROVE OsInv'
  OBVIOUS
<1>1. CASE UNCHANGED vars
  BY <1>1 DEF vars, device, disk, volatile, cloud, counters, OsInv, TypeOK, SlotInv, WorkInv,
    JournalInv, ReportInv, AttemptInv, FallbackProven, Proven, ConfirmedIsProven, AttemptsLimited
<1> QED BY <1>1, WorkerKeeps, HeartbeatKeeps, InstallerKeeps, SystemKeeps, ServerKeeps DEF Next

-----------------------------------------------------------------------------
(* Types: in particular only complete images of known releases are marked  *)
(* good or reported, and no refund takes a count below zero.               *)
THEOREM OsUpdateTypes == Spec => []TypeOK
<1>1. OsInv => TypeOK BY DEF OsInv
<1> QED BY <1>1, OsInvInit, OsInvStep, PTL DEF Spec

(* Power may be lost at any step of any attempt: the slot that a plain     *)
(* boot selects holds an image that was marked good, however the worker,   *)
(* RAUC's set-primary and the mark-good service interleave.                *)
THEOREM FallbackStaysProven == Spec => []FallbackProven
<1>1. OsInv => FallbackProven BY DEF OsInv, SlotInv
<1> QED BY <1>1, OsInvInit, OsInvStep, PTL DEF Spec

(* apply_tracked admits no attempt while RAUC installs, although the app   *)
(* may have forgotten that installation: the journal has not.              *)
THEOREM AttemptsStayAlone == Spec => []AttemptAlone
<1>1. OsInv => AttemptAlone BY DEF OsInv, WorkInv, AttemptAlone, installer_idle
<1> QED BY <1>1, OsInvInit, OsInvStep, PTL DEF Spec

(* A rollback that reconcile has written is not followed by the reboot     *)
(* into the release it gave up.                                            *)
THEOREM RollbacksAreFinal == Spec => []RollbackIsFinal
<1>1. OsInv => RollbackIsFinal
  BY OsAssumption DEF OsInv, WorkInv, JournalInv, TypeOK, RollbackIsFinal, installer_idle, Journals
<1> QED BY <1>1, OsInvInit, OsInvStep, PTL DEF Spec

(* What report_confirmed sends and reconcileOsUpdateReport records as      *)
(* confirmed is proven, also when the server's requests overlap.           *)
THEOREM ConfirmationsAreTrue == Spec => []ConfirmedIsProven
<1>1. OsInv => ConfirmedIsProven BY DEF OsInv, ReportInv
<1> QED BY <1>1, OsInvInit, OsInvStep, PTL DEF Spec

(* update_guard.rs counts before the work starts, so that no power loss    *)
(* buys a release another automatic attempt.                               *)
THEOREM AttemptsStayLimited == Spec => []AttemptsLimited
<1>1. OsInv => AttemptsLimited BY DEF OsInv, AttemptInv
<1> QED BY <1>1, OsInvInit, OsInvStep, PTL DEF Spec

(* The claims of BootSafe hold together, whatever is forced, lost, delayed *)
(* or cut off by a loss of power.                                          *)
THEOREM BootsAreSafe == Spec => []BootSafe
<1>1. TypeOK /\ FallbackProven /\ AttemptAlone /\ RollbackIsFinal
        /\ ConfirmedIsProven /\ AttemptsLimited => BootSafe
  BY DEF BootSafe
<1> QED
  BY <1>1, OsUpdateTypes, FallbackStaysProven, AttemptsStayAlone, RollbacksAreFinal,
     ConfirmationsAreTrue, AttemptsStayLimited, PTL
(* With one status request at a time, what is about to be written was      *)
(* decided on the row that is there.                                       *)
Serial ==
  /\ \A w \in writes : writes = {w}
  /\ \A w \in writes : w[2] = reconcileOsUpdateReport(server, w[1])

(* A step that writes no row keeps what the server is about to write; the  *)
(* row that is written was decided on the present one.                     *)
LEMMA SerialKept ==
  ASSUME MaxHandlers \in {0, 1}, OsInv, Serial, [Next]_vars
  PROVE  /\ Serial'
         /\ \/ server' = server
            \/ \E r \in Reports : server' = reconcileOsUpdateReport(server, r) /\ server' # None
<1>1. CASE UNCHANGED <<writes, server>>
  BY <1>1 DEF Serial, reconcileOsUpdateReport
<1>2. ASSUME NEW r \in Reports, ServerReads(r)
      PROVE  Serial' /\ server' = server
  <2>1. writes = {}
    <3>1. ASSUME NEW w \in writes PROVE FALSE
      <4>1. writes = {w} BY <3>1 DEF Serial
      <4>2. Cardinality(writes) = 1 BY <4>1, FS_Singleton
      <4> QED BY <1>2, <4>2 DEF ServerReads
    <3> QED BY <3>1
  <2>2. /\ writes' = {<<r, reconcileOsUpdateReport(server, r)>>}
        /\ server' = server
    BY <1>2, <2>1 DEF ServerReads
  <2> QED BY <2>2 DEF Serial, reconcileOsUpdateReport
<1>3. ASSUME NEW w \in writes, ServerWrites(w)
      PROVE  /\ Serial'
             /\ \/ server' = server
                \/ \E r \in Reports :
                     server' = reconcileOsUpdateReport(server, r) /\ server' # None
  <2>1. writes' = {} BY <1>3 DEF ServerWrites, Serial
  <2>2. w[1] \in Reports /\ w[2] = reconcileOsUpdateReport(server, w[1])
    BY <1>3 DEF OsInv, TypeOK, Serial
  <2>3. server' = IF w[2] = None THEN server ELSE w[2] BY <1>3 DEF ServerWrites
  <2> QED BY <2>1, <2>2, <2>3 DEF Serial
<1>4. CASE Worker \/ Heartbeat \/ Installer \/ System
  <2>1. ASSUME Worker PROVE UNCHANGED <<writes, server>>
    <3>1. ASSUME NEW v \in Versions, NEW force \in BOOLEAN,
                 ApplyRefused(v, force) \/ ApplyAdmitted(v, force)
          PROVE  UNCHANGED <<writes, server>>
      BY <3>1 DEF ApplyRefused, ApplyAdmitted, cloud
    <3>2. CASE RecordFails \/ ApplyFails \/ CliFails \/ NoReboot
      BY <3>2 DEF RecordFails, ApplyFails, CliFails, NoReboot, Fail, cloud
    <3>3. CASE record_attempt \/ Deferred \/ Downloaded \/ HandOff
      BY <3>3 DEF record_attempt, Deferred, Downloaded, HandOff, cloud
    <3>4. CASE SpawnFails \/ CliSucceeds \/ SavePendingReboot
      BY <3>4 DEF SpawnFails, CliSucceeds, SavePendingReboot, cloud
    <3> QED BY <2>1, <3>1, <3>2, <3>3, <3>4 DEF Worker
  <2>2. ASSUME Heartbeat PROVE UNCHANGED <<writes, server>>
    BY <2>2 DEF Heartbeat, report_confirmed, ReportAnswered, ReportTimesOut, cloud
  <2>3. ASSUME Installer PROVE UNCHANGED <<writes, server>>
    BY <2>3 DEF Installer, RaucAccepts, schedule_reboot, set_primary, RaucFinishes, RaucFails,
                GuardVerifies, GuardRechecks, GuardCancels, Environment, cloud
  <2>4. ASSUME System PROVE UNCHANGED <<writes, server>>
    BY <2>4 DEF System, PowerCycle, Tryboot, AppStarts, AppCrashes, mark_kiosk_healthy,
                mark_good, ConfirmBoot, Boot, cloud
  <2> QED BY <1>1, <1>4, <2>1, <2>2, <2>3, <2>4
<1>5. CASE UNCHANGED vars
  BY <1>1, <1>5 DEF vars, cloud
<1>6. ASSUME NEW r \in Reports, Lost(r) PROVE UNCHANGED <<writes, server>>
  BY <1>6 DEF Lost
<1> QED BY <1>1, <1>2, <1>3, <1>4, <1>5, <1>6 DEF Next, Server

(* With one status request at a time the reports of an installation or of  *)
(* a failure, however delayed, reordered or lost, do not undo the          *)
(* confirmation of the release they are about.                             *)
THEOREM ConfirmationsStick ==
  ASSUME MaxHandlers \in {0, 1}
  PROVE  Spec => ConfirmationSticks
<1>1. Init => Serial BY DEF Init, Serial
<1>2. OsInv /\ Serial /\ [Next]_vars => Serial' BY SerialKept
<1>3. OsInv /\ Serial /\ [Next]_vars
        => [server.state = "confirmed" /\ server'.v = server.v
              => server'.state \in {"confirmed", "rolled_back"}]_server
  <2> SUFFICES ASSUME OsInv, Serial, [Next]_vars, server' # server,
                      server.state = "confirmed", server'.v = server.v
               PROVE  server'.state \in {"confirmed", "rolled_back"}
    OBVIOUS
  <2>1. PICK r \in Reports : server' = reconcileOsUpdateReport(server, r) /\ server' # None
    BY SerialKept
  <2>2. server.v \in Versions \cup {None} /\ r.v \in Versions
    BY DEF OsInv, TypeOK, Reports
  <2> QED BY <2>1, <2>2, OsAssumption DEF reconcileOsUpdateReport
<1>4. Spec => []Serial BY <1>1, <1>2, OsInvInit, OsInvStep, PTL DEF Spec
<1> QED BY <1>3, <1>4, OsInvInit, OsInvStep, PTL DEF Spec, ConfirmationSticks
=============================================================================
