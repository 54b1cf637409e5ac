------------------------------ MODULE AppUpdate ------------------------------
(***************************************************************************)
(* Installing a new kiosk application on Linux: the updater inside the     *)
(* running app (firmware.rs, update_guard.rs), the service's ExecStartPre  *)
(* helper that rolls back a candidate which never proves healthy           *)
(* (betterframe-firmware-rollback.sh), and a repair with setup.sh.         *)
(*                                                                         *)
(* The executables are identified by their versions.  Files are durable;   *)
(* the process, and a helper or setup at work, are lost with power.        *)
(***************************************************************************)
EXTENDS Integers

CONSTANTS
  MaxVer,       \* bound: releases 1..MaxVer
  Healthy,      \* releases that reach a rendered frame or a heartbeat
  Updating,     \* releases whose update worker gets to run
  AdminPushes,  \* whether administrators push past the attempt limit
  MaxSetups,    \* bound: runs of setup.sh
  None, Torn    \* no file; a file whose copy was interrupted

Versions == 1..MaxVer

ASSUME AppAssumption ==
  /\ MaxVer \in Nat \ {0} /\ MaxSetups \in Nat
  /\ Healthy \subseteq Versions /\ Updating \subseteq Versions
  /\ 1 \in Healthy
  /\ AdminPushes \in BOOLEAN
  /\ None \notin Versions /\ Torn \notin Versions /\ None # Torn

MAX_ATTEMPTS  == 3   \* starts of an unconfirmed candidate
ATTEMPT_LIMIT == 3   \* recorded failures that block a release

VARIABLES
  bin, prev, new,    \* the executable, its backup, the staged download
  marker, attempts,  \* firmware-applying.json and .attempts
  guard,             \* update-attempts.json: recorded failures per release
  svc,               \* "down", "copying" (rollback), "running" or "setup"
  run, upd,          \* the running release and its update worker
  setup, setups,     \* setup.sh at work
  healthy            \* history: releases that proved healthy on this device

files == <<bin, prev, new, marker, attempts, guard>>
vars == <<files, svc, run, upd, setup, setups, healthy>>

NoUpdate == [pc |-> "idle", v |-> None]
NoSetup  == [pc |-> "idle", v |-> None, preserve |-> FALSE]

TypeOK ==
  /\ bin \in Versions \cup {Torn}
  /\ prev \in Versions \cup {None}
  /\ new \in Versions \cup {None}
  /\ marker \in Versions \cup {None}
  /\ attempts \in 0..MAX_ATTEMPTS
  /\ guard \in [Versions -> 0..ATTEMPT_LIMIT]
  /\ svc \in {"down", "copying", "running", "setup"}
  /\ run \in Versions \cup {None, Torn}
  /\ upd \in [pc : {"idle", "downloading", "staged", "stashed", "armed", "swapped"},
              v : Versions \cup {None}]
  /\ setup \in [pc : {"idle", "stopped", "stashed", "staged", "armed", "swapped", "watching", "failed"},
                v : Versions \cup {None}, preserve : BOOLEAN]
  /\ setups \in 0..MaxSetups
  /\ healthy \subseteq Versions

(* A device that runs release 1, freshly installed or updated before.      *)
Init ==
  /\ bin = 1 /\ prev \in {None, 1} /\ new = None
  /\ marker = None /\ attempts = 0
  /\ guard = [v \in Versions |-> 0]
  /\ svc = "down" /\ run = None /\ upd = NoUpdate
  /\ setup = NoSetup /\ setups = 0
  /\ healthy = {1}

-----------------------------------------------------------------------------
(* The service: ExecStartPre, then the executable.                         *)

Launch(b) == svc' = "running" /\ run' = b /\ upd' = NoUpdate

(* rm -f of both files, which a read-only file system may refuse.          *)
clear_bookkeeping ==
  \/ marker' = None /\ attempts' \in {0, attempts}
  \/ UNCHANGED <<marker, attempts>>

Start ==
  /\ svc = "down" /\ marker = None
  /\ clear_bookkeeping
  /\ Launch(bin)
  /\ UNCHANGED <<bin, prev, new, guard, setup, setups, healthy>>

(* Mutant: the start is not counted.                                       *)
StartUncounted ==
  /\ svc = "down" /\ marker # None
  /\ Launch(bin)
  /\ UNCHANGED <<files, setup, setups, healthy>>

StartCandidate ==
  /\ svc = "down" /\ marker # None
  /\ attempts < MAX_ATTEMPTS
  /\ attempts' = attempts + 1
  /\ Launch(bin)
  /\ UNCHANGED <<bin, prev, new, marker, guard, setup, setups, healthy>>

(* Power is lost while the counter is rewritten; it then reads as 0.       *)
AttemptTorn ==
  /\ svc = "down" /\ marker # None
  /\ attempts' = 0
  /\ UNCHANGED <<bin, prev, new, marker, guard, svc, run, upd, setup, setups, healthy>>

(* After three starts, or when the marker is 120 s old, or when touch or   *)
(* the counter's write fails: copy the backup over the executable.         *)
RollbackBegins ==
  /\ svc = "down" /\ marker # None /\ prev # None
  /\ svc' = "copying" /\ bin' = Torn
  /\ UNCHANGED <<prev, new, marker, attempts, guard, run, upd, setup, setups, healthy>>

RollbackEnds ==
  /\ svc = "copying"
  /\ bin' = prev
  /\ clear_bookkeeping
  /\ Launch(prev)
  /\ UNCHANGED <<prev, new, guard, setup, setups, healthy>>

RollbackWithoutBackup ==
  /\ svc = "down" /\ marker # None /\ prev = None
  /\ clear_bookkeeping
  /\ Launch(bin)
  /\ UNCHANGED <<bin, prev, new, guard, setup, setups, healthy>>

(* setup.sh sees the service it started fail.                              *)
SetupNotices == IF setup.pc = "watching" THEN [setup EXCEPT !.pc = "failed"] ELSE setup

(* A crash, an exit, a failed copy or a power loss.                        *)
Stop ==
  /\ svc \in {"running", "copying"}
  /\ svc' = "down" /\ run' = None /\ upd' = NoUpdate
  /\ setup' \in {SetupNotices, NoSetup}
  /\ UNCHANGED <<files, setups, healthy>>

(* Mutant: any running app confirms any candidate.                         *)
ConfirmAny ==
  /\ svc = "running" /\ run \in Healthy
  /\ healthy' = healthy \cup {run}
  /\ marker' = None /\ attempts' \in {0, attempts}
  /\ guard' = IF marker = None THEN guard ELSE [guard EXCEPT ![marker] = 0]
  /\ UNCHANGED <<bin, prev, new, svc, run, upd, setup, setups>>

(* A healthy frame or heartbeat: only the candidate itself confirms.  The  *)
(* counter may outlive the marker.                                         *)
mark_firmware_applied ==
  /\ svc = "running" /\ run \in Healthy
  /\ healthy' = healthy \cup {run}
  /\ IF marker = run
       THEN /\ marker' = None /\ attempts' \in {0, attempts}
            /\ guard' = [guard EXCEPT ![run] = 0]
       ELSE UNCHANGED <<marker, attempts, guard>>
  /\ UNCHANGED <<bin, prev, new, svc, run, upd, setup, setups>>

-----------------------------------------------------------------------------
(* The update worker: check, download, back up, arm, swap, exit.           *)

Worker(pc) == svc = "running" /\ upd.pc = pc

CheckUpdate(v) ==
  /\ Worker("idle") /\ run \in Updating
  /\ v > run
  /\ guard[v] < ATTEMPT_LIMIT \/ AdminPushes
  /\ upd' = [pc |-> "downloading", v |-> v]
  /\ UNCHANGED <<files, svc, run, setup, setups, healthy>>

(* The server's rate limit defers the download; nothing is recorded.       *)
Deferred ==
  /\ Worker("downloading")
  /\ upd' = NoUpdate
  /\ UNCHANGED <<files, svc, run, setup, setups, healthy>>

Staged ==
  /\ Worker("downloading")
  /\ new' = upd.v
  /\ upd' = [upd EXCEPT !.pc = "staged"]
  /\ UNCHANGED <<bin, prev, marker, attempts, guard, svc, run, setup, setups, healthy>>

stash_previous_binary ==
  /\ Worker("staged")
  /\ prev' = bin
  /\ upd' = [upd EXCEPT !.pc = "stashed"]
  /\ UNCHANGED <<bin, new, marker, attempts, guard, svc, run, setup, setups, healthy>>

persist_pending_marker ==
  /\ Worker("stashed")
  /\ marker' = upd.v /\ attempts' = 0
  /\ upd' = [upd EXCEPT !.pc = "armed"]
  /\ UNCHANGED <<bin, prev, new, guard, svc, run, setup, setups, healthy>>

Swap ==
  /\ Worker("armed")
  /\ bin' = new /\ new' = None
  /\ upd' = [upd EXCEPT !.pc = "swapped"]
  /\ UNCHANGED <<prev, marker, attempts, guard, svc, run, setup, setups, healthy>>

(* An error or, before the backup, a cancellation.  A public bootstrap     *)
(* update records no failure.                                              *)
ApplyFails ==
  /\ svc = "running" /\ upd.pc \in {"downloading", "staged", "stashed", "armed"}
  /\ new' \in IF upd.pc \in {"downloading", "staged"} THEN {new, None} ELSE {new}
  /\ attempts' \in IF upd.pc = "stashed" THEN {attempts, 0} ELSE {attempts}
  /\ guard' \in {guard, IF guard[upd.v] = ATTEMPT_LIMIT THEN guard
                        ELSE [guard EXCEPT ![upd.v] = @ + 1]}
  /\ upd' = NoUpdate
  /\ UNCHANGED <<bin, prev, marker, svc, run, setup, setups, healthy>>

-----------------------------------------------------------------------------
(* setup.sh: a root shell stops the service and installs a release.        *)

SetupStarts(v, preserve) ==
  /\ svc \in {"running", "down"} /\ setup.pc = "idle" /\ setups < MaxSetups
  /\ svc' = "setup" /\ run' = None /\ upd' = NoUpdate
  /\ setup' = [pc |-> "stopped", v |-> v, preserve |-> preserve]
  /\ setups' = setups + 1
  /\ UNCHANGED <<files, healthy>>

SetupAt(pc) == svc = "setup" /\ setup.pc = pc

(* An unconfirmed executable never replaces the backup, nor does one whose *)
(* service has failed.                                                     *)
SetupStashes ==
  /\ SetupAt("stopped")
  /\ prev' = IF marker = None /\ (~setup.preserve \/ prev = None) /\ bin # setup.v
               THEN bin ELSE prev
  /\ setup' = [setup EXCEPT !.pc = "stashed"]
  /\ UNCHANGED <<bin, new, marker, attempts, guard, svc, run, upd, setups, healthy>>

(* clear_interrupted_update keep-marker, then the staged executable.       *)
clear_interrupted_update ==
  /\ SetupAt("stashed")
  /\ attempts' = 0 /\ guard' = [v \in Versions |-> 0]
  /\ new' = setup.v
  /\ setup' = [setup EXCEPT !.pc = "staged"]
  /\ UNCHANGED <<bin, prev, marker, svc, run, upd, setups, healthy>>

arm_setup_candidate ==
  /\ SetupAt("staged")
  /\ marker' = setup.v
  /\ setup' = [setup EXCEPT !.pc = "armed"]
  /\ UNCHANGED <<bin, prev, new, attempts, guard, svc, run, upd, setups, healthy>>

SetupSwaps ==
  /\ SetupAt("armed")
  /\ bin' = new /\ new' = None
  /\ setup' = [setup EXCEPT !.pc = "swapped"]
  /\ UNCHANGED <<prev, marker, attempts, guard, svc, run, upd, setups, healthy>>

(* start_app_service watches the process for three seconds; without a      *)
(* session the start is deferred.                                          *)
SetupLaunches ==
  /\ SetupAt("swapped")
  /\ svc' = "down"
  /\ setup' \in {[setup EXCEPT !.pc = "watching"], NoSetup}
  /\ UNCHANGED <<files, run, upd, setups, healthy>>

SetupSatisfied ==
  /\ setup.pc = "watching" /\ svc = "running"
  /\ setup' = NoSetup
  /\ UNCHANGED <<files, svc, run, upd, setups, healthy>>

(* It restores the backup atomically, then removes the bookkeeping.        *)
SetupRestores ==
  /\ setup.pc = "failed" /\ svc \in {"down", "running"}
  /\ svc' = "down" /\ run' = None /\ upd' = NoUpdate
  /\ IF prev = None THEN UNCHANGED <<bin, marker, attempts, new>>
     ELSE bin' = prev /\ new' = None /\ clear_bookkeeping
  /\ setup' = NoSetup
  /\ UNCHANGED <<prev, guard, setups, healthy>>

SetupInterrupted ==
  /\ svc = "setup"
  /\ svc' = "down" /\ setup' = NoSetup
  /\ UNCHANGED <<files, run, upd, setups, healthy>>

-----------------------------------------------------------------------------
ServiceStep ==
  \/ Start \/ StartCandidate \/ AttemptTorn
  \/ RollbackBegins \/ RollbackEnds \/ RollbackWithoutBackup
  \/ Stop \/ mark_firmware_applied

UpdateStep ==
  \/ \E v \in Versions : CheckUpdate(v)
  \/ Deferred \/ Staged \/ stash_previous_binary \/ persist_pending_marker \/ Swap \/ ApplyFails

SetupStep ==
  \/ \E v \in Versions, preserve \in BOOLEAN : SetupStarts(v, preserve)
  \/ SetupStashes \/ clear_interrupted_update \/ arm_setup_candidate \/ SetupSwaps
  \/ SetupLaunches \/ SetupSatisfied \/ SetupRestores \/ SetupInterrupted

Next == ServiceStep \/ UpdateStep \/ SetupStep

Spec == Init /\ [][Next]_vars

(* systemd restarts the service (Restart=always, no start limit), a        *)
(* release that is not healthy exits, a copy eventually completes, and     *)
(* the worker and setup.sh finish what they started.                       *)
Fairness ==
  /\ WF_vars(Start) /\ WF_vars(StartCandidate) /\ WF_vars(RollbackWithoutBackup)
  /\ WF_vars(attempts = MAX_ATTEMPTS /\ RollbackBegins) /\ SF_vars(RollbackEnds)
  /\ WF_vars(run \notin Healthy /\ Stop) /\ WF_vars(upd.pc = "swapped" /\ Stop)
  /\ WF_vars(Staged) /\ WF_vars(stash_previous_binary) /\ WF_vars(persist_pending_marker)
  /\ WF_vars(Swap) /\ WF_vars(SetupStep /\ svc = "setup") /\ WF_vars(SetupRestores)

FairSpec == Spec /\ Fairness

-----------------------------------------------------------------------------
(* Once there is a backup, the executable is one that proved healthy here, *)
(* or the backup itself, or rollback is armed; and an interrupted copy is  *)
(* never left to run without rollback.  No crash between backup, marker,   *)
(* rename, copy and clean-up, and no late confirmation by the old process, *)
(* leaves an unproven candidate on its own.                                *)
RollbackArmed ==
  /\ marker = None /\ prev # None => bin \in healthy \cup {prev}
  /\ bin = Torn => marker # None /\ prev # None

(* The files of the app update as a whole: the claims above.               *)
AppUpdateSafe == TypeOK /\ RollbackArmed

(* The device always gets back to a release that works, whatever fails,    *)
(* if no unhealthy release finds a newer one to install over its backup    *)
(* (see BackupIsProven) and power is not cut in every single copy.         *)
KioskRecovers ==
  <>[][~AttemptTorn]_vars => []<>(svc = "running" /\ run \in Healthy)

=============================================================================
