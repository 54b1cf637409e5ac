------------------------------ MODULE Releases ------------------------------
(***************************************************************************)
(* Release management on the server: CI imports and admin uploads of kiosk *)
(* firmware ("fw") and OS bundles ("os"), yanking, per-kiosk pins and      *)
(* channels, rollouts, the 6-hourly artifact cleanup, and the update check *)
(* and download a kiosk makes.  Every await of a handler is a place where  *)
(* another handler may run, so a handler is a record in jobs that moves    *)
(* from one database or file operation to the next.                        *)
(*                                                                         *)
(* A release row is [id, version, target, channel, sha, yanked]; its id is *)
(* also its upload order.  A blob is stored under its digest.  The two     *)
(* kinds have tables, directories and routes of their own, so a behaviour  *)
(* follows one of them, chosen initially; the target of an OS release is   *)
(* its compatibility string.                                               *)
(***************************************************************************)
EXTENDS Integers, FiniteSets

CONSTANTS Versions,      \* a set of naturals, compared by isVersionUpgrade
          Shipped,       \* the version a new kiosk comes with
          Shas,          \* digests
          Channels,
          Kiosks,
          Importers,     \* concurrent import or upload requests
          Targets,       \* build targets, "windows-x64" among them
          OldPin,        \* a version an earlier release had
          InBucket,      \* <<kiosk, rollout id>> pairs that hash below the percentage
          MaxReleases,   \* bound on release ids
          MaxRollouts,   \* bound on rollout ids
          MaxAdmin,      \* bound on administrator requests
          MaxVisits,     \* bound on update checks and cleanup passes
          KEEP_PER_CHANNEL

ASSUME RelAssumption == /\ Versions \subseteq Nat \ {0} /\ Shipped \in Nat
                        /\ OldPin \in Versions /\ Channels # {}
                        /\ MaxReleases \in Nat /\ MaxRollouts \in Nat
                        /\ KEEP_PER_CHANNEL \in Nat \ {0}

VARIABLES kind,       \* "fw" or "os"
          rel,        \* firmware_releases and os_update_releases
          blob,       \* files on disk, by digest
          rollout,    \* firmware_rollouts and os_update_rollouts
          pref,       \* [Kiosks -> [channel, pin]]
          push,       \* [Kiosks -> windows_update_push]
          sched,      \* update_schedule of the tenant
          TargetOf,   \* [Kiosks -> Targets], the build target a kiosk reports
          ver,        \* [Kiosks -> installed version]
          imp,        \* import handlers
          pass,       \* the cleanup pass
          chk,        \* the kiosks' check and download
          creating,   \* the rollouts/new handler
          relIds, rolloutIds,   \* ids handed out
          relOps      \* requests so far, for the bounds

fixed == <<kind, TargetOf>>
prefs == <<pref, push, sched>>
hist == <<relIds, rolloutIds>>
relVars == <<fixed, prefs, hist, rel, blob, rollout, ver, imp, pass, chk, creating, relOps>>

Kinds == {"fw", "os"}
NoPin == 0
NotBegun == [pc |-> "idle"]
NoPush == [version |-> 0]
LiveStates == {"queued", "active", "paused"}

-----------------------------------------------------------------------------
(* Queries of the repository                                               *)

getRelease(id) == {r \in rel : r.id = id}
getReleaseByVersionTarget(v, t) ==
  {r \in rel : r.version = v /\ r.target = t}
getLatestRelease(c, t) ==
  LET live == {r \in rel : r.channel = c /\ r.target = t /\ ~r.yanked}
  IN  {r \in live : \A s \in live : s.id <= r.id}
listActiveRolloutsForKiosk(k) ==
  {ro \in rollout : ro.state = "active" /\ (ro.targets = {} \/ k \in ro.targets)}

\* They come newest first: the one the loop looks at next.
Newest(ros) == {ro \in ros : \A x \in ros : x.id <= ro.id}

\* The Windows service uses the firmware routes only.
IsWindows(k) == kind = "fw" /\ TargetOf[k] = "windows-x64"

isKioskInRolloutBucket(k, ro) == ro.percentage = 100 \/ <<k, ro.id>> \in InBucket
isVersionUpgrade(candidate, installed) == candidate > installed

NotYanked(rs) == {r \in rs : ~r.yanked}

-----------------------------------------------------------------------------
(* Import and upload.  The blob is stored first, then the row is written;  *)
(* createFirmwareRelease inserts unless the version exists, then compares. *)

\* A kiosk row may carry a pin whose release has since been removed.
RelInit ==
  /\ kind \in Kinds
  /\ rel = {} /\ blob = {} /\ rollout = {}
  /\ pref \in [Kiosks -> [channel : {CHOOSE c \in Channels : TRUE}, pin : {NoPin, OldPin}]]
  /\ push = [k \in Kiosks |-> NoPush]
  /\ sched = "always"
  /\ TargetOf \in [Kiosks -> IF kind = "fw" THEN Targets ELSE Targets \ {"windows-x64"}]
  /\ ver = [k \in Kiosks |-> Shipped]
  /\ imp = [i \in Importers |-> NotBegun]
  /\ pass = NotBegun
  /\ chk = [k \in Kiosks |-> NotBegun]
  /\ creating = NotBegun
  /\ relIds = 0 /\ rolloutIds = 0
  /\ relOps = [admin |-> 0, visit |-> 0]

\* A path holds one digest: a blob stored again replaces itself.
storeBlob(s) == blob \union {s}
storeFromUrl(s) == blob \union {s}

Received(i, id, v, t, c, s) ==
  /\ imp[i].pc = "idle" /\ relIds < MaxReleases
  /\ relIds' = relIds + 1
  /\ imp' = [imp EXCEPT ![i] = [pc |-> kind, row |->
        [id |-> id, version |-> v, target |-> t, channel |-> c, sha |-> s,
         yanked |-> FALSE]]]
  /\ UNCHANGED <<fixed, prefs, rel, rollout, ver, pass, chk, creating, rolloutIds>>

\* The upload form and the CI route: the signature is verified, the blob stored.
uploadFirmware(i, v, t, c, s) ==
  kind = "fw" /\ blob' = storeBlob(s) /\ Received(i, relIds + 1, v, t, c, s)

importFirmware(i, v, t, c, s) ==
  kind = "fw" /\ blob' = storeBlob(s) /\ Received(i, relIds + 1, v, t, c, s)

importOs(i, v, t, c, s) ==
  /\ kind = "os" /\ t # "windows-x64"
  /\ blob' = storeFromUrl(s) /\ Received(i, relIds + 1, v, t, c, s)

InsertUnlessExists(row) ==
  IF getReleaseByVersionTarget(row.version, row.target) = {}
    THEN rel \union {row} ELSE rel

\* Either the row is new, or it is compared with the published one and the
\* caller answers 409 when content, channel or yank differ: neither writes.
createFirmwareRelease(i) ==
  /\ imp[i].pc = "fw"
  /\ rel' = InsertUnlessExists(imp[i].row)
  /\ imp' = [imp EXCEPT ![i] = NotBegun]
  /\ UNCHANGED <<fixed, prefs, hist, blob, rollout, ver, pass, chk, creating>>

\* A plain INSERT.  A duplicate version fails, and the handler then removes
\* the bundle it stored, by its path.
createOsUpdateRelease(i) ==
  /\ imp[i].pc = "os"
  /\ LET row == imp[i].row IN
       IF getReleaseByVersionTarget(row.version, row.target) = {}
         THEN /\ rel' = rel \union {row}
              /\ imp' = [imp EXCEPT ![i] = NotBegun]
         ELSE /\ imp' = [imp EXCEPT ![i].pc = "conflict"]
              /\ UNCHANGED rel
  /\ UNCHANGED <<fixed, prefs, hist, blob, rollout, ver, pass, chk, creating>>

removeBundle(i) ==
  /\ imp[i].pc = "conflict"
  /\ blob' = blob \ {imp[i].row.sha}
  /\ imp' = [imp EXCEPT ![i] = NotBegun]
  /\ UNCHANGED <<fixed, prefs, hist, rel, rollout, ver, pass, chk, creating>>

-----------------------------------------------------------------------------
(* Administration                                                          *)

yankFirmwareRelease(r) ==
  /\ kind = "fw"
  /\ rel' = (rel \ {r}) \union {[r EXCEPT !.yanked = TRUE]}
  /\ UNCHANGED <<fixed, prefs, blob, rollout, ver, imp, pass, chk, creating, relIds, rolloutIds>>

yankOsUpdateRelease(r) ==
  /\ kind = "os"
  /\ rel' = (rel \ {r}) \union {[r EXCEPT !.yanked = TRUE]}
  /\ UNCHANGED <<fixed, prefs, blob, rollout, ver, imp, pass, chk, creating, relIds, rolloutIds>>

SetPref(k, c, v) ==
  /\ v # NoPin => NotYanked(getReleaseByVersionTarget(v, TargetOf[k])) # {}
  /\ pref' = [pref EXCEPT ![k] = [channel |-> c, pin |-> v]]
  /\ UNCHANGED <<fixed, hist, rel, blob, rollout, push, sched, ver, imp, pass, chk, creating>>

\* The pin is validated, then written: the window is closed here because a
\* yank after the write has the same effect as one in between.
setKioskFirmwarePref(k, c, v) == kind = "fw" /\ SetPref(k, c, v)
setKioskOsUpdatePref(k, c, v) == kind = "os" /\ SetPref(k, c, v)

\* /admin/settings writes update_schedule, a part of every Windows policy.
SetSchedule ==
  /\ sched' = IF sched = "always" THEN "windows" ELSE "always"
  /\ UNCHANGED <<fixed, hist, rel, blob, rollout, pref, push, ver, imp, pass, chk, creating>>

windowsUpdatePolicy(p) == [channel |-> p.channel, pin |-> p.pin, schedule |-> sched]

\* What selectWindowsRelease returns for a kiosk row read with preference p: a
\* pin is final, then the newest matching rollout, then the channel's latest.
selectWindowsRelease(k, p) ==
  LET hit == {ro \in listActiveRolloutsForKiosk(k) :
                /\ isKioskInRolloutBucket(k, ro)
                /\ \E r \in NotYanked(getRelease(ro.release)) : r.target = TargetOf[k]}
  IN  IF p.pin # NoPin
        THEN NotYanked(getReleaseByVersionTarget(p.pin, TargetOf[k]))
      ELSE IF hit # {} THEN UNION {getRelease(ro.release) : ro \in Newest(hit)}
      ELSE getLatestRelease(p.channel, TargetOf[k])

\* firmware/push on a Windows kiosk: the selected version and the policy are
\* stored on the kiosk row; on Linux it only sends firmware_check.
createWindowsPush(k) ==
  /\ IsWindows(k)
  /\ \E r \in selectWindowsRelease(k, pref[k]) :
       push' = [push EXCEPT ![k] = [version |-> r.version,
                                    policy |-> windowsUpdatePolicy(pref[k])]]
  /\ UNCHANGED <<fixed, hist, rel, blob, rollout, pref, sched, ver, imp, pass, chk, creating>>

PushExpires(k) ==
  /\ push[k] # NoPush
  /\ push' = [push EXCEPT ![k] = NoPush]
  /\ UNCHANGED <<fixed, hist, rel, blob, rollout, pref, sched, ver, imp, pass, chk, creating>>

\* rollouts/new reads the release, validates the targets, inserts the rollout
\* as queued and activates it in a second statement.
RolloutNew(r, ts, pct) ==
  /\ creating.pc = "idle" /\ rolloutIds < MaxRollouts
  /\ \A k \in ts : TargetOf[k] = r.target
  /\ creating' = [pc |-> "insert", ro |->
        [id |-> rolloutIds + 1, release |-> r.id, targets |-> ts,
         percentage |-> pct, state |-> "queued"]]
  /\ rolloutIds' = rolloutIds + 1
  /\ UNCHANGED <<fixed, prefs, rel, blob, rollout, ver, imp, pass, chk, relIds>>

firmwareRolloutNew(r, ts, pct) == kind = "fw" /\ RolloutNew(r, ts, pct)
osRolloutNew(r, ts, pct) == kind = "os" /\ RolloutNew(r, ts, pct)

\* release_id is a foreign key: the insert fails when the release is gone.
createFirmwareRollout ==
  /\ creating.pc = "insert"
  /\ IF getRelease(creating.ro.release) = {}
       THEN creating' = NotBegun /\ UNCHANGED rollout
       ELSE /\ rollout' = rollout \union {creating.ro}
            /\ creating' = [creating EXCEPT !.pc = "activate"]
  /\ UNCHANGED <<fixed, prefs, hist, rel, blob, ver, imp, pass, chk>>

WithState(id, st) ==
  {IF ro.id = id THEN [ro EXCEPT !.state = st] ELSE ro : ro \in rollout}

updateFirmwareRolloutState ==
  /\ creating.pc = "activate"
  /\ rollout' = WithState(creating.ro.id, "active")
  /\ creating' = NotBegun
  /\ UNCHANGED <<fixed, prefs, hist, rel, blob, ver, imp, pass, chk>>

SetRolloutState(id, st) ==
  /\ rollout' = WithState(id, st)
  /\ UNCHANGED <<fixed, prefs, hist, rel, blob, ver, imp, pass, chk, creating>>

firmwareRolloutState(id, st) == kind = "fw" /\ SetRolloutState(id, st)
osRolloutState(id, st) == kind = "os" /\ SetRolloutState(id, st)

-----------------------------------------------------------------------------
(* The cleanup pass.  The rollouts are read once; then                     *)
(* the yanked rows are listed and removed, then the rows beyond            *)
(* KEEP_PER_CHANNEL of every channel and target are listed and removed.    *)
(* Removing is two operations: the file, then the row.                     *)

\* Mutant: paused and queued rollouts do not protect their release.
startArtifactCleanupActive ==
  /\ pass.pc = "idle"
  /\ pass' = [pc |-> "yanked", seen |-> rollout,
              protect |-> {ro.release : ro \in {x \in rollout : x.state = "active"}},
              todo |-> {}, cur |-> {}]
  /\ UNCHANGED <<fixed, prefs, hist, rel, blob, rollout, ver, imp, chk, creating>>

startArtifactCleanup ==
  /\ pass.pc = "idle"
  /\ pass' = [pc |-> "yanked", seen |-> rollout,
              protect |-> {ro.release : ro \in {x \in rollout : x.state \in LiveStates}},
              todo |-> {}, cur |-> {}]
  /\ UNCHANGED <<fixed, prefs, hist, rel, blob, rollout, ver, imp, chk, creating>>

listYankedReleases ==
  /\ pass.pc = "yanked"
  /\ pass' = [pass EXCEPT !.pc = "remove_yanked",
                !.todo = {r \in rel : r.yanked /\ r.id \notin pass.protect}]
  /\ UNCHANGED <<fixed, prefs, hist, rel, blob, rollout, ver, imp, chk, creating>>

\* releases.slice(KEEP_PER_CHANNEL) of the live rows of a key, newest first.
Excess ==
  {r \in rel : /\ ~r.yanked
               /\ Cardinality({s \in rel : /\ ~s.yanked
                                           /\ s.channel = r.channel /\ s.target = r.target
                                           /\ s.id > r.id}) >= KEEP_PER_CHANNEL}

listExcessReleases ==
  /\ pass.pc = "remove_yanked" /\ pass.todo = {}
  /\ pass' = [pass EXCEPT !.pc = "prune",
                !.todo = {r \in Excess : r.id \notin pass.protect}]
  /\ UNCHANGED <<fixed, prefs, hist, rel, blob, rollout, ver, imp, chk, creating>>

removeFile(r) ==
  /\ r \in pass.todo /\ pass.cur = {}
  /\ blob' = blob \ {r.sha}
  /\ pass' = [pass EXCEPT !.cur = {r}]
  /\ UNCHANGED <<fixed, prefs, hist, rel, rollout, ver, imp, chk, creating>>

\* ON DELETE CASCADE removes the rollouts of the release.
DropRelease(id) ==
  /\ rel' = {r \in rel : r.id # id}
  /\ rollout' = {ro \in rollout : ro.release # id}

deleteRelease(r) ==
  /\ r \in pass.cur
  /\ DropRelease(r.id)
  /\ pass' = [pass EXCEPT !.cur = {}, !.todo = @ \ {r}]
  /\ UNCHANGED <<fixed, prefs, hist, blob, ver, imp, chk, creating>>

cleanupEnd ==
  /\ pass.pc = "prune" /\ pass.todo = {}
  /\ pass' = NotBegun
  /\ UNCHANGED <<fixed, prefs, hist, rel, blob, rollout, ver, imp, chk, creating>>

-----------------------------------------------------------------------------
(* The kiosk's check: the kiosk row is read, then the pin, then the active *)
(* rollouts one by one, then the channel's latest release.                 *)

Step(k, c) ==
  /\ chk' = [chk EXCEPT ![k] = c]
  /\ UNCHANGED <<fixed, prefs, hist, rel, blob, rollout, ver, imp, pass, creating>>

\* bad records which releases were already yanked when the request arrived.
BeginCheck(k, pc, offer) ==
  /\ chk[k].pc = "idle"
  /\ Step(k, [pc |-> pc, p |-> pref[k], push |-> push[k],
              todo |-> {}, forced |-> FALSE, offer |-> offer,
              bad |-> {r.id : r \in {x \in rel : x.yanked}}])

firmwareCheck(k) == kind = "fw" /\ BeginCheck(k, "pin", {})
osCheck(k) == kind = "os" /\ BeginCheck(k, "pin", {})

\* The public check, without a kiosk key: the client sends its saved pin or
\* channel, and "a missing/yanked pin must not fall through to latest".
selectPublicUpdate(p, t) ==
  NotYanked(IF p.pin # NoPin THEN getReleaseByVersionTarget(p.pin, t)
            ELSE getLatestRelease(p.channel, t))

publicCheck(k) == BeginCheck(k, "decide", selectPublicUpdate(pref[k], TargetOf[k]))

\* A missing or yanked pin of a Linux kiosk falls through to the rollouts.
checkPin(k) ==
  /\ chk[k].pc = "pin" /\ ~IsWindows(k)
  /\ LET c == chk[k]
         r == IF c.p.pin = NoPin THEN {}
              ELSE NotYanked(getReleaseByVersionTarget(c.p.pin, TargetOf[k]))
     IN  Step(k, [c EXCEPT !.pc = IF r = {} THEN "list" ELSE "decide", !.offer = r])

checkRollouts(k) ==
  /\ chk[k].pc = "list"
  /\ Step(k, [chk[k] EXCEPT !.pc = "rollout",
                            !.todo = listActiveRolloutsForKiosk(k)])

\* Mutant: the yank of a rollout's release is not looked at.
checkRolloutAny(k) ==
  /\ chk[k].pc = "rollout"
  /\ \E ro \in Newest(chk[k].todo) :
       LET c == chk[k]
           r == {x \in getRelease(ro.release) : x.target = TargetOf[k]}
       IN  Step(k, IF isKioskInRolloutBucket(k, ro) /\ r # {}
                     THEN [c EXCEPT !.pc = "decide", !.offer = r]
                     ELSE [c EXCEPT !.todo = @ \ {ro}])

checkRollout(k) ==
  /\ chk[k].pc = "rollout"
  /\ \E ro \in Newest(chk[k].todo) :
       LET c == chk[k]
           r == {x \in NotYanked(getRelease(ro.release)) : x.target = TargetOf[k]}
       IN  Step(k, IF isKioskInRolloutBucket(k, ro) /\ r # {}
                     THEN [c EXCEPT !.pc = "decide", !.offer = r]
                     ELSE [c EXCEPT !.todo = @ \ {ro}])

checkLatest(k) ==
  /\ chk[k].pc = "rollout" /\ chk[k].todo = {}
  /\ Step(k, [chk[k] EXCEPT !.pc = "decide",
                !.offer = getLatestRelease(chk[k].p.channel, TargetOf[k])])

Offerable(k) == {r \in chk[k].offer : isVersionUpgrade(r.version, ver[k])}

checkDecide(k) ==
  /\ chk[k].pc = "decide"
  /\ Step(k, IF Offerable(k) = {} THEN NotBegun ELSE [chk[k] EXCEPT !.pc = "offered"])

\* The stored push is answered only for this version under this very policy.
windowsPushRequest(pu, v, policy) ==
  pu # NoPush /\ pu.version = v /\ pu.policy = policy

\* The Windows branch of the check, under the policy its first await read.
checkWindows(k) ==
  /\ chk[k].pc = "pin" /\ IsWindows(k)
  /\ LET c == chk[k]
         sel == selectWindowsRelease(k, c.p)
         up == {r \in sel : isVersionUpgrade(r.version, ver[k])}
     IN  Step(k, IF up = {} THEN NotBegun
                 ELSE [c EXCEPT !.pc = "offered", !.offer = up,
                         !.forced = \E r \in up :
                            windowsPushRequest(c.push, r.version, windowsUpdatePolicy(c.p))])

\* The download route reads the row again, then the blob, and the client
\* installs only bytes whose digest is the offered one.
downloadStart(k) ==
  /\ chk[k].pc = "offered"
  /\ LET c == chk[k]
         id == (CHOOSE r \in c.offer : TRUE).id
         r == NotYanked(getRelease(id))
     IN  Step(k, IF r = {} THEN NotBegun ELSE [c EXCEPT !.pc = "reading", !.offer = r])

\* readBlob, and the bundle stream of an OS release.
readBlob(r) == r.sha \in blob

downloadRead(k) ==
  /\ chk[k].pc = "reading"
  /\ LET r == CHOOSE x \in chk[k].offer : TRUE IN
       IF readBlob(r)
         THEN ver' = [ver EXCEPT ![k] = r.version]
         ELSE UNCHANGED ver
  /\ chk' = [chk EXCEPT ![k] = NotBegun]
  /\ UNCHANGED <<fixed, prefs, hist, rel, blob, rollout, imp, pass, creating>>

-----------------------------------------------------------------------------
ImportStep ==
  \E i \in Importers :
    \/ \E v \in Versions, t \in Targets, c \in Channels, s \in Shas :
         uploadFirmware(i, v, t, c, s) \/ importFirmware(i, v, t, c, s) \/ importOs(i, v, t, c, s)
    \/ createFirmwareRelease(i) \/ createOsUpdateRelease(i) \/ removeBundle(i)

AdminRequest ==
  \/ \E r \in rel : yankFirmwareRelease(r) \/ yankOsUpdateRelease(r)
  \/ \E k \in Kiosks, c \in Channels, v \in Versions \union {NoPin} :
       setKioskFirmwarePref(k, c, v) \/ setKioskOsUpdatePref(k, c, v)
  \/ SetSchedule
  \/ \E k \in Kiosks : createWindowsPush(k) \/ PushExpires(k)
  \/ \E ro \in rollout, st \in {"paused", "active", "complete"} :
       firmwareRolloutState(ro.id, st) \/ osRolloutState(ro.id, st)

AdminStep ==
  \/ /\ relOps.admin < MaxAdmin /\ AdminRequest
     /\ relOps' = [relOps EXCEPT !.admin = @ + 1]
  \/ /\ \/ \E r \in rel, ts \in SUBSET Kiosks, pct \in {50, 100} :
             firmwareRolloutNew(r, ts, pct) \/ osRolloutNew(r, ts, pct)
        \/ createFirmwareRollout \/ updateFirmwareRolloutState
     /\ UNCHANGED relOps

CleanupStep ==
  \/ listYankedReleases \/ listExcessReleases \/ cleanupEnd
  \/ pass.pc # "idle" /\ \E r \in pass.todo : removeFile(r) \/ deleteRelease(r)

KioskStep ==
  \E k \in Kiosks :
    \/ checkPin(k) \/ checkRollouts(k) \/ checkRollout(k) \/ checkLatest(k)
    \/ checkDecide(k) \/ checkWindows(k) \/ downloadStart(k) \/ downloadRead(k)

RelNext ==
  \/ AdminStep
  \/ (ImportStep \/ CleanupStep \/ KioskStep) /\ UNCHANGED relOps
  \/ /\ relOps.visit < MaxVisits
     /\ \/ startArtifactCleanup
        \/ \E k \in Kiosks : firmwareCheck(k) \/ osCheck(k) \/ publicCheck(k)
     /\ relOps' = [relOps EXCEPT !.visit = @ + 1]

RelSpec == RelInit /\ [][RelNext]_relVars
-----------------------------------------------------------------------------
RelRows == [id : 1..MaxReleases, version : Versions, target : Targets,
            channel : Channels, sha : Shas, yanked : BOOLEAN]

\* Types of the tables, the files and the installed versions.
RelTypeOK ==
  /\ rel \subseteq RelRows
  /\ blob \subseteq Shas
  /\ \A ro \in rollout : ro.state \in LiveStates \union {"complete"}
  /\ pref \in [Kiosks -> [channel : Channels, pin : Versions \union {NoPin}]]
  /\ ver \in [Kiosks -> Versions \union {Shipped}]
  /\ pass.pc \in {"idle", "yanked", "remove_yanked", "prune"}

\* "Retries (including concurrent imports) must never replace a published
\* version": while a release row exists its version, target, channel and digest
\* do not change, a yank is not undone, and a version has one row per target,
\* whatever imports overlap.
PublishedImmutable ==
  [][/\ \A r \in rel, s \in rel' :
          r.id = s.id =>
            /\ s.version = r.version /\ s.target = r.target
            /\ s.channel = r.channel /\ s.sha = r.sha
            /\ r.yanked => s.yanked
     /\ \A r, s \in rel' : r.version = s.version /\ r.target = s.target
                             => r = s]_relVars

\* cleanupFirmware and cleanupOsUpdates "skip if an active/queued/paused rollout
\* references the release": a rollout loses its release to a cleanup pass only
\* if it was not in such a state when the pass read the rollouts.
OnlyUnseenRolloutsLost ==
  [][\A ro \in rollout : (\A x \in rollout' : x.id # ro.id) =>
        \A x \in pass.seen : x.id = ro.id => x.state = "complete"]_relVars

\* A release that was yanked before a check arrived is neither offered nor
\* downloaded by it, through the pin, a rollout or the channel, although the
\* rows are read one after the other.
YankedNotOffered ==
  \A k \in Kiosks : chk[k].pc \in {"offered", "reading"} =>
    \A r \in chk[k].offer : r.id \notin chk[k].bad

\* "Known versions only move forward": no check and download, whatever pin,
\* rollout or channel selects, installs an older version.
NoDowngrade == [][\A k \in Kiosks : ver'[k] >= ver[k]]_relVars

\* A pinned Windows kiosk is offered its pin or nothing, and a forced offer is
\* for the version and the policy (channel, pin) the administrator pushed.
WindowsHonoursPolicy ==
  \A k \in Kiosks :
    IsWindows(k) /\ chk[k].pc = "offered" =>
      \A r \in chk[k].offer :
        /\ chk[k].p.pin # NoPin => r.version = chk[k].p.pin
        /\ chk[k].forced => /\ chk[k].push.version = r.version
                            /\ chk[k].push.policy.channel = chk[k].p.channel
                            /\ chk[k].push.policy.pin = chk[k].p.pin

\* What kiosks are offered, as a whole: the claims above.
OffersSafe == RelTypeOK /\ YankedNotOffered /\ WindowsHonoursPolicy

\* What imports, cleanup and kiosks never do, as a whole: the claims above.
ReleasesKept == PublishedImmutable /\ OnlyUnseenRolloutsLost /\ NoDowngrade
=============================================================================
