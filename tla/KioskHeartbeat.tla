--------------------------- MODULE KioskHeartbeat ---------------------------
(***************************************************************************)
(* POST /api/kiosk/heartbeat: the displays a kiosk reports are matched with *)
(* the stored rows, under a lock per kiosk, and the managed configuration  *)
(* an administrator saved is delivered until the kiosk echoes its version. *)
(* Two heartbeats may be under way at once: a kiosk that timed out sends    *)
(* the next while the server still works on the last.                      *)
(***************************************************************************)
EXTENDS Naturals, FiniteSets, Sequences

CONSTANTS Monitors,    \* names of monitors
          Custom,      \* a display name an administrator types
          Beats,       \* heartbeat requests under way
          Savers,      \* administrators' requests saving managed configuration
          Fields,      \* settings of the managed configuration
          MaxRowIds,   \* bound on display rows ever created
          MaxChanges   \* bound on monitors plugged, displays edited, configurations saved

ASSUME HeartbeatAssumption ==
  /\ Custom \notin Monitors
  /\ "none" \notin Beats
  /\ Fields # {}
  /\ IsFiniteSet(Monitors)
  /\ {MaxRowIds, MaxChanges} \subseteq Nat

VARIABLES heViewer,    \* the kiosk is an Android viewer
          hePlugged,   \* sequence of connected monitors; a monitor's index is its place
          heRows,      \* displays of the kiosk: [id, name, index, on, lay]
          heDefault,   \* new displays get a default layout
          heBeat,      \* [Beats -> state of the request]
          heLock,      \* holder of withPowerStateLock for the kiosk
          heSrv,       \* kiosk row: [ver, cfg, applied]
          heSave,      \* [Savers -> save under way]
          heKiosk,     \* kiosk: [ver, cfg, bad, wait, got]
          heIds, heChanges,  \* what the bounds count
          heClean,     \* history: rows as the last finished sync left them, for this report
          heCross      \* history: a save began from a row that changed before it wrote

heVars == <<heViewer, hePlugged, heRows, heDefault, heBeat, heLock, heSrv, heSave, heKiosk,
            heIds, heChanges, heClean, heCross>>
heDisplayVars == <<heRows, heIds, heLock, heClean>>
heConfigVars == <<heSrv, heSave, heCross>>
heFixed == <<heViewer, heDefault>>

NoBeat == [pc |-> "none", rep |-> <<>>, ver |-> 0, k |-> 1, seen |-> {}, old |-> {}]
NoSave == [pc |-> "none", ver |-> 0, cfg |-> [f \in Fields |-> 0], field |-> CHOOSE f \in Fields : TRUE]
NoReport == <<Custom>>
Touched == <<Custom, Custom>>   \* an administrator came in between
Nothing == [ver |-> 0, cfg |-> [f \in Fields |-> 0]]

\* Sequences of distinct monitors; a viewer reports at most one.
Reports == {r \in UNION {[1..n -> Monitors] : n \in 0..(IF heViewer THEN 1 ELSE Cardinality(Monitors))} :
              \A i, j \in DOMAIN r : r[i] = r[j] => i = j}

-----------------------------------------------------------------------------
(* The kiosk. *)

Plug ==
  /\ heChanges < MaxChanges /\ heChanges' = heChanges + 1
  /\ hePlugged' \in Reports \ {hePlugged}
  /\ UNCHANGED <<heFixed, heDisplayVars, heBeat, heConfigVars, heKiosk>>

\* The report of the connected monitors and of the last configuration applied.
send_heartbeat(h) ==
  /\ heKiosk.wait = "none" /\ heBeat[h].pc = "none"
  /\ heBeat' = [heBeat EXCEPT ![h] = [NoBeat EXCEPT !.pc = "echo", !.rep = hePlugged,
                                                    !.ver = heKiosk.ver]]
  /\ heKiosk' = [heKiosk EXCEPT !.wait = h]
  /\ UNCHANGED <<heFixed, hePlugged, heChanges, heDisplayVars, heConfigVars>>

NoAnswer ==
  /\ heKiosk.wait # "none"
  /\ heKiosk' = [heKiosk EXCEPT !.wait = "none"]
  /\ UNCHANGED <<heFixed, hePlugged, heChanges, heDisplayVars, heBeat, heConfigVars>>

\* A version that failed is not tried again until the kiosk restarts.
apply_pending_managed_config ==
  LET p == heKiosk.got IN
  /\ p.ver # 0
  /\ IF p.ver = heKiosk.bad
     THEN heKiosk' = [heKiosk EXCEPT !.got = Nothing]
     ELSE \/ heKiosk' = [heKiosk EXCEPT !.got = Nothing, !.ver = p.ver, !.cfg = p.cfg, !.bad = 0]
          \/ heKiosk' = [heKiosk EXCEPT !.got = Nothing, !.bad = p.ver]
  /\ UNCHANGED <<heFixed, hePlugged, heChanges, heDisplayVars, heBeat, heConfigVars>>

\* The report of what was applied is not kept over a restart.
Restart ==
  /\ heKiosk' = [heKiosk EXCEPT !.ver = 0, !.bad = 0, !.wait = "none", !.got = Nothing]
  /\ UNCHANGED <<heFixed, hePlugged, heChanges, heDisplayVars, heBeat, heConfigVars>>

-----------------------------------------------------------------------------
(* The server: echo, display sync under the lock, answer. *)

\* touchKiosk and the managed-config echo.
Echo(h) ==
  /\ heBeat[h].pc = "echo"
  /\ heSrv' = IF heBeat[h].ver # 0 /\ ~heViewer THEN [heSrv EXCEPT !.applied = heBeat[h].ver] ELSE heSrv
  /\ heBeat' = [heBeat EXCEPT ![h].pc = "lock"]
  /\ UNCHANGED <<heFixed, hePlugged, heChanges, heDisplayVars, heSave, heCross, heKiosk>>

\* Mutant: no lock.
SyncBeginUnlocked(h) ==
  /\ heBeat[h].pc = "lock"
  /\ heLock' = h
  /\ heBeat' = [heBeat EXCEPT ![h].pc = "sync", ![h].old = heRows]
  /\ heClean' = NoReport
  /\ UNCHANGED <<heFixed, hePlugged, heChanges, heRows, heIds, heConfigVars, heKiosk>>

\* withPowerStateLock, then listDisplaysForKiosk.
SyncBegin(h) ==
  /\ heBeat[h].pc = "lock" /\ heLock = "none"
  /\ heLock' = h
  /\ heBeat' = [heBeat EXCEPT ![h].pc = "sync", ![h].old = heRows]
  /\ heClean' = NoReport
  /\ UNCHANGED <<heFixed, hePlugged, heChanges, heRows, heIds, heConfigVars, heKiosk>>

\* findReportedDisplayMatch: by name, else by index, among rows not yet taken.
findReportedDisplayMatch(old, seen, name, index) ==
  LET free == {d \in old : d.id \notin seen}
      named == {d \in free : d.name = name} IN
  IF named # {} THEN named ELSE {d \in free : d.index = index}

\* The row found takes the reported name and index, and is enabled again
\* unless the kiosk is a viewer.  The row as it was listed decides whether
\* anything is written; a new resolution or power state makes it write too.
SyncUpdate(h) ==
  LET b == heBeat[h] IN
  /\ b.pc = "sync" /\ b.k <= Len(b.rep)
  /\ \E d \in findReportedDisplayMatch(b.old, b.seen, b.rep[b.k], b.k), write \in BOOLEAN :
       /\ write \/ (d.name = b.rep[b.k] /\ d.index = b.k /\ (heViewer \/ d.on))
       /\ heRows' = {IF write /\ r.id = d.id
                     THEN [r EXCEPT !.name = b.rep[b.k], !.index = b.k,
                                    !.on = IF heViewer THEN d.on ELSE TRUE]
                     ELSE r : r \in heRows}
       /\ heBeat' = [heBeat EXCEPT ![h].k = b.k + 1, ![h].seen = @ \cup {d.id}]
  /\ UNCHANGED <<heFixed, hePlugged, heChanges, heIds, heLock, heClean, heConfigVars,
                 heKiosk>>

\* The row of a new display, in one transaction with its default layouts.
createDisplayForKiosk(name, index) ==
  [id |-> heIds + 1, name |-> name, index |-> index, on |-> TRUE, lay |-> heDefault]

SyncCreate(h) ==
  LET b == heBeat[h] IN
  /\ b.pc = "sync" /\ b.k <= Len(b.rep) /\ heIds < MaxRowIds
  /\ findReportedDisplayMatch(b.old, b.seen, b.rep[b.k], b.k) = {}
  /\ heIds' = heIds + 1
  /\ heRows' = heRows \cup {createDisplayForKiosk(b.rep[b.k], b.k)}
  /\ heBeat' = [heBeat EXCEPT ![h].k = b.k + 1, ![h].seen = @ \cup {heIds + 1}]
  /\ UNCHANGED <<heFixed, hePlugged, heChanges, heLock, heClean, heConfigVars, heKiosk>>

\* Rows not reported go, unless layouts are attached; then the lock is free.
\* The loop's statements touch one row each and commute with every other
\* action that may run meanwhile except an attach, which is kept below.
deleteDisplayIfUnused(h, d) ==
  LET b == heBeat[h] IN
  /\ b.pc = "sync" /\ b.k > Len(b.rep)
  /\ d \in b.old /\ d.id \notin b.seen
  /\ heRows' = {r \in heRows : r.id # d.id \/ r.lay}
  /\ heBeat' = [heBeat EXCEPT ![h].seen = @ \cup {d.id}]
  /\ UNCHANGED <<heFixed, hePlugged, heChanges, heIds, heLock, heClean, heConfigVars,
                 heKiosk>>

SyncEnd(h) ==
  LET b == heBeat[h] IN
  /\ b.pc = "sync" /\ b.k > Len(b.rep) /\ \A d \in b.old : d.id \in b.seen
  /\ heLock' = "none"
  /\ heClean' = IF heClean = Touched THEN NoReport ELSE b.rep
  /\ heBeat' = [heBeat EXCEPT ![h] = [NoBeat EXCEPT !.pc = "answer"]]
  /\ UNCHANGED <<heFixed, hePlugged, heChanges, heRows, heIds, heConfigVars, heKiosk>>

\* The kiosk row is read again; a newer configuration goes with the answer.
PendingConfig ==
  IF ~heViewer /\ heSrv.ver > heSrv.applied THEN [ver |-> heSrv.ver, cfg |-> heSrv.cfg] ELSE Nothing

HeartbeatAnswer(h) ==
  /\ heBeat[h].pc = "answer"
  /\ heBeat' = [heBeat EXCEPT ![h] = NoBeat]
  /\ heKiosk' = IF heKiosk.wait = h
                THEN [heKiosk EXCEPT !.wait = "none", !.got = PendingConfig]
                ELSE heKiosk
  /\ UNCHANGED <<heFixed, hePlugged, heChanges, heDisplayVars, heConfigVars>>

\* A statement fails: the rest of the handler is skipped, the lock released.
HeartbeatFails(h) ==
  /\ heBeat[h].pc \in {"echo", "lock", "sync", "answer"}
  /\ heLock' = IF heLock = h THEN "none" ELSE heLock
  /\ heBeat' = [heBeat EXCEPT ![h] = NoBeat]
  /\ heKiosk' = IF heKiosk.wait = h THEN [heKiosk EXCEPT !.wait = "none"] ELSE heKiosk
  /\ UNCHANGED <<heFixed, hePlugged, heChanges, heRows, heIds, heClean, heConfigVars>>

-----------------------------------------------------------------------------
(* The administrator. *)

\* POST /admin/displays/:id writes the name and the switch; layouts are
\* attached and detached by their own requests.
updateDisplay(r, name, on) ==
  /\ heChanges < MaxChanges /\ heChanges' = heChanges + 1
  /\ heRows' = (heRows \ {r}) \cup {[r EXCEPT !.name = name, !.on = on]}
  /\ heClean' = Touched
  /\ UNCHANGED <<heFixed, hePlugged, heIds, heLock, heBeat, heConfigVars, heKiosk>>

attachLayout(r) ==
  /\ heChanges < MaxChanges /\ heChanges' = heChanges + 1
  /\ heRows' = (heRows \ {r}) \cup {[r EXCEPT !.lay = ~r.lay]}
  /\ heClean' = Touched
  /\ UNCHANGED <<heFixed, hePlugged, heIds, heLock, heBeat, heConfigVars, heKiosk>>

\* Managed configuration, Windows policy and the hostname that follows the
\* kiosk's name: each reads the row, changes its settings, and writes the
\* whole configuration with the version read plus one.
SaveRead(a, f) ==
  /\ heSave[a].pc = "none" /\ ~heViewer
  /\ heChanges < MaxChanges /\ heChanges' = heChanges + 1
  /\ heSave' = [heSave EXCEPT ![a] = [pc |-> "read", ver |-> heSrv.ver, cfg |-> heSrv.cfg, field |-> f]]
  /\ UNCHANGED <<heFixed, hePlugged, heDisplayVars, heBeat, heSrv, heCross, heKiosk>>

\* The setting changed, the others kept as they were read.
NewConfig(cfg, f) == [cfg EXCEPT ![f] = @ + 1]

SaveWrite(a) ==
  LET s == heSave[a] IN
  /\ s.pc = "read"
  /\ heSrv' = [heSrv EXCEPT !.ver = s.ver + 1, !.cfg = NewConfig(s.cfg, s.field)]
  /\ heCross' = (heCross \/ heSrv.ver # s.ver)
  /\ heSave' = [heSave EXCEPT ![a] = NoSave]
  /\ UNCHANGED <<heFixed, hePlugged, heChanges, heDisplayVars, heBeat, heKiosk>>

-----------------------------------------------------------------------------
HeartbeatInit ==
  /\ heViewer \in BOOLEAN /\ heDefault \in BOOLEAN
  /\ hePlugged \in Reports /\ heRows = {}
  /\ heBeat = [h \in Beats |-> NoBeat]
  /\ heLock = "none"
  /\ heSrv = [ver |-> 0, cfg |-> [f \in Fields |-> 0], applied |-> 0]
  /\ heSave = [a \in Savers |-> NoSave]
  /\ heKiosk = [ver |-> 0, cfg |-> [f \in Fields |-> 0], bad |-> 0, wait |-> "none", got |-> Nothing]
  /\ heIds = 0 /\ heChanges = 0
  /\ heClean = NoReport /\ heCross = FALSE

HeartbeatHandler(h) ==
  \/ Echo(h) \/ SyncBegin(h) \/ SyncUpdate(h) \/ SyncCreate(h)
  \/ \E d \in heBeat[h].old : deleteDisplayIfUnused(h, d)
  \/ SyncEnd(h) \/ HeartbeatAnswer(h) \/ HeartbeatFails(h)

HeartbeatNext ==
  \/ Plug \/ NoAnswer \/ apply_pending_managed_config \/ Restart
  \/ \E h \in Beats : send_heartbeat(h) \/ HeartbeatHandler(h)
  \/ \E r \in heRows :
       attachLayout(r) \/ \E n \in {r.name, Custom}, on \in BOOLEAN : updateDisplay(r, n, on)
  \/ \E a \in Savers : SaveWrite(a) \/ \E f \in Fields : SaveRead(a, f)

HeartbeatSpec == HeartbeatInit /\ [][HeartbeatNext]_heVars

-----------------------------------------------------------------------------
(* Properties. *)

\* When a display sync has ended and nobody has touched the displays since,
\* they agree with its report: each monitor has one row of its name, at its
\* index, and every other row has layouts attached, whatever heartbeats
\* overlapped and failed before.
ReportSettles ==
  heClean \notin {NoReport, Touched} =>
    /\ \A k \in DOMAIN heClean :
         \E r \in heRows : /\ r.name = heClean[k] /\ r.index = k
                           /\ \A q \in heRows \ {r} : q.name # heClean[k]
    /\ \A r \in heRows : r.lay \/ \E k \in DOMAIN heClean : heClean[k] = r.name

\* Unless two saves crossed, a configuration the server counts as applied is
\* the one the kiosk has: lost answers, late heartbeats, failed attempts and
\* restarts do not leave the kiosk with another one unnoticed.
AppliedIsCurrent ==
  ~heCross /\ heSrv.ver # 0 /\ heSrv.applied = heSrv.ver => heKiosk.cfg = heSrv.cfg

\* The heartbeat as a whole: the claims above.
HeartbeatSafe == ReportSettles /\ AppliedIsCurrent
=============================================================================
