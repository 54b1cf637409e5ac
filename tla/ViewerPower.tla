----------------------------- MODULE ViewerPower -----------------------------
(***************************************************************************)
(* The power state of one Android viewer, as the device has it             *)
(* (ViewerSession.kt) and as the server records it: power sessions and     *)
(* revisions (power-state-order.ts), heartbeats (service-api-http), the    *)
(* coordinator's sockets (service-coordinator-ws), and administrators'     *)
(* standby and wake commands (power-dispatch.ts, routes-admin.ts).         *)
(*                                                                         *)
(* The app starts awake and every change of its power state increments     *)
(* the revision, so a revision's parity is the state: odd means standby.   *)
(***************************************************************************)
EXTENDS Integers, FiniteSets

CONSTANTS
  Socks,     \* coordinator sockets, reused once closed
  Hbs,       \* heartbeat requests that may be in flight together
  Cmds,      \* power commands; each is one request id
  MaxProc,   \* bound: app processes, numbered as they start
  MaxRev,    \* bound: power revisions of one process
  None

ASSUME ViewerAssumption ==
  /\ None \notin Socks \cup Hbs \cup Cmds
  /\ Hbs \cap Cmds = {}
  /\ MaxProc \in Nat \ {0} /\ MaxRev \in Nat

Procs == 1..MaxProc
Revs  == 0..MaxRev
Standby(rev) == rev % 2 = 1

VARIABLES
  dev,       \* the running app process and its socket
  sock,      \* sockets as the server sees them
  conn,      \* connectedKiosks: the registered socket
  sess,      \* power-state-order's session of this kiosk
  lock,      \* holder of withPowerStateLock
  hb, cmd,   \* requests being handled
  wire,      \* power messages on their way to the device
  acks,      \* power-result messages on their way back
  db,        \* recorded power state; proc and rev say which sample it is
  executed   \* history: commands the device committed

deviceVars == <<dev, wire, acks, executed>>
viewerVars == <<dev, sock, conn, sess, lock, hb, cmd, wire, acks, db, executed>>

NoSession == [id |-> 0, rev |-> -1, owner |-> None, retired |-> {}]
FreeSock  == [st |-> "free", proc |-> 1, rev |-> 0]
IdleHb    == [pc |-> "idle", proc |-> 1, rev |-> 0]
NewCmd    == [pc |-> "new", want |-> FALSE, sock |-> None, written |-> FALSE,
              accepted |-> FALSE, proc |-> 1, rev |-> 0]

Messages == [sock : Socks, cmd : Cmds, want : BOOLEAN]
Results  == [sock : Socks, cmd : Cmds, ok : BOOLEAN, proc : Procs, rev : Revs]

ViewerTypeOK ==
  /\ dev \in [proc : Procs, rev : Revs, sock : Socks \cup {None}]
  /\ sock \in [Socks -> [st : {"free", "connecting", "open", "dead"}, proc : Procs, rev : Revs]]
  /\ conn \in Socks \cup {None}
  /\ sess \in [id : 0..MaxProc, rev : -1..MaxRev, owner : Socks \cup {None}, retired : SUBSET Procs]
  /\ lock \in Hbs \cup Cmds \cup {None}
  /\ hb \in [Hbs -> [pc : {"idle", "sent", "accepted", "wrote"}, proc : Procs, rev : Revs]]
  /\ cmd \in [Cmds -> [pc : {"new", "waiting", "validating", "sent", "confirmed", "failed", "done"},
                       want : BOOLEAN, sock : Socks \cup {None}, written : BOOLEAN,
                       accepted : BOOLEAN, proc : Procs, rev : Revs]]
  /\ wire \subseteq Messages
  /\ acks \subseteq Results
  /\ db \in [standby : BOOLEAN, proc : 0..MaxProc, rev : Revs]
  /\ executed \subseteq Cmds

ViewerInit ==
  /\ dev = [proc |-> 1, rev |-> 0, sock |-> None]
  /\ sock = [s \in Socks |-> FreeSock]
  /\ conn = None
  /\ sess = NoSession
  /\ lock = None
  /\ hb = [h \in Hbs |-> IdleHb]
  /\ cmd = [c \in Cmds |-> NewCmd]
  /\ wire = {} /\ acks = {} /\ executed = {}
  /\ db = [standby |-> FALSE, proc |-> 0, rev |-> 0]

-----------------------------------------------------------------------------
(* Power sessions.                                                         *)

(* Mutant: the floor is kept across processes.                             *)
ReplaceKeepsFloor(p, r, owner) ==
  [id |-> p, rev |-> IF sess.rev > r THEN sess.rev ELSE r, owner |-> owner,
   retired |-> (sess.retired \ {p}) \cup (IF sess.id \in {0, p} THEN {} ELSE {sess.id})]

(* A session adopted from process p: the previous one is retired, and a    *)
(* floor of the same process is kept.                                      *)
replaceSession(p, r, owner) ==
  [id |-> p,
   rev |-> IF sess.id = p /\ sess.rev > r THEN sess.rev ELSE r,
   owner |-> owner,
   retired |-> (sess.retired \ {p}) \cup (IF sess.id \in {0, p} THEN {} ELSE {sess.id})]

unbindPowerSession(s) == IF sess.owner = s THEN [sess EXCEPT !.owner = None] ELSE sess

powerSampleAllowed(p, r) == sess.id = p /\ r >= sess.rev

(* Mutant: only a live socket protects the session.                        *)
HeartbeatAllowedUnordered(p, r) == sess.id = p \/ sess.owner = None

heartbeatPowerSampleAllowed(p, r) ==
  IF sess.id = p THEN r >= sess.rev ELSE sess.owner = None /\ p \notin sess.retired

advancePowerSample(p, r) == IF powerSampleAllowed(p, r) THEN [sess EXCEPT !.rev = r] ELSE sess

(* History outlives every request in flight (HISTORY_MS is 30 minutes);    *)
(* then an ownerless session, or the memory of a retired one, is dropped.  *)
InFlight == {hb[h].proc : h \in {g \in Hbs : hb[g].pc # "idle"}}
              \cup {sock[s].proc : s \in {t \in Socks : sock[t].st = "connecting"}}

HistoryExpires ==
  /\ InFlight = {} /\ lock = None
  /\ \/ /\ sess.id # 0 /\ sess.owner = None
        /\ sess' = NoSession
     \/ /\ sess.retired # {}
        /\ sess' = [sess EXCEPT !.retired = {}]
  /\ UNCHANGED <<deviceVars, sock, conn, lock, hb, cmd, db>>

-----------------------------------------------------------------------------
(* The device.                                                             *)

(* Input, idle sleep or a local action toggles the state.                  *)
setStandby ==
  /\ dev.rev < MaxRev
  /\ dev' = [dev EXCEPT !.rev = @ + 1]
  /\ UNCHANGED <<wire, acks, executed, sock, conn, sess, lock, hb, cmd, db>>

(* A new process starts awake at revision 0; what the old one sent, and    *)
(* its connection, may reach the server later.                             *)
RestartApp ==
  /\ dev.proc < MaxProc
  /\ dev' = [proc |-> dev.proc + 1, rev |-> 0, sock |-> None]
  /\ UNCHANGED <<wire, acks, executed, sock, conn, sess, lock, hb, cmd, db>>

(* The upgrade request carries the sample of this moment.                  *)
connectSocket(s) ==
  /\ dev.sock = None /\ sock[s].st = "free"
  /\ dev' = [dev EXCEPT !.sock = s]
  /\ sock' = [sock EXCEPT ![s] = [st |-> "connecting", proc |-> dev.proc, rev |-> dev.rev]]
  /\ UNCHANGED <<wire, acks, executed, conn, sess, lock, hb, cmd, db>>

(* The device notices a failure that the server may not have seen.         *)
disconnected ==
  /\ dev.sock # None
  /\ dev' = [dev EXCEPT !.sock = None]
  /\ UNCHANGED <<wire, acks, executed, sock, conn, sess, lock, hb, cmd, db>>

(* A command from the device's own socket is committed under its lock; a   *)
(* target that is not assigned here is refused.                            *)
dispatchPowerCommand(m, ok) ==
  LET rev == IF ok /\ Standby(dev.rev) # m.want THEN dev.rev + 1 ELSE dev.rev IN
  /\ m \in wire
  /\ dev.sock = m.sock
  /\ rev <= MaxRev
  /\ dev' = [dev EXCEPT !.rev = rev]
  /\ wire' = wire \ {m}
  /\ acks' = acks \cup {[sock |-> m.sock, cmd |-> m.cmd, ok |-> ok, proc |-> dev.proc, rev |-> rev]}
  /\ executed' = IF ok THEN executed \cup {m.cmd} ELSE executed
  /\ UNCHANGED <<sock, conn, sess, lock, hb, cmd, db>>

-----------------------------------------------------------------------------
(* Sockets at the coordinator.                                             *)

(* Commands waiting for an answer on socket s are told it is gone.         *)
RejectPending(s) ==
  [c \in Cmds |-> IF cmd[c].pc = "sent" /\ cmd[c].sock = s
                    THEN [NewCmd EXCEPT !.pc = "failed"] ELSE cmd[c]]

(* The upgrade: register, bind the power session, reject what waits on the *)
(* replaced socket and terminate it.                                       *)
Upgrade(s) ==
  /\ sock[s].st = "connecting"
  /\ conn' = s
  /\ sess' = replaceSession(sock[s].proc, sock[s].rev, s)
  /\ cmd' = IF conn = None THEN cmd ELSE RejectPending(conn)
  /\ sock' = [t \in Socks |-> IF t = s THEN [FreeSock EXCEPT !.st = "open"]
                              ELSE IF t = conn THEN [sock[t] EXCEPT !.st = "dead"] ELSE sock[t]]
  /\ UNCHANGED <<deviceVars, lock, hb, db>>

(* A transport error or a missed pong (terminateStale); a connection may   *)
(* also never be upgraded.                                                 *)
SocketFails(s) ==
  /\ \/ sock[s].st = "open" /\ sock' = [sock EXCEPT ![s].st = "dead"]
     \/ sock[s].st = "connecting" /\ dev.sock # s /\ sock' = [sock EXCEPT ![s] = FreeSock]
  /\ UNCHANGED <<deviceVars, conn, sess, lock, hb, cmd, db>>

(* The close event, possibly long after the socket was replaced.           *)
OnClose(s) ==
  /\ sock[s].st = "dead"
  /\ sess' = unbindPowerSession(s)
  /\ IF conn = s THEN conn' = None /\ cmd' = RejectPending(s) ELSE UNCHANGED <<conn, cmd>>
  /\ sock' = [sock EXCEPT ![s] = FreeSock]
  /\ wire' = {m \in wire : m.sock # s} /\ acks' = {a \in acks : a.sock # s}
  /\ UNCHANGED <<dev, executed, lock, hb, db>>

Live(s) == s # None /\ conn = s /\ sock[s].st = "open"

-----------------------------------------------------------------------------
(* Heartbeats: sampled, delayed, then handled under the kiosk's lock.      *)

SendHeartbeat(h) ==
  /\ hb[h].pc = "idle"
  /\ hb' = [hb EXCEPT ![h] = [pc |-> "sent", proc |-> dev.proc, rev |-> dev.rev]]
  /\ UNCHANGED <<deviceVars, sock, conn, sess, lock, cmd, db>>

(* An unknown process becomes the session, with a floor below any          *)
(* revision until the write succeeds.                                      *)
HeartbeatAccepted(h) ==
  LET p == hb[h].proc IN
  /\ hb[h].pc = "sent" /\ lock = None
  /\ heartbeatPowerSampleAllowed(p, hb[h].rev)
  /\ sess' = IF sess.id = p THEN sess ELSE replaceSession(p, -1, None)
  /\ lock' = h
  /\ hb' = [hb EXCEPT ![h].pc = "accepted"]
  /\ UNCHANGED <<deviceVars, sock, conn, cmd, db>>

(* A report out of order is answered, and its power state ignored.         *)
HeartbeatRefused(h) ==
  /\ hb[h].pc = "sent" /\ lock = None
  /\ ~heartbeatPowerSampleAllowed(hb[h].proc, hb[h].rev)
  /\ hb' = [hb EXCEPT ![h] = IdleHb]
  /\ UNCHANGED <<deviceVars, sock, conn, sess, lock, cmd, db>>

HeartbeatLost(h) ==
  /\ hb[h].pc = "sent"
  /\ hb' = [hb EXCEPT ![h] = IdleHb]
  /\ UNCHANGED <<deviceVars, sock, conn, sess, lock, cmd, db>>

HeartbeatWrites(h) ==
  /\ hb[h].pc = "accepted"
  /\ db' = [standby |-> Standby(hb[h].rev), proc |-> hb[h].proc, rev |-> hb[h].rev]
  /\ hb' = [hb EXCEPT ![h].pc = "wrote"]
  /\ UNCHANGED <<deviceVars, sock, conn, sess, lock, cmd>>

(* The write failed, or it succeeded and the floor advances.               *)
HeartbeatEnds(h) ==
  /\ hb[h].pc \in {"accepted", "wrote"}
  /\ sess' = IF hb[h].pc = "wrote" THEN advancePowerSample(hb[h].proc, hb[h].rev) ELSE sess
  /\ lock' = None
  /\ hb' = [hb EXCEPT ![h] = IdleHb]
  /\ UNCHANGED <<deviceVars, sock, conn, cmd, db>>

-----------------------------------------------------------------------------
(* Power commands: dispatchPower, inside the lock of the admin's request.  *)

RequestPower(c, want) ==
  /\ cmd[c].pc = "new"
  /\ cmd' = [cmd EXCEPT ![c].pc = "waiting", ![c].want = want]
  /\ UNCHANGED <<deviceVars, sock, conn, sess, lock, hb, db>>

DispatchPower(c) ==
  /\ cmd[c].pc = "waiting" /\ lock = None
  /\ lock' = c
  /\ cmd' = [cmd EXCEPT ![c].pc = IF Live(conn) THEN "validating" ELSE "failed", ![c].sock = conn]
  /\ UNCHANGED <<deviceVars, sock, conn, sess, hb, db>>

(* After the asynchronous validation the socket must still be the          *)
(* registered one, own the power session, and be open.                     *)
SendPower(c) ==
  LET s == cmd[c].sock IN
  /\ cmd[c].pc = "validating"
  /\ sess.owner = s /\ Live(s)
  /\ cmd' = [cmd EXCEPT ![c].pc = "sent"]
  /\ wire' = wire \cup {[sock |-> s, cmd |-> c, want |-> cmd[c].want]}
  /\ UNCHANGED <<dev, acks, executed, sock, conn, sess, lock, hb, db>>

(* finish(true) needs the write callback and the device's answer.          *)
Settle(c, written, accepted) ==
  [cmd EXCEPT ![c].written = written, ![c].accepted = accepted,
              ![c].pc = IF written /\ accepted THEN "confirmed" ELSE "sent"]

Written(c) ==
  /\ cmd[c].pc = "sent" /\ ~cmd[c].written
  /\ Live(cmd[c].sock)
  /\ cmd' = Settle(c, TRUE, cmd[c].accepted)
  /\ UNCHANGED <<deviceVars, sock, conn, sess, lock, hb, db>>

(* Mutant: an answer settles whatever command is waiting.                  *)
AcceptsAnyRequest(a, c) == cmd[c].pc = "sent" /\ cmd[c].sock = a.sock

(* acceptPowerResult: the request, and the socket it was sent on.          *)
Accepts(a, c) == a.cmd = c /\ cmd[c].pc = "sent" /\ cmd[c].sock = a.sock

PowerResult(a) ==
  /\ a \in acks
  /\ sock[a.sock].st = "open"
  /\ acks' = acks \ {a}
  /\ IF conn = a.sock /\ sess.owner = a.sock /\ powerSampleAllowed(a.proc, a.rev)
           /\ \E c \in Cmds : Accepts(a, c)
       THEN LET c == CHOOSE c \in Cmds : Accepts(a, c) IN
            /\ sess' = IF a.ok THEN advancePowerSample(a.proc, a.rev) ELSE sess
            /\ cmd' = IF a.ok
                        THEN [Settle(c, cmd[c].written, TRUE) EXCEPT ![c].proc = a.proc, ![c].rev = a.rev]
                        ELSE [cmd EXCEPT ![c] = [NewCmd EXCEPT !.pc = "failed"]]
       ELSE UNCHANGED <<sess, cmd>>
  /\ UNCHANGED <<dev, wire, executed, sock, conn, lock, hb, db>>

(* The timeout, a failed validation or a failed write.                     *)
GiveUp(c) ==
  /\ cmd[c].pc \in {"validating", "sent"}
  /\ cmd' = [cmd EXCEPT ![c] = [NewCmd EXCEPT !.pc = "failed"]]
  /\ UNCHANGED <<deviceVars, sock, conn, sess, lock, hb, db>>

(* The administrator's request records the state and releases the lock.    *)
PowerEnds(c) ==
  /\ cmd[c].pc \in {"confirmed", "failed"}
  /\ lock = c
  /\ db' = IF cmd[c].pc = "confirmed"
             THEN [standby |-> cmd[c].want, proc |-> cmd[c].proc, rev |-> cmd[c].rev] ELSE db
  /\ lock' = None
  /\ cmd' = [cmd EXCEPT ![c] = [(IF cmd[c].pc = "confirmed" THEN cmd[c] ELSE NewCmd)
                                   EXCEPT !.pc = "done"]]
  /\ UNCHANGED <<deviceVars, sock, conn, sess, hb>>

-----------------------------------------------------------------------------
ViewerStep ==
  \/ setStandby \/ RestartApp \/ disconnected
  \/ \E s \in Socks : connectSocket(s)
  \/ \E m \in wire, ok \in BOOLEAN : dispatchPowerCommand(m, ok)

SocketStep(s) == Upgrade(s) \/ SocketFails(s) \/ OnClose(s)

HeartbeatStep(h) ==
  \/ SendHeartbeat(h) \/ HeartbeatAccepted(h) \/ HeartbeatRefused(h) \/ HeartbeatLost(h)
  \/ HeartbeatWrites(h) \/ HeartbeatEnds(h)

CommandStep(c) ==
  \/ \E want \in BOOLEAN : RequestPower(c, want)
  \/ DispatchPower(c) \/ SendPower(c) \/ Written(c) \/ GiveUp(c) \/ PowerEnds(c)

ViewerNext ==
  \/ ViewerStep
  \/ HistoryExpires
  \/ \E s \in Socks : SocketStep(s)
  \/ \E h \in Hbs : HeartbeatStep(h)
  \/ \E c \in Cmds : CommandStep(c)
  \/ \E a \in acks : PowerResult(a)

ViewerSpec == ViewerInit /\ [][ViewerNext]_viewerVars

(* The app keeps sending heartbeats and reconnecting; not every request is *)
(* lost or refused its write, and the server finishes what it started and  *)
(* terminates sockets that no longer answer its pings; the app's own pings *)
(* (pingInterval) tell it that its socket is gone.                         *)
ViewerFairness ==
  /\ \A h \in Hbs :
       /\ WF_viewerVars(SendHeartbeat(h)) /\ SF_viewerVars(HeartbeatAccepted(h))
       /\ SF_viewerVars(HeartbeatRefused(h))
       /\ SF_viewerVars(HeartbeatWrites(h)) /\ WF_viewerVars(HeartbeatEnds(h))
  /\ \A c \in Cmds : WF_viewerVars(GiveUp(c)) /\ WF_viewerVars(PowerEnds(c))
  /\ \A s \in Socks : /\ SF_viewerVars(connectSocket(s)) /\ SF_viewerVars(dev.sock = s /\ Upgrade(s))
                       /\ WF_viewerVars(dev.sock # s /\ SocketFails(s)) /\ WF_viewerVars(OnClose(s))
  /\ WF_viewerVars(dev.sock # None /\ sock[dev.sock].st \in {"free", "dead"} /\ disconnected)

ViewerFairSpec == ViewerSpec /\ ViewerFairness

-----------------------------------------------------------------------------
(* A command reported as delivered was committed by the device, which had  *)
(* the commanded state at the acknowledged revision: replaced sockets,     *)
(* late answers and timeouts never confirm a command that did not happen.  *)
ConfirmedMeansCommitted ==
  \A c \in Cmds :
    cmd[c].pc = "confirmed" => c \in executed /\ Standby(cmd[c].rev) = cmd[c].want

(* Requests wait only on the registered socket: none is left behind when   *)
(* the socket is replaced or its close event arrives late.                 *)
PendingOnRegisteredSocket == \A c \in Cmds : cmd[c].pc = "sent" => cmd[c].sock = conn

(* Power commands and sockets as a whole: the claims above.                *)
ViewerSafe == ViewerTypeOK /\ ConfirmedMeansCommitted /\ PendingOnRegisteredSocket

(* What is recorded of one app process never goes back to an earlier       *)
(* revision: reports and acknowledgements arrive in any order, and the     *)
(* check of a report and its write are separate steps.                     *)
RecordedNotRolledBack == [][db.proc = db'.proc => db'.rev >= db.rev]_db

(* When the device's power state stops changing, the server records it,    *)
(* whatever was lost, delayed or left behind by an earlier process.        *)
SettledStateIsRecorded ==
  <>[][dev'.proc = dev.proc /\ dev'.rev = dev.rev]_viewerVars
    => []<>(db.proc = dev.proc /\ db.rev = dev.rev)

=============================================================================
