-------------------------- MODULE ViewerPowerProofs --------------------------
(***************************************************************************)
(* Power commands and power reports of a viewer for any sockets, reports   *)
(* and commands in flight: a confirmed command happened, and, while one    *)
(* app process runs, what is recorded never goes back.                     *)
(***************************************************************************)
EXTENDS ViewerPower, TLAPS

Holding == {"validating", "sent", "confirmed", "failed"}   \* a request inside its lock

(* The kiosk's lock is held by exactly the request that is between its     *)
(* first check and its end.                                                *)
OneInsideTheLock ==
  /\ \A c \in Cmds : cmd[c].pc \in Holding <=> lock = c
  /\ \A h \in Hbs : hb[h].pc \in {"accepted", "wrote"} <=> lock = h

(* What is on the wire or answered belongs to a command that was sent; as  *)
(* long as anybody waits for it, message and answer say what it asked for. *)
MessagesTrue ==
  /\ \A m \in wire : /\ cmd[m.cmd].pc \notin {"new", "waiting", "validating"}
                     /\ cmd[m.cmd].pc = "sent" => m.want = cmd[m.cmd].want
  /\ \A a \in acks : /\ cmd[a.cmd].pc \notin {"new", "waiting", "validating"}
                     /\ a.ok => /\ a.cmd \in executed
                                /\ cmd[a.cmd].pc = "sent" => Standby(a.rev) = cmd[a.cmd].want

(* The server has a positive answer that nobody has recorded yet.          *)
Believed(c) == cmd[c].pc = "confirmed" \/ (cmd[c].pc = "sent" /\ cmd[c].accepted)

(* An accepted answer came from a device that committed the command.       *)
AcceptedTrue ==
  \A c \in Cmds :
    /\ Believed(c) => c \in executed /\ Standby(cmd[c].rev) = cmd[c].want
    /\ cmd[c].pc \in {"new", "waiting", "validating"} => ~cmd[c].accepted

(* A command waits only on the registered socket, and there is one.        *)
WaitsOnConn == \A c \in Cmds : cmd[c].pc = "sent" => cmd[c].sock = conn /\ conn # None

ViewerInv == ViewerTypeOK /\ OneInsideTheLock /\ MessagesTrue /\ AcceptedTrue /\ WaitsOnConn

-----------------------------------------------------------------------------
(* One app process: nothing in flight is ahead of the device.              *)
DeviceAhead ==
  /\ db.rev <= dev.rev
  /\ \A h \in Hbs : hb[h].pc # "idle" => hb[h].rev <= dev.rev
  /\ \A s \in Socks : sock[s].st = "connecting" => sock[s].rev <= dev.rev
  /\ \A a \in acks : a.rev <= dev.rev

Wrote == \E h \in Hbs : hb[h].pc = "wrote"   \* recorded, the floor not yet raised

(* A sample in flight that is older than the record exists only while the  *)
(* floor keeps it out.                                                     *)
OldSamplesRefused ==
  \/ sess.id = 1 /\ (sess.rev >= db.rev \/ Wrote)
  \/ /\ \A h \in Hbs : hb[h].pc = "sent" => hb[h].rev >= db.rev
     /\ \A s \in Socks : sock[s].st = "connecting" => sock[s].rev >= db.rev

(* A session a socket owns has a floor no lower than the record.           *)
OwnedFloor == sess.owner # None => sess.id = 1 /\ (sess.rev >= db.rev \/ Wrote)

(* What is about to be recorded is no older than the record, and the floor *)
(* is there to be raised.                                                  *)
AdmittedSamples ==
  /\ \A h \in Hbs : hb[h].pc \in {"accepted", "wrote"} => sess.id = 1 /\ hb[h].rev >= db.rev
  /\ \A h \in Hbs : hb[h].pc = "wrote" => hb[h].rev = db.rev
  /\ \A c \in Cmds : Believed(c) =>
       sess.id = 1 /\ sess.rev >= cmd[c].rev /\ cmd[c].rev >= db.rev /\ cmd[c].rev <= dev.rev

RecordInv == DeviceAhead /\ OldSamplesRefused /\ OwnedFloor /\ AdmittedSamples

-----------------------------------------------------------------------------
(* Types.                                                                  *)
Sessions == [id : 0..MaxProc, rev : -1..MaxRev, owner : Socks \cup {None}, retired : SUBSET Procs]
Commands == [pc : {"new", "waiting", "validating", "sent", "confirmed", "failed", "done"},
             want : BOOLEAN, sock : Socks \cup {None}, written : BOOLEAN,
             accepted : BOOLEAN, proc : Procs, rev : Revs]
Reports == [pc : {"idle", "sent", "accepted", "wrote"}, proc : Procs, rev : Revs]
Sockets == [st : {"free", "connecting", "open", "dead"}, proc : Procs, rev : Revs]

LEMMA Constants ==
  /\ 1 \in Procs /\ 0 \in Revs /\ Revs \subseteq -1..MaxRev /\ Procs \subseteq 0..MaxProc
  /\ MaxProc \in Nat /\ MaxRev \in Nat
  /\ NoSession \in Sessions /\ FreeSock \in Sockets /\ IdleHb \in Reports /\ NewCmd \in Commands
  /\ [NewCmd EXCEPT !.pc = "failed"] \in Commands
<1>1. /\ 1 \in Procs /\ 0 \in Revs /\ Revs \subseteq -1..MaxRev /\ Procs \subseteq 0..MaxProc
      /\ MaxProc \in Nat /\ MaxRev \in Nat /\ 0 \in 0..MaxProc /\ -1 \in -1..MaxRev
  BY ViewerAssumption DEF Procs, Revs
<1>2. NoSession \in Sessions BY <1>1 DEF NoSession, Sessions
<1>3. FreeSock \in Sockets /\ IdleHb \in Reports BY <1>1 DEF FreeSock, Sockets, IdleHb, Reports
<1>4. NewCmd \in Commands /\ [NewCmd EXCEPT !.pc = "failed"] \in Commands
  BY <1>1 DEF NewCmd, Commands
<1> QED BY <1>1, <1>2, <1>3, <1>4

LEMMA SessionTypes ==
  ASSUME ViewerTypeOK, NEW p \in Procs, NEW r \in -1..MaxRev, NEW o \in Socks \cup {None}
  PROVE  /\ replaceSession(p, r, o) \in Sessions
         /\ unbindPowerSession(o) \in Sessions
         /\ r \in Revs => advancePowerSample(p, r) \in Sessions
         /\ [sess EXCEPT !.retired = {}] \in Sessions
<1>1. /\ sess.id \in 0..MaxProc /\ sess.rev \in -1..MaxRev /\ sess.retired \subseteq Procs
      /\ sess \in Sessions
  BY DEF ViewerTypeOK, Sessions
<1>2. (IF sess.id \in {0, p} THEN {} ELSE {sess.id}) \subseteq Procs BY <1>1 DEF Procs
<1>3. replaceSession(p, r, o) \in Sessions
  BY <1>1, <1>2, Constants DEF replaceSession, Sessions
<1>4. unbindPowerSession(o) \in Sessions BY <1>1 DEF unbindPowerSession, Sessions
<1>5. ASSUME r \in Revs PROVE advancePowerSample(p, r) \in Sessions
  BY <1>1, Constants DEF advancePowerSample, Sessions
<1>6. [sess EXCEPT !.retired = {}] \in Sessions BY <1>1 DEF Sessions
<1> QED BY <1>3, <1>4, <1>5, <1>6

LEMMA PendingTypes ==
  ASSUME ViewerTypeOK, NEW s
  PROVE  /\ RejectPending(s) \in [Cmds -> Commands]
         /\ \A c \in Cmds : RejectPending(s)[c] = IF cmd[c].pc = "sent" /\ cmd[c].sock = s
                              THEN [NewCmd EXCEPT !.pc = "failed"] ELSE cmd[c]
<1>1. cmd \in [Cmds -> Commands] BY DEF ViewerTypeOK, Commands
<1> QED BY <1>1, Constants DEF RejectPending

LEMMA ViewerInvInit == ViewerInit => ViewerInv
<1> SUFFICES ASSUME ViewerInit PROVE ViewerInv
  OBVIOUS
<1> USE DEF ViewerInit
<1>1. ViewerTypeOK
  BY Constants DEF ViewerTypeOK, Sessions, Commands, Reports, Sockets
<1>2. OneInsideTheLock
  BY ViewerAssumption DEF OneInsideTheLock, Holding, NewCmd, IdleHb
<1> QED
  BY <1>1, <1>2 DEF ViewerInv, MessagesTrue, AcceptedTrue, Believed, WaitsOnConn, NewCmd

-----------------------------------------------------------------------------
(* The device.                                                             *)
LEMMA DeviceKeeps ==
  ASSUME ViewerInv, setStandby \/ RestartApp \/ disconnected \/ \E s \in Socks : connectSocket(s)
  PROVE  ViewerInv'
<1>1. UNCHANGED <<wire, acks, executed, conn, sess, lock, hb, cmd, db>>
  BY DEF setStandby, RestartApp, disconnected, connectSocket
<1>2. ViewerTypeOK'
  <2> USE DEF ViewerInv
  <2>1. CASE setStandby BY <1>1, <2>1, Constants DEF setStandby, ViewerTypeOK, Revs
  <2>2. CASE RestartApp BY <1>1, <2>2, Constants DEF RestartApp, ViewerTypeOK, Procs
  <2>3. CASE disconnected BY <1>1, <2>3 DEF disconnected, ViewerTypeOK
  <2>4. ASSUME NEW s \in Socks, connectSocket(s) PROVE ViewerTypeOK'
    BY <1>1, <2>4 DEF connectSocket, ViewerTypeOK
  <2> QED BY <2>1, <2>2, <2>3, <2>4
<1> QED
  BY <1>1, <1>2 DEF ViewerInv, OneInsideTheLock, MessagesTrue, AcceptedTrue, Believed, WaitsOnConn

\* Carrying out a command brings the state to the one it asks for.
LEMMA CommandedState ==
  ASSUME NEW r \in Nat, NEW want \in BOOLEAN
  PROVE  Standby(IF Standby(r) # want THEN r + 1 ELSE r) = want
BY DEF Standby

LEMMA DispatchKeeps ==
  ASSUME ViewerInv, NEW m \in wire, NEW ok \in BOOLEAN, dispatchPowerCommand(m, ok)
  PROVE  ViewerInv'
<1> USE DEF ViewerInv
<1> DEFINE rev == IF ok /\ Standby(dev.rev) # m.want THEN dev.rev + 1 ELSE dev.rev
           a == [sock |-> m.sock, cmd |-> m.cmd, ok |-> ok, proc |-> dev.proc, rev |-> rev]
<1>1. /\ UNCHANGED <<sock, conn, sess, lock, hb, cmd, db>>
      /\ rev <= MaxRev /\ dev' = [dev EXCEPT !.rev = rev]
      /\ wire' = wire \ {m} /\ acks' = acks \cup {a}
      /\ executed' = IF ok THEN executed \cup {m.cmd} ELSE executed
  BY DEF dispatchPowerCommand
<1>2. m \in Messages /\ dev.rev \in Nat /\ dev.proc \in Procs
  BY DEF ViewerTypeOK, Revs
<1>3. rev \in Revs /\ (ok => Standby(rev) = m.want)
  BY <1>1, <1>2, CommandedState DEF Revs, Messages
<1>4. a \in Results /\ a.cmd = m.cmd /\ a.ok = ok /\ a.rev = rev
  BY <1>2, <1>3 DEF Results, Messages
<1> HIDE DEF rev, a
<1>5. ViewerTypeOK' BY <1>1, <1>2, <1>3, <1>4 DEF ViewerTypeOK, Messages
<1>6. MessagesTrue'
  <2>1. /\ cmd[m.cmd].pc \notin {"new", "waiting", "validating"}
        /\ cmd[m.cmd].pc = "sent" => m.want = cmd[m.cmd].want
    BY DEF MessagesTrue
  <2> QED BY <1>1, <1>3, <1>4, <2>1 DEF MessagesTrue
<1>7. OneInsideTheLock' /\ AcceptedTrue' /\ WaitsOnConn'
  BY <1>1 DEF OneInsideTheLock, AcceptedTrue, Believed, WaitsOnConn
<1> QED BY <1>5, <1>6, <1>7

-----------------------------------------------------------------------------
(* Sockets and sessions.                                                   *)
LEMMA ExpiryKeeps ==
  ASSUME ViewerInv, HistoryExpires
  PROVE  ViewerInv'
<1> USE DEF ViewerInv
<1>1. UNCHANGED <<dev, wire, acks, executed, sock, conn, lock, hb, cmd, db>>
  BY DEF HistoryExpires, deviceVars
<1>2. ViewerTypeOK'
  <2>1. sess' \in Sessions
    <3>1. CASE sess' = NoSession BY <3>1, Constants
    <3>2. CASE sess' = [sess EXCEPT !.retired = {}] BY <3>2 DEF ViewerTypeOK, Sessions
    <3> QED BY <3>1, <3>2 DEF HistoryExpires
  <2> QED BY <1>1, <2>1 DEF ViewerTypeOK, Sessions
<1> QED
  BY <1>1, <1>2 DEF OneInsideTheLock, MessagesTrue, AcceptedTrue, Believed, WaitsOnConn

\* Rejecting what waits on a socket leaves every other request alone.
LEMMA RejectKeeps ==
  ASSUME ViewerInv, NEW s, cmd' = RejectPending(s), UNCHANGED <<dev, executed, lock, hb>>,
         wire' \subseteq wire, acks' \subseteq acks
  PROVE  OneInsideTheLock' /\ MessagesTrue' /\ AcceptedTrue'
<1> USE DEF ViewerInv
<1>1. \A c \in Cmds : \/ cmd'[c] = cmd[c]
                      \/ cmd[c].pc = "sent" /\ cmd'[c].pc = "failed" /\ ~cmd'[c].accepted
  BY PendingTypes DEF NewCmd
<1>2. OneInsideTheLock' BY <1>1 DEF OneInsideTheLock, Holding
<1>3. MessagesTrue'
  <2>1. \A m \in wire' : m \in wire /\ m.cmd \in Cmds BY DEF ViewerTypeOK, Messages
  <2>2. \A a \in acks' : a \in acks /\ a.cmd \in Cmds BY DEF ViewerTypeOK, Results
  <2> QED BY <1>1, <2>1, <2>2 DEF MessagesTrue
<1>4. AcceptedTrue' BY <1>1 DEF AcceptedTrue, Believed
<1> QED BY <1>2, <1>3, <1>4

LEMMA UpgradeKeeps ==
  ASSUME ViewerInv, NEW s \in Socks, Upgrade(s)
  PROVE  ViewerInv'
<1> USE DEF ViewerInv
<1>1. /\ UNCHANGED <<dev, wire, acks, executed, lock, hb, db>> /\ conn' = s
      /\ sess' = replaceSession(sock[s].proc, sock[s].rev, s)
      /\ cmd' = IF conn = None THEN cmd ELSE RejectPending(conn)
      /\ sock' = [t \in Socks |-> IF t = s THEN [FreeSock EXCEPT !.st = "open"]
                                  ELSE IF t = conn THEN [sock[t] EXCEPT !.st = "dead"] ELSE sock[t]]
  BY DEF Upgrade, deviceVars
<1>2. sess' \in Sessions
  <2>1. sock[s].proc \in Procs /\ sock[s].rev \in -1..MaxRev BY Constants DEF ViewerTypeOK
  <2> QED BY <1>1, <2>1, SessionTypes
<1>3. sock' \in [Socks -> Sockets]
  <2>1. [FreeSock EXCEPT !.st = "open"] \in Sockets BY Constants DEF FreeSock, Sockets
  <2>2. \A t \in Socks : sock[t] \in Sockets /\ [sock[t] EXCEPT !.st = "dead"] \in Sockets
    BY DEF ViewerTypeOK, Sockets
  <2> QED BY <1>1, <2>1, <2>2
<1>4. CASE conn = None
  <2>1. cmd' = cmd /\ \A c \in Cmds : cmd[c].pc # "sent" BY <1>1, <1>4 DEF WaitsOnConn
  <2>2. ViewerTypeOK' BY <1>1, <1>2, <1>3, <2>1 DEF ViewerTypeOK, Sessions, Sockets
  <2> QED
    BY <1>1, <2>1, <2>2 DEF OneInsideTheLock, MessagesTrue, AcceptedTrue, Believed, WaitsOnConn
<1>5. CASE conn # None
  <2>1. cmd' = RejectPending(conn) BY <1>1, <1>5
  <2>2. OneInsideTheLock' /\ MessagesTrue' /\ AcceptedTrue' BY <1>1, <2>1, RejectKeeps
  <2>3. ViewerTypeOK'
    BY <1>1, <1>2, <1>3, <2>1, PendingTypes DEF ViewerTypeOK, Sessions, Sockets, Commands
  <2>4. \A c \in Cmds : cmd'[c].pc # "sent"
    BY <2>1, PendingTypes DEF WaitsOnConn, NewCmd
  <2> QED BY <2>2, <2>3, <2>4 DEF WaitsOnConn
<1> QED BY <1>4, <1>5

LEMMA SocketFailsKeeps ==
  ASSUME ViewerInv, NEW s \in Socks, SocketFails(s)
  PROVE  ViewerInv'
<1> USE DEF ViewerInv
<1>1. UNCHANGED <<dev, wire, acks, executed, conn, sess, lock, hb, cmd, db>>
  BY DEF SocketFails, deviceVars
<1>2. sock' \in [Socks -> Sockets]
  BY Constants, SMTT(30) DEF SocketFails, ViewerTypeOK, Sockets
<1>3. ViewerTypeOK' BY <1>1, <1>2 DEF ViewerTypeOK, Sockets
<1> QED
  BY <1>1, <1>3 DEF OneInsideTheLock, MessagesTrue, AcceptedTrue, Believed, WaitsOnConn

LEMMA OnCloseKeeps ==
  ASSUME ViewerInv, NEW s \in Socks, OnClose(s)
  PROVE  ViewerInv'
<1> USE DEF ViewerInv
<1>1. /\ UNCHANGED <<dev, executed, lock, hb, db>> /\ sess' = unbindPowerSession(s)
      /\ sock' = [sock EXCEPT ![s] = FreeSock]
      /\ wire' \subseteq wire /\ acks' \subseteq acks
  BY DEF OnClose
<1>2. sess' \in Sessions /\ sock' \in [Socks -> Sockets]
  <2>1. sess' \in Sessions BY <1>1, SessionTypes, Constants
  <2> QED BY <1>1, <2>1, Constants DEF ViewerTypeOK, Sockets
<1>3. CASE conn = s
  <2>1. conn' = None /\ cmd' = RejectPending(s) BY <1>3 DEF OnClose
  <2>2. OneInsideTheLock' /\ MessagesTrue' /\ AcceptedTrue' BY <1>1, <2>1, RejectKeeps
  <2>3. ViewerTypeOK'
    BY <1>1, <1>2, <2>1, PendingTypes DEF ViewerTypeOK, Sessions, Sockets, Commands
  <2>4. \A c \in Cmds : cmd'[c].pc # "sent"
    BY <1>3, <2>1, PendingTypes DEF WaitsOnConn, NewCmd
  <2> QED BY <2>2, <2>3, <2>4 DEF WaitsOnConn
<1>4. CASE conn # s
  <2>1. UNCHANGED <<conn, cmd>> BY <1>4 DEF OnClose
  <2>2. ViewerTypeOK' BY <1>1, <1>2, <2>1 DEF ViewerTypeOK, Sessions, Sockets
  <2>3. MessagesTrue' BY <1>1, <2>1 DEF MessagesTrue
  <2> QED
    BY <1>1, <2>1, <2>2, <2>3 DEF OneInsideTheLock, AcceptedTrue, Believed, WaitsOnConn
<1> QED BY <1>3, <1>4

-----------------------------------------------------------------------------
(* Heartbeats.                                                             *)
LEMMA HeartbeatKeeps ==
  ASSUME ViewerInv, NEW h \in Hbs, HeartbeatStep(h)
  PROVE  ViewerInv'
<1> USE DEF ViewerInv
<1>1. /\ UNCHANGED <<dev, wire, acks, executed, sock, conn, cmd>>
      /\ UNCHANGED db \/ db' = [standby |-> Standby(hb[h].rev), proc |-> hb[h].proc, rev |-> hb[h].rev]
  BY DEF HeartbeatStep, SendHeartbeat, HeartbeatAccepted, HeartbeatRefused, HeartbeatLost,
     HeartbeatWrites, HeartbeatEnds, deviceVars
<1>2. hb[h] \in Reports /\ hb[h].proc \in Procs /\ hb[h].rev \in Revs /\ hb[h].rev \in -1..MaxRev
  BY Constants DEF ViewerTypeOK, Reports
<1>3. hb' \in [Hbs -> Reports] /\ \A g \in Hbs : g # h => hb'[g] = hb[g]
  BY Constants DEF HeartbeatStep, SendHeartbeat, HeartbeatAccepted, HeartbeatRefused,
     HeartbeatLost, HeartbeatWrites, HeartbeatEnds, ViewerTypeOK, Reports
<1>4. sess' \in Sessions
  <2>0. sess \in Sessions BY DEF ViewerTypeOK, Sessions
  <2>1. CASE HeartbeatAccepted(h)
    <3>1. -1 \in -1..MaxRev BY ViewerAssumption
    <3>2. sess' = sess \/ sess' = replaceSession(hb[h].proc, -1, None)
      BY <2>1 DEF HeartbeatAccepted
    <3>3. None \in Socks \cup {None} OBVIOUS
    <3> QED BY <1>2, <2>0, <3>1, <3>2, <3>3, SessionTypes
  <2>2. CASE HeartbeatEnds(h)
    <3>1. sess' = sess \/ sess' = advancePowerSample(hb[h].proc, hb[h].rev)
      BY <2>2 DEF HeartbeatEnds
    <3>2. None \in Socks \cup {None} OBVIOUS
    <3> QED BY <1>2, <2>0, <3>1, <3>2, SessionTypes
  <2> QED
    BY <2>0, <2>1, <2>2 DEF HeartbeatStep, SendHeartbeat, HeartbeatRefused, HeartbeatLost,
       HeartbeatWrites
<1>5. lock' \in Hbs \cup Cmds \cup {None}
  BY DEF HeartbeatStep, SendHeartbeat, HeartbeatAccepted, HeartbeatRefused, HeartbeatLost,
     HeartbeatWrites, HeartbeatEnds, ViewerTypeOK
<1>6. db' \in [standby : BOOLEAN, proc : 0..MaxProc, rev : Revs]
  <2>1. Standby(hb[h].rev) \in BOOLEAN BY DEF Standby
  <2>2. hb[h].proc \in 0..MaxProc BY <1>2, Constants
  <2> QED BY <1>1, <1>2, <2>1, <2>2 DEF ViewerTypeOK
<1>7. ViewerTypeOK' BY <1>1, <1>3, <1>4, <1>5, <1>6 DEF ViewerTypeOK, Sessions, Reports
<1>8. OneInsideTheLock'
  <2>1. \/ lock' = lock /\ (hb'[h].pc \in {"accepted", "wrote"} <=> hb[h].pc \in {"accepted", "wrote"})
        \/ lock = None /\ lock' = h /\ hb'[h].pc = "accepted"
        \/ lock = h /\ lock' = None /\ hb'[h].pc = "idle"
    BY DEF HeartbeatStep, SendHeartbeat, HeartbeatAccepted, HeartbeatRefused, HeartbeatLost,
       HeartbeatWrites, HeartbeatEnds, ViewerTypeOK, IdleHb, OneInsideTheLock
  <2> QED BY <1>1, <1>3, <2>1, ViewerAssumption DEF OneInsideTheLock
<1>9. MessagesTrue' /\ AcceptedTrue' /\ WaitsOnConn'
  BY <1>1 DEF MessagesTrue, AcceptedTrue, Believed, WaitsOnConn
<1> QED BY <1>7, <1>8, <1>9

-----------------------------------------------------------------------------
(* Commands.                                                               *)

\* Only command c changes, and its new row keeps what the others rely on.
LEMMA OneCommandChanges ==
  ASSUME ViewerInv, NEW c \in Cmds, NEW new \in Commands, cmd' = [cmd EXCEPT ![c] = new],
         UNCHANGED <<dev, executed, sock, conn, hb>>, sess' \in Sessions,
         db' \in [standby : BOOLEAN, proc : 0..MaxProc, rev : Revs],
         \A m \in wire' : m \in Messages /\ (m \in wire \/ m.cmd = c),
         acks' \subseteq acks,
         \/ lock' = lock /\ (new.pc \in Holding <=> cmd[c].pc \in Holding)
         \/ lock = None /\ lock' = c /\ new.pc \in Holding
         \/ lock = c /\ lock' = None /\ new.pc \notin Holding,
         new.pc \in {"new", "waiting", "validating"} =>
           cmd[c].pc \in {"new", "waiting", "validating"} /\ wire' = wire /\ ~new.accepted,
         new.pc = "sent" =>
           /\ new.sock = conn /\ conn # None
           /\ \A m \in wire' : m.cmd = c => m.want = new.want
           /\ \A a \in acks' : a.cmd = c /\ a.ok => Standby(a.rev) = new.want,
         new.pc = "confirmed" \/ (new.pc = "sent" /\ new.accepted) =>
           c \in executed /\ Standby(new.rev) = new.want
  PROVE  ViewerInv'
<1> USE DEF ViewerInv
<1>1. /\ cmd' \in [Cmds -> Commands] /\ cmd'[c] = new
      /\ \A d \in Cmds : d # c => cmd'[d] = cmd[d]
  BY DEF ViewerTypeOK, Commands
<1>2. ViewerTypeOK'
  <2>1. lock' \in Hbs \cup Cmds \cup {None} BY DEF ViewerTypeOK
  <2> QED BY <1>1, <2>1 DEF ViewerTypeOK, Sessions, Commands
<1>3. OneInsideTheLock'
  BY <1>1, ViewerAssumption DEF OneInsideTheLock
<1>4. MessagesTrue'
  <2>1. \A m \in wire' : m.cmd \in Cmds BY DEF Messages
  <2>2. \A a \in acks' : a \in acks /\ a.cmd \in Cmds BY DEF ViewerTypeOK, Results
  <2>3. \A m \in wire' : /\ cmd'[m.cmd].pc \notin {"new", "waiting", "validating"}
                         /\ cmd'[m.cmd].pc = "sent" => m.want = cmd'[m.cmd].want
    BY <1>1, <2>1 DEF MessagesTrue
  <2>4. \A a \in acks' : /\ cmd'[a.cmd].pc \notin {"new", "waiting", "validating"}
                         /\ a.ok => /\ a.cmd \in executed'
                                    /\ cmd'[a.cmd].pc = "sent" => Standby(a.rev) = cmd'[a.cmd].want
    BY <1>1, <2>2 DEF MessagesTrue
  <2> QED BY <2>3, <2>4 DEF MessagesTrue
<1>5. AcceptedTrue' BY <1>1 DEF AcceptedTrue, Believed
<1>6. WaitsOnConn' BY <1>1 DEF WaitsOnConn
<1> QED BY <1>2, <1>3, <1>4, <1>5, <1>6

LEMMA RequestKeeps ==
  ASSUME ViewerInv, NEW c \in Cmds, NEW want \in BOOLEAN, RequestPower(c, want)
  PROVE  ViewerInv'
<1> DEFINE new == [cmd[c] EXCEPT !.pc = "waiting", !.want = want]
<1>1. cmd[c] \in Commands /\ sess \in Sessions /\ db \in [standby : BOOLEAN, proc : 0..MaxProc, rev : Revs]
      /\ wire \subseteq Messages /\ cmd[c].pc = "new" /\ ~cmd[c].accepted
  BY DEF ViewerInv, ViewerTypeOK, Commands, Sessions, RequestPower, AcceptedTrue
<1>2. /\ new \in Commands /\ new.pc = "waiting" /\ ~new.accepted
      /\ cmd' = [cmd EXCEPT ![c] = new]
      /\ UNCHANGED <<dev, executed, sock, conn, hb, sess, db, wire, acks, lock>>
  BY <1>1 DEF RequestPower, Commands, deviceVars, ViewerInv, ViewerTypeOK
<1> HIDE DEF new
<1> QED BY <1>1, <1>2, OneCommandChanges DEF Holding

LEMMA DispatchPowerKeeps ==
  ASSUME ViewerInv, NEW c \in Cmds, DispatchPower(c)
  PROVE  ViewerInv'
<1> DEFINE new == [cmd[c] EXCEPT !.pc = IF Live(conn) THEN "validating" ELSE "failed", !.sock = conn]
<1>1. cmd[c] \in Commands /\ sess \in Sessions /\ db \in [standby : BOOLEAN, proc : 0..MaxProc, rev : Revs]
      /\ wire \subseteq Messages /\ cmd[c].pc = "waiting" /\ ~cmd[c].accepted
      /\ conn \in Socks \cup {None}
  BY DEF ViewerInv, ViewerTypeOK, Commands, Sessions, DispatchPower, AcceptedTrue
<1>2. /\ new \in Commands /\ new.pc \in {"validating", "failed"} /\ ~new.accepted
      /\ cmd' = [cmd EXCEPT ![c] = new] /\ lock = None /\ lock' = c
      /\ UNCHANGED <<dev, executed, sock, conn, hb, sess, db, wire, acks>>
  BY <1>1 DEF DispatchPower, Commands, deviceVars, ViewerInv, ViewerTypeOK
<1> HIDE DEF new
<1> QED BY <1>1, <1>2, OneCommandChanges DEF Holding

LEMMA SendPowerKeeps ==
  ASSUME ViewerInv, NEW c \in Cmds, SendPower(c)
  PROVE  ViewerInv'
<1> DEFINE new == [cmd[c] EXCEPT !.pc = "sent"]
           m == [sock |-> cmd[c].sock, cmd |-> c, want |-> cmd[c].want]
<1>1. /\ cmd[c] \in Commands /\ sess \in Sessions
      /\ db \in [standby : BOOLEAN, proc : 0..MaxProc, rev : Revs]
      /\ wire \subseteq Messages /\ acks \subseteq Results
      /\ cmd[c].pc = "validating" /\ ~cmd[c].accepted /\ cmd[c].sock = conn /\ conn # None
  BY DEF ViewerInv, ViewerTypeOK, Commands, Sessions, SendPower, AcceptedTrue, Live
<1>2. /\ new \in Commands /\ new.pc = "sent" /\ ~new.accepted
      /\ new.sock = conn /\ new.want = cmd[c].want
      /\ m \in Messages /\ m.cmd = c /\ m.want = cmd[c].want
      /\ cmd' = [cmd EXCEPT ![c] = new] /\ wire' = wire \cup {m}
      /\ UNCHANGED <<dev, executed, sock, conn, hb, sess, db, lock, acks>>
  BY <1>1 DEF SendPower, Commands, Messages, ViewerInv, ViewerTypeOK
<1>3. (\A x \in wire : x.cmd # c) /\ (\A a \in acks : a.cmd # c)
  BY <1>1 DEF ViewerInv, MessagesTrue
<1> HIDE DEF new, m
<1> QED BY <1>1, <1>2, <1>3, OneCommandChanges DEF Holding

LEMMA WrittenKeeps ==
  ASSUME ViewerInv, NEW c \in Cmds, Written(c)
  PROVE  ViewerInv'
<1> DEFINE new == [cmd[c] EXCEPT !.written = TRUE,
                                 !.pc = IF cmd[c].accepted THEN "confirmed" ELSE "sent"]
<1>1. /\ cmd[c] \in Commands /\ sess \in Sessions
      /\ db \in [standby : BOOLEAN, proc : 0..MaxProc, rev : Revs]
      /\ wire \subseteq Messages /\ cmd[c].pc = "sent" /\ cmd[c].sock = conn /\ conn # None
  BY DEF ViewerInv, ViewerTypeOK, Commands, Sessions, Written, WaitsOnConn
<1>2. /\ new \in Commands /\ new.pc = IF cmd[c].accepted THEN "confirmed" ELSE "sent"
      /\ new.accepted = cmd[c].accepted /\ new.sock = cmd[c].sock /\ new.want = cmd[c].want
      /\ new.rev = cmd[c].rev
      /\ UNCHANGED <<dev, executed, sock, conn, hb, sess, db, lock, wire, acks>>
  BY <1>1 DEF Written, Commands, deviceVars
<1>3. cmd' = [cmd EXCEPT ![c] = new]
  BY <1>1 DEF Written, Settle, ViewerInv, ViewerTypeOK, Commands
<1>4. /\ \A x \in wire : x.cmd = c => x.want = cmd[c].want
      /\ \A a \in acks : a.cmd = c /\ a.ok => Standby(a.rev) = cmd[c].want
      /\ cmd[c].accepted => c \in executed /\ Standby(cmd[c].rev) = cmd[c].want
  BY <1>1 DEF ViewerInv, MessagesTrue, AcceptedTrue, Believed
<1> HIDE DEF new
<1> QED BY <1>1, <1>2, <1>3, <1>4, OneCommandChanges DEF Holding

LEMMA GiveUpKeeps ==
  ASSUME ViewerInv, NEW c \in Cmds, GiveUp(c)
  PROVE  ViewerInv'
<1> DEFINE new == [NewCmd EXCEPT !.pc = "failed"]
<1>1. /\ sess \in Sessions /\ db \in [standby : BOOLEAN, proc : 0..MaxProc, rev : Revs]
      /\ wire \subseteq Messages /\ cmd[c].pc \in {"validating", "sent"}
  BY DEF ViewerInv, ViewerTypeOK, Sessions, GiveUp
<1>2. /\ new \in Commands /\ new.pc = "failed" /\ cmd' = [cmd EXCEPT ![c] = new]
      /\ UNCHANGED <<dev, executed, sock, conn, hb, sess, db, lock, wire, acks>>
  BY Constants DEF GiveUp, deviceVars, NewCmd
<1> HIDE DEF new
<1> QED BY <1>1, <1>2, OneCommandChanges DEF Holding

LEMMA PowerEndsKeeps ==
  ASSUME ViewerInv, NEW c \in Cmds, PowerEnds(c)
  PROVE  ViewerInv'
<1> DEFINE new == [(IF cmd[c].pc = "confirmed" THEN cmd[c] ELSE NewCmd) EXCEPT !.pc = "done"]
<1>1. /\ cmd[c] \in Commands /\ sess \in Sessions /\ wire \subseteq Messages
      /\ cmd[c].pc \in Holding /\ lock = c /\ lock' = None
      /\ UNCHANGED <<dev, executed, sock, conn, hb, sess, wire, acks>>
  BY DEF ViewerInv, ViewerTypeOK, Commands, Sessions, PowerEnds, Holding, deviceVars
<1>2. new \in Commands /\ new.pc = "done" /\ cmd' = [cmd EXCEPT ![c] = new]
  <2>1. (IF cmd[c].pc = "confirmed" THEN cmd[c] ELSE NewCmd) \in Commands BY <1>1, Constants
  <2> QED BY <2>1 DEF PowerEnds, Commands
<1>3. db' \in [standby : BOOLEAN, proc : 0..MaxProc, rev : Revs]
  <2>1. cmd[c].want \in BOOLEAN /\ cmd[c].proc \in 0..MaxProc /\ cmd[c].rev \in Revs
    BY <1>1, Constants DEF Commands
  <2> QED BY <2>1 DEF PowerEnds, ViewerInv, ViewerTypeOK
<1> HIDE DEF new
<1> QED BY <1>1, <1>2, <1>3, OneCommandChanges DEF Holding

\* An answer settles the command it names, or nothing.
LEMMA ResultEffect ==
  ASSUME ViewerInv, NEW a \in acks, PowerResult(a)
  PROVE  /\ UNCHANGED <<dev, wire, executed, sock, conn, lock, hb, db>>
         /\ acks' = acks \ {a} /\ a \in Results
         /\ \/ UNCHANGED <<sess, cmd>>
            \/ /\ conn = a.sock /\ sess.owner = a.sock /\ powerSampleAllowed(a.proc, a.rev)
               /\ a.cmd \in Cmds /\ cmd[a.cmd].pc = "sent"
               /\ \/ /\ a.ok /\ sess' = advancePowerSample(a.proc, a.rev)
                     /\ cmd' = [cmd EXCEPT ![a.cmd] =
                          [cmd[a.cmd] EXCEPT !.accepted = TRUE, !.proc = a.proc, !.rev = a.rev,
                             !.pc = IF cmd[a.cmd].written THEN "confirmed" ELSE "sent"]]
                  \/ /\ ~a.ok /\ UNCHANGED sess
                     /\ cmd' = [cmd EXCEPT ![a.cmd] = [NewCmd EXCEPT !.pc = "failed"]]
<1>1. /\ UNCHANGED <<dev, wire, executed, sock, conn, lock, hb, db>>
      /\ acks' = acks \ {a} /\ a \in Results
  BY DEF PowerResult, ViewerInv, ViewerTypeOK
<1> DEFINE taken == /\ conn = a.sock /\ sess.owner = a.sock /\ powerSampleAllowed(a.proc, a.rev)
                    /\ \E c \in Cmds : Accepts(a, c)
           c == CHOOSE c \in Cmds : Accepts(a, c)
<1>2. CASE ~taken BY <1>1, <1>2 DEF PowerResult
<1>3. CASE taken
  <2>1. c \in Cmds /\ c = a.cmd /\ cmd[c].pc = "sent" BY <1>3 DEF Accepts
  <2>2. /\ sess' = IF a.ok THEN advancePowerSample(a.proc, a.rev) ELSE sess
        /\ cmd' = IF a.ok
                    THEN [Settle(c, cmd[c].written, TRUE) EXCEPT ![c].proc = a.proc, ![c].rev = a.rev]
                    ELSE [cmd EXCEPT ![c] = [NewCmd EXCEPT !.pc = "failed"]]
    BY <1>3 DEF PowerResult
  <2> HIDE DEF c
  <2>3. cmd \in [Cmds -> Commands] /\ cmd[c] \in Commands
    BY <2>1 DEF ViewerInv, ViewerTypeOK, Commands
  <2>4. CASE a.ok
    <3>1. [Settle(c, cmd[c].written, TRUE) EXCEPT ![c].proc = a.proc, ![c].rev = a.rev]
            = [cmd EXCEPT ![c] =
                 [cmd[c] EXCEPT !.accepted = TRUE, !.proc = a.proc, !.rev = a.rev,
                    !.pc = IF cmd[c].written THEN "confirmed" ELSE "sent"]]
      <4> DEFINE p == IF cmd[c].written THEN "confirmed" ELSE "sent"
                 q == [cmd[c] EXCEPT !.written = cmd[c].written, !.accepted = TRUE, !.pc = p]
      <4>1. Settle(c, cmd[c].written, TRUE) = [cmd EXCEPT ![c] = q]
        BY <2>1, <2>3 DEF Settle
      <4>2. q = [cmd[c] EXCEPT !.accepted = TRUE, !.pc = p]
        BY <2>3 DEF Commands
      <4> HIDE DEF q
      <4>3. [[cmd EXCEPT ![c] = q] EXCEPT ![c].proc = a.proc, ![c].rev = a.rev]
              = [cmd EXCEPT ![c] = [q EXCEPT !.proc = a.proc, !.rev = a.rev]]
        BY <2>1, <2>3
      <4>4. [q EXCEPT !.proc = a.proc, !.rev = a.rev]
              = [cmd[c] EXCEPT !.accepted = TRUE, !.proc = a.proc, !.rev = a.rev, !.pc = p]
        BY <2>3, <4>2 DEF Commands
      <4> QED BY <4>1, <4>3, <4>4
    <3> QED BY <1>1, <1>3, <2>1, <2>2, <2>4, <3>1
  <2>5. CASE ~a.ok BY <1>1, <1>3, <2>1, <2>2, <2>5
  <2> QED BY <2>4, <2>5
<1> QED BY <1>2, <1>3

LEMMA PowerResultKeeps ==
  ASSUME ViewerInv, NEW a \in acks, PowerResult(a)
  PROVE  ViewerInv'
<1> DEFINE c == a.cmd
           yes == [cmd[c] EXCEPT !.accepted = TRUE, !.proc = a.proc, !.rev = a.rev,
                     !.pc = IF cmd[c].written THEN "confirmed" ELSE "sent"]
           no == [NewCmd EXCEPT !.pc = "failed"]
<1>1. /\ UNCHANGED <<dev, wire, executed, sock, conn, lock, hb, db>>
      /\ acks' = acks \ {a} /\ a \in Results
  BY ResultEffect
<1>2. /\ sess \in Sessions /\ wire \subseteq Messages /\ acks \subseteq Results
      /\ db \in [standby : BOOLEAN, proc : 0..MaxProc, rev : Revs]
      /\ cmd \in [Cmds -> Commands]
  BY DEF ViewerInv, ViewerTypeOK, Sessions, Commands
<1>3. /\ a.proc \in Procs /\ a.rev \in Revs /\ a.rev \in -1..MaxRev
      /\ None \in Socks \cup {None} /\ ViewerTypeOK
  BY <1>1, Constants DEF Results, ViewerInv
<1>4. CASE UNCHANGED <<sess, cmd>>
  <2>1. ViewerTypeOK' BY <1>1, <1>2, <1>3, <1>4 DEF ViewerTypeOK
  <2> QED
    BY <1>1, <1>4, <2>1 DEF ViewerInv, OneInsideTheLock, MessagesTrue, AcceptedTrue, Believed,
       WaitsOnConn
<1>5. CASE c \in Cmds /\ cmd[c].pc = "sent" /\ a.ok /\ sess' = advancePowerSample(a.proc, a.rev)
           /\ cmd' = [cmd EXCEPT ![c] = yes]
  <2>1. /\ yes \in Commands /\ yes.pc \in {"confirmed", "sent"} /\ yes.rev = a.rev
        /\ yes.want = cmd[c].want /\ yes.sock = cmd[c].sock
    BY <1>2, <1>3, <1>5, ZenonT(60) DEF Commands
  <2>2. sess' \in Sessions BY <1>3, <1>5, SessionTypes
  <2>3. /\ c \in executed /\ Standby(a.rev) = cmd[c].want
        /\ cmd[c].sock = conn /\ conn # None
        /\ \A m \in wire : m.cmd = c => m.want = cmd[c].want
        /\ \A x \in acks : x.cmd = c /\ x.ok => Standby(x.rev) = cmd[c].want
    BY <1>5 DEF ViewerInv, MessagesTrue, WaitsOnConn
  <2>4. cmd' = [cmd EXCEPT ![c] = yes] /\ c \in Cmds /\ cmd[c].pc = "sent" BY <1>5
  <2> HIDE DEF c, yes, no
  <2> QED BY <1>1, <1>2, <2>1, <2>2, <2>3, <2>4, OneCommandChanges DEF Holding
<1>6. CASE c \in Cmds /\ cmd[c].pc = "sent" /\ UNCHANGED sess /\ cmd' = [cmd EXCEPT ![c] = no]
  <2>1. no \in Commands /\ no.pc = "failed" BY Constants DEF NewCmd
  <2>2. cmd' = [cmd EXCEPT ![c] = no] /\ c \in Cmds /\ cmd[c].pc = "sent" /\ sess' = sess BY <1>6
  <2> HIDE DEF c, yes, no
  <2> QED BY <1>1, <1>2, <2>1, <2>2, OneCommandChanges DEF Holding
<1> QED BY <1>4, <1>5, <1>6, ResultEffect

-----------------------------------------------------------------------------
LEMMA ViewerInvStep == ViewerInv /\ [ViewerNext]_viewerVars => ViewerInv'
<1> SUFFICES ASSUME ViewerInv, [ViewerNext]_viewerVars PROVE ViewerInv'
  OBVIOUS
<1>1. CASE UNCHANGED viewerVars
  BY <1>1 DEF viewerVars, ViewerInv, ViewerTypeOK, OneInsideTheLock, MessagesTrue, AcceptedTrue,
     Believed, WaitsOnConn
<1>2. CASE ViewerStep BY <1>2, DeviceKeeps, DispatchKeeps DEF ViewerStep
<1>3. CASE HistoryExpires BY <1>3, ExpiryKeeps
<1>4. ASSUME NEW s \in Socks, SocketStep(s) PROVE ViewerInv'
  BY <1>4, UpgradeKeeps, SocketFailsKeeps, OnCloseKeeps DEF SocketStep
<1>5. ASSUME NEW h \in Hbs, HeartbeatStep(h) PROVE ViewerInv' BY <1>5, HeartbeatKeeps
<1>6. ASSUME NEW c \in Cmds, CommandStep(c) PROVE ViewerInv'
  BY <1>6, RequestKeeps, DispatchPowerKeeps, SendPowerKeeps, WrittenKeeps, GiveUpKeeps,
     PowerEndsKeeps DEF CommandStep
<1>7. ASSUME NEW a \in acks, PowerResult(a) PROVE ViewerInv' BY <1>7, PowerResultKeeps
<1> QED BY <1>1, <1>2, <1>3, <1>4, <1>5, <1>6, <1>7 DEF ViewerNext

THEOREM ViewerInvHolds == ViewerSpec => []ViewerInv
BY ViewerInvInit, ViewerInvStep, PTL DEF ViewerSpec

(* A command reported as delivered happened, and requests wait only on the *)
(* registered socket (acceptPowerResult, power-dispatch.ts), for any       *)
(* number of sockets, reports, commands and app processes.                 *)
THEOREM ViewerStaysSafe == ViewerSpec => []ViewerSafe
<1>1. ViewerInv => ViewerSafe
  BY DEF ViewerInv, ViewerSafe, ConfirmedMeansCommitted, PendingOnRegisteredSocket, AcceptedTrue,
     Believed, WaitsOnConn
<1> QED BY <1>1, ViewerInvHolds, PTL

-----------------------------------------------------------------------------
(* One app process: the record and the order of its samples.               *)
LEMMA OneProcess ==
  ASSUME MaxProc = 1, ViewerInv
  PROVE  /\ dev.rev \in Nat /\ dev.proc = 1 /\ db.rev \in Nat /\ sess.rev \in Int
         /\ sess.id \in {0, 1}
         /\ \A h \in Hbs : hb[h].rev \in Nat /\ hb[h].proc = 1
         /\ \A s \in Socks : sock[s].rev \in Nat /\ sock[s].proc = 1
         /\ \A a \in acks : a.rev \in Nat /\ a.proc = 1 /\ a.cmd \in Cmds
         /\ \A c \in Cmds : cmd[c].rev \in Nat
<1>1. Procs = {1} /\ 0..MaxProc = {0, 1} /\ Revs \subseteq Nat /\ -1..MaxRev \subseteq Int
  BY ViewerAssumption DEF Procs, Revs
<1> QED BY <1>1 DEF ViewerInv, ViewerTypeOK, Results

\* A session that is bound to a socket, or keeps its process, has a floor no
\* lower than before.
LEMMA FloorRises ==
  ASSUME MaxProc = 1, ViewerInv, NEW r \in Int, NEW o
  PROVE  /\ replaceSession(1, r, o).id = 1 /\ replaceSession(1, r, o).owner = o
         /\ replaceSession(1, r, o).rev >= r
         /\ sess.id = 1 => replaceSession(1, r, o).rev >= sess.rev
BY OneProcess DEF replaceSession

LEMMA RecordInvInit == ViewerInit => RecordInv
BY ViewerAssumption DEF ViewerInit, RecordInv, DeviceAhead, OldSamplesRefused, OwnedFloor,
   AdmittedSamples, Believed, Wrote, IdleHb, FreeSock, NewCmd, NoSession

LEMMA RecordDevice ==
  ASSUME MaxProc = 1, ViewerInv, RecordInv, ViewerStep
  PROVE  RecordInv' /\ db' = db
<1> USE DEF RecordInv
<1>1. /\ UNCHANGED <<conn, sess, lock, hb, cmd, db>> /\ dev'.rev \in Nat /\ dev'.rev >= dev.rev
      /\ \A a \in acks' : a \in acks \/ a.rev = dev'.rev
  <2>1. CASE setStandby BY <2>1, OneProcess DEF setStandby, ViewerInv, ViewerTypeOK
  <2>2. CASE RestartApp BY <2>2, OneProcess DEF RestartApp
  <2>3. CASE disconnected BY <2>3, OneProcess DEF disconnected, ViewerInv, ViewerTypeOK
  <2>4. ASSUME NEW s \in Socks, connectSocket(s)
        PROVE  /\ UNCHANGED <<conn, sess, lock, hb, cmd, db, acks>> /\ dev'.rev = dev.rev
    BY <2>4 DEF connectSocket, ViewerInv, ViewerTypeOK
  <2>5. ASSUME NEW m \in wire, NEW ok \in BOOLEAN, dispatchPowerCommand(m, ok)
        PROVE  /\ UNCHANGED <<conn, sess, lock, hb, cmd, db>> /\ dev'.rev \in {dev.rev, dev.rev + 1}
               /\ \A a \in acks' : a \in acks \/ a.rev = dev'.rev
    BY <2>5 DEF dispatchPowerCommand, ViewerInv, ViewerTypeOK
  <2> QED BY <2>1, <2>2, <2>3, <2>4, <2>5, OneProcess DEF ViewerStep
<1>2. \A s \in Socks : sock'[s] = sock[s] \/ sock'[s].rev = dev.rev
  BY DEF ViewerStep, setStandby, RestartApp, disconnected, connectSocket, dispatchPowerCommand,
     ViewerInv, ViewerTypeOK
<1>3. DeviceAhead' BY <1>1, <1>2, OneProcess DEF DeviceAhead
<1>4. OldSamplesRefused' BY <1>1, <1>2, OneProcess DEF OldSamplesRefused, DeviceAhead, Wrote
<1>5. OwnedFloor' BY <1>1 DEF OwnedFloor, Wrote
<1>6. AdmittedSamples' BY <1>1, OneProcess DEF AdmittedSamples, Believed
<1> QED BY <1>1, <1>3, <1>4, <1>5, <1>6

LEMMA RecordExpiry ==
  ASSUME MaxProc = 1, ViewerInv, RecordInv, HistoryExpires
  PROVE  RecordInv' /\ db' = db
<1> USE DEF RecordInv
<1>1. /\ UNCHANGED <<dev, acks, sock, conn, lock, hb, cmd, db>> /\ lock = None
      /\ sess'.owner = None \/ (sess'.id = sess.id /\ sess'.rev = sess.rev /\ sess'.owner = sess.owner)
  BY DEF HistoryExpires, deviceVars, NoSession, ViewerInv, ViewerTypeOK
\* Nothing is under way: no report, no connection, no request in the lock.
<1>2. /\ \A h \in Hbs : hb[h].pc = "idle" /\ hb[h].pc # "wrote"
      /\ \A s \in Socks : sock[s].st # "connecting"
  <2>1. InFlight = {} BY DEF HistoryExpires
  <2>2. ASSUME NEW h \in Hbs, hb[h].pc # "idle" PROVE FALSE
    <3>1. hb[h].proc \in {hb[g].proc : g \in {g \in Hbs : hb[g].pc # "idle"}} BY <2>2
    <3> QED BY <2>1, <3>1 DEF InFlight
  <2>3. ASSUME NEW s \in Socks, sock[s].st = "connecting" PROVE FALSE
    <3>1. sock[s].proc \in {sock[t].proc : t \in {t \in Socks : sock[t].st = "connecting"}}
      BY <2>3
    <3> QED BY <2>1, <3>1 DEF InFlight
  <2> QED BY <2>2, <2>3
<1>3. \A c \in Cmds : ~Believed(c)
  BY <1>1, ViewerAssumption DEF ViewerInv, OneInsideTheLock, Holding, Believed
<1>4. DeviceAhead' /\ OldSamplesRefused' BY <1>1, <1>2 DEF DeviceAhead, OldSamplesRefused
<1>5. OwnedFloor' BY <1>1, <1>2 DEF OwnedFloor, Wrote
<1>6. AdmittedSamples' BY <1>1, <1>2, <1>3 DEF AdmittedSamples, Believed
<1> QED BY <1>1, <1>4, <1>5, <1>6

LEMMA RecordSocket ==
  ASSUME MaxProc = 1, ViewerInv, RecordInv, NEW s \in Socks, SocketStep(s)
  PROVE  RecordInv' /\ db' = db
<1> USE DEF RecordInv
<1>1. /\ UNCHANGED <<dev, lock, hb, db>> /\ acks' \subseteq acks
      /\ \A t \in Socks : sock'[t].st = "connecting" => sock'[t] = sock[t]
  BY DEF SocketStep, Upgrade, SocketFails, OnClose, deviceVars, FreeSock, ViewerInv, ViewerTypeOK
<1>2. \A c \in Cmds : cmd'[c] = cmd[c] \/ cmd'[c].pc = "failed"
  BY PendingTypes DEF SocketStep, Upgrade, SocketFails, OnClose, NewCmd, ViewerInv
<1>3. DeviceAhead' BY <1>1 DEF DeviceAhead
\* The session of a new socket starts at the socket's sample, or higher.
<1>4. CASE Upgrade(s)
  <2>1. sock[s].st = "connecting" /\ sock[s].rev \in Int /\ sess' = replaceSession(1, sock[s].rev, s)
    BY <1>4, OneProcess DEF Upgrade
  <2>2. /\ sess'.id = 1 /\ sess'.owner = s /\ sess'.rev >= sock[s].rev
        /\ sess.id = 1 => sess'.rev >= sess.rev
    BY <2>1, FloorRises
  <2>t. ViewerInv' BY <1>4, ViewerInvStep DEF ViewerNext, SocketStep
  <2>3. sess'.rev \in Int BY <2>t, OneProcess DEF ViewerInv, ViewerTypeOK
  <2>4. sess'.rev >= db.rev \/ Wrote
    BY <2>1, <2>2, <2>3, OneProcess DEF OldSamplesRefused
  <2>5. OldSamplesRefused' /\ OwnedFloor'
    BY <1>1, <2>2, <2>4 DEF OldSamplesRefused, OwnedFloor, Wrote
  <2>6. AdmittedSamples'
    BY <1>1, <1>2, <2>2, <2>3, OneProcess DEF AdmittedSamples, Believed
  <2> QED BY <1>1, <1>3, <2>5, <2>6
<1>5. CASE ~Upgrade(s)
  <2>1. sess'.id = sess.id /\ sess'.rev = sess.rev /\ sess'.owner \in {sess.owner, None}
    BY <1>5 DEF SocketStep, SocketFails, OnClose, unbindPowerSession, ViewerInv, ViewerTypeOK
  <2>2. OldSamplesRefused' /\ OwnedFloor' BY <1>1, <2>1 DEF OldSamplesRefused, OwnedFloor, Wrote
  <2>3. AdmittedSamples' BY <1>1, <1>2, <2>1 DEF AdmittedSamples, Believed
  <2> QED BY <1>1, <1>3, <2>2, <2>3
<1> QED BY <1>4, <1>5

LEMMA RecordHeartbeat ==
  ASSUME MaxProc = 1, ViewerInv, RecordInv, NEW h \in Hbs, HeartbeatStep(h)
  PROVE  RecordInv' /\ (db' # db => db'.rev >= db.rev)
<1> USE DEF RecordInv
<1>1. /\ UNCHANGED <<dev, acks, sock, conn, cmd>> /\ \A g \in Hbs : g # h => hb'[g] = hb[g]
      /\ hb'[h].pc = "idle" \/ hb'[h].pc = "sent" \/ hb'[h].rev = hb[h].rev
  BY DEF HeartbeatStep, SendHeartbeat, HeartbeatAccepted, HeartbeatRefused, HeartbeatLost,
     HeartbeatWrites, HeartbeatEnds, deviceVars, ViewerInv, ViewerTypeOK, IdleHb
<1>t. ViewerInv' /\ sess'.rev \in Int
  <2>1. ViewerInv' BY HeartbeatKeeps
  <2> QED BY <2>1, OneProcess DEF ViewerInv, ViewerTypeOK
<1>2. CASE SendHeartbeat(h) \/ HeartbeatRefused(h) \/ HeartbeatLost(h)
  <2>1. /\ UNCHANGED <<sess, lock, db>> /\ hb[h].pc \in {"idle", "sent"}
        /\ hb'[h].pc = "idle" \/ (hb'[h].pc = "sent" /\ hb'[h].rev = dev.rev)
    BY <1>2 DEF SendHeartbeat, HeartbeatRefused, HeartbeatLost, IdleHb, ViewerInv, ViewerTypeOK
  <2>2. DeviceAhead' BY <1>1, <2>1, OneProcess DEF DeviceAhead
  <2>3. Wrote' <=> Wrote BY <1>1, <2>1 DEF Wrote
  <2>4. OldSamplesRefused' /\ OwnedFloor'
    BY <1>1, <2>1, <2>3, OneProcess DEF OldSamplesRefused, OwnedFloor, DeviceAhead
  <2>5. AdmittedSamples' BY <1>1, <2>1 DEF AdmittedSamples, Believed
  <2> QED BY <2>1, <2>2, <2>4, <2>5
<1>3. CASE HeartbeatAccepted(h)
  \* The lock is free: nothing has been written without its floor, and an
  \* old sample would not be accepted.
  <2>1. /\ hb[h].pc = "sent" /\ lock = None /\ heartbeatPowerSampleAllowed(1, hb[h].rev)
        /\ sess' = IF sess.id = 1 THEN sess ELSE replaceSession(1, -1, None)
        /\ db' = db /\ hb'[h].pc = "accepted" /\ hb'[h].rev = hb[h].rev
    BY <1>3, OneProcess DEF HeartbeatAccepted, ViewerInv, ViewerTypeOK, deviceVars
  <2>2. /\ ~Wrote /\ \A g \in Hbs : hb[g].pc \notin {"accepted", "wrote"}
        /\ \A c \in Cmds : ~Believed(c)
    BY <2>1, ViewerAssumption DEF ViewerInv, OneInsideTheLock, Wrote, Believed, Holding
  <2>3. hb[h].rev >= db.rev
    BY <2>1, <2>2, OneProcess DEF OldSamplesRefused, heartbeatPowerSampleAllowed
  <2>4. /\ sess'.id = 1 /\ (sess.id = 1 => sess' = sess)
        /\ sess.id # 1 => sess'.owner = None
    BY <2>1, FloorRises
  <2>5. DeviceAhead' BY <1>1, <2>1 DEF DeviceAhead
  <2>6. OldSamplesRefused'
    BY <1>1, <2>1, <2>2, <2>4, OneProcess DEF OldSamplesRefused
  <2>7. OwnedFloor' BY <2>1, <2>2, <2>4 DEF OwnedFloor
  <2>8. AdmittedSamples'
    <3>1. \A g \in Hbs : hb'[g].pc \in {"accepted", "wrote"} => g = h BY <1>1, <2>2
    <3>2. \A c \in Cmds : ~Believed(c)' BY <1>1, <2>2 DEF Believed
    <3> QED BY <2>1, <2>3, <2>4, <3>1, <3>2 DEF AdmittedSamples
  <2> QED BY <2>1, <2>5, <2>6, <2>7, <2>8
<1>4. CASE HeartbeatWrites(h)
  <2>1. /\ hb[h].pc = "accepted" /\ sess' = sess /\ db'.rev = hb[h].rev
        /\ hb'[h].pc = "wrote" /\ hb'[h].rev = hb[h].rev
    BY <1>4 DEF HeartbeatWrites, ViewerInv, ViewerTypeOK, deviceVars
  <2>2. sess.id = 1 /\ hb[h].rev >= db.rev BY <2>1 DEF AdmittedSamples
  <2>3. Wrote' BY <2>1 DEF Wrote
  <2>4. lock = h /\ \A g \in Hbs : hb[g].pc \in {"accepted", "wrote"} => g = h
    BY <2>1 DEF ViewerInv, OneInsideTheLock
  <2>5. \A c \in Cmds : ~Believed(c)
    BY <2>4, ViewerAssumption DEF ViewerInv, OneInsideTheLock, Believed, Holding
  <2>6. DeviceAhead' BY <1>1, <2>1 DEF DeviceAhead
  <2>7. OldSamplesRefused' /\ OwnedFloor' BY <2>1, <2>2, <2>3 DEF OldSamplesRefused, OwnedFloor
  <2>8. AdmittedSamples'
    <3>1. \A g \in Hbs : hb'[g].pc \in {"accepted", "wrote"} => g = h BY <1>1, <2>4
    <3>2. \A c \in Cmds : ~Believed(c)' BY <1>1, <2>5 DEF Believed
    <3> QED BY <2>1, <2>2, <3>1, <3>2, OneProcess DEF AdmittedSamples
  <2> QED BY <2>1, <2>2, <2>6, <2>7, <2>8
<1>5. CASE HeartbeatEnds(h)
  <2>1. /\ hb[h].pc \in {"accepted", "wrote"} /\ db' = db /\ hb'[h].pc = "idle"
        /\ sess' = IF hb[h].pc = "wrote" THEN advancePowerSample(1, hb[h].rev) ELSE sess
    BY <1>5, OneProcess DEF HeartbeatEnds, IdleHb, ViewerInv, ViewerTypeOK, deviceVars
  <2>2. lock = h /\ \A g \in Hbs : hb[g].pc \in {"accepted", "wrote"} => g = h
    BY <2>1 DEF ViewerInv, OneInsideTheLock
  <2>3. \A c \in Cmds : ~Believed(c)
    BY <2>2, ViewerAssumption DEF ViewerInv, OneInsideTheLock, Believed, Holding
  <2>4. /\ sess.id = 1 /\ sess'.id = 1 /\ sess'.owner = sess.owner /\ sess'.rev >= sess.rev
        /\ hb[h].pc = "wrote" => sess'.rev >= db.rev
    BY <2>1, OneProcess DEF AdmittedSamples, advancePowerSample, powerSampleAllowed, ViewerInv,
       ViewerTypeOK
  <2>5. Wrote => hb[h].pc = "wrote" BY <2>2 DEF Wrote
  <2>6. DeviceAhead' BY <1>1, <2>1 DEF DeviceAhead
  <2>7. (sess.rev >= db.rev \/ Wrote) => sess'.rev >= db.rev BY <1>t, <2>4, <2>5, OneProcess
  <2>8. OldSamplesRefused'
    BY <1>1, <2>1, <2>4, <2>7 DEF OldSamplesRefused
  <2>9. OwnedFloor' BY <2>1, <2>4, <2>7 DEF OwnedFloor
  <2>10. AdmittedSamples'
    <3>1. \A g \in Hbs : hb'[g].pc \notin {"accepted", "wrote"} BY <1>1, <2>1, <2>2
    <3>2. \A c \in Cmds : ~Believed(c)' BY <1>1, <2>3 DEF Believed
    <3> QED BY <3>1, <3>2 DEF AdmittedSamples
  <2> QED BY <2>1, <2>6, <2>8, <2>9, <2>10
<1> QED BY <1>2, <1>3, <1>4, <1>5 DEF HeartbeatStep

LEMMA RecordCommand ==
  ASSUME MaxProc = 1, ViewerInv, RecordInv, NEW c \in Cmds, CommandStep(c)
  PROVE  RecordInv' /\ (db' # db => db'.rev >= db.rev)
<1> USE DEF RecordInv
<1>1. UNCHANGED <<dev, acks, sock, conn, sess, hb>> /\ \A d \in Cmds : d # c => cmd'[d] = cmd[d]
  BY DEF CommandStep, RequestPower, DispatchPower, SendPower, Written, Settle, GiveUp, PowerEnds,
     deviceVars, ViewerInv, ViewerTypeOK
<1>2. CASE PowerEnds(c) /\ cmd[c].pc = "confirmed"
  <2>1. lock = c /\ db'.rev = cmd[c].rev /\ cmd'[c].pc = "done"
    BY <1>2 DEF PowerEnds, ViewerInv, ViewerTypeOK
  <2>2. Believed(c) /\ sess.id = 1 /\ sess.rev >= cmd[c].rev /\ cmd[c].rev >= db.rev
    BY <1>2 DEF AdmittedSamples, Believed
  <2>3. /\ \A h \in Hbs : hb[h].pc \notin {"accepted", "wrote"}
        /\ \A d \in Cmds : Believed(d) => d = c
    BY <2>1, ViewerAssumption DEF ViewerInv, OneInsideTheLock, Believed, Holding
  \* The acknowledged revision was the device's.
  <2>4. cmd[c].rev <= dev.rev BY <2>2 DEF AdmittedSamples
  <2>5. DeviceAhead' BY <1>1, <2>1, <2>4 DEF DeviceAhead
  <2>6. OldSamplesRefused' /\ OwnedFloor'
    BY <1>1, <2>1, <2>2 DEF OldSamplesRefused, OwnedFloor
  <2>7. AdmittedSamples'
    <3>1. \A d \in Cmds : ~Believed(d)' BY <1>1, <2>1, <2>3 DEF Believed
    <3> QED BY <1>1, <2>3, <3>1 DEF AdmittedSamples
  <2> QED BY <2>1, <2>2, <2>5, <2>6, <2>7
<1>3. CASE ~(PowerEnds(c) /\ cmd[c].pc = "confirmed")
  <2>1. db' = db
    BY <1>3 DEF CommandStep, RequestPower, DispatchPower, SendPower, Written, GiveUp, PowerEnds
  <2>2. Believed(c)' => Believed(c) /\ cmd'[c].rev = cmd[c].rev
    BY <1>3 DEF CommandStep, RequestPower, DispatchPower, SendPower, Written, Settle, GiveUp,
       PowerEnds, Believed, NewCmd, ViewerInv, ViewerTypeOK, AcceptedTrue
  <2>3. DeviceAhead' BY <1>1, <2>1 DEF DeviceAhead
  <2>4. OldSamplesRefused' /\ OwnedFloor'
    BY <1>1, <2>1 DEF OldSamplesRefused, OwnedFloor, Wrote
  <2>5. AdmittedSamples'
    <3>1. \A d \in Cmds : Believed(d)' => Believed(d) /\ cmd'[d].rev = cmd[d].rev
      BY <1>1, <2>2 DEF Believed
    <3> QED BY <1>1, <2>1, <3>1 DEF AdmittedSamples
  <2> QED BY <2>1, <2>3, <2>4, <2>5
<1> QED BY <1>2, <1>3

LEMMA RecordResult ==
  ASSUME MaxProc = 1, ViewerInv, RecordInv, NEW a \in acks, PowerResult(a)
  PROVE  RecordInv' /\ db' = db
<1> USE DEF RecordInv
<1>1. UNCHANGED <<dev, sock, conn, lock, hb, db>> /\ acks' \subseteq acks BY ResultEffect
<1>2. DeviceAhead' BY <1>1 DEF DeviceAhead
<1>3. CASE UNCHANGED <<sess, cmd>>
  <2>1. OldSamplesRefused' /\ OwnedFloor' BY <1>1, <1>3 DEF OldSamplesRefused, OwnedFloor, Wrote
  <2>2. AdmittedSamples' BY <1>1, <1>3 DEF AdmittedSamples, Believed
  <2> QED BY <1>1, <1>2, <2>1, <2>2
<1>4. CASE /\ conn = a.sock /\ sess.owner = a.sock /\ powerSampleAllowed(a.proc, a.rev)
           /\ a.cmd \in Cmds /\ cmd[a.cmd].pc = "sent"
           /\ \/ /\ a.ok /\ sess' = advancePowerSample(a.proc, a.rev)
                 /\ cmd' = [cmd EXCEPT ![a.cmd] =
                      [cmd[a.cmd] EXCEPT !.accepted = TRUE, !.proc = a.proc, !.rev = a.rev,
                         !.pc = IF cmd[a.cmd].written THEN "confirmed" ELSE "sent"]]
              \/ /\ ~a.ok /\ UNCHANGED sess
                 /\ cmd' = [cmd EXCEPT ![a.cmd] = [NewCmd EXCEPT !.pc = "failed"]]
  <2>1. lock = a.cmd /\ (\A h \in Hbs : hb[h].pc \notin {"accepted", "wrote"}) /\ ~Wrote
    BY <1>4, ViewerAssumption DEF ViewerInv, OneInsideTheLock, Holding, Wrote
  \* The socket that answers owns the session, so the floor is as high as
  \* the record, and the answer is not below the floor.
  <2>2. sess.id = 1 /\ a.rev >= sess.rev /\ sess.rev >= db.rev /\ a.rev <= dev.rev
    BY <1>4, <2>1, OneProcess DEF OwnedFloor, WaitsOnConn, powerSampleAllowed, DeviceAhead,
       ViewerInv
  <2>3. /\ sess'.id = 1 /\ sess'.owner = sess.owner /\ sess'.rev \in {sess.rev, a.rev}
        /\ a.ok => sess'.rev = a.rev
    BY <1>4, <2>2, OneProcess DEF advancePowerSample, powerSampleAllowed, ViewerInv, ViewerTypeOK
  <2>4. sess'.rev >= db.rev BY <2>2, <2>3, OneProcess
  <2>5. OldSamplesRefused' /\ OwnedFloor' BY <1>1, <2>3, <2>4 DEF OldSamplesRefused, OwnedFloor
  <2>6. \A c \in Cmds : c # a.cmd => cmd'[c] = cmd[c] /\ ~Believed(c)
    BY <1>4, <2>1 DEF ViewerInv, ViewerTypeOK, OneInsideTheLock, Believed, Holding
  <2>7. Believed(a.cmd)' => a.ok /\ cmd'[a.cmd].rev = a.rev
    <3>1. cmd \in [Cmds -> Commands] /\ cmd[a.cmd] \in Commands
      BY <1>4 DEF ViewerInv, ViewerTypeOK, Commands
    <3>2. CASE a.ok
      <4>1. cmd'[a.cmd] = [cmd[a.cmd] EXCEPT !.accepted = TRUE, !.proc = a.proc, !.rev = a.rev,
                             !.pc = IF cmd[a.cmd].written THEN "confirmed" ELSE "sent"]
        BY <1>4, <3>1, <3>2
      <4> QED BY <3>1, <3>2, <4>1 DEF Commands
    <3>3. CASE ~a.ok
      <4>1. cmd'[a.cmd].pc = "failed" BY <1>4, <3>1, <3>3 DEF NewCmd
      <4> QED BY <4>1 DEF Believed
    <3> QED BY <3>2, <3>3
  <2>8. AdmittedSamples'
    <3>1. \A h \in Hbs : hb'[h].pc \notin {"accepted", "wrote"} BY <1>1, <2>1
    <3>2. \A c \in Cmds : Believed(c)' => c = a.cmd BY <2>6 DEF Believed
    <3>3. \A c \in Cmds : Believed(c)' =>
            /\ sess'.id = 1 /\ sess'.rev >= cmd'[c].rev
            /\ cmd'[c].rev >= db.rev /\ cmd'[c].rev <= dev.rev
      BY <2>2, <2>3, <2>7, <3>2, OneProcess
    <3> QED BY <1>1, <3>1, <3>3 DEF AdmittedSamples
  <2> QED BY <1>1, <1>2, <2>5, <2>8
<1> QED BY <1>3, <1>4, ResultEffect

LEMMA RecordInvStep ==
  ASSUME MaxProc = 1, ViewerInv, RecordInv, [ViewerNext]_viewerVars
  PROVE  RecordInv' /\ (db' # db => db'.rev >= db.rev)
<1>1. CASE UNCHANGED viewerVars
  BY <1>1 DEF viewerVars, RecordInv, DeviceAhead, OldSamplesRefused, OwnedFloor, AdmittedSamples,
     Believed, Wrote
<1>2. CASE ViewerStep BY <1>2, RecordDevice
<1>3. CASE HistoryExpires BY <1>3, RecordExpiry
<1>4. ASSUME NEW s \in Socks, SocketStep(s) PROVE RecordInv' /\ db' = db BY <1>4, RecordSocket
<1>5. ASSUME NEW h \in Hbs, HeartbeatStep(h)
      PROVE  RecordInv' /\ (db' # db => db'.rev >= db.rev)
  BY <1>5, RecordHeartbeat
<1>6. ASSUME NEW c \in Cmds, CommandStep(c)
      PROVE  RecordInv' /\ (db' # db => db'.rev >= db.rev)
  BY <1>6, RecordCommand
<1>7. ASSUME NEW a \in acks, PowerResult(a) PROVE RecordInv' /\ db' = db BY <1>7, RecordResult
<1> QED BY <1>1, <1>2, <1>3, <1>4, <1>5, <1>6, <1>7 DEF ViewerNext

(* While one app process runs, the recorded power state never goes back to *)
(* an earlier revision (withPowerStateLock, power-state-order.ts), however *)
(* many sockets, reports and commands are in flight and whenever the       *)
(* session history is dropped.                                             *)
THEOREM RecordNeverRollsBack ==
  ASSUME MaxProc = 1
  PROVE  ViewerSpec => RecordedNotRolledBack
<1>1. ViewerInit => RecordInv BY RecordInvInit
<1>2. ViewerInv /\ RecordInv /\ [ViewerNext]_viewerVars => RecordInv'
  BY RecordInvStep
<1>3. ViewerInv /\ RecordInv /\ [ViewerNext]_viewerVars
        => [db.proc = db'.proc => db'.rev >= db.rev]_db
  BY RecordInvStep
<1>4. ViewerSpec => []RecordInv BY <1>1, <1>2, ViewerInvHolds, PTL DEF ViewerSpec
<1> QED BY <1>3, <1>4, ViewerInvHolds, PTL DEF ViewerSpec, RecordedNotRolledBack
=============================================================================
