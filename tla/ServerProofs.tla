---------------------------- MODULE ServerProofs ----------------------------
(***************************************************************************)
(* Who is let in by the server and what a request then does in the         *)
(* database, for every number of sessions, requests, tenants and           *)
(* connections: the sessions of administrators (Access), the display       *)
(* sessions of viewers (DisplaySession), the gate in front of a tenant's   *)
(* dashboards (DashboardGate), the entities that mirror the dashboards     *)
(* (DashboardSync), the pool with its transactions (DbAdapter), the        *)
(* releases kiosks are offered (Releases) and the screens and playlists of *)
(* a signage service (AbleSign).                                           *)
(* A part for each: the inductive invariant, a lemma for each operation    *)
(* that says it keeps the invariant, and the theorem.                      *)
(***************************************************************************)
EXTENDS Access, DisplaySession, DashboardGate, DashboardSync, DbAdapter, Releases, AbleSign,
        FiniteSetTheorems, SequenceTheorems, TLAPS
-----------------------------------------------------------------------------
(* Access: signing in, sessions and the pages they open *)

Users == [pw : {0, MaxPw}, totp : BOOLEAN, secret : BOOLEAN, failed : 0..MaxReqs, locked : BOOLEAN]
Sessions == [st : {"none", "live"}, tenant : Tenants, pending : BOOLEAN, revoked : BOOLEAN,
             expired : BOOLEAN, idle : BOOLEAN, proved : BOOLEAN]
Logins == [pc : {"verify", "create"}, u : Users, pw : {0, MaxPw}]
Visits == [pc : {"resolve", "user", "touch", "check", "served", "revoke"}, s : Sids,
  kind : AccKinds,
           target : Tenants, dead : BOOLEAN, row : Sessions, u : Users]

AccessTypes ==
  /\ AccTypeOK /\ role \in {"admin", "operator"}
  /\ req \in [Reqs -> {NoReq} \cup Logins \cup Visits]
  /\ started \in 0..MaxReqs

\* A login in progress has read a count that requests before it wrote.
CountsBehind ==
  /\ user.failed <= started
  /\ \A q \in Reqs : req[q] \in Logins => req[q].u.failed < started

\* A request is of a session that exists; one that came too late is turned
\* away by resolveSession, and what it read of the tenant does not change.
VisitTrue(r) ==
  /\ sess[r.s].st = "live"
  /\ r.dead => r.pc = "resolve" /\ (sess[r.s].revoked \/ sess[r.s].expired)
  /\ r.pc # "resolve" => r.row.tenant = sess[r.s].tenant
  /\ r.pc = "served" => TenantAllowed(r)

VisitsTrue == \A q \in Reqs : req[q] \in Visits => VisitTrue(req[q])

\* What was ended exists, and is revoked or about to be.
EndedAreRevoked ==
  \A s \in ended :
    /\ sess[s].st = "live"
    /\ sess[s].tenant = "default" => sess[s].revoked \/ \E q \in Reqs : req[q].pc = "revoke"

AccInv == AccessTypes /\ CountsBehind /\ VisitsTrue /\ EndedAreRevoked /\ SecondFactorKept

\* What no statement on the sessions table does: undo a revocation or an
\* expiry, move a session to another tenant, or take the second factor back.
SessionsGrow ==
  /\ sess' \in [Sids -> Sessions]
  /\ \A s \in Sids : sess[s].st = "live" =>
       /\ sess'[s].st = "live" /\ sess'[s].tenant = sess[s].tenant
       /\ sess[s].revoked => sess'[s].revoked
       /\ sess[s].expired => sess'[s].expired
  /\ \A s \in Sids : sess'[s].st = "live" /\ ~sess'[s].pending => sess'[s].proved

\* A request that is not under way is neither a login nor a visit.
LEMMA NoReqIsNone == NoReq \notin Logins /\ NoReq \notin Visits /\ NoReq.pc = "none"
BY DEF NoReq, Logins, Visits

\* What holds before anybody has signed in.
LEMMA AccInitially == AccInit => AccInv
<1> SUFFICES ASSUME AccInit PROVE AccInv
  OBVIOUS
<1>1. user \in Users /\ user.failed = 0
  <2>1. /\ user.pw = 0 /\ user.failed = 0 /\ user.totp \in BOOLEAN /\ user.secret \in BOOLEAN
        /\ user.locked \in BOOLEAN
        /\ user = [pw |-> user.pw, totp |-> user.totp, secret |-> user.secret,
                   failed |-> user.failed, locked |-> user.locked]
    BY DEF AccInit
  <2>2. 0 \in 0..MaxReqs
    BY AccAssumption
  <2> QED
    BY <2>1, <2>2 DEF Users
<1>2. Free \in Sessions
  BY DEF Free, Sessions, Tenants
<1>3. sess \in [Sids -> Sessions] /\ SecondFactorKept
  <2>1. CASE sess = [s \in Sids |-> Free]
    BY <1>2, <2>1 DEF SecondFactorKept, Free
  <2>2. ASSUME NEW s \in Sids, NEW t \in Tenants,
               sess = [[x \in Sids |-> Free] EXCEPT
                         ![s] = [Free EXCEPT !.st = "live", !.tenant = t, !.proved = TRUE]]
        PROVE sess \in [Sids -> Sessions] /\ SecondFactorKept
    <3> DEFINE one == [Free EXCEPT !.st = "live", !.tenant = t, !.proved = TRUE]
    <3>1. one \in Sessions /\ one.proved
      BY DEF Free, Sessions
    <3> HIDE DEF one
    <3>2. sess = [x \in Sids |-> IF x = s THEN one ELSE Free]
      BY <2>2 DEF one
    <3>3. sess \in [Sids -> Sessions]
      BY <1>2, <3>1, <3>2
    <3>4. \A x \in Sids : sess[x] = one \/ sess[x] = Free
      BY <3>2
    <3>5. Free.st = "none"
      BY DEF Free
    <3> QED
      BY <3>1, <3>3, <3>4, <3>5 DEF SecondFactorKept
  <2> QED
    BY <2>1, <2>2 DEF AccInit
<1>4. AccessTypes
  BY <1>1, <1>3, AccAssumption DEF AccInit, AccessTypes, AccTypeOK, Users, Sessions
<1>5. CountsBehind /\ VisitsTrue /\ EndedAreRevoked
  <2>1. started = 0 /\ ended = {} /\ req = [q \in Reqs |-> NoReq]
    BY DEF AccInit
  <2>2. \A q \in Reqs : req[q] \notin Logins /\ req[q] \notin Visits
    BY <2>1, NoReqIsNone
  <2>3. CountsBehind
    BY <1>1, <2>1, <2>2 DEF CountsBehind
  <2>4. VisitsTrue
    BY <2>2 DEF VisitsTrue
  <2> QED
    BY <2>1, <2>3, <2>4 DEF EndedAreRevoked
<1> QED
  BY <1>3, <1>4, <1>5 DEF AccInv


\* A step of one request keeps the invariant when what it writes is sound.
LEMMA RequestKeeps ==
  ASSUME AccInv, NEW q \in Reqs, NEW r, Put(q, r), SessionsGrow,
         r \in {NoReq} \cup Logins \cup Visits,
         r \in Logins => r.u.failed < started',
         r \in Visits => VisitTrue(r)',
         UNCHANGED role, user' \in Users, user'.failed <= started',
         started' \in 0..MaxReqs, started <= started',
         EndedAreRevoked', ended' \subseteq Sids
  PROVE  AccInv'
<1>1. req' = [req EXCEPT ![q] = r]
  BY DEF Put
<1>2. req \in [Reqs -> {NoReq} \cup Logins \cup Visits] /\ started \in Nat
  BY AccAssumption DEF AccInv, AccessTypes
<1>3. req' \in [Reqs -> {NoReq} \cup Logins \cup Visits]
  BY <1>1, <1>2
<1>4. AccessTypes'
  BY <1>3 DEF AccInv, AccessTypes, AccTypeOK, SessionsGrow, Users, Sessions
<1>5. CountsBehind'
  <2>1. ASSUME NEW x \in Reqs, req'[x] \in Logins PROVE req'[x].u.failed < started'
    <3>1. CASE x = q
      BY <1>1, <1>2, <2>1, <3>1
    <3>2. CASE x # q
      <4>1. req[x] \in Logins /\ req'[x] = req[x]
        BY <1>1, <1>2, <2>1, <3>2
      <4>2. req[x].u.failed < started /\ req[x].u.failed \in Nat
        BY <4>1, AccAssumption DEF AccInv, CountsBehind, Logins, Users
      <4>3. started' \in Nat
        BY AccAssumption
      <4> QED
        BY <1>2, <4>1, <4>2, <4>3
    <3> QED
      BY <3>1, <3>2
  <2> QED
    BY <2>1 DEF CountsBehind
<1>6. VisitsTrue'
  <2>1. ASSUME NEW x \in Reqs, req'[x] \in Visits PROVE VisitTrue(req[x])'
    <3>1. CASE x = q
      <4>1. req'[x] = r
        BY <1>1, <1>2, <3>1
      <4> QED
        BY <2>1, <4>1 DEF VisitTrue, TenantAllowed, PlatformAdmin
    <3>2. CASE x # q
      <4>1. req[x] \in Visits /\ req'[x] = req[x] /\ req[x].s \in Sids
        BY <1>1, <1>2, <2>1, <3>2 DEF Visits
      <4>2. VisitTrue(req[x])
        BY <4>1 DEF AccInv, VisitsTrue
      <4> QED
        BY <4>1, <4>2 DEF VisitTrue, TenantAllowed, PlatformAdmin, SessionsGrow
    <3> QED
      BY <3>1, <3>2
  <2> QED
    BY <2>1 DEF VisitsTrue
<1>7. SecondFactorKept'
  BY DEF SecondFactorKept, SessionsGrow
<1> QED
  BY <1>4, <1>5, <1>6, <1>7 DEF AccInv

\* A step that leaves the requests alone keeps it too.
LEMMA NoRequestKeeps ==
  ASSUME AccInv, UNCHANGED <<req, role, ended>>, SessionsGrow,
         user' \in Users, user'.failed <= started', started' \in 0..MaxReqs, started <= started'
  PROVE  AccInv'
<1>1. req \in [Reqs -> {NoReq} \cup Logins \cup Visits] /\ started \in Nat /\ started' \in Nat
  BY AccAssumption DEF AccInv, AccessTypes
<1>2. AccessTypes'
  BY DEF AccInv, AccessTypes, AccTypeOK, SessionsGrow, Users, Sessions
<1>3. CountsBehind'
  <2>1. ASSUME NEW x \in Reqs, req[x] \in Logins PROVE req[x].u.failed < started'
    <3>1. req[x].u.failed < started /\ req[x].u.failed \in Nat
      BY <2>1, AccAssumption DEF AccInv, CountsBehind, Logins, Users
    <3> QED
      BY <1>1, <3>1
  <2> QED
    BY <2>1 DEF CountsBehind
<1>4. VisitsTrue'
  <2>1. ASSUME NEW x \in Reqs, req[x] \in Visits PROVE VisitTrue(req[x])'
    <3>1. VisitTrue(req[x]) /\ req[x].s \in Sids
      BY <2>1 DEF AccInv, VisitsTrue, Visits
    <3> QED
      BY <3>1 DEF VisitTrue, TenantAllowed, PlatformAdmin, SessionsGrow
  <2> QED
    BY <2>1 DEF VisitsTrue
<1>5. EndedAreRevoked'
  <2>1. ended \subseteq Sids
    BY DEF AccInv, AccessTypes, AccTypeOK
  <2> QED
    BY <2>1 DEF AccInv, EndedAreRevoked, SessionsGrow
<1>6. SecondFactorKept'
  BY DEF SecondFactorKept, SessionsGrow
<1> QED
  BY <1>2, <1>3, <1>4, <1>5, <1>6 DEF AccInv

\* No statement disturbs a session another request relies on.
LEMMA SessionWritten ==
  ASSUME AccInv, NEW s \in Sids, NEW row \in Sessions, sess' = [sess EXCEPT ![s] = row],
         sess[s].st = "live" => /\ row.st = "live" /\ row.tenant = sess[s].tenant
                                /\ sess[s].revoked => row.revoked
                                /\ sess[s].expired => row.expired,
         row.st = "live" /\ ~row.pending => row.proved
  PROVE  SessionsGrow
<1>1. sess \in [Sids -> Sessions]
  BY DEF AccInv, AccessTypes, AccTypeOK, Sessions
<1> QED
  BY <1>1 DEF AccInv, SecondFactorKept, SessionsGrow

\* A step that writes no session leaves what sessions say.
LEMMA SessionsLeft == ASSUME AccInv, UNCHANGED sess PROVE SessionsGrow
BY DEF AccInv, AccessTypes, AccTypeOK, Sessions, SecondFactorKept, SessionsGrow

\* revokeSession makes a session revoked, and no other less so.
LEMMA Revoked ==
  ASSUME AccInv, NEW s \in Sids, sess' = revokeSession(s)
  PROVE  SessionsGrow /\ sess'[s].revoked
<1>1. sess \in [Sids -> Sessions] /\ sess[s] \in Sessions
  BY DEF AccInv, AccessTypes, AccTypeOK, Sessions
<1> DEFINE row == [sess[s] EXCEPT !.revoked = TRUE]
<1>2. /\ row \in Sessions /\ row.st = sess[s].st /\ row.tenant = sess[s].tenant /\ row.revoked
      /\ row.expired = sess[s].expired /\ row.pending = sess[s].pending
           /\ row.proved = sess[s].proved
  BY <1>1 DEF Sessions
<1>3. sess' = [sess EXCEPT ![s] = row]
  BY <1>1 DEF revokeSession
<1> HIDE DEF row
<1>4. SessionsGrow
  BY <1>2, <1>3, SessionWritten DEF AccInv, SecondFactorKept
<1> QED
  BY <1>1, <1>2, <1>3, <1>4

\* What is known of the account's row: its failures are counted by attempts.
LEMMA AccountKept ==
  ASSUME AccInv
  PROVE  user \in Users /\ user.failed <= started /\ started \in 0..MaxReqs /\ started \in Nat
         /\ user.failed \in Nat
BY AccAssumption DEF AccInv, AccessTypes, AccTypeOK, CountsBehind, Users


\* The same, for a step that ends no session and is not the one that owes a
\* revocation.
LEMMA OneRequest ==
  ASSUME AccInv, NEW q \in Reqs, NEW r, Put(q, r), req[q].pc # "revoke", SessionsGrow,
         r \in {NoReq} \cup Logins \cup Visits,
         r \in Logins => r.u.failed < started',
         r \in Visits => VisitTrue(r)',
         UNCHANGED <<role, ended>>, user' \in Users, user'.failed <= started',
         started' \in 0..MaxReqs, started <= started'
  PROVE  AccInv'
<1>1. ended \subseteq Sids /\ req \in [Reqs -> {NoReq} \cup Logins \cup Visits]
  BY DEF AccInv, AccessTypes, AccTypeOK
<1>2. \A x \in Reqs : req[x].pc = "revoke" => req'[x] = req[x]
  BY <1>1 DEF Put
<1>3. EndedAreRevoked'
  BY <1>1, <1>2 DEF AccInv, EndedAreRevoked, SessionsGrow
<1> QED
  BY <1>1, <1>3, RequestKeeps

\* A request that ends, and leaves the account alone.
LEMMA RequestEnds ==
  ASSUME AccInv, NEW q \in Reqs, Done(q), req[q].pc # "revoke", SessionsGrow,
         UNCHANGED <<role, ended, started>>, user' \in Users, user'.failed <= started
  PROVE  AccInv'
<1>1. Put(q, NoReq) /\ started' \in 0..MaxReqs /\ started <= started' /\ user'.failed <= started'
  BY AccountKept DEF Done
<1> QED
  BY <1>1, NoReqIsNone, OneRequest

\* A login reads the account before it verifies the password.
LEMMA LoginReadKept ==
  ASSUME AccInv, NEW q \in Reqs, NEW pw \in {0, MaxPw}, loginRead(q, pw)
  PROVE  AccInv'
<1>1. /\ req[q].pc = "none" /\ started' = started + 1 /\ started < MaxReqs
      /\ UNCHANGED <<role, user, sess, ended>>
  BY DEF loginRead
<1>2. SessionsGrow
  BY <1>1, SessionsLeft
<1>3. started' \in 0..MaxReqs /\ started <= started' /\ user.failed < started' /\ user' \in Users
      /\ user'.failed <= started' /\ user \in Users
  BY <1>1, AccountKept, AccAssumption
<1>4. CASE UNCHANGED req
  BY <1>1, <1>2, <1>3, <1>4, NoRequestKeeps
<1>5. CASE Put(q, [pc |-> "verify", u |-> user, pw |-> pw])
  <2>1. PICK r : r = [pc |-> "verify", u |-> user, pw |-> pw]
    OBVIOUS
  <2>2. r \in Logins /\ r \notin Visits /\ r.u.failed < started'
    BY <1>3, <2>1 DEF Logins, Visits
  <2>3. Put(q, r)
    BY <1>5, <2>1
  <2> QED
    BY <1>1, <1>2, <1>3, <2>2, <2>3, OneRequest
<1> QED
  BY <1>1, <1>4, <1>5 DEF loginRead

\* What a request at each of its statements is.
LEMMA LoginIs ==
  ASSUME AccInv, NEW q \in Reqs, req[q].pc \in {"verify", "create"}
  PROVE  req[q] \in Logins /\ req[q].u \in Users /\ req[q].u.failed < started
         /\ req[q].u.failed \in Nat /\ req[q].u.totp \in BOOLEAN
<1>1. req[q] \in {NoReq} \cup Logins \cup Visits
  BY DEF AccInv, AccessTypes
<1>2. req[q] \in Logins
  BY <1>1, NoReqIsNone DEF Visits
<1> QED
  BY <1>2, AccAssumption DEF AccInv, CountsBehind, Logins, Users

\* A request in a middleware or a handler is of a live session of the account.
LEMMA VisitIs ==
  ASSUME AccInv, NEW q \in Reqs,
         req[q].pc \in {"resolve", "user", "touch", "check", "served", "revoke"}
  PROVE  /\ req[q] \in Visits /\ VisitTrue(req[q]) /\ req[q].s \in Sids
         /\ sess[req[q].s] \in Sessions /\ sess[req[q].s].st = "live"
<1>1. req[q] \in {NoReq} \cup Logins \cup Visits
  BY DEF AccInv, AccessTypes
<1>2. req[q] \in Visits
  BY <1>1, NoReqIsNone DEF Logins
<1>3. VisitTrue(req[q]) /\ req[q].s \in Sids
  BY <1>2 DEF AccInv, VisitsTrue, Visits
<1> QED
  BY <1>2, <1>3 DEF VisitTrue, AccInv, AccessTypes, AccTypeOK, Sessions

\* A wrong password writes back the count that was read, plus one.
LEMMA LoginFailedKept == ASSUME AccInv, NEW q \in Reqs, loginFailed(q) PROVE AccInv'
<1>1. /\ req[q].pc = "verify" /\ Done(q) /\ UNCHANGED <<role, sess, started, ended>>
      /\ user' = [user EXCEPT !.failed = req[q].u.failed + 1,
                              !.locked = @ \/ req[q].u.failed + 1 >= Threshold]
  BY DEF loginFailed
<1>2. req[q].u.failed < started /\ req[q].u.failed \in Nat
  BY <1>1, LoginIs
<1>3. PICK count, lock : count = req[q].u.failed + 1 /\ lock = (user.locked \/ count >= Threshold)
  OBVIOUS
<1>4. count \in 0..MaxReqs /\ count <= started
  BY <1>2, <1>3, AccountKept, AccAssumption
<1>5. user' = [user EXCEPT !.failed = count, !.locked = lock]
  <2>1. user \in Users
    BY AccountKept
  <2> QED
    BY <1>1, <1>3, <2>1 DEF Users
<1>6. lock \in BOOLEAN
  BY <1>3
<1>7. user' \in Users /\ user'.failed = count
  BY <1>4, <1>5, <1>6, AccountKept DEF Users
<1>8. SessionsGrow
  BY <1>1, SessionsLeft
<1> QED
  BY <1>1, <1>4, <1>7, <1>8, RequestEnds

\* A right password clears the count ...
LEMMA LoginValidKept == ASSUME AccInv, NEW q \in Reqs, loginValid(q) PROVE AccInv'
<1>1. /\ req[q].pc = "verify" /\ Put(q, [req[q] EXCEPT !.pc = "create"])
      /\ UNCHANGED <<role, sess, started, ended>>
      /\ user' = [user EXCEPT !.failed = 0, !.locked = FALSE]
  BY DEF loginValid
<1>2. req[q] \in Logins /\ req[q].u.failed < started
  BY <1>1, LoginIs
<1>3. PICK r : r = [req[q] EXCEPT !.pc = "create"]
  OBVIOUS
<1>4. r \in Logins /\ r.u = req[q].u /\ r.pc = "create"
  BY <1>2, <1>3 DEF Logins
<1>5. r \notin Visits
  BY <1>4 DEF Visits
<1>6. 0 \in 0..MaxReqs /\ 0 <= started /\ started \in 0..MaxReqs /\ started <= started
  BY AccountKept, AccAssumption
<1>7. user' \in Users /\ user'.failed = 0
  BY <1>1, <1>6, AccountKept DEF Users
<1>8. SessionsGrow /\ Put(q, r)
  BY <1>1, <1>3, SessionsLeft
<1> QED
  BY <1>1, <1>2, <1>4, <1>5, <1>6, <1>7, <1>8, OneRequest

\* ... and a session of its own is created.
LEMMA CreateSessionKept == ASSUME AccInv, NEW q \in Reqs, createSession(q) PROVE AccInv'
<1>1. req[q].pc = "create" /\ Done(q) /\ UNCHANGED <<role, user, started, ended>>
  BY DEF createSession
<1>2. PICK s \in Sids : sess[s].st = "none"
             /\ sess' = [sess EXCEPT ![s] = NewSession(req[q].u.totp)]
  BY DEF createSession
<1>3. PICK row : row = NewSession(req[q].u.totp)
  OBVIOUS
<1>4. row \in Sessions /\ (~row.pending => row.proved)
  <2>1. req[q].u.totp \in BOOLEAN
    BY <1>1, LoginIs
  <2>2. PICK b \in BOOLEAN : b = req[q].u.totp
    BY <2>1
  <2>3. CASE b = TRUE
    BY <1>3, <2>2, <2>3 DEF NewSession, Free, Sessions, Tenants
  <2>4. CASE b = FALSE
    BY <1>3, <2>2, <2>4 DEF NewSession, Free, Sessions, Tenants
  <2> QED
    BY <2>3, <2>4
<1>5. SessionsGrow
  BY <1>2, <1>3, <1>4, SessionWritten
<1> QED
  BY <1>1, <1>5, AccountKept, RequestEnds

\* The lock runs out.
LEMMA LockEndsKept == ASSUME AccInv, LockEnds PROVE AccInv'
<1>1. UNCHANGED <<role, sess, req, started, ended>> /\ user' = [user EXCEPT !.locked = FALSE]
  BY DEF LockEnds
<1>2. user' \in Users /\ user'.failed = user.failed
  BY <1>1, AccountKept DEF Users
<1>3. SessionsGrow
  BY <1>1, SessionsLeft
<1> QED
  BY <1>1, <1>2, <1>3, AccountKept, NoRequestKeeps

\* A session expires, or is idle for too long.
LEMMA SessionAgesKept == ASSUME AccInv, NEW s \in Sids, SessionAges(s) PROVE AccInv'
<1>1. /\ UNCHANGED <<role, user, req, started, ended>>
      /\ \/ sess' = [sess EXCEPT ![s].expired = TRUE]
         \/ sess' = [sess EXCEPT ![s].idle = TRUE]
  BY DEF SessionAges
<1>2. sess \in [Sids -> Sessions] /\ sess[s] \in Sessions /\ SecondFactorKept
  BY DEF AccInv, AccessTypes, AccTypeOK, Sessions
<1>3. ASSUME sess' = [sess EXCEPT ![s].expired = TRUE] PROVE SessionsGrow
  <2>1. PICK row : row = [sess[s] EXCEPT !.expired = TRUE]
    OBVIOUS
  <2>2. /\ row \in Sessions /\ row.st = sess[s].st /\ row.tenant = sess[s].tenant /\ row.expired
        /\ row.revoked = sess[s].revoked /\ row.pending = sess[s].pending
             /\ row.proved = sess[s].proved
    BY <1>2, <2>1 DEF Sessions
  <2>3. sess' = [sess EXCEPT ![s] = row]
    BY <1>2, <1>3, <2>1
  <2> QED
    BY <1>2, <2>2, <2>3, SessionWritten DEF SecondFactorKept
<1>4. ASSUME sess' = [sess EXCEPT ![s].idle = TRUE] PROVE SessionsGrow
  <2>1. PICK row : row = [sess[s] EXCEPT !.idle = TRUE]
    OBVIOUS
  <2>2. /\ row \in Sessions /\ row.st = sess[s].st /\ row.tenant = sess[s].tenant
        /\ row.expired = sess[s].expired
        /\ row.revoked = sess[s].revoked /\ row.pending = sess[s].pending
             /\ row.proved = sess[s].proved
    BY <1>2, <2>1 DEF Sessions
  <2>3. sess' = [sess EXCEPT ![s] = row]
    BY <1>2, <1>4, <2>1
  <2> QED
    BY <1>2, <2>2, <2>3, SessionWritten DEF SecondFactorKept
<1>5. SessionsGrow
  BY <1>1, <1>3, <1>4
<1> QED
  BY <1>1, <1>5, AccountKept, NoRequestKeeps

\* A request arrives with the cookie of a session that exists.
LEMMA RequestArrivesKept ==
  ASSUME AccInv, NEW q \in Reqs, NEW s \in Sids, NEW a \in AccKinds, NEW t \in Tenants,
         RequestArrives(q, s, a, t)
  PROVE  AccInv'
<1>1. /\ req[q].pc = "none" /\ started < MaxReqs /\ sess[s].st = "live" /\ started' = started + 1
      /\ UNCHANGED <<role, user, sess, ended>>
  BY DEF RequestArrives
<1>2. PICK r : r = [pc |-> "resolve", s |-> s, kind |-> a, target |-> t,
                    dead |-> sess[s].revoked \/ sess[s].expired, row |-> Free, u |-> NoUser]
  OBVIOUS
<1>3. Free \in Sessions
  BY DEF Free, Sessions, Tenants
<1>4. NoUser \in Users
  <2>1. 0 \in 0..MaxReqs
    BY AccAssumption
  <2> QED
    BY <2>1 DEF NoUser, Users
<1>5. r \in Visits /\ r.pc = "resolve" /\ r.s = s /\ (r.dead => sess[s].revoked \/ sess[s].expired)
  BY <1>2, <1>3, <1>4 DEF Visits
<1>6. r \notin Logins
  BY <1>5 DEF Logins
<1>7. VisitTrue(r)'
  BY <1>1, <1>5 DEF VisitTrue
<1>8. started' \in 0..MaxReqs /\ started <= started' /\ user' \in Users /\ user'.failed <= started'
  BY <1>1, AccountKept, AccAssumption
<1>9. SessionsGrow /\ Put(q, r)
  BY <1>1, <1>2, SessionsLeft DEF RequestArrives
<1> QED
  BY <1>1, <1>5, <1>6, <1>7, <1>8, <1>9, OneRequest

\* A visit goes on with its session and what it read.
LEMMA VisitGoesOn ==
  ASSUME AccInv, NEW q \in Reqs, req[q].pc # "revoke", NEW r \in Visits, Put(q, r), SessionsGrow,
         VisitTrue(r)', UNCHANGED <<role, user, started, ended>>
  PROVE  AccInv'
<1>1. r \notin Logins
  BY DEF Visits, Logins
<1>2. user' \in Users /\ user'.failed <= started' /\ started' \in 0..MaxReqs /\ started <= started'
  BY AccountKept
<1> QED
  BY <1>1, <1>2, OneRequest

\* resolveSession reads the session's row and turns the dead away.
LEMMA ResolveSessionKept == ASSUME AccInv, NEW q \in Reqs, resolveSession(q) PROVE AccInv'
<1>1. req[q].pc = "resolve" /\ UNCHANGED <<role, user, started, ended>>
  BY DEF resolveSession
<1>2. /\ req[q] \in Visits /\ VisitTrue(req[q]) /\ req[q].s \in Sids
      /\ sess[req[q].s] \in Sessions /\ sess[req[q].s].st = "live"
  BY <1>1, VisitIs
<1>3. CASE Done(q) /\ UNCHANGED sess
  BY <1>1, <1>3, SessionsLeft, AccountKept, RequestEnds
<1>4. CASE Done(q) /\ sess' = revokeSession(req[q].s)
  BY <1>1, <1>2, <1>4, Revoked, AccountKept, RequestEnds
<1>5. CASE /\ ~(sess[req[q].s].revoked \/ sess[req[q].s].expired) /\ UNCHANGED sess
           /\ Put(q, [req[q] EXCEPT !.pc = "user", !.row = sess[req[q].s]])
  <2>1. PICK r : r = [req[q] EXCEPT !.pc = "user", !.row = sess[req[q].s]]
    OBVIOUS
  <2>2. /\ r \in Visits /\ r.pc = "user" /\ r.row = sess[req[q].s] /\ r.s = req[q].s
        /\ r.dead = req[q].dead
    BY <1>2, <2>1 DEF Visits
  <2>3. ~r.dead
    BY <1>2, <1>5, <2>2 DEF VisitTrue
  <2>4. VisitTrue(r)'
    BY <1>2, <1>5, <2>2, <2>3 DEF VisitTrue
  <2> QED
    BY <1>1, <1>5, <2>1, <2>2, <2>4, SessionsLeft, VisitGoesOn
<1> QED
  BY <1>1, <1>3, <1>4, <1>5 DEF resolveSession

\* The account's row is read next.
LEMMA GetUserKept == ASSUME AccInv, NEW q \in Reqs, getUserById(q) PROVE AccInv'
<1>1. /\ req[q].pc = "user" /\ UNCHANGED <<role, user, sess, started, ended>>
      /\ Put(q, [req[q] EXCEPT !.pc = "touch", !.u = user])
  BY DEF getUserById
<1>2. req[q] \in Visits /\ VisitTrue(req[q]) /\ user \in Users
  BY <1>1, VisitIs, AccountKept
<1>3. PICK r : r = [req[q] EXCEPT !.pc = "touch", !.u = user]
  OBVIOUS
<1>4. /\ r \in Visits /\ r.pc = "touch" /\ r.row = req[q].row /\ r.s = req[q].s
      /\ r.dead = req[q].dead
  BY <1>2, <1>3 DEF Visits
<1>5. VisitTrue(r)'
  BY <1>1, <1>2, <1>4 DEF VisitTrue
<1> QED
  BY <1>1, <1>3, <1>4, <1>5, SessionsLeft, VisitGoesOn

\* touchSession writes the time it was last seen.
LEMMA TouchKept == ASSUME AccInv, NEW q \in Reqs, touchSession(q) PROVE AccInv'
<1>1. /\ req[q].pc = "touch" /\ UNCHANGED <<role, user, started, ended>>
      /\ sess' = [sess EXCEPT ![req[q].s].idle = FALSE]
      /\ Put(q, [req[q] EXCEPT !.pc = "check"])
  BY DEF touchSession
<1>2. /\ req[q] \in Visits /\ VisitTrue(req[q]) /\ req[q].s \in Sids
      /\ sess[req[q].s] \in Sessions /\ sess[req[q].s].st = "live"
      /\ sess \in [Sids -> Sessions] /\ SecondFactorKept
  BY <1>1, VisitIs DEF AccInv, AccessTypes, AccTypeOK, Sessions
<1>3. PICK row : row = [sess[req[q].s] EXCEPT !.idle = FALSE]
  OBVIOUS
<1>4. /\ row \in Sessions /\ row.st = "live" /\ row.tenant = sess[req[q].s].tenant
      /\ row.expired = sess[req[q].s].expired /\ row.revoked = sess[req[q].s].revoked
      /\ row.pending = sess[req[q].s].pending /\ row.proved = sess[req[q].s].proved
  BY <1>2, <1>3 DEF Sessions
<1>5. sess' = [sess EXCEPT ![req[q].s] = row]
  BY <1>1, <1>2, <1>3
<1>6. SessionsGrow
  BY <1>2, <1>4, <1>5, SessionWritten DEF SecondFactorKept
<1>7. PICK r : r = [req[q] EXCEPT !.pc = "check"]
  OBVIOUS
<1>8. /\ r \in Visits /\ r.pc = "check" /\ r.row = req[q].row /\ r.s = req[q].s
      /\ r.dead = req[q].dead
  BY <1>2, <1>7 DEF Visits
<1>9. VisitTrue(r)'
  BY <1>1, <1>2, <1>6, <1>8 DEF VisitTrue, SessionsGrow
<1> QED
  BY <1>1, <1>6, <1>7, <1>8, <1>9, VisitGoesOn

\* The middlewares let through whom the rows they were given allow.
LEMMA MiddlewareKept == ASSUME AccInv, NEW q \in Reqs, middleware(q) PROVE AccInv'
<1>1. req[q].pc = "check" /\ UNCHANGED <<role, user, started, ended>>
  BY DEF middleware
<1>2. /\ req[q] \in Visits /\ VisitTrue(req[q]) /\ req[q].s \in Sids
      /\ sess[req[q].s] \in Sessions /\ sess[req[q].s].st = "live"
  BY <1>1, VisitIs
<1>3. CASE Done(q) /\ UNCHANGED sess
  BY <1>1, <1>3, SessionsLeft, AccountKept, RequestEnds
<1>4. CASE Done(q) /\ sess' = revokeSession(req[q].s)
  BY <1>1, <1>2, <1>4, Revoked, AccountKept, RequestEnds
<1>5. CASE /\ TenantAllowed(req[q]) /\ UNCHANGED sess
           /\ Put(q, [req[q] EXCEPT !.pc = "served"])
  <2>1. PICK r : r = [req[q] EXCEPT !.pc = "served"]
    OBVIOUS
  <2>2. /\ r \in Visits /\ r.pc = "served" /\ r.row = req[q].row /\ r.s = req[q].s
        /\ r.dead = req[q].dead /\ r.target = req[q].target
    BY <1>2, <2>1 DEF Visits
  <2>3. VisitTrue(r)'
    BY <1>1, <1>2, <1>5, <2>2 DEF VisitTrue, TenantAllowed, PlatformAdmin
  <2> QED
    BY <1>1, <1>5, <2>1, <2>2, <2>3, SessionsLeft, VisitGoesOn
<1> QED
  BY <1>1, <1>3, <1>4, <1>5 DEF middleware

\* The second factor is proved: the row it leaves is one with it.
LEMMA Proved ==
  ASSUME AccInv, NEW s \in Sids, sess[s].st = "live", sess' = setSessionTotpPending(s)
  PROVE  SessionsGrow
<1>1. sess \in [Sids -> Sessions] /\ sess[s] \in Sessions
  BY DEF AccInv, AccessTypes, AccTypeOK, Sessions
<1>2. PICK row : row = [sess[s] EXCEPT !.pending = FALSE, !.proved = TRUE]
  OBVIOUS
<1>3. /\ row \in Sessions /\ row.st = sess[s].st /\ row.tenant = sess[s].tenant
      /\ row.expired = sess[s].expired /\ row.revoked = sess[s].revoked /\ row.proved
  BY <1>1, <1>2 DEF Sessions
<1>4. sess' = [sess EXCEPT ![s] = row]
  BY <1>1, <1>2 DEF setSessionTotpPending
<1> QED
  BY <1>3, <1>4, SessionWritten

\* A code of the authenticator or of recovery completes a session.
LEMMA CodesKept ==
  ASSUME AccInv, NEW q \in Reqs, NEW ok \in BOOLEAN, postTotp(q, ok) \/ postRecovery(q, ok)
  PROVE  AccInv'
<1>1. /\ req[q].pc = "check" /\ Done(q) /\ UNCHANGED <<role, user, started, ended>>
      /\ sess' = setSessionTotpPending(req[q].s) \/ UNCHANGED sess
  BY DEF postTotp, postRecovery
<1>2. req[q].s \in Sids /\ sess[req[q].s].st = "live"
  BY <1>1, VisitIs
<1>3. SessionsGrow
  BY <1>1, <1>2, Proved, SessionsLeft
<1> QED
  BY <1>1, <1>3, AccountKept, RequestEnds

\* A logout revokes the session of its cookie.
LEMMA LogoutKept == ASSUME AccInv, NEW q \in Reqs, postLogout(q) PROVE AccInv'
<1>1. /\ req[q].pc = "check" /\ Put(q, NoReq) /\ UNCHANGED <<role, user, started>>
      /\ sess' = revokeSession(req[q].s) /\ ended' = ended \cup {req[q].s}
  BY DEF postLogout, Done
<1>2. req[q].s \in Sids /\ sess[req[q].s].st = "live"
  BY <1>1, VisitIs
<1>3. SessionsGrow /\ sess'[req[q].s].revoked
  BY <1>1, <1>2, Revoked
<1>4. ended \subseteq Sids /\ req \in [Reqs -> {NoReq} \cup Logins \cup Visits]
  BY DEF AccInv, AccessTypes, AccTypeOK
<1>5. \A x \in Reqs : req[x].pc = "revoke" => req'[x] = req[x]
  BY <1>1, <1>4 DEF Put
<1>6. EndedAreRevoked'
  BY <1>1, <1>2, <1>3, <1>4, <1>5 DEF AccInv, EndedAreRevoked, SessionsGrow
<1>7. /\ user' \in Users /\ user'.failed <= started' /\ started' \in 0..MaxReqs
      /\ started <= started' /\ ended' \subseteq Sids
  BY <1>1, <1>2, <1>4, AccountKept
<1> QED
  BY <1>1, <1>3, <1>6, <1>7, NoReqIsNone, RequestKeeps

\* A page is served; the account's own pages refuse a pending session.
LEMMA PagesKept ==
  ASSUME AccInv, NEW q \in Reqs, pageDone(q) \/ accountRejected(q) PROVE AccInv'
<1>1. req[q].pc = "served" /\ Done(q) /\ UNCHANGED <<role, user, sess, started, ended>>
  BY DEF pageDone, accountRejected
<1> QED
  BY <1>1, SessionsLeft, AccountKept, RequestEnds

\* A new password is stored, then every other session revoked.
LEMMA ChangePasswordKept ==
  ASSUME AccInv, NEW q \in Reqs, NEW pw \in {0, MaxPw}, changePassword(q, pw) PROVE AccInv'
<1>1. req[q].pc = "served" /\ UNCHANGED <<role, sess, started>>
  BY DEF changePassword, accountAllowed
<1>2. SessionsGrow
  BY <1>1, SessionsLeft
<1>3. CASE Done(q) /\ UNCHANGED <<user, ended>>
  BY <1>1, <1>2, <1>3, AccountKept, RequestEnds
<1>4. CASE /\ user' = [user EXCEPT !.pw = MaxPw]
           /\ Put(q, [req[q] EXCEPT !.pc = "revoke"])
           /\ ended' = ended \cup {s \in Sids : sess[s].st = "live"}
  <2>1. req[q] \in Visits /\ VisitTrue(req[q])
    BY <1>1, VisitIs
  <2>2. PICK r : r = [req[q] EXCEPT !.pc = "revoke"]
    OBVIOUS
  <2>3. /\ r \in Visits /\ r.pc = "revoke" /\ r.row = req[q].row /\ r.s = req[q].s
        /\ r.dead = req[q].dead
    BY <2>1, <2>2 DEF Visits
  <2>4. r \notin Logins /\ Put(q, r)
    BY <1>4, <2>2, <2>3 DEF Visits, Logins
  <2>5. VisitTrue(r)'
    BY <1>1, <2>1, <2>3 DEF VisitTrue
  <2>6. user' \in Users /\ user'.failed = user.failed
    BY <1>4, AccountKept DEF Users
  <2>7. /\ ended \subseteq Sids /\ req \in [Reqs -> {NoReq} \cup Logins \cup Visits]
    BY DEF AccInv, AccessTypes, AccTypeOK
  <2>8. req'[q].pc = "revoke" /\ ended' \subseteq Sids
    BY <1>4, <2>3, <2>4, <2>7 DEF Put
  <2>9. EndedAreRevoked'
    BY <1>1, <1>4, <2>8 DEF AccInv, EndedAreRevoked
  <2> QED
    BY <1>1, <1>2, <2>3, <2>4, <2>5, <2>6, <2>8, <2>9, AccountKept, RequestKeeps
<1> QED
  BY <1>3, <1>4 DEF changePassword

\* The revocation a password change owes reaches every session of the tenant,
\* those that requests in progress resolved before it too.
LEMMA RevokeAllKept == ASSUME AccInv, NEW q \in Reqs, revokeAllSessions(q) PROVE AccInv'
<1>1. /\ req[q].pc = "revoke" /\ Put(q, NoReq) /\ UNCHANGED <<role, user, started, ended>>
      /\ sess' = [s \in Sids |->
           IF sess[s].st = "live" /\ (role = "admin" \/ sess[s].tenant = "default")
             THEN [sess[s] EXCEPT !.revoked = TRUE] ELSE sess[s]]
  BY DEF revokeAllSessions, Done
<1>2. sess \in [Sids -> Sessions] /\ SecondFactorKept /\ ended \subseteq Sids
  BY DEF AccInv, AccessTypes, AccTypeOK, Sessions
<1>3. ASSUME NEW s \in Sids
      PROVE  /\ sess'[s] \in Sessions /\ sess'[s].st = sess[s].st
             /\ sess'[s].tenant = sess[s].tenant /\ sess'[s].expired = sess[s].expired
             /\ sess'[s].pending = sess[s].pending /\ sess'[s].proved = sess[s].proved
             /\ sess[s].revoked => sess'[s].revoked
             /\ sess[s].st = "live" /\ sess[s].tenant = "default" => sess'[s].revoked
  <2>1. sess[s] \in Sessions
    BY <1>2
  <2>2. CASE sess'[s] = sess[s] /\ ~(sess[s].st = "live" /\ sess[s].tenant = "default")
    BY <2>1, <2>2
  <2>3. CASE sess'[s] = [sess[s] EXCEPT !.revoked = TRUE]
    BY <2>1, <2>3 DEF Sessions
  <2> QED
    BY <1>1, <2>2, <2>3
<1>4. sess' \in [Sids -> Sessions]
  BY <1>1, <1>3
<1>5. SessionsGrow
  BY <1>2, <1>3, <1>4 DEF SessionsGrow, SecondFactorKept
<1>6. EndedAreRevoked'
  BY <1>1, <1>2, <1>3 DEF AccInv, EndedAreRevoked
<1>7. /\ user' \in Users /\ user'.failed <= started' /\ started' \in 0..MaxReqs
      /\ started <= started' /\ ended' \subseteq Sids
  BY <1>1, <1>2, AccountKept
<1> QED
  BY <1>1, <1>5, <1>6, <1>7, NoReqIsNone, RequestKeeps

\* The second factor is prepared, confirmed or removed.
LEMMA TotpKept ==
  ASSUME AccInv, NEW q \in Reqs,
         \/ totpBegin(q)
         \/ \E ok \in BOOLEAN : totpConfirm(q, ok)
         \/ \E pw \in {0, MaxPw} : totpDisable(q, pw)
  PROVE  AccInv'
<1>1. req[q].pc = "served" /\ Done(q) /\ UNCHANGED <<role, sess, started, ended>>
  BY DEF totpBegin, totpConfirm, totpDisable, accountAllowed
<1>2. \/ user' = user \/ user' = [user EXCEPT !.secret = TRUE]
      \/ user' = [user EXCEPT !.totp = TRUE]
      \/ user' = [user EXCEPT !.totp = FALSE, !.secret = FALSE]
  BY DEF totpBegin, totpConfirm, totpDisable
<1>3. user' \in Users /\ user'.failed = user.failed
  BY <1>2, AccountKept DEF Users
<1>4. user'.failed <= started
  BY <1>3, AccountKept
<1> QED
  BY <1>1, <1>3, <1>4, SessionsLeft, RequestEnds

\* Every step keeps the invariant.
LEMMA AccessStepKept == ASSUME AccInv, [AccNext]_accVars PROVE AccInv'
<1>1. CASE UNCHANGED accVars
  BY <1>1, SessionsLeft, AccountKept, NoRequestKeeps DEF accVars
<1>2. CASE AccNext
  BY <1>2, LockEndsKept, SessionAgesKept, LoginReadKept, LoginFailedKept, LoginValidKept,
     CreateSessionKept, RequestArrivesKept, ResolveSessionKept, GetUserKept, TouchKept,
     MiddlewareKept, CodesKept, LogoutKept, PagesKept, ChangePasswordKept, RevokeAllKept,
     TotpKept DEF AccNext
<1> QED
  BY <1>1, <1>2

\* The invariant says more than the claims the runs check.
LEMMA AccessInvSafe == AccInv => AccessSafe
<1> SUFFICES ASSUME AccInv PROVE AccessSafe
  OBVIOUS
<1>1. ASSUME NEW q \in Reqs, req[q].pc = "served"
      PROVE  /\ ~req[q].dead
             /\ \/ req[q].target = sess[req[q].s].tenant
                \/ role = "admin" /\ sess[req[q].s].tenant = "default"
  <2>1. VisitTrue(req[q])
    BY <1>1, VisitIs
  <2> QED
    BY <1>1, <2>1 DEF VisitTrue, TenantAllowed, PlatformAdmin
<1>2. ServedOnlyLive /\ TenantBoundary
  BY <1>1 DEF ServedOnlyLive, TenantBoundary
<1>3. EndedMeansRevoked
  BY DEF AccInv, EndedAreRevoked, EndedMeansRevoked
<1> QED
  BY <1>2, <1>3 DEF AccInv, AccessTypes, AccessSafe

\* For any number of sessions, overlapping requests and tenants: a session skips
\* no second factor, an ended one serves no later request and is not brought back
\* by a request that read it before, and only an administrator of the default
\* tenant is served in another tenant.
THEOREM AccessStaysSafe == AccSpec => []AccessSafe
<1>1. AccSpec => []AccInv
  BY AccInitially, AccessStepKept, PTL DEF AccSpec
<1> QED
  BY <1>1, AccessInvSafe, PTL

-----------------------------------------------------------------------------
(* DisplaySession: what an open display socket of a viewer lives on *)

DvTypes ==
  /\ vrow \in [enabled : BOOLEAN, key : Keys, pages : SUBSET DvPages]
  /\ vflows \in [DvWidgets -> DvPages]
  /\ \A c \in jar : c.asker \in Keys /\ c.key \in Keys
  /\ asking \in [at : {"none", "verified", "profile"}, asker : Keys, key : Keys]
  /\ check \in [at : {"none", "kiosk", "pages", "sign", "scope"}, asker : Keys, key : Keys,
                began : Nat, pages : SUBSET DvPages, expires : Nat,
                page : DvPages \cup {NoCheck.page}]
  /\ sock \in [open : BOOLEAN, key : Keys, began : Nat, pages : SUBSET DvPages, expires : Nat,
               base : SUBSET (DvWidgets \X DvPages), widgets : SUBSET DvWidgets]
  /\ vclock \in Nat /\ vedits \in 0..MaxDvEdits
  /\ keyOk \in [Keys -> Nat] /\ pageOk \in [DvPages -> Nat]

\* The ghosts are up to date: what is authorised now was authorised last now.
RecordsTrue ==
  /\ vrow.enabled => keyOk[vrow.key] = vclock
  /\ \A p \in vrow.pages : pageOk[p] = vclock
  /\ \A k \in Keys : keyOk[k] <= vclock
  /\ \A p \in DvPages : pageOk[p] <= vclock

\* Each stage of a check has read something that was true since it began.
CheckTrue ==
  /\ check.began <= vclock
  /\ check.at \in {"pages", "sign", "scope"} => keyOk[check.key] >= check.began
  /\ check.at \in {"sign", "scope"} => \A p \in check.pages : pageOk[p] >= check.began

\* The socket lives on what its check read, and lets through no widget of
\* another page.
SockTrue ==
  /\ sock.open => /\ keyOk[sock.key] >= sock.began
                  /\ \A p \in sock.pages : pageOk[p] >= sock.began
  /\ \A m \in sock.base : m[1] \in sock.widgets => m[2] \in sock.pages

DvInv == DvTypes /\ RecordsTrue /\ CheckTrue /\ SockTrue

\* Time and changes only move the ghosts forward.
RecordsGrow ==
  /\ keyOk' \in [Keys -> Nat] /\ \A k \in Keys : keyOk'[k] >= keyOk[k]
  /\ pageOk' \in [DvPages -> Nat] /\ \A p \in DvPages : pageOk'[p] >= pageOk[p]

\* What holds before the viewer has asked for anything.
LEMMA DvInitially == DvInit => DvInv
<1> SUFFICES ASSUME DvInit PROVE DvInv
  OBVIOUS
<1>1. 0 \in Keys
  BY DvAssumption DEF Keys
<1>2. vrow = [enabled |-> TRUE, key |-> 0, pages |-> DvPages] /\ vclock = 1 /\ vedits = 0
      /\ jar = {} /\ asking = NoAsk /\ check = NoCheck /\ sock = NoSock
      /\ vflows \in [DvWidgets -> DvPages]
  BY DEF DvInit
<1>3. /\ keyOk = [k \in Keys |-> IF k = 0 THEN 1 ELSE Never]
      /\ pageOk = [p \in DvPages |-> 1]
  BY <1>2 DEF DvInit
<1>4. /\ NoAsk \in [at : {"none", "verified", "profile"}, asker : Keys, key : Keys]
      /\ NoSock \in [open : BOOLEAN, key : Keys, began : Nat, pages : SUBSET DvPages, expires : Nat,
                     base : SUBSET (DvWidgets \X DvPages), widgets : SUBSET DvWidgets]
      /\ NoSock.open = FALSE /\ NoSock.base = {}
  BY <1>1 DEF NoAsk, NoSock
<1>5. /\ NoCheck \in [at : {"none", "kiosk", "pages", "sign", "scope"}, asker : Keys, key : Keys,
                      began : Nat, pages : SUBSET DvPages, expires : Nat,
                      page : DvPages \cup {NoCheck.page}]
      /\ NoCheck.at = "none" /\ NoCheck.began = 0
  BY <1>1 DEF NoCheck
<1>6. DvTypes
  BY <1>1, <1>2, <1>3, <1>4, <1>5, DvAssumption DEF DvTypes, Never
<1>7. RecordsTrue
  BY <1>1, <1>2, <1>3 DEF RecordsTrue, Never
<1> QED
  BY <1>2, <1>4, <1>5, <1>6, <1>7 DEF DvInv, CheckTrue, SockTrue

\* A step that changes no cookie, check or socket keeps them.
LEMMA RestStays ==
  ASSUME DvInv, RecordsGrow, RecordsTrue', UNCHANGED <<jar, asking, check, sock>>,
         vrow' \in [enabled : BOOLEAN, key : Keys, pages : SUBSET DvPages],
         vflows' \in [DvWidgets -> DvPages], vclock' \in Nat, vclock <= vclock',
         vedits' \in 0..MaxDvEdits
  PROVE  DvInv'
<1>1. DvTypes'
  BY DEF DvInv, DvTypes, RecordsGrow
<1>2. /\ check.key \in Keys /\ check.began \in Nat /\ check.pages \subseteq DvPages
      /\ sock.key \in Keys /\ sock.began \in Nat /\ sock.pages \subseteq DvPages
      /\ vclock \in Nat
  BY DEF DvInv, DvTypes
<1>3. keyOk \in [Keys -> Nat] /\ pageOk \in [DvPages -> Nat]
  BY DEF DvInv, DvTypes
<1>4. CheckTrue'
  BY <1>2, <1>3 DEF DvInv, CheckTrue, RecordsGrow
<1>5. SockTrue'
  BY <1>2, <1>3 DEF DvInv, SockTrue, RecordsGrow
<1> QED
  BY <1>1, <1>4, <1>5 DEF DvInv

\* The ghosts after a row is written, now or at the next tick.
LEMMA Recorded ==
  ASSUME DvInv, NEW row \in [enabled : BOOLEAN, key : Keys, pages : SUBSET DvPages],
         NEW now \in Nat, vclock <= now, vrow' = row, vclock' = now, Record(row, now)
  PROVE  RecordsGrow /\ RecordsTrue'
<1>1. /\ keyOk' = [k \in Keys |-> IF row.enabled /\ row.key = k THEN now ELSE keyOk[k]]
      /\ pageOk' = [p \in DvPages |-> IF p \in row.pages THEN now ELSE pageOk[p]]
  BY DEF Record
<1>2. /\ keyOk \in [Keys -> Nat] /\ pageOk \in [DvPages -> Nat] /\ vclock \in Nat
      /\ \A k \in Keys : keyOk[k] <= vclock
      /\ \A p \in DvPages : pageOk[p] <= vclock
  BY DEF DvInv, DvTypes, RecordsTrue
<1>3. \A k \in Keys : keyOk'[k] \in Nat /\ keyOk'[k] >= keyOk[k] /\ keyOk'[k] <= now
  BY <1>1, <1>2
<1>4. \A p \in DvPages : pageOk'[p] \in Nat /\ pageOk'[p] >= pageOk[p] /\ pageOk'[p] <= now
  BY <1>1, <1>2
<1>5. RecordsGrow
  BY <1>1, <1>3, <1>4 DEF RecordsGrow
<1>6. row.enabled => keyOk'[row.key] = now
  BY <1>1
<1>7. \A p \in row.pages : pageOk'[p] = now
  BY <1>1
<1> QED
  BY <1>3, <1>4, <1>5, <1>6, <1>7 DEF RecordsTrue

\* A second passes: what is still authorised is authorised now as well.
LEMMA TickKept == ASSUME DvInv, Tick PROVE DvInv'
<1>1. /\ vclock' = vclock + 1 /\ Record(vrow, vclock + 1)
      /\ UNCHANGED <<vrow, vtenant, vflows, jar, asking, check, sock, vedits>>
  BY DEF Tick
<1>2. /\ vclock \in Nat /\ vrow \in [enabled : BOOLEAN, key : Keys, pages : SUBSET DvPages]
      /\ vflows \in [DvWidgets -> DvPages] /\ vedits \in 0..MaxDvEdits
  BY DEF DvInv, DvTypes
<1>3. vclock + 1 \in Nat /\ vclock <= vclock + 1
  BY <1>2
<1>4. RecordsGrow /\ RecordsTrue'
  BY <1>1, <1>2, <1>3, Recorded
<1> QED
  BY <1>1, <1>2, <1>3, <1>4, RestStays

\* An administrator's change of the kiosk's row is recorded as of now ...
LEMMA EditKept ==
  ASSUME DvInv, NEW row \in [enabled : BOOLEAN, key : Keys, pages : SUBSET DvPages], Edit(row)
  PROVE  DvInv'
<1>1. /\ vedits < MaxDvEdits /\ vedits' = vedits + 1 /\ vrow' = row /\ Record(row, vclock)
      /\ UNCHANGED <<vtenant, vflows, jar, asking, check, sock, vclock>>
  BY DEF Edit
<1>2. vclock \in Nat /\ vflows \in [DvWidgets -> DvPages] /\ vedits \in 0..MaxDvEdits
  BY DEF DvInv, DvTypes
<1>3. vedits' \in 0..MaxDvEdits /\ vclock <= vclock
  BY <1>1, <1>2, DvAssumption
<1>4. RecordsGrow /\ RecordsTrue'
  BY <1>1, <1>2, <1>3, Recorded
<1> QED
  BY <1>1, <1>2, <1>3, <1>4, RestStays

\* ... whichever column it changes.
LEMMA EditsKept ==
  ASSUME DvInv, SetEnabled \/ replaceKioskKey \/ \E ps \in SUBSET DvPages : Reassign(ps)
  PROVE  DvInv'
<1>1. vrow \in [enabled : BOOLEAN, key : Keys, pages : SUBSET DvPages] /\ vedits \in 0..MaxDvEdits
  BY DEF DvInv, DvTypes
<1>2. CASE SetEnabled
  <2>1. [vrow EXCEPT !.enabled = ~@] \in [enabled : BOOLEAN, key : Keys, pages : SUBSET DvPages]
    BY <1>1
  <2> QED
    BY <1>2, <2>1, EditKept DEF SetEnabled
<1>3. CASE replaceKioskKey
  <2>1. vedits + 1 \in Keys
    BY <1>1, <1>3, DvAssumption DEF replaceKioskKey, Edit, Keys
  <2>2. [vrow EXCEPT !.key = vedits + 1] \in [enabled : BOOLEAN, key : Keys, pages : SUBSET DvPages]
    BY <1>1, <2>1
  <2> QED
    BY <1>3, <2>2, EditKept DEF replaceKioskKey
<1>4. CASE \E ps \in SUBSET DvPages : Reassign(ps)
  <2>1. PICK ps \in SUBSET DvPages : Reassign(ps)
    BY <1>4
  <2>2. [vrow EXCEPT !.pages = ps] \in [enabled : BOOLEAN, key : Keys, pages : SUBSET DvPages]
    BY <1>1
  <2> QED
    BY <2>1, <2>2, EditKept DEF Reassign
<1> QED
  BY <1>2, <1>3, <1>4

\* Nothing moves when the row, the clock and the ghosts are left alone.
LEMMA RecordsStay ==
  ASSUME DvInv, UNCHANGED <<vrow, vclock, keyOk, pageOk>>
  PROVE  /\ RecordsGrow /\ RecordsTrue'
         /\ vrow \in [enabled : BOOLEAN, key : Keys, pages : SUBSET DvPages]
         /\ vflows \in [DvWidgets -> DvPages] /\ vclock \in Nat /\ vedits \in 0..MaxDvEdits
         /\ vclock <= vclock
<1>1. keyOk \in [Keys -> Nat] /\ pageOk \in [DvPages -> Nat] /\ vclock \in Nat
  BY DEF DvInv, DvTypes
<1>2. RecordsGrow
  BY <1>1 DEF RecordsGrow
<1> QED
  BY <1>1, <1>2 DEF DvInv, DvTypes, RecordsTrue

\* A tenant is deactivated, or a flow moves a widget to another page.
LEMMA ChangesKept ==
  ASSUME DvInv, DeactivateTenant \/ \E w \in DvWidgets, p \in DvPages : Redeploy(w, p)
  PROVE  DvInv'
<1>1. /\ UNCHANGED <<vrow, jar, asking, check, sock, vclock, keyOk, pageOk>>
      /\ vedits < MaxDvEdits /\ vedits' = vedits + 1
      /\ vflows' = vflows \/ \E w \in DvWidgets, p \in DvPages : vflows' = [vflows EXCEPT ![w] = p]
  BY DEF DeactivateTenant, Redeploy
<1>2. vedits' \in 0..MaxDvEdits
  BY <1>1, DvAssumption DEF DvInv, DvTypes
<1>3. vflows' \in [DvWidgets -> DvPages]
  BY <1>1 DEF DvInv, DvTypes
<1> QED
  BY <1>1, <1>2, <1>3, RecordsStay, RestStays

\* What a request for a cookie, a check and the socket write.
LEMMA RequestKept ==
  ASSUME DvInv, UNCHANGED <<vrow, vflows, vclock, vedits, keyOk, pageOk>>,
         \A c \in jar' : c.asker \in Keys /\ c.key \in Keys,
         asking' \in [at : {"none", "verified", "profile"}, asker : Keys, key : Keys],
         check' \in [at : {"none", "kiosk", "pages", "sign", "scope"}, asker : Keys, key : Keys,
                     began : Nat, pages : SUBSET DvPages, expires : Nat,
                     page : DvPages \cup {NoCheck.page}],
         sock' \in [open : BOOLEAN, key : Keys, began : Nat, pages : SUBSET DvPages, expires : Nat,
                    base : SUBSET (DvWidgets \X DvPages), widgets : SUBSET DvWidgets],
         CheckTrue', SockTrue'
  PROVE  DvInv'
<1>1. DvTypes'
  BY DEF DvInv, DvTypes
<1> QED
  BY <1>1, RecordsStay DEF DvInv

\* The device asks for a display session and gets its cookie.
LEMMA CookieKept ==
  ASSUME DvInv, (\E k \in Keys : DeviceAsks(k)) \/ ReadProfile \/ IssueCookie
  PROVE  DvInv'
<1>1. UNCHANGED <<vrow, vflows, check, sock, vclock, vedits, keyOk, pageOk>>
  BY DEF DeviceAsks, ReadProfile, IssueCookie
<1>2. /\ asking \in [at : {"none", "verified", "profile"}, asker : Keys, key : Keys]
      /\ \A c \in jar : c.asker \in Keys /\ c.key \in Keys
      /\ vrow.key \in Keys
  BY DEF DvInv, DvTypes
<1>3. NoAsk \in [at : {"none", "verified", "profile"}, asker : Keys, key : Keys]
  BY DvAssumption DEF NoAsk, Keys
<1>4. /\ asking' \in [at : {"none", "verified", "profile"}, asker : Keys, key : Keys]
      /\ \A c \in jar' : c.asker \in Keys /\ c.key \in Keys
  <2>1. ASSUME NEW k \in Keys, DeviceAsks(k)
        PROVE  /\ asking' \in [at : {"none", "verified", "profile"}, asker : Keys, key : Keys]
               /\ jar' = jar
    BY <2>1 DEF DeviceAsks
  <2>2. CASE ReadProfile
    <3>1. jar' = jar /\ (asking' = NoAsk \/ asking' = [asking EXCEPT !.at = "profile",
            !.key = vrow.key])
      BY <2>2 DEF ReadProfile
    <3> QED
      BY <1>2, <1>3, <3>1
  <2>3. CASE IssueCookie
    <3>1. asking' = NoAsk
      BY <2>3 DEF IssueCookie
    <3>2. \A c \in jar' : c \in jar \/ (c.asker = asking.asker /\ c.key = asking.key)
      BY <2>3 DEF IssueCookie
    <3> QED
      BY <1>2, <1>3, <3>1, <3>2
  <2> QED
    BY <1>2, <2>1, <2>2, <2>3
<1>5. CheckTrue' /\ SockTrue'
  BY <1>1 DEF DvInv, CheckTrue, SockTrue
<1> QED
  BY <1>1, <1>4, <1>5, RequestKept DEF DvInv, DvTypes

\* A check that ended says nothing.
LEMMA NoCheckTrue ==
  ASSUME DvInv, check' = NoCheck, UNCHANGED vclock
  PROVE  CheckTrue' /\ check' \in [at : {"none", "kiosk", "pages", "sign", "scope"}, asker : Keys,
                                   key : Keys, began : Nat, pages : SUBSET DvPages, expires : Nat,
                                   page : DvPages \cup {NoCheck.page}]
<1>1. 0 \in Keys
  BY DvAssumption DEF Keys
<1>2. NoCheck.at = "none" /\ NoCheck.began = 0
  BY DEF NoCheck
<1>3. check' \in [at : {"none", "kiosk", "pages", "sign", "scope"}, asker : Keys,
                  key : Keys, began : Nat, pages : SUBSET DvPages, expires : Nat,
                  page : DvPages \cup {NoCheck.page}]
  BY <1>1 DEF NoCheck
<1>4. vclock \in Nat
  BY DEF DvInv, DvTypes
<1> QED
  BY <1>2, <1>3, <1>4 DEF CheckTrue

\* A check reads the kiosk's key, then its pages, then signs the scope.
LEMMA CheckKept ==
  ASSUME DvInv, \/ \E c \in jar, p \in DvPages : CheckBegins(c, p)
                \/ CheckKiosk \/ CheckPages \/ signDisplayScope
  PROVE  DvInv'
<1>1. UNCHANGED <<vrow, vflows, jar, asking, sock, vclock, vedits, keyOk, pageOk>>
  BY DEF CheckBegins, CheckKiosk, CheckPages, signDisplayScope
<1>2. SockTrue'
  BY <1>1 DEF DvInv, SockTrue
<1>3. PICK c : c = check
  OBVIOUS
<1>4. /\ c \in [at : {"none", "kiosk", "pages", "sign", "scope"}, asker : Keys, key : Keys,
                began : Nat, pages : SUBSET DvPages, expires : Nat,
                page : DvPages \cup {NoCheck.page}]
      /\ vclock \in Nat
  BY <1>3 DEF DvInv, DvTypes
<1>5. PICK d : d = check'
  OBVIOUS
<1>6. /\ d \in [at : {"none", "kiosk", "pages", "sign", "scope"}, asker : Keys, key : Keys,
                began : Nat, pages : SUBSET DvPages, expires : Nat,
                page : DvPages \cup {NoCheck.page}]
      /\ CheckTrue'
  <2>1. CASE d = NoCheck
    BY <1>1, <1>5, <2>1, NoCheckTrue
  <2>2. ASSUME NEW j \in jar, NEW p \in DvPages, CheckBegins(j, p)
        PROVE  /\ d \in [at : {"none", "kiosk", "pages", "sign", "scope"}, asker : Keys, key : Keys,
                         began : Nat, pages : SUBSET DvPages, expires : Nat,
                         page : DvPages \cup {NoCheck.page}]
               /\ d.at = "kiosk" /\ d.began = vclock
    <3>1. j.asker \in Keys /\ j.key \in Keys
      BY DEF DvInv, DvTypes
    <3>2. d = [NoCheck EXCEPT !.at = "kiosk", !.asker = j.asker, !.key = j.key, !.page = p,
                              !.began = vclock]
      BY <1>5, <2>2 DEF CheckBegins
    <3> QED
      BY <1>4, <3>1, <3>2 DEF NoCheck
  <2>3. CASE \E j \in jar, p \in DvPages : CheckBegins(j, p)
    BY <1>1, <1>4, <1>5, <2>2, <2>3 DEF CheckTrue
  <2>4. CASE CheckKiosk /\ d # NoCheck
    <3>1. KioskMatches(c.key) /\ d = [c EXCEPT !.at = "pages"]
      BY <1>3, <1>5, <2>4 DEF CheckKiosk
    <3>2. /\ d \in [at : {"none", "kiosk", "pages", "sign", "scope"}, asker : Keys, key : Keys,
                    began : Nat, pages : SUBSET DvPages, expires : Nat,
                    page : DvPages \cup {NoCheck.page}]
          /\ d.at = "pages" /\ d.key = c.key /\ d.began = c.began
      BY <1>4, <3>1
    <3>3. keyOk[c.key] = vclock /\ c.began <= vclock
      BY <1>3, <3>1 DEF KioskMatches, DvInv, RecordsTrue, CheckTrue
    <3> QED
      BY <1>1, <1>4, <1>5, <3>2, <3>3 DEF CheckTrue
  <2>5. CASE CheckPages
    <3>1. c.at = "pages" /\ d = [c EXCEPT !.at = "sign", !.pages = vrow.pages]
      BY <1>3, <1>5, <2>5 DEF CheckPages, viewerAssignment
    <3>2. vrow.pages \subseteq DvPages
      BY DEF DvInv, DvTypes
    <3>3. /\ d \in [at : {"none", "kiosk", "pages", "sign", "scope"}, asker : Keys, key : Keys,
                    began : Nat, pages : SUBSET DvPages, expires : Nat,
                    page : DvPages \cup {NoCheck.page}]
          /\ d.at = "sign" /\ d.key = c.key /\ d.began = c.began /\ d.pages = vrow.pages
      BY <1>4, <3>1, <3>2
    <3>4. keyOk[c.key] >= c.began /\ c.began <= vclock
      BY <1>3, <3>1 DEF DvInv, CheckTrue
    <3>5. \A p \in vrow.pages : pageOk[p] = vclock
      BY DEF DvInv, RecordsTrue
    <3> QED
      BY <1>1, <1>4, <1>5, <3>3, <3>4, <3>5 DEF CheckTrue
  <2>6. CASE signDisplayScope /\ d # NoCheck
    <3>1. c.at = "sign" /\ d = [c EXCEPT !.at = "scope", !.expires = vclock + Lease]
      BY <1>3, <1>5, <2>6 DEF signDisplayScope
    <3>2. vclock + Lease \in Nat
      BY <1>4, DvAssumption
    <3>3. /\ d \in [at : {"none", "kiosk", "pages", "sign", "scope"}, asker : Keys, key : Keys,
                    began : Nat, pages : SUBSET DvPages, expires : Nat,
                    page : DvPages \cup {NoCheck.page}]
          /\ d.at = "scope" /\ d.key = c.key /\ d.began = c.began /\ d.pages = c.pages
      BY <1>4, <3>1, <3>2
    <3> QED
      BY <1>1, <1>3, <1>5, <3>1, <3>3 DEF DvInv, CheckTrue
  <2> QED
    BY <2>1, <2>3, <2>4, <2>5, <2>6
<1> QED
  BY <1>1, <1>2, <1>5, <1>6, RequestKept DEF DvInv, DvTypes

\* The socket starts with what the check read, and each of its packets lets
\* through only widgets of those pages.
LEMMA SocketKept ==
  ASSUME DvInv, scopeSocket \/ SocketCloses \/ ConfigPacket \/ WidgetPacket
  PROVE  DvInv'
<1>1. UNCHANGED <<vrow, vflows, jar, asking, vclock, vedits, keyOk, pageOk>>
  BY DEF scopeSocket, SocketCloses, ConfigPacket, WidgetPacket
<1> DEFINE Sock == [open : BOOLEAN, key : Keys, began : Nat, pages : SUBSET DvPages, expires : Nat,
                    base : SUBSET (DvWidgets \X DvPages), widgets : SUBSET DvWidgets]
<1>2. sock \in Sock /\ vflows \in [DvWidgets -> DvPages]
  BY DEF DvInv, DvTypes
<1>3. NoSock \in Sock /\ ~NoSock.open /\ NoSock.base = {}
  BY DvAssumption DEF NoSock, Keys
<1>4. sock' \in Sock /\ SockTrue'
  <2>1. CASE sock' = NoSock
    BY <1>3, <2>1 DEF SockTrue
  <2>2. CASE sock' = sock
    BY <1>1, <1>2, <2>2 DEF DvInv, SockTrue
  <2>3. CASE scopeSocket /\ sock' # sock
    <3>1. /\ check.at = "scope"
          /\ sock' = [NoSock EXCEPT !.open = TRUE, !.key = check.key, !.began = check.began,
                                    !.pages = check.pages, !.expires = check.expires]
      BY <2>3 DEF scopeSocket
    <3>2. check.key \in Keys /\ check.began \in Nat /\ check.pages \subseteq DvPages
            /\ check.expires \in Nat
      BY DEF DvInv, DvTypes
    <3>3. /\ sock' \in Sock /\ sock'.key = check.key /\ sock'.began = check.began
          /\ sock'.pages = check.pages /\ sock'.base = {}
      BY <3>1, <3>2 DEF NoSock
    <3> QED
      BY <1>1, <3>1, <3>3 DEF DvInv, CheckTrue, SockTrue
  <2>4. CASE ConfigPacket /\ sock' # NoSock
    <3>1. PICK ws, bs : /\ ws = {w \in DvWidgets : vflows[w] \in sock.pages}
                        /\ bs = {<<w, vflows[w]>> : w \in DvWidgets}
      OBVIOUS
    <3>2. sock' = [sock EXCEPT !.widgets = ws, !.base = bs]
      BY <2>4, <3>1 DEF ConfigPacket, AllowedWidgets
    <3>3. ws \subseteq DvWidgets /\ bs \subseteq DvWidgets \X DvPages
      BY <1>2, <3>1
    <3>4. /\ sock' \in Sock /\ sock'.widgets = ws /\ sock'.base = bs /\ sock'.pages = sock.pages
          /\ sock'.key = sock.key /\ sock'.began = sock.began /\ sock'.open = sock.open
      BY <1>2, <3>2, <3>3
    <3>5. \A m \in bs : m[1] \in ws => m[2] \in sock.pages
      BY <3>1
    <3> HIDE DEF Sock
    <3> QED
      BY <1>1, <3>4, <3>5 DEF DvInv, SockTrue
  <2> QED
    BY <2>1, <2>2, <2>3, <2>4 DEF scopeSocket, SocketCloses, ConfigPacket, WidgetPacket
<1>5. CASE check' = NoCheck
  BY <1>1, <1>4, <1>5, NoCheckTrue, RequestKept DEF DvInv, DvTypes
<1>6. CASE check' = check
  <2>1. CheckTrue'
    BY <1>1, <1>6 DEF DvInv, CheckTrue
  <2> QED
    BY <1>1, <1>4, <1>6, <2>1, RequestKept DEF DvInv, DvTypes
<1> QED
  BY <1>5, <1>6 DEF scopeSocket, SocketCloses, ConfigPacket, WidgetPacket

\* Every step keeps the invariant.
LEMMA DvStepKept == ASSUME DvInv, [DvNext]_dvVars PROVE DvInv'
<1>1. CASE UNCHANGED dvVars
  <2>1. UNCHANGED <<vrow, vflows, jar, asking, check, sock, vclock, vedits, keyOk, pageOk>>
    BY <1>1 DEF dvVars
  <2> QED
    BY <2>1, RecordsStay, RestStays
<1>2. CASE DvNext
  BY <1>2, TickKept, EditsKept, ChangesKept, CookieKept, CheckKept, SocketKept DEF DvNext
<1> QED
  BY <1>1, <1>2

\* What a socket lives on was true within one lease.
LEMMA DvInvStale == DvInv => StaleByOneLease
<1> SUFFICES ASSUME DvInv, NEW m \in sock.base, Passes(m[1])
             PROVE  /\ vclock < sock.expires
                    /\ keyOk[sock.key] >= sock.began
                    /\ pageOk[m[2]] >= sock.began
  BY DEF StaleByOneLease
<1>1. sock.open /\ ~expired /\ m[1] \in sock.widgets
  BY DEF Passes
<1>2. vclock \in Nat /\ sock.expires \in Nat
  BY DEF DvInv, DvTypes
<1>3. vclock < sock.expires
  BY <1>1, <1>2 DEF expired
<1>4. m[2] \in sock.pages
  BY <1>1 DEF DvInv, SockTrue
<1> QED
  BY <1>1, <1>3, <1>4 DEF DvInv, SockTrue

\* For any number of keys, pages, widgets and edits: what still gets through an
\* open display socket was assigned, under the key of its cookie, no earlier than
\* the check behind its lease, and the lease has not run out.
THEOREM StaleEndsWithLease == DvSpec => []StaleByOneLease
<1>1. DvSpec => []DvInv
  BY DvInitially, DvStepKept, PTL DEF DvSpec
<1> QED
  BY <1>1, DvInvStale, PTL

-----------------------------------------------------------------------------
(* DashboardGate: what passes from the web to a Node-RED runtime *)

RootSets == [known : BOOLEAN, paths : SUBSET GatePaths]
FlowStates == [roots : SUBSET GatePaths, rev : Nat]
Caches == [roots : RootSets, loading : 0..MaxGateGen, gen : 1..MaxGateGen, mutations : Int,
           retryAfter : BOOLEAN]
Loads == [at : {"none", "asked", "answered"}, paths : SUBSET GatePaths]
WebRequests == [at : {"none", "arrived", "waiting", "passed", "refused"}, public : BOOLEAN,
                path : GatePaths \cup {AdminPath, "none"}, gen : 0..MaxGateGen,
                headers : SUBSET {"dashboard-token", "display-scope", "runtime-token"}]
Edits == {NoEdit} \cup [at : {"sent", "applied"}, roots : SUBSET GatePaths]
Syncs == [at : {"none", "read", "sent", "applied"}, rev : Nat, roots : SUBSET GatePaths]
Children == [n : Nat, alive : BOOLEAN]
Probes == [at : {"none", "asked", "answered", "ready", "not_ready"}, child : Nat, by : Nat]

GateTypes ==
  /\ gFlows \in FlowStates /\ gCache \in Caches /\ gLoad \in [1..MaxGateGen -> Loads]
  /\ gReq \in [GateReqs -> WebRequests] /\ gEdit \in [GateEdits -> Edits]
  /\ gSync \in Syncs /\ gChild \in Children /\ gProbe \in Probes

\* The edits under way are counted, one by one.
UnderWay == {e \in GateEdits : gEdit[e] # NoEdit}
EditsCounted == IsFiniteSet(UnderWay) /\ MutationsCounted

\* With no change of the flows under way, what the current discovery found, or
\* is about to store, is what the runtime serves.  No discovery has a
\* generation that is yet to come.
CacheFresh ==
  /\ gCache.mutations = 0 /\ gCache.roots.known => gCache.roots.paths = gFlows.roots
  /\ gCache.mutations = 0 /\ gLoad[gCache.gen].at = "answered" =>
       gLoad[gCache.gen].paths = gFlows.roots
  /\ \A g \in 1..MaxGateGen : g > gCache.gen => gLoad[g].at = "none"

LoadingTrue ==
  gCache.loading # NoLoading => gCache.loading = gCache.gen /\ gLoad[gCache.gen].at # "none"

\* A deploy that was read at the revision of the moment read the flows of the
\* moment.
SyncTrue ==
  gSync.at \in {"read", "sent"} =>
    gSync.rev <= gFlows.rev /\ (gSync.rev = gFlows.rev => gSync.roots = gFlows.roots)

\* The runtimes of a probe started in the order probed, answering, running.
ProbeTrue ==
  /\ gProbe.at \in {"asked", "answered"} => gProbe.child <= gChild.n
  /\ gProbe.at = "answered" => gProbe.child <= gProbe.by /\ gProbe.by <= gChild.n

\* Only a public request for a public path waits for a discovery.
WaitTrue ==
  \A r \in GateReqs : gReq[r].at = "waiting" => gReq[r].public /\ publicRuntimePath(gReq[r].path)

GateInv ==
  GateTypes /\ EditsCounted /\ CacheFresh /\ LoadingTrue /\ SyncTrue /\ ProbeTrue /\ WaitTrue

\* What holds before the first request.
LEMMA GateInitially == GateInit => GateInv
<1> SUFFICES ASSUME GateInit PROVE GateInv
  OBVIOUS
<1>1. /\ gFlows \in FlowStates /\ gEdit = [e \in GateEdits |-> NoEdit] /\ gSync = NoSync
      /\ gLoad = [g \in 1..MaxGateGen |-> NoLoad] /\ gReq = [r \in GateReqs |-> NoGateReq]
      /\ gChild = [n |-> 1, alive |-> TRUE] /\ gProbe = NoProbe
      /\ gCache = [roots |-> Unknown, loading |-> NoLoading, gen |-> 1, mutations |-> 0,
                   retryAfter |-> FALSE]
  BY DEF GateInit, FlowStates
<1>2. /\ 0 \in 0..MaxGateGen /\ 1 \in 1..MaxGateGen
  BY GateAssumption
<1>3. Unknown \in RootSets /\ Unknown.known = FALSE
  BY DEF Unknown, RootSets
<1>4. gCache \in Caches
  BY <1>1, <1>2, <1>3 DEF Caches, NoLoading
<1>5. NoLoad \in Loads /\ NoLoad.at = "none"
  BY DEF NoLoad, Loads
<1>6. NoGateReq \in WebRequests /\ NoGateReq.at = "none"
  BY <1>2 DEF NoGateReq, WebRequests
<1>7. NoSync \in Syncs /\ NoSync.at = "none"
  BY DEF NoSync, Syncs
<1>8. NoProbe \in Probes /\ NoProbe.at = "none"
  BY DEF NoProbe, Probes
<1>9. GateTypes
  BY <1>1, <1>4, <1>5, <1>6, <1>7, <1>8 DEF GateTypes, Edits, Children
<1>10. EditsCounted
  <2>1. UnderWay = {}
    BY <1>1 DEF UnderWay
  <2>2. IsFiniteSet(UnderWay) /\ Cardinality(UnderWay) = 0
    BY <2>1, FS_EmptySet
  <2>3. gCache.mutations = 0 /\ gSync.at = "none"
    BY <1>1, <1>7
  <2> QED
    BY <2>2, <2>3 DEF EditsCounted, MutationsCounted, UnderWay
<1>11. CacheFresh /\ LoadingTrue
  BY <1>1, <1>2, <1>3, <1>5 DEF CacheFresh, LoadingTrue
<1>12. SyncTrue /\ ProbeTrue /\ WaitTrue
  BY <1>1, <1>6, <1>7, <1>8 DEF SyncTrue, ProbeTrue, WaitTrue
<1> QED
  BY <1>9, <1>10, <1>11, <1>12 DEF GateInv

\* A change of the flows that is under way is counted.
LEMMA BusyIsCounted ==
  ASSUME GateInv
  PROVE  /\ gCache.mutations \in Nat
         /\ (gSync.at \in {"sent", "applied"} \/ \E e \in GateEdits : gEdit[e] # NoEdit)
               => gCache.mutations > 0
<1>1. IsFiniteSet(UnderWay) /\ Cardinality(UnderWay) \in Nat
  BY FS_CardinalityType DEF GateInv, EditsCounted
<1>2. gCache.mutations = Cardinality(UnderWay) + (IF gSync.at \in {"sent", "applied"} THEN 1 ELSE 0)
  BY DEF GateInv, EditsCounted, MutationsCounted, UnderWay
<1>3. UnderWay # {} => Cardinality(UnderWay) # 0
  BY <1>1, FS_EmptySet
<1> QED
  BY <1>1, <1>2, <1>3 DEF UnderWay

\* A new generation knows nothing, and has no discovery yet.
LEMMA Invalidated ==
  ASSUME GateInv, NEW m \in Int, gCache.gen < MaxGateGen, gCache' = invalidate(gCache, m),
         UNCHANGED gLoad
  PROVE  /\ gCache' \in Caches /\ gCache'.mutations = m
         /\ CacheFresh' /\ LoadingTrue'
<1>1. gCache \in Caches /\ gLoad \in [1..MaxGateGen -> Loads]
  BY DEF GateInv, GateTypes
<1>2. gCache.gen + 1 \in 1..MaxGateGen /\ 0 \in 0..MaxGateGen
  BY <1>1, GateAssumption DEF Caches
<1>3. Unknown \in RootSets /\ Unknown.known = FALSE
  BY DEF Unknown, RootSets
<1>4. /\ gCache' \in Caches /\ gCache'.gen = gCache.gen + 1 /\ gCache'.mutations = m
      /\ gCache'.loading = NoLoading /\ ~gCache'.roots.known
  BY <1>2, <1>3 DEF invalidate, Caches, NoLoading
<1>5. \A g \in 1..MaxGateGen : g > gCache.gen => gLoad[g].at = "none"
  BY DEF GateInv, CacheFresh
<1>6. gCache.gen \in Nat
  BY <1>1 DEF Caches
<1>7. CacheFresh'
  BY <1>2, <1>4, <1>5, <1>6 DEF CacheFresh
<1> QED
  BY <1>4, <1>7 DEF LoadingTrue

\* What is left alone stays true.
LEMMA GateFrame ==
  ASSUME GateInv
  PROVE  /\ UNCHANGED <<gEdit, gSync>> /\ gCache'.mutations = gCache.mutations => EditsCounted'
         /\ UNCHANGED <<gCache, gFlows, gLoad>> => CacheFresh'
         /\ UNCHANGED <<gCache, gLoad>> => LoadingTrue'
         /\ UNCHANGED <<gSync, gFlows>> => SyncTrue'
         /\ UNCHANGED <<gProbe, gChild>> => ProbeTrue'
         /\ UNCHANGED gReq => WaitTrue'
BY DEF GateInv, EditsCounted, MutationsCounted, UnderWay, CacheFresh, LoadingTrue, SyncTrue,
   ProbeTrue, WaitTrue

\* The discoveries.
LEMMA LoadReadKept == ASSUME GateInv, NEW g \in 1..MaxGateGen, LoadRead(g) PROVE GateInv'
<1>1. /\ gLoad[g].at = "asked"
           /\ gLoad' = [gLoad EXCEPT ![g] = [at |-> "answered", paths |-> gFlows.roots]]
      /\ UNCHANGED <<gFlows, gCache, gReq, gEdit, gSync, gChild, gProbe>>
  BY DEF LoadRead
<1>2. GateTypes /\ CacheFresh /\ LoadingTrue
  BY DEF GateInv
<1>3. PICK load : load = [at |-> "answered", paths |-> gFlows.roots]
  OBVIOUS
<1>4. load \in Loads /\ load.at = "answered" /\ load.paths = gFlows.roots
  BY <1>2, <1>3 DEF GateTypes, FlowStates, Loads
<1>5. gLoad \in [1..MaxGateGen -> Loads] /\ gLoad' = [gLoad EXCEPT ![g] = load]
  BY <1>1, <1>2, <1>3 DEF GateTypes
<1>6. GateTypes'
  BY <1>1, <1>2, <1>4, <1>5 DEF GateTypes
<1>7. gCache.gen \in 1..MaxGateGen
  BY <1>2 DEF GateTypes, Caches
<1>8. CacheFresh'
  BY <1>1, <1>2, <1>4, <1>5, <1>7 DEF CacheFresh
<1>9. LoadingTrue'
  BY <1>1, <1>2, <1>4, <1>5, <1>7 DEF LoadingTrue
<1> QED
  BY <1>1, <1>6, <1>8, <1>9, GateFrame DEF GateInv

\* A discovery ends, with the answer it got or without.
LEMMA LoadEndsKept ==
  ASSUME GateInv, NEW g \in 1..MaxGateGen, LoadDone(g) \/ LoadFails(g) PROVE GateInv'
<1>1. /\ gLoad' = [gLoad EXCEPT ![g] = NoLoad]
      /\ UNCHANGED <<gFlows, gReq, gEdit, gSync, gChild, gProbe>>
  BY DEF LoadDone, LoadFails
<1>2. GateTypes /\ CacheFresh /\ LoadingTrue
  BY DEF GateInv
<1>3. gCache \in Caches /\ gLoad \in [1..MaxGateGen -> Loads] /\ gLoad[g] \in Loads
  BY <1>2 DEF GateTypes
<1>4. NoLoad \in Loads /\ NoLoad.at = "none"
  BY DEF NoLoad, Loads
<1>5. gLoad' \in [1..MaxGateGen -> Loads] /\ gLoad'[g].at = "none"
      /\ \A h \in 1..MaxGateGen : h # g => gLoad'[h] = gLoad[h]
  BY <1>1, <1>3, <1>4
<1>6. gCache.gen \in 1..MaxGateGen /\ 0 \in 0..MaxGateGen
  BY <1>3, GateAssumption DEF Caches
<1>7. CASE gCache' = gCache /\ gCache.gen # g
  <2>1. GateTypes'
    BY <1>1, <1>2, <1>5, <1>7 DEF GateTypes
  <2>2. CacheFresh'
    BY <1>1, <1>2, <1>5, <1>6, <1>7 DEF CacheFresh
  <2>3. LoadingTrue'
    BY <1>2, <1>5, <1>6, <1>7 DEF LoadingTrue
  <2> QED
    BY <1>1, <1>7, <2>1, <2>2, <2>3, GateFrame DEF GateInv
<1>8. CASE gCache.gen = g /\ LoadDone(g)
  <2>1. PICK roots : roots = Roots(gLoad[g].paths)
    OBVIOUS
  <2>2. roots \in RootSets /\ roots.paths = gLoad[g].paths
    BY <1>3, <2>1 DEF Roots, RootSets, Loads
  <2>3. gLoad[g].at = "answered" /\ gCache' = [gCache EXCEPT !.roots = roots, !.loading = NoLoading]
    BY <1>8, <2>1 DEF LoadDone, storeRoots
  <2>4. /\ gCache' \in Caches /\ gCache'.mutations = gCache.mutations /\ gCache'.gen = g
        /\ gCache'.roots = roots /\ gCache'.loading = NoLoading
    BY <1>3, <1>6, <1>8, <2>2, <2>3 DEF Caches, NoLoading
  <2>5. GateTypes'
    BY <1>1, <1>2, <1>5, <2>4 DEF GateTypes
  <2>6. CacheFresh'
    BY <1>1, <1>2, <1>5, <1>6, <1>8, <2>2, <2>3, <2>4 DEF CacheFresh
  <2>7. LoadingTrue'
    BY <2>4 DEF LoadingTrue
  <2> QED
    BY <1>1, <2>4, <2>5, <2>6, <2>7, GateFrame DEF GateInv
<1>9. CASE gCache.gen = g /\ LoadFails(g)
  <2>1. gCache' = [gCache EXCEPT !.retryAfter = TRUE, !.loading = NoLoading]
    BY <1>9 DEF LoadFails
  <2>2. /\ gCache' \in Caches /\ gCache'.mutations = gCache.mutations /\ gCache'.gen = g
        /\ gCache'.roots = gCache.roots /\ gCache'.loading = NoLoading
    BY <1>3, <1>6, <1>9, <2>1 DEF Caches, NoLoading
  <2>3. GateTypes'
    BY <1>1, <1>2, <1>5, <2>2 DEF GateTypes
  <2>4. CacheFresh'
    BY <1>1, <1>2, <1>5, <1>6, <1>9, <2>2 DEF CacheFresh
  <2>5. LoadingTrue'
    BY <2>2 DEF LoadingTrue
  <2> QED
    BY <1>1, <2>2, <2>3, <2>4, <2>5, GateFrame DEF GateInv
<1> QED
  BY <1>7, <1>8, <1>9 DEF LoadDone, LoadFails, storeRoots

\* The time to try again passes.
LEMMA RetryKept == ASSUME GateInv, RetryAfterPasses PROVE GateInv'
<1>1. /\ gCache' = [gCache EXCEPT !.retryAfter = FALSE]
      /\ UNCHANGED <<gFlows, gLoad, gReq, gEdit, gSync, gChild, gProbe>>
  BY DEF RetryAfterPasses
<1>2. GateTypes /\ CacheFresh /\ LoadingTrue
  BY DEF GateInv
<1>3. /\ gCache' \in Caches /\ gCache'.mutations = gCache.mutations /\ gCache'.gen = gCache.gen
      /\ gCache'.roots = gCache.roots /\ gCache'.loading = gCache.loading
  BY <1>1, <1>2 DEF GateTypes, Caches
<1>4. GateTypes'
  BY <1>1, <1>2, <1>3 DEF GateTypes
<1>5. CacheFresh' /\ LoadingTrue'
  BY <1>1, <1>2, <1>3 DEF CacheFresh, LoadingTrue
<1> QED
  BY <1>1, <1>3, <1>4, <1>5, GateFrame DEF GateInv

\* The requests.
LEMMA RequestIs ==
  ASSUME GateInv, NEW r \in GateReqs, NEW one \in WebRequests,
         gReq' = [gReq EXCEPT ![r] = one],
         one.at = "waiting" => one.public /\ publicRuntimePath(one.path)
  PROVE  gReq' \in [GateReqs -> WebRequests] /\ WaitTrue'
<1>1. gReq \in [GateReqs -> WebRequests]
  BY DEF GateInv, GateTypes
<1> QED
  BY <1>1 DEF GateInv, WaitTrue

\* What a request that is let through or refused takes with it.
LEMMA GateEnded ==
  ASSUME GateInv, NEW r \in GateReqs, NEW at \in {"passed", "refused"}, GateEnds(r, at)
  PROVE  gReq' \in [GateReqs -> WebRequests] /\ WaitTrue'
<1>1. gReq \in [GateReqs -> WebRequests] /\ gReq[r] \in WebRequests
  BY DEF GateInv, GateTypes
<1>2. PICK hs : hs = IF at = "passed" THEN runtimeHeaders(gReq[r].public, gReq[r].path) ELSE {}
  OBVIOUS
<1>3. hs \in SUBSET {"dashboard-token", "display-scope", "runtime-token"}
  BY <1>2 DEF runtimeHeaders
<1>4. PICK one : one = [gReq[r] EXCEPT !.at = at, !.headers = hs]
  OBVIOUS
<1>5. one \in WebRequests /\ one.at = at
  BY <1>1, <1>3, <1>4 DEF WebRequests
<1>6. gReq' = [gReq EXCEPT ![r] = one]
  BY <1>1, <1>2, <1>4 DEF GateEnds
<1> QED
  BY <1>5, <1>6, RequestIs

\* A request arrives, is decided or refused, and ends.
LEMMA WebRequestKept ==
  ASSUME GateInv, NEW r \in GateReqs,
         \/ Refuse(r) \/ Decide(r) \/ RequestDone(r)
         \/ \E public \in BOOLEAN, path \in GatePaths \cup {AdminPath} :
              GateRequestArrives(r, public, path)
  PROVE  GateInv'
<1>1. UNCHANGED <<gFlows, gCache, gLoad, gEdit, gSync, gChild, gProbe>>
  BY DEF Refuse, Decide, RequestDone, GateRequestArrives
<1>2. gReq' \in [GateReqs -> WebRequests] /\ WaitTrue'
  <2>1. CASE Refuse(r) \/ Decide(r)
    BY <2>1, GateEnded DEF Refuse, Decide
  <2>2. NoGateReq \in WebRequests /\ NoGateReq.at = "none"
    BY GateAssumption DEF NoGateReq, WebRequests
  <2>3. CASE RequestDone(r)
    BY <2>2, <2>3, RequestIs DEF RequestDone
  <2>4. ASSUME NEW public \in BOOLEAN, NEW path \in GatePaths \cup {AdminPath},
               GateRequestArrives(r, public, path)
        PROVE  gReq' \in [GateReqs -> WebRequests] /\ WaitTrue'
    <3>1. PICK one : one = [NoGateReq EXCEPT !.at = "arrived", !.public = public, !.path = path]
      OBVIOUS
    <3>2. one \in WebRequests /\ one.at = "arrived"
      BY <2>2, <3>1 DEF WebRequests
    <3> QED
      BY <2>4, <3>1, <3>2, RequestIs DEF GateRequestArrives
  <2> QED
    BY <2>1, <2>3, <2>4
<1>3. GateTypes'
  BY <1>1, <1>2 DEF GateInv, GateTypes
<1> QED
  BY <1>1, <1>2, <1>3, GateFrame DEF GateInv

\* A request finds the roots unknown and joins a discovery, or begins one.
LEMMA DiscoverKept == ASSUME GateInv, NEW r \in GateReqs, Discover(r) PROVE GateInv'
<1>1. /\ Open(r) /\ gReq[r].public /\ UNCHANGED <<gFlows, gEdit, gSync, gChild, gProbe>>
      /\ gReq' = [gReq EXCEPT ![r].at = "waiting", ![r].gen = gCache.gen]
  BY DEF Discover
<1>2. GateTypes /\ CacheFresh /\ LoadingTrue
  BY DEF GateInv
<1>3. gCache \in Caches /\ gCache.gen \in 1..MaxGateGen /\ gCache.gen \in 0..MaxGateGen
      /\ gReq \in [GateReqs -> WebRequests] /\ gLoad \in [1..MaxGateGen -> Loads]
  BY <1>2, GateAssumption DEF GateTypes, Caches
<1>4. PICK one : one = [gReq[r] EXCEPT !.at = "waiting", !.gen = gCache.gen]
  OBVIOUS
<1>5. one \in WebRequests /\ one.public = gReq[r].public /\ one.path = gReq[r].path
  BY <1>3, <1>4 DEF WebRequests
<1>6. gReq' = [gReq EXCEPT ![r] = one]
  BY <1>1, <1>3, <1>4
<1>7. gReq' \in [GateReqs -> WebRequests] /\ WaitTrue'
  BY <1>1, <1>5, <1>6, RequestIs DEF Open
<1>8. CASE UNCHANGED <<gCache, gLoad>>
  <2>1. GateTypes'
    BY <1>1, <1>2, <1>7, <1>8 DEF GateTypes
  <2> QED
    BY <1>1, <1>7, <1>8, <2>1, GateFrame DEF GateInv
<1>9. CASE /\ gCache' = [gCache EXCEPT !.loading = gCache.gen]
           /\ gLoad' = [gLoad EXCEPT ![gCache.gen] = [at |-> "asked", paths |-> {}]]
  <2>1. PICK load : load = [at |-> "asked", paths |-> {}]
    OBVIOUS
  <2>2. load \in Loads /\ load.at = "asked"
    BY <2>1 DEF Loads
  <2>3. gLoad' = [gLoad EXCEPT ![gCache.gen] = load]
    BY <1>9, <2>1
  <2>4. /\ gCache' \in Caches /\ gCache'.mutations = gCache.mutations /\ gCache'.gen = gCache.gen
        /\ gCache'.roots = gCache.roots /\ gCache'.loading = gCache.gen
    BY <1>3, <1>9 DEF Caches
  <2>5. GateTypes'
    BY <1>1, <1>2, <1>3, <1>7, <2>2, <2>3, <2>4 DEF GateTypes
  <2>6. CacheFresh'
    BY <1>1, <1>2, <1>3, <2>2, <2>3, <2>4 DEF CacheFresh
  <2>7. LoadingTrue'
    BY <1>3, <2>2, <2>3, <2>4 DEF LoadingTrue
  <2> QED
    BY <1>1, <1>7, <2>4, <2>5, <2>6, <2>7, GateFrame DEF GateInv
<1> QED
  BY <1>8, <1>9 DEF Discover

\* Edits and deploys.
LEMMA EditBeginsKept ==
  ASSUME GateInv, NEW e \in GateEdits, NEW roots \in SUBSET GatePaths, EditBegins(e, roots)
  PROVE  GateInv'
<1>1. /\ gEdit[e] = NoEdit /\ gCache.gen < MaxGateGen
      /\ gCache' = invalidate(gCache, gCache.mutations + 1)
      /\ gEdit' = [gEdit EXCEPT ![e] = [at |-> "sent", roots |-> roots]]
      /\ UNCHANGED <<gFlows, gLoad, gReq, gSync, gChild, gProbe>>
  BY DEF EditBegins, changingFlows
<1>2. GateTypes /\ gCache.mutations \in Nat
  BY BusyIsCounted DEF GateInv
<1>3. gEdit \in [GateEdits -> Edits]
  BY <1>2 DEF GateTypes
<1>4. gCache' \in Caches /\ gCache'.mutations = gCache.mutations + 1 /\ CacheFresh' /\ LoadingTrue'
  BY <1>1, <1>2, Invalidated
<1>5. PICK edit : edit = [at |-> "sent", roots |-> roots]
  OBVIOUS
<1>6. edit \in Edits /\ edit.at = "sent"
  BY <1>5 DEF Edits
<1>7. edit # NoEdit
  BY <1>6 DEF NoEdit
<1>8. gEdit' \in [GateEdits -> Edits] /\ UnderWay' = UnderWay \cup {e} /\ e \notin UnderWay
  BY <1>1, <1>3, <1>5, <1>6, <1>7 DEF UnderWay
<1>9. IsFiniteSet(UnderWay')  /\ Cardinality(UnderWay') = Cardinality(UnderWay) + 1
      /\ Cardinality(UnderWay) \in Nat
  BY <1>8, FS_AddElement, FS_CardinalityType DEF GateInv, EditsCounted
<1>10. EditsCounted'
  <2>1. gCache.mutations = Cardinality(UnderWay) + (IF gSync.at \in {"sent", "applied"} THEN 1
          ELSE 0)
    BY DEF GateInv, EditsCounted, MutationsCounted, UnderWay
  <2> QED
    BY <1>1, <1>4, <1>9, <2>1 DEF EditsCounted, MutationsCounted, UnderWay
<1>11. GateTypes'
  BY <1>1, <1>2, <1>4, <1>8 DEF GateTypes
<1> QED
  BY <1>1, <1>4, <1>10, <1>11, GateFrame DEF GateInv

\* A deployment through the admin pages ends; the roots are discovered anew.
LEMMA EditEndsKept == ASSUME GateInv, NEW e \in GateEdits, EditEnds(e) PROVE GateInv'
<1>1. /\ gEdit[e].at \in {"sent", "applied"} /\ gCache.gen < MaxGateGen
      /\ gCache' = invalidate(gCache, gCache.mutations - 1)
      /\ gEdit' = [gEdit EXCEPT ![e] = NoEdit]
      /\ UNCHANGED <<gFlows, gLoad, gReq, gSync, gChild, gProbe>>
  BY DEF EditEnds, finishChange
<1>2. GateTypes /\ gCache.mutations \in Nat
  BY BusyIsCounted DEF GateInv
<1>3. gEdit \in [GateEdits -> Edits] /\ NoEdit \in Edits
  BY <1>2 DEF GateTypes, Edits
<1>4. gCache' \in Caches /\ gCache'.mutations = gCache.mutations - 1 /\ CacheFresh' /\ LoadingTrue'
  BY <1>1, <1>2, Invalidated
<1>5. gEdit[e] # NoEdit
  BY <1>1 DEF NoEdit
<1>6. gEdit' \in [GateEdits -> Edits] /\ UnderWay' = UnderWay \ {e} /\ e \in UnderWay
  BY <1>1, <1>3, <1>5 DEF UnderWay
<1>7. IsFiniteSet(UnderWay')  /\ Cardinality(UnderWay') = Cardinality(UnderWay) - 1
      /\ Cardinality(UnderWay) \in Nat
  BY <1>6, FS_RemoveElement, FS_CardinalityType DEF GateInv, EditsCounted
<1>8. EditsCounted'
  <2>1. gCache.mutations = Cardinality(UnderWay) + (IF gSync.at \in {"sent", "applied"} THEN 1
          ELSE 0)
    BY DEF GateInv, EditsCounted, MutationsCounted, UnderWay
  <2> QED
    BY <1>1, <1>4, <1>7, <2>1 DEF EditsCounted, MutationsCounted, UnderWay
<1>9. GateTypes'
  BY <1>1, <1>2, <1>4, <1>6 DEF GateTypes
<1> QED
  BY <1>1, <1>4, <1>8, <1>9, GateFrame DEF GateInv

\* The runtime's flows change only while the change is counted, and their
\* revision with them.
LEMMA FlowsChange ==
  ASSUME GateInv, gCache.mutations > 0, UNCHANGED <<gCache, gLoad>>,
         UNCHANGED gFlows \/ gFlows'.rev = gFlows.rev + 1
  PROVE  CacheFresh' /\ LoadingTrue'
BY DEF GateInv, CacheFresh, LoadingTrue

\* The runtime takes the flows it was sent.
LEMMA EditAppliesKept == ASSUME GateInv, NEW e \in GateEdits, EditApplies(e) PROVE GateInv'
<1>1. /\ gEdit[e].at = "sent" /\ gFlows' = [roots |-> gEdit[e].roots, rev |-> gFlows.rev + 1]
      /\ gEdit' = [gEdit EXCEPT ![e].at = "applied"]
      /\ UNCHANGED <<gCache, gLoad, gReq, gSync, gChild, gProbe>>
  BY DEF EditApplies
<1>2. GateTypes
  BY DEF GateInv
<1>3. gEdit \in [GateEdits -> Edits] /\ gFlows \in FlowStates /\ gSync \in Syncs
  BY <1>2 DEF GateTypes
<1>4. gEdit[e] # NoEdit /\ gEdit[e] \in [at : {"sent", "applied"}, roots : SUBSET GatePaths]
  BY <1>1, <1>3 DEF Edits, NoEdit
<1>5. gCache.mutations > 0
  BY <1>4, BusyIsCounted
<1>6. gFlows' \in FlowStates /\ gFlows'.rev = gFlows.rev + 1
  BY <1>1, <1>3, <1>4 DEF FlowStates
<1>7. PICK edit : edit = [gEdit[e] EXCEPT !.at = "applied"]
  OBVIOUS
<1>8. edit \in Edits /\ edit.at = "applied"
  BY <1>4, <1>7 DEF Edits
<1>9. edit # NoEdit
  BY <1>8 DEF NoEdit
<1>10. gEdit' = [gEdit EXCEPT ![e] = edit]
  BY <1>1, <1>3, <1>7
<1>11. gEdit' \in [GateEdits -> Edits] /\ UnderWay' = UnderWay
  BY <1>3, <1>4, <1>8, <1>9, <1>10 DEF UnderWay
<1>12. EditsCounted'
  BY <1>1, <1>11 DEF GateInv, EditsCounted, MutationsCounted, UnderWay
<1>13. SyncTrue'
  BY <1>1, <1>3, <1>6 DEF GateInv, SyncTrue, FlowStates, Syncs
<1>14. GateTypes'
  BY <1>1, <1>2, <1>6, <1>11 DEF GateTypes
<1> QED
  BY <1>1, <1>5, <1>6, <1>12, <1>13, <1>14, FlowsChange, GateFrame DEF GateInv

\* The configuration sync reads the flows with their revision,
LEMMA SyncReadKept == ASSUME GateInv, SyncRead PROVE GateInv'
<1>1. /\ gSync = NoSync /\ gSync' = [at |-> "read", rev |-> gFlows.rev, roots |-> gFlows.roots]
      /\ UNCHANGED <<gFlows, gCache, gLoad, gReq, gEdit, gChild, gProbe>>
  BY DEF SyncRead
<1>2. GateTypes /\ gFlows \in FlowStates
  BY DEF GateInv, GateTypes
<1>3. gSync' \in Syncs /\ SyncTrue'
  BY <1>1, <1>2 DEF FlowStates, Syncs, SyncTrue
<1>4. EditsCounted'
  BY <1>1 DEF GateInv, EditsCounted, MutationsCounted, UnderWay, NoSync
<1>5. GateTypes'
  BY <1>1, <1>2, <1>3 DEF GateTypes
<1> QED
  BY <1>1, <1>3, <1>4, <1>5, GateFrame DEF GateInv

\* sends them changed, with the revision it read,
LEMMA SyncSendKept == ASSUME GateInv, SyncSend PROVE GateInv'
<1>1. /\ gSync.at = "read" /\ gCache.gen < MaxGateGen
      /\ gCache' = invalidate(gCache, gCache.mutations + 1)
      /\ gSync' = [gSync EXCEPT !.at = "sent"]
      /\ UNCHANGED <<gFlows, gLoad, gReq, gEdit, gChild, gProbe>>
  BY DEF SyncSend, changingFlows
<1>2. GateTypes /\ gCache.mutations \in Nat /\ gSync \in Syncs
  BY BusyIsCounted DEF GateInv, GateTypes
<1>3. /\ gSync' \in Syncs /\ gSync'.at = "sent" /\ gSync'.rev = gSync.rev
      /\ gSync'.roots = gSync.roots
  BY <1>1, <1>2 DEF Syncs
<1>4. gCache' \in Caches /\ gCache'.mutations = gCache.mutations + 1 /\ CacheFresh' /\ LoadingTrue'
  BY <1>1, <1>2, Invalidated
<1>5. EditsCounted'
  <2>1. gCache.mutations = Cardinality(UnderWay) + 0
    BY <1>1 DEF GateInv, EditsCounted, MutationsCounted, UnderWay
  <2>2. UnderWay' = UnderWay /\ IsFiniteSet(UnderWay) /\ Cardinality(UnderWay) \in Nat
    BY <1>1, FS_CardinalityType DEF GateInv, EditsCounted, UnderWay
  <2>3. gCache'.mutations = Cardinality(UnderWay') + 1
    BY <1>4, <2>1, <2>2
  <2> QED
    BY <1>3, <2>2, <2>3 DEF EditsCounted, MutationsCounted, UnderWay
<1>6. SyncTrue'
  BY <1>1, <1>3 DEF GateInv, SyncTrue
<1>7. GateTypes'
  BY <1>1, <1>2, <1>3, <1>4 DEF GateTypes
<1> QED
  BY <1>1, <1>4, <1>5, <1>6, <1>7, GateFrame DEF GateInv

\* which the runtime takes only if its own is still that one,
LEMMA SyncAppliesKept == ASSUME GateInv, SyncApplies PROVE GateInv'
<1>1. /\ gSync.at = "sent" /\ gSync' = [gSync EXCEPT !.at = "applied"]
      /\ gFlows' = [roots |-> gSync.roots, rev |-> gFlows.rev + 1] \/ gFlows' = gFlows
      /\ UNCHANGED <<gCache, gLoad, gReq, gEdit, gChild, gProbe>>
  BY DEF SyncApplies
<1>2. GateTypes /\ gSync \in Syncs /\ gFlows \in FlowStates
  BY DEF GateInv, GateTypes
<1>3. gCache.mutations > 0
  BY <1>1, BusyIsCounted
<1>4. gSync' \in Syncs /\ gSync'.at = "applied"
  BY <1>1, <1>2 DEF Syncs
<1>5. gFlows' \in FlowStates /\ (UNCHANGED gFlows \/ gFlows'.rev = gFlows.rev + 1)
  BY <1>1, <1>2 DEF FlowStates, Syncs
<1>6. EditsCounted'
  BY <1>1, <1>4 DEF GateInv, EditsCounted, MutationsCounted, UnderWay
<1>7. SyncTrue'
  BY <1>4 DEF SyncTrue
<1>8. GateTypes'
  BY <1>1, <1>2, <1>4, <1>5 DEF GateTypes
<1> QED
  BY <1>1, <1>3, <1>5, <1>6, <1>7, <1>8, FlowsChange, GateFrame DEF GateInv

\* and ends, the roots to be discovered anew.
LEMMA SyncEndsKept == ASSUME GateInv, ConfigSyncEnds PROVE GateInv'
<1>1. /\ gSync.at \in {"sent", "applied"} /\ gCache.gen < MaxGateGen /\ gSync' = NoSync
      /\ gCache' = invalidate(gCache, gCache.mutations - 1)
      /\ UNCHANGED <<gFlows, gLoad, gReq, gEdit, gChild, gProbe>>
  BY DEF ConfigSyncEnds, finishChange
<1>2. GateTypes /\ gCache.mutations \in Nat
  BY BusyIsCounted DEF GateInv
<1>3. NoSync \in Syncs /\ NoSync.at = "none"
  BY DEF NoSync, Syncs
<1>4. gCache' \in Caches /\ gCache'.mutations = gCache.mutations - 1 /\ CacheFresh' /\ LoadingTrue'
  BY <1>1, <1>2, Invalidated
<1>5. EditsCounted'
  <2>1. gCache.mutations = Cardinality(UnderWay) + 1
    BY <1>1 DEF GateInv, EditsCounted, MutationsCounted, UnderWay
  <2>2. UnderWay' = UnderWay /\ IsFiniteSet(UnderWay) /\ Cardinality(UnderWay) \in Nat
    BY <1>1, FS_CardinalityType DEF GateInv, EditsCounted, UnderWay
  <2>3. gCache'.mutations = Cardinality(UnderWay') + 0
    BY <1>4, <2>1, <2>2
  <2> QED
    BY <1>1, <1>3, <2>2, <2>3 DEF EditsCounted, MutationsCounted, UnderWay
<1>6. SyncTrue'
  BY <1>1, <1>3 DEF SyncTrue
<1>7. GateTypes'
  BY <1>1, <1>2, <1>3, <1>4 DEF GateTypes
<1> QED
  BY <1>1, <1>4, <1>5, <1>6, <1>7, GateFrame DEF GateInv

\* The runtime process and its probe.
LEMMA RuntimeKept ==
  ASSUME GateInv, RuntimeExits \/ RuntimeStarts \/ ProbeBegins \/ ProbeAnswered \/ ProbeEnds
  PROVE  GateInv'
<1>1. UNCHANGED <<gFlows, gCache, gLoad, gReq, gEdit, gSync>>
  BY DEF RuntimeExits, RuntimeStarts, ProbeBegins, ProbeAnswered, ProbeEnds
<1>2. GateTypes /\ gChild \in Children /\ gProbe \in Probes /\ ProbeTrue
  BY DEF GateInv, GateTypes
<1>3. gChild' \in Children /\ gProbe' \in Probes /\ ProbeTrue'
  <2>1. CASE RuntimeExits
    <3>1. gChild' = [gChild EXCEPT !.alive = FALSE] /\ gProbe' = gProbe
      BY <2>1 DEF RuntimeExits
    <3>2. gChild' \in Children /\ gChild'.n = gChild.n
      BY <1>2, <3>1 DEF Children
    <3> QED
      BY <1>2, <3>1, <3>2 DEF ProbeTrue
  <2>2. CASE RuntimeStarts
    <3>1. gChild' = [n |-> gChild.n + 1, alive |-> TRUE] /\ gProbe' = gProbe
      BY <2>2 DEF RuntimeStarts
    <3>2. gChild' \in Children /\ gChild'.n = gChild.n + 1 /\ gChild.n \in Nat
          /\ gProbe.child \in Nat /\ gProbe.by \in Nat
      BY <1>2, <3>1 DEF Children, Probes
    <3> QED
      BY <1>2, <3>1, <3>2 DEF ProbeTrue
  <2>3. CASE ProbeBegins
    <3>1. gChild' = gChild /\ (\/ gProbe' = [at |-> "asked", child |-> gChild.n, by |-> 0]
                               \/ gProbe' = [NoProbe EXCEPT !.at = "not_ready"])
      BY <2>3 DEF ProbeBegins
    <3>2. gChild.n \in Nat
      BY <1>2 DEF Children
    <3> QED
      BY <1>2, <3>1, <3>2 DEF NoProbe, Probes, ProbeTrue
  <2>4. CASE ProbeAnswered
    <3>1. gChild' = gChild /\ gProbe.at = "asked"
          /\ gProbe' = [gProbe EXCEPT !.at = "answered", !.by = gChild.n]
      BY <2>4 DEF ProbeAnswered
    <3>2. gChild.n \in Nat
      BY <1>2 DEF Children
    <3>3. gProbe' \in Probes /\ gProbe'.child = gProbe.child /\ gProbe'.by = gChild.n
      BY <1>2, <3>1, <3>2 DEF Probes
    <3> QED
      BY <1>2, <3>1, <3>2, <3>3 DEF ProbeTrue
  <2>5. CASE ProbeEnds
    <3>1. PICK at \in {"ready", "not_ready"} : gProbe' = [gProbe EXCEPT !.at = at]
      BY <2>5 DEF ProbeEnds
    <3>2. gProbe' \in Probes /\ gProbe'.at \in {"ready", "not_ready"}
      BY <1>2, <3>1 DEF Probes
    <3> QED
      BY <1>2, <2>5, <3>2 DEF ProbeTrue, ProbeEnds
  <2> QED
    BY <2>1, <2>2, <2>3, <2>4, <2>5
<1>4. GateTypes'
  BY <1>1, <1>2, <1>3 DEF GateTypes
<1> QED
  BY <1>1, <1>3, <1>4, GateFrame DEF GateInv

\* Every step keeps the invariant.
LEMMA GateStepKept == ASSUME GateInv, [GateNext]_gVars PROVE GateInv'
<1>1. CASE UNCHANGED gVars
  <2>1. GateTypes'
    BY <1>1 DEF GateInv, GateTypes, gVars
  <2> QED
    BY <1>1, <2>1, GateFrame DEF GateInv, gVars
<1>2. CASE GateNext
  BY <1>2, LoadReadKept, LoadEndsKept, RetryKept, WebRequestKept, DiscoverKept, EditBeginsKept,
     EditEndsKept, EditAppliesKept, SyncReadKept, SyncSendKept, SyncAppliesKept, SyncEndsKept,
     RuntimeKept DEF GateNext
<1> QED
  BY <1>1, <1>2

\* What the gate decides about a public request.
LEMMA DecidedRight ==
  ASSUME GateInv, NEW r \in GateReqs, Decide(r), gReq[r].public, gReq'[r].at = "passed"
  PROVE  gReq[r].path \notin gFlows.roots /\ gReq'[r].headers = {}
<1>1. gReq \in [GateReqs -> WebRequests] /\ gReq[r] \in WebRequests
  BY DEF GateInv, GateTypes
<1>2. PICK at \in {"passed", "refused"} :
        /\ GateEnds(r, at)
        /\ at = IF gReq[r].public /\ dashboardClosed(gCache, gReq[r].path) THEN "refused"
             ELSE "passed"
  BY DEF Decide
<1>3. PICK hs : hs = IF at = "passed" THEN runtimeHeaders(gReq[r].public, gReq[r].path) ELSE {}
  OBVIOUS
<1>4. gReq'[r] = [gReq[r] EXCEPT !.at = at, !.headers = hs]
  BY <1>1, <1>2, <1>3 DEF GateEnds
<1>5. gReq'[r].at = at /\ gReq'[r].headers = hs
  BY <1>1, <1>4 DEF WebRequests
<1>6. at = "passed" /\ ~dashboardClosed(gCache, gReq[r].path)
  BY <1>2, <1>5
<1>7. publicRuntimePath(gReq[r].path)
  BY DEF Decide, Open, GateInv, WaitTrue
<1>8. gReq'[r].headers = {}
  BY <1>3, <1>5, <1>6, <1>7 DEF runtimeHeaders, publicRuntimePath
<1>9. gCache.mutations = 0 /\ gCache.roots.known /\ gReq[r].path \notin gCache.roots.paths
  <2>1. gCache.mutations \in Nat
    BY BusyIsCounted
  <2> QED
    BY <1>6, <2>1 DEF dashboardClosed
<1> QED
  BY <1>8, <1>9 DEF GateInv, CacheFresh

\* Who is let in without a session sees no dashboard, and no secret header
\* goes along: in the very step the runtime serves nothing at that path.
LEMMA PublicStep ==
  ASSUME GateInv, [GateNext]_gVars, NEW r \in GateReqs,
         gReq[r].at # "passed", gReq'[r].at = "passed", gReq[r].public
  PROVE  gReq[r].path \notin gFlows.roots /\ gReq'[r].headers = {}
<1>1. gReq \in [GateReqs -> WebRequests] /\ gReq[r] \in WebRequests
  BY DEF GateInv, GateTypes
<1>2. gReq' # gReq
  OBVIOUS
<1>3. \E q \in GateReqs :
        \/ Refuse(q) \/ Discover(q) \/ Decide(q) \/ RequestDone(q)
        \/ \E public \in BOOLEAN, path \in GatePaths \cup {AdminPath} :
             GateRequestArrives(q, public, path)
  BY <1>2 DEF GateNext, gVars, RetryAfterPasses, SyncRead, SyncSend, SyncApplies, ConfigSyncEnds,
     RuntimeExits, RuntimeStarts, ProbeBegins, ProbeAnswered, ProbeEnds, LoadRead, LoadDone,
     LoadFails, EditApplies, EditEnds, EditBegins
<1>4. PICK q \in GateReqs :
        \/ Refuse(q) \/ Discover(q) \/ Decide(q) \/ RequestDone(q)
        \/ \E public \in BOOLEAN, path \in GatePaths \cup {AdminPath} :
             GateRequestArrives(q, public, path)
  BY <1>3
<1>5. q # r => gReq'[r] = gReq[r]
  <2>1. CASE Refuse(q) \/ Decide(q)
    BY <1>1, <2>1 DEF Refuse, Decide, GateEnds
  <2>2. CASE Discover(q)
    BY <1>1, <2>2 DEF Discover
  <2>3. CASE RequestDone(q)
    BY <1>1, <2>3 DEF RequestDone
  <2>4. CASE \E public \in BOOLEAN, path \in GatePaths \cup {AdminPath} :
               GateRequestArrives(q, public, path)
    BY <1>1, <2>4 DEF GateRequestArrives
  <2> QED
    BY <1>4, <2>1, <2>2, <2>3, <2>4
<1>6. q = r
  BY <1>5
<1>7. Decide(r)
  <2>1. ASSUME Refuse(r) PROVE gReq'[r].at = "refused"
    BY <1>1, <2>1 DEF Refuse, GateEnds, WebRequests
  <2>2. ASSUME Discover(r) PROVE gReq'[r].at = "waiting"
    BY <1>1, <2>2 DEF Discover, WebRequests
  <2>3. ASSUME RequestDone(r) PROVE gReq'[r].at = "none"
    BY <1>1, <2>3 DEF RequestDone, NoGateReq
  <2>4. ASSUME NEW public \in BOOLEAN, NEW path \in GatePaths \cup {AdminPath},
               GateRequestArrives(r, public, path)
        PROVE  gReq'[r].at = "arrived"
    BY <1>1, <2>4 DEF GateRequestArrives, NoGateReq
  <2> QED
    BY <1>4, <1>6, <2>1, <2>2, <2>3, <2>4
<1> QED
  BY <1>7, DecidedRight

\* A configuration deploy that is accepted writes back the dashboards it read.
LEMMA DeployStep ==
  ASSUME GateInv, [GateNext]_gVars, gSync.at = "sent", gSync'.at = "applied"
  PROVE  gFlows'.roots = gFlows.roots
<1>1. SyncRead \/ SyncSend \/ SyncApplies \/ ConfigSyncEnds
  BY DEF GateNext, gVars, RetryAfterPasses, RuntimeExits, RuntimeStarts, ProbeBegins,
     ProbeAnswered, ProbeEnds, LoadRead, LoadDone, LoadFails, EditApplies, EditEnds, EditBegins,
     Refuse, Decide, Discover, RequestDone, GateRequestArrives
<1>2. CASE gFlows' = gFlows
  BY <1>2
<1>3. CASE RevisionMatches(gSync) /\ gFlows' = [roots |-> gSync.roots, rev |-> gFlows.rev + 1]
  BY <1>3 DEF RevisionMatches, GateInv, SyncTrue
<1> QED
  BY <1>1, <1>2, <1>3 DEF SyncApplies, SyncRead, SyncSend, ConfigSyncEnds, NoSync

\* What a probe found ready is the child it asked, and that one is alive.
LEMMA ReadyStep ==
  ASSUME GateInv, [GateNext]_gVars, gProbe.at = "answered", gProbe'.at = "ready"
  PROVE  gChild.alive /\ gProbe.by = gChild.n
<1>1. ProbeEnds \/ ProbeBegins
  BY DEF GateNext, gVars, RetryAfterPasses, SyncRead, SyncSend, SyncApplies, ConfigSyncEnds,
     RuntimeExits, RuntimeStarts, ProbeAnswered, LoadRead, LoadDone,
     LoadFails, EditApplies, EditEnds, EditBegins, Refuse, Decide, Discover, RequestDone,
     GateRequestArrives
<1>2. ProbeEnds
  BY <1>1 DEF ProbeBegins
<1>3. gProbe \in Probes /\ gChild \in Children
  BY DEF GateInv, GateTypes
<1>4. PICK at : /\ gProbe' = [gProbe EXCEPT !.at = at]
                /\ at = IF gProbe.at = "answered" /\ stillRunning(gProbe) THEN "ready"
                     ELSE "not_ready"
  BY <1>2 DEF ProbeEnds
<1>5. at = "ready"
  BY <1>3, <1>4 DEF Probes
<1>6. gChild.alive /\ gProbe.child = gChild.n
  BY <1>4, <1>5 DEF stillRunning
<1>7. gProbe.child <= gProbe.by /\ gProbe.by <= gChild.n /\ gProbe.by \in Nat /\ gChild.n \in Nat
  BY <1>3 DEF GateInv, ProbeTrue, Probes, Children
<1> QED
  BY <1>6, <1>7

\* For any number of requests, deployments, discoveries and restarts: the count
\* of changes under way is right, no request waits for a discovery that ended,
\* and no step lets a public request through to a dashboard or with a credential,
\* undoes a deployment, or takes an exited child for ready.
THEOREM GateStaysClosed == GateSpec => GateSteps
<1>1. GateSpec => []GateInv
  BY GateInitially, GateStepKept, PTL DEF GateSpec
<1>2. ASSUME GateInv PROVE GateSafe
  BY <1>2 DEF GateInv, EditsCounted, LoadingTrue, GateSafe, LoadingIsLive
<1>3. GateSpec => [][GateSafe']_gVars
  BY <1>1, <1>2, PTL DEF GateSpec
<1>4. GateSpec => PublicNeverReachesDashboard
  <2>1. ASSUME GateInv, [GateNext]_gVars
        PROVE  \A r \in GateReqs :
                 (gReq[r].at # "passed" /\ gReq'[r].at = "passed" /\ gReq[r].public) =>
                    gReq[r].path \notin gFlows.roots /\ gReq'[r].headers = {}
    BY <2>1, PublicStep
  <2> QED
    BY <1>1, <2>1, PTL DEF GateSpec, PublicNeverReachesDashboard
<1>5. GateSpec => ConfigKeepsDeploys
  <2>1. ASSUME GateInv, [GateNext]_gVars
        PROVE  (gSync'.at = "applied" /\ gSync.at = "sent") => gFlows'.roots = gFlows.roots
    BY <2>1, DeployStep
  <2> QED
    BY <1>1, <2>1, PTL DEF GateSpec, ConfigKeepsDeploys
<1>6. GateSpec => ReadyIsRunning
  <2>1. ASSUME GateInv, [GateNext]_gVars
        PROVE  (gProbe.at = "answered" /\ gProbe'.at = "ready") =>
                  gChild.alive /\ gProbe.by = gChild.n
    BY <2>1, ReadyStep
  <2> QED
    BY <1>1, <2>1, PTL DEF GateSpec, ReadyIsRunning
<1> QED
  BY <1>3, <1>4, <1>5, <1>6 DEF GateSteps

-----------------------------------------------------------------------------
(* DbAdapter: connections, contexts and transactions *)

\* A write in the schema its author meant, and the context of a request.
OwnWrites == {w \in Requests \X Nat \X Paths \X Paths : w[3] = w[4]}
Scopes ==
  [kind : {"path", "tx", "sp"}, path : Paths, client : Conns \cup {NoConn}, mark : Nat,
   saved : Nat, from : Paths \cup {NoPath}, callbacks : Seq(OwnWrites)]

DbTypes ==
  /\ scopes \in [Requests -> Seq(Scopes)]
  /\ call \in [Requests -> {"idle", "pool", "sql", "threw"}]
  /\ want \in [Requests -> {"run", "begin"}]
  /\ ops \in Nat /\ lost \in Nat
  /\ conn \in [Requests -> Conns \cup {NoConn}] /\ queue \in Seq(Requests)
  /\ session \in [Conns -> Paths] /\ local \in [Conns -> Paths \cup {NoPath}]
  /\ pending \in [Conns -> Seq(OwnWrites)]
  /\ holder \in [Conns -> Requests \cup {NoConn}] /\ open \subseteq Conns
  /\ stored \subseteq OwnWrites
  /\ closing \in {"no", "pool", "sockets", "closed"}

\* The contexts of a request: one transaction at most, savepoints inside it
\* only, each with as many callbacks behind it as the ones before it.
StackTrue(q) ==
  /\ q # <<>> /\ q[1].kind = "path"
  /\ \A i, j \in 1..Len(q) : q[i].kind = "tx" /\ q[j].kind = "tx" => i = j
  /\ \A j \in 1..Len(q) : q[j].kind = "sp" =>
       /\ q[j].mark = q[j].saved
       /\ \E i \in 1..Len(q) : i < j /\ q[i].kind = "tx"
       /\ \A i \in 1..Len(q) : q[i].kind = "tx" => q[j].mark <= Len(q[i].callbacks)
       /\ \A i \in 1..Len(q) : i < j /\ q[i].kind = "sp" => q[i].mark <= q[j].mark

\* There is a transaction in a stack.
Inside(q) == \E i \in 1..Len(q) : q[i].kind = "tx"

StacksTrue == \A r \in Requests : StackTrue(scopes[r])

\* A connection is handed to one request, which knows it.
HeldOnce == \A r \in Requests, c \in Conns : holder[c] = r <=> conn[r] = c

\* Who waits for the pool waits once.
QueueTrue ==
  /\ \A i \in 1..Len(queue) : call[queue[i]] = "pool"
  /\ \A i, j \in 1..Len(queue) : queue[i] = queue[j] => i = j

\* A request has a connection while it is in a transaction or awaits an answer.
UseTrue(r) ==
  /\ call[r] = "pool" => conn[r] = NoConn
  /\ call[r] = "sql" => conn[r] # NoConn /\ (want[r] = "begin" => ~Inside(scopes[r]))
  /\ call[r] = "threw" => Inside(scopes[r])
  /\ Inside(scopes[r]) => conn[r] # NoConn
  /\ conn[r] # NoConn => Inside(scopes[r]) \/ call[r] = "sql"

UsesTrue == \A r \in Requests : UseTrue(r)

\* What a transaction will tell is what it has written, as long as its
\* connection lives.
TxTrue(r) ==
  \A i \in 1..Len(scopes[r]) : scopes[r][i].kind = "tx" =>
    /\ scopes[r][i].client = conn[r]
    /\ conn[r] \in open => scopes[r][i].callbacks = pending[conn[r]]

TxsTrue == \A r \in Requests : TxTrue(r)

\* A local search_path ends with its transaction.
LocalTrue ==
  \A c \in Conns : local[c] # NoPath => \E r \in Requests : conn[r] = c /\ Inside(scopes[r])

ClosingTrue ==
  /\ closing \in {"sockets", "closed"} => \A c \in Conns : holder[c] = NoConn
  /\ closing = "closed" => open = {}

ToldTrue == told \subseteq stored /\ (lost = 0 => stored \subseteq told)

DbInv ==
  /\ DbTypes /\ StacksTrue /\ HeldOnce /\ QueueTrue /\ UsesTrue /\ TxsTrue /\ LocalTrue
  /\ ClosingTrue /\ ToldTrue

\* Sequences: all but the last element,
LEMMA FrontFacts ==
  ASSUME NEW S, NEW q \in Seq(S), q # <<>>
  PROVE  /\ Front(q) \in Seq(S) /\ Len(Front(q)) = Len(q) - 1 /\ Len(q) \in Nat \ {0}
         /\ \A i \in 1..Len(q) - 1 : Front(q)[i] = q[i]
         /\ Last(q) = q[Len(q)] /\ Last(q) \in S
<1>1. /\ Front(q) \in Seq(S) /\ Len(Front(q)) = Len(q) - 1
      /\ \A i \in 1..Len(q) - 1 : Front(q)[i] = q[i]
  BY SMT DEF Front
<1>2. Len(q) \in Nat \ {0}
  BY SMT
<1>3. q[Len(q)] \in S
  BY <1>2, SMT
<1> QED
  BY <1>1, <1>2, <1>3 DEF Last

\* the first few,
LEMMA PrefixFacts ==
  ASSUME NEW S, NEW q \in Seq(S), NEW n \in 0..Len(q)
  PROVE  SubSeq(q, 1, n) \in Seq(S) /\ Len(SubSeq(q, 1, n)) = n
BY SMT

\* one more at the end,
LEMMA AppendFacts ==
  ASSUME NEW S, NEW q \in Seq(S), NEW x \in S
  PROVE  /\ Append(q, x) \in Seq(S) /\ Len(Append(q, x)) = Len(q) + 1 /\ Len(q) \in Nat
         /\ \A i \in 1..Len(q) : Append(q, x)[i] = q[i]
         /\ Append(q, x)[Len(q) + 1] = x
         /\ Range(Append(q, x)) = Range(q) \cup {x}
<1>1. /\ Append(q, x) \in Seq(S) /\ Len(Append(q, x)) = Len(q) + 1 /\ Len(q) \in Nat
      /\ \A i \in 1..Len(q) : Append(q, x)[i] = q[i]
      /\ Append(q, x)[Len(q) + 1] = x
  BY SMT
<1>2. DOMAIN Append(q, x) = 1..Len(q) + 1 /\ DOMAIN q = 1..Len(q)
  BY SMT
<1>3. Range(Append(q, x)) = Range(q) \cup {x}
  BY <1>1, <1>2, SMT DEF Range
<1> QED
  BY <1>1, <1>3

\* one of them replaced.
LEMMA ReplaceFacts ==
  ASSUME NEW S, NEW q \in Seq(S), NEW i \in 1..Len(q), NEW x \in S
  PROVE  /\ [q EXCEPT ![i] = x] \in Seq(S) /\ Len([q EXCEPT ![i] = x]) = Len(q)
         /\ \A j \in 1..Len(q) : [q EXCEPT ![i] = x][j] = IF j = i THEN x ELSE q[j]
<1>1. [q EXCEPT ![i] = x] \in Seq(S) /\ Len([q EXCEPT ![i] = x]) = Len(q)
  BY SMT
<1>2. \A j \in 1..Len(q) : [q EXCEPT ![i] = x][j] = IF j = i THEN x ELSE q[j]
  BY SMT
<1> QED
  BY <1>1, <1>2

\* The same transaction, or none, is at the bottom of two stacks.
SameTx(p, q) ==
  /\ \A i \in 1..Len(q) : q[i].kind = "tx" => \E j \in 1..Len(p) :
       p[j].kind = "tx" /\ p[j].client = q[i].client /\ p[j].callbacks = q[i].callbacks
  /\ \A j \in 1..Len(p) : p[j].kind = "tx" => \E i \in 1..Len(q) : q[i].kind = "tx"

\* The contexts after withSearchPath,
LEMMA PushPath ==
  ASSUME NEW q \in Seq(Scopes), StackTrue(q), NEW s \in Scopes, s.kind = "path"
  PROVE  StackTrue(Append(q, s)) /\ SameTx(q, Append(q, s)) /\ Append(q, s) \in Seq(Scopes)
<1> DEFINE n == Append(q, s)
<1>1. /\ n \in Seq(Scopes) /\ Len(n) = Len(q) + 1 /\ Len(q) \in Nat
      /\ \A i \in 1..Len(q) : n[i] = q[i]
      /\ n[Len(q) + 1] = s
  BY AppendFacts
<1>2. Len(q) # 0
  BY DEF StackTrue
<1>3. n # <<>> /\ n[1].kind = "path"
  BY <1>1, <1>2 DEF StackTrue
<1> HIDE DEF n
<1>4. \A i \in 1..Len(n) : n[i].kind \in {"tx", "sp"} => i \in 1..Len(q) /\ n[i] = q[i]
  BY <1>1
<1>5. StackTrue(n)
  <2>1. \A i, j \in 1..Len(n) : n[i].kind = "tx" /\ n[j].kind = "tx" => i = j
    BY <1>4 DEF StackTrue
  <2>2. ASSUME NEW j \in 1..Len(n), n[j].kind = "sp"
        PROVE  /\ n[j].mark = n[j].saved
               /\ \E i \in 1..Len(n) : i < j /\ n[i].kind = "tx"
               /\ \A i \in 1..Len(n) : n[i].kind = "tx" => n[j].mark <= Len(n[i].callbacks)
               /\ \A i \in 1..Len(n) : i < j /\ n[i].kind = "sp" => n[i].mark <= n[j].mark
    <3>1. j \in 1..Len(q) /\ n[j] = q[j] /\ q[j].kind = "sp"
      BY <1>4, <2>2
    <3>2. \E i \in 1..Len(n) : i < j /\ n[i].kind = "tx"
      BY <1>1, <3>1 DEF StackTrue
    <3> QED
      BY <1>4, <3>1, <3>2 DEF StackTrue
  <2> QED
    BY <1>3, <2>1, <2>2 DEF StackTrue
<1>6. SameTx(q, n)
  BY <1>1, <1>4 DEF SameTx
<1> QED
  BY <1>1, <1>5, <1>6 DEF n

\* after a return from it or from a nested transaction, or an error in it,
LEMMA DropScope ==
  ASSUME NEW q \in Seq(Scopes), StackTrue(q),
         Last(q).kind = "sp" \/ (Len(q) > 1 /\ Last(q).kind = "path")
  PROVE  StackTrue(Front(q)) /\ SameTx(q, Front(q)) /\ Front(q) \in Seq(Scopes)
<1> DEFINE n == Front(q)
<1>1. /\ n \in Seq(Scopes) /\ Len(n) = Len(q) - 1 /\ Len(q) \in Nat \ {0}
      /\ \A i \in 1..Len(q) - 1 : n[i] = q[i]
      /\ Last(q) = q[Len(q)]
  BY FrontFacts DEF StackTrue
<1> HIDE DEF n
<1>2. Len(q) > 1
  BY <1>1 DEF StackTrue
<1>3. n # <<>> /\ n[1].kind = "path"
  BY <1>1, <1>2 DEF StackTrue
<1>4. \A i \in 1..Len(q) : q[i].kind = "tx" => i \in 1..Len(n)
  BY <1>1
<1>5. StackTrue(n)
  <2>1. \A i, j \in 1..Len(n) : n[i].kind = "tx" /\ n[j].kind = "tx" => i = j
    BY <1>1 DEF StackTrue
  <2>2. ASSUME NEW j \in 1..Len(n), n[j].kind = "sp"
        PROVE  /\ n[j].mark = n[j].saved
               /\ \E i \in 1..Len(n) : i < j /\ n[i].kind = "tx"
               /\ \A i \in 1..Len(n) : n[i].kind = "tx" => n[j].mark <= Len(n[i].callbacks)
               /\ \A i \in 1..Len(n) : i < j /\ n[i].kind = "sp" => n[i].mark <= n[j].mark
    <3>1. j \in 1..Len(q) /\ n[j] = q[j] /\ q[j].kind = "sp"
      BY <1>1, <2>2
    <3>2. \A i \in 1..Len(n) : i \in 1..Len(q) /\ n[i] = q[i]
      BY <1>1
    <3>3. PICK i \in 1..Len(q) : i < j /\ q[i].kind = "tx"
      BY <3>1 DEF StackTrue
    <3>4. \E k \in 1..Len(n) : k < j /\ n[k].kind = "tx"
      BY <1>4, <3>2, <3>3
    <3> QED
      BY <3>1, <3>2, <3>4 DEF StackTrue
  <2> QED
    BY <1>3, <2>1, <2>2 DEF StackTrue
<1>6. SameTx(q, n)
  <2>1. \A i \in 1..Len(n) : i \in 1..Len(q) /\ n[i] = q[i]
    BY <1>1
  <2> QED
    BY <1>1, <1>4, <2>1 DEF SameTx
<1> QED
  BY <1>1, <1>5, <1>6 DEF n

\* and after setSearchPath.
LEMMA PathSet ==
  ASSUME NEW q \in Seq(Scopes), StackTrue(q), NEW p \in Paths
  PROVE  LET n == [q EXCEPT ![Len(q)] = [q[Len(q)] EXCEPT !.path = p]]
         IN  StackTrue(n) /\ SameTx(q, n) /\ n \in Seq(Scopes)
<1> DEFINE s == [q[Len(q)] EXCEPT !.path = p]
           n == [q EXCEPT ![Len(q)] = s]
<1>1. Len(q) \in 1..Len(q) /\ q[Len(q)] \in Scopes
  BY DEF StackTrue
<1>2. /\ s \in Scopes /\ s.kind = q[Len(q)].kind /\ s.client = q[Len(q)].client
      /\ s.callbacks = q[Len(q)].callbacks /\ s.mark = q[Len(q)].mark /\ s.saved = q[Len(q)].saved
  BY <1>1 DEF Scopes
<1> HIDE DEF s
<1>3. /\ n \in Seq(Scopes) /\ Len(n) = Len(q)
      /\ \A j \in 1..Len(q) : n[j] = IF j = Len(q) THEN s ELSE q[j]
  BY <1>1, <1>2, ReplaceFacts
<1> HIDE DEF n
<1>4. \A j \in 1..Len(q) : /\ n[j].kind = q[j].kind /\ n[j].client = q[j].client
                           /\ n[j].callbacks = q[j].callbacks
                           /\ n[j].mark = q[j].mark /\ n[j].saved = q[j].saved
  BY <1>2, <1>3
<1>5. n # <<>> /\ n[1].kind = "path"
  BY <1>1, <1>3, <1>4 DEF StackTrue
<1>6. StackTrue(n)
  <2>1. \A i, j \in 1..Len(n) : n[i].kind = "tx" /\ n[j].kind = "tx" => i = j
    BY <1>3, <1>4 DEF StackTrue
  <2>2. ASSUME NEW j \in 1..Len(n), n[j].kind = "sp"
        PROVE  /\ n[j].mark = n[j].saved
               /\ \E i \in 1..Len(n) : i < j /\ n[i].kind = "tx"
               /\ \A i \in 1..Len(n) : n[i].kind = "tx" => n[j].mark <= Len(n[i].callbacks)
               /\ \A i \in 1..Len(n) : i < j /\ n[i].kind = "sp" => n[i].mark <= n[j].mark
    BY <1>3, <1>4, <2>2 DEF StackTrue
  <2> QED
    BY <1>5, <2>1, <2>2 DEF StackTrue
<1>7. SameTx(q, n)
  BY <1>3, <1>4 DEF SameTx
<1> QED
  BY <1>3, <1>6, <1>7 DEF n, s

\* The contexts after SAVEPOINT.
LEMMA PushSavepoint ==
  ASSUME NEW q \in Seq(Scopes), StackTrue(q), NEW s \in Scopes, s.kind = "sp", s.mark = s.saved,
         NEW t \in 1..Len(q), q[t].kind = "tx", s.mark = Len(q[t].callbacks)
  PROVE  StackTrue(Append(q, s)) /\ SameTx(q, Append(q, s)) /\ Append(q, s) \in Seq(Scopes)
<1> DEFINE n == Append(q, s)
<1>1. /\ n \in Seq(Scopes) /\ Len(n) = Len(q) + 1 /\ Len(q) \in Nat
      /\ \A i \in 1..Len(q) : n[i] = q[i]
      /\ n[Len(q) + 1] = s
  BY AppendFacts
<1>2. Len(q) # 0
  BY DEF StackTrue
<1>3. n # <<>> /\ n[1].kind = "path"
  BY <1>1, <1>2 DEF StackTrue
<1> HIDE DEF n
<1>4. \A i \in 1..Len(n) : n[i].kind = "tx" => i = t
  <2>1. \A i \in 1..Len(q) : q[i].kind = "tx" => i = t
    BY DEF StackTrue
  <2>2. \A i \in 1..Len(n) : i \in 1..Len(q) \/ i = Len(q) + 1
    BY <1>1
  <2> QED
    BY <1>1, <2>1, <2>2
<1>5. StackTrue(n)
  <2>1. ASSUME NEW j \in 1..Len(n), n[j].kind = "sp"
        PROVE  /\ n[j].mark = n[j].saved
               /\ \E i \in 1..Len(n) : i < j /\ n[i].kind = "tx"
               /\ \A i \in 1..Len(n) : n[i].kind = "tx" => n[j].mark <= Len(n[i].callbacks)
               /\ \A i \in 1..Len(n) : i < j /\ n[i].kind = "sp" => n[i].mark <= n[j].mark
    <3>1. CASE j = Len(q) + 1
      <4>1. n[j] = s /\ t < j /\ n[t].kind = "tx" /\ n[t] = q[t] /\ t \in 1..Len(n)
        BY <1>1, <3>1
      <4>2. ASSUME NEW i \in 1..Len(n), i < j, n[i].kind = "sp" PROVE n[i].mark <= n[j].mark
        <5>1. i \in 1..Len(q) /\ n[i] = q[i]
          BY <1>1, <3>1, <4>2
        <5> QED
          BY <4>1, <4>2, <5>1 DEF StackTrue
      <4>3. s.mark <= Len(q[t].callbacks)
        <5>1. s.mark \in Nat
          BY DEF Scopes
        <5> QED
          BY <5>1
      <4> QED
        BY <1>4, <4>1, <4>2, <4>3
    <3>2. CASE j \in 1..Len(q)
      <4>1. n[j] = q[j] /\ n[t] = q[t] /\ t \in 1..Len(n)
        BY <1>1, <3>2
      <4>2. \A i \in 1..Len(n) : i < j => i \in 1..Len(q) /\ n[i] = q[i]
        BY <1>1, <3>2
      <4>3. t < j
        BY <2>1, <3>2, <4>1 DEF StackTrue
      <4>4. n[j].mark = n[j].saved /\ n[j].mark <= Len(n[t].callbacks)
        BY <2>1, <3>2, <4>1 DEF StackTrue
      <4>5. \A i \in 1..Len(n) : i < j /\ n[i].kind = "sp" => n[i].mark <= n[j].mark
        BY <2>1, <3>2, <4>1, <4>2 DEF StackTrue
      <4>6. n[t].kind = "tx"
        BY <4>1
      <4> QED
        BY <1>4, <4>1, <4>3, <4>4, <4>5, <4>6
    <3>3. j = Len(q) + 1 \/ j \in 1..Len(q)
      BY <1>1
    <3> QED
      BY <3>1, <3>2, <3>3
  <2>2. \A i, j \in 1..Len(n) : n[i].kind = "tx" /\ n[j].kind = "tx" => i = j
    BY <1>4
  <2> QED
    BY <1>3, <2>1, <2>2 DEF StackTrue
<1>6. SameTx(q, n)
  BY <1>1, <1>4 DEF SameTx
<1> QED
  BY <1>1, <1>5, <1>6 DEF n

\* The contexts when a transaction notes or forgets callbacks,
LEMMA CallbacksSet ==
  ASSUME NEW q \in Seq(Scopes), StackTrue(q), NEW t \in 1..Len(q), q[t].kind = "tx",
         NEW cs \in Seq(OwnWrites), \A j \in 1..Len(q) : q[j].kind = "sp" => q[j].mark <= Len(cs)
  PROVE  LET n == [q EXCEPT ![t] = [q[t] EXCEPT !.callbacks = cs]]
         IN  /\ StackTrue(n) /\ n \in Seq(Scopes) /\ Len(n) = Len(q)
             /\ n[t].kind = "tx" /\ n[t].client = q[t].client /\ n[t].callbacks = cs
             /\ \A i \in 1..Len(n) : n[i].kind = "tx" => i = t
<1> DEFINE s == [q[t] EXCEPT !.callbacks = cs]
           n == [q EXCEPT ![t] = s]
<1>1. q[t] \in Scopes
  OBVIOUS
<1>2. /\ s \in Scopes /\ s.kind = "tx" /\ s.client = q[t].client
      /\ s.callbacks = cs
  BY <1>1 DEF Scopes
<1> HIDE DEF s
<1>3. /\ n \in Seq(Scopes) /\ Len(n) = Len(q)
      /\ \A j \in 1..Len(q) : n[j] = IF j = t THEN s ELSE q[j]
  BY <1>2, ReplaceFacts
<1> HIDE DEF n
<1>4. /\ \A j \in 1..Len(q) : n[j].kind = q[j].kind
      /\ \A j \in 1..Len(q) : n[j].kind = "sp" => n[j] = q[j]
  BY <1>2, <1>3
<1>5. \A j \in 1..Len(q) : n[j].kind = "tx" => j = t
  BY <1>4 DEF StackTrue
<1>6. StackTrue(n)
  <2>1. n # <<>> /\ n[1].kind = "path"
    BY <1>3, <1>4 DEF StackTrue
  <2>2. ASSUME NEW j \in 1..Len(n), n[j].kind = "sp"
        PROVE  /\ n[j].mark = n[j].saved
               /\ \E i \in 1..Len(n) : i < j /\ n[i].kind = "tx"
               /\ \A i \in 1..Len(n) : n[i].kind = "tx" => n[j].mark <= Len(n[i].callbacks)
               /\ \A i \in 1..Len(n) : i < j /\ n[i].kind = "sp" => n[i].mark <= n[j].mark
    <3>1. n[j] = q[j] /\ q[j].kind = "sp" /\ j \in 1..Len(q)
      BY <1>3, <1>4, <2>2
    <3>2. n[t].callbacks = cs
      BY <1>2, <1>3
    <3>3. \A i \in 1..Len(n) : n[i].kind = "tx" => n[j].mark <= Len(n[i].callbacks)
      BY <1>3, <1>5, <3>1, <3>2
    <3>4. \E i \in 1..Len(n) : i < j /\ n[i].kind = "tx"
      BY <1>3, <1>4, <3>1 DEF StackTrue
    <3>5. \A i \in 1..Len(n) : i < j /\ n[i].kind = "sp" => n[i].mark <= n[j].mark
      BY <1>3, <1>4, <3>1 DEF StackTrue
    <3> QED
      BY <3>1, <3>3, <3>4, <3>5 DEF StackTrue
  <2>3. \A i, j \in 1..Len(n) : n[i].kind = "tx" /\ n[j].kind = "tx" => i = j
    BY <1>3, <1>5
  <2> QED
    BY <2>1, <2>2, <2>3 DEF StackTrue
<1>7. n[t].kind = "tx" /\ n[t].client = q[t].client /\ n[t].callbacks = cs
  BY <1>2, <1>3
<1> QED
  BY <1>3, <1>5, <1>6, <1>7 DEF n, s

\* when it begins,
LEMMA TxPushed ==
  ASSUME NEW q \in Seq(Scopes), StackTrue(q), ~Inside(q), NEW s \in Scopes, s.kind = "tx"
  PROVE  LET n == Append(q, s)
         IN  /\ StackTrue(n) /\ n \in Seq(Scopes) /\ Inside(n)
             /\ \A i \in 1..Len(n) : n[i].kind = "tx" => n[i] = s
<1> DEFINE n == Append(q, s)
<1>1. /\ n \in Seq(Scopes) /\ Len(n) = Len(q) + 1 /\ Len(q) \in Nat
      /\ \A i \in 1..Len(q) : n[i] = q[i]
      /\ n[Len(q) + 1] = s
  BY AppendFacts
<1>2. Len(q) # 0
  BY DEF StackTrue
<1>3. n # <<>> /\ n[1].kind = "path"
  BY <1>1, <1>2 DEF StackTrue
<1> HIDE DEF n
<1>4. \A i \in 1..Len(q) : q[i].kind \notin {"tx", "sp"}
  BY DEF Inside, StackTrue
<1>5. \A i \in 1..Len(n) : n[i].kind \in {"tx", "sp"} => i = Len(q) + 1
  BY <1>1, <1>4
<1>6. StackTrue(n)
  BY <1>1, <1>3, <1>5 DEF StackTrue
<1>7. Inside(n) /\ \A i \in 1..Len(n) : n[i].kind = "tx" => n[i] = s
  BY <1>1, <1>5 DEF Inside
<1> QED
  BY <1>1, <1>6, <1>7 DEF n

\* and when it ends.
LEMMA TxDropped ==
  ASSUME NEW q \in Seq(Scopes), StackTrue(q), Last(q).kind = "tx"
  PROVE  StackTrue(Front(q)) /\ Front(q) \in Seq(Scopes) /\ ~Inside(Front(q))
<1> DEFINE n == Front(q)
<1>1. /\ n \in Seq(Scopes) /\ Len(n) = Len(q) - 1 /\ Len(q) \in Nat \ {0}
      /\ \A i \in 1..Len(q) - 1 : n[i] = q[i]
      /\ Last(q) = q[Len(q)]
  BY FrontFacts DEF StackTrue
<1> HIDE DEF n
<1>2. Len(q) > 1
  BY <1>1 DEF StackTrue
<1>3. n # <<>> /\ n[1].kind = "path"
  BY <1>1, <1>2 DEF StackTrue
<1>4. \A i \in 1..Len(n) : i \in 1..Len(q) /\ i < Len(q) /\ n[i] = q[i]
  BY <1>1
<1>5. \A i \in 1..Len(n) : n[i].kind \notin {"tx", "sp"}
  <2>1. \A i \in 1..Len(q) : q[i].kind = "tx" => i = Len(q)
    BY <1>1 DEF StackTrue
  <2>2. \A i \in 1..Len(n) : n[i].kind # "tx"
    BY <1>4, <2>1
  <2>3. ASSUME NEW i \in 1..Len(n), n[i].kind = "sp" PROVE FALSE
    <3>1. PICK k \in 1..Len(q) : k < i /\ q[k].kind = "tx"
      BY <1>4, <2>3 DEF StackTrue
    <3> QED
      BY <1>1, <1>4, <2>1, <3>1
  <2> QED
    BY <2>2, <2>3
<1> QED
  BY <1>1, <1>3, <1>5 DEF n, StackTrue, Inside

\* A request is in a transaction when its contexts hold one, and then that is
\* its transaction; its client is its connection.
LEMMA TheOnlyTx ==
  ASSUME DbInv, NEW r \in Requests
  PROVE  /\ InTx(r) <=> Inside(scopes[r])
         /\ InTx(r) => /\ TheTx(r) \in 1..Len(scopes[r]) /\ scopes[r][TheTx(r)].kind = "tx"
                       /\ \A i \in 1..Len(scopes[r]) : scopes[r][i].kind = "tx" => i = TheTx(r)
         /\ Client(r) = conn[r]
<1>1. scopes[r] \in Seq(Scopes) /\ DOMAIN scopes[r] = 1..Len(scopes[r])
  BY DEF DbInv, DbTypes
<1>2. InTx(r) <=> Inside(scopes[r])
  BY <1>1 DEF InTx, TxAt, Inside
<1>3. InTx(r) => TheTx(r) \in TxAt(r)
  BY DEF InTx, TheTx
<1>4. InTx(r) => /\ TheTx(r) \in 1..Len(scopes[r]) /\ scopes[r][TheTx(r)].kind = "tx"
                 /\ \A i \in 1..Len(scopes[r]) : scopes[r][i].kind = "tx" => i = TheTx(r)
  BY <1>1, <1>3 DEF TxAt, DbInv, StacksTrue, StackTrue
<1>5. Client(r) = conn[r]
  BY <1>4 DEF Client, DbInv, TxsTrue, TxTrue
<1> QED
  BY <1>2, <1>4, <1>5

\* A step of one request: it touches its own contexts and its own connection.
Mine(r) ==
  /\ \A s \in Requests \ {r} :
       /\ scopes'[s] = scopes[s] /\ call'[s] = call[s]
       /\ want'[s] = want[s] /\ conn'[s] = conn[s]
  /\ \A c \in Conns : c # conn[r] => pending'[c] = pending[c] /\ local'[c] = local[c]
  /\ \A c \in Conns : holder'[c] \in {holder[c], NoConn}
  /\ open' \subseteq open /\ closing' = closing

\* What that leaves to others, and what the request has to see to itself.
LEMMA OthersKept ==
  ASSUME DbInv, NEW r \in Requests, Mine(r), StackTrue(scopes'[r]), UseTrue(r)', TxTrue(r)',
         conn[r] \in Conns =>
           local'[conn[r]] = NoPath \/ (conn'[r] = conn[r] /\ Inside(scopes'[r]))
  PROVE  StacksTrue' /\ UsesTrue' /\ TxsTrue' /\ LocalTrue' /\ ClosingTrue'
<1>1. StacksTrue'
  BY DEF DbInv, StacksTrue, Mine
<1>2. \A s \in Requests \ {r} : conn[s] \in Conns => conn[s] # conn[r]
  BY DbAssumption DEF DbInv, HeldOnce
<1>3. UsesTrue'
  <2>1. ASSUME NEW s \in Requests \ {r} PROVE UseTrue(s)'
    BY <2>1 DEF DbInv, UsesTrue, UseTrue, Mine
  <2> QED
    BY <2>1 DEF UsesTrue
<1>4. TxsTrue'
  <2>1. ASSUME NEW s \in Requests \ {r} PROVE TxTrue(s)'
    <3>1. /\ scopes'[s] = scopes[s] /\ conn'[s] = conn[s] /\ TxTrue(s)
          /\ conn[s] \in open' => conn[s] \in open /\ pending'[conn[s]] = pending[conn[s]]
      BY <1>2 DEF DbInv, DbTypes, TxsTrue, Mine
    <3> QED
      BY <3>1 DEF TxTrue
  <2> QED
    BY <2>1 DEF TxsTrue
<1>5. LocalTrue'
  <2>1. ASSUME NEW c \in Conns, local'[c] # NoPath
        PROVE  \E s \in Requests : conn'[s] = c /\ Inside(scopes'[s])
    <3>1. CASE c = conn[r]
      BY <2>1, <3>1
    <3>2. CASE c # conn[r]
      <4>1. PICK s \in Requests : conn[s] = c /\ Inside(scopes[s])
        BY <2>1, <3>2 DEF DbInv, LocalTrue, Mine
      <4> QED
        BY <3>2, <4>1 DEF Mine
    <3> QED
      BY <3>1, <3>2
  <2> QED
    BY <2>1 DEF LocalTrue
<1>6. ClosingTrue'
  BY DEF DbInv, ClosingTrue, Mine
<1> QED
  BY <1>1, <1>3, <1>4, <1>5, <1>6

\* A step that leaves the queue alone keeps its order,
LEMMA QueueStays ==
  ASSUME DbInv, NEW r \in Requests, call[r] # "pool", queue' = queue,
         \A s \in Requests \ {r} : call'[s] = call[s]
  PROVE  QueueTrue'
<1>1. \A i \in 1..Len(queue) : queue[i] \in Requests
  BY DEF DbInv, DbTypes
<1> QED
  BY <1>1 DEF DbInv, QueueTrue

\* and one that gives the connection back leaves it to nobody.
LEMMA GivenBack ==
  ASSUME DbInv, NEW r \in Requests, conn' = [conn EXCEPT ![r] = NoConn],
         conn[r] # NoConn, holder' = [holder EXCEPT ![conn[r]] = NoConn]
  PROVE  HeldOnce' /\ conn[r] \in Conns /\ conn' \in [Requests -> Conns \cup {NoConn}]
           /\ holder' \in [Conns -> Requests \cup {NoConn}]
<1>1. conn[r] \in Conns /\ NoConn \notin Conns /\ NoConn \notin Requests
  BY DbAssumption DEF DbInv, DbTypes
<1>2. conn' \in [Requests -> Conns \cup {NoConn}] /\ holder' \in [Conns -> Requests \cup {NoConn}]
  BY <1>1 DEF DbInv, DbTypes
<1>3. ASSUME NEW s \in Requests, NEW c \in Conns PROVE holder'[c] = s <=> conn'[s] = c
  BY <1>1 DEF DbInv, DbTypes, HeldOnce
<1> QED
  BY <1>1, <1>2, <1>3 DEF HeldOnce

\* A move from context to context changes nothing else.
LEMMA StackMoves ==
  ASSUME DbInv, NEW r \in Requests, NEW q \in Seq(Scopes), StackTrue(q), SameTx(scopes[r], q),
         scopes' = [scopes EXCEPT ![r] = q], ops' \in Nat,
         UNCHANGED <<call, want, conn, queue, session, local, pending, holder, open, stored,
                     told, lost, closing>>
  PROVE  DbInv'
<1>1. scopes' \in [Requests -> Seq(Scopes)] /\ scopes'[r] = q
  BY DEF DbInv, DbTypes
<1>2. DbTypes'
  BY <1>1 DEF DbInv, DbTypes
<1>3. Inside(q) <=> Inside(scopes[r])
  BY DEF SameTx, Inside
<1>4. Mine(r)
  BY DEF DbInv, DbTypes, Mine
<1>5. UseTrue(r)'
  BY <1>1, <1>3 DEF DbInv, UsesTrue, UseTrue
<1>6. TxTrue(r)'
  BY <1>1 DEF DbInv, TxsTrue, TxTrue, SameTx
<1>7. conn[r] \in Conns => local'[conn[r]] = NoPath \/ (conn'[r] = conn[r] /\ Inside(scopes'[r]))
  <2>1. SUFFICES ASSUME conn[r] \in Conns, local[conn[r]] # NoPath PROVE Inside(q)
    BY <1>1
  <2>2. PICK s \in Requests : conn[s] = conn[r] /\ Inside(scopes[s])
    BY <2>1 DEF DbInv, LocalTrue
  <2>3. s = r
    BY <2>1, <2>2 DEF DbInv, HeldOnce
  <2> QED
    BY <1>3, <2>2, <2>3
<1>8. StacksTrue' /\ UsesTrue' /\ TxsTrue' /\ LocalTrue' /\ ClosingTrue'
  BY <1>1, <1>4, <1>5, <1>6, <1>7, OthersKept
<1>9. HeldOnce' /\ QueueTrue' /\ ToldTrue'
  BY DEF DbInv, HeldOnce, QueueTrue, ToldTrue
<1> QED
  BY <1>2, <1>8, <1>9 DEF DbInv

\* The contexts a request enters are contexts.
LEMMA ScopeFacts ==
  ASSUME NEW p \in Paths, NEW k \in {"path", "tx", "sp"}
  PROVE  Scope(k, p) \in Scopes /\ Scope(k, p).kind = k
BY DEF Scope, Scopes

\* A request always has a context, and a schema.
LEMMA TopFacts ==
  ASSUME DbInv, NEW r \in Requests
  PROVE  /\ scopes[r] \in Seq(Scopes) /\ StackTrue(scopes[r]) /\ scopes[r] # <<>>
         /\ Len(scopes[r]) \in Nat \ {0}
         /\ Top(r) = scopes[r][Len(scopes[r])] /\ Top(r) \in Scopes /\ Path(r) \in Paths
<1>1. scopes[r] \in Seq(Scopes) /\ StackTrue(scopes[r]) /\ scopes[r] # <<>>
  BY DEF DbInv, DbTypes, StacksTrue, StackTrue
<1>2. Last(scopes[r]) = scopes[r][Len(scopes[r])] /\ Last(scopes[r]) \in Scopes
      /\ Len(scopes[r]) \in Nat \ {0}
  BY <1>1, FrontFacts
<1> QED
  BY <1>1, <1>2 DEF Top, Path, Scopes

\* Entering and leaving contexts.
LEMMA PathsKept ==
  ASSUME DbInv, NEW r \in Requests,
         \/ \E p \in Paths : setSearchPath(r, p) \/ withSearchPath(r, p)
         \/ LeavePath(r) \/ PassPath(r) \/ Release(r)
  PROVE  DbInv'
<1> DEFINE q == scopes[r]
<1>1. q \in Seq(Scopes) /\ StackTrue(q) /\ q # <<>> /\ Len(q) \in Nat \ {0} /\ Top(r) = q[Len(q)]
  BY TopFacts
<1>2. ASSUME NEW p \in Paths, setSearchPath(r, p) PROVE DbInv'
  <2> DEFINE n == [q EXCEPT ![Len(q)] = [q[Len(q)] EXCEPT !.path = p]]
  <2>1. scopes' = [scopes EXCEPT ![r] = n]
    BY <1>2 DEF setSearchPath, SetPath
  <2>2. StackTrue(n) /\ SameTx(q, n) /\ n \in Seq(Scopes)
    BY <1>1, PathSet
  <2>3. /\ ops' \in Nat
        /\ UNCHANGED <<call, want, conn, queue, session, local, pending, holder, open, stored,
                       told, lost, closing>>
    BY <1>2 DEF setSearchPath, Counted, DbInv, DbTypes
  <2> HIDE DEF n
  <2> QED
    BY <2>1, <2>2, <2>3, StackMoves
<1>3. ASSUME NEW p \in Paths, withSearchPath(r, p) PROVE DbInv'
  <2> DEFINE n == Append(q, Scope("path", p))
  <2>1. scopes' = [scopes EXCEPT ![r] = n]
    BY <1>3 DEF withSearchPath, Push
  <2>2. StackTrue(n) /\ SameTx(q, n) /\ n \in Seq(Scopes)
    BY <1>1, PushPath, ScopeFacts
  <2>3. /\ ops' \in Nat
        /\ UNCHANGED <<call, want, conn, queue, session, local, pending, holder, open, stored,
                       told, lost, closing>>
    BY <1>3 DEF withSearchPath, Counted, DbInv, DbTypes
  <2> HIDE DEF n
  <2> QED
    BY <2>1, <2>2, <2>3, StackMoves
<1>4. CASE LeavePath(r) \/ PassPath(r) \/ Release(r)
  <2> DEFINE n == Front(q)
  <2>1. scopes' = [scopes EXCEPT ![r] = n]
    BY <1>4 DEF LeavePath, PassPath, Release, Drop
  <2>2. Last(q).kind = "sp" \/ (Len(q) > 1 /\ Last(q).kind = "path")
    <3> HIDE DEF n
    <3>1. CASE LeavePath(r) \/ Release(r)
      <4>1. Last(q) = Top(r)
        BY DEF Top
      <4>2. CASE LeavePath(r)
        BY <4>1, <4>2 DEF LeavePath
      <4>3. CASE Release(r)
        BY <4>1, <4>3 DEF Release
      <4> QED
        BY <3>1, <4>2, <4>3
    <3>2. CASE PassPath(r)
      <4>1. Inside(q) /\ Last(q).kind = "path"
        BY <3>2 DEF PassPath, Top, DbInv, UsesTrue, UseTrue
      <4>2. q[1].kind = "path"
        BY <1>1 DEF StackTrue
      <4>3. Len(q) > 1
        BY <1>1, <4>1, <4>2 DEF Inside
      <4> QED
        BY <4>1, <4>3
    <3> QED
      BY <1>4, <3>1, <3>2
  <2>3. StackTrue(n) /\ SameTx(q, n) /\ n \in Seq(Scopes)
    BY <1>1, <2>2, DropScope
  <2>4. /\ ops' \in Nat
        /\ UNCHANGED <<call, want, conn, queue, session, local, pending, holder, open, stored,
                       told, lost, closing>>
    BY <1>4 DEF LeavePath, PassPath, Release, DbInv, DbTypes
  <2> HIDE DEF n
  <2> QED
    BY <2>1, <2>3, <2>4, StackMoves
<1> QED
  BY <1>2, <1>3, <1>4

\* SAVEPOINT: the callbacks noted so far are those of the writes so far.
LEMMA SavepointKept == ASSUME DbInv, NEW r \in Requests, Savepoint(r) PROVE DbInv'
<1> DEFINE q == scopes[r]
           c == conn[r]
           t == TheTx(r)
           s == [Scope("sp", Path(r)) EXCEPT !.mark = Len(Callbacks(r)),
                                             !.saved = Len(pending[c]), !.from = local[c]]
           n == Append(q, s)
<1>1. q \in Seq(Scopes) /\ StackTrue(q) /\ Path(r) \in Paths
  BY TopFacts
<1>2. InTx(r) /\ Client(r) = c /\ c \in open
  BY TheOnlyTx DEF Savepoint
<1>3. t \in 1..Len(q) /\ q[t].kind = "tx"
  BY <1>2, TheOnlyTx
<1>4. Callbacks(r) = q[t].callbacks /\ Callbacks(r) = pending[c]
  BY <1>2, <1>3 DEF Callbacks, DbInv, TxsTrue, TxTrue
<1>5. c \in Conns /\ pending[c] \in Seq(OwnWrites) /\ local[c] \in Paths \cup {NoPath}
  BY <1>2 DEF DbInv, DbTypes
<1>6. s \in Scopes /\ s.kind = "sp" /\ s.mark = s.saved /\ s.mark = Len(q[t].callbacks)
  <2>1. Len(pending[c]) \in Nat
    BY <1>5
  <2>2. Scope("sp", Path(r)) \in Scopes /\ Scope("sp", Path(r)).kind = "sp"
    BY <1>1, ScopeFacts
  <2>3. Len(Callbacks(r)) = Len(pending[c]) /\ Len(q[t].callbacks) = Len(pending[c])
    BY <1>4
  <2> HIDE DEF q, t, c
  <2> QED
    BY <1>5, <2>1, <2>2, <2>3 DEF Scopes, s
<1>7. scopes' = [scopes EXCEPT ![r] = n]
  BY <1>2 DEF Savepoint, Push
<1>8. /\ ops' \in Nat
      /\ UNCHANGED <<call, want, conn, queue, session, local, pending, holder, open, stored,
                     told, lost, closing>>
  BY DEF Savepoint, Counted, DbInv, DbTypes
<1> HIDE DEF s
<1>9. StackTrue(n) /\ SameTx(q, n) /\ n \in Seq(Scopes)
  BY <1>1, <1>3, <1>6, PushSavepoint
<1> HIDE DEF n
<1> QED
  BY <1>7, <1>8, <1>9, StackMoves

\* A call: in a transaction it goes to its client, else the request waits in
\* the queue, where it was not yet.
LEMMA CallsKept ==
  ASSUME DbInv, NEW r \in Requests, runner(r) \/ transaction(r)
  PROVE  DbInv'
<1>1. call[r] = "idle" /\ (InTx(r) <=> Inside(scopes[r]))
  BY TheOnlyTx DEF runner, transaction, MayCall, NoRequest
<1>2. /\ ops' \in Nat
      /\ UNCHANGED <<scopes, conn, session, local, pending, holder, open, stored, told, lost,
                     closing>>
  BY DEF runner, transaction, Counted, DbInv, DbTypes
<1>3. /\ want' \in [Requests -> {"run", "begin"}]
      /\ \A s \in Requests \ {r} : want'[s] = want[s]
      /\ \/ call' = [call EXCEPT ![r] = "sql"] /\ queue' = queue /\ Inside(scopes[r])
            /\ want'[r] = "run"
         \/ call' = [call EXCEPT ![r] = "pool"] /\ queue' = Append(queue, r) /\ ~Inside(scopes[r])
  BY <1>1 DEF runner, transaction, UsesTransaction, Await, DbInv, DbTypes
<1>4. queue \in Seq(Requests) /\ call \in [Requests -> {"idle", "pool", "sql", "threw"}]
  BY DEF DbInv, DbTypes
<1>5. DbTypes'
  <2>1. queue' \in Seq(Requests)
    BY <1>3, <1>4, AppendFacts
  <2> QED
    BY <1>2, <1>3, <1>4, <2>1 DEF DbInv, DbTypes
<1>6. QueueTrue'
  <2>1. CASE queue' = queue
    <3>1. \A s \in Requests \ {r} : call'[s] = call[s]
      BY <1>3, <1>4
    <3> QED
      BY <1>1, <2>1, <3>1, QueueStays
  <2>2. CASE call' = [call EXCEPT ![r] = "pool"] /\ queue' = Append(queue, r)
    <3>1. /\ Len(queue') = Len(queue) + 1 /\ Len(queue) \in Nat
          /\ \A i \in 1..Len(queue) : queue'[i] = queue[i] /\ queue[i] \in Requests
          /\ queue'[Len(queue) + 1] = r
      BY <1>4, <2>2, AppendFacts
    <3>2. \A i \in 1..Len(queue) : call[queue[i]] = "pool" /\ queue[i] # r
      BY <1>1 DEF DbInv, QueueTrue
    <3>3. \A i \in 1..Len(queue') : call'[queue'[i]] = "pool"
      BY <1>4, <2>2, <3>1, <3>2
    <3>4. ASSUME NEW i \in 1..Len(queue'), NEW j \in 1..Len(queue'), queue'[i] = queue'[j]
          PROVE  i = j
      <4>1. CASE i \in 1..Len(queue) /\ j \in 1..Len(queue)
        BY <3>1, <3>4, <4>1 DEF DbInv, QueueTrue
      <4> QED
        BY <3>1, <3>2, <3>4, <4>1
    <3> QED
      BY <3>3, <3>4 DEF QueueTrue
  <2> QED
    BY <1>3, <2>1, <2>2
<1>7. UseTrue(r)'
  <2>1. UseTrue(r)
    BY DEF DbInv, UsesTrue
  <2> QED
    BY <1>1, <1>2, <1>3, <1>4, <2>1 DEF UseTrue
<1>8. TxTrue(r)'
  BY <1>2 DEF DbInv, TxsTrue, TxTrue
<1>9. Mine(r)
  BY <1>2, <1>3, <1>4 DEF DbInv, DbTypes, Mine
<1>10. conn[r] \in Conns => local'[conn[r]] = NoPath \/ (conn'[r] = conn[r] /\ Inside(scopes'[r]))
  <2>1. conn[r] \in Conns => Inside(scopes[r])
    BY <1>1, DbAssumption DEF DbInv, UsesTrue, UseTrue
  <2> QED
    BY <1>2, <2>1
<1>11. StackTrue(scopes'[r])
  BY <1>2 DEF DbInv, StacksTrue
<1>12. StacksTrue' /\ UsesTrue' /\ TxsTrue' /\ LocalTrue' /\ ClosingTrue'
  BY <1>7, <1>8, <1>9, <1>10, <1>11, OthersKept
<1>13. HeldOnce' /\ ToldTrue'
  BY <1>2 DEF DbInv, HeldOnce, ToldTrue
<1> QED
  BY <1>5, <1>6, <1>12, <1>13 DEF DbInv

\* The pool hands a free connection to the first in the queue, or refuses him.
LEMMA PoolKept == ASSUME DbInv, PoolStep PROVE DbInv'
<1>1. /\ queue # <<>> /\ queue \in Seq(Requests)
      /\ queue' = Tail(queue) /\ UNCHANGED <<scopes, want, ops, local, pending, stored, told, lost,
                                             closing>>
  BY DEF PoolStep, PoolGives, PoolRefuses, DbInv, DbTypes
<1> PICK r \in Requests : r = Head(queue)
  BY <1>1
<1>2. /\ r \in Requests /\ r = queue[1] /\ queue' \in Seq(Requests) /\ Len(queue') = Len(queue) - 1
      /\ Len(queue) \in Nat \ {0} /\ \A i \in 1..Len(queue') : queue'[i] = queue[i + 1]
      /\ \A i \in 1..Len(queue) : queue[i] \in Requests
  BY <1>1
<1>3. call[r] = "pool" /\ conn[r] = NoConn /\ ~Inside(scopes[r])
  BY <1>2 DEF DbInv, QueueTrue, UsesTrue, UseTrue
<1>4. \A i \in 1..Len(queue') : i + 1 \in 1..Len(queue) /\ queue'[i] # r
  BY <1>2 DEF DbInv, QueueTrue
<1>5. ASSUME NEW x \in {"idle", "sql"}, call' = [call EXCEPT ![r] = x] PROVE QueueTrue'
  <2>1. call \in [Requests -> {"idle", "pool", "sql", "threw"}]
    BY DEF DbInv, DbTypes
  <2>2. \A i \in 1..Len(queue') : call'[queue'[i]] = "pool"
    BY <1>2, <1>4, <1>5, <2>1 DEF DbInv, QueueTrue
  <2>3. ASSUME NEW i \in 1..Len(queue'), NEW j \in 1..Len(queue'), queue'[i] = queue'[j]
        PROVE  i = j
    <3>1. i + 1 = j + 1
      BY <1>2, <1>4, <2>3 DEF DbInv, QueueTrue
    <3> QED
      BY <3>1
  <2> QED
    BY <2>2, <2>3 DEF QueueTrue
<1>6. ASSUME PoolRefuses PROVE DbInv'
  <2>1. call' = [call EXCEPT ![r] = "idle"] /\ UNCHANGED <<conn, session, holder, open>>
    BY <1>6 DEF PoolRefuses, Await
  <2>2. DbTypes'
    BY <1>1, <1>2, <2>1 DEF DbInv, DbTypes
  <2>9. /\ scopes' = scopes /\ conn' = conn /\ pending' = pending /\ open' = open
        /\ call'[r] = "idle"
    BY <1>1, <1>2, <2>1 DEF DbInv, DbTypes
  <2>3. UseTrue(r)'
    BY <1>3, <2>9 DEF UseTrue
  <2>4. TxTrue(r)' /\ StackTrue(scopes'[r])
    <3>1. TxTrue(r) /\ StackTrue(scopes[r])
      BY <1>2 DEF DbInv, TxsTrue, StacksTrue
    <3> QED
      BY <2>9, <3>1 DEF TxTrue
  <2>5. Mine(r)
    BY <1>1, <2>1 DEF DbInv, DbTypes, Mine
  <2>6. conn[r] \in Conns => local'[conn[r]] = NoPath \/ (conn'[r] = conn[r] /\ Inside(scopes'[r]))
    BY <1>3, DbAssumption
  <2>7. StacksTrue' /\ UsesTrue' /\ TxsTrue' /\ LocalTrue' /\ ClosingTrue'
    BY <1>2, <2>3, <2>4, <2>5, <2>6, OthersKept
  <2>8. HeldOnce' /\ ToldTrue'
    BY <1>1, <2>1 DEF DbInv, HeldOnce, ToldTrue
  <2> QED
    BY <1>5, <2>1, <2>2, <2>7, <2>8 DEF DbInv
<1>7. ASSUME NEW c \in Conns, PoolGives(c) PROVE DbInv'
  <2>1. /\ closing = "no" /\ holder[c] = NoConn /\ call' = [call EXCEPT ![r] = "sql"]
        /\ holder' = [holder EXCEPT ![c] = r] /\ conn' = [conn EXCEPT ![r] = c]
        /\ open' = open \cup {c}
        /\ session' = IF c \in open THEN session ELSE [session EXCEPT ![c] = "public"]
    BY <1>7 DEF PoolGives, Await
  <2>2. NoConn \notin Conns /\ NoConn \notin Requests /\ "public" \in Paths
    BY DbAssumption DEF Paths
  <2>3. DbTypes'
    BY <1>1, <1>2, <2>1, <2>2 DEF DbInv, DbTypes
  <2>4. HeldOnce'
    BY <1>2, <1>3, <2>1, <2>2 DEF DbInv, DbTypes, HeldOnce
  <2>5. \A s \in Requests : conn[s] # c
    BY <2>1, <2>2 DEF DbInv, HeldOnce
  <2>6. \A s \in Requests \ {r} : call'[s] = call[s] /\ conn'[s] = conn[s]
    BY <2>1 DEF DbInv, DbTypes
  <2>7. conn'[r] = c /\ call'[r] = "sql"
    BY <1>2, <2>1 DEF DbInv, DbTypes
  <2>8. ASSUME NEW s \in Requests PROVE UseTrue(s)' /\ TxTrue(s)'
    <3>1. CASE s = r
      BY <1>1, <1>3, <2>2, <2>7, <3>1 DEF UseTrue, TxTrue, Inside
    <3>2. CASE s # r
      <4>1. UseTrue(s) /\ TxTrue(s)
        BY DEF DbInv, UsesTrue, TxsTrue
      <4>2. conn[s] \in open' => conn[s] \in open
        BY <2>1, <2>5
      <4> QED
        BY <1>1, <2>6, <3>2, <4>1, <4>2 DEF UseTrue, TxTrue
    <3> QED
      BY <3>1, <3>2
  <2>9. LocalTrue'
    <3>1. ASSUME NEW d \in Conns, local'[d] # NoPath
          PROVE  \E s \in Requests : conn'[s] = d /\ Inside(scopes'[s])
      <4>1. PICK s \in Requests : conn[s] = d /\ Inside(scopes[s])
        BY <1>1, <3>1 DEF DbInv, LocalTrue
      <4> QED
        BY <1>1, <1>3, <2>6, <4>1
    <3> QED
      BY <3>1 DEF LocalTrue
  <2>10. StacksTrue' /\ ClosingTrue' /\ ToldTrue'
    BY <1>1, <2>1 DEF DbInv, StacksTrue, ClosingTrue, ToldTrue
  <2> QED
    BY <1>5, <2>1, <2>3, <2>4, <2>8, <2>9, <2>10 DEF DbInv, UsesTrue, TxsTrue
<1> QED
  BY <1>6, <1>7 DEF PoolStep

\* BEGIN: the transaction starts with no writes and no callbacks.
LEMMA BeginKept == ASSUME DbInv, NEW r \in Requests, Begin(r) PROVE DbInv'
<1> DEFINE q == scopes[r]
           c == conn[r]
           s == [Scope("tx", Path(r)) EXCEPT !.client = c]
           n == Append(q, s)
<1>1. q \in Seq(Scopes) /\ StackTrue(q) /\ Path(r) \in Paths
  BY TopFacts
<1>2. /\ call[r] = "sql" /\ c \in open /\ c \in Conns /\ ~Inside(q)
      /\ scopes' = [scopes EXCEPT ![r] = n] /\ local' = [local EXCEPT ![c] = Path(r)]
      /\ pending' = [pending EXCEPT ![c] = <<>>] /\ call' = [call EXCEPT ![r] = "idle"]
      /\ UNCHANGED <<want, ops, conn, queue, session, holder, open, stored, told, lost, closing>>
  BY DEF Begin, Push, Await, DbInv, DbTypes, UsesTrue, UseTrue
<1>3. s \in Scopes /\ s.kind = "tx" /\ s.client = c /\ s.callbacks = <<>>
  <2>1. Scope("tx", Path(r)) \in Scopes /\ Scope("tx", Path(r)).kind = "tx"
    BY <1>1, ScopeFacts
  <2>2. Scope("tx", Path(r)).callbacks = <<>>
    BY DEF Scope
  <2> HIDE DEF c
  <2> QED
    BY <1>2, <2>1, <2>2 DEF Scopes
<1> HIDE DEF s
<1>4. /\ StackTrue(n) /\ n \in Seq(Scopes) /\ Inside(n)
      /\ \A i \in 1..Len(n) : n[i].kind = "tx" => n[i] = s
  BY <1>1, <1>2, <1>3, TxPushed
<1> HIDE DEF n
<1>5. scopes'[r] = n /\ pending'[c] = <<>> /\ call'[r] = "idle" /\ conn'[r] = c
  BY <1>2 DEF DbInv, DbTypes
<1>6. DbTypes'
  <2>1. scopes' \in [Requests -> Seq(Scopes)]
    BY <1>2, <1>4 DEF DbInv, DbTypes
  <2>2. local' \in [Conns -> Paths \cup {NoPath}] /\ pending' \in [Conns -> Seq(OwnWrites)]
    BY <1>1, <1>2 DEF DbInv, DbTypes
  <2>3. call' \in [Requests -> {"idle", "pool", "sql", "threw"}]
    BY <1>2 DEF DbInv, DbTypes
  <2> QED
    BY <1>2, <2>1, <2>2, <2>3 DEF DbInv, DbTypes
<1>7. UseTrue(r)'
  BY <1>2, <1>4, <1>5, DbAssumption DEF UseTrue
<1>8. TxTrue(r)'
  BY <1>3, <1>4, <1>5 DEF TxTrue
<1>9. Mine(r)
  BY <1>2 DEF DbInv, DbTypes, Mine
<1>10. StacksTrue' /\ UsesTrue' /\ TxsTrue' /\ LocalTrue' /\ ClosingTrue'
  BY <1>4, <1>5, <1>7, <1>8, <1>9, OthersKept
<1>11. QueueTrue'
  <2>1. \A x \in Requests \ {r} : call'[x] = call[x]
    BY <1>9 DEF Mine
  <2> QED
    BY <1>2, <2>1, QueueStays
<1>12. HeldOnce' /\ ToldTrue'
  BY <1>2 DEF DbInv, HeldOnce, ToldTrue
<1> QED
  BY <1>6, <1>10, <1>11, <1>12 DEF DbInv

\* A statement in a transaction: one more write, and one more callback for it.
LEMMA StatementInTx ==
  ASSUME DbInv, NEW r \in Requests, Statement(r), InTx(r)
  PROVE  DbInv'
<1> DEFINE q == scopes[r]
           c == conn[r]
           t == TheTx(r)
           w == <<r, ops, Path(r), Resolved(local'[c], session'[c])>>
           cs == Append(q[t].callbacks, w)
           n == [q EXCEPT ![t] = [q[t] EXCEPT !.callbacks = cs]]
<1>1. q \in Seq(Scopes) /\ StackTrue(q) /\ Path(r) \in Paths
  BY TopFacts
<1>2. Client(r) = c /\ Inside(q) /\ t \in 1..Len(q) /\ q[t].kind = "tx"
  BY TheOnlyTx
<1>3. /\ call[r] = "sql" /\ c \in open /\ c \in Conns
      /\ local' = [local EXCEPT ![c] = Path(r)] /\ pending' = [pending EXCEPT ![c] = Append(@, w)]
      /\ scopes' = [scopes EXCEPT ![r][t].callbacks = Append(@, w)]
      /\ call' = [call EXCEPT ![r] = "idle"]
      /\ UNCHANGED <<want, ops, conn, queue, session, holder, open, stored, told, lost, closing>>
  BY <1>2 DEF Statement, setPath, SetsLocal, afterCommit, Await, DbInv, DbTypes
<1>4. w \in OwnWrites
  <2>1. local'[c] = Path(r) /\ NoPath \notin Paths /\ ops \in Nat
    BY <1>3, DbAssumption DEF DbInv, DbTypes
  <2>2. w = <<r, ops, Path(r), Path(r)>>
    BY <1>1, <2>1 DEF Resolved
  <2> QED
    BY <1>1, <2>1, <2>2 DEF OwnWrites
<1> HIDE DEF w
<1>5. /\ q[t].callbacks \in Seq(OwnWrites) /\ pending[c] \in Seq(OwnWrites)
      /\ q[t].client = c /\ q[t].callbacks = pending[c]
  BY <1>1, <1>2, <1>3 DEF Scopes, DbInv, DbTypes, TxsTrue, TxTrue
<1>6. cs \in Seq(OwnWrites) /\ Len(cs) = Len(q[t].callbacks) + 1 /\ Len(q[t].callbacks) \in Nat
  BY <1>4, <1>5, AppendFacts
<1>7. scopes'[r] = n /\ scopes' = [scopes EXCEPT ![r] = n]
  BY <1>2, <1>3 DEF DbInv, DbTypes
<1>8. pending'[c] = cs /\ call'[r] = "idle" /\ conn'[r] = c /\ open' = open
  BY <1>3, <1>5 DEF DbInv, DbTypes
<1> HIDE DEF cs
<1>9. \A j \in 1..Len(q) : q[j].kind = "sp" => q[j].mark <= Len(cs)
  <2>1. \A j \in 1..Len(q) :
          q[j].kind = "sp" => q[j].mark <= Len(q[t].callbacks) /\ q[j].mark \in Nat
    <3>1. \A j \in 1..Len(q) : q[j] \in Scopes
      BY <1>1
    <3>2. \A j \in 1..Len(q) : q[j].mark \in Nat
      BY <3>1 DEF Scopes
    <3>3. \A j \in 1..Len(q) : q[j].kind = "sp" => q[j].mark <= Len(q[t].callbacks)
      BY <1>1, <1>2 DEF StackTrue
    <3> QED
      BY <3>2, <3>3
  <2> QED
    BY <1>6, <2>1
<1>10. /\ StackTrue(n) /\ n \in Seq(Scopes) /\ Len(n) = Len(q)
       /\ n[t].kind = "tx" /\ n[t].client = q[t].client /\ n[t].callbacks = cs
       /\ \A i \in 1..Len(n) : n[i].kind = "tx" => i = t
  BY <1>1, <1>2, <1>6, <1>9, CallbacksSet
<1> HIDE DEF n
<1>11. DbTypes'
  <2>1. scopes' \in [Requests -> Seq(Scopes)]
    BY <1>7, <1>10 DEF DbInv, DbTypes
  <2>2. pending' \in [Conns -> Seq(OwnWrites)]
    BY <1>3, <1>6, <1>8 DEF DbInv, DbTypes
  <2>3. local' \in [Conns -> Paths \cup {NoPath}]
    BY <1>1, <1>3 DEF DbInv, DbTypes
  <2>4. call' \in [Requests -> {"idle", "pool", "sql", "threw"}]
    BY <1>3 DEF DbInv, DbTypes
  <2> QED
    BY <1>3, <2>1, <2>2, <2>3, <2>4 DEF DbInv, DbTypes
<1>12. Inside(scopes'[r])
  BY <1>2, <1>7, <1>10 DEF Inside
<1>13. UseTrue(r)'
  BY <1>3, <1>8, <1>12, DbAssumption DEF UseTrue
<1>14. TxTrue(r)'
  BY <1>5, <1>7, <1>8, <1>10 DEF TxTrue
<1>15. Mine(r)
  BY <1>3, <1>7 DEF DbInv, DbTypes, Mine
<1>16. StacksTrue' /\ UsesTrue' /\ TxsTrue' /\ LocalTrue' /\ ClosingTrue'
  BY <1>7, <1>8, <1>10, <1>12, <1>13, <1>14, <1>15, OthersKept
<1>17. QueueTrue'
  <2>1. \A x \in Requests \ {r} : call'[x] = call[x]
    BY <1>15 DEF Mine
  <2> QED
    BY <1>3, <2>1, QueueStays
<1>18. HeldOnce' /\ ToldTrue'
  BY <1>3 DEF DbInv, HeldOnce, ToldTrue
<1> QED
  BY <1>11, <1>16, <1>17, <1>18 DEF DbInv

\* Outside a transaction a connection has no local search_path.
LEMMA NothingLocal ==
  ASSUME DbInv, NEW r \in Requests, conn[r] \in Conns, ~Inside(scopes[r])
  PROVE  local[conn[r]] = NoPath
<1> SUFFICES ASSUME NEW s \in Requests, conn[s] = conn[r], Inside(scopes[s]) PROVE FALSE
  BY DEF DbInv, LocalTrue
<1>1. s = r
  BY DEF DbInv, HeldOnce
<1> QED
  BY <1>1

\* A statement outside one is committed and told at once.
LEMMA StatementAlone ==
  ASSUME DbInv, NEW r \in Requests, Statement(r), ~InTx(r)
  PROVE  DbInv'
<1> DEFINE c == conn[r]
           w == <<r, ops, Path(r), Resolved(local'[c], session'[c])>>
<1>1. scopes[r] \in Seq(Scopes) /\ StackTrue(scopes[r]) /\ Path(r) \in Paths
  BY TopFacts
<1>2. Client(r) = c /\ ~Inside(scopes[r])
  BY TheOnlyTx
<1>3. /\ call[r] = "sql" /\ c \in open /\ c \in Conns
      /\ session' = [session EXCEPT ![c] = Path(r)]
      /\ stored' = stored \cup {w} /\ told' = told \cup {w}
      /\ holder' = [holder EXCEPT ![c] = NoConn] /\ conn' = [conn EXCEPT ![r] = NoConn]
      /\ call' = [call EXCEPT ![r] = "idle"]
      /\ UNCHANGED <<scopes, want, ops, queue, local, pending, open, lost, closing>>
  BY <1>2 DEF Statement, setPath, SetsLocal, afterCommit, Await, DbInv, DbTypes
<1>4. w \in OwnWrites
  <2>1. local'[c] = NoPath /\ session'[c] = Path(r) /\ ops \in Nat
    BY <1>2, <1>3, NothingLocal DEF DbInv, DbTypes
  <2>2. w = <<r, ops, Path(r), Path(r)>>
    BY <2>1 DEF Resolved
  <2> QED
    BY <1>1, <2>1, <2>2 DEF OwnWrites
<1> HIDE DEF w
<1>5. HeldOnce' /\ conn' \in [Requests -> Conns \cup {NoConn}]
        /\ holder' \in [Conns -> Requests \cup {NoConn}]
  BY <1>3, DbAssumption, GivenBack
<1>6. DbTypes'
  BY <1>1, <1>3, <1>4, <1>5 DEF DbInv, DbTypes
<1>7. scopes'[r] = scopes[r] /\ conn'[r] = NoConn /\ call'[r] = "idle"
  BY <1>3 DEF DbInv, DbTypes
<1>8. UseTrue(r)' /\ TxTrue(r)'
  BY <1>2, <1>7 DEF UseTrue, TxTrue, Inside
<1>9. Mine(r)
  BY <1>3 DEF DbInv, DbTypes, Mine
<1>10. local'[c] = NoPath
  BY <1>2, <1>3, NothingLocal
<1>11. StacksTrue' /\ UsesTrue' /\ TxsTrue' /\ LocalTrue' /\ ClosingTrue'
  BY <1>1, <1>7, <1>8, <1>9, <1>10, OthersKept
<1>12. QueueTrue'
  <2>1. \A x \in Requests \ {r} : call'[x] = call[x]
    BY <1>9 DEF Mine
  <2> QED
    BY <1>3, <2>1, QueueStays
<1>13. ToldTrue'
  BY <1>3 DEF DbInv, ToldTrue
<1> QED
  BY <1>5, <1>6, <1>11, <1>12, <1>13 DEF DbInv

\* A statement that fails writes nothing.
LEMMA FailureKept == ASSUME DbInv, NEW r \in Requests, StatementFails(r) PROVE DbInv'
<1> DEFINE c == conn[r]
<1>1. Client(r) = c /\ (InTx(r) <=> Inside(scopes[r])) /\ StackTrue(scopes[r])
  BY TheOnlyTx, TopFacts
<1>2. /\ call[r] = "sql" /\ c \in Conns /\ c # NoConn
      /\ UNCHANGED <<scopes, want, ops, queue, session, local, pending, open, stored, told, lost,
                     closing>>
  BY DEF StatementFails, DbInv, DbTypes, UsesTrue, UseTrue
<1>3. CASE Inside(scopes[r])
  <2>1. call' = [call EXCEPT ![r] = "threw"] /\ UNCHANGED <<holder, conn>>
    BY <1>1, <1>3 DEF StatementFails, Await
  <2>2. DbTypes' /\ call'[r] = "threw"
    BY <1>2, <2>1 DEF DbInv, DbTypes
  <2>3. Mine(r)
    BY <1>2, <2>1 DEF DbInv, DbTypes, Mine
  <2>4. UseTrue(r)' /\ TxTrue(r)'
    <3>1. UseTrue(r) /\ TxTrue(r)
      BY DEF DbInv, UsesTrue, TxsTrue
    <3> QED
      BY <1>2, <1>3, <2>1, <2>2, <3>1 DEF UseTrue, TxTrue
  <2>5. StacksTrue' /\ UsesTrue' /\ TxsTrue' /\ LocalTrue' /\ ClosingTrue'
    BY <1>1, <1>2, <1>3, <2>1, <2>3, <2>4, OthersKept
  <2>6. QueueTrue'
    <3>1. \A x \in Requests \ {r} : call'[x] = call[x]
      BY <2>3 DEF Mine
    <3> QED
      BY <1>2, <3>1, QueueStays
  <2>7. HeldOnce' /\ ToldTrue'
    BY <1>2, <2>1 DEF DbInv, HeldOnce, ToldTrue
  <2> QED
    BY <2>2, <2>5, <2>6, <2>7 DEF DbInv
<1>4. CASE ~Inside(scopes[r])
  <2>1. /\ call' = [call EXCEPT ![r] = "idle"]
        /\ holder' = [holder EXCEPT ![c] = NoConn] /\ conn' = [conn EXCEPT ![r] = NoConn]
    BY <1>1, <1>4 DEF StatementFails, Await
  <2>2. HeldOnce' /\ conn' \in [Requests -> Conns \cup {NoConn}]
          /\ holder' \in [Conns -> Requests \cup {NoConn}]
    BY <1>2, <2>1, GivenBack
  <2>3. DbTypes' /\ call'[r] = "idle" /\ conn'[r] = NoConn
    BY <1>2, <2>1, <2>2 DEF DbInv, DbTypes
  <2>4. Mine(r)
    BY <1>2, <2>1 DEF DbInv, DbTypes, Mine
  <2>5. UseTrue(r)' /\ TxTrue(r)'
    BY <1>2, <1>4, <2>3 DEF UseTrue, TxTrue, Inside
  <2>6. local'[c] = NoPath
    BY <1>2, <1>4, NothingLocal
  <2>7. StacksTrue' /\ UsesTrue' /\ TxsTrue' /\ LocalTrue' /\ ClosingTrue'
    BY <1>1, <1>2, <2>4, <2>5, <2>6, OthersKept
  <2>8. QueueTrue'
    <3>1. \A x \in Requests \ {r} : call'[x] = call[x]
      BY <2>4 DEF Mine
    <3> QED
      BY <1>2, <3>1, QueueStays
  <2>9. ToldTrue'
    BY <1>2 DEF DbInv, ToldTrue
  <2> QED
    BY <2>2, <2>3, <2>7, <2>8, <2>9 DEF DbInv
<1> QED
  BY <1>3, <1>4

\* ROLLBACK TO SAVEPOINT: writes and callbacks are those there were before it.
LEMMA RollbackKept ==
  ASSUME DbInv, NEW r \in Requests, NEW caught \in BOOLEAN, FailSavepoint(r, caught)
  PROVE  DbInv'
<1> DEFINE q == scopes[r]
           c == conn[r]
           t == TheTx(r)
           s == q[Len(q)]
           f == Front(q)
           cs == SubSeq(q[t].callbacks, 1, s.mark)
           n == [f EXCEPT ![t] = [f[t] EXCEPT !.callbacks = cs]]
<1>1. /\ q \in Seq(Scopes) /\ StackTrue(q) /\ q # <<>> /\ Len(q) \in Nat \ {0}
      /\ Top(r) = s /\ s \in Scopes
  BY TopFacts
<1>2. s.kind = "sp" /\ call[r] \in {"idle", "threw"}
  BY <1>1 DEF FailSavepoint
<1>3. Inside(q)
  BY <1>1, <1>2 DEF StackTrue, Inside
<1>4. /\ InTx(r) /\ Client(r) = c /\ t \in 1..Len(q) /\ q[t].kind = "tx"
      /\ \A i \in 1..Len(q) : q[i].kind = "tx" => i = t
  BY <1>3, TheOnlyTx
<1>5. /\ f \in Seq(Scopes) /\ Len(f) = Len(q) - 1 /\ StackTrue(f)
      /\ \A i \in 1..Len(q) - 1 : f[i] = q[i]
  <2>1. f \in Seq(Scopes) /\ Len(f) = Len(q) - 1 /\ (\A i \in 1..Len(q) - 1 : f[i] = q[i])
          /\ Last(q) = s
    BY <1>1, FrontFacts
  <2>2. StackTrue(f)
    BY <1>1, <1>2, <2>1, DropScope
  <2> QED
    BY <2>1, <2>2
<1>6. t \in 1..Len(f) /\ f[t] = q[t] /\ f[t].kind = "tx"
  <2>1. t # Len(q)
    BY <1>2, <1>4
  <2> QED
    BY <1>1, <1>4, <1>5, <2>1
<1>7. /\ q[t].callbacks \in Seq(OwnWrites) /\ q[t].client = c
      /\ c \in open => q[t].callbacks = pending[c]
  <2>1. q[t] \in Scopes
    BY <1>1, <1>4
  <2> QED
    BY <1>4, <2>1 DEF Scopes, DbInv, TxsTrue, TxTrue
<1>8. c \in Conns /\ c # NoConn
  BY <1>3 DEF DbInv, DbTypes, UsesTrue, UseTrue
<1>9. s.mark = s.saved /\ s.mark \in 0..Len(q[t].callbacks) /\ s.from \in Paths \cup {NoPath}
  <2>1. s.mark = s.saved /\ s.mark <= Len(q[t].callbacks)
    BY <1>1, <1>2, <1>4 DEF StackTrue
  <2>2. \A x \in Scopes : x.mark \in Nat /\ x.from \in Paths \cup {NoPath}
    BY DEF Scopes
  <2>3. \A x \in Seq(OwnWrites) : Len(x) \in Nat
    OBVIOUS
  <2> QED
    BY <1>1, <1>7, <2>1, <2>2, <2>3
<1>10. cs \in Seq(OwnWrites) /\ Len(cs) = s.mark
  BY <1>7, <1>9, PrefixFacts
<1>11. \A j \in 1..Len(f) : f[j].kind = "sp" => f[j].mark <= Len(cs)
  <2>1. ASSUME NEW j \in 1..Len(f), f[j].kind = "sp" PROVE f[j].mark <= s.mark
    <3>1. j \in 1..Len(q) /\ j < Len(q) /\ f[j] = q[j] /\ Len(q) \in 1..Len(q)
      BY <1>1, <1>5
    <3> QED
      BY <1>1, <1>2, <2>1, <3>1 DEF StackTrue
  <2> QED
    BY <1>10, <2>1
<1>12. scopes' = [scopes EXCEPT ![r] = n] /\ scopes'[r] = n
  <2>1. scopes' = [[scopes EXCEPT ![r] = f] EXCEPT ![r][t].callbacks = cs]
    BY <1>1 DEF FailSavepoint, Drop, CallbacksKept, Callbacks
  <2>2. scopes \in [Requests -> Seq(Scopes)]
    BY DEF DbInv, DbTypes
  <2> HIDE DEF cs, f, t
  <2> QED
    BY <2>1, <2>2
<1>13. /\ pending' = [pending EXCEPT ![c] = IF c \in open THEN SubSeq(@, 1, s.saved) ELSE <<>>]
       /\ local' = IF c \in open THEN [local EXCEPT ![c] = s.from] ELSE local
       /\ call' = [call EXCEPT ![r] = IF caught THEN "idle" ELSE "threw"]
       /\ UNCHANGED <<want, ops, conn, queue, session, holder, open, stored, told, lost, closing>>
  BY <1>1, <1>4 DEF FailSavepoint, Await
<1>14. c \in open' => pending'[c] = cs
  BY <1>7, <1>8, <1>9, <1>13 DEF DbInv, DbTypes
<1>15. pending'[c] \in Seq(OwnWrites)
  <2>1. CASE c \in open
    BY <1>10, <1>13, <1>14, <2>1
  <2>2. CASE c \notin open
    BY <1>8, <1>13, <2>2 DEF DbInv, DbTypes
  <2> QED
    BY <2>1, <2>2
<1> HIDE DEF cs
<1>16. /\ StackTrue(n) /\ n \in Seq(Scopes) /\ Len(n) = Len(f)
       /\ n[t].kind = "tx" /\ n[t].client = f[t].client /\ n[t].callbacks = cs
       /\ \A i \in 1..Len(n) : n[i].kind = "tx" => i = t
  BY <1>5, <1>6, <1>10, <1>11, CallbacksSet
<1> HIDE DEF n
<1>17. DbTypes'
  <2>1. scopes' \in [Requests -> Seq(Scopes)]
    BY <1>12, <1>16 DEF DbInv, DbTypes
  <2>2. pending' \in [Conns -> Seq(OwnWrites)]
    <3>1. \A d \in Conns \ {c} : pending'[d] = pending[d]
      BY <1>13 DEF DbInv, DbTypes
    <3>2. pending' = [d \in Conns |-> pending'[d]]
      BY <1>13 DEF DbInv, DbTypes
    <3> QED
      BY <1>15, <3>1, <3>2 DEF DbInv, DbTypes
  <2>3. local' \in [Conns -> Paths \cup {NoPath}]
    BY <1>9, <1>13 DEF DbInv, DbTypes
  <2>4. call' \in [Requests -> {"idle", "pool", "sql", "threw"}]
    BY <1>13 DEF DbInv, DbTypes
  <2> QED
    BY <1>13, <2>1, <2>2, <2>3, <2>4 DEF DbInv, DbTypes
<1>18. Inside(scopes'[r])
  BY <1>6, <1>12, <1>16 DEF Inside
<1>19. UseTrue(r)'
  <2>1. call'[r] \in {"idle", "threw"} /\ conn'[r] = c
    BY <1>13 DEF DbInv, DbTypes
  <2> QED
    BY <1>8, <1>18, <2>1 DEF UseTrue
<1>20. TxTrue(r)'
  <2>1. conn'[r] = c
    BY <1>13
  <2> QED
    BY <1>6, <1>7, <1>12, <1>14, <1>16, <2>1 DEF TxTrue
<1>21. Mine(r)
  <2>1. \A x \in Requests \ {r} : scopes'[x] = scopes[x] /\ call'[x] = call[x]
    BY <1>12, <1>13 DEF DbInv, DbTypes
  <2>2. \A d \in Conns : d # c => pending'[d] = pending[d] /\ local'[d] = local[d]
    BY <1>13 DEF DbInv, DbTypes
  <2> QED
    BY <1>13, <2>1, <2>2 DEF Mine
<1>22. StacksTrue' /\ UsesTrue' /\ TxsTrue' /\ LocalTrue' /\ ClosingTrue'
  BY <1>12, <1>13, <1>16, <1>18, <1>19, <1>20, <1>21, OthersKept
<1>23. QueueTrue'
  <2>1. \A x \in Requests \ {r} : call'[x] = call[x]
    BY <1>21 DEF Mine
  <2> QED
    BY <1>2, <1>13, <2>1, QueueStays
<1>24. HeldOnce' /\ ToldTrue'
  BY <1>13 DEF DbInv, HeldOnce, ToldTrue
<1> QED
  BY <1>17, <1>22, <1>23, <1>24 DEF DbInv

\* A transaction ends: its scope is left and its client goes back to the pool.
LEMMA FreedKept ==
  ASSUME DbInv, NEW r \in Requests, Top(r).kind = "tx", call[r] \in {"idle", "threw"},
         FreeClient(r, conn[r]), open' \subseteq open, stored' \subseteq OwnWrites, lost' \in Nat,
         ToldTrue', UNCHANGED <<want, ops, queue, session, closing>>
  PROVE  DbInv'
<1> DEFINE q == scopes[r]
           c == conn[r]
           f == Front(q)
<1>1. /\ q \in Seq(Scopes) /\ StackTrue(q) /\ q # <<>> /\ Len(q) \in Nat \ {0}
      /\ q[Len(q)].kind = "tx" /\ Last(q).kind = "tx"
  BY TopFacts DEF Top
<1>2. Inside(q) /\ c \in Conns /\ c # NoConn
  BY <1>1 DEF Inside, DbInv, DbTypes, UsesTrue, UseTrue
<1>3. StackTrue(f) /\ f \in Seq(Scopes) /\ ~Inside(f)
  BY <1>1, TxDropped
<1>4. /\ scopes' = [scopes EXCEPT ![r] = f] /\ holder' = [holder EXCEPT ![c] = NoConn]
      /\ conn' = [conn EXCEPT ![r] = NoConn] /\ pending' = [pending EXCEPT ![c] = <<>>]
      /\ local' = [local EXCEPT ![c] = NoPath] /\ call' = [call EXCEPT ![r] = "idle"]
  BY DEF FreeClient, Drop, Await
<1> HIDE DEF f
<1>5. HeldOnce' /\ conn' \in [Requests -> Conns \cup {NoConn}]
        /\ holder' \in [Conns -> Requests \cup {NoConn}]
  BY <1>2, <1>4, GivenBack
<1>6. /\ scopes'[r] = f /\ conn'[r] = NoConn /\ call'[r] = "idle" /\ local'[c] = NoPath
  BY <1>2, <1>4 DEF DbInv, DbTypes
<1>7. DbTypes'
  <2>1. scopes' \in [Requests -> Seq(Scopes)]
    BY <1>3, <1>4 DEF DbInv, DbTypes
  <2>2. pending' \in [Conns -> Seq(OwnWrites)] /\ local' \in [Conns -> Paths \cup {NoPath}]
    <3>1. pending \in [Conns -> Seq(OwnWrites)] /\ local \in [Conns -> Paths \cup {NoPath}]
      BY DEF DbInv, DbTypes
    <3>2. <<>> \in Seq(OwnWrites)
      OBVIOUS
    <3> QED
      BY <1>4, <3>1, <3>2
  <2>3. call' \in [Requests -> {"idle", "pool", "sql", "threw"}] /\ open' \subseteq Conns
    BY <1>4 DEF DbInv, DbTypes
  <2> QED
    BY <1>5, <2>1, <2>2, <2>3 DEF DbInv, DbTypes
<1>8. UseTrue(r)' /\ TxTrue(r)'
  BY <1>3, <1>6 DEF UseTrue, TxTrue, Inside
<1>9. Mine(r)
  <2>1. \A x \in Requests \ {r} : scopes'[x] = scopes[x] /\ call'[x] = call[x] /\ conn'[x] = conn[x]
    BY <1>4 DEF DbInv, DbTypes
  <2>2. \A d \in Conns : d # c => pending'[d] = pending[d] /\ local'[d] = local[d]
    BY <1>4 DEF DbInv, DbTypes
  <2>3. \A d \in Conns : holder'[d] \in {holder[d], NoConn}
    BY <1>4 DEF DbInv, DbTypes
  <2> QED
    BY <2>1, <2>2, <2>3 DEF Mine
<1>10. StacksTrue' /\ UsesTrue' /\ TxsTrue' /\ LocalTrue' /\ ClosingTrue'
  BY <1>3, <1>6, <1>8, <1>9, OthersKept
<1>11. QueueTrue'
  <2>1. \A x \in Requests \ {r} : call'[x] = call[x]
    BY <1>9 DEF Mine
  <2> QED
    BY <2>1, QueueStays
<1> QED
  BY <1>5, <1>7, <1>10, <1>11 DEF DbInv

\* COMMIT, ROLLBACK, and a COMMIT whose answer is lost.
LEMMA EndKept ==
  ASSUME DbInv, NEW r \in Requests, Commit(r) \/ FailTx(r) \/ CommitAnswerLost(r)
  PROVE  DbInv'
<1> DEFINE q == scopes[r]
           c == conn[r]
<1>1. /\ Top(r).kind = "tx" /\ call[r] \in {"idle", "threw"} /\ Client(r) = c
      /\ FreeClient(r, c) /\ UNCHANGED <<want, ops, queue, session, closing>>
  BY TheOnlyTx DEF Commit, FailTx, CommitAnswerLost, NoRequest
<1>2. Inside(q) /\ InTx(r) /\ c \in Conns
  <2>1. Len(q) \in Nat \ {0} /\ q[Len(q)].kind = "tx"
    BY <1>1, TopFacts
  <2>2. Inside(q)
    BY <2>1 DEF Inside
  <2>3. c # NoConn
    BY <2>2 DEF DbInv, UsesTrue, UseTrue
  <2> QED
    BY <2>2, <2>3, TheOnlyTx DEF DbInv, DbTypes
<1>3. /\ pending[c] \in Seq(OwnWrites)
      /\ c \in open => Callbacks(r) = pending[c]
  BY <1>2, TheOnlyTx DEF Callbacks, DbInv, DbTypes, TxsTrue, TxTrue
<1>4. Range(pending[c]) \subseteq OwnWrites
  BY <1>3 DEF Range
<1>5. told \subseteq stored /\ (lost = 0 => stored \subseteq told) /\ lost \in Nat
        /\ stored \subseteq OwnWrites
  BY DEF DbInv, DbTypes, ToldTrue
<1>6. open' \subseteq open /\ stored' \subseteq OwnWrites /\ lost' \in Nat /\ ToldTrue'
  <2>1. CASE Commit(r)
    <3>1. /\ c \in open /\ stored' = stored \cup Range(pending[c])
          /\ told' = told \cup Range(Callbacks(r)) /\ open' = open /\ lost' = lost
      BY <1>1, <2>1 DEF Commit
    <3>2. Callbacks(r) = pending[c]
      BY <1>3, <3>1
    <3> QED
      BY <1>4, <1>5, <3>1, <3>2 DEF ToldTrue
  <2>2. CASE FailTx(r)
    <3>1. UNCHANGED <<open, stored, told, lost>>
      BY <2>2 DEF FailTx
    <3> QED
      BY <1>5, <3>1 DEF ToldTrue
  <2>3. CASE CommitAnswerLost(r)
    <3>1. /\ stored' = stored \cup Range(pending[c]) /\ told' = told
          /\ open' = open \ {c} /\ lost' = lost + 1
      BY <1>1, <2>3 DEF CommitAnswerLost
    <3> QED
      BY <1>4, <1>5, <3>1 DEF ToldTrue
  <2> QED
    BY <2>1, <2>2, <2>3
<1> QED
  BY <1>1, <1>6, FreedKept

\* Connections are lost and the pool is closed.
LEMMA PoolEnds ==
  ASSUME DbInv, (\E c \in Conns : ConnLost(c) \/ SocketEnds(c)) \/ Close \/ PoolEnded \/ Closed
  PROVE  DbInv'
<1>1. /\ UNCHANGED <<scopes, call, want, ops, conn, queue, session, local, pending, holder, stored,
                     told>>
      /\ open' \subseteq open /\ lost' \in Nat /\ (lost' = 0 => lost = 0)
      /\ closing' \in {"no", "pool", "sockets", "closed"}
  BY DEF ConnLost, SocketEnds, Close, PoolEnded, Closed, DbInv, DbTypes
<1>2. ClosingTrue'
  BY DEF ConnLost, SocketEnds, Close, PoolEnded, Closed, SocketsGone, DbInv, DbTypes, ClosingTrue
<1>3. DbTypes' /\ StacksTrue' /\ HeldOnce' /\ QueueTrue'
  BY <1>1 DEF DbInv, DbTypes, StacksTrue, HeldOnce, QueueTrue
<1>4. UsesTrue' /\ TxsTrue'
  BY <1>1 DEF DbInv, UsesTrue, UseTrue, TxsTrue, TxTrue
<1>5. LocalTrue' /\ ToldTrue'
  BY <1>1 DEF DbInv, LocalTrue, ToldTrue
<1> QED
  BY <1>2, <1>3, <1>4, <1>5 DEF DbInv

\* What holds before the first request.
LEMMA DbInitially == DbInit => DbInv
<1> SUFFICES ASSUME DbInit PROVE DbInv
  OBVIOUS
<1>1. "public" \in Paths
  BY DEF Paths
<1>2. ASSUME NEW r \in Requests
      PROVE  /\ scopes[r] = <<Scope("path", "public")>> /\ scopes[r] \in Seq(Scopes)
             /\ Len(scopes[r]) = 1 /\ scopes[r][1].kind = "path" /\ scopes[r] # <<>>
             /\ call[r] = "idle" /\ conn[r] = NoConn
  <2>1. scopes[r] = <<Scope("path", "public")>> /\ call[r] = "idle" /\ conn[r] = NoConn
    BY DEF DbInit
  <2>2. Scope("path", "public") \in Scopes /\ Scope("path", "public").kind = "path"
    BY <1>1, ScopeFacts
  <2> QED
    BY <2>1, <2>2
<1>3. DbTypes
  <2>1. scopes \in [Requests -> Seq(Scopes)]
    BY <1>2 DEF DbInit
  <2>2. /\ call \in [Requests -> {"idle", "pool", "sql", "threw"}]
        /\ want \in [Requests -> {"run", "begin"}] /\ conn \in [Requests -> Conns \cup {NoConn}]
    BY DEF DbInit
  <2>3. /\ session \in [Conns -> Paths] /\ local \in [Conns -> Paths \cup {NoPath}]
        /\ pending \in [Conns -> Seq(OwnWrites)]
        /\ holder \in [Conns -> Requests \cup {NoConn}]
    BY <1>1 DEF DbInit
  <2> QED
    BY <2>1, <2>2, <2>3 DEF DbInit, DbTypes
<1>4. StacksTrue /\ UsesTrue /\ TxsTrue
  BY <1>2 DEF StacksTrue, StackTrue, UsesTrue, UseTrue, TxsTrue, TxTrue, Inside
<1>5. HeldOnce /\ LocalTrue
  BY DbAssumption DEF DbInit, HeldOnce, LocalTrue
<1>6. QueueTrue /\ ClosingTrue /\ ToldTrue
  BY DEF DbInit, QueueTrue, ClosingTrue, ToldTrue
<1> QED
  BY <1>3, <1>4, <1>5, <1>6 DEF DbInv

\* Every step keeps the invariant.
LEMMA DbStepKept == ASSUME DbInv, [DbNext]_dbVars PROVE DbInv'
<1>1. CASE UNCHANGED dbVars
  BY <1>1
  DEF dbVars, DbInv, DbTypes, StacksTrue, HeldOnce, QueueTrue, UsesTrue, UseTrue, TxsTrue, TxTrue,
      LocalTrue, ClosingTrue, ToldTrue
<1>2. ASSUME NEW r \in Requests, RequestStep(r) PROVE DbInv'
  <2>1. CASE Statement(r)
    BY <2>1, StatementInTx, StatementAlone
  <2> QED
    BY <1>2, <2>1, PathsKept, CallsKept, BeginKept, FailureKept, SavepointKept, RollbackKept,
       EndKept
    DEF RequestStep
<1> QED
  BY <1>1, <1>2, PoolKept, PoolEnds DEF DbNext

\* The invariant gives what is promised.
LEMMA DbFollows == DbInv => DbSafe
<1> SUFFICES ASSUME DbInv PROVE DbSafe
  OBVIOUS
<1>1. StatementsInOwnSchema
  <2>1. \A w \in stored : w[3] = w[4]
    BY DEF DbInv, DbTypes, OwnWrites
  <2>2. ASSUME NEW c \in Conns, NEW w \in Range(pending[c]) PROVE w[3] = w[4]
    <3>1. pending[c] \in Seq(OwnWrites)
      BY DEF DbInv, DbTypes
    <3>2. w \in OwnWrites
      BY <3>1 DEF Range
    <3> QED
      BY <3>2 DEF OwnWrites
  <2> QED
    BY <2>1, <2>2 DEF StatementsInOwnSchema
<1>2. ToldIsCommitted /\ CommittedIsTold
  BY DEF DbInv, ToldTrue, ToldIsCommitted, CommittedIsTold
<1>3. ClosedIsQuiet
  <2>1. SUFFICES ASSUME closing = "closed", NEW r \in Requests PROVE open = {} /\ Client(r) = NoConn
    BY DbAssumption DEF ClosedIsQuiet, DbInv, ClosingTrue
  <2>2. conn[r] = NoConn
    BY <2>1, DbAssumption DEF DbInv, DbTypes, ClosingTrue, HeldOnce
  <2> QED
    BY <2>1, <2>2, TheOnlyTx DEF DbInv, ClosingTrue
<1>4. SomeoneCanRelease
  <2>1. PICK c \in Conns : TRUE
    BY DbAssumption
  <2>2. ASSUME holder[c] # NoConn PROVE call[holder[c]] # "pool"
    BY <2>1, <2>2, DbAssumption DEF DbInv, DbTypes, HeldOnce, UsesTrue, UseTrue
  <2> QED
    BY <2>1, <2>2 DEF SomeoneCanRelease
<1> QED
  BY <1>1, <1>2, <1>3, <1>4 DEF DbSafe

\* For any number of requests, connections, schemas, nested transactions and
\* lost connections: a statement runs in the schema its author called it in,
\* what is told is committed and the other way round unless a connection broke,
\* the pool never waits on itself, and a closed adapter holds nothing.
THEOREM TransactionsStaySafe == DbSpec => []DbSafe
<1>1. DbSpec => []DbInv
  BY DbInitially, DbStepKept, PTL DEF DbSpec
<1> QED
  BY <1>1, DbFollows, PTL
-----------------------------------------------------------------------------
(* Releases: what a kiosk is offered, and what is kept *)

\* What the tables, the requests under way and the checks are made of.
RelIdSet == 1..MaxReleases
Prefs == [channel : Channels, pin : Versions \cup {NoPin}]
Policies == [channel : Channels, pin : Versions \cup {NoPin},
             schedule : {"always", "windows"}]
Pushes == {NoPush} \cup [version : Versions, policy : Policies]
Rollouts == [id : Nat, release : RelIdSet, targets : SUBSET Kiosks, percentage : {50, 100},
             state : LiveStates \cup {"complete"}]
BegunImports == [pc : {"fw", "os", "conflict"}, row : RelRows]
BegunPasses == [pc : {"yanked", "remove_yanked", "prune"}, seen : SUBSET Rollouts,
                protect : SUBSET RelIdSet, todo : SUBSET RelRows, cur : SUBSET RelRows]
BegunChecks ==
  [pc : {"pin", "list", "rollout", "decide", "offered", "reading"}, p : Prefs, push : Pushes,
   todo : SUBSET Rollouts, forced : BOOLEAN, offer : SUBSET RelRows, bad : SUBSET RelIdSet]
BegunRollouts == [pc : {"insert", "activate"}, ro : Rollouts]

RelTypes ==
  /\ kind \in Kinds /\ rel \subseteq RelRows /\ blob \subseteq Shas /\ rollout \subseteq Rollouts
  /\ pref \in [Kiosks -> Prefs] /\ push \in [Kiosks -> Pushes] /\ sched \in {"always", "windows"}
  /\ TargetOf \in [Kiosks -> Targets] /\ ver \in [Kiosks -> Versions \cup {Shipped}]
  /\ imp \in [Importers -> {NotBegun} \cup BegunImports]
  /\ pass \in {NotBegun} \cup BegunPasses
  /\ chk \in [Kiosks -> {NotBegun} \cup BegunChecks]
  /\ creating \in {NotBegun} \cup BegunRollouts
  /\ relIds \in 0..MaxReleases /\ rolloutIds \in Nat

\* An id names a row for good, and a version has one row per target.
RowsTrue ==
  /\ \A r, s \in rel : r.id = s.id => r = s
  /\ \A r, s \in rel : r.version = s.version /\ r.target = s.target => r = s
  /\ \A r \in rel : r.id <= relIds

\* A row that is still to be inserted has an id nobody has met.
Inserting(i) == imp[i].pc \in {"fw", "os"}
Met(k, id) == chk[k].pc # "idle" /\ (id \in chk[k].bad \/ \E r \in chk[k].offer : r.id = id)
ImportsTrue ==
  \A i \in Importers : Inserting(i) =>
    /\ imp[i].row.id <= relIds
    /\ \A r \in rel : r.id # imp[i].row.id
    /\ \A k \in Kiosks : ~Met(k, imp[i].row.id)
    /\ \A j \in Importers : j # i /\ Inserting(j) => imp[j].row.id # imp[i].row.id

\* An id names a rollout, and its release, for good.
RolloutsTrue ==
  /\ \A ro \in rollout : ro.id <= rolloutIds
  /\ \A x, y \in rollout : x.id = y.id => x.release = y.release
  /\ creating.pc = "insert" =>
       /\ creating.ro.id <= rolloutIds
       /\ \A ro \in rollout : ro.id # creating.ro.id

\* A pass knows the rollouts as they were when it began, and removes no release
\* one of them needs.
PassTrue ==
  pass.pc # "idle" =>
    /\ \A x \in pass.seen : x.id <= rolloutIds /\ \A y \in rollout : x.id = y.id => x.release = y.release
    /\ creating.pc = "insert" => \A x \in pass.seen : x.id # creating.ro.id
    /\ \A x \in pass.seen : x.state \in LiveStates => x.release \in pass.protect
    /\ \A r \in pass.todo \cup pass.cur : r.id \notin pass.protect

\* A check c of kiosk k: what was yanked when it began still is, what it offers is
\* one release that was not, with the version its row still has.
OfferTrue(k, c) ==
  /\ \A id \in c.bad : id <= relIds
  /\ \A r \in rel : r.id \in c.bad => r.yanked
  /\ \A r \in c.offer :
       /\ r.id <= relIds /\ r.id \notin c.bad
       /\ \A s \in c.offer : s = r
       /\ \A s \in rel : s.id = r.id => s.version = r.version
  /\ c.pc \in {"offered", "reading"} => c.offer # {} /\ \A r \in c.offer : r.version > ver[k]

\* A Windows kiosk goes by its pin and its push.
PolicyTrue(k, c) ==
  IsWindows(k) =>
    /\ c.pc \notin {"list", "rollout"}
    /\ c.pc \in {"pin", "decide"} => ~c.forced
    /\ c.pc \in {"decide", "offered"} => \A r \in c.offer :
         /\ c.p.pin # NoPin => r.version = c.p.pin
         /\ c.forced => /\ c.push.version = r.version /\ c.push.policy.channel = c.p.channel
                        /\ c.push.policy.pin = c.p.pin

KioskCheckTrue(k) == chk[k].pc # "idle" => OfferTrue(k, chk[k]) /\ PolicyTrue(k, chk[k])

\* The inductive invariant.
RelInv ==
  /\ RelTypes /\ RowsTrue /\ ImportsTrue /\ RolloutsTrue /\ PassTrue
  /\ \A k \in Kiosks : KioskCheckTrue(k)

\* What the constants are, for the arithmetic of ids and versions.
LEMMA RelBounds == MaxReleases \in Nat /\ Versions \subseteq Nat /\ Shipped \in Nat /\ OldPin \in Versions
BY RelAssumption

\* What is not idle is what its state says.
LEMMA BegunTyped ==
  ASSUME RelTypes
  PROVE  /\ \A k \in Kiosks : chk[k].pc # "idle" => chk[k] \in BegunChecks
         /\ \A i \in Importers : imp[i].pc # "idle" => imp[i] \in BegunImports
         /\ pass.pc # "idle" => pass \in BegunPasses
         /\ creating.pc # "idle" => creating \in BegunRollouts
         /\ NotBegun.pc = "idle"
BY DEF RelTypes, NotBegun

\* The queries of the repository find one release at most, out of the table.
LEMMA QueriesFindOne ==
  ASSUME RelTypes, RowsTrue
  PROVE  /\ \A id : getRelease(id) \subseteq rel /\ \A r, s \in getRelease(id) : r = s
         /\ \A v, t : /\ getReleaseByVersionTarget(v, t) \subseteq rel
                      /\ \A r, s \in getReleaseByVersionTarget(v, t) : r = s
                      /\ \A r \in getReleaseByVersionTarget(v, t) : r.version = v
         /\ \A c, t : /\ getLatestRelease(c, t) \subseteq rel
                      /\ \A r, s \in getLatestRelease(c, t) : r = s
                      /\ \A r \in getLatestRelease(c, t) : ~r.yanked
<1>1. \A r \in rel : r.id \in Nat
  BY RelBounds DEF RelTypes, RelRows
<1>2. \A id : getRelease(id) \subseteq rel /\ \A r, s \in getRelease(id) : r = s
  BY DEF getRelease, RowsTrue
<1>3. \A v, t : /\ getReleaseByVersionTarget(v, t) \subseteq rel
                /\ \A r, s \in getReleaseByVersionTarget(v, t) : r = s
                /\ \A r \in getReleaseByVersionTarget(v, t) : r.version = v
  BY DEF getReleaseByVersionTarget, RowsTrue
<1>4. ASSUME NEW c, NEW t
      PROVE  /\ getLatestRelease(c, t) \subseteq rel
             /\ \A r, s \in getLatestRelease(c, t) : r = s
             /\ \A r \in getLatestRelease(c, t) : ~r.yanked
  <2>1. getLatestRelease(c, t) \subseteq rel /\ \A r \in getLatestRelease(c, t) : ~r.yanked
    BY DEF getLatestRelease
  <2>2. \A r, s \in getLatestRelease(c, t) : r.id <= s.id
    BY DEF getLatestRelease
  <2>3. \A r, s \in getLatestRelease(c, t) : r = s
    BY <1>1, <2>1, <2>2 DEF RowsTrue
  <2>4. QED BY <2>1, <2>3
<1>5. QED BY <1>2, <1>3, <1>4

\* The same for what a Windows kiosk is offered: a pin, or none but the pin.
LEMMA SelectionFindsOne ==
  ASSUME RelInv, NEW k \in Kiosks, NEW p \in Prefs
  PROVE  /\ selectWindowsRelease(k, p) \subseteq rel
         /\ \A r, s \in selectWindowsRelease(k, p) : r = s
         /\ \A r \in selectWindowsRelease(k, p) : ~r.yanked
         /\ p.pin # NoPin => \A r \in selectWindowsRelease(k, p) : r.version = p.pin
<1> DEFINE hit == {ro \in listActiveRolloutsForKiosk(k) :
                /\ isKioskInRolloutBucket(k, ro)
                /\ \E r \in NotYanked(getRelease(ro.release)) : r.target = TargetOf[k]}
           found == UNION {getRelease(ro.release) : ro \in Newest(hit)}
<1>1. RelTypes /\ RowsTrue /\ RolloutsTrue
  BY DEF RelInv
<1>2. CASE p.pin # NoPin
  BY <1>1, <1>2, QueriesFindOne DEF selectWindowsRelease, NotYanked
<1>3. CASE p.pin = NoPin
  <2>1. hit \subseteq rollout /\ \A ro \in rollout : ro.id \in Nat
    BY <1>1 DEF listActiveRolloutsForKiosk, RelTypes, Rollouts
  <2>2. \A ro \in hit : \E r \in getRelease(ro.release) : ~r.yanked
    BY DEF NotYanked
  <2> HIDE DEF hit
  <2>3. ASSUME NEW x \in Newest(hit), NEW y \in Newest(hit)
        PROVE  x.release = y.release
    <3>1. x \in hit /\ y \in hit /\ x.id <= y.id /\ y.id <= x.id
      BY DEF Newest
    <3>2. QED BY <1>1, <2>1, <3>1 DEF RolloutsTrue
  <2>4. \A r \in found : r \in rel /\ ~r.yanked
    <3> SUFFICES ASSUME NEW r \in found PROVE r \in rel /\ ~r.yanked
      OBVIOUS
    <3>1. PICK ro \in Newest(hit) : r \in getRelease(ro.release)
      OBVIOUS
    <3>2. ro \in hit
      BY DEF Newest
    <3>3. QED BY <1>1, <2>2, <3>1, <3>2, QueriesFindOne
  <2>5. \A r, s \in found : r = s
    <3> SUFFICES ASSUME NEW r \in found, NEW s \in found PROVE r = s
      OBVIOUS
    <3>1. PICK x \in Newest(hit) : r \in getRelease(x.release)
      OBVIOUS
    <3>2. PICK y \in Newest(hit) : s \in getRelease(y.release)
      OBVIOUS
    <3>3. x.release = y.release
      BY <2>3
    <3>4. QED BY <1>1, <3>1, <3>2, <3>3, QueriesFindOne
  <2> HIDE DEF found
  <2>6. selectWindowsRelease(k, p) = IF hit # {} THEN found ELSE getLatestRelease(p.channel, TargetOf[k])
    BY <1>3 DEF selectWindowsRelease, hit, found
  <2>7. QED BY <1>1, <1>3, <2>4, <2>5, <2>6, QueriesFindOne
<1>4. QED BY <1>2, <1>3

\* The check of one kiosk takes a step: the table is read only, and what the
\* check has met it met in the table or before.
LEMMA CheckStepKept ==
  ASSUME RelInv, NEW k \in Kiosks, NEW c \in {NotBegun} \cup BegunChecks, Step(k, c),
         c.pc # "idle" => OfferTrue(k, c) /\ PolicyTrue(k, c),
         \A id : c.pc # "idle" /\ id \in c.bad => Met(k, id) \/ \E r \in rel : r.id = id,
         \A x \in c.offer : c.pc # "idle" => Met(k, x.id) \/ \E r \in rel : r.id = x.id
  PROVE  RelInv'
<1>1. /\ chk' = [chk EXCEPT ![k] = c]
      /\ UNCHANGED <<kind, TargetOf, pref, push, sched, relIds, rolloutIds, rel, blob,
                     rollout, ver, imp,
                     pass, creating>>
  BY DEF Step, fixed, prefs, hist
<1>2. RelTypes
  BY DEF RelInv
<1>3. /\ chk' \in [Kiosks -> {NotBegun} \cup BegunChecks] /\ chk'[k] = c
      /\ \A j \in Kiosks : j # k => chk'[j] = chk[j]
  BY <1>1, <1>2 DEF RelTypes
<1>4. RelTypes'
  BY <1>1, <1>2, <1>3 DEF RelTypes
<1>5. RowsTrue' /\ RolloutsTrue' /\ PassTrue'
  BY <1>1 DEF RelInv, RowsTrue, RolloutsTrue, PassTrue
<1>6. ImportsTrue'
  <2> SUFFICES ASSUME NEW i \in Importers, Inserting(i)'
               PROVE  /\ imp[i].row.id <= relIds
                      /\ \A r \in rel : r.id # imp[i].row.id
                      /\ \A j \in Kiosks : ~Met(j, imp[i].row.id)'
                      /\ \A j \in Importers : j # i /\ Inserting(j) => imp[j].row.id # imp[i].row.id
    BY <1>1 DEF ImportsTrue, Inserting, Met
  <2>1. Inserting(i) /\ ImportsTrue
    BY <1>1 DEF Inserting, RelInv
  <2>2. /\ imp[i].row.id <= relIds
        /\ \A r \in rel : r.id # imp[i].row.id
        /\ \A j \in Kiosks : ~Met(j, imp[i].row.id)
        /\ \A j \in Importers : j # i /\ Inserting(j) => imp[j].row.id # imp[i].row.id
    BY <2>1 DEF ImportsTrue
  <2>3. ASSUME NEW j \in Kiosks, Met(j, imp[i].row.id)'
        PROVE  FALSE
    <3>1. imp'[i].row.id = imp[i].row.id
      BY <1>1
    <3>2. CASE j = k
      BY <1>3, <2>2, <2>3, <3>1, <3>2 DEF Met
    <3>3. CASE j # k
      BY <1>3, <2>2, <2>3, <3>1, <3>3 DEF Met
    <3>4. QED BY <3>2, <3>3
  <2>4. QED BY <2>2, <2>3
<1>7. \A j \in Kiosks : KioskCheckTrue(j)'
  <2> SUFFICES ASSUME NEW j \in Kiosks PROVE KioskCheckTrue(j)'
    OBVIOUS
  <2>1. CASE j = k
    BY <1>1, <1>3, <2>1 DEF KioskCheckTrue, OfferTrue, PolicyTrue, IsWindows
  <2>2. CASE j # k
    BY <1>1, <1>3, <2>2 DEF KioskCheckTrue, OfferTrue, PolicyTrue, IsWindows, RelInv
  <2>3. QED BY <2>1, <2>2
<1>8. QED BY <1>4, <1>5, <1>6, <1>7 DEF RelInv

\* What a step of a check takes from the table: at most one release, not yanked.
LEMMA FreshOffer ==
  ASSUME RelInv, NEW k \in Kiosks, NEW c \in BegunChecks, c.pc \notin {"offered", "reading"},
         \A id \in c.bad : id <= relIds, \A r \in rel : r.id \in c.bad => r.yanked,
         c.offer \subseteq rel, \A r, s \in c.offer : r = s, \A r \in c.offer : ~r.yanked
  PROVE  OfferTrue(k, c)
BY DEF OfferTrue, RelInv, RowsTrue

\* What the check of a kiosk has met, and what it may take over from itself.
LEMMA CheckKnows ==
  ASSUME RelInv, NEW k \in Kiosks, chk[k].pc # "idle"
  PROVE  /\ chk[k] \in BegunChecks /\ OfferTrue(k, chk[k]) /\ PolicyTrue(k, chk[k])
         /\ \A id \in chk[k].bad : id <= relIds
         /\ \A r \in rel : r.id \in chk[k].bad => r.yanked
         /\ \A id \in chk[k].bad : Met(k, id)
         /\ \A r \in chk[k].offer : Met(k, r.id)
BY BegunTyped DEF RelInv, KioskCheckTrue, OfferTrue, Met

\* A check begins.
LEMMA BeginCheckKept ==
  ASSUME RelInv, NEW k \in Kiosks, NEW pc \in {"pin", "decide"}, NEW offer \in SUBSET rel,
         BeginCheck(k, pc, offer), \A r, s \in offer : r = s, \A r \in offer : ~r.yanked,
         \A r \in offer : pref[k].pin # NoPin => r.version = pref[k].pin
  PROVE  RelInv'
<1> DEFINE c == [pc |-> pc, p |-> pref[k], push |-> push[k],
              todo |-> {}, forced |-> FALSE, offer |-> offer,
              bad |-> {r.id : r \in {x \in rel : x.yanked}}]
<1>1. RelTypes /\ RowsTrue
  BY DEF RelInv
<1>2. Step(k, c)
  BY DEF BeginCheck
<1>3. c \in BegunChecks
  BY <1>1 DEF RelTypes, BegunChecks, RelRows, RelIdSet
<1>4. /\ c.pc = pc /\ c.p = pref[k] /\ c.forced = FALSE /\ c.offer = offer
      /\ \A id \in c.bad : \E r \in rel : r.yanked /\ r.id = id
  OBVIOUS
<1> HIDE DEF c
<1>5. \A id \in c.bad : id <= relIds
  BY <1>1, <1>4 DEF RowsTrue
<1>6. \A r \in rel : r.id \in c.bad => r.yanked
  BY <1>1, <1>4 DEF RowsTrue
<1>7. OfferTrue(k, c)
  BY <1>3, <1>4, <1>5, <1>6, FreshOffer
<1>8. PolicyTrue(k, c)
  BY <1>4 DEF PolicyTrue
<1>9. QED BY <1>2, <1>3, <1>4, <1>7, <1>8, CheckStepKept

\* A kiosk, of any sort, or a page without a kiosk asks what there is for it.
LEMMA ChecksBeginKept ==
  ASSUME RelInv, NEW k \in Kiosks, firmwareCheck(k) \/ osCheck(k) \/ publicCheck(k)
  PROVE  RelInv'
<1>1. RelTypes /\ RowsTrue
  BY DEF RelInv
<1>2. CASE firmwareCheck(k) \/ osCheck(k)
  <2>1. BeginCheck(k, "pin", {})
    BY <1>2 DEF firmwareCheck, osCheck
  <2>2. QED BY <2>1, BeginCheckKept
<1>3. CASE publicCheck(k)
  <2> DEFINE O == selectPublicUpdate(pref[k], TargetOf[k])
  <2>1. BeginCheck(k, "decide", O)
    BY <1>3 DEF publicCheck
  <2>2. /\ O \subseteq rel /\ \A r, s \in O : r = s
        /\ \A r \in O : ~r.yanked
        /\ \A r \in O : pref[k].pin # NoPin => r.version = pref[k].pin
    BY <1>1, QueriesFindOne DEF selectPublicUpdate, NotYanked
  <2> HIDE DEF O
  <2>3. QED BY <2>1, <2>2, BeginCheckKept
<1>4. QED BY <1>2, <1>3

\* The next state of a check that stays what it is but for its place, its rollouts
\* and its offer.
LEMMA CheckMovesKept ==
  ASSUME RelInv, NEW k \in Kiosks, chk[k].pc # "idle", NEW c \in BegunChecks, Step(k, c),
         c.p = chk[k].p, c.push = chk[k].push, c.bad = chk[k].bad,
         c.pc \in {"list", "rollout", "decide"}, ~IsWindows(k),
         c.offer = chk[k].offer \/
           (c.offer \subseteq rel /\ (\A r, s \in c.offer : r = s) /\ \A r \in c.offer : ~r.yanked)
  PROVE  RelInv'
<1>1. /\ chk[k] \in BegunChecks /\ OfferTrue(k, chk[k])
      /\ \A id \in c.bad : id <= relIds
      /\ \A r \in rel : r.id \in c.bad => r.yanked
      /\ \A id \in c.bad : Met(k, id)
      /\ \A r \in chk[k].offer : Met(k, r.id)
  BY CheckKnows
<1>2. OfferTrue(k, c)
  <2>1. CASE c.offer = chk[k].offer
    BY <1>1, <2>1 DEF OfferTrue
  <2>2. CASE c.offer # chk[k].offer
    BY <1>1, <2>2, FreshOffer
  <2>3. QED BY <2>1, <2>2
<1>3. PolicyTrue(k, c)
  BY DEF PolicyTrue
<1>4. \A x \in c.offer : Met(k, x.id) \/ \E r \in rel : r.id = x.id
  BY <1>1
<1>5. QED BY <1>1, <1>2, <1>3, <1>4, CheckStepKept

\* The pin, the rollouts and the channel of a kiosk without Windows.
LEMMA CheckLooksKept ==
  ASSUME RelInv, NEW k \in Kiosks,
         checkPin(k) \/ checkRollouts(k) \/ checkRollout(k) \/ checkLatest(k)
  PROVE  RelInv'
<1>1. RelTypes /\ RowsTrue /\ chk[k].pc # "idle"
  BY DEF RelInv, checkPin, checkRollouts, checkRollout, checkLatest
<1>2. chk[k] \in BegunChecks /\ PolicyTrue(k, chk[k])
  BY <1>1, CheckKnows
<1>3. ~IsWindows(k)
  BY <1>2 DEF PolicyTrue, checkPin, checkRollouts, checkRollout, checkLatest
<1>4. CASE checkPin(k)
  <2> DEFINE r == IF chk[k].p.pin = NoPin THEN {}
                  ELSE NotYanked(getReleaseByVersionTarget(chk[k].p.pin, TargetOf[k]))
             c == [chk[k] EXCEPT !.pc = IF r = {} THEN "list" ELSE "decide", !.offer = r]
  <2>1. Step(k, c)
    BY <1>4 DEF checkPin
  <2>2. r \subseteq rel /\ (\A x, y \in r : x = y) /\ \A x \in r : ~x.yanked
    BY <1>1, QueriesFindOne DEF NotYanked
  <2>3. r \in SUBSET RelRows
    BY <1>1, <2>2 DEF RelTypes
  <2> HIDE DEF r
  <2>4. /\ c \in BegunChecks /\ c.pc \in {"list", "decide"} /\ c.p = chk[k].p /\ c.push = chk[k].push
        /\ c.bad = chk[k].bad /\ c.offer = r
    BY <1>2, <2>3 DEF BegunChecks
  <2> HIDE DEF c
  <2>5. QED BY <1>1, <1>3, <2>1, <2>2, <2>4, CheckMovesKept
<1>5. CASE checkRollouts(k)
  <2> DEFINE t == listActiveRolloutsForKiosk(k)
             c == [chk[k] EXCEPT !.pc = "rollout", !.todo = t]
  <2>1. Step(k, c)
    BY <1>5 DEF checkRollouts
  <2>2. t \in SUBSET Rollouts
    BY <1>1 DEF RelTypes, listActiveRolloutsForKiosk
  <2> HIDE DEF t
  <2>3. /\ c \in BegunChecks /\ c.pc = "rollout" /\ c.p = chk[k].p /\ c.push = chk[k].push
        /\ c.bad = chk[k].bad /\ c.offer = chk[k].offer
    BY <1>2, <2>2 DEF BegunChecks
  <2> HIDE DEF c
  <2>4. QED BY <1>1, <1>3, <2>1, <2>3, CheckMovesKept
<1>6. CASE checkRollout(k)
  <2>1. PICK ro \in Newest(chk[k].todo) :
          LET r == {x \in NotYanked(getRelease(ro.release)) : x.target = TargetOf[k]}
          IN  Step(k, IF isKioskInRolloutBucket(k, ro) /\ r # {}
                        THEN [chk[k] EXCEPT !.pc = "decide", !.offer = r]
                        ELSE [chk[k] EXCEPT !.todo = @ \ {ro}])
    BY <1>6 DEF checkRollout
  <2> DEFINE r == {x \in NotYanked(getRelease(ro.release)) : x.target = TargetOf[k]}
             c == [chk[k] EXCEPT !.pc = "decide", !.offer = r]
             d == [chk[k] EXCEPT !.todo = @ \ {ro}]
  <2>2. Step(k, c) \/ Step(k, d)
    BY <2>1
  <2>3. r \subseteq rel /\ (\A x, y \in r : x = y) /\ \A x \in r : ~x.yanked
    BY <1>1, QueriesFindOne DEF NotYanked
  <2>4. r \in SUBSET RelRows
    BY <1>1, <2>3 DEF RelTypes
  <2> HIDE DEF r
  <2>5. /\ c \in BegunChecks /\ c.pc = "decide" /\ c.p = chk[k].p /\ c.push = chk[k].push
        /\ c.bad = chk[k].bad /\ c.offer = r
    BY <1>2, <2>4 DEF BegunChecks
  <2>6. /\ d \in BegunChecks /\ d.pc = "rollout" /\ d.p = chk[k].p /\ d.push = chk[k].push
        /\ d.bad = chk[k].bad /\ d.offer = chk[k].offer
    BY <1>2, <1>6 DEF BegunChecks, checkRollout
  <2> HIDE DEF c, d
  <2>7. CASE Step(k, c)
    BY <1>1, <1>3, <2>3, <2>5, <2>7, CheckMovesKept
  <2>8. CASE Step(k, d)
    BY <1>1, <1>3, <2>6, <2>8, CheckMovesKept
  <2>9. QED BY <2>2, <2>7, <2>8
<1>7. CASE checkLatest(k)
  <2> DEFINE r == getLatestRelease(chk[k].p.channel, TargetOf[k])
             c == [chk[k] EXCEPT !.pc = "decide", !.offer = r]
  <2>1. Step(k, c)
    BY <1>7 DEF checkLatest
  <2>2. r \subseteq rel /\ (\A x, y \in r : x = y) /\ \A x \in r : ~x.yanked
    BY <1>1, QueriesFindOne
  <2>3. r \in SUBSET RelRows
    BY <1>1, <2>2 DEF RelTypes
  <2> HIDE DEF r
  <2>4. /\ c \in BegunChecks /\ c.pc = "decide" /\ c.p = chk[k].p /\ c.push = chk[k].push
        /\ c.bad = chk[k].bad /\ c.offer = r
    BY <1>2, <2>3 DEF BegunChecks
  <2> HIDE DEF c
  <2>5. QED BY <1>1, <1>3, <2>1, <2>2, <2>4, CheckMovesKept
<1>8. QED BY <1>4, <1>5, <1>6, <1>7

\* A check that ends, whatever it ends in, leaves nothing behind.
LEMMA IdleKept ==
  ASSUME RelInv, NEW k \in Kiosks, Step(k, NotBegun)
  PROVE  RelInv'
BY CheckStepKept DEF NotBegun

\* The answer: a release that is newer than what is installed.
LEMMA DecideKept ==
  ASSUME RelInv, NEW k \in Kiosks, checkDecide(k)
  PROVE  RelInv'
<1>1. /\ chk[k] \in BegunChecks /\ OfferTrue(k, chk[k]) /\ PolicyTrue(k, chk[k]) /\ chk[k].pc = "decide"
      /\ \A id \in chk[k].bad : Met(k, id)
      /\ \A r \in chk[k].offer : Met(k, r.id)
  BY CheckKnows DEF checkDecide
<1>2. CASE Offerable(k) = {}
  BY <1>2, IdleKept DEF checkDecide
<1>3. CASE Offerable(k) # {}
  <2> DEFINE c == [chk[k] EXCEPT !.pc = "offered"]
  <2>1. Step(k, c)
    BY <1>3 DEF checkDecide
  <2>2. /\ c \in BegunChecks /\ c.pc = "offered" /\ c.p = chk[k].p /\ c.push = chk[k].push
        /\ c.bad = chk[k].bad /\ c.offer = chk[k].offer /\ c.forced = chk[k].forced
    BY <1>1 DEF BegunChecks
  <2> HIDE DEF c
  <2>3. c.offer # {} /\ \A r \in c.offer : r.version > ver[k]
    BY <1>1, <1>3, <2>2 DEF Offerable, isVersionUpgrade, OfferTrue
  <2>4. OfferTrue(k, c)
    BY <1>1, <2>2, <2>3 DEF OfferTrue
  <2>5. PolicyTrue(k, c)
    BY <1>1, <2>2 DEF PolicyTrue
  <2>6. QED BY <1>1, <2>1, <2>2, <2>4, <2>5, CheckStepKept
<1>4. QED BY <1>2, <1>3

\* The Windows branch: the selection under the policy that was read.
LEMMA WindowsKept ==
  ASSUME RelInv, NEW k \in Kiosks, checkWindows(k)
  PROVE  RelInv'
<1> DEFINE sel == selectWindowsRelease(k, chk[k].p)
           up == {r \in sel : isVersionUpgrade(r.version, ver[k])}
           f == \E r \in up : windowsPushRequest(chk[k].push, r.version, windowsUpdatePolicy(chk[k].p))
           c == [chk[k] EXCEPT !.pc = "offered", !.offer = up, !.forced = f]
<1>1. /\ chk[k] \in BegunChecks /\ OfferTrue(k, chk[k]) /\ chk[k].pc = "pin"
      /\ \A id \in chk[k].bad : Met(k, id)
  BY CheckKnows DEF checkWindows
<1>2. /\ sel \subseteq rel /\ (\A r, s \in sel : r = s) /\ (\A r \in sel : ~r.yanked)
      /\ chk[k].p.pin # NoPin => \A r \in sel : r.version = chk[k].p.pin
  BY <1>1, SelectionFindsOne DEF BegunChecks
<1>3. up \in SUBSET RelRows /\ f \in BOOLEAN
  BY <1>2 DEF RelInv, RelTypes
<1>4. Step(k, IF up = {} THEN NotBegun ELSE c)
  BY DEF checkWindows
<1>5. /\ up \subseteq rel /\ (\A r, s \in up : r = s) /\ (\A r \in up : ~r.yanked /\ r.version > ver[k])
      /\ chk[k].p.pin # NoPin => \A r \in up : r.version = chk[k].p.pin
  BY <1>2 DEF isVersionUpgrade
<1>6. f => \A r \in up : /\ chk[k].push.version = r.version
                         /\ chk[k].push.policy.channel = chk[k].p.channel
                         /\ chk[k].push.policy.pin = chk[k].p.pin
  <2> SUFFICES ASSUME f, NEW r \in up
               PROVE  /\ chk[k].push.version = r.version
                      /\ chk[k].push.policy.channel = chk[k].p.channel
                      /\ chk[k].push.policy.pin = chk[k].p.pin
    OBVIOUS
  <2>1. windowsPushRequest(chk[k].push, r.version, windowsUpdatePolicy(chk[k].p))
    BY <1>5
  <2>2. QED BY <2>1 DEF windowsPushRequest, windowsUpdatePolicy
<1> HIDE DEF up, f, sel
<1>7. CASE up = {}
  BY <1>4, <1>7, IdleKept
<1>8. CASE up # {}
  <2>1. Step(k, c)
    BY <1>4, <1>8
  <2>2. /\ c \in BegunChecks /\ c.pc = "offered" /\ c.p = chk[k].p /\ c.push = chk[k].push
        /\ c.bad = chk[k].bad /\ c.offer = up /\ (c.forced <=> f)
    BY <1>1, <1>3 DEF BegunChecks
  <2> HIDE DEF c
  <2>3. RowsTrue
    BY DEF RelInv
  <2>4. OfferTrue(k, c)
    BY <1>1, <1>5, <1>8, <2>2, <2>3 DEF OfferTrue, RowsTrue
  <2>5. PolicyTrue(k, c)
    BY <1>5, <1>6, <2>2 DEF PolicyTrue
  <2>6. QED BY <1>1, <1>5, <2>1, <2>2, <2>4, <2>5, CheckStepKept
<1>9. QED BY <1>7, <1>8

\* The download: the row is read again, and the installed version is the one offered.
LEMMA DownloadKept ==
  ASSUME RelInv, NEW k \in Kiosks, downloadStart(k)
  PROVE  RelInv'
<1> DEFINE o == CHOOSE x \in chk[k].offer : TRUE
           r == NotYanked(getRelease(o.id))
           c == [chk[k] EXCEPT !.pc = "reading", !.offer = r]
<1>1. /\ chk[k] \in BegunChecks /\ OfferTrue(k, chk[k]) /\ chk[k].pc = "offered"
      /\ \A id \in chk[k].bad : Met(k, id)
  BY CheckKnows DEF downloadStart
<1>2. RelTypes /\ RowsTrue
  BY DEF RelInv
<1>3. o \in chk[k].offer /\ o.version > ver[k]
  BY <1>1 DEF OfferTrue
<1>4. r \subseteq rel /\ (\A x, y \in r : x = y) /\ (\A x \in r : ~x.yanked /\ x.id = o.id)
  BY <1>2, QueriesFindOne DEF NotYanked, getRelease
<1>5. Step(k, IF r = {} THEN NotBegun ELSE c)
  BY DEF downloadStart
<1> HIDE DEF o
<1>6. \A x \in r : x.version > ver[k]
  BY <1>1, <1>3, <1>4 DEF OfferTrue
<1>7. r \in SUBSET RelRows
  BY <1>2, <1>4 DEF RelTypes
<1> HIDE DEF r
<1>8. CASE r = {}
  BY <1>5, <1>8, IdleKept
<1>9. CASE r # {}
  <2>1. Step(k, c)
    BY <1>5, <1>9
  <2>2. c \in BegunChecks /\ c.pc = "reading" /\ c.bad = chk[k].bad /\ c.offer = r
    BY <1>1, <1>7 DEF BegunChecks
  <2> HIDE DEF c
  <2>3. OfferTrue(k, c)
    BY <1>1, <1>2, <1>4, <1>6, <1>9, <2>2 DEF OfferTrue, RowsTrue
  <2>4. PolicyTrue(k, c)
    BY <2>2 DEF PolicyTrue
  <2>5. QED BY <1>1, <1>4, <2>1, <2>2, <2>3, <2>4, CheckStepKept
<1>10. QED BY <1>8, <1>9

\* The bytes are installed, or are gone.
LEMMA DownloadReads ==
  ASSUME RelInv, NEW k \in Kiosks, downloadRead(k)
  PROVE  /\ chk' = [chk EXCEPT ![k] = NotBegun]
         /\ \E v \in Versions \cup {Shipped} : v >= ver[k] /\ ver' = [ver EXCEPT ![k] = v]
<1> DEFINE r == CHOOSE x \in chk[k].offer : TRUE
<1>1. /\ chk[k] \in BegunChecks /\ OfferTrue(k, chk[k]) /\ chk[k].pc = "reading"
  BY CheckKnows DEF downloadRead
<1>2. r \in chk[k].offer /\ r.version > ver[k] /\ r.version \in Versions
  <2>1. r \in chk[k].offer /\ r.version > ver[k]
    BY <1>1 DEF OfferTrue
  <2>2. QED BY <1>1, <2>1 DEF BegunChecks, RelRows
<1>3. chk' = [chk EXCEPT ![k] = NotBegun] /\ (ver' = [ver EXCEPT ![k] = r.version] \/ ver' = ver)
  BY DEF downloadRead
<1>4. ver \in [Kiosks -> Versions \cup {Shipped}] /\ ver[k] \in Nat
  BY RelBounds DEF RelInv, RelTypes
<1> HIDE DEF r
<1>5. CASE ver' = [ver EXCEPT ![k] = r.version]
  <2>1. r.version \in Nat
    BY <1>2, RelBounds
  <2>2. r.version \in Versions \cup {Shipped} /\ r.version >= ver[k]
    BY <1>2, <1>4, <2>1
  <2>3. QED BY <1>3, <1>5, <2>2
<1>6. CASE ver' = ver
  <2>1. ver' = [ver EXCEPT ![k] = ver[k]] /\ ver[k] >= ver[k] /\ ver[k] \in Versions \cup {Shipped}
    BY <1>4, <1>6
  <2>2. QED BY <1>3, <2>1
<1>7. QED BY <1>3, <1>5, <1>6

\* The download ends: the file is read, installed and the check is over.
LEMMA DownloadReadKept ==
  ASSUME RelInv, NEW k \in Kiosks, downloadRead(k)
  PROVE  RelInv'
<1>1. PICK v \in Versions \cup {Shipped} :
        v >= ver[k] /\ ver' = [ver EXCEPT ![k] = v] /\ chk' = [chk EXCEPT ![k] = NotBegun]
  BY DownloadReads
<1>2. UNCHANGED <<kind, TargetOf, pref, push, sched, relIds, rolloutIds, rel, blob,
                  rollout, imp, pass, creating>>
  BY DEF downloadRead, fixed, prefs, hist
<1>3. RelTypes /\ NotBegun.pc = "idle"
  BY DEF RelInv, NotBegun
<1>4. /\ chk' \in [Kiosks -> {NotBegun} \cup BegunChecks] /\ chk'[k] = NotBegun
      /\ ver' \in [Kiosks -> Versions \cup {Shipped}]
      /\ \A j \in Kiosks : j # k => chk'[j] = chk[j] /\ ver'[j] = ver[j]
  BY <1>1, <1>3 DEF RelTypes
<1>5. RelTypes'
  BY <1>2, <1>3, <1>4 DEF RelTypes
<1>6. RowsTrue' /\ RolloutsTrue' /\ PassTrue'
  BY <1>2 DEF RelInv, RowsTrue, RolloutsTrue, PassTrue
<1>7. \A j \in Kiosks : \A id : Met(j, id)' => Met(j, id)
  BY <1>3, <1>4 DEF Met
<1>8. ImportsTrue'
  BY <1>2, <1>7 DEF RelInv, ImportsTrue, Inserting
<1>9. \A j \in Kiosks : KioskCheckTrue(j)'
  <2> SUFFICES ASSUME NEW j \in Kiosks PROVE KioskCheckTrue(j)'
    OBVIOUS
  <2>1. CASE j = k
    BY <1>3, <1>4, <2>1 DEF KioskCheckTrue
  <2>2. CASE j # k
    BY <1>2, <1>4, <2>2 DEF KioskCheckTrue, OfferTrue, PolicyTrue, IsWindows, RelInv
  <2>3. QED BY <2>1, <2>2
<1>10. QED BY <1>5, <1>6, <1>8, <1>9 DEF RelInv

\* What concerns neither releases nor imports nor checks.
LEMMA OtherTablesKept ==
  ASSUME RelInv, UNCHANGED <<kind, TargetOf, rel, imp, chk, ver, relIds>>,
         RelTypes', RolloutsTrue', PassTrue'
  PROVE  RelInv'
<1>1. RowsTrue' /\ ImportsTrue'
  BY DEF RelInv, RowsTrue, ImportsTrue, Inserting, Met
<1>2. \A k \in Kiosks : KioskCheckTrue(k)'
  BY DEF RelInv, KioskCheckTrue, OfferTrue, PolicyTrue, IsWindows
<1>3. QED BY <1>1, <1>2 DEF RelInv

\* The release a push is made of is one of the table.
LEMMA SelectedTyped ==
  ASSUME RelInv, NEW k \in Kiosks
  PROVE  pref[k] \in Prefs /\ selectWindowsRelease(k, pref[k]) \subseteq RelRows
BY SelectionFindsOne DEF RelInv, RelTypes

\* Preferences, pushes and the schedule.
LEMMA PreferencesKept ==
  ASSUME RelInv,
         \/ SetSchedule
         \/ \E k \in Kiosks, c \in Channels, v \in Versions \cup {NoPin} :
              setKioskFirmwarePref(k, c, v) \/ setKioskOsUpdatePref(k, c, v)
         \/ \E k \in Kiosks : createWindowsPush(k) \/ PushExpires(k)
  PROVE  RelInv'
<1>1. UNCHANGED <<kind, TargetOf, rel, blob, rollout, imp, chk, ver, relIds, rolloutIds,
                  pass, creating>>
  BY DEF SetSchedule, setKioskFirmwarePref, setKioskOsUpdatePref, SetPref,
         createWindowsPush, PushExpires, fixed, hist
<1>2. RelTypes
  BY DEF RelInv
<1>3. pref' \in [Kiosks -> Prefs] /\ push' \in [Kiosks -> Pushes] /\ sched' \in {"always", "windows"}
  <2>1. CASE SetSchedule
    BY <1>2, <2>1 DEF SetSchedule, RelTypes
  <2>2. ASSUME NEW k \in Kiosks, NEW c \in Channels, NEW v \in Versions \cup {NoPin},
               setKioskFirmwarePref(k, c, v) \/ setKioskOsUpdatePref(k, c, v)
        PROVE  pref' \in [Kiosks -> Prefs] /\ push' \in [Kiosks -> Pushes] /\ sched' \in {"always", "windows"}
    <3> DEFINE p == [channel |-> c, pin |-> v]
    <3>1. p \in Prefs
      BY DEF Prefs
    <3>2. pref' = [pref EXCEPT ![k] = p] /\ push' = push /\ sched' = sched
      BY <2>2 DEF setKioskFirmwarePref, setKioskOsUpdatePref, SetPref
    <3> HIDE DEF p
    <3>3. QED BY <1>2, <3>1, <3>2 DEF RelTypes
  <2>3. ASSUME NEW k \in Kiosks, createWindowsPush(k) \/ PushExpires(k)
        PROVE  pref' \in [Kiosks -> Prefs] /\ push' \in [Kiosks -> Pushes] /\ sched' \in {"always", "windows"}
    <3>1. CASE PushExpires(k)
      BY <1>2, <3>1 DEF PushExpires, RelTypes, Pushes
    <3>2. CASE createWindowsPush(k)
      <4>1. PICK r \in selectWindowsRelease(k, pref[k]) :
              push' = [push EXCEPT ![k] = [version |-> r.version,
                                           policy |-> windowsUpdatePolicy(pref[k])]]
        BY <3>2 DEF createWindowsPush
      <4>2. r.version \in Versions
        BY SelectedTyped DEF RelRows
      <4>3. windowsUpdatePolicy(pref[k]) \in Policies
        BY <1>2 DEF windowsUpdatePolicy, Policies, RelTypes, Prefs
      <4>4. [version |-> r.version, policy |-> windowsUpdatePolicy(pref[k])] \in Pushes
        BY <4>2, <4>3 DEF Pushes
      <4>5. pref' = pref /\ sched' = sched
        BY <3>2 DEF createWindowsPush
      <4>6. QED BY <1>2, <4>1, <4>4, <4>5 DEF RelTypes
    <3>3. QED BY <2>3, <3>1, <3>2
  <2>4. QED BY <2>1, <2>2, <2>3
<1>4. RelTypes' /\ RolloutsTrue' /\ PassTrue'
  BY <1>1, <1>2, <1>3 DEF RelTypes, RelInv, RolloutsTrue, PassTrue
<1>5. QED BY <1>1, <1>4, OtherTablesKept

\* A rollout that is entered, written and activated.
LEMMA RolloutNewKept ==
  ASSUME RelInv, NEW r \in rel, NEW ts \in SUBSET Kiosks, NEW pct \in {50, 100},
         RolloutNew(r, ts, pct)
  PROVE  RelInv'
<1> DEFINE n == rolloutIds + 1
           ro == [id |-> n, release |-> r.id, targets |-> ts, percentage |-> pct,
                  state |-> "queued"]
<1>1. /\ creating.pc = "idle" /\ creating' = [pc |-> "insert", ro |-> ro] /\ rolloutIds' = n
      /\ UNCHANGED <<kind, TargetOf, pref, push, sched, rel, blob, rollout, imp, chk, ver,
                     relIds, pass>>
  BY DEF RolloutNew, fixed, prefs
<1>2. RelTypes /\ RolloutsTrue /\ PassTrue /\ rolloutIds \in Nat /\ n \in Nat
      /\ r.id \in RelIdSet
  BY DEF RelInv, RelTypes, RelRows, RelIdSet
<1>3. n > rolloutIds
  BY <1>2
<1> HIDE DEF n
<1>4. ro \in Rollouts /\ ro.id = n
  BY <1>2 DEF Rollouts, LiveStates
<1> HIDE DEF ro
<1>5. creating' \in BegunRollouts /\ creating'.pc = "insert" /\ creating'.ro = ro
  BY <1>1, <1>4 DEF BegunRollouts
<1>6. /\ \A x \in rollout : x.id \in Nat
      /\ pass.pc # "idle" => \A x \in pass.seen : x.id \in Nat
  BY <1>2, BegunTyped DEF RelTypes, Rollouts, BegunPasses
<1>7. RelTypes'
  BY <1>1, <1>2, <1>5 DEF RelTypes
<1>8. RolloutsTrue'
  BY <1>1, <1>2, <1>3, <1>4, <1>5, <1>6 DEF RolloutsTrue
<1>9. PassTrue'
  BY <1>1, <1>2, <1>3, <1>4, <1>5, <1>6 DEF PassTrue
<1>10. QED BY <1>1, <1>7, <1>8, <1>9, OtherTablesKept

\* The row of a rollout is written, under an id no rollout has.
LEMMA RolloutInsertKept ==
  ASSUME RelInv, createFirmwareRollout
  PROVE  RelInv'
<1>1. /\ creating.pc = "insert"
      /\ \/ creating' = NotBegun /\ rollout' = rollout
         \/ rollout' = rollout \cup {creating.ro} /\ creating' = [creating EXCEPT !.pc = "activate"]
      /\ UNCHANGED <<kind, TargetOf, pref, push, sched, rel, blob, imp, chk, ver, relIds,
                     rolloutIds, pass>>
  BY DEF createFirmwareRollout, fixed, prefs, hist
<1>2. RelTypes /\ RolloutsTrue /\ PassTrue /\ creating \in BegunRollouts /\ creating.ro \in Rollouts
  BY <1>1, BegunTyped DEF RelInv, BegunRollouts
<1>3. CASE creating' = NotBegun /\ rollout' = rollout
  <2>1. creating'.pc = "idle"
    BY <1>3 DEF NotBegun
  <2>2. RelTypes' /\ RolloutsTrue' /\ PassTrue'
    BY <1>1, <1>2, <1>3, <2>1 DEF RelTypes, RolloutsTrue, PassTrue
  <2>3. QED BY <1>1, <2>2, OtherTablesKept
<1>4. CASE rollout' = rollout \cup {creating.ro} /\ creating' = [creating EXCEPT !.pc = "activate"]
  <2>1. creating' \in BegunRollouts /\ creating'.pc = "activate"
    BY <1>2, <1>4 DEF BegunRollouts
  <2>2. RelTypes'
    BY <1>1, <1>2, <1>4, <2>1 DEF RelTypes
  <2>3. RolloutsTrue'
    BY <1>1, <1>2, <1>4, <2>1 DEF RolloutsTrue
  <2>4. PassTrue'
    BY <1>1, <1>2, <1>4, <2>1 DEF PassTrue
  <2>5. QED BY <1>1, <2>2, <2>3, <2>4, OtherTablesKept
<1>5. QED BY <1>1, <1>3, <1>4

\* A rollout in another state is the same rollout.
LEMMA StateKeepsRollouts ==
  ASSUME RelTypes, NEW id, NEW st \in {"paused", "active", "complete"}
  PROVE  /\ WithState(id, st) \subseteq Rollouts
         /\ \A y \in WithState(id, st) : \E x \in rollout : x.id = y.id /\ x.release = y.release
         /\ \A x \in rollout : \E y \in WithState(id, st) : x.id = y.id
<1>1. ASSUME NEW y \in WithState(id, st)
      PROVE  y \in Rollouts /\ \E x \in rollout : x.id = y.id /\ x.release = y.release
  <2>1. PICK x \in rollout : y = IF x.id = id THEN [x EXCEPT !.state = st] ELSE x
    BY DEF WithState
  <2>2. x \in Rollouts
    BY DEF RelTypes
  <2>3. y \in Rollouts /\ x.id = y.id /\ x.release = y.release
    BY <2>1, <2>2 DEF Rollouts, LiveStates
  <2>4. QED BY <2>3
<1>2. ASSUME NEW x \in rollout
      PROVE  \E y \in WithState(id, st) : x.id = y.id
  <2> DEFINE y == IF x.id = id THEN [x EXCEPT !.state = st] ELSE x
  <2>1. y \in WithState(id, st)
    BY DEF WithState
  <2>2. x \in Rollouts
    BY DEF RelTypes
  <2>3. y.id = x.id
    BY <2>2 DEF Rollouts
  <2>4. QED BY <2>1, <2>3
<1>3. QED BY <1>1, <1>2

\* One rollout changes state; what a pass read of it before stays what it was.
LEMMA RolloutStateKept ==
  ASSUME RelInv, NEW id, NEW st \in {"paused", "active", "complete"},
         rollout' = WithState(id, st),
         creating' = creating \/ creating' = NotBegun,
         UNCHANGED <<kind, TargetOf, pref, push, sched, rel, blob, imp, chk, ver, relIds,
                     rolloutIds, pass>>
  PROVE  RelInv'
<1>1. RelTypes /\ RolloutsTrue /\ PassTrue /\ NotBegun.pc = "idle"
  BY DEF RelInv, NotBegun
<1>2. /\ rollout' \subseteq Rollouts
      /\ \A y \in rollout' : \E x \in rollout : x.id = y.id /\ x.release = y.release
  BY <1>1, StateKeepsRollouts
<1>3. RelTypes'
  BY <1>1, <1>2 DEF RelTypes
<1>4. RolloutsTrue'
  BY <1>1, <1>2 DEF RolloutsTrue
<1>5. PassTrue'
  BY <1>1, <1>2 DEF PassTrue
<1>6. QED BY <1>3, <1>4, <1>5, OtherTablesKept

\* Every way a rollout changes state: entered as active, paused, resumed, completed.
LEMMA RolloutStatesKept ==
  ASSUME RelInv,
         \/ updateFirmwareRolloutState
         \/ \E ro \in rollout, st \in {"paused", "active", "complete"} :
              firmwareRolloutState(ro.id, st) \/ osRolloutState(ro.id, st)
  PROVE  RelInv'
<1>1. UNCHANGED <<kind, TargetOf, pref, push, sched, rel, blob, imp, chk, ver, relIds,
                  rolloutIds, pass>>
  BY DEF updateFirmwareRolloutState, firmwareRolloutState, osRolloutState, SetRolloutState,
         fixed, prefs, hist
<1>2. CASE updateFirmwareRolloutState
  BY <1>1, <1>2, RolloutStateKept DEF updateFirmwareRolloutState
<1>3. ASSUME NEW ro \in rollout, NEW st \in {"paused", "active", "complete"},
             firmwareRolloutState(ro.id, st) \/ osRolloutState(ro.id, st)
      PROVE  RelInv'
  <2>1. rollout' = WithState(ro.id, st) /\ creating' = creating
    BY <1>3 DEF firmwareRolloutState, osRolloutState, SetRolloutState
  <2>2. QED BY <1>1, <2>1, RolloutStateKept
<1>4. QED BY <1>2, <1>3

\* The pass reads: the rollouts, and what it will remove, which none of them needs.
LEMMA PassReadsKept ==
  ASSUME RelInv,
         startArtifactCleanup \/ listYankedReleases \/ listExcessReleases \/ cleanupEnd
  PROVE  RelInv'
<1>1. UNCHANGED <<kind, TargetOf, pref, push, sched, rel, blob, rollout, imp, chk, ver,
                  relIds, rolloutIds, creating>>
  BY DEF startArtifactCleanup, listYankedReleases, listExcessReleases, cleanupEnd, fixed,
         prefs, hist
<1>2. RelTypes /\ RolloutsTrue /\ PassTrue /\ NotBegun.pc = "idle"
  BY DEF RelInv, NotBegun
<1>3. ASSUME pass' \in {NotBegun} \cup BegunPasses, PassTrue'
      PROVE  RelInv'
  <2>1. RelTypes'
    BY <1>1, <1>2, <1>3 DEF RelTypes
  <2>2. RolloutsTrue'
    BY <1>1, <1>2 DEF RolloutsTrue
  <2>3. QED BY <1>1, <1>3, <2>1, <2>2, OtherTablesKept
<1>4. CASE startArtifactCleanup
  <2> DEFINE pr == {ro.release : ro \in {x \in rollout : x.state \in LiveStates}}
  <2>1. pr \in SUBSET RelIdSet /\ rollout \in SUBSET Rollouts
        /\ \A ro \in rollout : ro.state \in LiveStates => ro.release \in pr
    BY <1>2 DEF RelTypes, Rollouts
  <2>2. pass' = [pc |-> "yanked", seen |-> rollout, protect |-> pr, todo |-> {}, cur |-> {}]
    BY <1>4 DEF startArtifactCleanup
  <2> HIDE DEF pr
  <2>3. pass' \in BegunPasses
    BY <2>1, <2>2 DEF BegunPasses
  <2>4. PassTrue'
    BY <1>1, <1>2, <2>1, <2>2 DEF PassTrue, RolloutsTrue
  <2>5. QED BY <1>3, <2>3, <2>4
<1>5. ASSUME NEW pc \in {"remove_yanked", "prune"}, NEW todo \in SUBSET rel, pass.pc # "idle",
             pass' = [pass EXCEPT !.pc = pc, !.todo = todo],
              \A r \in todo : r.id \notin pass.protect
      PROVE  RelInv'
  <2>1. pass \in BegunPasses
    BY <1>2, <1>5, BegunTyped
  <2>2. todo \in SUBSET RelRows
    BY <1>2 DEF RelTypes
  <2>3. /\ pass' \in BegunPasses /\ pass'.seen = pass.seen /\ pass'.protect = pass.protect
        /\ pass'.cur = pass.cur /\ pass'.todo = todo
    BY <1>5, <2>1, <2>2 DEF BegunPasses
  <2>4. PassTrue'
    BY <1>1, <1>2, <1>5, <2>3 DEF PassTrue
  <2>5. QED BY <1>3, <2>3, <2>4
<1>6. CASE listYankedReleases
  <2>1. {r \in rel : r.yanked /\ r.id \notin pass.protect} \in SUBSET rel
    OBVIOUS
  <2>2. QED BY <1>5, <1>6, <2>1 DEF listYankedReleases
<1>7. CASE listExcessReleases
  <2>1. {r \in Excess : r.id \notin pass.protect} \in SUBSET rel
    BY DEF Excess
  <2>2. QED BY <1>5, <1>7, <2>1 DEF listExcessReleases
<1>8. CASE cleanupEnd
  <2>1. pass' = NotBegun
    BY <1>8 DEF cleanupEnd
  <2>2. PassTrue'
    BY <1>2, <2>1 DEF PassTrue
  <2>3. QED BY <1>3, <2>1, <2>2
<1>9. QED BY <1>4, <1>6, <1>7, <1>8

\* The pass removes the file of a release; the row is removed after it.
LEMMA RemoveFileKept ==
  ASSUME RelInv, NEW r \in pass.todo, pass.pc # "idle", removeFile(r)
  PROVE  RelInv'
<1>1. /\ pass' = [pass EXCEPT !.cur = {r}] /\ blob' = blob \ {r.sha}
      /\ UNCHANGED <<kind, TargetOf, pref, push, sched, rel, rollout, imp, chk, ver,
                     relIds, rolloutIds, creating>>
  BY DEF removeFile, fixed, prefs, hist
<1>2. RelTypes /\ RolloutsTrue /\ PassTrue /\ pass \in BegunPasses
  BY BegunTyped DEF RelInv
<1>3. /\ pass' \in BegunPasses /\ pass'.seen = pass.seen /\ pass'.protect = pass.protect
      /\ pass'.cur = {r} /\ pass'.todo = pass.todo
  BY <1>1, <1>2 DEF BegunPasses
<1>4. RelTypes'
  BY <1>1, <1>2, <1>3 DEF RelTypes
<1>5. RolloutsTrue' /\ PassTrue'
  BY <1>1, <1>2, <1>3 DEF RolloutsTrue, PassTrue
<1>6. QED BY <1>1, <1>4, <1>5, OtherTablesKept

\* What a published row may become: itself, yanked.
SameRow(r, s) ==
  /\ s.id = r.id /\ s.version = r.version /\ s.target = r.target
  /\ s.channel = r.channel /\ s.sha = r.sha /\ (r.yanked => s.yanked)

\* Rows that are left, perhaps yanked, and imports that are left.
LEMMA OldRowsKept ==
  ASSUME RelInv, UNCHANGED <<kind, TargetOf, chk, ver, relIds>>,
         RelTypes', RolloutsTrue', PassTrue',
         \A s \in rel' : \E r \in rel : SameRow(r, s),
         \A s, t \in rel' : s.id = t.id => s = t,
         \A i \in Importers : Inserting(i)' => Inserting(i) /\ imp'[i].row = imp[i].row
  PROVE  RelInv'
<1>1. RowsTrue /\ ImportsTrue /\ RelTypes
  BY DEF RelInv
<1>2. RowsTrue'
  <2>1. ASSUME NEW s \in rel', NEW t \in rel', s.version = t.version, s.target = t.target
        PROVE  s = t
    <3>1. PICK q \in rel : SameRow(q, s)
      OBVIOUS
    <3>2. PICK r \in rel : SameRow(r, t)
      OBVIOUS
    <3>3. q.version = r.version /\ q.target = r.target
      BY <2>1, <3>1, <3>2 DEF SameRow
    <3>4. q = r
      BY <1>1, <3>3 DEF RowsTrue
    <3>5. QED BY <3>1, <3>2, <3>4 DEF SameRow
  <2>2. \A s \in rel' : s.id <= relIds'
    BY <1>1 DEF RowsTrue, SameRow
  <2>3. QED BY <2>1, <2>2 DEF RowsTrue
<1>3. ImportsTrue'
  <2> SUFFICES ASSUME NEW i \in Importers, Inserting(i)'
               PROVE  /\ imp[i].row.id <= relIds
                      /\ \A s \in rel' : s.id # imp[i].row.id
                      /\ \A k \in Kiosks : ~Met(k, imp[i].row.id)
                      /\ \A j \in Importers : j # i /\ Inserting(j) => imp[j].row.id # imp[i].row.id
    BY DEF ImportsTrue, Met
  <2>1. QED BY <1>1 DEF ImportsTrue, SameRow
<1>4. \A k \in Kiosks : KioskCheckTrue(k)'
  <2> SUFFICES ASSUME NEW k \in Kiosks, chk[k].pc # "idle"
               PROVE  OfferTrue(k, chk[k])' /\ PolicyTrue(k, chk[k])'
    BY DEF KioskCheckTrue
  <2>1. OfferTrue(k, chk[k]) /\ PolicyTrue(k, chk[k])
    BY CheckKnows
  <2>2. PolicyTrue(k, chk[k])'
    BY <2>1 DEF PolicyTrue, IsWindows
  <2>3. \A s \in rel' : s.id \in chk[k].bad => s.yanked
    BY <2>1 DEF OfferTrue, SameRow
  <2>4. \A r \in chk[k].offer : \A s \in rel' : s.id = r.id => s.version = r.version
    BY <2>1 DEF OfferTrue, SameRow
  <2>5. OfferTrue(k, chk[k])'
    BY <2>1, <2>3, <2>4 DEF OfferTrue
  <2>6. QED BY <2>2, <2>5
<1>5. QED BY <1>2, <1>3, <1>4 DEF RelInv

\* A row that stays is the same release.
LEMMA SameRowSelf == \A r : SameRow(r, r)
BY DEF SameRow

\* A release is yanked.
LEMMA YankRows ==
  ASSUME RelInv, NEW r \in rel, rel' = (rel \ {r}) \cup {[r EXCEPT !.yanked = TRUE]}
  PROVE  /\ rel' \subseteq RelRows
         /\ \A s \in rel' : \E q \in rel : SameRow(q, s)
         /\ \A s, t \in rel' : s.id = t.id => s = t
         /\ \A q \in rel : \E s \in rel' : s.id = q.id
<1> DEFINE y == [r EXCEPT !.yanked = TRUE]
<1>1. rel \subseteq RelRows /\ RowsTrue
  BY DEF RelInv, RelTypes
<1>2. y \in RelRows /\ SameRow(r, y) /\ y.id = r.id
  BY <1>1 DEF RelRows, SameRow
<1> HIDE DEF y
<1>3. rel' = (rel \ {r}) \cup {y}
  BY DEF y
<1>4. QED BY <1>1, <1>2, <1>3, SameRowSelf DEF RowsTrue

\* A yank, by the page of either kind.
LEMMA YankKept ==
  ASSUME RelInv, NEW r \in rel, yankFirmwareRelease(r) \/ yankOsUpdateRelease(r)
  PROVE  RelInv'
<1>1. /\ rel' = (rel \ {r}) \cup {[r EXCEPT !.yanked = TRUE]}
      /\ UNCHANGED <<kind, TargetOf, pref, push, sched, blob, rollout, ver, imp, pass, chk,
                     creating, relIds, rolloutIds>>
  BY DEF yankFirmwareRelease, yankOsUpdateRelease, fixed, prefs
<1>2. RelTypes' /\ RolloutsTrue' /\ PassTrue'
  BY <1>1, YankRows DEF RelInv, RelTypes, RolloutsTrue, PassTrue
<1>3. \A i \in Importers : Inserting(i)' => Inserting(i) /\ imp'[i].row = imp[i].row
  BY <1>1 DEF Inserting
<1>4. QED BY <1>1, <1>2, <1>3, YankRows, OldRowsKept

\* The pass removes a row, and with it the rollouts that need it.
LEMMA DeleteKept ==
  ASSUME RelInv, NEW r \in pass.todo, pass.pc # "idle", deleteRelease(r)
  PROVE  RelInv'
<1>1. /\ pass' = [pass EXCEPT !.cur = {}, !.todo = @ \ {r}]
      /\ rel' \subseteq rel /\ rollout' \subseteq rollout
      /\ UNCHANGED <<kind, TargetOf, pref, push, sched, blob, imp, chk, ver, relIds,
                     rolloutIds, creating>>
  BY DEF deleteRelease, DropRelease, fixed, prefs, hist
<1>2. RelTypes /\ RowsTrue /\ RolloutsTrue /\ PassTrue /\ pass \in BegunPasses
  BY BegunTyped DEF RelInv
<1>3. /\ pass' \in BegunPasses /\ pass'.seen = pass.seen /\ pass'.protect = pass.protect
      /\ pass'.cur = {} /\ pass'.todo = pass.todo \ {r}
  BY <1>1, <1>2 DEF BegunPasses
<1>4. RelTypes'
  BY <1>1, <1>2, <1>3 DEF RelTypes
<1>5. RolloutsTrue' /\ PassTrue'
  BY <1>1, <1>2, <1>3 DEF RolloutsTrue, PassTrue
<1>6. /\ \A s \in rel' : \E q \in rel : SameRow(q, s)
      /\ \A s, t \in rel' : s.id = t.id => s = t
      /\ \A i \in Importers : Inserting(i)' => Inserting(i) /\ imp'[i].row = imp[i].row
  BY <1>1, <1>2, SameRowSelf DEF RowsTrue, Inserting
<1>7. QED BY <1>1, <1>4, <1>5, <1>6, OldRowsKept

\* A row that is new has an id and a version nobody else has.
LEMMA NewRowKept ==
  ASSUME RelInv, NEW i \in Importers, Inserting(i), imp' = [imp EXCEPT ![i] = NotBegun],
         rel' = rel \cup {imp[i].row},
         getReleaseByVersionTarget(imp[i].row.version, imp[i].row.target) = {},
         UNCHANGED <<kind, TargetOf, pref, push, sched, blob, rollout, ver, chk, pass,
                     creating, relIds, rolloutIds>>
  PROVE  RelInv'
<1>1. RelTypes /\ RowsTrue /\ ImportsTrue /\ RolloutsTrue /\ PassTrue /\ imp[i] \in BegunImports
  BY BegunTyped DEF RelInv, Inserting
<1>2. PICK row \in RelRows : row = imp[i].row
  BY <1>1 DEF BegunImports
<1>3. /\ row.id <= relIds /\ \A r \in rel : r.id # row.id
      /\ \A k \in Kiosks : ~Met(k, row.id)
      /\ \A j \in Importers : j # i /\ Inserting(j) => imp[j].row.id # row.id
  BY <1>1, <1>2 DEF ImportsTrue
<1>4. \A r \in rel : ~(r.version = row.version /\ r.target = row.target)
  BY <1>2 DEF getReleaseByVersionTarget
<1>5. /\ imp' \in [Importers -> {NotBegun} \cup BegunImports] /\ imp'[i] = NotBegun
      /\ \A j \in Importers : j # i => imp'[j] = imp[j]
  BY <1>1 DEF RelTypes
<1>6. rel' = rel \cup {row}
  BY <1>2
<1>7. RelTypes'
  BY <1>1, <1>5, <1>6 DEF RelTypes
<1>8. RolloutsTrue' /\ PassTrue'
  BY <1>1 DEF RolloutsTrue, PassTrue
<1>9. RowsTrue'
  BY <1>1, <1>3, <1>4, <1>6 DEF RowsTrue
<1>10. ImportsTrue'
  <2> SUFFICES ASSUME NEW j \in Importers, Inserting(j)'
               PROVE  /\ imp'[j].row.id <= relIds
                      /\ \A r \in rel' : r.id # imp'[j].row.id
                      /\ \A k \in Kiosks : ~Met(k, imp'[j].row.id)
                      /\ \A l \in Importers : l # j /\ Inserting(l)' => imp'[l].row.id # imp'[j].row.id
    BY DEF ImportsTrue, Met
  <2>1. j # i /\ Inserting(j) /\ imp'[j] = imp[j]
    BY <1>5 DEF Inserting, NotBegun
  <2>2. \A l \in Importers : Inserting(l)' => Inserting(l) /\ imp'[l] = imp[l]
    BY <1>5 DEF Inserting, NotBegun
  <2>3. QED BY <1>1, <1>3, <1>6, <2>1, <2>2 DEF ImportsTrue
<1>11. \A k \in Kiosks : KioskCheckTrue(k)'
  <2> SUFFICES ASSUME NEW k \in Kiosks, chk[k].pc # "idle"
               PROVE  OfferTrue(k, chk[k])' /\ PolicyTrue(k, chk[k])'
    BY DEF KioskCheckTrue
  <2>1. OfferTrue(k, chk[k]) /\ PolicyTrue(k, chk[k])
    BY CheckKnows
  <2>2. PolicyTrue(k, chk[k])'
    BY <2>1 DEF PolicyTrue, IsWindows
  <2>3. row.id \notin chk[k].bad /\ \A r \in chk[k].offer : r.id # row.id
    BY <1>3 DEF Met
  <2>4. OfferTrue(k, chk[k])'
    BY <1>6, <2>1, <2>3 DEF OfferTrue
  <2>5. QED BY <2>2, <2>4
<1>12. QED BY <1>7, <1>8, <1>9, <1>10, <1>11 DEF RelInv

\* The database's turn in an import.
LEMMA ImportWritesKept ==
  ASSUME RelInv, NEW i \in Importers,
         createFirmwareRelease(i) \/ createOsUpdateRelease(i) \/ removeBundle(i)
  PROVE  RelInv'
<1>1. UNCHANGED <<kind, TargetOf, pref, push, sched, rollout, ver, chk, pass, creating,
                  relIds, rolloutIds>>
  BY DEF createFirmwareRelease, createOsUpdateRelease, removeBundle, fixed, prefs, hist
<1>2. RelTypes /\ RowsTrue /\ RolloutsTrue /\ PassTrue /\ imp[i] \in BegunImports
  BY BegunTyped DEF RelInv, createFirmwareRelease, createOsUpdateRelease, removeBundle
<1>3. CASE /\ Inserting(i) /\ imp' = [imp EXCEPT ![i] = NotBegun] /\ rel' = rel \cup {imp[i].row} /\ blob' = blob
           /\ getReleaseByVersionTarget(imp[i].row.version, imp[i].row.target) = {}
  BY <1>1, <1>3, NewRowKept
<1>4. CASE /\ rel' = rel /\ blob' \subseteq blob
           /\ imp' = [imp EXCEPT ![i] = NotBegun] \/ imp' = [imp EXCEPT ![i].pc = "conflict"]
  <2>1. /\ imp' \in [Importers -> {NotBegun} \cup BegunImports]
        /\ imp'[i].pc \in {"idle", "conflict"}
        /\ \A j \in Importers : j # i => imp'[j] = imp[j]
    BY <1>2, <1>4 DEF RelTypes, BegunImports, NotBegun
  <2>2. \A j \in Importers : Inserting(j)' => Inserting(j) /\ imp'[j].row = imp[j].row
    BY <2>1 DEF Inserting
  <2>3. RelTypes' /\ RolloutsTrue' /\ PassTrue'
    BY <1>1, <1>2, <1>4, <2>1 DEF RelTypes, RolloutsTrue, PassTrue
  <2>4. /\ \A s \in rel' : \E r \in rel : SameRow(r, s)
        /\ \A s, t \in rel' : s.id = t.id => s = t
    BY <1>2, <1>4, SameRowSelf DEF RowsTrue
  <2>5. QED BY <1>1, <2>2, <2>3, <2>4, OldRowsKept
<1>5. QED BY <1>3, <1>4 DEF createFirmwareRelease, createOsUpdateRelease, removeBundle,
                            InsertUnlessExists, Inserting

\* An import is received: its row gets the next id.
LEMMA ReceivedKept ==
  ASSUME RelInv, NEW i \in Importers, NEW v \in Versions, NEW t \in Targets,
         NEW c \in Channels, NEW s \in Shas,
         Received(i, relIds + 1, v, t, c, s), blob' = blob \cup {s}
  PROVE  RelInv'
<1> DEFINE n == relIds + 1
           row == [id |-> n, version |-> v, target |-> t, channel |-> c, sha |-> s,
                   yanked |-> FALSE]
           x == [pc |-> kind, row |-> row]
<1>1. /\ imp[i].pc = "idle" /\ relIds < MaxReleases /\ relIds' = n
      /\ imp' = [imp EXCEPT ![i] = x]
      /\ UNCHANGED <<kind, TargetOf, pref, push, sched, rel, rollout, ver, chk, pass,
                     creating, rolloutIds>>
  BY DEF Received, fixed, prefs
<1>2. RelTypes /\ RowsTrue /\ ImportsTrue /\ RolloutsTrue /\ PassTrue
  BY DEF RelInv
<1>3. n \in 1..MaxReleases /\ n > relIds /\ relIds \in Nat
  BY <1>1, <1>2, RelBounds DEF RelTypes
<1> HIDE DEF n
<1>4. row \in RelRows /\ row.id = n
  BY <1>3 DEF RelRows
<1> HIDE DEF row
<1>5. x \in BegunImports /\ x.pc = kind /\ x.row = row
  BY <1>2, <1>4 DEF BegunImports, RelTypes, Kinds
<1> HIDE DEF x
<1>6. /\ imp' \in [Importers -> {NotBegun} \cup BegunImports] /\ imp'[i] = x
      /\ \A j \in Importers : j # i => imp'[j] = imp[j]
  BY <1>1, <1>2, <1>5 DEF RelTypes
<1>7. RelTypes'
  BY <1>1, <1>2, <1>3, <1>6 DEF RelTypes
<1>8. RolloutsTrue' /\ PassTrue'
  BY <1>1, <1>2 DEF RolloutsTrue, PassTrue
<1>9. /\ \A r \in rel : r.id <= relIds /\ r.id \in Nat
      /\ \A k \in Kiosks : ~Met(k, n)
      /\ \A j \in Importers : Inserting(j) => imp[j].row.id <= relIds /\ imp[j].row.id \in Nat
  <2>1. \A r \in rel : r.id <= relIds /\ r.id \in Nat
    BY <1>2 DEF RelTypes, RelRows, RowsTrue
  <2>2. ASSUME NEW k \in Kiosks, Met(k, n)
        PROVE  FALSE
    <3>1. chk[k].pc # "idle" /\ chk[k] \in BegunChecks /\ OfferTrue(k, chk[k])
      BY <2>2, CheckKnows DEF Met
    <3>2. n <= relIds
      BY <2>2, <3>1 DEF Met, OfferTrue
    <3>3. QED BY <1>3, <3>2
  <2>3. ASSUME NEW j \in Importers, Inserting(j)
        PROVE  imp[j].row.id <= relIds /\ imp[j].row.id \in Nat
    <3>1. imp[j] \in BegunImports
      BY <1>2, <2>3, BegunTyped DEF Inserting
    <3>2. QED BY <1>2, <2>3, <3>1 DEF ImportsTrue, BegunImports, RelRows
  <2>4. QED BY <2>1, <2>2, <2>3
<1>10. RowsTrue'
  <2>1. \A r \in rel : r.id <= n
    BY <1>3, <1>9
  <2>2. QED BY <1>1, <1>2, <2>1 DEF RowsTrue
<1>11. ImportsTrue'
  <2> SUFFICES ASSUME NEW j \in Importers, Inserting(j)'
               PROVE  /\ imp'[j].row.id <= n
                      /\ \A r \in rel : r.id # imp'[j].row.id
                      /\ \A k \in Kiosks : ~Met(k, imp'[j].row.id)
                      /\ \A l \in Importers : l # j /\ Inserting(l)' => imp'[l].row.id # imp'[j].row.id
    BY <1>1 DEF ImportsTrue, Met
  <2>1. \A l \in Importers : l # i /\ Inserting(l)' => Inserting(l) /\ imp'[l] = imp[l]
    BY <1>6 DEF Inserting
  <2>2. CASE j = i
    BY <1>3, <1>4, <1>5, <1>6, <1>9, <2>1, <2>2
  <2>3. CASE j # i
    <3>1. Inserting(j) /\ imp'[j] = imp[j]
      BY <2>1, <2>3
    <3>2. imp[j].row.id <= n /\ imp[j].row.id # n
      BY <1>3, <1>9, <3>1
    <3>3. QED BY <1>2, <1>4, <1>5, <1>6, <2>1, <3>1, <3>2 DEF ImportsTrue
  <2>4. QED BY <2>2, <2>3
<1>12. \A k \in Kiosks : KioskCheckTrue(k)'
  <2> SUFFICES ASSUME NEW k \in Kiosks, chk[k].pc # "idle"
               PROVE  OfferTrue(k, chk[k])' /\ PolicyTrue(k, chk[k])'
    BY <1>1 DEF KioskCheckTrue
  <2>1. OfferTrue(k, chk[k]) /\ PolicyTrue(k, chk[k]) /\ chk[k] \in BegunChecks
    BY CheckKnows
  <2>2. PolicyTrue(k, chk[k])'
    BY <1>1, <2>1 DEF PolicyTrue, IsWindows
  <2>3. /\ \A id \in chk[k].bad : id <= n
        /\ \A r \in chk[k].offer : r.id <= n
    BY <1>3, <2>1 DEF OfferTrue, BegunChecks, RelRows, RelIdSet
  <2>4. OfferTrue(k, chk[k])'
    BY <1>1, <2>1, <2>3 DEF OfferTrue
  <2>5. QED BY <2>2, <2>4
<1>13. QED BY <1>7, <1>8, <1>10, <1>11, <1>12 DEF RelInv

\* The server starts with empty tables and no check.
LEMMA RelInitInv == ASSUME RelInit PROVE RelInv
<1>1. /\ rel = {} /\ blob = {} /\ rollout = {} /\ relIds = 0 /\ rolloutIds = 0
      /\ pass = NotBegun /\ creating = NotBegun /\ NotBegun.pc = "idle"
      /\ imp = [i \in Importers |-> NotBegun] /\ chk = [k \in Kiosks |-> NotBegun]
  BY DEF RelInit, NotBegun
<1>2. pref \in [Kiosks -> Prefs]
  <2>1. (CHOOSE c \in Channels : TRUE) \in Channels
    BY RelAssumption
  <2>2. QED BY <2>1, RelBounds DEF RelInit, Prefs
<1>3. TargetOf \in [Kiosks -> Targets] /\ kind \in Kinds /\ sched \in {"always", "windows"}
  BY DEF RelInit
<1>4. push \in [Kiosks -> Pushes] /\ ver \in [Kiosks -> Versions \cup {Shipped}]
  BY DEF RelInit, Pushes
<1>5. RelTypes
  BY <1>1, <1>2, <1>3, <1>4, RelBounds DEF RelTypes
<1>6. RowsTrue /\ ImportsTrue /\ RolloutsTrue /\ PassTrue /\ \A k \in Kiosks : KioskCheckTrue(k)
  BY <1>1 DEF RowsTrue, ImportsTrue, Inserting, RolloutsTrue, PassTrue, KioskCheckTrue
<1>7. QED BY <1>5, <1>6 DEF RelInv

\* Every step keeps the invariant.
LEMMA RelNextInv == ASSUME RelInv, [RelNext]_relVars PROVE RelInv'
<1>1. CASE ImportStep
  <2>1. ASSUME NEW i \in Importers, NEW v \in Versions, NEW t \in Targets,
               NEW c \in Channels, NEW s \in Shas,
               uploadFirmware(i, v, t, c, s) \/ importFirmware(i, v, t, c, s) \/ importOs(i, v, t, c, s)
        PROVE  RelInv'
    <3>1. Received(i, relIds + 1, v, t, c, s) /\ blob' = blob \cup {s}
      BY <2>1 DEF uploadFirmware, importFirmware, importOs, storeBlob, storeFromUrl
    <3>2. QED BY <3>1, ReceivedKept
  <2>2. QED BY <1>1, <2>1, ImportWritesKept DEF ImportStep
<1>2. CASE CleanupStep
  BY <1>2, PassReadsKept, RemoveFileKept, DeleteKept DEF CleanupStep
<1>3. CASE KioskStep
  BY <1>3, CheckLooksKept, DecideKept, WindowsKept, DownloadKept,
     DownloadReadKept DEF KioskStep
<1>4. CASE AdminStep
  <2>1. ASSUME NEW r \in rel, NEW ts \in SUBSET Kiosks, NEW pct \in {50, 100},
               firmwareRolloutNew(r, ts, pct) \/ osRolloutNew(r, ts, pct)
        PROVE  RelInv'
    BY <2>1, RolloutNewKept DEF firmwareRolloutNew, osRolloutNew
  <2>2. CASE AdminRequest
    BY <2>2, YankKept, PreferencesKept, RolloutStatesKept DEF AdminRequest
  <2>3. QED BY <1>4, <2>1, <2>2, RolloutInsertKept, RolloutStatesKept DEF AdminStep
<1>5. CASE startArtifactCleanup \/ \E k \in Kiosks : firmwareCheck(k) \/ osCheck(k) \/ publicCheck(k)
  BY <1>5, PassReadsKept, ChecksBeginKept
<1>6. CASE UNCHANGED relVars
  <2>1. RelTypes' /\ RolloutsTrue' /\ PassTrue'
    BY <1>6 DEF RelInv, RelTypes, RolloutsTrue, PassTrue, relVars, fixed, prefs, hist
  <2>2. QED BY <1>6, <2>1, OtherTablesKept DEF relVars, fixed, prefs, hist
<1>7. QED BY <1>1, <1>2, <1>3, <1>4, <1>5, <1>6 DEF RelNext

\* The invariant says what is offered.
LEMMA RelInvOffers == ASSUME RelInv PROVE OffersSafe
<1>1. RelTypes
  BY DEF RelInv
<1>2. RelTypeOK
  <2>1. pass.pc \in {"idle", "yanked", "remove_yanked", "prune"}
    BY <1>1, BegunTyped DEF BegunPasses
  <2>2. QED BY <1>1, <2>1 DEF RelTypeOK, RelTypes, Rollouts, Prefs
<1>3. YankedNotOffered
  BY CheckKnows DEF YankedNotOffered, OfferTrue
<1>4. WindowsHonoursPolicy
  BY CheckKnows DEF WindowsHonoursPolicy, PolicyTrue
<1>5. QED BY <1>2, <1>3, <1>4 DEF OffersSafe

\* For any releases, kiosks, importers and rollouts, and whatever is yanked,
\* imported, pinned, pushed or rolled out while a check is under way: a check
\* that ends in an offer offers no release that was yanked when it began, and a
\* Windows kiosk is offered its pin or nothing, and a push only under its policy.
THEOREM OffersStaySafe == RelSpec => []OffersSafe
<1>1. RelInit => RelInv
  BY RelInitInv
<1>2. RelInv /\ [RelNext]_relVars => RelInv'
  BY RelNextInv
<1>3. RelInv => OffersSafe
  BY RelInvOffers
<1>4. QED BY <1>1, <1>2, <1>3, PTL DEF RelSpec

\* What a step may do to the releases: add one that was received, yank one, or
\* remove some.
LEMMA RowsMove ==
  ASSUME [RelNext]_relVars
  PROVE  \/ rel' \subseteq rel
         \/ \E i \in Importers : Inserting(i) /\ rel' = rel \cup {imp[i].row}
         \/ \E r \in rel : rel' = (rel \ {r}) \cup {[r EXCEPT !.yanked = TRUE]}
<1>1. CASE ImportStep
  <2>1. PICK i \in Importers :
          \/ \E v \in Versions, t \in Targets, c \in Channels, s \in Shas :
               uploadFirmware(i, v, t, c, s) \/ importFirmware(i, v, t, c, s) \/ importOs(i, v, t, c, s)
          \/ createFirmwareRelease(i) \/ createOsUpdateRelease(i) \/ removeBundle(i)
    BY <1>1 DEF ImportStep
  <2>2. rel' = rel \/ (Inserting(i) /\ rel' = rel \cup {imp[i].row})
    BY <2>1 DEF uploadFirmware, importFirmware, importOs, Received, createFirmwareRelease,
                createOsUpdateRelease, removeBundle, InsertUnlessExists, Inserting
  <2>3. QED BY <2>2
<1>2. CASE CleanupStep
  BY <1>2 DEF CleanupStep, listYankedReleases, listExcessReleases, cleanupEnd, removeFile,
              deleteRelease, DropRelease
<1>3. CASE KioskStep
  BY <1>3 DEF KioskStep, checkPin, checkRollouts, checkRollout, checkLatest, checkDecide,
              checkWindows, downloadStart, downloadRead, Step
<1>4. CASE AdminStep
  BY <1>4 DEF AdminStep, AdminRequest, yankFirmwareRelease, yankOsUpdateRelease,
              setKioskFirmwarePref, setKioskOsUpdatePref, SetPref, SetSchedule,
              createWindowsPush, PushExpires, firmwareRolloutState, osRolloutState,
              SetRolloutState, firmwareRolloutNew, osRolloutNew, RolloutNew,
              createFirmwareRollout, updateFirmwareRolloutState
<1>5. CASE startArtifactCleanup \/ \E k \in Kiosks : firmwareCheck(k) \/ osCheck(k) \/ publicCheck(k)
  BY <1>5 DEF startArtifactCleanup, firmwareCheck, osCheck, publicCheck, BeginCheck, Step
<1>6. CASE UNCHANGED relVars
  BY <1>6 DEF relVars
<1>7. QED BY <1>1, <1>2, <1>3, <1>4, <1>5, <1>6 DEF RelNext

\* A step leaves published releases as they are, but for the yank.
LEMMA PublishedStep ==
  ASSUME RelInv, RelInv', [RelNext]_relVars
  PROVE  /\ \A r \in rel, s \in rel' :
              r.id = s.id =>
                /\ s.version = r.version /\ s.target = r.target
                /\ s.channel = r.channel /\ s.sha = r.sha
                /\ r.yanked => s.yanked
         /\ \A r, s \in rel' : r.version = s.version /\ r.target = s.target => r = s
<1>1. RowsTrue /\ RowsTrue' /\ ImportsTrue
  BY DEF RelInv
<1>2. \A r \in rel, s \in rel' : r.id = s.id => SameRow(r, s)
  <2>1. CASE rel' \subseteq rel
    BY <1>1, <2>1, SameRowSelf DEF RowsTrue
  <2>2. CASE \E i \in Importers : Inserting(i) /\ rel' = rel \cup {imp[i].row}
    BY <1>1, <2>2, SameRowSelf DEF RowsTrue, ImportsTrue
  <2>3. ASSUME NEW q \in rel, rel' = (rel \ {q}) \cup {[q EXCEPT !.yanked = TRUE]}
        PROVE  \A r \in rel, s \in rel' : r.id = s.id => SameRow(r, s)
    <3>1. \A s \in rel' : \E r \in rel : SameRow(r, s)
      BY <2>3, YankRows
    <3>2. QED BY <1>1, <3>1 DEF RowsTrue, SameRow
  <2>4. QED BY <2>1, <2>2, <2>3, RowsMove
<1>3. QED BY <1>1, <1>2 DEF SameRow, RowsTrue

\* A rollout goes with the release that a pass removes, and only then.
LEMMA RolloutsMove ==
  ASSUME RelInv, [RelNext]_relVars
  PROVE  \/ \A ro \in rollout : \E x \in rollout' : x.id = ro.id
         \/ /\ pass.pc # "idle"
            /\ \E r \in pass.cur : rollout' = {ro \in rollout : ro.release # r.id}
<1>1. CASE ImportStep
  BY <1>1 DEF ImportStep, uploadFirmware, importFirmware, importOs, Received,
              createFirmwareRelease, createOsUpdateRelease, removeBundle
<1>2. CASE CleanupStep
  BY <1>2 DEF CleanupStep, listYankedReleases, listExcessReleases, cleanupEnd, removeFile,
              deleteRelease, DropRelease
<1>3. CASE KioskStep
  BY <1>3 DEF KioskStep, checkPin, checkRollouts, checkRollout, checkLatest, checkDecide,
              checkWindows, downloadStart, downloadRead, Step
<1>4. CASE AdminStep
  <2>1. CASE \/ updateFirmwareRolloutState
             \/ \E ro \in rollout, st \in {"paused", "active", "complete"} :
                  firmwareRolloutState(ro.id, st) \/ osRolloutState(ro.id, st)
    <3>1. \E id : \E st \in {"paused", "active", "complete"} : rollout' = WithState(id, st)
      BY <2>1 DEF updateFirmwareRolloutState, firmwareRolloutState, osRolloutState,
                  SetRolloutState
    <3>2. QED BY <3>1, StateKeepsRollouts DEF RelInv
  <2>2. CASE createFirmwareRollout
    BY <2>2 DEF createFirmwareRollout
  <2>3. CASE /\ ~createFirmwareRollout /\ ~updateFirmwareRolloutState
             /\ ~\E ro \in rollout, st \in {"paused", "active", "complete"} :
                  firmwareRolloutState(ro.id, st) \/ osRolloutState(ro.id, st)
    BY <1>4, <2>3 DEF AdminStep, AdminRequest, yankFirmwareRelease, yankOsUpdateRelease,
                      setKioskFirmwarePref, setKioskOsUpdatePref, SetPref, SetSchedule,
                      createWindowsPush, PushExpires, firmwareRolloutNew, osRolloutNew,
                      RolloutNew
  <2>4. QED BY <2>1, <2>2, <2>3
<1>5. CASE startArtifactCleanup \/ \E k \in Kiosks : firmwareCheck(k) \/ osCheck(k) \/ publicCheck(k)
  BY <1>5 DEF startArtifactCleanup, firmwareCheck, osCheck, publicCheck, BeginCheck, Step
<1>6. CASE UNCHANGED relVars
  BY <1>6 DEF relVars
<1>7. QED BY <1>1, <1>2, <1>3, <1>4, <1>5, <1>6 DEF RelNext

\* A rollout that a pass had seen and that a step loses was complete when seen.
LEMMA LostStep ==
  ASSUME RelInv, [RelNext]_relVars, NEW ro \in rollout, \A x \in rollout' : x.id # ro.id,
         NEW x \in pass.seen, x.id = ro.id
  PROVE  x.state = "complete"
<1>1. pass.pc # "idle" /\ \E r \in pass.cur : rollout' = {y \in rollout : y.release # r.id}
  BY RolloutsMove
<1>2. PICK r \in pass.cur : rollout' = {y \in rollout : y.release # r.id}
  BY <1>1
<1>3. ro.release = r.id
  BY <1>2
<1>4. PassTrue /\ pass \in BegunPasses
  BY <1>1, BegunTyped DEF RelInv
<1>5. x.release = ro.release /\ r.id \notin pass.protect
  BY <1>1, <1>4 DEF PassTrue
<1>6. x.state \notin LiveStates
  BY <1>1, <1>3, <1>4, <1>5 DEF PassTrue
<1>7. x.state \in LiveStates \cup {"complete"}
  BY <1>4 DEF BegunPasses, Rollouts
<1>8. QED BY <1>6, <1>7

\* No step installs an older version.
LEMMA VersionStep ==
  ASSUME RelInv, [RelNext]_relVars, NEW k \in Kiosks
  PROVE  ver'[k] >= ver[k]
<1>1. ver \in [Kiosks -> Versions \cup {Shipped}] /\ \A j \in Kiosks : ver[j] \in Nat
  BY RelBounds DEF RelInv, RelTypes
<1>2. ASSUME NEW j \in Kiosks, downloadRead(j)
      PROVE  ver'[k] >= ver[k]
  <2>1. PICK v \in Versions \cup {Shipped} : v >= ver[j] /\ ver' = [ver EXCEPT ![j] = v]
    BY <1>2, DownloadReads
  <2>2. QED BY <1>1, <2>1
<1>3. CASE ver' = ver
  BY <1>1, <1>3
<1>4. CASE ImportStep
  BY <1>3, <1>4 DEF ImportStep, uploadFirmware, importFirmware, importOs, Received,
                    createFirmwareRelease, createOsUpdateRelease, removeBundle
<1>5. CASE CleanupStep
  BY <1>3, <1>5 DEF CleanupStep, listYankedReleases, listExcessReleases, cleanupEnd,
                    removeFile, deleteRelease
<1>6. CASE KioskStep
  BY <1>2, <1>3, <1>6 DEF KioskStep, checkPin, checkRollouts, checkRollout, checkLatest,
                          checkDecide, checkWindows, downloadStart, Step
<1>7. CASE AdminStep
  BY <1>3, <1>7 DEF AdminStep, AdminRequest, yankFirmwareRelease, yankOsUpdateRelease,
                    setKioskFirmwarePref, setKioskOsUpdatePref, SetPref, SetSchedule,
                    createWindowsPush, PushExpires, firmwareRolloutState, osRolloutState,
                    SetRolloutState, firmwareRolloutNew, osRolloutNew, RolloutNew,
                    createFirmwareRollout, updateFirmwareRolloutState
<1>8. CASE startArtifactCleanup \/ \E j \in Kiosks : firmwareCheck(j) \/ osCheck(j) \/ publicCheck(j)
  BY <1>3, <1>8 DEF startArtifactCleanup, firmwareCheck, osCheck, publicCheck, BeginCheck,
                    Step
<1>9. CASE UNCHANGED relVars
  BY <1>3, <1>9 DEF relVars
<1>10. QED BY <1>4, <1>5, <1>6, <1>7, <1>8, <1>9 DEF RelNext

\* For any of them: a published release keeps its version, target, channel and
\* bytes, and its yank, and no second one takes its version; artifact cleanup
\* removes no rollout it saw pending, active or paused, only one created behind
\* its back; and no kiosk is brought to an older version than it runs.
THEOREM ReleasesStayKept == RelSpec => ReleasesKept
<1>1. RelInit => RelInv
  BY RelInitInv
<1>2. RelInv /\ [RelNext]_relVars => RelInv'
  BY RelNextInv
<1>3. RelInv /\ RelInv' /\ [RelNext]_relVars
        => [/\ \A r \in rel, s \in rel' :
                 r.id = s.id =>
                   /\ s.version = r.version /\ s.target = r.target
                   /\ s.channel = r.channel /\ s.sha = r.sha
                   /\ r.yanked => s.yanked
            /\ \A r, s \in rel' : r.version = s.version /\ r.target = s.target
                                    => r = s]_relVars
  BY PublishedStep
<1>4. RelInv /\ [RelNext]_relVars
        => [\A ro \in rollout : (\A x \in rollout' : x.id # ro.id) =>
              \A x \in pass.seen : x.id = ro.id => x.state = "complete"]_relVars
  BY LostStep
<1>5. RelInv /\ [RelNext]_relVars => [\A k \in Kiosks : ver'[k] >= ver[k]]_relVars
  BY VersionStep
<1>6. QED BY <1>1, <1>2, <1>3, <1>4, <1>5, PTL
      DEF RelSpec, ReleasesKept, PublishedImmutable, OnlyUnseenRolloutsLost, NoDowngrade

-----------------------------------------------------------------------------
(* DashboardSync: the pages of Node-RED dashboards as entities *)

Ended == {"idle", "done", "failed"}
PageRows == [tab : DsTabs, name : DsNames]
EntityNames == Seq(DsNames \cup DsTabs)
EntityRows == [name : EntityNames, tab : DsTabs \cup {NoTab}]
SyncRuns == [at : Ended \cup {"find", "name", "save"}, todo : Seq(PageRows), row : Nat,
             name : EntityNames, calm : BOOLEAN]

DashTypes ==
  /\ dsTabs \in Seq(PageRows) /\ dsRows \in Seq(EntityRows)
  /\ dsRun \in [DsHandlers -> SyncRuns]

\* A name with a page's id is given to that page's entity only.
SuffixesTrue ==
  \A e \in DOMAIN dsRows : \A n \in DsNames, t \in DsTabs :
    dsRows[e].name = Suffixed(n, t) => dsRows[e].tab = t

\* A sync that has looked for a page's entity works on that page's entity.
RunTrue(run) ==
  /\ run.at \in {"name", "save"} =>
       /\ run.todo # <<>>
       /\ run.row # 0 => run.row \in DOMAIN dsRows /\ dsRows[run.row].tab = Head(run.todo).tab
  /\ run.at = "save" =>
       run.name \in {Plain(Head(run.todo).name), Suffixed(Head(run.todo).name, Head(run.todo).tab)}

Mirrored(page) == \E e \in DOMAIN dsRows : dsRows[e].tab = page.tab
Pending(run, page) == \E j \in DOMAIN run.todo : run.todo[j] = page

\* What a sync knows that nothing overlaps: a page has its entity or is still to do,
\* and the name it chose is free.
CalmTrue(run) ==
  run.calm /\ OneEntityPerPage =>
    /\ run.at # "failed"
    /\ run.at = "done" => run.todo = <<>>
    /\ run.at # "idle" => \A i \in DOMAIN dsTabs : Mirrored(dsTabs[i]) \/ Pending(run, dsTabs[i])
    /\ run.at \in {"name", "save"} /\ run.row = 0 => ~Mirrored(Head(run.todo))
    /\ run.at = "save" => \/ run.name = Suffixed(Head(run.todo).name, Head(run.todo).tab)
                          \/ getEntityByName(run.name) \subseteq {run.row}

\* While a sync is calm no other one is under way.
CalmAlone ==
  \A h, o \in DsHandlers : dsRun[h].calm /\ o # h => dsRun[o].at \in Ended

DashInv ==
  /\ DashTypes /\ SuffixesTrue /\ CalmAlone
  /\ \A h \in DsHandlers : RunTrue(dsRun[h]) /\ CalmTrue(dsRun[h])

\* A name is plain or carries the id of one page.
LEMMA NamesDiffer ==
  /\ \A a, n, t : Plain(a) # Suffixed(n, t)
  /\ \A n, t, m, u : Suffixed(n, t) = Suffixed(m, u) => t = u
  /\ \A n \in DsNames : Plain(n) \in EntityNames
  /\ \A n \in DsNames, t \in DsTabs : Suffixed(n, t) \in EntityNames
<1>1. \A a, n, t : Plain(a) # Suffixed(n, t)
  BY DEF Plain, Suffixed
<1>2. \A n, t, m, u : Suffixed(n, t) = Suffixed(m, u) => t = u
  BY DEF Suffixed
<1>3. \A n \in DsNames : Plain(n) \in EntityNames
  BY DEF Plain, EntityNames
<1>4. \A n \in DsNames, t \in DsTabs : Suffixed(n, t) \in EntityNames
  BY DEF Suffixed, EntityNames
<1>5. QED BY <1>1, <1>2, <1>3, <1>4

\* What is known of one sync.
LEMMA RunTyped ==
  ASSUME DashInv, NEW h \in DsHandlers
  PROVE  /\ dsRun[h] \in SyncRuns /\ RunTrue(dsRun[h]) /\ CalmTrue(dsRun[h])
         /\ dsRun[h].calm => \A o \in DsHandlers \ {h} : dsRun[o].at \in Ended
         /\ dsRun \in [DsHandlers -> SyncRuns]
BY DEF DashInv, DashTypes, CalmAlone

\* The page a sync is at.
LEMMA PageTyped ==
  ASSUME NEW run \in SyncRuns, run.todo # <<>>
  PROVE  /\ Head(run.todo) \in PageRows /\ Head(run.todo).tab \in DsTabs
         /\ Head(run.todo).name \in DsNames /\ Tail(run.todo) \in Seq(PageRows)
<1>1. run.todo \in Seq(PageRows)
  BY DEF SyncRuns
<1>2. Head(run.todo) \in PageRows /\ Tail(run.todo) \in Seq(PageRows)
  BY <1>1
<1>3. QED BY <1>2 DEF PageRows

\* A page still to do is the first, or to do after it.
LEMMA PageNextOrLater ==
  ASSUME NEW todo \in Seq(PageRows), todo # <<>>, NEW j \in DOMAIN todo
  PROVE  todo[j] = Head(todo) \/ \E k \in DOMAIN Tail(todo) : Tail(todo)[k] = todo[j]
<1>1. CASE j = 1
  BY <1>1
<1>2. CASE j # 1
  <2>1. j - 1 \in DOMAIN Tail(todo) /\ Tail(todo)[j - 1] = todo[j]
    BY <1>2
  <2>2. QED BY <2>1
<1>3. QED BY <1>1, <1>2

\* What a sync knows is about the rows and the pages only.
LEMMA SameRows ==
  ASSUME UNCHANGED <<dsTabs, dsRows>>, NEW run \in SyncRuns
  PROVE  (RunTrue(run)' <=> RunTrue(run)) /\ (CalmTrue(run)' <=> CalmTrue(run))
<1>1. dsRows' = dsRows /\ dsTabs' = dsTabs
  OBVIOUS
<1>2. RunTrue(run)' <=> RunTrue(run)
  BY <1>1 DEF RunTrue
<1>3. /\ \A page : Mirrored(page)' <=> Mirrored(page)
      /\ OneEntityPerPage' <=> OneEntityPerPage
      /\ getEntityByName(run.name)' = getEntityByName(run.name)
  BY <1>1 DEF Mirrored, OneEntityPerPage, getEntityByName
<1>4. CalmTrue(run)' <=> CalmTrue(run)
  BY <1>1, <1>3 DEF CalmTrue, Pending
<1>5. QED BY <1>2, <1>4

\* A step of one sync that writes nothing.
LEMMA SyncStepKept ==
  ASSUME DashInv, NEW h \in DsHandlers, NEW w \in SyncRuns, dsRun' = [dsRun EXCEPT ![h] = w],
         UNCHANGED <<dsTabs, dsRows>>, RunTrue(w), CalmTrue(w), w.calm => dsRun[h].calm,
         w.at \in Ended \/ dsRun[h].at \notin Ended
  PROVE  DashInv'
<1>1. /\ dsRun' \in [DsHandlers -> SyncRuns] /\ dsRun'[h] = w
      /\ \A o \in DsHandlers : o # h => dsRun'[o] = dsRun[o]
  BY DEF DashInv, DashTypes
<1>2. DashTypes' /\ SuffixesTrue'
  BY <1>1 DEF DashInv, DashTypes, SuffixesTrue
<1>3. CalmAlone'
  BY <1>1 DEF DashInv, CalmAlone
<1>4. \A run \in SyncRuns : (RunTrue(run)' <=> RunTrue(run)) /\ (CalmTrue(run)' <=> CalmTrue(run))
  BY SameRows
<1>5. ASSUME NEW o \in DsHandlers PROVE RunTrue(dsRun[o])' /\ CalmTrue(dsRun[o])'
  <2>1. RunTrue(dsRun'[o]) /\ CalmTrue(dsRun'[o])
    BY <1>1, RunTyped
  <2>2. PICK run \in SyncRuns : run = dsRun'[o]
    BY <1>1
  <2>3. RunTrue(run)' /\ CalmTrue(run)'
    BY <1>4, <2>1, <2>2
  <2>4. QED BY <2>2, <2>3
<1>6. QED BY <1>2, <1>3, <1>5 DEF DashInv

\* A sync goes on to its next page once this one has an entity.
LEMMA NextPage ==
  ASSUME DashInv, NEW h \in DsHandlers, dsRun[h].todo # <<>>
  PROVE  /\ NextTab(h) \in SyncRuns /\ NextTab(h).at = "find"
         /\ NextTab(h).calm = dsRun[h].calm
         /\ \A page : Pending(dsRun[h], page) =>
              page = Head(dsRun[h].todo) \/ Pending(NextTab(h), page)
<1>1. PICK run \in SyncRuns : run = dsRun[h]
  BY RunTyped
<1>2. Tail(run.todo) \in Seq(PageRows) /\ run.todo \in Seq(PageRows)
  BY <1>1, PageTyped DEF SyncRuns
<1>3. PICK w : w = [run EXCEPT !.at = "find", !.todo = Tail(@)]
  OBVIOUS
<1>4. w \in SyncRuns /\ w.at = "find" /\ w.todo = Tail(run.todo) /\ w.calm = run.calm
  BY <1>2, <1>3 DEF SyncRuns
<1>5. ASSUME NEW page, Pending(run, page)
      PROVE  page = Head(run.todo) \/ Pending(w, page)
  BY <1>1, <1>2, <1>4, <1>5, PageNextOrLater DEF Pending
<1>6. NextTab(h) = w
  BY <1>1, <1>3 DEF NextTab
<1>7. QED BY <1>1, <1>4, <1>5, <1>6

\* Looking for the page's entity.
LEMMA FindKept ==
  ASSUME DashInv, NEW h \in DsHandlers, FindEntity(h)
  PROVE  DashInv'
<1> DEFINE run == dsRun[h]
           page == Head(run.todo)
<1>1. /\ run \in SyncRuns /\ CalmTrue(run) /\ run.at = "find" /\ run.todo # <<>>
      /\ dsRows \in Seq(EntityRows) /\ UNCHANGED <<dsTabs, dsRows>>
      /\ run.at \notin Ended
  BY RunTyped DEF FindEntity, DashInv, DashTypes, Ended
<1>2. /\ run.calm /\ OneEntityPerPage =>
           \A i \in DOMAIN dsTabs : Mirrored(dsTabs[i]) \/ Pending(run, dsTabs[i])
  BY <1>1 DEF CalmTrue
<1>3. ASSUME NEW row \in Nat, dsRun' = [dsRun EXCEPT ![h] = [run EXCEPT !.at = "name", !.row = row]],
             row # 0 => row \in DOMAIN dsRows /\ dsRows[row].tab = page.tab,
             row = 0 => ~Mirrored(page)
      PROVE  DashInv'
  <2>1. PICK w : w = [run EXCEPT !.at = "name", !.row = row]
    OBVIOUS
  <2>2. w \in SyncRuns /\ w.at = "name" /\ w.row = row /\ w.todo = run.todo /\ w.calm = run.calm
    BY <1>1, <2>1 DEF SyncRuns
  <2>3. RunTrue(w)
    BY <1>1, <1>3, <2>2 DEF RunTrue
  <2>4. CalmTrue(w)
    BY <1>2, <1>3, <2>2 DEF CalmTrue, Pending
  <2>5. QED BY <1>1, <1>3, <2>1, <2>2, <2>3, <2>4, SyncStepKept
<1>4. CASE getEntityForDashboard(page.tab) = {}
  <2>1. ~Mirrored(page)
    BY <1>4 DEF getEntityForDashboard, Mirrored
  <2>2. dsRun' = [dsRun EXCEPT ![h] = [run EXCEPT !.at = "name", !.row = 0]]
    BY <1>4 DEF FindEntity, SetRun
  <2>3. QED BY <1>3, <2>1, <2>2
<1>5. CASE getEntityForDashboard(page.tab) # {}
  <2>1. PICK i \in getEntityForDashboard(page.tab) :
          \/ SetRun(h, NextTab(h))
          \/ SetRun(h, [run EXCEPT !.at = "name", !.row = i])
    BY <1>5 DEF FindEntity
  <2>2. i \in Nat /\ i # 0 /\ i \in DOMAIN dsRows /\ dsRows[i].tab = page.tab
    BY <1>1 DEF getEntityForDashboard
  <2>3. CASE SetRun(h, NextTab(h))
    <3>1. PICK w : w = NextTab(h)
      OBVIOUS
    <3>2. /\ w \in SyncRuns /\ w.at = "find" /\ w.calm = run.calm
          /\ \A p : Pending(run, p) => p = page \/ Pending(w, p)
      BY <1>1, <3>1, NextPage
    <3>3. RunTrue(w)
      BY <3>2 DEF RunTrue
    <3>4. Mirrored(page)
      BY <2>2 DEF Mirrored
    <3>5. CalmTrue(w)
      BY <1>2, <3>2, <3>4 DEF CalmTrue
    <3>6. dsRun' = [dsRun EXCEPT ![h] = w]
      BY <2>3, <3>1 DEF SetRun
    <3>7. QED BY <1>1, <3>2, <3>3, <3>5, <3>6, SyncStepKept
  <2>4. CASE SetRun(h, [run EXCEPT !.at = "name", !.row = i])
    BY <1>3, <2>2, <2>4 DEF SetRun
  <2>5. QED BY <2>1, <2>3, <2>4
<1>6. QED BY <1>4, <1>5

\* A free name is chosen, or the page's own.
LEMMA NameKept ==
  ASSUME DashInv, NEW h \in DsHandlers, ChooseName(h)
  PROVE  DashInv'
<1> DEFINE run == dsRun[h]
           page == Head(run.todo)
           name == safeName(page, run.row)
<1>1. /\ run \in SyncRuns /\ RunTrue(run) /\ CalmTrue(run) /\ run.at = "name"
      /\ UNCHANGED <<dsTabs, dsRows>> /\ run.at \notin Ended
      /\ dsRun' = [dsRun EXCEPT ![h] = [run EXCEPT !.at = "save", !.name = name]]
  BY RunTyped DEF ChooseName, SetRun, Ended
<1>2. run.todo # <<>>
  BY <1>1 DEF RunTrue
<1>3. page.tab \in DsTabs /\ page.name \in DsNames
  BY <1>1, <1>2, PageTyped
<1>4. /\ name \in {Plain(page.name), Suffixed(page.name, page.tab)} /\ name \in EntityNames
      /\ name = Suffixed(page.name, page.tab) \/ getEntityByName(name) \subseteq {run.row}
  BY <1>3, NamesDiffer DEF safeName
<1> HIDE DEF name
<1>5. PICK w : w = [run EXCEPT !.at = "save", !.name = name]
  OBVIOUS
<1>6. /\ w \in SyncRuns /\ w.at = "save" /\ w.name = name /\ w.row = run.row
      /\ w.todo = run.todo /\ w.calm = run.calm
  BY <1>1, <1>4, <1>5 DEF SyncRuns
<1>7. RunTrue(w)
  BY <1>1, <1>4, <1>6 DEF RunTrue
<1>8. CalmTrue(w)
  BY <1>1, <1>4, <1>6 DEF CalmTrue, Pending
<1>9. QED BY <1>1, <1>5, <1>6, <1>7, <1>8, SyncStepKept

\* A calm sync whose pages have one entity each finds its name free.
LEMMA NameFree ==
  ASSUME DashInv, NEW h \in DsHandlers, dsRun[h].at = "save", dsRun[h].calm, OneEntityPerPage
  PROVE  getEntityByName(dsRun[h].name) \subseteq {dsRun[h].row}
<1> DEFINE run == dsRun[h]
           page == Head(run.todo)
<1>1. /\ run \in SyncRuns /\ RunTrue(run) /\ CalmTrue(run) /\ SuffixesTrue
      /\ dsRows \in Seq(EntityRows)
  BY RunTyped DEF DashInv, DashTypes
<1>2. /\ run.todo # <<>>
      /\ run.row # 0 => run.row \in DOMAIN dsRows /\ dsRows[run.row].tab = page.tab
      /\ run.row = 0 => ~Mirrored(page)
      /\ run.name = Suffixed(page.name, page.tab) \/ getEntityByName(run.name) \subseteq {run.row}
  BY <1>1 DEF RunTrue, CalmTrue
<1>3. page.tab \in DsTabs /\ page.name \in DsNames /\ page.tab # NoTab
  <2>1. page.tab \in DsTabs /\ page.name \in DsNames
    BY <1>1, <1>2, PageTyped
  <2>2. QED BY <2>1, DashAssumption
<1>4. CASE run.name = Suffixed(page.name, page.tab)
  <2> SUFFICES ASSUME NEW e \in getEntityByName(run.name) PROVE e = run.row
    OBVIOUS
  <2>1. e \in DOMAIN dsRows /\ dsRows[e].tab = page.tab
    BY <1>1, <1>3, <1>4 DEF getEntityByName, SuffixesTrue
  <2>2. run.row # 0
    BY <1>2, <2>1 DEF Mirrored
  <2>3. /\ run.row \in DOMAIN dsRows /\ dsRows[e].tab = dsRows[run.row].tab
        /\ dsRows[e].tab # NoTab
    BY <1>2, <1>3, <2>1, <2>2
  <2>4. QED BY <2>1, <2>3 DEF OneEntityPerPage
<1>5. QED BY <1>2, <1>4

\* Rows only grow, and keep their pages: what a sync knows of its page stays true.
LEMMA RowsGrow ==
  ASSUME DashInv, NEW run \in SyncRuns, RunTrue(run), UNCHANGED dsTabs,
         \A e \in DOMAIN dsRows : e \in DOMAIN dsRows' /\ dsRows'[e].tab = dsRows[e].tab
  PROVE  /\ RunTrue(run)'
         /\ OneEntityPerPage' => OneEntityPerPage
         /\ \A page : Mirrored(page) => Mirrored(page)'
<1>1. RunTrue(run)'
  BY DEF RunTrue
<1>2. OneEntityPerPage' => OneEntityPerPage
  BY DEF OneEntityPerPage
<1>3. \A page : Mirrored(page) => Mirrored(page)'
  BY DEF Mirrored
<1>4. QED BY <1>1, <1>2, <1>3

\* The entity is saved, or its name was taken meanwhile.
LEMMA SaveKept ==
  ASSUME DashInv, NEW h \in DsHandlers, SaveEntity(h)
  PROVE  DashInv'
<1> DEFINE run == dsRun[h]
           page == Head(run.todo)
<1>1. /\ run \in SyncRuns /\ RunTrue(run) /\ CalmTrue(run) /\ run.at = "save"
      /\ dsTabs' = dsTabs /\ run.at \notin Ended /\ DashTypes /\ SuffixesTrue
      /\ dsRows \in Seq(EntityRows)
  BY RunTyped DEF SaveEntity, DashInv, DashTypes, Ended
<1>2. /\ run.todo # <<>>
      /\ run.row # 0 => run.row \in DOMAIN dsRows /\ dsRows[run.row].tab = page.tab
      /\ run.name \in {Plain(page.name), Suffixed(page.name, page.tab)}
  BY <1>1 DEF RunTrue
<1>3. page.tab \in DsTabs /\ page.name \in DsNames
  BY <1>1, <1>2, PageTyped
<1>4. /\ run.name \in EntityNames
      /\ \A n \in DsNames, t \in DsTabs : run.name = Suffixed(n, t) => page.tab = t
  BY <1>2, <1>3, NamesDiffer
<1>5. CASE getEntityByName(run.name) \ {run.row} # {}
  <2>1. PICK w : w = [run EXCEPT !.at = "failed"]
    OBVIOUS
  <2>2. w \in SyncRuns /\ w.at = "failed" /\ w.calm = run.calm
    BY <1>1, <2>1 DEF SyncRuns, Ended
  <2>3. dsRun' = [dsRun EXCEPT ![h] = w] /\ dsRows' = dsRows
    BY <1>5, <2>1 DEF SaveEntity, DsFails, SetRun
  <2>4. ~(run.calm /\ OneEntityPerPage)
    BY <1>1, <1>5, NameFree
  <2>5. CalmTrue(w) /\ RunTrue(w)
    BY <2>2, <2>4 DEF CalmTrue, RunTrue
  <2>6. QED BY <1>1, <2>2, <2>3, <2>5, SyncStepKept DEF Ended
<1>6. CASE getEntityByName(run.name) \ {run.row} = {}
  <2>1. PICK w : w = NextTab(h)
    OBVIOUS
  <2>2. /\ w \in SyncRuns /\ w.at = "find" /\ w.calm = run.calm
        /\ \A p : Pending(run, p) => p = page \/ Pending(w, p)
    BY <1>2, <2>1, NextPage
  <2>3. /\ dsRun' = [dsRun EXCEPT ![h] = w]
        /\ \/ run.row = 0 /\ dsRows' = Append(dsRows, [name |-> run.name, tab |-> page.tab])
           \/ run.row # 0 /\ dsRows' = [dsRows EXCEPT ![run.row].name = run.name]
    BY <1>6, <2>1 DEF SaveEntity, SetRun
  <2>4. /\ dsRows' \in Seq(EntityRows)
        /\ \A e \in DOMAIN dsRows : e \in DOMAIN dsRows' /\ dsRows'[e].tab = dsRows[e].tab
        /\ \A e \in DOMAIN dsRows' :
             \/ e \in DOMAIN dsRows /\ dsRows'[e] = dsRows[e]
             \/ dsRows'[e].name = run.name /\ dsRows'[e].tab = page.tab
        /\ \E e \in DOMAIN dsRows' : dsRows'[e].tab = page.tab
    <3>1. CASE run.row = 0
      <4>1. PICK new \in EntityRows : new.name = run.name /\ new.tab = page.tab
                                     /\ dsRows' = Append(dsRows, new)
        <5>1. [name |-> run.name, tab |-> page.tab] \in EntityRows
          BY <1>3, <1>4 DEF EntityRows
        <5>2. QED BY <2>3, <3>1, <5>1
      <4>2. /\ dsRows' \in Seq(EntityRows) /\ Len(dsRows') = Len(dsRows) + 1
            /\ dsRows'[Len(dsRows) + 1] = new
            /\ \A e \in DOMAIN dsRows : e \in DOMAIN dsRows' /\ dsRows'[e] = dsRows[e]
            /\ \A e \in DOMAIN dsRows' : e \in DOMAIN dsRows \/ e = Len(dsRows) + 1
        BY <1>1, <4>1
      <4>3. Len(dsRows) + 1 \in DOMAIN dsRows'
        BY <1>1, <4>2
      <4>4. QED BY <4>1, <4>2, <4>3
    <3>2. CASE run.row # 0
      <4>1. /\ run.row \in DOMAIN dsRows /\ dsRows[run.row].tab = page.tab
            /\ dsRows' = [dsRows EXCEPT ![run.row].name = run.name]
        BY <1>2, <2>3, <3>2
      <4>2. \A e \in DOMAIN dsRows : dsRows[e] \in EntityRows
        BY <1>1
      <4>3. PICK new \in EntityRows : /\ new.name = run.name /\ new.tab = page.tab
                                     /\ dsRows' = [dsRows EXCEPT ![run.row] = new]
        <5>1. PICK new : new = [dsRows[run.row] EXCEPT !.name = run.name]
          OBVIOUS
        <5>2. new \in EntityRows /\ new.name = run.name /\ new.tab = page.tab
          BY <1>4, <4>1, <4>2, <5>1 DEF EntityRows
        <5>3. dsRows' = [dsRows EXCEPT ![run.row] = new]
          BY <4>1, <5>1
        <5>4. QED BY <5>2, <5>3
      <4>4. /\ DOMAIN dsRows' = DOMAIN dsRows /\ dsRows'[run.row] = new
            /\ \A e \in DOMAIN dsRows : e # run.row => dsRows'[e] = dsRows[e]
        BY <1>1, <4>1, <4>3
      <4>5. dsRows' \in Seq(EntityRows)
        BY <1>1, <4>1, <4>3
      <4>6. QED BY <4>1, <4>3, <4>4, <4>5
    <3>3. QED BY <3>1, <3>2
  <2>5. /\ dsRun' \in [DsHandlers -> SyncRuns] /\ dsRun'[h] = w
        /\ \A o \in DsHandlers : o # h => dsRun'[o] = dsRun[o]
    BY <1>1, <2>2, <2>3 DEF DashTypes
  <2>6. DashTypes'
    BY <1>1, <2>4, <2>5 DEF DashTypes
  <2>7. SuffixesTrue'
    BY <1>1, <1>4, <2>4 DEF SuffixesTrue
  <2>8. CalmAlone'
    BY <1>1, <2>2, <2>5 DEF DashInv, CalmAlone
  <2>9. ASSUME NEW o \in DsHandlers, o # h PROVE RunTrue(dsRun[o])' /\ CalmTrue(dsRun[o])'
    <3>1. /\ dsRun[o] \in SyncRuns /\ RunTrue(dsRun[o])
          /\ dsRun[o].calm => run.at \in Ended
      BY <2>9, RunTyped
    <3>2. PICK r \in SyncRuns : r = dsRun[o] /\ RunTrue(r) /\ ~r.calm
      BY <1>1, <3>1
    <3>3. RunTrue(r)'
      BY <1>1, <2>4, <3>2, RowsGrow
    <3>4. CalmTrue(r)'
      BY <3>2 DEF CalmTrue
    <3>5. dsRun'[o] = r
      BY <2>5, <2>9, <3>2
    <3>6. QED BY <3>3, <3>4, <3>5
  <2>10. RunTrue(w)' /\ CalmTrue(w)'
    <3>1. /\ OneEntityPerPage' => OneEntityPerPage
          /\ \A p : Mirrored(p) => Mirrored(p)'
      BY <1>1, <2>4, RowsGrow
    <3>2. PICK p : p = page /\ Mirrored(p)'
      <4>1. PICK p : p = page
        OBVIOUS
      <4>2. Mirrored(p)'
        BY <2>4, <4>1 DEF Mirrored
      <4>3. QED BY <4>1, <4>2
    <3>3. RunTrue(w)'
      BY <2>2 DEF RunTrue
    <3>4. run.calm /\ OneEntityPerPage =>
            \A i \in DOMAIN dsTabs : Mirrored(dsTabs[i]) \/ Pending(run, dsTabs[i])
      BY <1>1 DEF CalmTrue
    <3>5. ASSUME w.calm, OneEntityPerPage', NEW i \in DOMAIN dsTabs
          PROVE  Mirrored(dsTabs[i])' \/ Pending(w, dsTabs[i])
      <4>1. Mirrored(dsTabs[i]) \/ Pending(run, dsTabs[i])
        BY <2>2, <3>1, <3>4, <3>5
      <4>2. PICK q : q = dsTabs[i]
        OBVIOUS
      <4>3. Mirrored(q) \/ q = p \/ Pending(w, q)
        BY <2>2, <3>2, <4>1, <4>2
      <4>4. Mirrored(q)' \/ Pending(w, q)
        BY <3>1, <3>2, <4>3
      <4>5. dsTabs'[i] = q
        BY <1>1, <4>2
      <4>6. QED BY <4>2, <4>4, <4>5
    <3>6. CalmTrue(w)'
      BY <1>1, <2>2, <3>5 DEF CalmTrue, Pending
    <3>7. QED BY <3>3, <3>6
  <2>11. QED BY <2>5, <2>6, <2>7, <2>8, <2>9, <2>10 DEF DashInv
<1>7. QED BY <1>5, <1>6

\* A request that runs no sync.
LEMMA NoRunTyped == NoRun \in SyncRuns /\ NoRun.at = "idle" /\ NoRun.todo = <<>>
<1>1. <<>> \in EntityNames /\ <<>> \in Seq(PageRows)
  BY DEF EntityNames
<1>2. QED BY <1>1 DEF NoRun, SyncRuns, Ended

\* The last page is done, or the manager does not answer.
LEMMA SyncEndKept ==
  ASSUME DashInv, NEW h \in DsHandlers, DashSyncEnds(h) \/ ListFails(h)
  PROVE  DashInv'
<1> DEFINE run == dsRun[h]
<1>1. run \in SyncRuns /\ CalmTrue(run) /\ UNCHANGED <<dsTabs, dsRows>>
  BY RunTyped DEF DashSyncEnds, ListFails
<1>2. CASE DashSyncEnds(h)
  <2>1. PICK w : w = [run EXCEPT !.at = "done"]
    OBVIOUS
  <2>2. w \in SyncRuns /\ w.at = "done" /\ w.calm = run.calm /\ w.todo = run.todo
    BY <1>1, <2>1 DEF SyncRuns, Ended
  <2>3. dsRun' = [dsRun EXCEPT ![h] = w] /\ run.todo = <<>> /\ run.at = "find"
    BY <1>2, <2>1 DEF DashSyncEnds, SetRun
  <2>4. CalmTrue(w) /\ RunTrue(w)
    BY <1>1, <2>2, <2>3 DEF CalmTrue, RunTrue, Pending
  <2>5. QED BY <1>1, <2>2, <2>3, <2>4, SyncStepKept DEF Ended
<1>3. CASE ListFails(h)
  <2>1. PICK w : w = [NoRun EXCEPT !.at = "failed", !.calm = FALSE]
    OBVIOUS
  <2>2. w \in SyncRuns /\ w.at = "failed" /\ w.calm = FALSE
    BY <2>1, NoRunTyped DEF SyncRuns, Ended
  <2>3. dsRun' = [dsRun EXCEPT ![h] = w]
    BY <1>3, <2>1 DEF ListFails, SetRun
  <2>4. CalmTrue(w) /\ RunTrue(w)
    BY <2>2 DEF CalmTrue, RunTrue
  <2>5. QED BY <1>1, <2>2, <2>3, <2>4, SyncStepKept DEF Ended
<1>4. QED BY <1>2, <1>3

\* What happens elsewhere leaves no sync under way calm.
LEMMA StirredTyped ==
  ASSUME DashInv
  PROVE  /\ Stirred(dsRun) \in [DsHandlers -> SyncRuns]
         /\ \A h \in DsHandlers : /\ Stirred(dsRun)[h].calm = FALSE
                                 /\ Stirred(dsRun)[h].at = dsRun[h].at
                                 /\ RunTrue(Stirred(dsRun)[h])
<1>1. ASSUME NEW h \in DsHandlers
      PROVE  /\ Stirred(dsRun)[h] \in SyncRuns /\ Stirred(dsRun)[h].calm = FALSE
             /\ Stirred(dsRun)[h].at = dsRun[h].at /\ RunTrue(Stirred(dsRun)[h])
  <2>1. PICK r \in SyncRuns : r = dsRun[h] /\ RunTrue(r)
    BY RunTyped
  <2>2. PICK w : w = [r EXCEPT !.calm = FALSE]
    OBVIOUS
  <2>3. /\ w \in SyncRuns /\ w.calm = FALSE /\ w.at = r.at /\ w.todo = r.todo
        /\ w.row = r.row /\ w.name = r.name
    BY <2>1, <2>2 DEF SyncRuns
  <2>4. RunTrue(w)
    BY <2>1, <2>3 DEF RunTrue
  <2>5. Stirred(dsRun)[h] = w
    BY <2>1, <2>2 DEF Stirred
  <2>6. QED BY <2>1, <2>3, <2>4, <2>5
<1>2. Stirred(dsRun) \in [DsHandlers -> SyncRuns]
  BY <1>1 DEF Stirred
<1>3. QED BY <1>1, <1>2

\* The manager lists the runtime's pages.
LEMMA ListKept ==
  ASSUME DashInv, NEW h \in DsHandlers, ListDashboards(h)
  PROVE  DashInv'
<1>1. /\ dsRun[h].at \in Ended /\ UNCHANGED <<dsTabs, dsRows>>
      /\ DashTypes /\ SuffixesTrue /\ dsTabs \in Seq(PageRows)
  BY DEF ListDashboards, Ended, DashInv, DashTypes
<1>2. PICK calm \in BOOLEAN : calm = \A o \in DsHandlers \ {h} : dsRun[o].at \in Ended
  OBVIOUS
<1>3. PICK w : w = [NoRun EXCEPT !.at = "find", !.todo = dsTabs, !.calm = calm]
  OBVIOUS
<1>4. w \in SyncRuns /\ w.at = "find" /\ w.todo = dsTabs /\ w.calm = calm
  BY <1>1, <1>3, NoRunTyped DEF SyncRuns
<1>5. dsRun' = [Stirred(dsRun) EXCEPT ![h] = w]
  BY <1>2, <1>3 DEF ListDashboards, Ended
<1>6. /\ dsRun' \in [DsHandlers -> SyncRuns] /\ dsRun'[h] = w
      /\ \A o \in DsHandlers : o # h => dsRun'[o] = Stirred(dsRun)[o]
  BY <1>4, <1>5, StirredTyped
<1>7. DashTypes' /\ SuffixesTrue'
  BY <1>1, <1>6 DEF DashTypes, SuffixesTrue
<1>8. CalmAlone'
  <2>1. \A o \in DsHandlers : o # h => dsRun'[o].calm = FALSE /\ dsRun'[o].at = dsRun[o].at
    BY <1>6, StirredTyped
  <2>2. dsRun'[h].calm => \A o \in DsHandlers : o # h => dsRun'[o].at \in Ended
    BY <1>2, <1>4, <1>6, <2>1
  <2>3. QED BY <2>1, <2>2 DEF CalmAlone
<1>9. ASSUME NEW o \in DsHandlers PROVE RunTrue(dsRun[o])' /\ CalmTrue(dsRun[o])'
  <2>1. PICK r \in SyncRuns : r = dsRun'[o] /\ RunTrue(r) /\ CalmTrue(r)
    <3>1. CASE o = h
      <4>1. RunTrue(w) /\ CalmTrue(w)
        BY <1>4 DEF RunTrue, CalmTrue, Pending
      <4>2. QED BY <1>4, <1>6, <3>1, <4>1
    <3>2. CASE o # h
      <4>1. PICK r \in SyncRuns : r = Stirred(dsRun)[o] /\ RunTrue(r) /\ r.calm = FALSE
        BY StirredTyped
      <4>2. CalmTrue(r)
        BY <4>1 DEF CalmTrue
      <4>3. QED BY <1>6, <3>2, <4>1, <4>2
    <3>3. QED BY <3>1, <3>2
  <2>2. RunTrue(r)' /\ CalmTrue(r)'
    BY <1>1, <2>1, SameRows
  <2>3. QED BY <2>1, <2>2
<1>10. QED BY <1>6, <1>7, <1>8, <1>9 DEF DashInv

\* A list of pages is a sequence.
LEMMA PagesTyped == Pages \subseteq Seq(PageRows)
<1>1. Cardinality(DsTabs) \in Nat
  BY DashAssumption, FS_CardinalityType
<1>2. \A n \in 0..Cardinality(DsTabs) : [1..n -> PageRows] \subseteq Seq(PageRows)
  BY <1>1
<1>3. QED BY <1>2 DEF Pages, PageRows

\* Flows are deployed, or an administrator renames an entity.
LEMMA DashOthersKept ==
  ASSUME DashInv, EditFlows \/ RenameEntity
  PROVE  DashInv'
<1>1. /\ DashTypes /\ SuffixesTrue /\ dsRows \in Seq(EntityRows) /\ dsRun' = Stirred(dsRun)
      /\ dsTabs \in Seq(PageRows)
  BY DEF EditFlows, RenameEntity, DashInv, DashTypes
<1>2. /\ dsTabs' \in Seq(PageRows) /\ dsRows' \in Seq(EntityRows) /\ SuffixesTrue'
      /\ \A e \in DOMAIN dsRows : e \in DOMAIN dsRows' /\ dsRows'[e].tab = dsRows[e].tab
  <2>1. CASE EditFlows
    <3>1. dsRows' = dsRows /\ dsTabs' \in Pages
      BY <2>1 DEF EditFlows
    <3>2. QED BY <1>1, <3>1, PagesTyped DEF SuffixesTrue
  <2>2. CASE RenameEntity
    <3>1. PICK i \in DOMAIN dsRows, n \in DsNames :
            dsRows' = [dsRows EXCEPT ![i].name = Plain(n)]
      BY <2>2 DEF RenameEntity
    <3>2. dsRows[i] \in EntityRows
      BY <1>1
    <3>3. PICK new : new = [dsRows[i] EXCEPT !.name = Plain(n)]
      OBVIOUS
    <3>4. new \in EntityRows /\ new.name = Plain(n) /\ new.tab = dsRows[i].tab
      BY <3>2, <3>3, NamesDiffer DEF EntityRows
    <3>5. dsRows' = [dsRows EXCEPT ![i] = new]
      BY <3>1, <3>3
    <3>6. /\ DOMAIN dsRows' = DOMAIN dsRows /\ dsRows'[i] = new
          /\ \A e \in DOMAIN dsRows : e # i => dsRows'[e] = dsRows[e]
      BY <1>1, <3>1, <3>5
    <3>7. dsRows' \in Seq(EntityRows)
      BY <1>1, <3>1, <3>4, <3>5
    <3>8. SuffixesTrue'
      BY <1>1, <3>4, <3>6, NamesDiffer DEF SuffixesTrue
    <3>9. dsTabs' = dsTabs
      BY <2>2 DEF RenameEntity
    <3>10. QED BY <1>1, <3>4, <3>6, <3>7, <3>8, <3>9
  <2>3. QED BY <2>1, <2>2
<1>3. DashTypes' /\ CalmAlone'
  BY <1>1, <1>2, StirredTyped DEF DashTypes, CalmAlone
<1>4. ASSUME NEW h \in DsHandlers PROVE RunTrue(dsRun[h])' /\ CalmTrue(dsRun[h])'
  <2>1. PICK r \in SyncRuns : r = dsRun'[h] /\ RunTrue(r) /\ r.calm = FALSE
    BY <1>1, StirredTyped
  <2>2. RunTrue(r)'
    BY <1>2, <2>1 DEF RunTrue
  <2>3. CalmTrue(r)'
    BY <2>1 DEF CalmTrue
  <2>4. QED BY <2>1, <2>2, <2>3
<1>5. QED BY <1>2, <1>3, <1>4 DEF DashInv

\* At most one entity, which no page owns; no sync runs.
LEMMA DashStarts == DashInit => DashInv
<1> SUFFICES ASSUME DashInit PROVE DashInv
  OBVIOUS
<1>1. /\ dsTabs \in Seq(PageRows) /\ dsRun = [h \in DsHandlers |-> NoRun]
      /\ dsRows \in {<<>>} \cup { <<[name |-> Plain(n), tab |-> NoTab]>> : n \in DsNames }
  BY PagesTyped DEF DashInit
<1>2. dsRows \in Seq(EntityRows) /\ SuffixesTrue
  <2>1. CASE dsRows = <<>>
    BY <2>1 DEF SuffixesTrue
  <2>2. ASSUME NEW n \in DsNames, dsRows = <<[name |-> Plain(n), tab |-> NoTab]>>
        PROVE  dsRows \in Seq(EntityRows) /\ SuffixesTrue
    <3>1. PICK new \in EntityRows : new = [name |-> Plain(n), tab |-> NoTab]
      BY NamesDiffer DEF EntityRows
    <3>2. dsRows = <<new>> /\ new.name = Plain(n)
      BY <2>2, <3>1
    <3>3. dsRows \in Seq(EntityRows) /\ \A e \in DOMAIN dsRows : dsRows[e] = new
      BY <3>2
    <3>4. QED BY <3>2, <3>3, NamesDiffer DEF SuffixesTrue
  <2>3. QED BY <1>1, <2>1, <2>2
<1>3. DashTypes /\ CalmAlone
  BY <1>1, <1>2, NoRunTyped DEF DashTypes, CalmAlone, Ended
<1>4. RunTrue(NoRun) /\ CalmTrue(NoRun)
  BY NoRunTyped DEF RunTrue, CalmTrue
<1>5. QED BY <1>1, <1>2, <1>3, <1>4 DEF DashInv

\* Every step of anyone.
LEMMA DashKept == ASSUME DashInv, [DashNext]_dsVars PROVE DashInv'
<1>1. CASE UNCHANGED dsVars
  <2>1. UNCHANGED <<dsTabs, dsRows>> /\ dsRun' = dsRun
    BY <1>1 DEF dsVars
  <2>2. DashTypes' /\ SuffixesTrue' /\ CalmAlone'
    BY <2>1 DEF DashInv, DashTypes, SuffixesTrue, CalmAlone
  <2>3. ASSUME NEW h \in DsHandlers PROVE RunTrue(dsRun[h])' /\ CalmTrue(dsRun[h])'
    <3>1. PICK r \in SyncRuns : r = dsRun[h] /\ RunTrue(r) /\ CalmTrue(r)
      BY RunTyped
    <3>2. QED BY <2>1, <3>1, SameRows
  <2>4. QED BY <2>2, <2>3 DEF DashInv
<1>2. QED BY <1>1, FindKept, NameKept, SaveKept, SyncEndKept, ListKept, DashOthersKept DEF DashNext

(* Where no page has two entities, a sync that nothing overlaps succeeds,     *)
(* whatever names administrators have given other entities, and leaves an     *)
(* entity for every page, for any pages, names and requests                   *)
(* (syncDashboardsFromNodered).                                               *)
THEOREM CalmSyncsMirror == DashSpec => []CalmSyncMirrors
<1>1. DashInit => DashInv
  BY DashStarts
<1>2. DashInv /\ [DashNext]_dsVars => DashInv'
  BY DashKept
<1>3. DashInv => CalmSyncMirrors
  <2> SUFFICES ASSUME DashInv, OneEntityPerPage, NEW h \in DsHandlers, dsRun[h].calm
      PROVE  /\ dsRun[h].at # "failed"
             /\ dsRun[h].at = "done" =>
                  \A i \in DOMAIN dsTabs : \E e \in DOMAIN dsRows : dsRows[e].tab = dsTabs[i].tab
    BY DEF CalmSyncMirrors
  <2>1. CalmTrue(dsRun[h])
    BY RunTyped
  <2>2. QED BY <2>1 DEF CalmTrue, Mirrored, Pending
<1>4. QED BY <1>1, <1>2, <1>3, PTL DEF DashSpec
-----------------------------------------------------------------------------
(* AbleSign: the screens, their rows and the playlists *)

(* The requests of the admin routes, by kind. *)
Titles == AsTitles \cup {"none", "gone", ""}
Seen == (AsScreens \cup {Code}) \X Titles
SyncReqs == [op : {"sync"}, pc : {"list", "next", "write"}, from : {"add", "sync"}, todo : SUBSET Seen,
             cur : Seen, row : Nat]
AddReqs == [op : {"add"}, pc : {"pair", "row", "entity"}, title : AsTitles, scr : AsScreens \cup {Code},
            token : BOOLEAN, row : Nat]
UpdateReqs == [op : {"update"}, pc : {"remote", "row"}, row : Nat, scr : AsScreens \cup {Code}, title : AsTitles]
DeleteReqs == [op : {"delete"}, pc : {"remote", "row"}, row : Nat, scr : AsScreens \cup {Code}]
PlItems == [id : Nat, long : BOOLEAN]
Playlists == [items : Seq(PlItems), shuffle : BOOLEAN, images : BOOLEAN]
EditReqs == [op : {"edit"}, pc : {"get", "put"}, owner : Owners, what : {"settings", "reorder", "remove", "item"},
             i : 1..2, pl : Playlists, ver : Nat]
UploadReqs == [op : {"upload"}, pc : {"put", "finish"}]
ScreenReqs == SyncReqs \cup AddReqs \cup UpdateReqs \cup DeleteReqs \cup EditReqs \cup UploadReqs
              \cup {FreeReq}
ScreenRows == [id : Nat, scr : AsScreens \cup {Code}, title : Titles, token : BOOLEAN, kiosk : BOOLEAN]

ReqsTyped == asReq \in [AsReqs -> ScreenReqs]

RowsInv ==
  /\ asIds \in Nat /\ asRows \subseteq ScreenRows
  /\ \A r \in asRows : r.id <= asIds
  /\ \A r, n \in asRows : r.id = n.id => r = n
  /\ \A r, n \in asRows : r.scr = n.scr => r = n

(* What a request means to insert is at the service.                       *)
HoldsPresent(rq) ==
  /\ rq.op = "sync" /\ rq.pc # "list" => \A s \in rq.todo : Present(s[1])
  /\ rq.op = "sync" /\ rq.pc = "write" => Present(rq.cur[1])
  /\ rq.op = "add" /\ rq.pc = "row" /\ rq.scr # Code => Present(rq.scr)
HeldPresent == ~asStale => \A q \in AsReqs : HoldsPresent(asReq[q])

RemoteInv == asRemote \in [AsScreens -> AsTitles \cup {"none", "gone"}] /\ HeldPresent /\ NoGhostRow

Ids(items) == {items[i].id : i \in DOMAIN items}
Once(items) == \A i, j \in DOMAIN items : items[i].id = items[j].id => i = j

(* A playlist that a request has read is the service's while its version is. *)
EditTrue(rq) ==
  rq.op = "edit" /\ rq.pc = "put" =>
    /\ rq.ver <= asVer[rq.owner]
    /\ rq.ver = asVer[rq.owner] => rq.pl = asList[rq.owner]

ListsInv ==
  /\ asList \in [Owners -> Playlists] /\ asVer \in [Owners -> Nat] /\ asWant \in [Owners -> SUBSET Nat]
  /\ \A o \in Owners : asWant[o] \subseteq 1..asVer[o]
  /\ ~asClash => \A o \in Owners :
       /\ Once(asList[o].items) /\ Ids(asList[o].items) = asWant[o]
       /\ Len(asList[o].items) = Cardinality(asWant[o])
  /\ \A q \in AsReqs : EditTrue(asReq[q])

ScreensInv == ReqsTyped /\ RowsInv /\ RemoteInv /\ ListsInv

TokensKept == \A r \in asRows, n \in asRows' : r.id = n.id /\ r.token => n.token

LEMMA ScreensInitially == AsInit => ScreensInv
<1> SUFFICES ASSUME AsInit PROVE ScreensInv
  OBVIOUS
<1>1. ReqsTyped
  BY DEF ReqsTyped, AsInit, ScreenReqs
<1>2. RowsInv
  BY DEF RowsInv, AsInit
<1>3. \A q \in AsReqs : asReq[q].op = "free"
  BY DEF AsInit, FreeReq
<1>4. RemoteInv
  <2>1. asRemote \in [AsScreens -> AsTitles \cup {"none", "gone"}]
    BY DEF AsInit
  <2>2. HeldPresent /\ NoGhostRow
    BY <1>3 DEF HeldPresent, HoldsPresent, NoGhostRow, AsInit
  <2> QED BY <2>1, <2>2 DEF RemoteInv
<1>5. ListsInv
  <2> DEFINE its == [i \in 1..2 |-> [id |-> i, long |-> FALSE]]
             pl == [EmptyList EXCEPT !.items = its]
  <2>1. its \in Seq(PlItems) /\ Len(its) = 2 /\ DOMAIN its = 1..2 /\ \A i \in 1..2 : its[i].id = i
    BY DEF PlItems
  <2> HIDE DEF its
  <2>2. EmptyList \in Playlists
    BY DEF EmptyList, Playlists
  <2>3. pl \in Playlists /\ pl.items = its
    BY <2>1, <2>2 DEF Playlists
  <2> HIDE DEF pl
  <2>4. Once(its)
    BY <2>1 DEF Once
  <2>5. Ids(its) = {1, 2}
    BY <2>1 DEF Ids
  <2>6. Cardinality({1, 2}) = 2
    <3>1. PICK n \in Int : n = 2
      OBVIOUS
    <3>2. {1, 2} = 1..n
      BY <3>1
    <3>3. Cardinality(1..n) = IF 1 > n THEN 0 ELSE n - 1 + 1
      BY FS_Interval
    <3> QED BY <3>1, <3>2, <3>3
  <2>7. asList = [o \in Owners |-> pl] /\ asVer = [o \in Owners |-> 2] /\ asWant = [o \in Owners |-> {1, 2}]
    BY DEF AsInit, pl, its
  <2>8. {1, 2} \subseteq 1..2 /\ {1, 2} \in SUBSET Nat
    OBVIOUS
  <2>9. \A q \in AsReqs : EditTrue(asReq[q])
    BY <1>3 DEF EditTrue
  <2> QED BY <2>1, <2>3, <2>4, <2>5, <2>6, <2>7, <2>8, <2>9 DEF ListsInv
<1> QED BY <1>1, <1>2, <1>4, <1>5 DEF ScreensInv

LEMMA ReqKinds ==
  ASSUME ReqsTyped, NEW q \in AsReqs
  PROVE  /\ asReq[q] \in ScreenReqs
         /\ asReq[q].op = "sync" => asReq[q] \in SyncReqs
         /\ asReq[q].op = "add" => asReq[q] \in AddReqs
         /\ asReq[q].op = "update" => asReq[q] \in UpdateReqs
         /\ asReq[q].op = "delete" => asReq[q] \in DeleteReqs
         /\ asReq[q].op = "edit" => asReq[q] \in EditReqs
         /\ asReq[q].op = "upload" => asReq[q] \in UploadReqs
<1>1. asReq[q] \in ScreenReqs
  BY DEF ReqsTyped
<1>2. /\ \A r \in SyncReqs : r.op = "sync"
      /\ \A r \in AddReqs : r.op = "add"
      /\ \A r \in UpdateReqs : r.op = "update"
      /\ \A r \in DeleteReqs : r.op = "delete"
      /\ \A r \in EditReqs : r.op = "edit"
      /\ \A r \in UploadReqs : r.op = "upload"
      /\ FreeReq.op = "free"
  BY DEF SyncReqs, AddReqs, UpdateReqs, DeleteReqs, EditReqs, UploadReqs, FreeReq
<1> QED BY <1>1, <1>2 DEF ScreenReqs

LEMMA ReqGoesOn ==
  ASSUME ReqsTyped, NEW q \in AsReqs, NEW rq \in ScreenReqs, asReq' = [asReq EXCEPT ![q] = rq]
  PROVE  ReqsTyped' /\ asReq'[q] = rq /\ \A p \in AsReqs \ {q} : asReq'[p] = asReq[p]
BY DEF ReqsTyped

(* A step of a request that may insert, change or delete rows: what it     *)
(* inserts is at the service, and a delete ends with its row.              *)
LEMMA SignRowsMove ==
  ASSUME ScreensInv, NEW q \in AsReqs, NEW rq \in ScreenReqs, asReq' = [asReq EXCEPT ![q] = rq],
         UNCHANGED <<asRemote, asStale, asList, asVer, asWant, asClash>>,
         RowsInv',
         asReq[q].op = "delete" => \A n \in asRows' : n.id # asReq[q].row,
         ~asStale => HoldsPresent(rq),
         EditTrue(rq),
         \A n \in asRows' : \/ \E r \in asRows : r.id = n.id /\ r.scr = n.scr
                            \/ ~asStale /\ n.scr # Code => Present(n.scr)
  PROVE  ScreensInv'
<1>1. ReqsTyped' /\ asReq'[q] = rq /\ \A p \in AsReqs \ {q} : asReq'[p] = asReq[p]
  BY ReqGoesOn DEF ScreensInv
<1>2. \A s : Present(s)' <=> Present(s)
  BY DEF Present
<1>3. HeldPresent'
  <2>1. \A p \in AsReqs : ~asStale => HoldsPresent(asReq'[p])
    BY <1>1 DEF ScreensInv, RemoteInv, HeldPresent
  <2>2. \A p \in AsReqs : HoldsPresent(asReq[p])' <=> HoldsPresent(asReq'[p])
    BY <1>2 DEF HoldsPresent
  <2> QED BY <2>1, <2>2 DEF HeldPresent
<1>4. NoGhostRow'
  <2> SUFFICES ASSUME ~asStale, NEW n \in asRows', n.scr # Code, ~Present(n.scr)
               PROVE  \E p \in AsReqs : asReq'[p].op = "delete" /\ asReq'[p].row = n.id
    BY <1>2 DEF NoGhostRow
  <2>1. PICK r \in asRows : r.id = n.id /\ r.scr = n.scr
    OBVIOUS
  <2>2. PICK p \in AsReqs : asReq[p].op = "delete" /\ asReq[p].row = n.id
    BY <2>1 DEF ScreensInv, RemoteInv, NoGhostRow
  <2>3. p # q
    BY <2>2
  <2> QED BY <1>1, <2>2, <2>3
<1>5. ListsInv'
  <2>1. \A p \in AsReqs : EditTrue(asReq'[p])
    BY <1>1 DEF ScreensInv, ListsInv
  <2>2. \A p \in AsReqs : EditTrue(asReq[p])' <=> EditTrue(asReq'[p])
    BY DEF EditTrue
  <2> QED BY <2>1, <2>2 DEF ScreensInv, ListsInv
<1>6. RemoteInv'
  BY <1>3, <1>4 DEF ScreensInv, RemoteInv
<1> QED BY <1>1, <1>5, <1>6 DEF ScreensInv

(* A step of a request that changes no table the invariant is about.       *)
LEMMA ReqMoves ==
  ASSUME ScreensInv, NEW q \in AsReqs, NEW rq \in ScreenReqs, asReq' = [asReq EXCEPT ![q] = rq],
         UNCHANGED <<asRows, asIds, asRemote, asStale, asList, asVer, asWant, asClash>>,
         asReq[q].op # "delete", ~asStale => HoldsPresent(rq), EditTrue(rq)
  PROVE  ScreensInv' /\ TokensKept
<1>1. RowsInv'
  BY DEF ScreensInv, RowsInv
<1>2. ScreensInv'
  BY <1>1, SignRowsMove
<1>3. TokensKept
  BY DEF ScreensInv, RowsInv, TokensKept
<1> QED BY <1>2, <1>3

LEMMA PlainReqs ==
  /\ \A rq : rq.op \notin {"sync", "add"} => HoldsPresent(rq)
  /\ \A rq : rq.op # "edit" => EditTrue(rq)
  /\ FreeReq \in ScreenReqs /\ FreeReq.op = "free"
BY DEF HoldsPresent, EditTrue, FreeReq, ScreenReqs

LEMMA SyncBegins ==
  ASSUME ScreensInv, NEW q \in AsReqs, addAccount(q) \/ syncAccount(q)
  PROVE  ScreensInv' /\ TokensKept
<1>1. PICK from \in {"add", "sync"} : asReq[q] = FreeReq /\ asReq' = [asReq EXCEPT ![q] = SyncFor(q, from)]
  BY DEF addAccount, syncAccount, Arrive
<1>2. UNCHANGED <<asRows, asIds, asRemote, asStale, asList, asVer, asWant, asClash>>
  BY DEF addAccount, syncAccount, localVars, serviceVars
<1>3. SyncFor(q, from) \in SyncReqs /\ SyncFor(q, from).op = "sync" /\ SyncFor(q, from).pc = "list"
  BY DEF SyncFor, SyncReqs, Seen, Titles, Code
<1>4. HoldsPresent(SyncFor(q, from)) /\ EditTrue(SyncFor(q, from)) /\ SyncFor(q, from) \in ScreenReqs
  BY <1>3 DEF HoldsPresent, EditTrue, ScreenReqs
<1>5. asReq[q].op # "delete"
  BY <1>1, PlainReqs
<1> QED BY <1>1, <1>2, <1>4, <1>5, ReqMoves

LEMMA ReqEnds ==
  ASSUME ScreensInv, NEW q \in AsReqs, asReq' = [asReq EXCEPT ![q] = FreeReq], asReq[q].op # "delete",
         UNCHANGED <<asRows, asIds, asRemote, asStale, asList, asVer, asWant, asClash>>
  PROVE  ScreensInv' /\ TokensKept
BY PlainReqs, ReqMoves

LEMMA SyncListed ==
  ASSUME ScreensInv, NEW q \in AsReqs, syncList(q)
  PROVE  ScreensInv' /\ TokensKept
<1>1. /\ asReq[q].op = "sync" /\ asReq[q].pc = "list"
      /\ UNCHANGED <<asRows, asIds, asRemote, asStale, asList, asVer, asWant, asClash>>
  BY DEF syncList, At, serviceVars
<1>2. asReq[q] \in SyncReqs
  BY <1>1, ReqKinds DEF ScreensInv
<1> DEFINE listed == {<<s, asRemote[s]>> : s \in {t \in AsScreens : Present(t)}}
           rq == [asReq[q] EXCEPT !.pc = "next", !.todo = listed]
<1>3. CASE asReq' = [asReq EXCEPT ![q] = rq]
  <2>1. listed \in SUBSET Seen /\ \A s \in listed : Present(s[1])
    <3>1. ASSUME NEW x \in listed PROVE x \in Seen /\ Present(x[1])
      <4>1. PICK s \in AsScreens : Present(s) /\ x = <<s, asRemote[s]>>
        OBVIOUS
      <4>2. asRemote[s] \in Titles
        BY <4>1 DEF Present, Titles
      <4> QED BY <4>1, <4>2 DEF Seen
    <3> HIDE DEF listed
    <3> QED BY <3>1
  <2> HIDE DEF listed
  <2>2. rq \in SyncReqs /\ rq.op = "sync" /\ rq.pc = "next" /\ rq.todo = listed
    BY <1>2, <2>1 DEF SyncReqs
  <2> HIDE DEF rq
  <2>3. HoldsPresent(rq) /\ EditTrue(rq) /\ rq \in ScreenReqs
    BY <2>1, <2>2 DEF HoldsPresent, EditTrue, ScreenReqs
  <2> QED BY <1>1, <1>3, <2>3, ReqMoves
<1>4. CASE asReq' = [asReq EXCEPT ![q] = FreeReq]
  BY <1>1, <1>4, ReqEnds
<1> QED BY <1>3, <1>4 DEF syncList, To

LEMMA UpsertSelected ==
  ASSUME ScreensInv, NEW q \in AsReqs, upsertSelect(q)
  PROVE  ScreensInv' /\ TokensKept
<1>1. /\ asReq[q].op = "sync" /\ asReq[q].pc = "next"
      /\ UNCHANGED <<asRows, asIds, asRemote, asStale, asList, asVer, asWant, asClash>>
  BY DEF upsertSelect, At, serviceVars, localVars
<1>2. asReq[q] \in SyncReqs
  BY <1>1, ReqKinds DEF ScreensInv
<1>3. PICK s, row :
        /\ s \in asReq[q].todo
        /\ row = IF RowOf(s[1]) = {} THEN 0 ELSE (CHOOSE r \in RowOf(s[1]) : TRUE).id
        /\ asReq' = [asReq EXCEPT ![q] = [asReq[q] EXCEPT !.pc = "write", !.cur = s, !.todo = @ \ {s}, !.row = row]]
  BY DEF upsertSelect, To
<1>4. row \in Nat
  <2>1. RowOf(s[1]) # {} => (CHOOSE r \in RowOf(s[1]) : TRUE) \in asRows
    BY DEF RowOf
  <2> QED BY <1>3, <2>1 DEF ScreensInv, RowsInv, ScreenRows
<1> DEFINE rq == [asReq[q] EXCEPT !.pc = "write", !.cur = s, !.todo = @ \ {s}, !.row = row]
<1>5. rq \in SyncReqs /\ rq.op = "sync" /\ rq.pc = "write" /\ rq.cur = s /\ rq.todo = asReq[q].todo \ {s}
  BY <1>2, <1>3, <1>4 DEF SyncReqs
<1> HIDE DEF rq
<1>6. ~asStale => \A t \in asReq[q].todo : Present(t[1])
  BY <1>1 DEF ScreensInv, RemoteInv, HeldPresent, HoldsPresent
<1>7. (~asStale => HoldsPresent(rq)) /\ EditTrue(rq) /\ rq \in ScreenReqs
  BY <1>3, <1>5, <1>6 DEF HoldsPresent, EditTrue, ScreenReqs
<1>8. asReq' = [asReq EXCEPT ![q] = rq]
  BY <1>3 DEF rq
<1> QED BY <1>1, <1>7, <1>8, ReqMoves

LEMMA SyncEnded ==
  ASSUME ScreensInv, NEW q \in AsReqs, syncEnd(q)
  PROVE  ScreensInv' /\ TokensKept
BY ReqEnds DEF syncEnd, At, To, serviceVars

(* A title changes where the row stands.                                   *)
LEMMA RowRetitled ==
  ASSUME RowsInv, NEW id, NEW title \in Titles, asIds' = asIds,
         asRows' = {IF r.id = id THEN [r EXCEPT !.title = title] ELSE r : r \in asRows}
  PROVE  /\ RowsInv' /\ TokensKept
         /\ \A n \in asRows' : \E r \in asRows : r.id = n.id /\ r.scr = n.scr
<1>1. ASSUME NEW n \in asRows'
      PROVE  \E r \in asRows : /\ r.id = n.id /\ r.scr = n.scr /\ r.token = n.token
                             /\ n \in ScreenRows /\ n = IF r.id = id THEN [r EXCEPT !.title = title] ELSE r
  <2>1. PICK r \in asRows : n = IF r.id = id THEN [r EXCEPT !.title = title] ELSE r
    OBVIOUS
  <2>2. r \in ScreenRows
    BY DEF RowsInv
  <2>3. [r EXCEPT !.title = title] \in ScreenRows /\ [r EXCEPT !.title = title].id = r.id
        /\ [r EXCEPT !.title = title].scr = r.scr /\ [r EXCEPT !.title = title].token = r.token
    BY <2>2 DEF ScreenRows
  <2> QED BY <2>1, <2>2, <2>3
<1>2. RowsInv'
  BY <1>1 DEF RowsInv
<1>3. TokensKept
  BY <1>1 DEF RowsInv, TokensKept
<1> QED BY <1>1, <1>2, <1>3

LEMMA UpsertUpdated ==
  ASSUME ScreensInv, NEW q \in AsReqs, upsertUpdate(q)
  PROVE  ScreensInv' /\ TokensKept
<1>1. /\ asReq[q].op = "sync" /\ asReq[q].pc = "write" /\ asIds' = asIds
      /\ UNCHANGED <<asRemote, asStale, asList, asVer, asWant, asClash>>
      /\ asRows' = {IF r.id = asReq[q].row THEN [r EXCEPT !.title = asReq[q].cur[2]] ELSE r : r \in asRows}
      /\ asReq' = [asReq EXCEPT ![q] = [asReq[q] EXCEPT !.pc = "next"]]
  BY DEF upsertUpdate, At, To, serviceVars
<1>2. asReq[q] \in SyncReqs
  BY <1>1, ReqKinds DEF ScreensInv
<1> DEFINE rq == [asReq[q] EXCEPT !.pc = "next"]
<1>3. rq \in SyncReqs /\ rq.op = "sync" /\ rq.pc = "next" /\ rq.todo = asReq[q].todo
  BY <1>2 DEF SyncReqs
<1> HIDE DEF rq
<1>4. (~asStale => HoldsPresent(rq)) /\ EditTrue(rq) /\ rq \in ScreenReqs
  BY <1>1, <1>3 DEF ScreensInv, RemoteInv, HeldPresent, HoldsPresent, EditTrue, ScreenReqs
<1>5. asReq[q].cur[2] \in Titles
  BY <1>2 DEF SyncReqs, Seen
<1>6. /\ RowsInv' /\ TokensKept
      /\ \A n \in asRows' : \E r \in asRows : r.id = n.id /\ r.scr = n.scr
  BY <1>1, <1>5, RowRetitled DEF ScreensInv
<1>7. asReq' = [asReq EXCEPT ![q] = rq]
  BY <1>1 DEF rq
<1> QED BY <1>1, <1>4, <1>6, <1>7, SignRowsMove

(* A row is inserted for a screen that has none, under a new id.           *)
LEMMA RowInserted ==
  ASSUME RowsInv, NEW scr \in AsScreens \cup {Code}, NEW title \in Titles, NEW token \in BOOLEAN,
         RowOf(scr) = {}, asIds' = asIds + 1, asRows' = asRows \cup {NewRow(scr, title, token)}
  PROVE  /\ RowsInv' /\ TokensKept
         /\ \A n \in asRows' : n \in asRows \/ n.scr = scr
<1> DEFINE new == NewRow(scr, title, token)
<1>1. asIds \in Nat /\ \A r \in asRows : r \in ScreenRows /\ r.id \in Nat /\ r.id <= asIds /\ r.scr # scr
  BY DEF RowsInv, RowOf, ScreenRows
<1>2. new \in ScreenRows /\ new.id = asIds + 1 /\ new.scr = scr
  BY <1>1 DEF NewRow, ScreenRows
<1>3. asRows' = asRows \cup {new}
  OBVIOUS
<1> HIDE DEF new
<1>4. \A r \in asRows : r.id < asIds + 1 /\ r.id # new.id /\ r.scr # new.scr
  BY <1>1, <1>2
<1>5. RowsInv'
  <2>1. asIds' \in Nat /\ asRows' \subseteq ScreenRows /\ \A r \in asRows' : r.id <= asIds'
    BY <1>1, <1>2, <1>3, <1>4
  <2>2. \A r, n \in asRows' : r.id = n.id => r = n
    BY <1>3, <1>4 DEF RowsInv
  <2>3. \A r, n \in asRows' : r.scr = n.scr => r = n
    BY <1>3, <1>4 DEF RowsInv
  <2> QED BY <2>1, <2>2, <2>3 DEF RowsInv
<1>6. TokensKept
  <2> SUFFICES ASSUME NEW r \in asRows, NEW n \in asRows', r.id = n.id, r.token PROVE n.token
    BY DEF TokensKept
  <2>1. n \in asRows
    BY <1>3, <1>4
  <2> QED BY <2>1 DEF RowsInv
<1> QED BY <1>2, <1>3, <1>5, <1>6

LEMMA UpsertInserted ==
  ASSUME ScreensInv, NEW q \in AsReqs, upsertInsert(q)
  PROVE  ScreensInv' /\ TokensKept
<1>1. /\ asReq[q].op = "sync" /\ asReq[q].pc = "write"
      /\ UNCHANGED <<asRemote, asStale, asList, asVer, asWant, asClash>>
  BY DEF upsertInsert, At, serviceVars
<1>2. asReq[q] \in SyncReqs
  BY <1>1, ReqKinds DEF ScreensInv
<1>3. CASE MayInsert(asReq[q].cur[1])
  <2> DEFINE rq == [asReq[q] EXCEPT !.pc = "next"]
             scr == asReq[q].cur[1]
  <2>1. /\ asRows' = asRows \cup {NewRow(scr, asReq[q].cur[2], FALSE)} /\ asIds' = asIds + 1
        /\ asReq' = [asReq EXCEPT ![q] = rq] /\ RowOf(scr) = {}
    BY <1>3 DEF upsertInsert, To, MayInsert
  <2>2. rq \in SyncReqs /\ rq.op = "sync" /\ rq.pc = "next" /\ rq.todo = asReq[q].todo
    BY <1>2 DEF SyncReqs
  <2>3. scr \in AsScreens \cup {Code} /\ asReq[q].cur[2] \in Titles
    BY <1>2 DEF SyncReqs, Seen
  <2> HIDE DEF rq
  <2>4. (~asStale => HoldsPresent(rq) /\ Present(scr)) /\ EditTrue(rq) /\ rq \in ScreenReqs
    BY <1>1, <2>2 DEF ScreensInv, RemoteInv, HeldPresent, HoldsPresent, EditTrue, ScreenReqs
  <2> HIDE DEF scr
  <2>5. RowsInv' /\ TokensKept /\ \A n \in asRows' : n \in asRows \/ n.scr = scr
    BY <2>1, <2>3, RowInserted DEF ScreensInv
  <2>6. ScreensInv'
    BY <1>1, <2>1, <2>4, <2>5, SignRowsMove
  <2> QED BY <2>5, <2>6
<1>4. CASE ~MayInsert(asReq[q].cur[1])
  BY <1>1, <1>4, ReqEnds DEF upsertInsert, To
<1> QED BY <1>3, <1>4

(* A step of a request that changes screens at the service: none of those  *)
(* that are held leaves it.                                                *)
LEMMA RemoteMoves ==
  ASSUME ScreensInv, NEW q \in AsReqs, NEW rq \in ScreenReqs, asReq' = [asReq EXCEPT ![q] = rq],
         UNCHANGED <<asRows, asIds, asStale, asList, asVer, asWant, asClash>>,
         asRemote' \in [AsScreens -> AsTitles \cup {"none", "gone"}],
         \A s : Present(s) => Present(s)',
         asReq[q].op # "delete", rq.op # "edit", ~asStale => HoldsPresent(asReq[q])'
  PROVE  ScreensInv' /\ TokensKept
<1>1. ReqsTyped' /\ asReq'[q] = rq /\ \A p \in AsReqs \ {q} : asReq'[p] = asReq[p]
  BY ReqGoesOn DEF ScreensInv
<1>2. RowsInv' /\ TokensKept
  BY DEF ScreensInv, RowsInv, TokensKept
<1>3. HeldPresent'
  <2> SUFFICES ASSUME ~asStale, NEW p \in AsReqs PROVE HoldsPresent(asReq[p])'
    BY DEF HeldPresent
  <2>1. CASE p = q
    BY <2>1
  <2>2. CASE p # q
    <3>1. HoldsPresent(asReq[p]) /\ asReq'[p] = asReq[p]
      BY <1>1, <2>2 DEF ScreensInv, RemoteInv, HeldPresent
    <3> QED BY <3>1 DEF HoldsPresent
  <2> QED BY <2>1, <2>2
<1>4. NoGhostRow'
  <2> SUFFICES ASSUME ~asStale, NEW n \in asRows, n.scr # Code, ~Present(n.scr)
               PROVE  \E p \in AsReqs : asReq'[p].op = "delete" /\ asReq'[p].row = n.id
    BY DEF NoGhostRow
  <2>1. PICK p \in AsReqs : asReq[p].op = "delete" /\ asReq[p].row = n.id
    BY DEF ScreensInv, RemoteInv, NoGhostRow
  <2> QED BY <1>1, <2>1
<1>5. ListsInv'
  <2>1. \A p \in AsReqs : EditTrue(asReq'[p])
    BY <1>1, PlainReqs DEF ScreensInv, ListsInv
  <2>2. \A p \in AsReqs : EditTrue(asReq[p])' <=> EditTrue(asReq'[p])
    BY DEF EditTrue
  <2> QED BY <2>1, <2>2 DEF ScreensInv, ListsInv
<1>6. RemoteInv'
  BY <1>3, <1>4 DEF RemoteInv
<1> QED BY <1>1, <1>2, <1>5, <1>6 DEF ScreensInv

LEMMA ScreenAdds ==
  ASSUME ScreensInv, NEW q \in AsReqs, NEW title \in AsTitles, addScreen(q, title)
  PROVE  ScreensInv' /\ TokensKept
<1> DEFINE rq == [op |-> "add", pc |-> "pair", title |-> title, scr |-> 0, token |-> FALSE, row |-> 0]
<1>1. asReq[q] = FreeReq /\ asReq' = [asReq EXCEPT ![q] = rq]
      /\ UNCHANGED <<asRows, asIds, asRemote, asStale, asList, asVer, asWant, asClash>>
  BY DEF addScreen, Arrive, localVars, serviceVars
<1>2. rq \in AddReqs /\ rq.op = "add" /\ rq.pc = "pair"
  BY DEF AddReqs, Code
<1> HIDE DEF rq
<1>3. HoldsPresent(rq) /\ EditTrue(rq) /\ rq \in ScreenReqs
  BY <1>2 DEF HoldsPresent, EditTrue, ScreenReqs
<1>4. asReq[q].op # "delete"
  BY <1>1, PlainReqs
<1> QED BY <1>1, <1>3, <1>4, ReqMoves

LEMMA ScreenPaired ==
  ASSUME ScreensInv, NEW q \in AsReqs, headlessPairScreen(q)
  PROVE  ScreensInv' /\ TokensKept
<1>1. /\ asReq[q].op = "add" /\ asReq[q].pc = "pair"
      /\ UNCHANGED <<asRows, asIds, asStale, asList, asVer, asWant, asClash>>
  BY DEF headlessPairScreen, At, localVars
<1>2. asReq[q] \in AddReqs
  BY <1>1, ReqKinds DEF ScreensInv
<1>3. CASE asReq' = [asReq EXCEPT ![q] = FreeReq] /\ UNCHANGED asRemote
  BY <1>1, <1>3, ReqEnds
<1>4. ASSUME NEW s \in AsScreens, NEW token \in BOOLEAN, NEW idKnown \in BOOLEAN,
             asRemote[s] = "none", asRemote' = [asRemote EXCEPT ![s] = asReq[q].title],
             asReq' = [asReq EXCEPT ![q] = [asReq[q] EXCEPT !.pc = "row", !.scr = IF idKnown THEN s ELSE Code,
                                                           !.token = token]]
      PROVE  ScreensInv' /\ TokensKept
  <2> DEFINE rq == [asReq[q] EXCEPT !.pc = "row", !.scr = IF idKnown THEN s ELSE Code, !.token = token]
  <2>1. rq \in AddReqs /\ rq.op = "add" /\ rq.pc = "row" /\ rq.scr \in {s, Code}
    BY <1>2 DEF AddReqs
  <2>2. asReq' = [asReq EXCEPT ![q] = rq]
    BY <1>4
  <2> HIDE DEF rq
  <2>3. rq \in ScreenReqs /\ rq.op # "edit"
    BY <2>1 DEF ScreenReqs
  <2>4. asReq[q].title \in AsTitles
    BY <1>2 DEF AddReqs
  <2>5. asRemote' \in [AsScreens -> AsTitles \cup {"none", "gone"}] /\ asRemote'[s] \in AsTitles
        /\ \A u \in AsScreens \ {s} : asRemote'[u] = asRemote[u]
    BY <1>4, <2>4 DEF ScreensInv, RemoteInv
  <2>6. (\A u : Present(u) => Present(u)') /\ Present(s)'
    BY <2>5 DEF Present
  <2>7. asReq'[q] = rq
    BY <2>2, <2>3, ReqGoesOn DEF ScreensInv
  <2>8. HoldsPresent(asReq[q])'
    BY <2>1, <2>6, <2>7 DEF HoldsPresent
  <2> QED BY <1>1, <2>2, <2>3, <2>5, <2>6, <2>8, RemoteMoves
<1> QED BY <1>3, <1>4 DEF headlessPairScreen, To

LEMMA RowAdded ==
  ASSUME ScreensInv, NEW q \in AsReqs, addRow(q)
  PROVE  ScreensInv' /\ TokensKept
<1>1. /\ asReq[q].op = "add" /\ asReq[q].pc = "row"
      /\ UNCHANGED <<asRemote, asStale, asList, asVer, asWant, asClash>>
  BY DEF addRow, At, serviceVars
<1>2. asReq[q] \in AddReqs
  BY <1>1, ReqKinds DEF ScreensInv
<1>3. CASE MayInsert(asReq[q].scr)
  <2> DEFINE rq == [asReq[q] EXCEPT !.pc = "entity", !.row = asIds + 1]
             scr == asReq[q].scr
             title == asReq[q].title
             token == asReq[q].token
  <2>1. /\ asRows' = asRows \cup {NewRow(scr, title, token)} /\ asIds' = asIds + 1
        /\ asReq' = [asReq EXCEPT ![q] = rq] /\ RowOf(scr) = {}
    BY <1>3 DEF addRow, To, MayInsert
  <2>2. asIds + 1 \in Nat
    BY DEF ScreensInv, RowsInv
  <2>3. rq \in AddReqs /\ rq.op = "add" /\ rq.pc = "entity"
    BY <1>2, <2>2 DEF AddReqs
  <2>4. scr \in AsScreens \cup {Code} /\ title \in Titles /\ token \in BOOLEAN
    BY <1>2 DEF AddReqs, Titles
  <2> HIDE DEF rq
  <2>5. HoldsPresent(rq) /\ EditTrue(rq) /\ rq \in ScreenReqs
    BY <2>3 DEF HoldsPresent, EditTrue, ScreenReqs
  <2>6. ~asStale /\ scr # Code => Present(scr)
    BY <1>1 DEF ScreensInv, RemoteInv, HeldPresent, HoldsPresent
  <2> HIDE DEF scr, title, token
  <2>7. RowsInv' /\ TokensKept /\ \A n \in asRows' : n \in asRows \/ n.scr = scr
    BY <2>1, <2>4, RowInserted DEF ScreensInv
  <2>8. ScreensInv'
    BY <1>1, <2>1, <2>5, <2>6, <2>7, SignRowsMove
  <2> QED BY <2>7, <2>8
<1>4. CASE ~MayInsert(asReq[q].scr)
  BY <1>1, <1>4, ReqEnds DEF addRow, To
<1> QED BY <1>3, <1>4

LEMMA EntityAdded ==
  ASSUME ScreensInv, NEW q \in AsReqs, addEntity(q)
  PROVE  ScreensInv' /\ TokensKept
<1>1. /\ asReq[q].op = "add"
      /\ UNCHANGED <<asRows, asIds, asRemote, asStale, asList, asVer, asWant, asClash>>
  BY DEF addEntity, At, serviceVars
<1>2. CASE asReq' = [asReq EXCEPT ![q] = SyncFor(q, "add")]
  <2>1. SyncFor(q, "add") \in SyncReqs /\ SyncFor(q, "add").op = "sync" /\ SyncFor(q, "add").pc = "list"
    BY DEF SyncFor, SyncReqs, Seen, Titles, Code
  <2>2. HoldsPresent(SyncFor(q, "add")) /\ EditTrue(SyncFor(q, "add")) /\ SyncFor(q, "add") \in ScreenReqs
    BY <2>1 DEF HoldsPresent, EditTrue, ScreenReqs
  <2> QED BY <1>1, <1>2, <2>2, ReqMoves
<1>3. CASE asReq' = [asReq EXCEPT ![q] = FreeReq]
  BY <1>1, <1>3, ReqEnds
<1> QED BY <1>2, <1>3 DEF addEntity, To

(* A step of no request: the rows keep their ids and screens.              *)
LEMMA RowsStand ==
  ASSUME ScreensInv,
         UNCHANGED <<asReq, asRemote, asStale, asList, asVer, asWant, asClash>>, RowsInv',
         \A n \in asRows' : \E r \in asRows : r.id = n.id /\ r.scr = n.scr
  PROVE  ScreensInv'
<1>1. \A s : Present(s)' <=> Present(s)
  BY DEF Present
<1>2. HeldPresent'
  BY <1>1 DEF ScreensInv, RemoteInv, HeldPresent, HoldsPresent
<1>3. NoGhostRow'
  BY <1>1 DEF ScreensInv, RemoteInv, NoGhostRow
<1>4. ListsInv'
  BY DEF ScreensInv, ListsInv, EditTrue
<1>5. ReqsTyped'
  BY DEF ScreensInv, ReqsTyped
<1>6. RemoteInv'
  BY <1>2, <1>3 DEF ScreensInv, RemoteInv
<1> QED BY <1>4, <1>5, <1>6 DEF ScreensInv

LEMMA KioskAssigned ==
  ASSUME ScreensInv, NEW r \in asRows, assignScreen(r)
  PROVE  ScreensInv' /\ TokensKept
<1> DEFINE new == [r EXCEPT !.kiosk = ~@]
<1>1. /\ asRows' = (asRows \ {r}) \cup {new} /\ asIds' = asIds
      /\ UNCHANGED <<asReq, asRemote, asStale, asList, asVer, asWant, asClash>>
  BY DEF assignScreen, serviceVars
<1>2. r \in ScreenRows
  BY DEF ScreensInv, RowsInv
<1>3. new \in ScreenRows /\ new.id = r.id /\ new.scr = r.scr /\ new.token = r.token
  BY <1>2 DEF ScreenRows
<1> HIDE DEF new
<1>4. RowsInv'
  BY <1>1, <1>3 DEF ScreensInv, RowsInv
<1>5. \A n \in asRows' : \E m \in asRows : m.id = n.id /\ m.scr = n.scr
  BY <1>1, <1>3
<1>6. TokensKept
  BY <1>1, <1>3 DEF ScreensInv, RowsInv, TokensKept
<1> QED BY <1>1, <1>4, <1>5, <1>6, RowsStand

LEMMA UpdateBegins ==
  ASSUME ScreensInv, NEW q \in AsReqs, NEW r \in asRows, NEW title \in AsTitles, updateScreen(q, r, title)
  PROVE  ScreensInv' /\ TokensKept
<1> DEFINE rq == [op |-> "update", pc |-> "remote", row |-> r.id, scr |-> r.scr, title |-> title]
<1>1. asReq[q] = FreeReq /\ asReq' = [asReq EXCEPT ![q] = rq]
      /\ UNCHANGED <<asRows, asIds, asRemote, asStale, asList, asVer, asWant, asClash>>
  BY DEF updateScreen, Arrive, localVars, serviceVars
<1>2. r.id \in Nat /\ r.scr \in AsScreens \cup {Code}
  BY DEF ScreensInv, RowsInv, ScreenRows
<1>3. rq \in UpdateReqs /\ rq.op = "update"
  BY <1>2 DEF UpdateReqs
<1> HIDE DEF rq
<1>4. HoldsPresent(rq) /\ EditTrue(rq) /\ rq \in ScreenReqs
  BY <1>3, PlainReqs DEF ScreenReqs
<1>5. asReq[q].op # "delete"
  BY <1>1, PlainReqs
<1> QED BY <1>1, <1>4, <1>5, ReqMoves

LEMMA RemoteUpdated ==
  ASSUME ScreensInv, NEW q \in AsReqs, updateScreenRemote(q)
  PROVE  ScreensInv' /\ TokensKept
<1>1. /\ asReq[q].op = "update"
      /\ UNCHANGED <<asRows, asIds, asStale, asList, asVer, asWant, asClash>>
  BY DEF updateScreenRemote, At, localVars
<1>2. asReq[q] \in UpdateReqs
  BY <1>1, ReqKinds DEF ScreensInv
<1> DEFINE rq == [asReq[q] EXCEPT !.pc = "row"]
<1>3. rq \in UpdateReqs /\ rq.op = "update"
  BY <1>2 DEF UpdateReqs
<1>4. HoldsPresent(rq) /\ EditTrue(rq) /\ rq \in ScreenReqs
  BY <1>3, PlainReqs DEF ScreenReqs
<1>5. CASE asReq' = [asReq EXCEPT ![q] = FreeReq] /\ UNCHANGED asRemote
  BY <1>1, <1>5, ReqEnds
<1>6. ASSUME NEW new \in {rq, FreeReq}, Present(asReq[q].scr), asReq' = [asReq EXCEPT ![q] = new],
             asRemote' = [asRemote EXCEPT ![asReq[q].scr] = asReq[q].title]
      PROVE  ScreensInv' /\ TokensKept
  <2>1. asReq[q].title \in AsTitles /\ asReq[q].scr \in AsScreens
    BY <1>2, <1>6 DEF UpdateReqs, Present
  <2>2. asRemote' \in [AsScreens -> AsTitles \cup {"none", "gone"}] /\ asRemote'[asReq[q].scr] \in AsTitles
        /\ \A u \in AsScreens \ {asReq[q].scr} : asRemote'[u] = asRemote[u]
    BY <1>6, <2>1 DEF ScreensInv, RemoteInv
  <2>3. \A u : Present(u) => Present(u)'
    BY <2>2 DEF Present
  <2> HIDE DEF rq
  <2>4. new \in ScreenReqs /\ new.op \notin {"sync", "add", "edit"} /\ asReq[q].op # "delete"
    BY <1>1, <1>3, <1>4, PlainReqs
  <2>5. asReq'[q] = new
    BY <1>6, <2>4, ReqGoesOn DEF ScreensInv
  <2>6. HoldsPresent(asReq[q])'
    BY <2>4, <2>5 DEF HoldsPresent
  <2> QED BY <1>1, <1>6, <2>2, <2>3, <2>4, <2>6, RemoteMoves
<1> QED BY <1>5, <1>6 DEF updateScreenRemote, apiFetch, To, Works, Fault

LEMMA RowUpdated ==
  ASSUME ScreensInv, NEW q \in AsReqs, updateScreenRow(q)
  PROVE  ScreensInv' /\ TokensKept
<1>1. /\ asReq[q].op = "update" /\ asIds' = asIds
      /\ UNCHANGED <<asRemote, asStale, asList, asVer, asWant, asClash>>
      /\ asRows' = {IF r.id = asReq[q].row THEN [r EXCEPT !.title = asReq[q].title] ELSE r : r \in asRows}
      /\ asReq' = [asReq EXCEPT ![q] = FreeReq]
  BY DEF updateScreenRow, At, To, serviceVars
<1>2. asReq[q] \in UpdateReqs
  BY <1>1, ReqKinds DEF ScreensInv
<1>3. asReq[q].title \in Titles
  BY <1>2 DEF UpdateReqs, Titles
<1>4. /\ RowsInv' /\ TokensKept
      /\ \A n \in asRows' : \E r \in asRows : r.id = n.id /\ r.scr = n.scr
  BY <1>1, <1>3, RowRetitled DEF ScreensInv
<1>5. HoldsPresent(FreeReq) /\ EditTrue(FreeReq) /\ FreeReq \in ScreenReqs
  BY PlainReqs
<1> QED BY <1>1, <1>4, <1>5, SignRowsMove

LEMMA DeleteBegins ==
  ASSUME ScreensInv, NEW q \in AsReqs, NEW r \in asRows, deleteScreen(q, r)
  PROVE  ScreensInv' /\ TokensKept
<1> DEFINE rq == [op |-> "delete", pc |-> "remote", row |-> r.id, scr |-> r.scr]
<1>1. asReq[q] = FreeReq /\ asReq' = [asReq EXCEPT ![q] = rq]
      /\ UNCHANGED <<asRows, asIds, asRemote, asStale, asList, asVer, asWant, asClash>>
  BY DEF deleteScreen, Arrive, localVars, serviceVars
<1>2. r.id \in Nat /\ r.scr \in AsScreens \cup {Code}
  BY DEF ScreensInv, RowsInv, ScreenRows
<1>3. rq \in DeleteReqs /\ rq.op = "delete"
  BY <1>2 DEF DeleteReqs
<1> HIDE DEF rq
<1>4. HoldsPresent(rq) /\ EditTrue(rq) /\ rq \in ScreenReqs
  BY <1>3, PlainReqs DEF ScreenReqs
<1>5. asReq[q].op # "delete"
  BY <1>1, PlainReqs
<1> QED BY <1>1, <1>4, <1>5, ReqMoves

(* The screen leaves the service: unless the history notes that it was     *)
(* held or that another row is its, only the deleted row is left without.  *)
LEMMA RemoteDeleted ==
  ASSUME ScreensInv, NEW q \in AsReqs, deleteScreenRemote(q)
  PROVE  ScreensInv' /\ TokensKept
<1> DEFINE rq == [asReq[q] EXCEPT !.pc = "row"]
           scr == asReq[q].scr
<1>1. /\ asReq[q].op = "delete" /\ asReq' = [asReq EXCEPT ![q] = rq]
      /\ UNCHANGED <<asRows, asIds, asList, asVer, asWant, asClash>>
      /\ \/ UNCHANGED <<asRemote, asStale>>
         \/ /\ asRemote' = [s \in AsScreens |-> IF s = scr THEN "gone" ELSE asRemote[s]]
            /\ asStale' = (asStale \/ Holding(scr) \/ \E r \in RowOf(scr) : r.id # asReq[q].row)
  BY DEF deleteScreenRemote, At, To, localVars
<1>2. asReq[q] \in DeleteReqs
  BY <1>1, ReqKinds DEF ScreensInv
<1>3. rq \in DeleteReqs /\ rq.op = "delete" /\ rq.row = asReq[q].row
  BY <1>2 DEF DeleteReqs
<1> HIDE DEF rq
<1>4. HoldsPresent(rq) /\ EditTrue(rq) /\ rq \in ScreenReqs
  BY <1>3, PlainReqs DEF ScreenReqs
<1>5. ReqsTyped' /\ asReq'[q] = rq /\ \A p \in AsReqs \ {q} : asReq'[p] = asReq[p]
  BY <1>1, <1>4, ReqGoesOn DEF ScreensInv
<1>6. asRemote' \in [AsScreens -> AsTitles \cup {"none", "gone"}]
  BY <1>1 DEF ScreensInv, RemoteInv
<1>7. \A s : s # scr => (Present(s)' <=> Present(s))
  BY <1>1 DEF Present
<1>8. ~asStale' => ~asStale
  BY <1>1
<1>9. HeldPresent'
  <2> SUFFICES ASSUME ~asStale', NEW p \in AsReqs PROVE HoldsPresent(asReq[p])'
    BY DEF HeldPresent
  <2>1. CASE p = q
    BY <1>3, <1>5, <2>1 DEF HoldsPresent
  <2>2. CASE p # q
    <3>1. HoldsPresent(asReq[p]) /\ asReq'[p] = asReq[p]
      BY <1>5, <1>8, <2>2 DEF ScreensInv, RemoteInv, HeldPresent
    <3>2. CASE UNCHANGED asRemote
      BY <3>1, <3>2 DEF HoldsPresent, Present
    <3>3. CASE ~Holding(scr)
      <4>1. asReq[p].op = "sync" => asReq[p].pc = "list"
        BY <3>3 DEF Holding
      <4>2. asReq[p].op = "add" => asReq[p].scr # scr
        BY <3>3 DEF Holding
      <4> QED BY <1>7, <3>1, <4>1, <4>2 DEF HoldsPresent
    <3> QED BY <1>1, <3>2, <3>3
  <2> QED BY <2>1, <2>2
<1>10. NoGhostRow'
  <2> SUFFICES ASSUME ~asStale', NEW n \in asRows, n.scr # Code, ~Present(n.scr)'
               PROVE  \E p \in AsReqs : asReq'[p].op = "delete" /\ asReq'[p].row = n.id
    BY <1>1 DEF NoGhostRow
  <2>1. ASSUME ~Present(n.scr) PROVE \E p \in AsReqs : asReq'[p].op = "delete" /\ asReq'[p].row = n.id
    <3>1. PICK p \in AsReqs : asReq[p].op = "delete" /\ asReq[p].row = n.id
      BY <1>8, <2>1 DEF ScreensInv, RemoteInv, NoGhostRow
    <3> QED BY <1>3, <1>5, <3>1
  <2>2. ASSUME Present(n.scr) PROVE n.id = asReq[q].row
    <3>1. n.scr = scr
      BY <1>7, <2>2
    <3>2. ~UNCHANGED asRemote
      BY <2>2 DEF Present
    <3> QED BY <1>1, <3>1, <3>2 DEF RowOf
  <2> QED BY <1>3, <1>5, <2>1, <2>2
<1>11. ListsInv'
  <2>1. \A p \in AsReqs : EditTrue(asReq'[p])
    BY <1>1, <1>4, <1>5 DEF ScreensInv, ListsInv
  <2>2. \A p \in AsReqs : EditTrue(asReq[p])' <=> EditTrue(asReq'[p])
    BY <1>1 DEF EditTrue
  <2> QED BY <1>1, <2>1, <2>2 DEF ScreensInv, ListsInv
<1>12. RowsInv' /\ TokensKept
  BY <1>1 DEF ScreensInv, RowsInv, TokensKept
<1>13. RemoteInv'
  BY <1>6, <1>9, <1>10 DEF RemoteInv
<1> QED BY <1>5, <1>11, <1>12, <1>13 DEF ScreensInv

LEMMA RowDeleted ==
  ASSUME ScreensInv, NEW q \in AsReqs, deleteScreenRow(q)
  PROVE  ScreensInv' /\ TokensKept
<1>1. /\ asReq' = [asReq EXCEPT ![q] = FreeReq] /\ asIds' = asIds
      /\ asRows' = {r \in asRows : r.id # asReq[q].row}
      /\ UNCHANGED <<asRemote, asStale, asList, asVer, asWant, asClash>>
  BY DEF deleteScreenRow, To, serviceVars
<1>2. RowsInv' /\ TokensKept
  BY <1>1 DEF ScreensInv, RowsInv, TokensKept
<1>3. HoldsPresent(FreeReq) /\ EditTrue(FreeReq) /\ FreeReq \in ScreenReqs
  BY PlainReqs
<1>4. /\ \A n \in asRows' : n.id # asReq[q].row
      /\ \A n \in asRows' : \E r \in asRows : r.id = n.id /\ r.scr = n.scr
  BY <1>1
<1> QED BY <1>1, <1>2, <1>3, <1>4, SignRowsMove

LEMMA AccountDeleted ==
  ASSUME ScreensInv, NEW q \in AsReqs, deleteAccount(q)
  PROVE  ScreensInv' /\ TokensKept
<1>1. asRows' = {} /\ asStale' /\ UNCHANGED <<asReq, asIds, asRemote, asList, asVer, asWant, asClash>>
  BY DEF deleteAccount, serviceVars
<1>2. RowsInv' /\ TokensKept
  BY <1>1 DEF ScreensInv, RowsInv, TokensKept
<1>3. RemoteInv'
  BY <1>1 DEF ScreensInv, RemoteInv, HeldPresent, NoGhostRow
<1>4. ListsInv'
  BY <1>1 DEF ScreensInv, ListsInv, EditTrue
<1>5. ReqsTyped'
  BY <1>1 DEF ScreensInv, ReqsTyped
<1> QED BY <1>2, <1>3, <1>4, <1>5 DEF ScreensInv

LEMMA ItemRemoved ==
  ASSUME NEW s \in Seq(PlItems), NEW i \in 1..Len(s)
  PROVE  /\ RemoveAt(s, i) \in Seq(PlItems) /\ Len(RemoveAt(s, i)) = Len(s) - 1
         /\ \A k \in 1..(Len(s) - 1) : RemoveAt(s, i)[k] = IF k < i THEN s[k] ELSE s[k + 1]
<1> DEFINE a == SubSeq(s, 1, i - 1)
           b == SubSeq(s, i + 1, Len(s))
<1>1. Len(s) \in Nat /\ i \in Nat /\ i >= 1 /\ i <= Len(s) /\ \A k \in 1..Len(s) : s[k] \in PlItems
  OBVIOUS
<1>2. a \in Seq(PlItems) /\ Len(a) = i - 1 /\ \A k \in 1..(i - 1) : a[k] = s[k]
  <2>1. \A k \in 1..(i - 1) : s[k] \in PlItems
    BY <1>1
  <2>2. 1 \in Int /\ i - 1 \in Int
    BY <1>1
  <2>3. /\ a \in Seq(PlItems) /\ Len(a) = IF 1 <= i - 1 THEN (i - 1) - 1 + 1 ELSE 0
        /\ \A k \in 1..((i - 1) - 1 + 1) : a[k] = s[1 + k - 1]
    BY <2>1, <2>2, SubSeqProperties
  <2> HIDE DEF a
  <2>4. Len(a) = i - 1
    <3>1. CASE 1 <= i - 1
      <4>1. Len(a) = (i - 1) - 1 + 1
        BY <2>3, <3>1
      <4> QED BY <1>1, <4>1
    <3>2. CASE ~(1 <= i - 1)
      <4>1. Len(a) = 0
        BY <2>3, <3>2
      <4> QED BY <1>1, <3>2, <4>1
    <3> QED BY <3>1, <3>2
  <2>5. ASSUME NEW k \in 1..(i - 1) PROVE a[k] = s[k]
    <3>1. k \in 1..((i - 1) - 1 + 1) /\ 1 + k - 1 = k
      BY <1>1
    <3> QED BY <2>3, <3>1
  <2> QED BY <2>3, <2>4, <2>5
<1>3. b \in Seq(PlItems) /\ Len(b) = Len(s) - i /\ \A k \in 1..(Len(s) - i) : b[k] = s[i + k]
  <2>1. \A k \in (i + 1)..Len(s) : s[k] \in PlItems
    BY <1>1
  <2>2. i + 1 \in Int /\ Len(s) \in Int
    BY <1>1
  <2>3. /\ b \in Seq(PlItems) /\ Len(b) = IF i + 1 <= Len(s) THEN Len(s) - (i + 1) + 1 ELSE 0
        /\ \A k \in 1..(Len(s) - (i + 1) + 1) : b[k] = s[(i + 1) + k - 1]
    BY <2>1, <2>2, SubSeqProperties
  <2> HIDE DEF b
  <2>4. Len(b) = Len(s) - i
    <3>1. CASE i + 1 <= Len(s)
      <4>1. Len(b) = Len(s) - (i + 1) + 1
        BY <2>3, <3>1
      <4> QED BY <1>1, <4>1
    <3>2. CASE ~(i + 1 <= Len(s))
      <4>1. Len(b) = 0
        BY <2>3, <3>2
      <4> QED BY <1>1, <3>2, <4>1
    <3> QED BY <3>1, <3>2
  <2>5. ASSUME NEW k \in 1..(Len(s) - i) PROVE b[k] = s[i + k]
    <3>1. k \in 1..(Len(s) - (i + 1) + 1) /\ (i + 1) + k - 1 = i + k
      BY <1>1
    <3> QED BY <2>3, <3>1
  <2> QED BY <2>3, <2>4, <2>5
<1>4. RemoveAt(s, i) = a \o b
  BY DEF RemoveAt
<1> HIDE DEF a, b
<1>5. /\ a \o b \in Seq(PlItems) /\ Len(a \o b) = Len(a) + Len(b)
      /\ \A k \in 1..(Len(a) + Len(b)) : (a \o b)[k] = IF k <= Len(a) THEN a[k] ELSE b[k - Len(a)]
  BY <1>2, <1>3, ConcatProperties
<1>6. ASSUME NEW k \in 1..(Len(s) - 1) PROVE RemoveAt(s, i)[k] = IF k < i THEN s[k] ELSE s[k + 1]
  <2>1. (a \o b)[k] = IF k <= i - 1 THEN a[k] ELSE b[k - (i - 1)]
    BY <1>1, <1>2, <1>3, <1>5
  <2>2. CASE k < i
    BY <1>1, <1>2, <1>4, <2>1, <2>2
  <2>3. CASE ~(k < i)
    <3>1. k - (i - 1) \in 1..(Len(s) - i) /\ i + (k - (i - 1)) = k + 1 /\ ~(k <= i - 1)
      BY <1>1, <2>3
    <3>2. b[k - (i - 1)] = s[k + 1]
      BY <1>3, <3>1
    <3> QED BY <1>4, <2>1, <2>3, <3>1, <3>2
  <2> QED BY <2>2, <2>3
<1>7. Len(RemoveAt(s, i)) = Len(s) - 1
  BY <1>1, <1>2, <1>3, <1>4, <1>5
<1> QED BY <1>4, <1>5, <1>6, <1>7

(* What an edit may do to the items: the same ones, or one of them less.   *)
SameItems(s, t) == Len(t) = Len(s) /\ Ids(t) = Ids(s) /\ (Once(s) => Once(t))

LEMMA ItemGone ==
  ASSUME NEW s \in Seq(PlItems), NEW i \in 1..Len(s), Once(s)
  PROVE  Once(RemoveAt(s, i)) /\ Ids(RemoveAt(s, i)) = Ids(s) \ {s[i].id}
<1> DEFINE r == RemoveAt(s, i)
<1>1. Len(s) \in Nat /\ i \in Nat /\ i >= 1 /\ i <= Len(s) /\ DOMAIN s = 1..Len(s)
  OBVIOUS
<1>2. DOMAIN r = 1..(Len(s) - 1) /\ \A k \in 1..(Len(s) - 1) : r[k] = IF k < i THEN s[k] ELSE s[k + 1]
  BY <1>1, ItemRemoved
<1> HIDE DEF r
<1> DEFINE at(k) == IF k < i THEN k ELSE k + 1
<1>3. \A k \in 1..(Len(s) - 1) : at(k) \in 1..Len(s) /\ at(k) # i /\ r[k] = s[at(k)]
  BY <1>1, <1>2
<1>4. \A j, k \in 1..(Len(s) - 1) : at(j) = at(k) => j = k
  BY <1>1
<1>5. \A j \in 1..Len(s) : j # i => \E k \in 1..(Len(s) - 1) : at(k) = j
  <2> TAKE j \in 1..Len(s)
  <2> HAVE j # i
  <2>1. CASE j < i
    <3>1. j \in 1..(Len(s) - 1) /\ at(j) = j
      BY <1>1, <2>1
    <3> QED BY <3>1
  <2>2. CASE j > i
    <3>1. j - 1 \in 1..(Len(s) - 1) /\ at(j - 1) = j
      BY <1>1, <2>2
    <3> QED BY <3>1
  <2> QED BY <1>1, <2>1, <2>2
<1> HIDE DEF at
<1>6. Once(r)
  BY <1>1, <1>2, <1>3, <1>4 DEF Once
<1>7. Ids(r) \subseteq Ids(s) \ {s[i].id}
  <2> SUFFICES ASSUME NEW k \in 1..(Len(s) - 1) PROVE r[k].id \in Ids(s) /\ r[k].id # s[i].id
    BY <1>2 DEF Ids
  <2> QED BY <1>1, <1>3 DEF Ids, Once
<1>8. Ids(s) \ {s[i].id} \subseteq Ids(r)
  <2> SUFFICES ASSUME NEW j \in 1..Len(s), j # i PROVE s[j].id \in Ids(r)
    BY <1>1 DEF Ids
  <2>1. PICK k \in 1..(Len(s) - 1) : at(k) = j
    BY <1>5
  <2> QED BY <1>2, <1>3, <2>1 DEF Ids
<1> QED BY <1>6, <1>7, <1>8 DEF r

LEMMA ItemsReordered ==
  ASSUME NEW pl \in Playlists, NEW i \in Nat
  PROVE  reorder(pl, i) \in Playlists /\ SameItems(pl.items, reorder(pl, i).items)
<1> DEFINE s == pl.items
           t == [[s EXCEPT ![i] = s[i + 1]] EXCEPT ![i + 1] = s[i]]
<1>1. s \in Seq(PlItems) /\ pl.shuffle \in BOOLEAN /\ pl.images \in BOOLEAN /\ Len(s) \in Nat
      /\ DOMAIN s = 1..Len(s)
  BY DEF Playlists
<1>2. CASE InList(pl, i) /\ InList(pl, i + 1)
  <2>1. i \in 1..Len(s) /\ i + 1 \in 1..Len(s)
    BY <1>2 DEF InList
  <2>2. /\ t \in Seq(PlItems) /\ DOMAIN t = 1..Len(s) /\ Len(t) = Len(s)
        /\ t[i] = s[i + 1] /\ t[i + 1] = s[i]
        /\ \A k \in 1..Len(s) : k # i /\ k # i + 1 => t[k] = s[k]
    BY <1>1, <2>1
  <2>3. reorder(pl, i) = [pl EXCEPT !.items = t]
    BY <1>2 DEF reorder, Playlists
  <2> HIDE DEF t
  <2>4. reorder(pl, i) \in Playlists /\ reorder(pl, i).items = t
    BY <1>1, <2>2, <2>3 DEF Playlists
  <2> HIDE DEF s
  <2>5. Ids(t) = Ids(s)
    <3>1. \A k \in 1..Len(s) : \E j \in 1..Len(s) : t[k] = s[j]
      BY <2>1, <2>2
    <3>2. \A k \in 1..Len(s) : \E j \in 1..Len(s) : s[k] = t[j]
      BY <2>1, <2>2
    <3>3. \A k \in 1..Len(s) : t[k].id \in Ids(s)
      <4> TAKE k \in 1..Len(s)
      <4>1. PICK j \in 1..Len(s) : t[k] = s[j]
        BY <3>1
      <4> QED BY <1>1, <4>1 DEF Ids
    <3>4. \A k \in 1..Len(s) : s[k].id \in Ids(t)
      <4> TAKE k \in 1..Len(s)
      <4>1. PICK j \in 1..Len(s) : s[k] = t[j]
        BY <3>2
      <4> QED BY <2>2, <4>1 DEF Ids
    <3> QED BY <1>1, <2>2, <3>3, <3>4 DEF Ids
  <2>6. Once(s) => Once(t)
    BY <1>1, <2>1, <2>2 DEF Once
  <2>7. SameItems(s, t)
    BY <2>2, <2>5, <2>6 DEF SameItems
  <2> QED BY <2>4, <2>7 DEF s
<1>3. CASE ~(InList(pl, i) /\ InList(pl, i + 1))
  BY <1>3 DEF reorder, SameItems
<1> QED BY <1>2, <1>3

LEMMA ItemUpdated ==
  ASSUME NEW pl \in Playlists, NEW i \in Nat
  PROVE  updateItem(pl, i) \in Playlists /\ SameItems(pl.items, updateItem(pl, i).items)
<1> DEFINE s == pl.items
           t == [s EXCEPT ![i].long = ~@]
<1>1. s \in Seq(PlItems) /\ pl.shuffle \in BOOLEAN /\ pl.images \in BOOLEAN /\ Len(s) \in Nat
      /\ DOMAIN s = 1..Len(s) /\ \A k \in 1..Len(s) : s[k] \in PlItems
  BY DEF Playlists
<1>2. CASE InList(pl, i)
  <2>1. i \in 1..Len(s)
    BY <1>2 DEF InList
  <2>2. [s[i] EXCEPT !.long = ~@] \in PlItems /\ [s[i] EXCEPT !.long = ~@].id = s[i].id
    BY <1>1, <2>1 DEF PlItems
  <2>3. /\ t \in Seq(PlItems) /\ DOMAIN t = 1..Len(s) /\ Len(t) = Len(s)
        /\ \A k \in 1..Len(s) : t[k].id = s[k].id
    BY <1>1, <2>1, <2>2
  <2>4. updateItem(pl, i) = [pl EXCEPT !.items = t]
    BY <1>2 DEF updateItem, Playlists
  <2> HIDE DEF t
  <2>5. updateItem(pl, i) \in Playlists /\ updateItem(pl, i).items = t
    BY <1>1, <2>3, <2>4 DEF Playlists
  <2> HIDE DEF s
  <2>6. SameItems(s, t)
    BY <1>1, <2>3 DEF SameItems, Ids, Once
  <2> QED BY <2>5, <2>6 DEF s
<1>3. CASE ~InList(pl, i)
  BY <1>3 DEF updateItem, SameItems
<1> QED BY <1>2, <1>3

LEMMA SettingsChanged ==
  ASSUME NEW pl \in Playlists, NEW i
  PROVE  /\ settings(pl, i) \in Playlists /\ settings(pl, i).items = pl.items
         /\ groupSettings(pl, i) \in Playlists /\ groupSettings(pl, i).items = pl.items
BY DEF settings, groupSettings, Playlists

LEMMA ItemTaken ==
  ASSUME NEW pl \in Playlists, NEW i \in Nat
  PROVE  /\ removeItem(pl, i) \in Playlists
         /\ removeItem(pl, i) # pl =>
              /\ i \in 1..Len(pl.items) /\ Len(removeItem(pl, i).items) = Len(pl.items) - 1
              /\ Once(pl.items) => /\ Once(removeItem(pl, i).items)
                                  /\ Ids(removeItem(pl, i).items) = Ids(pl.items) \ {pl.items[i].id}
<1>1. pl.items \in Seq(PlItems) /\ pl.shuffle \in BOOLEAN /\ pl.images \in BOOLEAN
  BY DEF Playlists
<1>2. CASE i \in 1..Len(pl.items)
  <2> DEFINE s == RemoveAt(pl.items, i)
  <2>1. s \in Seq(PlItems) /\ Len(s) = Len(pl.items) - 1
    BY <1>1, <1>2, ItemRemoved
  <2>2. Once(pl.items) => Once(s) /\ Ids(s) = Ids(pl.items) \ {pl.items[i].id}
    BY <1>1, <1>2, ItemGone
  <2>3. removeItem(pl, i) = [pl EXCEPT !.items = s]
    BY <1>2 DEF removeItem, InList
  <2> HIDE DEF s
  <2>4. removeItem(pl, i) \in Playlists /\ removeItem(pl, i).items = s
    BY <1>1, <2>1, <2>3 DEF Playlists
  <2> QED BY <1>2, <2>1, <2>2, <2>4
<1>3. CASE i \notin 1..Len(pl.items)
  BY <1>3 DEF removeItem, InList
<1> QED BY <1>2, <1>3

(* Every form keeps the items, but the removal, which takes one.           *)
LEMMA EditKeeps ==
  ASSUME NEW op \in {"settings", "reorder", "remove", "item"}, NEW o, NEW pl \in Playlists, NEW i \in Nat
  PROVE  /\ Edited(op, o, pl, i) \in Playlists
         /\ op # "remove" => SameItems(pl.items, Edited(op, o, pl, i).items)
         /\ op = "remove" => Edited(op, o, pl, i) = removeItem(pl, i)
<1>1. CASE op = "settings"
  <2>1. Edited(op, o, pl, i) \in {settings(pl, i), groupSettings(pl, i)}
    BY <1>1 DEF Edited
  <2>2. SameItems(pl.items, pl.items)
    BY DEF SameItems
  <2> QED BY <1>1, <2>1, <2>2, SettingsChanged
<1>2. CASE op = "reorder"
  <2>1. Edited(op, o, pl, i) = reorder(pl, i)
    BY <1>2 DEF Edited, groupReorder
  <2> QED BY <1>2, <2>1, ItemsReordered
<1>3. CASE op = "remove"
  <2>1. Edited(op, o, pl, i) = removeItem(pl, i)
    BY <1>3 DEF Edited, groupRemoveItem
  <2> QED BY <1>3, <2>1, ItemTaken
<1>4. CASE op = "item"
  <2>1. Edited(op, o, pl, i) = updateItem(pl, i)
    BY <1>4 DEF Edited
  <2> QED BY <1>4, <2>1, ItemUpdated
<1> QED BY <1>1, <1>2, <1>3, <1>4

LEMMA PlaylistPosted ==
  ASSUME ScreensInv, NEW q \in AsReqs, NEW o \in Owners, NEW op \in {"settings", "reorder", "remove", "item"},
         NEW i \in 1..2, postEdit(q, o, op, i)
  PROVE  ScreensInv' /\ TokensKept
<1> DEFINE rq == [op |-> "edit", pc |-> "get", owner |-> o, what |-> op, i |-> i, pl |-> EmptyList, ver |-> 0]
<1>1. asReq[q] = FreeReq /\ asReq' = [asReq EXCEPT ![q] = rq]
      /\ UNCHANGED <<asRows, asIds, asRemote, asStale, asList, asVer, asWant, asClash>>
  BY DEF postEdit, Arrive, localVars, serviceVars
<1>2. EmptyList \in Playlists
  BY DEF EmptyList, Playlists
<1>3. rq \in EditReqs /\ rq.op = "edit" /\ rq.pc = "get"
  BY <1>2 DEF EditReqs
<1> HIDE DEF rq
<1>4. HoldsPresent(rq) /\ EditTrue(rq) /\ rq \in ScreenReqs
  BY <1>3, PlainReqs DEF EditTrue, ScreenReqs
<1>5. asReq[q].op # "delete"
  BY <1>1, PlainReqs
<1> QED BY <1>1, <1>4, <1>5, ReqMoves

LEMMA PlaylistRead ==
  ASSUME ScreensInv, NEW q \in AsReqs, getPlaylist(q)
  PROVE  ScreensInv' /\ TokensKept
<1>1. /\ asReq[q].op = "edit"
      /\ UNCHANGED <<asRows, asIds, asRemote, asStale, asList, asVer, asWant, asClash>>
  BY DEF getPlaylist, At, localVars, serviceVars
<1>2. asReq[q] \in EditReqs
  BY <1>1, ReqKinds DEF ScreensInv
<1> DEFINE o == asReq[q].owner
           rq == [asReq[q] EXCEPT !.pc = "put", !.pl = asList[o], !.ver = asVer[o]]
<1>3. o \in Owners
  BY <1>2 DEF EditReqs
<1>4. asList[o] \in Playlists /\ asVer[o] \in Nat
  BY <1>3 DEF ScreensInv, ListsInv
<1>5. CASE asReq' = [asReq EXCEPT ![q] = rq]
  <2>1. /\ rq \in EditReqs /\ rq.op = "edit" /\ rq.owner = o /\ rq.pl = asList[o] /\ rq.ver = asVer[o]
    BY <1>2, <1>4 DEF EditReqs
  <2> HIDE DEF rq, o
  <2>2. EditTrue(rq)
    BY <1>4, <2>1 DEF EditTrue
  <2>3. HoldsPresent(rq) /\ rq \in ScreenReqs
    BY <2>1, PlainReqs DEF ScreenReqs
  <2> QED BY <1>1, <1>5, <2>2, <2>3, ReqMoves
<1>6. CASE asReq' = [asReq EXCEPT ![q] = FreeReq]
  BY <1>1, <1>6, ReqEnds
<1> QED BY <1>5, <1>6 DEF getPlaylist, apiFetch, To

LEMMA PlaylistSaved ==
  ASSUME ScreensInv, NEW q \in AsReqs, savePlaylist(q)
  PROVE  ScreensInv' /\ TokensKept
<1> DEFINE o == asReq[q].owner
           pl == asReq[q].pl
           i == asReq[q].i
           what == asReq[q].what
           new == Edited(what, o, pl, i)
<1>1. /\ asReq[q].op = "edit" /\ asReq[q].pc = "put" /\ asReq' = [asReq EXCEPT ![q] = FreeReq]
      /\ UNCHANGED <<asRows, asIds, asRemote, asStale>>
      /\ \/ UNCHANGED <<asList, asVer, asClash, asWant>>
         \/ /\ new # pl
            /\ asList' = [asList EXCEPT ![o] = new]
            /\ asVer' = [asVer EXCEPT ![o] = @ + 1]
            /\ asClash' = (asClash \/ asVer[o] # asReq[q].ver)
            /\ asWant' = IF what = "remove" THEN [asWant EXCEPT ![o] = @ \ {pl.items[i].id}] ELSE asWant
  BY DEF savePlaylist, At, To, localVars
<1>2. asReq[q] \in EditReqs
  BY <1>1, ReqKinds DEF ScreensInv
<1>3. o \in Owners /\ pl \in Playlists /\ i \in Nat /\ what \in {"settings", "reorder", "remove", "item"}
  BY <1>2 DEF EditReqs
<1>4. asReq[q].ver = asVer[o] => pl = asList[o]
  BY <1>1 DEF ScreensInv, ListsInv, EditTrue
<1>5. /\ new \in Playlists
      /\ what # "remove" => SameItems(pl.items, new.items)
      /\ what = "remove" => new = removeItem(pl, i)
  BY <1>3, EditKeeps
<1>6. /\ asVer[o] \in Nat /\ asWant[o] \in SUBSET Nat /\ asWant[o] \subseteq 1..asVer[o]
      /\ ~asClash => /\ Once(asList[o].items) /\ Ids(asList[o].items) = asWant[o]
                     /\ Len(asList[o].items) = Cardinality(asWant[o])
  BY <1>3 DEF ScreensInv, ListsInv
<1>7. CASE UNCHANGED <<asList, asVer, asClash, asWant>>
  BY <1>1, <1>7, ReqEnds
<1>8. CASE /\ new # pl
           /\ asList' = [asList EXCEPT ![o] = new]
           /\ asVer' = [asVer EXCEPT ![o] = @ + 1]
           /\ asClash' = (asClash \/ asVer[o] # asReq[q].ver)
           /\ asWant' = IF what = "remove" THEN [asWant EXCEPT ![o] = @ \ {pl.items[i].id}] ELSE asWant
  <2> HIDE DEF new, what
  <2>1. ReqsTyped' /\ asReq'[q] = FreeReq /\ \A p \in AsReqs \ {q} : asReq'[p] = asReq[p]
    BY <1>1, PlainReqs, ReqGoesOn DEF ScreensInv
  <2>2. RowsInv' /\ TokensKept
    BY <1>1 DEF ScreensInv, RowsInv, TokensKept
  <2>3. RemoteInv'
    <3>1. \A s : Present(s)' <=> Present(s)
      BY <1>1 DEF Present
    <3>2. HeldPresent'
      BY <1>1, <2>1, <3>1, PlainReqs DEF ScreensInv, RemoteInv, HeldPresent, HoldsPresent
    <3>3. NoGhostRow'
      BY <1>1, <2>1, <3>1 DEF ScreensInv, RemoteInv, NoGhostRow
    <3> QED BY <1>1, <3>2, <3>3 DEF ScreensInv, RemoteInv
  <2>4. /\ asList' \in [Owners -> Playlists] /\ asVer' \in [Owners -> Nat] /\ asWant' \in [Owners -> SUBSET Nat]
        /\ asList'[o] = new /\ asVer'[o] = asVer[o] + 1
        /\ asWant'[o] = IF what = "remove" THEN asWant[o] \ {pl.items[i].id} ELSE asWant[o]
        /\ \A u \in Owners \ {o} : asList'[u] = asList[u] /\ asVer'[u] = asVer[u] /\ asWant'[u] = asWant[u]
    <3>1. asList \in [Owners -> Playlists] /\ asVer \in [Owners -> Nat] /\ asWant \in [Owners -> SUBSET Nat]
      BY DEF ScreensInv, ListsInv
    <3> HIDE DEF o, pl, i
    <3>2. /\ asList' \in [Owners -> Playlists] /\ asList'[o] = new
          /\ \A u \in Owners \ {o} : asList'[u] = asList[u]
      BY <1>3, <1>5, <1>8, <3>1
    <3>3. /\ asVer' \in [Owners -> Nat] /\ asVer'[o] = asVer[o] + 1
          /\ \A u \in Owners \ {o} : asVer'[u] = asVer[u]
      BY <1>3, <1>6, <1>8, <3>1
    <3>4. /\ asWant' \in [Owners -> SUBSET Nat]
          /\ asWant'[o] = IF what = "remove" THEN asWant[o] \ {pl.items[i].id} ELSE asWant[o]
          /\ \A u \in Owners \ {o} : asWant'[u] = asWant[u]
      <4>1. CASE what = "remove"
        <5> DEFINE less == asWant[o] \ {pl.items[i].id}
        <5>1. asWant' = [asWant EXCEPT ![o] = less] /\ less \in SUBSET Nat
          BY <1>6, <1>8, <4>1
        <5> HIDE DEF less
        <5>2. asWant' \in [Owners -> SUBSET Nat] /\ asWant'[o] = less
              /\ \A u \in Owners \ {o} : asWant'[u] = asWant[u]
          BY <1>3, <3>1, <5>1
        <5> QED BY <4>1, <5>2 DEF less
      <4>2. CASE what # "remove"
        BY <1>8, <3>1, <4>2
      <4> QED BY <4>1, <4>2
    <3> QED BY <3>2, <3>3, <3>4
  <2>5. \A u \in Owners : asWant'[u] \subseteq 1..asVer'[u]
    <3>1. asWant'[o] \subseteq 1..(asVer[o] + 1)
      BY <1>6, <2>4
    <3> QED BY <2>4, <3>1 DEF ScreensInv, ListsInv
  <2>6. ASSUME ~asClash'
        PROVE  Once(new.items) /\ Ids(new.items) = asWant'[o] /\ Len(new.items) = Cardinality(asWant'[o])
    <3>1. pl = asList[o] /\ ~asClash
      BY <1>4, <1>8, <2>6
    <3>2. Once(pl.items) /\ Ids(pl.items) = asWant[o] /\ Len(pl.items) = Cardinality(asWant[o])
      BY <1>6, <3>1
    <3>3. CASE what # "remove"
      BY <1>5, <2>4, <3>2, <3>3 DEF SameItems
    <3>4. CASE what = "remove"
      <4>1. /\ i \in 1..Len(pl.items) /\ Len(new.items) = Len(pl.items) - 1
            /\ Once(new.items) /\ Ids(new.items) = Ids(pl.items) \ {pl.items[i].id}
        BY <1>3, <1>5, <1>8, <3>2, <3>4, ItemTaken
      <4>2. pl.items[i].id \in asWant[o]
        BY <1>3, <3>2, <4>1 DEF Ids, Playlists
      <4>3. IsFiniteSet(asWant[o])
        <5>1. 1 \in Int /\ asVer[o] \in Int
          BY <1>6
        <5>2. IsFiniteSet(1..asVer[o])
          BY <5>1, FS_Interval
        <5> QED BY <1>6, <5>2, FS_Subset
      <4>4. Cardinality(asWant[o] \ {pl.items[i].id}) = Cardinality(asWant[o]) - 1
        BY <4>2, <4>3, FS_RemoveElement
      <4> QED BY <2>4, <3>2, <3>4, <4>1, <4>4
    <3> QED BY <3>3, <3>4
  <2>7. ~asClash' => \A u \in Owners :
          /\ Once(asList'[u].items) /\ Ids(asList'[u].items) = asWant'[u]
          /\ Len(asList'[u].items) = Cardinality(asWant'[u])
    <3>1. ASSUME ~asClash', NEW u \in Owners \ {o}
          PROVE  /\ Once(asList'[u].items) /\ Ids(asList'[u].items) = asWant'[u]
                 /\ Len(asList'[u].items) = Cardinality(asWant'[u])
      BY <1>8, <2>4, <3>1 DEF ScreensInv, ListsInv
    <3> QED BY <2>4, <2>6, <3>1
  <2>8. \A p \in AsReqs : EditTrue(asReq[p])'
    <3> SUFFICES ASSUME NEW p \in AsReqs, p # q, asReq[p].op = "edit", asReq[p].pc = "put"
                 PROVE  /\ asReq[p].ver <= asVer'[asReq[p].owner]
                        /\ asReq[p].ver = asVer'[asReq[p].owner] => asReq[p].pl = asList'[asReq[p].owner]
      BY <2>1, PlainReqs DEF EditTrue
    <3>1. asReq[p].ver \in Nat /\ asReq[p].owner \in Owners
      BY ReqKinds DEF ScreensInv, EditReqs
    <3>2. /\ asReq[p].ver <= asVer[asReq[p].owner]
          /\ asReq[p].ver = asVer[asReq[p].owner] => asReq[p].pl = asList[asReq[p].owner]
      BY DEF ScreensInv, ListsInv, EditTrue
    <3>3. CASE asReq[p].owner = o
      BY <1>6, <2>4, <3>1, <3>2, <3>3
    <3>4. CASE asReq[p].owner # o
      BY <2>4, <3>1, <3>2, <3>4
    <3> QED BY <3>3, <3>4
  <2>9. ListsInv'
    BY <2>4, <2>5, <2>7, <2>8 DEF ListsInv
  <2> QED BY <2>1, <2>2, <2>3, <2>9 DEF ScreensInv
<1> QED BY <1>1, <1>7, <1>8

(* A new item at either end: the others stay, once each.                   *)
LEMMA ItemAdded ==
  ASSUME NEW s \in Seq(PlItems), NEW it \in PlItems,
         NEW t \in {<<it>> \o s, Append(s, it)}
  PROVE  /\ t \in Seq(PlItems) /\ Len(t) = Len(s) + 1 /\ Ids(t) = Ids(s) \cup {it.id}
         /\ Once(s) /\ it.id \notin Ids(s) => Once(t)
<1>1. Len(s) \in Nat /\ DOMAIN s = 1..Len(s)
  OBVIOUS
<1>2. PICK n \in 1..(Len(s) + 1) :
        /\ t \in Seq(PlItems) /\ Len(t) = Len(s) + 1
        /\ \A k \in 1..(Len(s) + 1) : t[k] = IF k = n THEN it ELSE s[IF k < n THEN k ELSE k - 1]
  <2>1. CASE t = Append(s, it)
    <3>1. \A k \in 1..(Len(s) + 1) : k = Len(s) + 1 \/ (k \in 1..Len(s) /\ k < Len(s) + 1)
      BY <1>1
    <3>2. /\ t \in Seq(PlItems) /\ Len(t) = Len(s) + 1 /\ t[Len(s) + 1] = it
          /\ \A k \in 1..Len(s) : t[k] = s[k]
      BY <2>1, AppendProperties
    <3>3. Len(s) + 1 \in 1..(Len(s) + 1)
      BY <1>1
    <3> QED BY <1>1, <3>1, <3>2, <3>3
  <2>2. CASE t = <<it>> \o s
    <3>1. <<it>> \in Seq(PlItems) /\ Len(<<it>>) = 1 /\ <<it>>[1] = it
      OBVIOUS
    <3>2. /\ t \in Seq(PlItems) /\ Len(t) = 1 + Len(s)
          /\ \A k \in 1..(1 + Len(s)) : t[k] = IF k <= 1 THEN <<it>>[k] ELSE s[k - 1]
      BY <2>2, <3>1, ConcatProperties
    <3>3. 1 \in 1..(Len(s) + 1) /\ Len(t) = Len(s) + 1
      BY <1>1, <3>2
    <3>4. \A k \in 1..(Len(s) + 1) : t[k] = IF k = 1 THEN it ELSE s[IF k < 1 THEN k ELSE k - 1]
      BY <1>1, <3>1, <3>2
    <3> QED BY <3>2, <3>3, <3>4
  <2> QED BY <2>1, <2>2
<1> DEFINE at(k) == IF k < n THEN k ELSE k - 1
<1>3. DOMAIN t = 1..(Len(s) + 1) /\ t[n] = it
  BY <1>1, <1>2
<1>4. \A k \in 1..(Len(s) + 1) : k # n => at(k) \in 1..Len(s) /\ t[k] = s[at(k)]
  BY <1>1, <1>2
<1>5. \A j, k \in 1..(Len(s) + 1) : j # n /\ k # n /\ at(j) = at(k) => j = k
  BY <1>1, <1>2
<1>6. \A j \in 1..Len(s) : \E k \in 1..(Len(s) + 1) : k # n /\ at(k) = j
  <2> TAKE j \in 1..Len(s)
  <2>1. CASE j < n
    <3>1. j \in 1..(Len(s) + 1) /\ j # n /\ at(j) = j
      BY <1>1, <1>2, <2>1
    <3> QED BY <3>1
  <2>2. CASE ~(j < n)
    <3>1. j + 1 \in 1..(Len(s) + 1) /\ j + 1 # n /\ at(j + 1) = j
      BY <1>1, <1>2, <2>2
    <3> QED BY <3>1
  <2> QED BY <2>1, <2>2
<1> HIDE DEF at
<1>7. Ids(t) \subseteq Ids(s) \cup {it.id}
  <2> SUFFICES ASSUME NEW k \in 1..(Len(s) + 1) PROVE t[k].id \in Ids(s) \cup {it.id}
    BY <1>3 DEF Ids
  <2> QED BY <1>1, <1>3, <1>4 DEF Ids
<1>8. Ids(s) \cup {it.id} \subseteq Ids(t)
  <2>1. it.id \in Ids(t)
    BY <1>2, <1>3 DEF Ids
  <2>2. ASSUME NEW j \in 1..Len(s) PROVE s[j].id \in Ids(t)
    <3>1. PICK k \in 1..(Len(s) + 1) : k # n /\ at(k) = j
      BY <1>6
    <3> QED BY <1>3, <1>4, <3>1 DEF Ids
  <2> QED BY <1>1, <2>1, <2>2 DEF Ids
<1>9. ASSUME Once(s), it.id \notin Ids(s) PROVE Once(t)
  <2> SUFFICES ASSUME NEW j \in 1..(Len(s) + 1), NEW k \in 1..(Len(s) + 1), t[j].id = t[k].id PROVE j = k
    BY <1>3 DEF Once
  <2>1. \A l \in 1..(Len(s) + 1) : l # n => t[l].id \in Ids(s)
    BY <1>1, <1>4 DEF Ids
  <2>2. CASE j = n \/ k = n
    BY <1>3, <1>9, <2>1, <2>2
  <2>3. CASE j # n /\ k # n
    BY <1>1, <1>4, <1>5, <1>9, <2>3 DEF Once
  <2> QED BY <2>2, <2>3
<1> QED BY <1>2, <1>7, <1>8, <1>9

LEMMA PlaylistGrows ==
  ASSUME ScreensInv, NEW o \in Owners, NEW atStart \in BOOLEAN, Add(o, atStart)
  PROVE  ScreensInv' /\ TokensKept
<1> DEFINE it == [id |-> asVer[o] + 1, long |-> FALSE]
           s == asList[o].items
           t == IF atStart THEN <<it>> \o s ELSE Append(s, it)
<1>1. /\ UNCHANGED <<asReq, asRows, asIds, asRemote, asStale, asClash>>
      /\ asList' = [asList EXCEPT ![o].items = t]
      /\ asWant' = [asWant EXCEPT ![o] = @ \cup {it.id}]
      /\ asVer' = [asVer EXCEPT ![o] = @ + 1]
  BY DEF Add, localVars
<1>2. /\ asVer[o] \in Nat /\ asWant[o] \in SUBSET Nat /\ asWant[o] \subseteq 1..asVer[o]
      /\ asList[o] \in Playlists
      /\ ~asClash => Once(s) /\ Ids(s) = asWant[o] /\ Len(s) = Cardinality(asWant[o])
  BY DEF ScreensInv, ListsInv
<1>3. it \in PlItems /\ it.id = asVer[o] + 1
  BY <1>2 DEF PlItems
<1>4. s \in Seq(PlItems)
  BY <1>2 DEF Playlists
<1>5. t \in {<<it>> \o s, Append(s, it)}
  OBVIOUS
<1> HIDE DEF it, t
<1>6. /\ t \in Seq(PlItems) /\ Len(t) = Len(s) + 1 /\ Ids(t) = Ids(s) \cup {it.id}
      /\ Once(s) /\ it.id \notin Ids(s) => Once(t)
  BY <1>3, <1>4, <1>5, ItemAdded
<1>7. [asList[o] EXCEPT !.items = t] \in Playlists /\ [asList[o] EXCEPT !.items = t].items = t
  BY <1>2, <1>6 DEF Playlists
<1> DEFINE new == [asList[o] EXCEPT !.items = t]
           more == asWant[o] \cup {it.id}
<1>8. asList' = [asList EXCEPT ![o] = new] /\ asWant' = [asWant EXCEPT ![o] = more]
  BY <1>1
<1>9. more \in SUBSET Nat /\ more \subseteq 1..(asVer[o] + 1)
  BY <1>2, <1>3
<1> HIDE DEF new, more
<1>10. /\ asList' \in [Owners -> Playlists] /\ asVer' \in [Owners -> Nat] /\ asWant' \in [Owners -> SUBSET Nat]
       /\ asList'[o] = new /\ asVer'[o] = asVer[o] + 1 /\ asWant'[o] = more
       /\ \A u \in Owners \ {o} : asList'[u] = asList[u] /\ asVer'[u] = asVer[u] /\ asWant'[u] = asWant[u]
  <2>1. asList \in [Owners -> Playlists] /\ asVer \in [Owners -> Nat] /\ asWant \in [Owners -> SUBSET Nat]
    BY DEF ScreensInv, ListsInv
  <2>2. new \in Playlists
    BY <1>7 DEF new
  <2>3. asList' \in [Owners -> Playlists] /\ asList'[o] = new /\ \A u \in Owners \ {o} : asList'[u] = asList[u]
    BY <1>8, <2>1, <2>2
  <2>4. asVer' \in [Owners -> Nat] /\ asVer'[o] = asVer[o] + 1 /\ \A u \in Owners \ {o} : asVer'[u] = asVer[u]
    BY <1>1, <1>2, <2>1
  <2>5. /\ asWant' \in [Owners -> SUBSET Nat] /\ asWant'[o] = more
        /\ \A u \in Owners \ {o} : asWant'[u] = asWant[u]
    BY <1>8, <1>9, <2>1
  <2> QED BY <2>3, <2>4, <2>5
<1>11. \A u \in Owners : asWant'[u] \subseteq 1..asVer'[u]
  BY <1>9, <1>10 DEF ScreensInv, ListsInv
<1>12. ASSUME ~asClash PROVE Once(new.items) /\ Ids(new.items) = more /\ Len(new.items) = Cardinality(more)
  <2>1. it.id \notin asWant[o]
    BY <1>2, <1>3
  <2>2. IsFiniteSet(asWant[o])
    <3>1. 1 \in Int /\ asVer[o] \in Int
      BY <1>2
    <3>2. IsFiniteSet(1..asVer[o])
      BY <3>1, FS_Interval
    <3> QED BY <1>2, <3>2, FS_Subset
  <2>3. Cardinality(more) = Cardinality(asWant[o]) + 1
    BY <2>1, <2>2, FS_AddElement DEF more
  <2>4. new.items = t
    BY <1>7 DEF new
  <2>5. Once(s) /\ Ids(s) = asWant[o] /\ Len(s) = Cardinality(asWant[o])
    BY <1>2, <1>12
  <2> QED BY <1>6, <2>1, <2>3, <2>4, <2>5 DEF more
<1>13. ~asClash' => \A u \in Owners :
          /\ Once(asList'[u].items) /\ Ids(asList'[u].items) = asWant'[u]
          /\ Len(asList'[u].items) = Cardinality(asWant'[u])
  <2>1. ASSUME ~asClash', NEW u \in Owners \ {o}
        PROVE  /\ Once(asList'[u].items) /\ Ids(asList'[u].items) = asWant'[u]
               /\ Len(asList'[u].items) = Cardinality(asWant'[u])
    BY <1>1, <1>10, <2>1 DEF ScreensInv, ListsInv
  <2> QED BY <1>1, <1>10, <1>12, <2>1
<1>14. \A p \in AsReqs : EditTrue(asReq[p])'
  <2> SUFFICES ASSUME NEW p \in AsReqs, asReq[p].op = "edit", asReq[p].pc = "put"
               PROVE  /\ asReq[p].ver <= asVer'[asReq[p].owner]
                      /\ asReq[p].ver = asVer'[asReq[p].owner] => asReq[p].pl = asList'[asReq[p].owner]
    BY <1>1 DEF EditTrue
  <2>1. asReq[p].ver \in Nat /\ asReq[p].owner \in Owners
    BY ReqKinds DEF ScreensInv, EditReqs
  <2>2. /\ asReq[p].ver <= asVer[asReq[p].owner]
        /\ asReq[p].ver = asVer[asReq[p].owner] => asReq[p].pl = asList[asReq[p].owner]
    BY DEF ScreensInv, ListsInv, EditTrue
  <2>3. CASE asReq[p].owner = o
    BY <1>2, <1>10, <2>1, <2>2, <2>3
  <2>4. CASE asReq[p].owner # o
    BY <1>10, <2>1, <2>2, <2>4
  <2> QED BY <2>3, <2>4
<1>15. ListsInv'
  BY <1>10, <1>11, <1>13, <1>14 DEF ListsInv
<1>16. RowsInv' /\ TokensKept
  BY <1>1 DEF ScreensInv, RowsInv, TokensKept
<1>17. RemoteInv'
  BY <1>1 DEF ScreensInv, RemoteInv, HeldPresent, HoldsPresent, NoGhostRow, Present
<1>18. ReqsTyped'
  BY <1>1 DEF ScreensInv, ReqsTyped
<1> QED BY <1>15, <1>16, <1>17, <1>18 DEF ScreensInv

(* Content is no table the invariant is about.                             *)
LEMMA ContentChanged ==
  ASSUME ScreensInv, UNCHANGED <<asReq, asRows, asIds, asRemote, asStale, asList, asVer, asWant, asClash>>
  PROVE  ScreensInv' /\ TokensKept
<1>1. RowsInv' /\ TokensKept
  BY DEF ScreensInv, RowsInv, TokensKept
<1>2. \A n \in asRows' : \E r \in asRows : r.id = n.id /\ r.scr = n.scr
  OBVIOUS
<1> QED BY <1>1, <1>2, RowsStand

LEMMA UploadMoves ==
  ASSUME ScreensInv, NEW q \in AsReqs, initMediaUpload(q) \/ putMedia(q) \/ finishMediaUpload(q)
  PROVE  ScreensInv' /\ TokensKept
<1>1. /\ asReq[q].op # "delete"
      /\ UNCHANGED <<asRows, asIds, asRemote, asStale, asList, asVer, asWant, asClash>>
  BY DEF initMediaUpload, putMedia, finishMediaUpload, Arrive, At, FreeReq, localVars, serviceVars
<1>2. CASE asReq' = [asReq EXCEPT ![q] = FreeReq]
  BY <1>1, <1>2, ReqEnds
<1>3. CASE asReq' = [asReq EXCEPT ![q] = [op |-> "upload", pc |-> "put"]]
  <2>1. [op |-> "upload", pc |-> "put"] \in UploadReqs
    BY DEF UploadReqs
  <2>2. [op |-> "upload", pc |-> "put"] \in ScreenReqs
    BY <2>1 DEF ScreenReqs
  <2>3. HoldsPresent([op |-> "upload", pc |-> "put"]) /\ EditTrue([op |-> "upload", pc |-> "put"])
    BY DEF HoldsPresent, EditTrue
  <2> QED BY <1>1, <1>3, <2>2, <2>3, ReqMoves
<1>4. CASE At(q, "upload", "put") /\ asReq' = [asReq EXCEPT ![q] = [asReq[q] EXCEPT !.pc = "finish"]]
  <2> DEFINE rq == [asReq[q] EXCEPT !.pc = "finish"]
  <2>1. asReq[q] \in UploadReqs
    BY <1>4, ReqKinds DEF At, ScreensInv
  <2>2. rq \in UploadReqs /\ rq.op = "upload"
    BY <2>1 DEF UploadReqs
  <2> HIDE DEF rq
  <2>3. HoldsPresent(rq) /\ EditTrue(rq) /\ rq \in ScreenReqs
    BY <2>2, PlainReqs DEF ScreenReqs
  <2>4. asReq' = [asReq EXCEPT ![q] = rq]
    BY <1>4 DEF rq
  <2> QED BY <1>1, <2>3, <2>4, ReqMoves
<1> QED BY <1>2, <1>3, <1>4 DEF initMediaUpload, putMedia, finishMediaUpload, apiFetch, Arrive, To

LEMMA ScreensStep == ScreensInv /\ [AsNext]_asVars => ScreensInv' /\ TokensKept
<1> SUFFICES ASSUME ScreensInv, [AsNext]_asVars PROVE ScreensInv' /\ TokensKept
  OBVIOUS
<1>1. CASE ScreenStep
  <2>1. CASE \E r \in asRows : assignScreen(r)
    BY <2>1, KioskAssigned
  <2>2. ASSUME NEW q \in AsReqs,
               \/ addAccount(q) \/ syncAccount(q) \/ deleteAccount(q)
               \/ syncList(q) \/ upsertSelect(q) \/ upsertUpdate(q) \/ upsertInsert(q) \/ syncEnd(q)
               \/ headlessPairScreen(q) \/ addRow(q) \/ addEntity(q)
               \/ updateScreenRemote(q) \/ updateScreenRow(q)
               \/ deleteScreenRemote(q) \/ deleteScreenRow(q)
        PROVE  ScreensInv' /\ TokensKept
    BY <2>2, SyncBegins, AccountDeleted, SyncListed, UpsertSelected, UpsertUpdated, UpsertInserted, SyncEnded,
       ScreenPaired, RowAdded, EntityAdded, RemoteUpdated, RowUpdated, RemoteDeleted, RowDeleted
  <2>3. ASSUME NEW q \in AsReqs, NEW t \in AsTitles, addScreen(q, t)
        PROVE  ScreensInv' /\ TokensKept
    BY <2>3, ScreenAdds
  <2>4. ASSUME NEW q \in AsReqs, NEW r \in asRows, deleteScreen(q, r) \/ \E t \in AsTitles : updateScreen(q, r, t)
        PROVE  ScreensInv' /\ TokensKept
    BY <2>4, DeleteBegins, UpdateBegins
  <2> QED BY <1>1, <2>1, <2>2, <2>3, <2>4 DEF ScreenStep
<1>2. CASE PlaylistStep
  <2>1. ASSUME NEW q \in AsReqs, getPlaylist(q) \/ savePlaylist(q)
        PROVE  ScreensInv' /\ TokensKept
    BY <2>1, PlaylistRead, PlaylistSaved
  <2>2. ASSUME NEW q \in AsReqs, NEW o \in Owners, NEW op \in {"settings", "reorder", "remove", "item"},
               NEW i \in 1..2, postEdit(q, o, op, i)
        PROVE  ScreensInv' /\ TokensKept
    BY <2>2, PlaylistPosted
  <2>3. ASSUME NEW o \in Owners, NEW atStart \in BOOLEAN,
               addPlaylistItems(o, atStart) \/ addGroupPlaylistItems(o, atStart)
        PROVE  ScreensInv' /\ TokensKept
    <3>1. Add(o, atStart)
      BY <2>3 DEF addPlaylistItems, addGroupPlaylistItems
    <3> QED BY <3>1, PlaylistGrows
  <2> QED BY <1>2, <2>1, <2>2, <2>3 DEF PlaylistStep
<1>3. CASE ContentStep
  <2>1. CASE \E q \in AsReqs : initMediaUpload(q) \/ putMedia(q) \/ finishMediaUpload(q)
    BY <2>1, UploadMoves
  <2>2. CASE UNCHANGED <<asReq, asRows, asIds, asRemote, asStale, asList, asVer, asWant, asClash>>
    BY <2>2, ContentChanged
  <2> QED BY <1>3, <2>1, <2>2
          DEF ContentStep, createWebApp, updateWebApp, deleteWebApp, updateMediaFile, deleteMediaFile, createFolder,
              updateFolder, deleteFolder, createScreenGroup, updateScreenGroup, setScreenGroupMembers,
              deleteScreenGroup, Content, localVars
<1>4. CASE UNCHANGED asVars
  BY <1>4, ContentChanged DEF asVars
<1> QED BY <1>1, <1>2, <1>3, <1>4 DEF AsNext

LEMMA ScreensInvIsSafe == ScreensInv => ScreensSafe
<1> SUFFICES ASSUME ScreensInv PROVE NoItemLost
  BY DEF ScreensSafe, ScreensInv, RemoteInv
<1>1. ASSUME NEW o \in Owners PROVE {it.id : it \in ToSet(asList[o].items)} = Ids(asList[o].items)
  BY DEF ToSet, Ids
<1> QED BY <1>1 DEF NoItemLost, ScreensInv, ListsInv

(* AbleSign screens and playlists: no edit loses or doubles another item,  *)
(* no row outlives its screen, and no step takes a row's player token.     *)
THEOREM SignsStayTrue == AsSpec => ScreensSteps
<1>1. AsInit => ScreensInv
  BY ScreensInitially
<1>2. ScreensInv /\ [AsNext]_asVars => ScreensInv'
  BY ScreensStep
<1>3. ScreensInv => ScreensSafe
  BY ScreensInvIsSafe
<1>4. ScreensInv' => ScreensSafe'
  BY <1>3, PTL
<1>5. ScreensInv /\ [AsNext]_asVars =>
        [\A r \in asRows, n \in asRows' : r.id = n.id /\ r.token => n.token]_asVars
  BY ScreensStep DEF TokensKept
<1> QED BY <1>1, <1>2, <1>4, <1>5, PTL DEF AsSpec, ScreensSteps, TokenKept
=============================================================================
