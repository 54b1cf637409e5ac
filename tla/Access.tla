------------------------------- MODULE Access -------------------------------
(***************************************************************************)
(* Sign-in and sessions of the admin service: login with lockout, the      *)
(* second factor, resolveSession, the middleware's tenant and role checks, *)
(* logout and the account routes.  Requests run concurrently; each is a    *)
(* record that moves from one database statement to the next, holding the  *)
(* rows it read.  One account, an administrator or an operator.  Cookie    *)
(* signing, hashing and CSRF are abstract: a request presents a session    *)
(* its browser was given.                                                  *)
(***************************************************************************)
EXTENDS Integers, FiniteSets

CONSTANTS Sids,          \* session ids
          Reqs,          \* concurrent requests
          Threshold,     \* loginLockoutThreshold
          MaxPw,         \* bound on password changes
          MaxReqs        \* bound on requests

ASSUME AccAssumption == Threshold \in Nat \ {0} /\ MaxPw \in Nat /\ MaxReqs \in Nat

VARIABLES role,          \* of the account
          user,          \* its row: password (a version), TOTP, lockout
          sess,          \* [Sids -> session row]
          req,           \* [Reqs -> request in progress]
          started,       \* requests so far
          ended          \* history: sessions signed out, or live when a password was changed

accVars == <<role, user, sess, req, started, ended>>

Tenants == {"default", "other"}
NoReq == [pc |-> "none"]
Free == [st |-> "none", tenant |-> "default", pending |-> FALSE, revoked |-> FALSE,
         expired |-> FALSE, idle |-> FALSE, proved |-> FALSE]
NoUser == [pw |-> 0, totp |-> FALSE, secret |-> FALSE, failed |-> 0, locked |-> FALSE]
AccKinds == {"page", "totp", "recovery", "logout", "password", "totpBegin", "totpConfirm",
          "totpDisable"}

\* Sign-in always happens in the default tenant; a session of another tenant
\* is a legacy row.  One session may be left from an earlier run.
AccInit ==
  /\ role \in {"admin", "operator"}
  /\ user \in [pw : {0}, totp : BOOLEAN, secret : BOOLEAN, failed : {0}, locked : {FALSE}]
  /\ user.totp => user.secret
  /\ \/ sess = [s \in Sids |-> Free]
     \/ \E s \in Sids, t \in Tenants :
          sess = [[x \in Sids |-> Free] EXCEPT
                    ![s] = [Free EXCEPT !.st = "live", !.tenant = t, !.proved = TRUE]]
  /\ req = [q \in Reqs |-> NoReq]
  /\ started = 0
  /\ ended = {}

\* The statements on the sessions table.
NewSession(totp) == [Free EXCEPT !.st = "live", !.pending = totp, !.proved = ~totp]
revokeSession(s) == [sess EXCEPT ![s].revoked = TRUE]
setSessionTotpPending(s) == [sess EXCEPT ![s].pending = FALSE, ![s].proved = TRUE]

Put(q, r) == req' = [req EXCEPT ![q] = r]
Done(q) == Put(q, NoReq)

-----------------------------------------------------------------------------
(* Login                                                                   *)

\* The user row is read; a locked account is refused.
loginRead(q, pw) ==
  /\ req[q].pc = "none" /\ started < MaxReqs
  /\ started' = started + 1
  /\ IF user.locked THEN UNCHANGED req
     ELSE Put(q, [pc |-> "verify", u |-> user, pw |-> pw])
  /\ UNCHANGED <<role, user, sess, ended>>

\* A wrong password writes the count read before plus one, and the lock with it.
loginFailed(q) ==
  /\ req[q].pc = "verify" /\ req[q].pw # req[q].u.pw
  /\ LET count == req[q].u.failed + 1 IN
       user' = [user EXCEPT !.failed = count, !.locked = @ \/ count >= Threshold]
  /\ Done(q)
  /\ UNCHANGED <<role, sess, started, ended>>

loginValid(q) ==
  /\ req[q].pc = "verify" /\ req[q].pw = req[q].u.pw
  /\ user' = [user EXCEPT !.failed = 0, !.locked = FALSE]
  /\ Put(q, [req[q] EXCEPT !.pc = "create"])
  /\ UNCHANGED <<role, sess, started, ended>>

\* A new random id; totp_pending is what the user row said at the login.
createSession(q) ==
  /\ req[q].pc = "create"
  /\ \E s \in Sids : /\ sess[s].st = "none"
                     /\ sess' = [sess EXCEPT ![s] = NewSession(req[q].u.totp)]
  /\ Done(q)
  /\ UNCHANGED <<role, user, started, ended>>

\* loginLockoutSeconds pass; a session reaches its absolute or its idle limit.
LockEnds == user.locked /\ user' = [user EXCEPT !.locked = FALSE]
            /\ UNCHANGED <<role, sess, req, started, ended>>
SessionAges(s) ==
  /\ sess[s].st = "live" /\ ~sess[s].expired /\ ~sess[s].idle /\ ~sess[s].revoked
  /\ sess' \in {[sess EXCEPT ![s].expired = TRUE], [sess EXCEPT ![s].idle = TRUE]}
  /\ UNCHANGED <<role, user, req, started, ended>>

-----------------------------------------------------------------------------
(* resolveSession: the session row, then the user row, then last_seen_at.  *)

RequestArrives(q, s, kind, target) ==
  /\ req[q].pc = "none" /\ started < MaxReqs /\ sess[s].st = "live"
  /\ started' = started + 1
  /\ Put(q, [pc |-> "resolve", s |-> s, kind |-> kind, target |-> target,
             dead |-> sess[s].revoked \/ sess[s].expired, row |-> Free, u |-> NoUser])
  /\ UNCHANGED <<role, user, sess, ended>>

resolveSession(q) ==
  /\ req[q].pc = "resolve"
  /\ LET row == sess[req[q].s] IN
       IF row.revoked \/ row.expired THEN Done(q) /\ UNCHANGED sess
       ELSE IF row.idle
         THEN Done(q) /\ sess' = revokeSession(req[q].s)
       ELSE Put(q, [req[q] EXCEPT !.pc = "user", !.row = row]) /\ UNCHANGED sess
  /\ UNCHANGED <<role, user, started, ended>>

getUserById(q) ==
  /\ req[q].pc = "user"
  /\ Put(q, [req[q] EXCEPT !.pc = "touch", !.u = user])
  /\ UNCHANGED <<role, user, sess, started, ended>>

\* Mutant: the row read before is written back with its new last_seen_at.
touchSessionRow(q) ==
  /\ req[q].pc = "touch"
  /\ sess' = [sess EXCEPT ![req[q].s] = req[q].row]
  /\ Put(q, [req[q] EXCEPT !.pc = "check"])
  /\ UNCHANGED <<role, user, started, ended>>

\* touchSession sets last_seen_at only.
touchSession(q) ==
  /\ req[q].pc = "touch"
  /\ sess' = [sess EXCEPT ![req[q].s].idle = FALSE]
  /\ Put(q, [req[q] EXCEPT !.pc = "check"])
  /\ UNCHANGED <<role, user, started, ended>>

-----------------------------------------------------------------------------
(* The middleware of /admin and /api/admin, and the /auth routes.          *)

IsAuthRoute(kind) == kind \in {"totp", "recovery", "logout"}
PlatformAdmin(row) == role = "admin" /\ row.tenant = "default"

TenantAllowed(r) == r.target = r.row.tenant \/ PlatformAdmin(r.row)

\* An administrator's legacy session of another tenant is revoked; a pending
\* one is sent to /auth/totp; then tenant and role are checked.
middleware(q) ==
  /\ req[q].pc = "check" /\ ~IsAuthRoute(req[q].kind)
  /\ LET r == req[q] IN
       IF role = "admin" /\ r.row.tenant # "default"
         THEN sess' = revokeSession(r.s) /\ Done(q)
         ELSE /\ UNCHANGED sess
              /\ IF r.row.pending \/ ~TenantAllowed(r) THEN Done(q)
                 ELSE Put(q, [r EXCEPT !.pc = "served"])
  /\ UNCHANGED <<role, user, started, ended>>

\* The code is checked against the secret of the row read; an account without
\* a secret, or a wrong code, changes nothing.
postTotp(q, ok) ==
  /\ req[q].pc = "check" /\ req[q].kind = "totp"
  /\ IF req[q].row.pending /\ req[q].u.secret /\ ok
       THEN sess' = setSessionTotpPending(req[q].s)
       ELSE UNCHANGED sess
  /\ Done(q)
  /\ UNCHANGED <<role, user, started, ended>>

postRecovery(q, ok) ==
  /\ req[q].pc = "check" /\ req[q].kind = "recovery"
  /\ IF req[q].row.pending /\ ok
       THEN sess' = setSessionTotpPending(req[q].s)
       ELSE UNCHANGED sess
  /\ Done(q)
  /\ UNCHANGED <<role, user, started, ended>>

postLogout(q) ==
  /\ req[q].pc = "check" /\ req[q].kind = "logout"
  /\ sess' = revokeSession(req[q].s)
  /\ ended' = ended \union {req[q].s}
  /\ Done(q)
  /\ UNCHANGED <<role, user, started>>

-----------------------------------------------------------------------------
(* The handlers behind the middleware                                      *)

pageDone(q) ==
  /\ req[q].pc = "served" /\ req[q].kind = "page"
  /\ Done(q)
  /\ UNCHANGED <<role, user, sess, started, ended>>

\* rejectTenantMutation sends every account change made outside the default
\* tenant away; a wrong current password changes nothing.
accountAllowed(q) == req[q].pc = "served" /\ req[q].target = "default"
accountRejected(q) ==
  /\ req[q].pc = "served" /\ req[q].kind # "page" /\ req[q].target # "default"
  /\ Done(q)
  /\ UNCHANGED <<role, user, sess, started, ended>>

changePassword(q, current) ==
  /\ accountAllowed(q) /\ req[q].kind = "password" /\ user.pw < MaxPw
  /\ IF current = req[q].u.pw
       THEN /\ user' = [user EXCEPT !.pw = MaxPw]
            /\ Put(q, [req[q] EXCEPT !.pc = "revoke"])
            /\ ended' = ended \union {s \in Sids : sess[s].st = "live"}
       ELSE Done(q) /\ UNCHANGED <<user, ended>>
  /\ UNCHANGED <<role, sess, started>>

\* revokePlatformAdminSessions covers the mirrored rows of every tenant;
\* revokeAllSessionsForUser those of the account's own.
revokeAllSessions(q) ==
  /\ req[q].pc = "revoke"
  /\ sess' = [s \in Sids |->
       IF sess[s].st = "live" /\ (role = "admin" \/ sess[s].tenant = "default")
         THEN [sess[s] EXCEPT !.revoked = TRUE] ELSE sess[s]]
  /\ Done(q)
  /\ UNCHANGED <<role, user, started, ended>>

totpBegin(q) ==
  /\ accountAllowed(q) /\ req[q].kind = "totpBegin"
  /\ user' = IF req[q].u.totp THEN user ELSE [user EXCEPT !.secret = TRUE]
  /\ Done(q)
  /\ UNCHANGED <<role, sess, started, ended>>

totpConfirm(q, ok) ==
  /\ accountAllowed(q) /\ req[q].kind = "totpConfirm"
  /\ user' = IF req[q].u.secret /\ ok THEN [user EXCEPT !.totp = TRUE] ELSE user
  /\ Done(q)
  /\ UNCHANGED <<role, sess, started, ended>>

totpDisable(q, current) ==
  /\ accountAllowed(q) /\ req[q].kind = "totpDisable"
  /\ user' = IF current = req[q].u.pw THEN [user EXCEPT !.totp = FALSE, !.secret = FALSE]
             ELSE user
  /\ Done(q)
  /\ UNCHANGED <<role, sess, started, ended>>

-----------------------------------------------------------------------------
AccNext ==
  \/ LockEnds
  \/ \E s \in Sids : SessionAges(s)
  \/ \E q \in Reqs :
       \/ \E pw \in {0, MaxPw} : loginRead(q, pw)
       \/ loginFailed(q) \/ loginValid(q) \/ createSession(q)
       \/ \E s \in Sids, kind \in AccKinds, t \in Tenants : RequestArrives(q, s, kind, t)
       \/ resolveSession(q) \/ getUserById(q) \/ touchSession(q) \/ middleware(q)
       \/ \E ok \in BOOLEAN : postTotp(q, ok) \/ postRecovery(q, ok) \/ totpConfirm(q, ok)
       \/ postLogout(q) \/ pageDone(q) \/ accountRejected(q)
       \/ \E pw \in {0, MaxPw} : changePassword(q, pw) \/ totpDisable(q, pw)
       \/ revokeAllSessions(q) \/ totpBegin(q)

AccSpec == AccInit /\ [][AccNext]_accVars

-----------------------------------------------------------------------------
\* Types of the account and its sessions.
AccTypeOK ==
  /\ user \in [pw : {0, MaxPw}, totp : BOOLEAN, secret : BOOLEAN,
               failed : 0..MaxReqs, locked : BOOLEAN]
  /\ sess \in [Sids -> [st : {"none", "live"}, tenant : Tenants, pending : BOOLEAN,
                        revoked : BOOLEAN, expired : BOOLEAN, idle : BOOLEAN, proved : BOOLEAN]]
  /\ ended \subseteq Sids

\* A session of an account that had TOTP enabled at its login leaves
\* totp_pending only by a code or a recovery code checked for that session,
\* however requests on it overlap.
SecondFactorKept == \A s \in Sids : sess[s].st = "live" /\ ~sess[s].pending => sess[s].proved

\* A request that arrives after its session was revoked or expired is not
\* served, and one served in another tenant than its session's was made by a
\* platform administrator.
ServedOnlyLive ==
  \A q \in Reqs : req[q].pc = "served" => ~req[q].dead

TenantBoundary ==
  \A q \in Reqs : req[q].pc = "served" =>
    \/ req[q].target = sess[req[q].s].tenant
    \/ role = "admin" /\ sess[req[q].s].tenant = "default"

\* A session that was signed out stays revoked, and so does, once a password
\* change ("Revoke all sessions (force re-login)") is answered, every session of
\* the default tenant that existed when it was written: requests that resolved
\* one before still write last_seen_at or totp_pending to its row afterwards.
EndedMeansRevoked ==
  (\A q \in Reqs : req[q].pc # "revoke") =>
    \A s \in ended : sess[s].tenant = "default" => sess[s].revoked

\* Sign-in and sessions as a whole: the claims above.
AccessSafe ==
  AccTypeOK /\ SecondFactorKept /\ ServedOnlyLive /\ TenantBoundary /\ EndedMeansRevoked
=============================================================================
