---------------------------- MODULE IoBoxPairing ----------------------------
(***************************************************************************)
(* Enrolment of an ioBOX: the firmware announces its serial, claims a      *)
(* credential, stores it and acknowledges; the server runs each request in *)
(* a transaction that locks the serial's row.  Answers are lost, requests  *)
(* arrive late, either side restarts, storage fails, tenants are archived. *)
(***************************************************************************)
EXTENDS Naturals, FiniteSets

CONSTANTS Serials,        \* serial numbers
          IoTenants, DefaultTenant,
          MaxBoxes,       \* bound on the boxes created for a serial
          MaxSecrets,     \* bound on the secrets a device generates (storage erasures)
          MaxTries        \* bound on a device's requests of one kind under way

ASSUME IoPairAssumption ==
  /\ DefaultTenant \in IoTenants
  /\ {MaxBoxes, MaxSecrets, MaxTries} \subseteq Nat \ {0}

IoRequests == [kind : {"announce", "claim", "ack"}, s : Serials, try : 1..MaxTries]

VARIABLES ioActive,   \* [IoTenants -> is_active]
          ioSerial,   \* public.iobox_serials: [reg, paired, tenant], paired 0: NULL
          ioClaim,    \* public.iobox_pairing_claims: [secret, env], secret 0: no row,
                      \* env: the retry envelope's credential, 0: NULL
          ioBoxes,    \* ioboxes of all tenants: [s, id, tenant, on]
          ioDev,      \* firmware: [secret, key, ackp, pc, try], key 0: no identity
          ioReq,      \* requests under way: [IoRequests -> [pc, secret, key, tenant, row, claim]]
          ioAns,      \* answer to the request the device waits for
          ioLegacy,   \* serials whose firmware offers no provisioning secret
          ioGen,      \* secrets a device has generated
          ioStored    \* history: the device has stored an identity

ioPairVars == <<ioActive, ioSerial, ioClaim, ioBoxes, ioDev, ioReq, ioAns, ioLegacy, ioGen,
                ioStored>>
ioBoxVars == <<ioDev, ioAns, ioGen, ioStored>>
ioDbVars == <<ioActive, ioSerial, ioClaim, ioBoxes, ioLegacy>>

NoAns == [ok |-> FALSE, key |-> 0, done |-> FALSE]
NoRow == [reg |-> FALSE, paired |-> 0, tenant |-> DefaultTenant]
NoIoClaim == [secret |-> 0, env |-> 0]
Unsent == [pc |-> "none", secret |-> 0, key |-> 0, tenant |-> DefaultTenant,
           row |-> NoRow, claim |-> NoIoClaim]

-----------------------------------------------------------------------------
(* The server. *)

\* The device gets an answer only to the request it still waits for.
Answer(r, ok, key) ==
  /\ ioReq' = [ioReq EXCEPT ![r] = Unsent]
  /\ ioAns' = IF ioDev[r.s].pc = r.kind /\ ioDev[r.s].try = r.try
              THEN [ioAns EXCEPT ![r.s] = [ok |-> ok, key |-> key, done |-> TRUE]]
              ELSE ioAns

Refused(r) == Answer(r, FALSE, 0) /\ UNCHANGED <<ioDbVars, ioDev, ioGen, ioStored>>

\* The requested tenant (the firmware names none: the default one), else any
\* active one.
resolveTenantForIoBoxClaim ==
  IF ioActive[DefaultTenant] THEN {DefaultTenant} ELSE {t \in IoTenants : ioActive[t]}

\* Boxes an ioBOX key opens: enabled rows of active tenants.
verifyIoBoxKey(s, key) ==
  {b \in ioBoxes : b.s = s /\ b.id = key /\ b.on /\ ioActive[b.tenant]}

\* Before the transaction: the serial of an announce is looked up, the
\* tenant of a claim resolved, the key of an acknowledgement verified.
Arrive(r) ==
  /\ ioReq[r].pc = "sent"
  /\ \/ /\ r.kind = "announce" /\ ioSerial[r.s].reg
        /\ ioReq' = [ioReq EXCEPT ![r].pc = "arrived"]
     \/ /\ r.kind = "claim"
        /\ \E t \in resolveTenantForIoBoxClaim :
             ioReq' = [ioReq EXCEPT ![r].pc = "arrived", ![r].tenant = t]
     \/ /\ r.kind = "ack"
        /\ \E b \in verifyIoBoxKey(r.s, ioReq[r].key) :
             ioReq' = [ioReq EXCEPT ![r].pc = "arrived", ![r].tenant = b.tenant]
  /\ UNCHANGED <<ioDbVars, ioBoxVars>>

\* Unknown serial, no active tenant, key not accepted.
TurnedAway(r) ==
  /\ ioReq[r].pc = "sent"
  /\ \/ r.kind = "announce" /\ ~ioSerial[r.s].reg
     \/ r.kind = "claim" /\ resolveTenantForIoBoxClaim = {}
     \/ r.kind = "ack" /\ verifyIoBoxKey(r.s, ioReq[r].key) = {}
  /\ Refused(r)

\* Mutant: no row lock.
LockNothing(r) ==
  /\ ioReq[r].pc = "arrived"
  /\ ioReq' = [ioReq EXCEPT ![r].pc = "locked", ![r].row = ioSerial[r.s],
                            ![r].claim = ioClaim[r.s]]
  /\ UNCHANGED <<ioDbVars, ioBoxVars>>

\* SELECT ... FOR UPDATE: the transaction waits for the serial's row, then
\* reads the registration and the claim.
LockSerial(r) ==
  /\ ioReq[r].pc = "arrived"
  /\ \A q \in IoRequests : q.s = r.s => ioReq[q].pc # "locked"
  /\ ioReq' = [ioReq EXCEPT ![r].pc = "locked", ![r].row = ioSerial[r.s],
                            ![r].claim = ioClaim[r.s]]
  /\ UNCHANGED <<ioDbVars, ioBoxVars>>

\* bindIoBoxProvisioning: the claim row the transaction goes on with; the
\* empty set when it throws.
bindIoBoxProvisioning(row, claim, secret) ==
  IF secret = 0 THEN {claim}
  ELSE IF claim.secret # 0 THEN {c \in {claim} : c.secret = secret}
  ELSE {c \in {[secret |-> secret, env |-> 0]} : row.paired = 0}

announce(r) ==
  LET q == ioReq[r]
      bound == bindIoBoxProvisioning(q.row, q.claim, q.secret) IN
  /\ q.pc = "locked" /\ r.kind = "announce" /\ bound # {}
  /\ \E c \in bound : ioClaim' = [ioClaim EXCEPT ![r.s] = c]
  /\ Answer(r, TRUE, 0)
  /\ UNCHANGED <<ioActive, ioLegacy, ioSerial, ioBoxes, ioDev, ioGen, ioStored>>

\* The claim rows with which claimIoBox goes past its checks.
Admitted(q) ==
  {c \in bindIoBoxProvisioning(q.row, q.claim, q.secret) : q.row.reg /\ c.secret = q.secret}

createIoBox(s, n, t) == [s |-> s, id |-> n, tenant |-> t, on |-> TRUE]

\* First claim of the serial: box, pairing and envelope in one commit.
claimIssue(r) ==
  LET q == ioReq[r]
      n == Cardinality({b \in ioBoxes : b.s = r.s}) + 1 IN
  /\ q.pc = "locked" /\ r.kind = "claim"
  /\ q.row.paired = 0
  /\ ~\E b \in ioBoxes : b.s = r.s /\ b.tenant = q.tenant      \* UNIQUE (serial)
  /\ n <= MaxBoxes
  /\ \E c \in Admitted(q) :
       ioClaim' = [ioClaim EXCEPT ![r.s] = IF c.secret = 0 THEN c ELSE [c EXCEPT !.env = n]]
  /\ ioBoxes' = ioBoxes \cup {createIoBox(r.s, n, q.tenant)}
  /\ ioSerial' = [ioSerial EXCEPT ![r.s].paired = n, ![r.s].tenant = q.tenant]
  /\ Answer(r, TRUE, n)
  /\ UNCHANGED <<ioActive, ioLegacy, ioDev, ioGen, ioStored>>

\* A retry gets the envelope again while it is kept and the box may still
\* be used.
Reissuable(q, s) ==
  /\ q.row.paired # 0
  /\ \E c \in Admitted(q) : c.env # 0
  /\ \E b \in ioBoxes : b.s = s /\ b.id = q.row.paired /\ b.on /\ ioActive[b.tenant]

claimReissue(r) ==
  LET q == ioReq[r] IN
  /\ q.pc = "locked" /\ r.kind = "claim" /\ Reissuable(q, r.s)
  /\ Answer(r, TRUE, q.claim.env)
  /\ UNCHANGED <<ioDbVars, ioDev, ioGen, ioStored>>

acknowledgeIoBox(r) ==
  LET q == ioReq[r] IN
  /\ q.pc = "locked" /\ r.kind = "ack"
  /\ q.row.paired = q.key /\ q.row.tenant = q.tenant
  /\ q.claim.secret # 0 /\ q.claim.secret = q.secret
  /\ ioClaim' = [ioClaim EXCEPT ![r.s].env = 0]
  /\ Answer(r, TRUE, 0)
  /\ UNCHANGED <<ioActive, ioLegacy, ioSerial, ioBoxes, ioDev, ioGen, ioStored>>

\* A transaction whose checks fail, or that the database or a restart of
\* the server aborts, changes nothing.
Rollback(r) == ioReq[r].pc \in {"arrived", "locked"} /\ Refused(r)

-----------------------------------------------------------------------------
(* The administrator. *)

\* Registers the serial, or changes its model and notes.
registerIoBoxSerial(s) ==
  /\ ioSerial' = [ioSerial EXCEPT ![s].reg = TRUE]
  /\ UNCHANGED <<ioActive, ioLegacy, ioClaim, ioBoxes, ioReq, ioBoxVars>>

\* POST /admin/iobox/:id, seen from enrolment: enabled or not.
patchIoBox(b) ==
  /\ ioBoxes' = (ioBoxes \ {b}) \cup {[b EXCEPT !.on = ~b.on]}
  /\ UNCHANGED <<ioActive, ioLegacy, ioSerial, ioClaim, ioReq, ioBoxVars>>

ArchiveTenant(t) ==
  /\ ioActive' = [ioActive EXCEPT ![t] = ~ioActive[t]]
  /\ UNCHANGED <<ioSerial, ioClaim, ioBoxes, ioLegacy, ioReq, ioBoxVars>>

-----------------------------------------------------------------------------
(* The firmware: one request at a time, each waited for with a timeout. *)

Send(s, kind, dev) ==
  \E a \in 1..MaxTries :
    LET r == [kind |-> kind, s |-> s, try |-> a] IN
    /\ ioReq[r].pc = "none"
    /\ ioReq' = [ioReq EXCEPT ![r] = [Unsent EXCEPT !.pc = "sent", !.secret = dev.secret,
                                                    !.key = dev.key]]
    /\ ioDev' = [ioDev EXCEPT ![s] = [dev EXCEPT !.pc = kind, !.try = a]]
    /\ ioAns' = [ioAns EXCEPT ![s] = NoAns]

\* announceOrClaim: the secret is in storage before it is announced.
announceOrClaim(s) ==
  LET dev == ioDev[s]
      new == dev.secret = 0 /\ s \notin ioLegacy IN
  /\ dev.pc = "idle" /\ dev.key = 0
  /\ ioGen' = IF new THEN [ioGen EXCEPT ![s] = @ + 1] ELSE ioGen
  /\ Send(s, "announce", IF new THEN [dev EXCEPT !.secret = ioGen[s] + 1] ELSE dev)
  /\ UNCHANGED <<ioDbVars, ioStored>>

Claim(s) ==
  /\ ioDev[s].pc = "announce" /\ ioAns[s].done /\ ioAns[s].ok
  /\ Send(s, "claim", ioDev[s])
  /\ UNCHANGED <<ioDbVars, ioGen, ioStored>>

\* Mutant: the acknowledgement goes out before the identity is in storage.
saveIdentityLate(s) ==
  LET got == [ioDev[s] EXCEPT !.key = ioAns[s].key] IN
  /\ ioDev[s].pc = "claim" /\ ioAns[s].done /\ ioAns[s].ok
  /\ \E a \in 1..MaxTries :
       LET r == [kind |-> "ack", s |-> s, try |-> a] IN
       /\ ioReq[r].pc = "none"
       /\ ioReq' = [ioReq EXCEPT ![r] = [Unsent EXCEPT !.pc = "sent", !.secret = got.secret,
                                                       !.key = got.key]]
  /\ ioDev' = [ioDev EXCEPT ![s] = [got EXCEPT !.key = 0, !.pc = "idle", !.try = 1]]
  /\ ioAns' = [ioAns EXCEPT ![s] = NoAns]
  /\ UNCHANGED <<ioDbVars, ioGen, ioStored>>

\* The identity is stored and read back, then acknowledged.
saveIdentity(s) ==
  LET got == [ioDev[s] EXCEPT !.key = ioAns[s].key, !.ackp = s \notin ioLegacy] IN
  /\ ioDev[s].pc = "claim" /\ ioAns[s].done /\ ioAns[s].ok
  /\ ioStored' = [ioStored EXCEPT ![s] = TRUE]
  /\ IF got.ackp THEN Send(s, "ack", got)
     ELSE /\ ioDev' = [ioDev EXCEPT ![s] = [got EXCEPT !.pc = "idle", !.try = 1]]
          /\ ioAns' = [ioAns EXCEPT ![s] = NoAns] /\ UNCHANGED ioReq
  /\ UNCHANGED <<ioDbVars, ioGen>>

\* acknowledgeClaim, from heartbeat and at boot.
acknowledgeClaim(s) ==
  /\ ioDev[s].pc = "idle" /\ ioDev[s].ackp
  /\ Send(s, "ack", ioDev[s])
  /\ UNCHANGED <<ioDbVars, ioGen, ioStored>>

Acknowledged(s) ==
  /\ ioDev[s].pc = "ack" /\ ioAns[s].done /\ ioAns[s].ok
  /\ ioDev' = [ioDev EXCEPT ![s].ackp = FALSE, ![s].pc = "idle", ![s].try = 1]
  /\ ioAns' = [ioAns EXCEPT ![s] = NoAns]
  /\ UNCHANGED <<ioDbVars, ioReq, ioGen, ioStored>>

\* An error answer, no answer in time, storage that fails, or a restart:
\* the firmware starts over from what is in storage.
GiveUp(s) ==
  /\ ioDev[s].pc # "idle"
  /\ ioDev' = [ioDev EXCEPT ![s].pc = "idle", ![s].try = 1]
  /\ ioAns' = [ioAns EXCEPT ![s] = NoAns]
  /\ UNCHANGED <<ioDbVars, ioReq, ioGen, ioStored>>

\* Storage is erased for service.
EraseStorage(s) ==
  /\ ioGen[s] < MaxSecrets
  /\ ioDev' = [ioDev EXCEPT ![s] = [secret |-> 0, key |-> 0, ackp |-> FALSE,
                                        pc |-> "idle", try |-> 1]]
  /\ ioAns' = [ioAns EXCEPT ![s] = NoAns]
  /\ UNCHANGED <<ioDbVars, ioReq, ioGen, ioStored>>

-----------------------------------------------------------------------------
IoPairInit ==
  /\ ioActive = [t \in IoTenants |-> TRUE]
  /\ ioSerial = [s \in Serials |-> NoRow]
  /\ ioClaim = [s \in Serials |-> NoIoClaim]
  /\ ioBoxes = {}
  /\ ioDev = [s \in Serials |-> [secret |-> 0, key |-> 0, ackp |-> FALSE, pc |-> "idle", try |-> 1]]
  /\ ioReq = [r \in IoRequests |-> Unsent]
  /\ ioAns = [s \in Serials |-> NoAns]
  /\ ioLegacy \in SUBSET Serials
  /\ ioGen = [s \in Serials |-> 0]
  /\ ioStored = [s \in Serials |-> FALSE]

IoServer(r) ==
  \/ Arrive(r) \/ TurnedAway(r) \/ LockSerial(r) \/ announce(r) \/ claimIssue(r)
  \/ claimReissue(r) \/ acknowledgeIoBox(r) \/ Rollback(r)

IoDevice(s) ==
  \/ announceOrClaim(s) \/ Claim(s) \/ saveIdentity(s) \/ acknowledgeClaim(s)
  \/ Acknowledged(s) \/ GiveUp(s) \/ EraseStorage(s)

IoPairNext ==
  \/ \E r \in IoRequests : IoServer(r)
  \/ \E s \in Serials : IoDevice(s) \/ registerIoBoxSerial(s)
  \/ \E b \in ioBoxes : patchIoBox(b)
  \/ \E t \in IoTenants : ArchiveTenant(t)

IoPairSpec == IoPairInit /\ [][IoPairNext]_ioPairVars

-----------------------------------------------------------------------------
(* Properties. *)

\* However requests are repeated, delayed or cut short, and whichever tenant
\* each claim resolved, a serial has at most one box over all tenants, and it
\* is the one its registration names (claimIoBox).
OneBoxPerSerial ==
  \A s \in Serials :
    LET own == {b \in ioBoxes : b.s = s} IN
    /\ Cardinality(own) <= 1
    /\ \A b \in own : ioSerial[s].paired = b.id /\ ioSerial[s].tenant = b.tenant

\* A device whose secret the serial is bound to never loses its credential:
\* it is in the device's storage or the server still has the envelope, at
\* every point where power, network, storage or server may fail.
NeverLockedOut ==
  \A s \in Serials :
    (/\ ioSerial[s].paired # 0
     /\ ioClaim[s].secret # 0
     /\ ioClaim[s].secret = ioDev[s].secret)
      => ioSerial[s].paired \in {ioDev[s].key, ioClaim[s].env}

\* Once the firmware counts its enrolment as settled the server has
\* forgotten the credential it kept for retries, and never keeps it again.
SettledMeansForgotten ==
  \A s \in Serials \ ioLegacy :
    ioDev[s].key # 0 /\ ~ioDev[s].ackp => ioClaim[s].env = 0

\* The detailed protocol, with its locks, timeouts and restarts, does only
\* what CredentialHandover allows.
Handover == INSTANCE CredentialHandover WITH
  Boards <- Serials,
  Credentials <- 1..MaxBoxes,
  issued <- [s \in Serials |-> ioSerial[s].paired],
  copy <- [s \in Serials |-> ioClaim[s].env],
  holds <- [s \in Serials |-> ioDev[s].key],
  stored <- ioStored

HandsOver == Handover!HandoverSpec

\* Enrolment as a whole: the claims above.
EnrolmentSafe == OneBoxPerSerial /\ NeverLockedOut /\ SettledMeansForgotten
=============================================================================
