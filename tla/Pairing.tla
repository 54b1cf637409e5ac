------------------------------ MODULE Pairing ------------------------------
(***************************************************************************)
(* Enrollment of a kiosk: the pairing code on the server (pairing.ts,      *)
(* demo.ts, the /api/pair routes), the administrators who confirm it, and  *)
(* the device that shows it, polls for its credentials, saves them and     *)
(* acknowledges (server.rs of the Linux client).                           *)
(*                                                                         *)
(* Requests and responses are lost, devices crash at any step, and the     *)
(* confirmation transaction overlaps polls, deletions and other            *)
(* confirmations.  Codes are never reused, so a code also names what it    *)
(* creates: the kiosk it enrolls and the key it issues.                    *)
(***************************************************************************)
EXTENDS Integers, FiniteSets

CONSTANTS
  Codes, Devices, Admins,
  Tenants,      \* tenants administrators confirm into
  Demo,         \* the demo tenant: devices enroll themselves, up to a limit
  MaxDemo,      \* max_kiosks of the demo tenant
  CodeTtl,      \* lifetime of an unconfirmed code
  Grace,        \* DELIVERY_GRACE_MS: lifetime of a confirmed claim
  MaxTime,      \* bound: the clock
  NoCode        \* neither a code nor a device

ASSUME PairingAssumption ==
  /\ NoCode \notin Codes /\ NoCode \notin Devices
  /\ IsFiniteSet(Codes)
  /\ Admins \cap Devices = {}
  /\ Demo \notin Tenants
  /\ MaxDemo \in Nat /\ CodeTtl \in Nat /\ Grace \in Nat /\ MaxTime \in Nat

VARIABLES
  now,
  code,        \* pairing_codes
  kiosk,       \* kiosks of all tenants, by the code that created them
  deletedKeys, \* deleted_kiosk_keys
  txn,         \* confirmation transactions in progress
  answers,     \* history: what a confirmation returned to its caller
  device,      \* devices: saved files, program counter, response in flight
  saved        \* history: codes whose credentials some device saved durably

serverVars == <<code, kiosk, deletedKeys>>
vars == <<now, serverVars, txn, answers, device, saved>>

AllTenants == Tenants \cup {Demo}
Callers    == Admins \cup Devices
Requests   == [tenant : AllTenants, replace : Codes \cup {NoCode}]
Statuses   == {"none", "expired", "failed", "acknowledged", "pending", "revoked", "claimed"}
Times      == 0..(MaxTime + CodeTtl + Grace)

NoRequest == [tenant |-> Demo, replace |-> NoCode]
UnusedCode == [stage |-> "unused", device |-> NoCode, expires |-> 0,
               kiosk |-> NoCode, request |-> NoRequest]
NoTxn == [code |-> NoCode, request |-> NoRequest]
NewDevice == [pc |-> "boot", mem |-> NoCode, pending |-> NoCode,
              identity |-> NoCode, ackDue |-> FALSE, reply |-> "none"]

CodeRows   == [stage : {"unused", "open", "claimable", "acknowledged"},
               device : Devices \cup {NoCode}, expires : Times,
               kiosk : Codes \cup {NoCode}, request : Requests]
KioskRows  == [state : {"none", "enabled", "disabled", "deleted"},
               tenant : AllTenants, key : Codes \cup {NoCode}]
TxnStates  == [code : Codes \cup {NoCode}, request : Requests]
AnswerRows == [kiosk : Codes \cup {NoCode}, request : Requests]
DeviceStates ==
  [pc : {"boot", "initiated", "polling", "saved", "paired", "deleted"},
   mem : Codes \cup {NoCode}, pending : Codes \cup {NoCode},
   identity : Codes \cup {NoCode}, ackDue : BOOLEAN, reply : Statuses]

TypeOK ==
  /\ now \in 0..MaxTime
  /\ code \in [Codes -> CodeRows]
  /\ kiosk \in [Codes -> KioskRows]
  /\ deletedKeys \subseteq Codes
  /\ txn \in [Callers -> TxnStates]
  /\ answers \in [Callers -> AnswerRows]
  /\ device \in [Devices -> DeviceStates]
  /\ saved \subseteq Codes

Init ==
  /\ now = 0
  /\ code = [c \in Codes |-> UnusedCode]
  /\ kiosk = [c \in Codes |-> [state |-> "none", tenant |-> Demo, key |-> NoCode]]
  /\ deletedKeys = {}
  /\ txn = [a \in Callers |-> NoTxn]
  /\ answers = [a \in Callers |-> [kiosk |-> NoCode, request |-> NoRequest]]
  /\ device = [d \in Devices |-> NewDevice]
  /\ saved = {}

Tick == now < MaxTime /\ now' = now + 1 /\ UNCHANGED <<serverVars, txn, answers, device, saved>>

Consumed(c) == code[c].stage \in {"claimable", "acknowledged"}
Exists(k)   == k # NoCode /\ kiosk[k].state \in {"enabled", "disabled"}

-----------------------------------------------------------------------------
(* The device, up to a saved pairing session.                              *)

createPairingCode(c, d) ==
  [code EXCEPT ![c].stage = "open", ![c].device = d, ![c].expires = now + CodeTtl]

(* POST /api/pair/initiate: the server stores an unused code; the          *)
(* response may be lost or the device may crash before saving it.          *)
initiatePairing(d, c) ==
  /\ device[d].pc = "boot"
  /\ device[d].identity = NoCode /\ device[d].pending = NoCode
  /\ code[c].stage = "unused"
  /\ code' = createPairingCode(c, d)
  /\ device' = [device EXCEPT ![d].pc = "initiated", ![d].mem = c]
  /\ UNCHANGED <<now, kiosk, deletedKeys, txn, answers, saved>>

(* pairing.json is written before the code is displayed.                   *)
SaveSession(d) ==
  /\ device[d].pc = "initiated"
  /\ device' = [device EXCEPT ![d].pc = "polling", ![d].pending = device[d].mem]
  /\ UNCHANGED <<now, serverVars, txn, answers, saved>>

(* Storage refuses the session, or the initiate response was lost.         *)
SaveSessionFails(d) ==
  /\ device[d].pc = "initiated"
  /\ device' = [device EXCEPT ![d].pc = "boot", ![d].mem = NoCode]
  /\ UNCHANGED <<now, serverVars, txn, answers, saved>>

(* Startup with saved files: an identity wins over a pending session.      *)
Boot(d) ==
  /\ device[d].pc = "boot"
  /\ \/ /\ device[d].identity # NoCode
        /\ device' = [device EXCEPT ![d].pc = "paired"]
     \/ /\ device[d].identity = NoCode /\ device[d].pending # NoCode
        /\ device' = [device EXCEPT ![d].pc = "polling", ![d].mem = device[d].pending]
  /\ UNCHANGED <<now, serverVars, txn, answers, saved>>

(* Power loss or a crash: memory and the response in flight are gone; a    *)
(* transaction its request started goes on.                                *)
Crash(d) ==
  /\ device[d].pc # "boot"
  /\ device' = [device EXCEPT ![d].pc = "boot", ![d].mem = NoCode, ![d].reply = "none"]
  /\ UNCHANGED <<now, serverVars, txn, answers, saved>>

Displayed(c) == \E d \in Devices : device[d].pc = "polling" /\ device[d].mem = c

-----------------------------------------------------------------------------
(* Confirmation.  The transaction locks the code's row; its expiry check   *)
(* and its commit are separated by password hashing and by other writes.   *)

Locked(c) == \E a \in Callers : txn[a].code = c

(* The repeated submission of a confirmed code.                            *)
SameOperation(c, req) == code[c].request = req

ConfirmRetry(a, c, req) ==
  /\ txn[a] = NoTxn /\ ~Locked(c)
  /\ Consumed(c)
  /\ SameOperation(c, req)
  /\ Exists(code[c].kiosk)
  /\ answers' = [answers EXCEPT ![a] = [kiosk |-> code[c].kiosk, request |-> req]]
  /\ UNCHANGED <<now, serverVars, txn, device, saved>>

ConfirmBegin(a, c, req) ==
  /\ txn[a] = NoTxn /\ ~Locked(c)
  /\ code[c].stage = "open"
  /\ code[c].expires >= now
  /\ req.replace # NoCode => Exists(req.replace) /\ kiosk[req.replace].tenant = req.tenant
  /\ txn' = [txn EXCEPT ![a] = [code |-> c, request |-> req]]
  /\ UNCHANGED <<now, serverVars, answers, device, saved>>

createKiosk(c, tenant) ==
  [kiosk EXCEPT ![c] = [state |-> "enabled", tenant |-> tenant, key |-> c]]

(* Rekeying an existing kiosk silently affects no row when the kiosk was   *)
(* deleted after the transaction read it.                                  *)
replaceKioskKey(k, c) == IF Exists(k) THEN [kiosk EXCEPT ![k].key = c] ELSE kiosk

Enrolled(c, req) ==
  IF req.replace = NoCode THEN createKiosk(c, req.tenant) ELSE replaceKioskKey(req.replace, c)

Target(c, req) == IF req.replace = NoCode THEN c ELSE req.replace

markPairingCodeClaimed(c, req) ==
  [code EXCEPT ![c].stage = "claimable", ![c].kiosk = Target(c, req),
               ![c].request = req, ![c].expires = now + Grace]

(* The reply to the caller may be lost: the answer is optional.            *)
ConfirmCommit(a) ==
  LET c == txn[a].code  req == txn[a].request IN
  /\ c # NoCode
  /\ kiosk' = Enrolled(c, req)
  /\ code' = markPairingCodeClaimed(c, req)
  /\ txn' = [txn EXCEPT ![a] = NoTxn]
  /\ \/ answers' = [answers EXCEPT ![a] = [kiosk |-> Target(c, req), request |-> req]]
     \/ UNCHANGED answers
  /\ UNCHANGED <<now, deletedKeys, device, saved>>

(* Mutant: the kiosk is written outside the transaction that fails.        *)
ConfirmAbortPartial(a) ==
  LET c == txn[a].code  req == txn[a].request IN
  /\ c # NoCode
  /\ kiosk' = Enrolled(c, req)
  /\ txn' = [txn EXCEPT ![a] = NoTxn]
  /\ UNCHANGED <<now, code, deletedKeys, answers, device, saved>>

(* A failed sanity check, name search or write rolls everything back.      *)
ConfirmAbort(a) ==
  /\ txn[a].code # NoCode
  /\ txn' = [txn EXCEPT ![a] = NoTxn]
  /\ UNCHANGED <<now, serverVars, answers, device, saved>>

DemoCount == Cardinality({k \in Codes : Exists(k) /\ kiosk[k].tenant = Demo})

(* The demo tenant's row is locked while its capacity is checked.          *)
DemoLocked == \E d \in Devices : txn[d].code # NoCode

(* Mutant: the capacity is read without the tenant's row lock.             *)
DemoFreeUnlocked == DemoCount < MaxDemo

DemoFree == DemoCount < MaxDemo /\ ~DemoLocked

(* POST /api/pair/demo: the device confirms its own code.                  *)
EnrollDemo(d) ==
  LET c == device[d].mem  req == [tenant |-> Demo, replace |-> NoCode] IN
  /\ device[d].pc = "polling"
  /\ \/ ConfirmRetry(d, c, req) /\ ~DemoLocked
     \/ ConfirmBegin(d, c, req) /\ DemoFree

-----------------------------------------------------------------------------
(* Polling: claimPairing as one read.                                      *)

KeyValid(k, c) == k # NoCode /\ kiosk[k].state = "enabled" /\ kiosk[k].key = c

Deliverable(c) == code[c].kiosk # NoCode /\ kiosk[code[c].kiosk].state = "enabled"

ClaimStatus(c) ==
  CASE code[c].stage = "acknowledged" -> "acknowledged"
    [] code[c].stage = "open" /\ code[c].expires > now -> "pending"
    [] code[c].stage = "claimable" /\ code[c].expires > now ->
         IF Deliverable(c) THEN "claimed" ELSE "revoked"
    [] OTHER -> "expired"

claimPairing(d) ==
  /\ device[d].pc = "polling" /\ device[d].reply = "none"
  /\ device' = [device EXCEPT ![d].reply = ClaimStatus(device[d].mem)]
  /\ UNCHANGED <<now, serverVars, txn, answers, saved>>

(* 503: the server cannot read the claim's credentials.                    *)
ClaimFails(d) ==
  /\ device[d].pc = "polling" /\ device[d].reply = "none"
  /\ device' = [device EXCEPT ![d].reply = "failed"]
  /\ UNCHANGED <<now, serverVars, txn, answers, saved>>

(* Mutant: the client gives up on a session by its own clock.              *)
KeepPollingGivesUp(d) ==
  /\ device[d].pc = "polling" /\ device[d].reply # "none"
  /\ device' = [device EXCEPT ![d].pc = "boot", ![d].mem = NoCode,
                              ![d].pending = NoCode, ![d].reply = "none"]
  /\ UNCHANGED <<now, serverVars, txn, answers, saved>>

(* Lost, timed out, 429 or unreadable: the client polls again.  So do      *)
(* pending and failed, and revoked until an operator acts.                 *)
KeepPolling(d) ==
  /\ device[d].pc = "polling" /\ device[d].reply # "none"
  /\ device' = [device EXCEPT ![d].reply = "none"]
  /\ UNCHANGED <<now, serverVars, txn, answers, saved>>

(* Only the server expires a session; the device then asks for a new code. *)
HandleExpired(d) ==
  /\ device[d].pc = "polling" /\ device[d].reply = "expired"
  /\ device' = [device EXCEPT ![d].pc = "boot", ![d].mem = NoCode,
                              ![d].pending = NoCode, ![d].reply = "none"]
  /\ UNCHANGED <<now, serverVars, txn, answers, saved>>

(* identity.json is written; a failed write leaves the claim for a retry   *)
(* (KeepPolling).                                                          *)
SaveIdentity(d) ==
  LET c == device[d].mem IN
  /\ device[d].pc = "polling" /\ device[d].reply = "claimed"
  /\ device' = [device EXCEPT ![d].pc = "saved", ![d].identity = c,
                              ![d].ackDue = TRUE, ![d].reply = "none"]
  /\ saved' = saved \cup {c}
  /\ UNCHANGED <<now, serverVars, txn, answers>>

RemoveSession(d) ==
  /\ device[d].pc = "saved"
  /\ device' = [device EXCEPT ![d].pc = "paired", ![d].pending = NoCode, ![d].mem = NoCode]
  /\ UNCHANGED <<now, serverVars, txn, answers, saved>>

(* POST /api/pair/ack, at the end of pairing, at startup and before every  *)
(* bundle fetch, until its success is recorded in identity.json.  The      *)
(* acknowledgment can take effect and its response be lost.                *)
acknowledgePairing(d) ==
  LET c == device[d].identity IN
  /\ device[d].pc = "paired" /\ device[d].ackDue
  /\ KeyValid(code[c].kiosk, c)
  /\ code' = [code EXCEPT ![c].stage = "acknowledged"]
  /\ \/ device' = [device EXCEPT ![d].ackDue = FALSE]
     \/ UNCHANGED device
  /\ UNCHANGED <<now, kiosk, deletedKeys, txn, answers, saved>>

-----------------------------------------------------------------------------
(* Deletion and revocation.                                                *)

deleteKiosk(k) ==
  /\ Exists(k)
  /\ kiosk' = [kiosk EXCEPT ![k].state = "deleted"]
  /\ deletedKeys' = deletedKeys \cup {kiosk[k].key}
  /\ UNCHANGED <<now, code, txn, answers, device, saved>>

SetEnabled(k) ==
  /\ Exists(k)
  /\ kiosk' = [kiosk EXCEPT ![k].state = IF kiosk[k].state = "enabled" THEN "disabled" ELSE "enabled"]
  /\ UNCHANGED <<now, code, deletedKeys, txn, answers, device, saved>>

(* Mutant: any rejected key counts as a deletion.                          *)
DeletionReportedAny(d) ==
  /\ device[d].pc = "paired"
  /\ ~KeyValid(code[device[d].identity].kiosk, device[d].identity)
  /\ device' = [device EXCEPT ![d].pc = "deleted"]
  /\ UNCHANGED <<now, serverVars, txn, answers, saved>>

(* A heartbeat or bundle request with a deleted key is answered with the   *)
(* deletion envelope; any other rejected key gets 401 and is retained.     *)
DeletionReported(d) ==
  /\ device[d].pc = "paired"
  /\ device[d].identity \in deletedKeys
  /\ device' = [device EXCEPT ![d].pc = "deleted"]
  /\ UNCHANGED <<now, serverVars, txn, answers, saved>>

(* ... and confirmed by a 401 from /api/kiosk/_check before the wipe,      *)
(* which removes identity.json first; power may be lost before the rest.   *)
confirm_deletion(d) ==
  /\ device[d].pc = "deleted"
  /\ \/ /\ ~KeyValid(code[device[d].identity].kiosk, device[d].identity)
        /\ \E p \in {device[d].pending, NoCode} :
             device' = [device EXCEPT ![d] = [NewDevice EXCEPT !.pending = p]]
     \/ device' = [device EXCEPT ![d].pc = "paired"]   \* 200, or no answer
  /\ UNCHANGED <<now, serverVars, txn, answers, saved>>

-----------------------------------------------------------------------------
DeviceStep(d) ==
  \/ \E c \in Codes : initiatePairing(d, c)
  \/ SaveSession(d) \/ SaveSessionFails(d) \/ Boot(d) \/ Crash(d)
  \/ EnrollDemo(d)
  \/ claimPairing(d) \/ ClaimFails(d) \/ KeepPolling(d) \/ HandleExpired(d)
  \/ SaveIdentity(d) \/ RemoveSession(d) \/ acknowledgePairing(d)
  \/ DeletionReported(d) \/ confirm_deletion(d)

AdminStep(a) ==
  \/ \E c \in Codes, t \in Tenants, r \in Codes \cup {NoCode} :
       /\ Displayed(c) \/ Consumed(c)
       /\ \/ ConfirmBegin(a, c, [tenant |-> t, replace |-> r])
          \/ ConfirmRetry(a, c, [tenant |-> t, replace |-> r])

Next ==
  \/ Tick
  \/ \E d \in Devices : DeviceStep(d)
  \/ \E a \in Admins : AdminStep(a)
  \/ \E a \in Callers : ConfirmCommit(a) \/ ConfirmAbort(a)
  \/ \E k \in Codes : deleteKiosk(k) \/ SetEnabled(k)

Spec == Init /\ [][Next]_vars

(* The client polls for ever; polls are not answered wrongly, and their    *)
(* responses not lost or unsaved, every time.                              *)
Fairness ==
  \A d \in Devices :
    /\ WF_vars(Boot(d)) /\ WF_vars(KeepPolling(d))
    /\ SF_vars(claimPairing(d)) /\ SF_vars(SaveIdentity(d))

FairSpec == Spec /\ Fairness

-----------------------------------------------------------------------------
(* Confirmation is atomic (repo.transact): every kiosk row was created by  *)
(* a code that records it, and the key a kiosk accepts was issued by a     *)
(* confirmed code that points back at that kiosk.  So a failed, repeated   *)
(* or racing confirmation never leaves a second kiosk or a lost key.       *)
ConfirmIsAtomic ==
  \A k \in Codes :
    kiosk[k].state # "none" =>
      /\ Consumed(k) /\ code[k].kiosk = k
      /\ Consumed(kiosk[k].key) /\ code[kiosk[k].key].kiosk = k

(* "Credentials are removed only after the authenticated kiosk confirms    *)
(* durable storage": an acknowledged code's credentials are on a device.   *)
AcknowledgedMeansSaved == \A c \in Codes : code[c].stage = "acknowledged" => c \in saved

(* "Never leak another tenant's claimed kiosk through an operator's        *)
(* repeated submission": whatever a confirmation returns belongs to the    *)
(* tenant that asked.                                                      *)
AnswersStayInTenant ==
  \A a \in Callers :
    answers[a].kiosk # NoCode => kiosk[answers[a].kiosk].tenant = answers[a].request.tenant

(* Codes, claims and kiosks as a whole: the claims above.                  *)
PairingSafe ==
  TypeOK /\ ConfirmIsAtomic /\ AcknowledgedMeansSaved /\ AnswersStayInTenant

(* Concurrent demo enrollments cannot overfill the demo tenant.            *)
DemoWithinCapacity == DemoCount <= MaxDemo

(* A device discards a saved identity only after its kiosk was deleted:    *)
(* not because of a 401, a disabled kiosk, a rekeyed one or a lost answer. *)
IdentityOutlivesRejection ==
  [][\A d \in Devices :
       (device[d].identity # NoCode /\ device'[d].identity # device[d].identity)
         => device[d].identity \in deletedKeys]_vars

(* A device that holds a confirmed code ends up with a saved identity,     *)
(* whatever responses are lost and however often it crashes, unless the    *)
(* claim lapses, the kiosk is revoked, or it reboots for ever.  An answer  *)
(* "expired" given before the confirmation committed is the exception      *)
(* ConfirmedClaimIsHeld is about.                                          *)
ConfirmedDeviceIsPaired ==
  \A d \in Devices, c \in Codes :
    \/ []<>(device[d].pc = "boot")
    \/ (device[d].pending = c /\ code[c].stage = "claimable" /\ device[d].reply # "expired")
         ~> \/ c \in saved
            \/ code[c].expires <= now
            \/ ~Deliverable(c)

=============================================================================
