------------------------- MODULE IoBoxPairingProofs -------------------------
(***************************************************************************)
(* Enrolment of an ioBOX for any serials, tenants, secrets and repeated    *)
(* requests: a serial gets one box, no device is locked out, the retry     *)
(* envelope is forgotten, and the protocol implements CredentialHandover.  *)
(* Then the boxes at work: what a device holds and runs, whatever is       *)
(* written, imported, lost or switched off meanwhile.  Last the rows made  *)
(* of an ONVIF device, for any profiles, edits and overlapping imports.    *)
(***************************************************************************)
EXTENDS IoBoxPairing, IoBoxDevices, CameraDevices, FiniteSetTheorems, TLAPS

SerialRows == [reg : BOOLEAN, paired : Nat, tenant : IoTenants]
ClaimRows == [secret : Nat, env : Nat]
Boxes == [s : Serials, id : Nat \ {0}, tenant : IoTenants, on : BOOLEAN]
Devs == [secret : Nat, key : Nat, ackp : BOOLEAN,
         pc : {"idle", "announce", "claim", "ack"}, try : 1..MaxTries]
Reqs == [pc : {"none", "sent", "arrived", "locked"}, secret : Nat, key : Nat,
         tenant : IoTenants, row : SerialRows, claim : ClaimRows]
Answers == [ok : BOOLEAN, key : Nat, done : BOOLEAN]

IoTypeOK ==
  /\ ioActive \in [IoTenants -> BOOLEAN]
  /\ ioSerial \in [Serials -> SerialRows]
  /\ ioClaim \in [Serials -> ClaimRows]
  /\ ioBoxes \subseteq Boxes
  /\ ioDev \in [Serials -> Devs]
  /\ ioReq \in [IoRequests -> Reqs]
  /\ ioAns \in [Serials -> Answers]
  /\ ioLegacy \subseteq Serials
  /\ ioGen \in [Serials -> Nat]
  /\ ioStored \in [Serials -> BOOLEAN]

(* A transaction that holds a serial's row is alone, and what it has read  *)
(* is still in the database; a registration may have been added.           *)
LocksHold ==
  \A r \in IoRequests : ioReq[r].pc = "locked" =>
    /\ ioReq[r].row.paired = ioSerial[r.s].paired
    /\ ioReq[r].row.tenant = ioSerial[r.s].tenant
    /\ ioReq[r].claim = ioClaim[r.s]
    /\ \A q \in IoRequests : ioReq[q].pc = "locked" /\ q.s = r.s => q = r

(* No secret in a device, in a request or on the server is one the device  *)
(* has yet to generate.                                                    *)
SecretsGenerated ==
  /\ \A s \in Serials : ioDev[s].secret <= ioGen[s] /\ ioClaim[s].secret <= ioGen[s]
  /\ \A r \in IoRequests : ioReq[r].secret <= ioGen[r.s]

(* A serial's only box is the one its registration names.                  *)
BoxesNamed ==
  /\ \A b, c \in ioBoxes : b.s = c.s => b = c
  /\ \A b \in ioBoxes : ioSerial[b.s].paired = b.id /\ ioSerial[b.s].tenant = b.tenant

(* The retry envelope holds the credential the serial was paired with, and *)
(* exists only for a serial that is bound to a secret.                     *)
EnvelopesTrue ==
  \A s \in Serials :
    /\ ioClaim[s].env \in {0, ioSerial[s].paired}
    /\ ioClaim[s].secret = 0 => ioClaim[s].env = 0

(* What a device has in storage at each point of the protocol.             *)
DevicesHold ==
  \A s \in Serials :
    /\ ioDev[s].key # 0 => ioDev[s].key = ioSerial[s].paired /\ ioStored[s]
    /\ ioDev[s].pc \in {"announce", "claim"} => ioDev[s].key = 0
    /\ ioDev[s].ackp \/ ioDev[s].pc = "ack" => ioDev[s].key # 0

(* An acknowledgement under way was sent by a device that had stored its   *)
(* identity; if that storage was not erased since, the identity is there.  *)
AcksFollowStorage ==
  \A r \in IoRequests : r.kind = "ack" /\ ioReq[r].pc # "none" =>
    /\ ioStored[r.s] /\ ioReq[r].key # 0
    /\ ioReq[r].secret # 0 /\ ioReq[r].secret = ioDev[r.s].secret
         => ioDev[r.s].key = ioReq[r].key

(* A positive answer the device waits for is still true.                   *)
AnswersTrue ==
  \A s \in Serials : ioAns[s].done /\ ioAns[s].ok =>
    /\ ioDev[s].pc = "claim" => ioAns[s].key # 0 /\ ioAns[s].key = ioSerial[s].paired
    /\ ioDev[s].pc = "ack" => ioSerial[s].paired # 0 /\ ioClaim[s].env = 0

EnrolInv ==
  /\ IoTypeOK /\ LocksHold /\ SecretsGenerated /\ BoxesNamed /\ EnvelopesTrue
  /\ DevicesHold /\ AcksFollowStorage /\ AnswersTrue
  /\ NeverLockedOut /\ SettledMeansForgotten

-----------------------------------------------------------------------------
(* What the recurring parts of the actions do, request by request and      *)
(* serial by serial.                                                       *)
LEMMA AnswerEffect ==
  ASSUME IoTypeOK, NEW r \in IoRequests, NEW ok \in BOOLEAN, NEW key \in Nat, Answer(r, ok, key)
  PROVE  /\ ioReq' \in [IoRequests -> Reqs] /\ ioAns' \in [Serials -> Answers]
         /\ \A q \in IoRequests : q # r => ioReq'[q] = ioReq[q]
         /\ ioReq'[r].pc = "none" /\ ioReq'[r].secret = 0
         /\ \A s \in Serials : ioAns'[s] # ioAns[s] =>
              /\ s = r.s /\ ioDev[s].pc = r.kind
              /\ ioAns'[s] = [ok |-> ok, key |-> key, done |-> TRUE]
<1>1. r.s \in Serials BY DEF IoRequests
<1>2. Unsent \in Reqs
  BY IoPairAssumption DEF Unsent, Reqs, NoRow, SerialRows, NoIoClaim, ClaimRows
<1>3. [ok |-> ok, key |-> key, done |-> TRUE] \in Answers BY DEF Answers
<1>4. ioReq' = [ioReq EXCEPT ![r] = Unsent] BY DEF Answer
<1>5. CASE ioDev[r.s].pc = r.kind /\ ioDev[r.s].try = r.try
  <2>1. ioAns' = [ioAns EXCEPT ![r.s] = [ok |-> ok, key |-> key, done |-> TRUE]]
    BY <1>5 DEF Answer
  <2> QED BY <2>1, <1>1, <1>2, <1>3, <1>4, <1>5 DEF IoTypeOK, Unsent
<1>6. CASE ~(ioDev[r.s].pc = r.kind /\ ioDev[r.s].try = r.try)
  <2>1. ioAns' = ioAns BY <1>6 DEF Answer
  <2> QED BY <2>1, <1>2, <1>4 DEF IoTypeOK, Unsent
<1> QED BY <1>5, <1>6

LEMMA SendEffect ==
  ASSUME IoTypeOK, NEW s \in Serials, NEW kind \in {"announce", "claim", "ack"},
         NEW dev \in Devs, Send(s, kind, dev)
  PROVE  /\ ioReq' \in [IoRequests -> Reqs] /\ ioAns' \in [Serials -> Answers]
         /\ ioDev' \in [Serials -> Devs]
         /\ \E r \in IoRequests :
              /\ r.s = s /\ r.kind = kind /\ ioReq[r].pc = "none"
              /\ ioReq'[r].pc = "sent" /\ ioReq'[r].secret = dev.secret /\ ioReq'[r].key = dev.key
              /\ \A q \in IoRequests : q # r => ioReq'[q] = ioReq[q]
         /\ \A t \in Serials : t # s => ioDev'[t] = ioDev[t] /\ ioAns'[t] = ioAns[t]
         /\ ioDev'[s].secret = dev.secret /\ ioDev'[s].key = dev.key
         /\ ioDev'[s].ackp = dev.ackp /\ ioDev'[s].pc = kind
         /\ ~ioAns'[s].done
<1>1. PICK a \in 1..MaxTries :
        LET r == [kind |-> kind, s |-> s, try |-> a] IN
        /\ ioReq[r].pc = "none"
        /\ ioReq' = [ioReq EXCEPT ![r] = [Unsent EXCEPT !.pc = "sent", !.secret = dev.secret,
                                                        !.key = dev.key]]
        /\ ioDev' = [ioDev EXCEPT ![s] = [dev EXCEPT !.pc = kind, !.try = a]]
        /\ ioAns' = [ioAns EXCEPT ![s] = NoAns]
  BY DEF Send
<1> DEFINE r == [kind |-> kind, s |-> s, try |-> a]
<1>2. r \in IoRequests /\ r.s = s /\ r.kind = kind BY DEF IoRequests
<1> DEFINE sent == [Unsent EXCEPT !.pc = "sent", !.secret = dev.secret, !.key = dev.key]
<1> DEFINE next == [dev EXCEPT !.pc = kind, !.try = a]
<1>3. sent \in Reqs /\ sent.pc = "sent" /\ sent.secret = dev.secret /\ sent.key = dev.key
  BY IoPairAssumption DEF Unsent, Reqs, NoRow, SerialRows, NoIoClaim, ClaimRows, Devs
<1>4. /\ next \in Devs /\ next.secret = dev.secret /\ next.key = dev.key
      /\ next.ackp = dev.ackp /\ next.pc = kind
  BY DEF Devs
<1>5. NoAns \in Answers /\ ~NoAns.done BY DEF NoAns, Answers
<1>6. /\ ioReq[r].pc = "none" /\ ioReq' = [ioReq EXCEPT ![r] = sent]
      /\ ioDev' = [ioDev EXCEPT ![s] = next] /\ ioAns' = [ioAns EXCEPT ![s] = NoAns]
  BY <1>1
<1> HIDE DEF r, sent, next
<1> QED BY <1>2, <1>3, <1>4, <1>5, <1>6 DEF IoTypeOK

LEMMA EnrolInvInit == IoPairInit => EnrolInv
<1> SUFFICES ASSUME IoPairInit PROVE EnrolInv
  OBVIOUS
<1> USE IoPairAssumption DEF IoPairInit
<1>1. IoTypeOK
  <2>1. /\ NoRow \in SerialRows /\ NoIoClaim \in ClaimRows /\ NoAns \in Answers
        /\ [secret |-> 0, key |-> 0, ackp |-> FALSE, pc |-> "idle", try |-> 1] \in Devs
    BY DEF NoRow, SerialRows, NoIoClaim, ClaimRows, NoAns, Answers, Devs
  <2>2. Unsent \in Reqs BY <2>1 DEF Unsent, Reqs
  <2> QED BY <2>1, <2>2 DEF IoTypeOK
<1>2. /\ \A r \in IoRequests : ioReq[r].pc = "none" /\ ioReq[r].secret = 0 /\ r.s \in Serials
      /\ \A s \in Serials : /\ ioSerial[s].paired = 0 /\ ioClaim[s].env = 0 /\ ioClaim[s].secret = 0
                            /\ ioDev[s].key = 0 /\ ~ioDev[s].ackp /\ ioDev[s].pc = "idle"
                            /\ ioDev[s].secret = 0 /\ ioGen[s] = 0 /\ ~ioAns[s].done
  BY DEF Unsent, NoRow, NoIoClaim, NoAns, IoRequests
<1> QED
  BY <1>1, <1>2 DEF EnrolInv, LocksHold, SecretsGenerated, BoxesNamed, EnvelopesTrue, DevicesHold,
     AcksFollowStorage, AnswersTrue, NeverLockedOut, SettledMeansForgotten

-----------------------------------------------------------------------------
(* Requests that fail, and the steps before a transaction's first write.   *)
LEMMA RefusedStep ==
  ASSUME EnrolInv, NEW r \in IoRequests, Refused(r)
  PROVE  EnrolInv'
<1> USE DEF EnrolInv
<1>1. /\ ioReq' \in [IoRequests -> Reqs] /\ ioAns' \in [Serials -> Answers]
      /\ \A q \in IoRequests : q # r => ioReq'[q] = ioReq[q]
      /\ ioReq'[r].pc = "none" /\ ioReq'[r].secret = 0
      /\ \A s \in Serials : ioAns'[s] # ioAns[s] => ~ioAns'[s].ok
  <2>1. Answer(r, FALSE, 0) /\ FALSE \in BOOLEAN /\ 0 \in Nat BY DEF Refused
  <2>2. \A s \in Serials : ioAns'[s] # ioAns[s] =>
          ioAns'[s] = [ok |-> FALSE, key |-> 0, done |-> TRUE]
    BY <2>1, AnswerEffect
  <2>3. \A s \in Serials : ioAns'[s] # ioAns[s] => ~ioAns'[s].ok BY <2>2
  <2> QED BY <2>1, <2>3, AnswerEffect
<1>2. UNCHANGED <<ioActive, ioSerial, ioClaim, ioBoxes, ioLegacy, ioDev, ioGen, ioStored>>
  BY DEF Refused, ioDbVars
<1>3. r.s \in Serials BY DEF IoRequests
<1>4. IoTypeOK' BY <1>1, <1>2 DEF IoTypeOK
<1>5. LocksHold' BY <1>1, <1>2 DEF LocksHold
<1>6. SecretsGenerated' BY <1>1, <1>2, <1>3 DEF SecretsGenerated, IoTypeOK
<1>7. BoxesNamed' /\ EnvelopesTrue' /\ DevicesHold' /\ NeverLockedOut' /\ SettledMeansForgotten'
  BY <1>2 DEF BoxesNamed, EnvelopesTrue, DevicesHold, NeverLockedOut, SettledMeansForgotten
<1>8. AcksFollowStorage' BY <1>1, <1>2 DEF AcksFollowStorage
<1>9. AnswersTrue' BY <1>1, <1>2 DEF AnswersTrue
<1> QED BY <1>4, <1>5, <1>6, <1>7, <1>8, <1>9

LEMMA ArriveStep ==
  ASSUME EnrolInv, NEW r \in IoRequests, Arrive(r)
  PROVE  EnrolInv'
<1> USE DEF EnrolInv
<1>1. UNCHANGED <<ioActive, ioSerial, ioClaim, ioBoxes, ioLegacy, ioDev, ioAns, ioGen, ioStored>>
  BY DEF Arrive, ioDbVars, ioBoxVars
<1>2. /\ ioReq[r].pc = "sent" /\ ioReq' \in [IoRequests -> Reqs]
      /\ \A q \in IoRequests : q # r => ioReq'[q] = ioReq[q]
      /\ ioReq'[r].pc = "arrived" /\ ioReq'[r].secret = ioReq[r].secret /\ ioReq'[r].key = ioReq[r].key
  <2>1. \E t \in IoTenants :
          \/ ioReq' = [ioReq EXCEPT ![r].pc = "arrived"]
          \/ ioReq' = [ioReq EXCEPT ![r].pc = "arrived", ![r].tenant = t]
    BY IoPairAssumption DEF Arrive, resolveTenantForIoBoxClaim, verifyIoBoxKey, IoTypeOK, Boxes
  <2> QED BY <2>1 DEF Arrive, IoTypeOK, Reqs
<1>3. IoTypeOK' BY <1>1, <1>2 DEF IoTypeOK
<1>4. LocksHold' BY <1>1, <1>2 DEF LocksHold
<1>5. SecretsGenerated' BY <1>1, <1>2 DEF SecretsGenerated
<1>6. BoxesNamed' /\ EnvelopesTrue' /\ DevicesHold' /\ NeverLockedOut' /\ SettledMeansForgotten'
  BY <1>1 DEF BoxesNamed, EnvelopesTrue, DevicesHold, NeverLockedOut, SettledMeansForgotten
<1>7. AcksFollowStorage' BY <1>1, <1>2 DEF AcksFollowStorage
<1>8. AnswersTrue' BY <1>1 DEF AnswersTrue
<1> QED BY <1>3, <1>4, <1>5, <1>6, <1>7, <1>8

LEMMA LockStep ==
  ASSUME EnrolInv, NEW r \in IoRequests, LockSerial(r)
  PROVE  EnrolInv'
<1> USE DEF EnrolInv
<1>1. UNCHANGED <<ioActive, ioSerial, ioClaim, ioBoxes, ioLegacy, ioDev, ioAns, ioGen, ioStored>>
  BY DEF LockSerial, ioDbVars, ioBoxVars
<1>2. /\ ioReq[r].pc = "arrived" /\ ioReq' \in [IoRequests -> Reqs] /\ r.s \in Serials
      /\ \A q \in IoRequests : q # r => ioReq'[q] = ioReq[q]
      /\ ioReq'[r].pc = "locked" /\ ioReq'[r].secret = ioReq[r].secret /\ ioReq'[r].key = ioReq[r].key
      /\ ioReq'[r].row = ioSerial[r.s] /\ ioReq'[r].claim = ioClaim[r.s]
      /\ \A q \in IoRequests : q.s = r.s => ioReq[q].pc # "locked"
  <2>1. r.s \in Serials BY DEF IoRequests
  <2>2. ioSerial[r.s] \in SerialRows /\ ioClaim[r.s] \in ClaimRows BY <2>1 DEF IoTypeOK
  <2> DEFINE held == [ioReq[r] EXCEPT !.pc = "locked", !.row = ioSerial[r.s], !.claim = ioClaim[r.s]]
  <2>3. /\ held \in Reqs /\ held.pc = "locked" /\ held.secret = ioReq[r].secret
        /\ held.key = ioReq[r].key /\ held.row = ioSerial[r.s] /\ held.claim = ioClaim[r.s]
    BY <2>2 DEF IoTypeOK, Reqs
  <2>4. ioReq' = [ioReq EXCEPT ![r] = held] BY DEF LockSerial
  <2> HIDE DEF held
  <2>5. /\ ioReq' \in [IoRequests -> Reqs] /\ ioReq'[r] = held
        /\ \A q \in IoRequests : q # r => ioReq'[q] = ioReq[q]
    BY <2>3, <2>4 DEF IoTypeOK
  <2> QED BY <2>1, <2>3, <2>5 DEF LockSerial
<1>3. IoTypeOK' BY <1>1, <1>2 DEF IoTypeOK
<1>4. LocksHold' BY <1>1, <1>2 DEF LocksHold
<1>5. SecretsGenerated' BY <1>1, <1>2 DEF SecretsGenerated
<1>6. BoxesNamed' /\ EnvelopesTrue' /\ DevicesHold' /\ NeverLockedOut' /\ SettledMeansForgotten'
  BY <1>1 DEF BoxesNamed, EnvelopesTrue, DevicesHold, NeverLockedOut, SettledMeansForgotten
<1>7. AcksFollowStorage' BY <1>1, <1>2 DEF AcksFollowStorage
<1>8. AnswersTrue' BY <1>1 DEF AnswersTrue
<1> QED BY <1>3, <1>4, <1>5, <1>6, <1>7, <1>8

-----------------------------------------------------------------------------
(* The transactions.                                                       *)

(* Binding leaves a claim row alone or fills an empty one before the       *)
(* serial is paired.                                                       *)
LEMMA BoundClaim ==
  ASSUME EnrolInv, NEW r \in IoRequests, ioReq[r].pc = "locked",
         NEW c \in bindIoBoxProvisioning(ioReq[r].row, ioReq[r].claim, ioReq[r].secret)
  PROVE  /\ c \in ClaimRows
         /\ \/ c = ioClaim[r.s]
            \/ /\ c = [secret |-> ioReq[r].secret, env |-> 0] /\ ioReq[r].secret # 0
               /\ ioClaim[r.s].secret = 0 /\ ioSerial[r.s].paired = 0
<1> r.s \in Serials BY DEF IoRequests
<1> QED BY DEF EnrolInv, LocksHold, IoTypeOK, Reqs, SerialRows, ClaimRows, bindIoBoxProvisioning

\* A transaction ends and leaves the rows of other serials alone.
LEMMA LocksReleased ==
  ASSUME EnrolInv, NEW r \in IoRequests, ioReq[r].pc = "locked", ioReq'[r].pc = "none",
         \A q \in IoRequests : q # r => ioReq'[q] = ioReq[q],
         \A s \in Serials : s # r.s => ioSerial'[s] = ioSerial[s] /\ ioClaim'[s] = ioClaim[s]
  PROVE  LocksHold'
<1> USE DEF EnrolInv
<1> SUFFICES ASSUME NEW q \in IoRequests, ioReq'[q].pc = "locked"
             PROVE  /\ ioReq'[q] = ioReq[q] /\ ioReq[q].pc = "locked"
                    /\ ioClaim'[q.s] = ioClaim[q.s] /\ ioSerial'[q.s] = ioSerial[q.s]
                    /\ \A p \in IoRequests : ioReq'[p].pc = "locked" => ioReq[p].pc = "locked"
  BY DEF LocksHold
<1>1. q # r /\ q.s \in Serials BY DEF IoRequests
<1>2. q.s # r.s BY <1>1 DEF LocksHold
<1> QED BY <1>1, <1>2

\* The secret of a claim row comes from the row or from the request.
LEMMA SecretsKept ==
  ASSUME EnrolInv, NEW r \in IoRequests, UNCHANGED <<ioDev, ioGen>>,
         ioReq'[r].secret = 0, \A q \in IoRequests : q # r => ioReq'[q] = ioReq[q],
         \A s \in Serials : \/ ioClaim'[s].secret = ioClaim[s].secret
                            \/ s = r.s /\ ioClaim'[s].secret = ioReq[r].secret
  PROVE  SecretsGenerated'
<1> USE DEF EnrolInv
<1>1. r.s \in Serials BY DEF IoRequests
<1>2. 0 <= ioGen[r.s] BY <1>1 DEF IoTypeOK
<1>3. \A s \in Serials : ioClaim'[s].secret <= ioGen[s] BY DEF SecretsGenerated
<1>4. \A q \in IoRequests : ioReq'[q].secret <= ioGen[q.s] BY <1>2 DEF SecretsGenerated
<1> QED BY <1>3, <1>4 DEF SecretsGenerated

LEMMA AnnounceStep ==
  ASSUME EnrolInv, NEW r \in IoRequests, announce(r)
  PROVE  EnrolInv'
<1> USE DEF EnrolInv
<1>1. /\ ioReq[r].pc = "locked" /\ r.s \in Serials
      /\ UNCHANGED <<ioActive, ioLegacy, ioSerial, ioBoxes, ioDev, ioGen, ioStored>>
  BY DEF announce, IoRequests
<1>2. PICK c \in bindIoBoxProvisioning(ioReq[r].row, ioReq[r].claim, ioReq[r].secret) :
        ioClaim' = [ioClaim EXCEPT ![r.s] = c]
  BY DEF announce
<1>3. /\ c \in ClaimRows
      /\ \/ c = ioClaim[r.s]
         \/ /\ c.secret = ioReq[r].secret /\ c.env = 0 /\ ioReq[r].secret # 0
            /\ ioClaim[r.s].secret = 0 /\ ioSerial[r.s].paired = 0
  BY <1>1, BoundClaim
<1>4. /\ ioReq' \in [IoRequests -> Reqs] /\ ioAns' \in [Serials -> Answers]
      /\ \A q \in IoRequests : q # r => ioReq'[q] = ioReq[q]
      /\ ioReq'[r].pc = "none" /\ ioReq'[r].secret = 0
      /\ \A s \in Serials : ioAns'[s] # ioAns[s] => ioDev[s].pc = "announce"
  <2>1. Answer(r, TRUE, 0) /\ r.kind = "announce" BY DEF announce
  <2> QED BY <2>1, AnswerEffect
<1>5. /\ ioClaim' \in [Serials -> ClaimRows]
      /\ \A s \in Serials : ioClaim'[s] = IF s = r.s THEN c ELSE ioClaim[s]
  BY <1>1, <1>2, <1>3 DEF IoTypeOK
<1>6. \A s \in Serials : ioClaim'[s].env = ioClaim[s].env
  BY <1>3, <1>5 DEF EnvelopesTrue
<1>7. IoTypeOK' BY <1>1, <1>4, <1>5 DEF IoTypeOK
<1>8. LocksHold' BY <1>1, <1>4, <1>5, LocksReleased
<1>9. SecretsGenerated' BY <1>1, <1>3, <1>4, <1>5, SecretsKept
<1>10. BoxesNamed' BY <1>1 DEF BoxesNamed
<1>11. EnvelopesTrue' BY <1>1, <1>3, <1>5 DEF EnvelopesTrue
<1>12. DevicesHold' BY <1>1 DEF DevicesHold
<1>13. AcksFollowStorage' BY <1>1, <1>4 DEF AcksFollowStorage
<1>14. AnswersTrue' BY <1>1, <1>4, <1>6 DEF AnswersTrue
<1>15. NeverLockedOut' BY <1>1, <1>3, <1>5 DEF NeverLockedOut
<1>16. SettledMeansForgotten' BY <1>1, <1>6 DEF SettledMeansForgotten
<1> QED BY <1>7, <1>8, <1>9, <1>10, <1>11, <1>12, <1>13, <1>14, <1>15, <1>16

LEMMA ClaimIssueEffect ==
  ASSUME EnrolInv, NEW r \in IoRequests, claimIssue(r)
  PROVE  /\ ioReq[r].pc = "locked" /\ r.s \in Serials /\ r.kind = "claim"
         /\ ioSerial[r.s].paired = 0 /\ Answer(r, TRUE, 1)
         /\ UNCHANGED <<ioActive, ioLegacy, ioDev, ioGen, ioStored>>
         /\ ioClaim' \in [Serials -> ClaimRows]
         /\ \A s \in Serials : s # r.s => ioClaim'[s] = ioClaim[s] /\ ioSerial'[s] = ioSerial[s]
         /\ ioClaim'[r.s].secret \in {ioClaim[r.s].secret, ioReq[r].secret}
         /\ ioClaim'[r.s].env = IF ioClaim'[r.s].secret = 0 THEN 0 ELSE 1
         /\ ioSerial' \in [Serials -> SerialRows]
         /\ ioSerial'[r.s].paired = 1 /\ ioSerial'[r.s].tenant = ioReq[r].tenant
         /\ \E b \in Boxes : /\ ioBoxes' = ioBoxes \cup {b}
                             /\ b.s = r.s /\ b.id = 1 /\ b.tenant = ioReq[r].tenant
<1> USE DEF EnrolInv
<1> DEFINE q == ioReq[r]
           own == {b \in ioBoxes : b.s = r.s}
           box == createIoBox(r.s, 1, q.tenant)
\* The serial is not paired, so it has no box and its row names none.
<1>1. /\ q.pc = "locked" /\ r.s \in Serials /\ q \in Reqs
      /\ ioSerial[r.s].paired = 0
      /\ UNCHANGED <<ioActive, ioLegacy, ioDev, ioGen, ioStored>>
  BY DEF claimIssue, IoRequests, LocksHold, IoTypeOK
<1>2. Cardinality(own) = 0
  <2>1. own = {} BY <1>1 DEF BoxesNamed, IoTypeOK, Boxes
  <2> QED BY <2>1, FS_EmptySet
<1> HIDE DEF own
<1>3. /\ ioBoxes' = ioBoxes \cup {box}
      /\ ioSerial' = [ioSerial EXCEPT ![r.s].paired = 1, ![r.s].tenant = q.tenant]
      /\ Answer(r, TRUE, 1) /\ r.kind = "claim"
      /\ \E c \in Admitted(q) :
           ioClaim' = [ioClaim EXCEPT ![r.s] = IF c.secret = 0 THEN c ELSE [c EXCEPT !.env = 1]]
  <2> DEFINE n == Cardinality(own) + 1
  <2>1. n = 1 BY <1>2
  <2>2. /\ ioBoxes' = ioBoxes \cup {createIoBox(r.s, n, q.tenant)}
        /\ ioSerial' = [ioSerial EXCEPT ![r.s].paired = n, ![r.s].tenant = q.tenant]
        /\ Answer(r, TRUE, n) /\ r.kind = "claim"
        /\ \E c \in Admitted(q) :
             ioClaim' = [ioClaim EXCEPT ![r.s] = IF c.secret = 0 THEN c ELSE [c EXCEPT !.env = n]]
    BY DEF claimIssue, own
  <2> HIDE DEF n
  <2> QED BY <2>1, <2>2
<1>4. PICK c \in Admitted(q) :
        ioClaim' = [ioClaim EXCEPT ![r.s] = IF c.secret = 0 THEN c ELSE [c EXCEPT !.env = 1]]
  BY <1>3
<1>5. /\ c \in ClaimRows /\ c.env = 0
      /\ c.secret = ioClaim[r.s].secret \/ c.secret = q.secret
  BY <1>1, <1>4, BoundClaim DEF Admitted, EnvelopesTrue
<1> DEFINE row == IF c.secret = 0 THEN c ELSE [c EXCEPT !.env = 1]
<1>6. /\ row \in ClaimRows /\ row.secret = c.secret
      /\ row.env = IF c.secret = 0 THEN 0 ELSE 1
  BY <1>5 DEF ClaimRows
<1> HIDE DEF row
<1>7. /\ ioClaim' \in [Serials -> ClaimRows] /\ ioClaim'[r.s] = row
      /\ \A s \in Serials : s # r.s => ioClaim'[s] = ioClaim[s]
  <2>1. ioClaim' = [ioClaim EXCEPT ![r.s] = row] BY <1>4 DEF row
  <2> QED BY <1>1, <1>6, <2>1 DEF IoTypeOK
<1>8. /\ ioSerial' \in [Serials -> SerialRows]
      /\ ioSerial'[r.s].paired = 1 /\ ioSerial'[r.s].tenant = q.tenant
      /\ \A s \in Serials : s # r.s => ioSerial'[s] = ioSerial[s]
  <2> DEFINE new == [ioSerial[r.s] EXCEPT !.paired = 1, !.tenant = q.tenant]
  <2>1. new \in SerialRows /\ new.paired = 1 /\ new.tenant = q.tenant
    BY <1>1 DEF IoTypeOK, SerialRows, Reqs
  <2>2. ioSerial' = [ioSerial EXCEPT ![r.s] = new] BY <1>1, <1>3 DEF IoTypeOK
  <2> HIDE DEF new
  <2> QED BY <1>1, <2>1, <2>2 DEF IoTypeOK
<1>9. box \in Boxes /\ box.s = r.s /\ box.id = 1 /\ box.tenant = q.tenant
  BY <1>1 DEF createIoBox, Boxes, Reqs
<1> QED
  <2> HIDE DEF box
  <2> QED BY <1>1, <1>3, <1>5, <1>6, <1>7, <1>8, <1>9

LEMMA ClaimIssueStep ==
  ASSUME EnrolInv, NEW r \in IoRequests, claimIssue(r)
  PROVE  EnrolInv'
<1> USE DEF EnrolInv
<1>1. /\ ioReq[r].pc = "locked" /\ r.s \in Serials /\ r.kind = "claim"
      /\ ioSerial[r.s].paired = 0 /\ Answer(r, TRUE, 1)
      /\ UNCHANGED <<ioActive, ioLegacy, ioDev, ioGen, ioStored>>
  BY ClaimIssueEffect
<1>2. /\ ioClaim' \in [Serials -> ClaimRows] /\ ioSerial' \in [Serials -> SerialRows]
      /\ \A s \in Serials : s # r.s => ioClaim'[s] = ioClaim[s] /\ ioSerial'[s] = ioSerial[s]
      /\ ioClaim'[r.s].secret \in {ioClaim[r.s].secret, ioReq[r].secret}
      /\ ioClaim'[r.s].env = IF ioClaim'[r.s].secret = 0 THEN 0 ELSE 1
      /\ ioSerial'[r.s].paired = 1 /\ ioSerial'[r.s].tenant = ioReq[r].tenant
  BY ClaimIssueEffect
<1>3. PICK b \in Boxes : /\ ioBoxes' = ioBoxes \cup {b}
                         /\ b.s = r.s /\ b.id = 1 /\ b.tenant = ioReq[r].tenant
  BY ClaimIssueEffect
<1>4. /\ ioReq' \in [IoRequests -> Reqs] /\ ioAns' \in [Serials -> Answers]
      /\ \A p \in IoRequests : p # r => ioReq'[p] = ioReq[p]
      /\ ioReq'[r].pc = "none" /\ ioReq'[r].secret = 0
      /\ \A s \in Serials : ioAns'[s] # ioAns[s] =>
           s = r.s /\ ioDev[s].pc = "claim" /\ ioAns'[s].key = 1
  <2>1. TRUE \in BOOLEAN /\ 1 \in Nat OBVIOUS
  <2>2. \A s \in Serials : ioAns'[s] # ioAns[s] =>
          s = r.s /\ ioDev[s].pc = "claim" /\ ioAns'[s] = [ok |-> TRUE, key |-> 1, done |-> TRUE]
    BY <1>1, <2>1, AnswerEffect, ZenonT(60)
  <2>3. \A s \in Serials : ioAns'[s] # ioAns[s] =>
          s = r.s /\ ioDev[s].pc = "claim" /\ ioAns'[s].key = 1
    BY <2>2
  <2> QED BY <1>1, <2>1, <2>3, AnswerEffect
<1>5. IoTypeOK' BY <1>1, <1>2, <1>3, <1>4 DEF IoTypeOK
<1>6. LocksHold' BY <1>1, <1>2, <1>4, LocksReleased
<1>7. SecretsGenerated' BY <1>1, <1>2, <1>4, SecretsKept
<1>8. BoxesNamed'
  <2>1. \A c \in ioBoxes : c.s # r.s /\ c.s \in Serials
    BY <1>1 DEF BoxesNamed, IoTypeOK, Boxes
  <2> QED BY <1>2, <1>3, <2>1 DEF BoxesNamed
<1>9. EnvelopesTrue' BY <1>1, <1>2 DEF EnvelopesTrue
<1>10. DevicesHold' BY <1>1, <1>2 DEF DevicesHold
<1>11. AcksFollowStorage' BY <1>1, <1>4 DEF AcksFollowStorage
<1>12. AnswersTrue' BY <1>1, <1>2, <1>4 DEF AnswersTrue
<1>13. NeverLockedOut' BY <1>1, <1>2 DEF NeverLockedOut
<1>14. SettledMeansForgotten' BY <1>1, <1>2 DEF SettledMeansForgotten, DevicesHold
<1> QED BY <1>5, <1>6, <1>7, <1>8, <1>9, <1>10, <1>11, <1>12, <1>13, <1>14

LEMMA ClaimReissueStep ==
  ASSUME EnrolInv, NEW r \in IoRequests, claimReissue(r)
  PROVE  EnrolInv'
<1> USE DEF EnrolInv
<1> DEFINE key == ioReq[r].claim.env
<1>1. /\ ioReq[r].pc = "locked" /\ r.kind = "claim" /\ r.s \in Serials
      /\ UNCHANGED <<ioActive, ioLegacy, ioSerial, ioClaim, ioBoxes, ioDev, ioGen, ioStored>>
      /\ Answer(r, TRUE, key)
  BY DEF claimReissue, ioDbVars, IoRequests
<1>2. key \in Nat /\ key # 0 /\ key = ioSerial[r.s].paired
  <2>1. PICK c \in bindIoBoxProvisioning(ioReq[r].row, ioReq[r].claim, ioReq[r].secret) : c.env # 0
    BY DEF claimReissue, Reissuable, Admitted
  <2>2. c \in ClaimRows /\ c = ioClaim[r.s] BY <1>1, <2>1, BoundClaim
  <2> QED BY <1>1, <2>1, <2>2 DEF LocksHold, EnvelopesTrue, ClaimRows
<1> HIDE DEF key
<1>3. /\ ioReq' \in [IoRequests -> Reqs] /\ ioAns' \in [Serials -> Answers]
      /\ \A p \in IoRequests : p # r => ioReq'[p] = ioReq[p]
      /\ ioReq'[r].pc = "none" /\ ioReq'[r].secret = 0
      /\ \A s \in Serials : ioAns'[s] # ioAns[s] =>
           s = r.s /\ ioDev[s].pc = "claim" /\ ioAns'[s].key = key
  <2>1. TRUE \in BOOLEAN OBVIOUS
  <2>2. \A s \in Serials : ioAns'[s] # ioAns[s] =>
          s = r.s /\ ioDev[s].pc = "claim" /\ ioAns'[s] = [ok |-> TRUE, key |-> key, done |-> TRUE]
    BY <1>1, <1>2, <2>1, AnswerEffect
  <2>3. \A s \in Serials : ioAns'[s] # ioAns[s] =>
          s = r.s /\ ioDev[s].pc = "claim" /\ ioAns'[s].key = key
    BY <2>2
  <2> QED BY <1>1, <1>2, <2>1, <2>3, AnswerEffect
<1>4. IoTypeOK' BY <1>1, <1>3 DEF IoTypeOK
<1>5. LocksHold' BY <1>1, <1>3, LocksReleased
<1>6. SecretsGenerated' BY <1>1, <1>3, SecretsKept
<1>7. BoxesNamed' /\ EnvelopesTrue' /\ DevicesHold' /\ NeverLockedOut' /\ SettledMeansForgotten'
  BY <1>1 DEF BoxesNamed, EnvelopesTrue, DevicesHold, NeverLockedOut, SettledMeansForgotten
<1>8. AcksFollowStorage' BY <1>1, <1>3 DEF AcksFollowStorage
<1>9. AnswersTrue' BY <1>1, <1>2, <1>3 DEF AnswersTrue
<1> QED BY <1>4, <1>5, <1>6, <1>7, <1>8, <1>9

LEMMA AcknowledgeStep ==
  ASSUME EnrolInv, NEW r \in IoRequests, acknowledgeIoBox(r)
  PROVE  EnrolInv'
<1> USE DEF EnrolInv
<1>1. /\ ioReq[r].pc = "locked" /\ r.kind = "ack" /\ r.s \in Serials
      /\ ioReq[r].key = ioSerial[r.s].paired
      /\ ioClaim[r.s].secret # 0 /\ ioClaim[r.s].secret = ioReq[r].secret
      /\ ioClaim' = [ioClaim EXCEPT ![r.s].env = 0]
      /\ UNCHANGED <<ioActive, ioLegacy, ioSerial, ioBoxes, ioDev, ioGen, ioStored>>
      /\ Answer(r, TRUE, 0)
  BY DEF acknowledgeIoBox, IoRequests, LocksHold
\* Who acknowledges has stored the credential.
<1>2. /\ ioSerial[r.s].paired # 0
      /\ ioClaim[r.s].secret = ioDev[r.s].secret => ioDev[r.s].key = ioSerial[r.s].paired
  BY <1>1 DEF AcksFollowStorage
<1>3. /\ ioClaim' \in [Serials -> ClaimRows]
      /\ \A s \in Serials : /\ ioClaim'[s].secret = ioClaim[s].secret
                            /\ s # r.s => ioClaim'[s] = ioClaim[s]
      /\ ioClaim'[r.s].env = 0
  <2> DEFINE new == [ioClaim[r.s] EXCEPT !.env = 0]
  <2>1. new \in ClaimRows /\ new.env = 0 /\ new.secret = ioClaim[r.s].secret
    BY <1>1 DEF IoTypeOK, ClaimRows
  <2>2. ioClaim' = [ioClaim EXCEPT ![r.s] = new] BY <1>1 DEF IoTypeOK
  <2> HIDE DEF new
  <2> QED BY <1>1, <2>1, <2>2 DEF IoTypeOK
<1>4. /\ ioReq' \in [IoRequests -> Reqs] /\ ioAns' \in [Serials -> Answers]
      /\ \A p \in IoRequests : p # r => ioReq'[p] = ioReq[p]
      /\ ioReq'[r].pc = "none" /\ ioReq'[r].secret = 0
      /\ \A s \in Serials : ioAns'[s] # ioAns[s] => s = r.s /\ ioDev[s].pc = "ack"
  <2>1. TRUE \in BOOLEAN /\ 0 \in Nat OBVIOUS
  <2> QED BY <1>1, <2>1, AnswerEffect
<1>5. IoTypeOK' BY <1>1, <1>3, <1>4 DEF IoTypeOK
<1>6. LocksHold' BY <1>1, <1>3, <1>4, LocksReleased
<1>7. SecretsGenerated' BY <1>1, <1>3, <1>4, SecretsKept
<1>8. BoxesNamed' /\ DevicesHold' BY <1>1 DEF BoxesNamed, DevicesHold
<1>9. EnvelopesTrue' BY <1>1, <1>3 DEF EnvelopesTrue
<1>10. AcksFollowStorage' BY <1>1, <1>4 DEF AcksFollowStorage
<1>11. AnswersTrue' BY <1>1, <1>2, <1>3, <1>4 DEF AnswersTrue
<1>12. NeverLockedOut' BY <1>1, <1>2, <1>3 DEF NeverLockedOut
<1>13. SettledMeansForgotten' BY <1>1, <1>3 DEF SettledMeansForgotten
<1> QED BY <1>5, <1>6, <1>7, <1>8, <1>9, <1>10, <1>11, <1>12, <1>13

-----------------------------------------------------------------------------
(* The administrator.                                                      *)
LEMMA RegisterStep ==
  ASSUME EnrolInv, NEW s \in Serials, registerIoBoxSerial(s)
  PROVE  EnrolInv'
<1> USE DEF EnrolInv
<1>1. UNCHANGED <<ioActive, ioLegacy, ioClaim, ioBoxes, ioReq, ioDev, ioAns, ioGen, ioStored>>
  BY DEF registerIoBoxSerial, ioBoxVars
<1>2. /\ ioSerial' \in [Serials -> SerialRows]
      /\ \A t \in Serials : /\ ioSerial'[t].paired = ioSerial[t].paired
                            /\ ioSerial'[t].tenant = ioSerial[t].tenant
  BY DEF registerIoBoxSerial, IoTypeOK, SerialRows
<1>3. (\A r \in IoRequests : r.s \in Serials) /\ \A b \in ioBoxes : b.s \in Serials
  BY DEF IoRequests, IoTypeOK, Boxes
<1>4. IoTypeOK' /\ SecretsGenerated' BY <1>1, <1>2 DEF IoTypeOK, SecretsGenerated
<1>5. LocksHold' /\ BoxesNamed' BY <1>1, <1>2, <1>3 DEF LocksHold, BoxesNamed
<1>6. EnvelopesTrue' /\ DevicesHold' BY <1>1, <1>2 DEF EnvelopesTrue, DevicesHold
<1>7. AcksFollowStorage' BY <1>1 DEF AcksFollowStorage
<1>8. AnswersTrue' BY <1>1, <1>2 DEF AnswersTrue
<1>9. NeverLockedOut' /\ SettledMeansForgotten'
  BY <1>1, <1>2 DEF NeverLockedOut, SettledMeansForgotten
<1> QED BY <1>4, <1>5, <1>6, <1>7, <1>8, <1>9

LEMMA PatchStep ==
  ASSUME EnrolInv, NEW b \in ioBoxes, patchIoBox(b)
  PROVE  EnrolInv'
<1> USE DEF EnrolInv
<1>1. UNCHANGED <<ioActive, ioLegacy, ioSerial, ioClaim, ioReq, ioDev, ioAns, ioGen, ioStored>>
  BY DEF patchIoBox, ioBoxVars
<1> DEFINE new == [b EXCEPT !.on = ~b.on]
<1>2. /\ new \in Boxes /\ new.s = b.s /\ new.id = b.id /\ new.tenant = b.tenant
      /\ ioBoxes' = (ioBoxes \ {b}) \cup {new}
  BY DEF patchIoBox, IoTypeOK, Boxes
<1> HIDE DEF new
<1>3. IoTypeOK' BY <1>1, <1>2 DEF IoTypeOK
<1>4. BoxesNamed' BY <1>1, <1>2 DEF BoxesNamed
<1>5. /\ LocksHold' /\ SecretsGenerated' /\ EnvelopesTrue' /\ DevicesHold' /\ AcksFollowStorage'
      /\ AnswersTrue' /\ NeverLockedOut' /\ SettledMeansForgotten'
  BY <1>1 DEF LocksHold, SecretsGenerated, EnvelopesTrue, DevicesHold, AcksFollowStorage,
     AnswersTrue, NeverLockedOut, SettledMeansForgotten
<1> QED BY <1>3, <1>4, <1>5

LEMMA ArchiveStep ==
  ASSUME EnrolInv, NEW t \in IoTenants, ArchiveTenant(t)
  PROVE  EnrolInv'
<1> USE DEF EnrolInv
<1>1. UNCHANGED <<ioSerial, ioClaim, ioBoxes, ioLegacy, ioReq, ioDev, ioAns, ioGen, ioStored>>
  BY DEF ArchiveTenant, ioBoxVars
<1>2. IoTypeOK' BY <1>1 DEF IoTypeOK, ArchiveTenant
<1>3. /\ LocksHold' /\ SecretsGenerated' /\ BoxesNamed' /\ EnvelopesTrue' /\ DevicesHold'
      /\ AcksFollowStorage' /\ AnswersTrue' /\ NeverLockedOut' /\ SettledMeansForgotten'
  BY <1>1 DEF LocksHold, SecretsGenerated, BoxesNamed, EnvelopesTrue, DevicesHold,
     AcksFollowStorage, AnswersTrue, NeverLockedOut, SettledMeansForgotten
<1> QED BY <1>2, <1>3

-----------------------------------------------------------------------------
(* The firmware.                                                           *)

\* Nothing on the server changes and no transaction reads anything.
LEMMA ServerUntouched ==
  ASSUME EnrolInv, UNCHANGED <<ioSerial, ioClaim, ioBoxes>>,
         \A q \in IoRequests : ioReq'[q].pc = "locked" => ioReq'[q] = ioReq[q]
  PROVE  LocksHold' /\ BoxesNamed' /\ EnvelopesTrue'
BY DEF EnrolInv, LocksHold, BoxesNamed, EnvelopesTrue

LEMMA AnnounceOrClaimStep ==
  ASSUME EnrolInv, NEW s \in Serials, announceOrClaim(s)
  PROVE  EnrolInv'
<1> USE DEF EnrolInv
<1> DEFINE new == ioDev[s].secret = 0 /\ s \notin ioLegacy
           dev == IF new THEN [ioDev[s] EXCEPT !.secret = ioGen[s] + 1] ELSE ioDev[s]
<1>1. /\ ioDev[s].pc = "idle" /\ ioDev[s].key = 0 /\ Send(s, "announce", dev)
      /\ ioGen' = IF new THEN [ioGen EXCEPT ![s] = @ + 1] ELSE ioGen
      /\ UNCHANGED <<ioActive, ioSerial, ioClaim, ioBoxes, ioLegacy, ioStored>>
  BY DEF announceOrClaim, ioDbVars
<1>2. /\ dev \in Devs /\ dev.key = 0 /\ ~dev.ackp
      /\ dev.secret = IF new THEN ioGen[s] + 1 ELSE ioDev[s].secret
  <2>1. ioDev[s] \in Devs /\ ioGen[s] \in Nat BY DEF IoTypeOK
  <2> QED BY <1>1, <2>1 DEF DevicesHold, Devs
<1>3. /\ ioGen' \in [Serials -> Nat] /\ ioGen'[s] = IF new THEN ioGen[s] + 1 ELSE ioGen[s]
      /\ \A t \in Serials : t # s => ioGen'[t] = ioGen[t]
  BY <1>1 DEF IoTypeOK
<1> HIDE DEF dev
<1>4. /\ ioReq' \in [IoRequests -> Reqs] /\ ioAns' \in [Serials -> Answers]
      /\ ioDev' \in [Serials -> Devs]
      /\ \A t \in Serials : t # s => ioDev'[t] = ioDev[t] /\ ioAns'[t] = ioAns[t]
      /\ ioDev'[s].secret = dev.secret /\ ioDev'[s].key = dev.key
      /\ ioDev'[s].ackp = dev.ackp /\ ioDev'[s].pc = "announce" /\ ~ioAns'[s].done
  BY <1>1, <1>2, SendEffect
<1>5. PICK r \in IoRequests :
        /\ r.s = s /\ r.kind = "announce"
        /\ ioReq'[r].pc = "sent" /\ ioReq'[r].secret = dev.secret /\ ioReq'[r].key = dev.key
        /\ \A q \in IoRequests : q # r => ioReq'[q] = ioReq[q]
  BY <1>1, <1>2, SendEffect
<1>6. IoTypeOK' BY <1>1, <1>3, <1>4 DEF IoTypeOK
<1>7. LocksHold' /\ BoxesNamed' /\ EnvelopesTrue'
  <2>1. \A q \in IoRequests : ioReq'[q].pc = "locked" => ioReq'[q] = ioReq[q] BY <1>5
  <2> QED BY <1>1, <2>1, ServerUntouched
\* A new secret is beyond all that exist.
<1>8. /\ \A t \in Serials : ioGen[t] \in Nat /\ ioDev[t].secret \in Nat /\ ioClaim[t].secret \in Nat
      /\ \A q \in IoRequests : ioReq[q].secret \in Nat /\ q.s \in Serials
      /\ dev.secret <= ioGen'[s]
      /\ \A t \in Serials : ioGen[t] <= ioGen'[t]
  <2>1. /\ \A t \in Serials : ioGen[t] \in Nat /\ ioDev[t].secret \in Nat /\ ioClaim[t].secret \in Nat
        /\ \A q \in IoRequests : ioReq[q].secret \in Nat /\ q.s \in Serials
    BY DEF IoTypeOK, Devs, ClaimRows, Reqs, IoRequests
  <2>2. dev.secret <= ioGen'[s] BY <1>2, <1>3, <2>1 DEF SecretsGenerated
  <2>3. \A t \in Serials : ioGen[t] <= ioGen'[t] BY <1>3, <2>1
  <2> QED BY <2>1, <2>2, <2>3
<1>9. SecretsGenerated'
  <2>1. \A t \in Serials : ioDev'[t].secret <= ioGen'[t] /\ ioClaim'[t].secret <= ioGen'[t]
    BY <1>1, <1>4, <1>8, <1>3 DEF SecretsGenerated
  <2>2. \A q \in IoRequests : ioReq'[q].secret <= ioGen'[q.s]
    BY <1>5, <1>8, <1>3 DEF SecretsGenerated
  <2> QED BY <2>1, <2>2 DEF SecretsGenerated
<1>10. DevicesHold' BY <1>1, <1>2, <1>4 DEF DevicesHold
<1>11. AcksFollowStorage'
  <2> SUFFICES ASSUME NEW q \in IoRequests, q.kind = "ack", ioReq'[q].pc # "none"
               PROVE  /\ ioStored'[q.s] /\ ioReq'[q].key # 0
                      /\ ioReq'[q].secret # 0 /\ ioReq'[q].secret = ioDev'[q.s].secret
                           => ioDev'[q.s].key = ioReq'[q].key
    BY DEF AcksFollowStorage
  <2>1. ioReq'[q] = ioReq[q] BY <1>5
  <2>2. CASE q.s # s BY <1>1, <1>4, <1>8, <2>1, <2>2 DEF AcksFollowStorage
  <2>3. CASE q.s = s
    <3>1. ioReq[q].secret <= ioGen[s] BY <2>3 DEF SecretsGenerated
    <3> QED BY <1>1, <1>2, <1>4, <1>8, <2>1, <2>3, <3>1 DEF AcksFollowStorage
  <2> QED BY <2>2, <2>3
<1>12. AnswersTrue' BY <1>1, <1>4 DEF AnswersTrue
<1>13. NeverLockedOut'
  <2>1. ioClaim[s].secret <= ioGen[s] BY DEF SecretsGenerated
  <2> QED BY <1>1, <1>2, <1>4, <1>8, <2>1 DEF NeverLockedOut
<1>14. SettledMeansForgotten' BY <1>1, <1>2, <1>4 DEF SettledMeansForgotten
<1> QED BY <1>6, <1>7, <1>9, <1>10, <1>11, <1>12, <1>13, <1>14

LEMMA ClaimStep ==
  ASSUME EnrolInv, NEW s \in Serials, Claim(s)
  PROVE  EnrolInv'
<1> USE DEF EnrolInv
<1>0. Claim(s) /\ ioDev[s] \in Devs BY DEF IoTypeOK
<1>1. /\ ioDev[s].pc = "announce" /\ Send(s, "claim", ioDev[s]) /\ ioDev[s] \in Devs
      /\ UNCHANGED <<ioActive, ioSerial, ioClaim, ioBoxes, ioLegacy, ioGen, ioStored>>
  BY <1>0 DEF Claim, ioDbVars
<1>2. /\ ioReq' \in [IoRequests -> Reqs] /\ ioAns' \in [Serials -> Answers]
      /\ ioDev' \in [Serials -> Devs]
      /\ \A t \in Serials : t # s => ioDev'[t] = ioDev[t] /\ ioAns'[t] = ioAns[t]
      /\ ioDev'[s].secret = ioDev[s].secret /\ ioDev'[s].key = ioDev[s].key
      /\ ioDev'[s].ackp = ioDev[s].ackp /\ ioDev'[s].pc = "claim" /\ ~ioAns'[s].done
  BY <1>1, SendEffect
<1>3. PICK r \in IoRequests :
        /\ r.s = s /\ r.kind = "claim"
        /\ ioReq'[r].pc = "sent" /\ ioReq'[r].secret = ioDev[s].secret
        /\ \A q \in IoRequests : q # r => ioReq'[q] = ioReq[q]
  BY <1>1, SendEffect
<1>4. \A t \in Serials : /\ ioDev'[t].secret = ioDev[t].secret /\ ioDev'[t].key = ioDev[t].key
                         /\ ioDev'[t].ackp = ioDev[t].ackp
  BY <1>2
<1>5. \A q \in IoRequests : q.s \in Serials BY DEF IoRequests
<1>6. IoTypeOK' BY <1>1, <1>2 DEF IoTypeOK
<1>7. LocksHold' /\ BoxesNamed' /\ EnvelopesTrue'
  <2>1. \A q \in IoRequests : ioReq'[q].pc = "locked" => ioReq'[q] = ioReq[q] BY <1>3
  <2> QED BY <1>1, <2>1, ServerUntouched
<1>8. SecretsGenerated' BY <1>1, <1>3, <1>4 DEF SecretsGenerated
<1>9. DevicesHold' BY <1>1, <1>2 DEF DevicesHold
<1>10. AcksFollowStorage' BY <1>1, <1>3, <1>4, <1>5 DEF AcksFollowStorage
<1>11. AnswersTrue' BY <1>1, <1>2 DEF AnswersTrue
<1>12. NeverLockedOut' /\ SettledMeansForgotten'
  BY <1>1, <1>4 DEF NeverLockedOut, SettledMeansForgotten
<1> QED BY <1>6, <1>7, <1>8, <1>9, <1>10, <1>11, <1>12

LEMMA SaveIdentityStep ==
  ASSUME EnrolInv, NEW s \in Serials, saveIdentity(s)
  PROVE  EnrolInv'
<1> USE DEF EnrolInv
<1> DEFINE got == [ioDev[s] EXCEPT !.key = ioAns[s].key, !.ackp = s \notin ioLegacy]
\* What the answer said is still true, so the device stores its credential.
<1>1. /\ ioDev[s].pc = "claim" /\ ioStored' = [ioStored EXCEPT ![s] = TRUE]
      /\ UNCHANGED <<ioActive, ioSerial, ioClaim, ioBoxes, ioLegacy, ioGen>>
      /\ ioAns[s].done /\ ioAns[s].ok
  BY DEF saveIdentity, ioDbVars
<1>2. /\ got \in Devs /\ got.key # 0 /\ got.key = ioSerial[s].paired /\ ioDev[s].key = 0
      /\ got.secret = ioDev[s].secret /\ (got.ackp <=> s \notin ioLegacy)
  <2>1. ioDev[s] \in Devs /\ ioAns[s] \in Answers BY DEF IoTypeOK
  <2> QED BY <1>1, <2>1 DEF Devs, Answers, AnswersTrue, DevicesHold
<1>3. /\ ioReq' \in [IoRequests -> Reqs] /\ ioAns' \in [Serials -> Answers]
      /\ ioDev' \in [Serials -> Devs]
      /\ \A t \in Serials : t # s => ioDev'[t] = ioDev[t] /\ ioAns'[t] = ioAns[t]
      /\ ioDev'[s].secret = ioDev[s].secret /\ ioDev'[s].key = got.key
      /\ ioDev'[s].ackp = got.ackp /\ ioDev'[s].pc \in {"idle", "ack"} /\ ~ioAns'[s].done
      /\ \A q \in IoRequests :
           \/ ioReq'[q] = ioReq[q]
           \/ /\ q.s = s /\ q.kind = "ack" /\ ioReq'[q].pc = "sent"
              /\ ioReq'[q].secret = ioDev[s].secret /\ ioReq'[q].key = got.key
  <2>1. CASE got.ackp
    <3>1. Send(s, "ack", got) BY <2>1 DEF saveIdentity
    <3> HIDE DEF got
    <3>2. PICK r \in IoRequests :
            /\ r.s = s /\ r.kind = "ack"
            /\ ioReq'[r].pc = "sent" /\ ioReq'[r].secret = got.secret /\ ioReq'[r].key = got.key
            /\ \A q \in IoRequests : q # r => ioReq'[q] = ioReq[q]
      BY <1>2, <3>1, SendEffect
    <3>3. /\ ioReq' \in [IoRequests -> Reqs] /\ ioAns' \in [Serials -> Answers]
          /\ ioDev' \in [Serials -> Devs]
          /\ \A t \in Serials : t # s => ioDev'[t] = ioDev[t] /\ ioAns'[t] = ioAns[t]
          /\ ioDev'[s].secret = got.secret /\ ioDev'[s].key = got.key
          /\ ioDev'[s].ackp = got.ackp /\ ioDev'[s].pc = "ack" /\ ~ioAns'[s].done
      BY <1>2, <3>1, SendEffect
    <3> QED BY <1>2, <3>2, <3>3
  <2>2. CASE ~got.ackp
    <3> DEFINE next == [got EXCEPT !.pc = "idle", !.try = 1]
    <3>1. /\ ioDev' = [ioDev EXCEPT ![s] = next] /\ ioAns' = [ioAns EXCEPT ![s] = NoAns]
          /\ UNCHANGED ioReq
      BY <2>2 DEF saveIdentity
    <3>2. /\ next \in Devs /\ next.key = got.key /\ next.secret = got.secret
          /\ next.ackp = got.ackp /\ next.pc = "idle"
      <4> HIDE DEF got
      <4>1. 1 \in 1..MaxTries BY IoPairAssumption
      <4> QED BY <1>2, <4>1 DEF Devs
    <3>3. NoAns \in Answers /\ ~NoAns.done BY DEF NoAns, Answers
    <3> HIDE DEF got, next
    <3> QED BY <1>2, <3>1, <3>2, <3>3 DEF IoTypeOK
  <2> QED BY <2>1, <2>2
<1> HIDE DEF got
<1>4. ioStored' \in [Serials -> BOOLEAN] /\ \A t \in Serials : ioStored[t] \/ t = s => ioStored'[t]
  BY <1>1 DEF IoTypeOK
<1>5. \A q \in IoRequests : q.s \in Serials BY DEF IoRequests
<1>6. IoTypeOK' BY <1>1, <1>3, <1>4 DEF IoTypeOK
<1>7. LocksHold' /\ BoxesNamed' /\ EnvelopesTrue'
  <2>1. \A q \in IoRequests : ioReq'[q].pc = "locked" => ioReq'[q] = ioReq[q] BY <1>3
  <2> QED BY <1>1, <2>1, ServerUntouched
<1>8. SecretsGenerated' BY <1>1, <1>3 DEF SecretsGenerated
<1>9. DevicesHold' BY <1>1, <1>2, <1>3, <1>4 DEF DevicesHold
<1>10. AcksFollowStorage'
  <2> SUFFICES ASSUME NEW q \in IoRequests, q.kind = "ack", ioReq'[q].pc # "none"
               PROVE  /\ ioStored'[q.s] /\ ioReq'[q].key # 0
                      /\ ioReq'[q].secret # 0 /\ ioReq'[q].secret = ioDev'[q.s].secret
                           => ioDev'[q.s].key = ioReq'[q].key
    BY DEF AcksFollowStorage
  <2>1. CASE ioReq'[q] = ioReq[q]
    BY <1>2, <1>3, <1>4, <1>5, <2>1 DEF AcksFollowStorage
  <2>2. CASE ioReq'[q] # ioReq[q] BY <1>2, <1>3, <1>4, <2>2
  <2> QED BY <2>1, <2>2
<1>11. AnswersTrue' BY <1>1, <1>3 DEF AnswersTrue
<1>12. NeverLockedOut' BY <1>1, <1>2, <1>3 DEF NeverLockedOut
<1>13. SettledMeansForgotten' BY <1>1, <1>2, <1>3 DEF SettledMeansForgotten
<1> QED BY <1>6, <1>7, <1>8, <1>9, <1>10, <1>11, <1>12, <1>13

LEMMA AcknowledgeClaimStep ==
  ASSUME EnrolInv, NEW s \in Serials, acknowledgeClaim(s)
  PROVE  EnrolInv'
<1> USE DEF EnrolInv
<1> DEFINE dev == ioDev[s]
<1>1. /\ dev = ioDev[s] /\ ioDev[s].pc = "idle" /\ ioDev[s].ackp
      /\ UNCHANGED <<ioActive, ioSerial, ioClaim, ioBoxes, ioLegacy, ioGen, ioStored>>
  BY DEF acknowledgeClaim, ioDbVars
<1>s. Send(s, "ack", dev) BY DEF acknowledgeClaim
<1>d. dev \in Devs BY DEF IoTypeOK
<1> HIDE DEF dev
<1>2. /\ ioReq' \in [IoRequests -> Reqs] /\ ioAns' \in [Serials -> Answers]
      /\ ioDev' \in [Serials -> Devs]
      /\ \A t \in Serials : t # s => ioDev'[t] = ioDev[t] /\ ioAns'[t] = ioAns[t]
      /\ ioDev'[s].secret = dev.secret /\ ioDev'[s].key = dev.key
      /\ ioDev'[s].ackp = dev.ackp /\ ioDev'[s].pc = "ack" /\ ~ioAns'[s].done
  BY <1>s, <1>d, SendEffect
<1>3. PICK r \in IoRequests :
        /\ r.s = s /\ r.kind = "ack"
        /\ ioReq'[r].pc = "sent" /\ ioReq'[r].secret = dev.secret /\ ioReq'[r].key = dev.key
        /\ \A q \in IoRequests : q # r => ioReq'[q] = ioReq[q]
  BY <1>s, <1>d, SendEffect
<1>4. \A t \in Serials : /\ ioDev'[t].secret = ioDev[t].secret /\ ioDev'[t].key = ioDev[t].key
                         /\ ioDev'[t].ackp = ioDev[t].ackp
  BY <1>1, <1>2
<1>5. (\A q \in IoRequests : q.s \in Serials) /\ ioDev[s].key # 0 /\ ioStored[s]
  BY <1>1 DEF IoRequests, DevicesHold
<1>6. IoTypeOK' BY <1>1, <1>2 DEF IoTypeOK
<1>7. LocksHold' /\ BoxesNamed' /\ EnvelopesTrue'
  <2>1. \A q \in IoRequests : ioReq'[q].pc = "locked" => ioReq'[q] = ioReq[q] BY <1>3
  <2> QED BY <1>1, <2>1, ServerUntouched
<1>8. SecretsGenerated' BY <1>1, <1>3, <1>4 DEF SecretsGenerated
<1>9. DevicesHold' BY <1>1, <1>2, <1>5 DEF DevicesHold
<1>10. AcksFollowStorage' BY <1>1, <1>3, <1>4, <1>5 DEF AcksFollowStorage
<1>11. AnswersTrue' BY <1>1, <1>2 DEF AnswersTrue
<1>12. NeverLockedOut' /\ SettledMeansForgotten'
  BY <1>1, <1>4 DEF NeverLockedOut, SettledMeansForgotten
<1> QED BY <1>6, <1>7, <1>8, <1>9, <1>10, <1>11, <1>12

\* The steps in which the device waits for nothing any more and keeps at
\* most what it had in storage.
LEMMA IdleStep ==
  ASSUME EnrolInv, NEW s \in Serials, NEW dev \in Devs, dev.pc = "idle",
         ioDev' = [ioDev EXCEPT ![s] = dev], ioAns' = [ioAns EXCEPT ![s] = NoAns],
         UNCHANGED <<ioDbVars, ioReq, ioGen, ioStored>>,
         \/ dev.secret = 0 /\ dev.key = 0
         \/ dev.secret = ioDev[s].secret /\ dev.key = ioDev[s].key,
         dev.ackp => dev.key # 0,
         s \notin ioLegacy /\ dev.key # 0 /\ ~dev.ackp => ioClaim[s].env = 0
  PROVE  EnrolInv'
<1> USE DEF EnrolInv
<1>1. UNCHANGED <<ioActive, ioSerial, ioClaim, ioBoxes, ioLegacy, ioReq, ioGen, ioStored>>
  BY DEF ioDbVars
<1>2. NoAns \in Answers /\ ~NoAns.done BY DEF NoAns, Answers
<1>3. /\ ioAns' \in [Serials -> Answers] /\ ioDev' \in [Serials -> Devs] /\ ioDev'[s] = dev
      /\ \A t \in Serials : t # s => ioDev'[t] = ioDev[t] /\ ioAns'[t] = ioAns[t]
      /\ ~ioAns'[s].done
  BY <1>2 DEF IoTypeOK
<1>4. (\A q \in IoRequests : q.s \in Serials) /\ (\A t \in Serials : ioGen[t] \in Nat)
  BY DEF IoRequests, IoTypeOK
<1>5. IoTypeOK' BY <1>1, <1>3 DEF IoTypeOK
<1>6. LocksHold' /\ BoxesNamed' /\ EnvelopesTrue' BY <1>1, ServerUntouched
<1>7. SecretsGenerated' BY <1>1, <1>3, <1>4 DEF SecretsGenerated
<1>8. DevicesHold' BY <1>1, <1>3 DEF DevicesHold
<1>9. AcksFollowStorage' BY <1>1, <1>3, <1>4 DEF AcksFollowStorage
<1>10. AnswersTrue' BY <1>1, <1>3 DEF AnswersTrue
<1>11. NeverLockedOut' BY <1>1, <1>3 DEF NeverLockedOut
<1>12. SettledMeansForgotten' BY <1>1, <1>3 DEF SettledMeansForgotten
<1> QED BY <1>5, <1>6, <1>7, <1>8, <1>9, <1>10, <1>11, <1>12

LEMMA QuietDeviceStep ==
  ASSUME EnrolInv, NEW s \in Serials, Acknowledged(s) \/ GiveUp(s) \/ EraseStorage(s)
  PROVE  EnrolInv'
<1>1. ioDev[s] \in Devs BY DEF EnrolInv, IoTypeOK
<1>2. 1 \in 1..MaxTries BY IoPairAssumption
<1>3. CASE Acknowledged(s)
  \* The positive answer says that the server has forgotten its copy.
  <2> DEFINE dev == [ioDev[s] EXCEPT !.ackp = FALSE, !.pc = "idle", !.try = 1]
  <2>1. /\ ioDev' = [ioDev EXCEPT ![s] = dev] /\ ioAns' = [ioAns EXCEPT ![s] = NoAns]
        /\ UNCHANGED <<ioDbVars, ioReq, ioGen, ioStored>>
    BY <1>3 DEF Acknowledged, EnrolInv, IoTypeOK
  <2>2. /\ dev \in Devs /\ dev.pc = "idle" /\ ~dev.ackp
        /\ dev.secret = ioDev[s].secret /\ dev.key = ioDev[s].key
    BY <1>1, <1>2 DEF Devs
  <2>3. ioClaim[s].env = 0 BY <1>3 DEF Acknowledged, EnrolInv, AnswersTrue
  <2> HIDE DEF dev
  <2> QED BY <2>1, <2>2, <2>3, IdleStep
<1>4. CASE GiveUp(s)
  <2> DEFINE dev == [ioDev[s] EXCEPT !.pc = "idle", !.try = 1]
  <2>1. /\ ioDev' = [ioDev EXCEPT ![s] = dev] /\ ioAns' = [ioAns EXCEPT ![s] = NoAns]
        /\ UNCHANGED <<ioDbVars, ioReq, ioGen, ioStored>>
    BY <1>4 DEF GiveUp, EnrolInv, IoTypeOK
  <2>2. /\ dev \in Devs /\ dev.pc = "idle" /\ dev.ackp = ioDev[s].ackp
        /\ dev.secret = ioDev[s].secret /\ dev.key = ioDev[s].key
    BY <1>1, <1>2 DEF Devs
  <2>3. /\ ioDev[s].ackp => ioDev[s].key # 0
        /\ s \notin ioLegacy /\ ioDev[s].key # 0 /\ ~ioDev[s].ackp => ioClaim[s].env = 0
    BY DEF EnrolInv, DevicesHold, SettledMeansForgotten
  <2> HIDE DEF dev
  <2> QED BY <2>1, <2>2, <2>3, IdleStep
<1>5. CASE EraseStorage(s)
  <2> DEFINE dev == [secret |-> 0, key |-> 0, ackp |-> FALSE, pc |-> "idle", try |-> 1]
  <2>1. /\ ioDev' = [ioDev EXCEPT ![s] = dev] /\ ioAns' = [ioAns EXCEPT ![s] = NoAns]
        /\ UNCHANGED <<ioDbVars, ioReq, ioGen, ioStored>>
    BY <1>5 DEF EraseStorage
  <2>2. dev \in Devs /\ dev.pc = "idle" /\ dev.secret = 0 /\ dev.key = 0 /\ ~dev.ackp
    BY <1>2 DEF Devs
  <2> HIDE DEF dev
  <2> QED BY <2>1, <2>2, IdleStep
<1> QED BY <1>3, <1>4, <1>5

-----------------------------------------------------------------------------
LEMMA EnrolInvStep == EnrolInv /\ [IoPairNext]_ioPairVars => EnrolInv'
<1> SUFFICES ASSUME EnrolInv, [IoPairNext]_ioPairVars PROVE EnrolInv'
  OBVIOUS
<1>1. CASE UNCHANGED ioPairVars
  BY <1>1 DEF ioPairVars, EnrolInv, IoTypeOK, LocksHold, SecretsGenerated, BoxesNamed,
     EnvelopesTrue, DevicesHold, AcksFollowStorage, AnswersTrue, NeverLockedOut,
     SettledMeansForgotten
<1>2. ASSUME NEW r \in IoRequests, IoServer(r) PROVE EnrolInv'
  <2>1. CASE TurnedAway(r) \/ Rollback(r) BY <2>1, RefusedStep DEF TurnedAway, Rollback
  <2> QED
    BY <1>2, <2>1, ArriveStep, LockStep, AnnounceStep, ClaimIssueStep, ClaimReissueStep,
       AcknowledgeStep DEF IoServer
<1>3. ASSUME NEW s \in Serials, IoDevice(s) PROVE EnrolInv'
  BY <1>3, AnnounceOrClaimStep, ClaimStep, SaveIdentityStep, AcknowledgeClaimStep, QuietDeviceStep
     DEF IoDevice
<1>4. ASSUME NEW s \in Serials, registerIoBoxSerial(s) PROVE EnrolInv' BY <1>4, RegisterStep
<1>5. ASSUME NEW b \in ioBoxes, patchIoBox(b) PROVE EnrolInv' BY <1>5, PatchStep
<1>6. ASSUME NEW t \in IoTenants, ArchiveTenant(t) PROVE EnrolInv' BY <1>6, ArchiveStep
<1> QED BY <1>1, <1>2, <1>3, <1>4, <1>5, <1>6 DEF IoPairNext

THEOREM EnrolInvHolds == IoPairSpec => []EnrolInv
BY EnrolInvInit, EnrolInvStep, PTL DEF IoPairSpec

LEMMA AtMostOneBox ==
  ASSUME NEW S, \A x, y \in S : x = y
  PROVE  Cardinality(S) <= 1
<1>1. CASE S = {} BY <1>1, FS_EmptySet
<1>2. CASE S # {}
  <2>1. PICK x : S = {x} BY <1>2
  <2> QED BY <2>1, FS_Singleton
<1> QED BY <1>1, <1>2

(* Enrolment is safe (claimIoBox, acknowledgeIoBox, acknowledgeClaim): one *)
(* box for a serial over all tenants, no device locked out, no credential  *)
(* kept once the firmware has settled, however requests interleave.        *)
THEOREM EnrolmentStaysSafe == IoPairSpec => []EnrolmentSafe
<1>1. EnrolInv => EnrolmentSafe
  <2> SUFFICES ASSUME EnrolInv PROVE OneBoxPerSerial
    BY DEF EnrolmentSafe, EnrolInv
  <2> SUFFICES ASSUME NEW s \in Serials
               PROVE  /\ Cardinality({b \in ioBoxes : b.s = s}) <= 1
                      /\ \A b \in {b \in ioBoxes : b.s = s} :
                           ioSerial[s].paired = b.id /\ ioSerial[s].tenant = b.tenant
    BY DEF OneBoxPerSerial
  <2>1. \A b, c \in {b \in ioBoxes : b.s = s} : b = c BY DEF EnrolInv, BoxesNamed
  <2>2. Cardinality({b \in ioBoxes : b.s = s}) <= 1 BY <2>1, AtMostOneBox
  <2> QED BY <2>2 DEF EnrolInv, BoxesNamed
<1> QED BY <1>1, EnrolInvHolds, PTL

-----------------------------------------------------------------------------
(* The refinement: paired credential, retry envelope and storage are the   *)
(* state of CredentialHandover.                                            *)
Issued == [s \in Serials |-> ioSerial[s].paired]
Copy == [s \in Serials |-> ioClaim[s].env]
Holds == [s \in Serials |-> ioDev[s].key]

LEMMA HandoverInitially == IoPairInit => Handover!HandoverInit
BY DEF IoPairInit, Handover!HandoverInit, NoRow, NoIoClaim

\* A step that leaves credentials, copies and storage alone.
LEMMA HandoverStutter ==
  ASSUME \A s \in Serials : /\ ioSerial'[s].paired = ioSerial[s].paired
                            /\ ioClaim'[s].env = ioClaim[s].env
                            /\ ioDev'[s].key = ioDev[s].key,
         UNCHANGED ioStored
  PROVE  UNCHANGED Handover!handoverVars
<1>1. Issued' = Issued /\ Copy' = Copy /\ Holds' = Holds BY DEF Issued, Copy, Holds
<1> QED BY <1>1 DEF Handover!handoverVars, Issued, Copy, Holds

LEMMA IssueRefined ==
  ASSUME EnrolInv, NEW r \in IoRequests, claimIssue(r)
  PROVE  Handover!Issue(r.s)
<1>1. /\ r.s \in Serials /\ ioSerial[r.s].paired = 0 /\ ioClaim[r.s].env = 0
      /\ ioSerial'[r.s].paired = 1 /\ ioClaim'[r.s].env \in {0, 1}
      /\ \A s \in Serials : s # r.s => ioClaim'[s] = ioClaim[s] /\ ioSerial'[s] = ioSerial[s]
      /\ UNCHANGED <<ioDev, ioStored>>
  BY ClaimIssueEffect DEF EnrolInv, EnvelopesTrue
<1>2. 1 \in 1..MaxBoxes BY IoPairAssumption
<1>3. Issued[r.s] = 0 /\ Issued' = [Issued EXCEPT ![r.s] = 1] BY <1>1 DEF Issued
<1>4. Copy' \in {Copy, [Copy EXCEPT ![r.s] = 1]} BY <1>1, ZenonT(60) DEF Copy
<1>5. Holds' = Holds BY <1>1 DEF Holds
<1> QED BY <1>1, <1>2, <1>3, <1>4, <1>5 DEF Handover!Issue, Issued, Copy, Holds

LEMMA StoreRefined ==
  ASSUME EnrolInv, NEW s \in Serials, saveIdentity(s)
  PROVE  Handover!Store(s)
<1> DEFINE got == [ioDev[s] EXCEPT !.key = ioAns[s].key, !.ackp = s \notin ioLegacy]
<1>1. /\ ioDev[s].pc = "claim" /\ ioAns[s].done /\ ioAns[s].ok
      /\ ioStored' = [ioStored EXCEPT ![s] = TRUE] /\ UNCHANGED <<ioSerial, ioClaim>>
  BY DEF saveIdentity, ioDbVars
<1>2. /\ got \in Devs /\ got.key = ioSerial[s].paired /\ ioSerial[s].paired # 0
  <2>1. ioDev[s] \in Devs /\ ioAns[s] \in Answers BY DEF EnrolInv, IoTypeOK
  <2> QED BY <1>1, <2>1 DEF EnrolInv, AnswersTrue, Devs, Answers
<1>3. /\ ioDev'[s].key = got.key
      /\ \A t \in Serials : t # s => ioDev'[t] = ioDev[t]
  <2>1. CASE got.ackp
    <3>1. Send(s, "ack", got) BY <2>1 DEF saveIdentity
    <3> HIDE DEF got
    <3> QED BY <1>2, <3>1, SendEffect DEF EnrolInv
  <2>2. CASE ~got.ackp
    <3> DEFINE next == [got EXCEPT !.pc = "idle", !.try = 1]
    <3>1. ioDev' = [ioDev EXCEPT ![s] = next] BY <2>2 DEF saveIdentity
    <3> HIDE DEF got
    <3>2. next.key = got.key BY <1>2 DEF Devs
    <3> HIDE DEF next
    <3> QED BY <3>1, <3>2 DEF EnrolInv, IoTypeOK
  <2> QED BY <2>1, <2>2
<1> HIDE DEF got
<1>4. Issued[s] # 0 /\ Issued' = Issued /\ Copy' = Copy BY <1>1, <1>2 DEF Issued, Copy
<1>5. Holds' = [Holds EXCEPT ![s] = Issued[s]] BY <1>2, <1>3 DEF Holds, Issued
<1> QED BY <1>1, <1>4, <1>5 DEF Handover!Store, Issued, Copy, Holds

LEMMA ForgetRefined ==
  ASSUME EnrolInv, NEW r \in IoRequests, acknowledgeIoBox(r)
  PROVE  Handover!Forget(r.s)
<1>1. /\ r.s \in Serials /\ ioStored[r.s]
      /\ ioClaim' = [ioClaim EXCEPT ![r.s].env = 0] /\ ioClaim \in [Serials -> ClaimRows]
      /\ UNCHANGED <<ioSerial, ioDev, ioStored>>
  BY DEF acknowledgeIoBox, IoRequests, EnrolInv, AcksFollowStorage, IoTypeOK
<1>2. Copy' = [Copy EXCEPT ![r.s] = 0] BY <1>1 DEF Copy, ClaimRows
<1>3. Issued' = Issued /\ Holds' = Holds BY <1>1 DEF Issued, Holds
<1> QED BY <1>1, <1>2, <1>3 DEF Handover!Forget, Issued, Copy, Holds

LEMMA EraseRefined ==
  ASSUME EnrolInv, NEW s \in Serials, EraseStorage(s)
  PROVE  Handover!Erase(s)
<1>1. /\ ioDev' = [ioDev EXCEPT ![s] = [secret |-> 0, key |-> 0, ackp |-> FALSE,
                                        pc |-> "idle", try |-> 1]]
      /\ ioDev \in [Serials -> Devs] /\ UNCHANGED <<ioSerial, ioClaim, ioStored>>
  BY DEF EraseStorage, ioDbVars, EnrolInv, IoTypeOK
<1>2. Holds' = [Holds EXCEPT ![s] = 0] BY <1>1 DEF Holds
<1>3. Issued' = Issued /\ Copy' = Copy BY <1>1 DEF Issued, Copy
<1> QED BY <1>1, <1>2, <1>3 DEF Handover!Erase, Issued, Copy, Holds

LEMMA ServerStutters ==
  ASSUME EnrolInv, NEW r \in IoRequests,
         \/ Arrive(r) \/ TurnedAway(r) \/ LockSerial(r) \/ announce(r) \/ claimReissue(r)
         \/ Rollback(r)
  PROVE  UNCHANGED Handover!handoverVars
<1>1. UNCHANGED <<ioSerial, ioDev, ioStored>>
  BY DEF Arrive, TurnedAway, LockSerial, announce, claimReissue, Rollback, Refused, ioDbVars,
     ioBoxVars
<1>2. \A s \in Serials : ioClaim'[s].env = ioClaim[s].env
  <2>1. CASE announce(r)
    <3>1. PICK c \in bindIoBoxProvisioning(ioReq[r].row, ioReq[r].claim, ioReq[r].secret) :
            ioClaim' = [ioClaim EXCEPT ![r.s] = c]
      BY <2>1 DEF announce
    <3>2. c.env = ioClaim[r.s].env
      <4>1. ioReq[r].pc = "locked" /\ r.s \in Serials BY <2>1 DEF announce, IoRequests
      <4> QED BY <4>1, BoundClaim DEF EnrolInv, EnvelopesTrue
    <3> QED BY <3>1, <3>2 DEF EnrolInv, IoTypeOK
  <2>2. CASE ~announce(r)
    BY <2>2 DEF Arrive, TurnedAway, LockSerial, claimReissue, Rollback, Refused, ioDbVars
  <2> QED BY <2>1, <2>2
<1> QED BY <1>1, <1>2, HandoverStutter

LEMMA DeviceStutters ==
  ASSUME EnrolInv, NEW s \in Serials,
         \/ announceOrClaim(s) \/ Claim(s) \/ acknowledgeClaim(s) \/ Acknowledged(s) \/ GiveUp(s)
  PROVE  UNCHANGED Handover!handoverVars
<1>1. UNCHANGED <<ioSerial, ioClaim, ioStored>>
  BY DEF announceOrClaim, Claim, acknowledgeClaim, Acknowledged, GiveUp, ioDbVars
<1>2. \A t \in Serials : ioDev'[t].key = ioDev[t].key
  <2>1. ASSUME NEW dev \in Devs, NEW kind \in {"announce", "claim", "ack"}, Send(s, kind, dev),
               dev.key = ioDev[s].key
        PROVE  \A t \in Serials : ioDev'[t].key = ioDev[t].key
    <3>1. IoTypeOK BY DEF EnrolInv
    <3>2. /\ ioDev'[s].key = dev.key
          /\ \A t \in Serials : t # s => ioDev'[t] = ioDev[t]
      BY <2>1, <3>1, SendEffect
    <3> QED BY <2>1, <3>2
  <2>2. CASE announceOrClaim(s)
    <3> DEFINE new == ioDev[s].secret = 0 /\ s \notin ioLegacy
               dev == IF new THEN [ioDev[s] EXCEPT !.secret = ioGen[s] + 1] ELSE ioDev[s]
    <3>1. Send(s, "announce", dev) BY <2>2 DEF announceOrClaim
    <3>2. dev \in Devs /\ dev.key = ioDev[s].key
      <4>1. ioDev[s] \in Devs /\ ioGen[s] \in Nat BY DEF EnrolInv, IoTypeOK
      <4> QED BY <4>1 DEF Devs
    <3> HIDE DEF dev
    <3> QED BY <2>1, <3>1, <3>2
  <2>3. CASE Claim(s) \/ acknowledgeClaim(s)
    <3> DEFINE dev == ioDev[s]
    <3>1. \E kind \in {"announce", "claim", "ack"} : Send(s, kind, dev)
      BY <2>3 DEF Claim, acknowledgeClaim
    <3>2. dev \in Devs /\ dev.key = ioDev[s].key BY DEF EnrolInv, IoTypeOK
    <3> HIDE DEF dev
    <3> QED BY <2>1, <3>1, <3>2
  <2>4. CASE Acknowledged(s) \/ GiveUp(s)
    BY <2>4, SMTT(30) DEF Acknowledged, GiveUp, EnrolInv, IoTypeOK, Devs
  <2> QED BY <2>2, <2>3, <2>4
<1> QED BY <1>1, <1>2, HandoverStutter

LEMMA HandoverStep ==
  ASSUME EnrolInv, [IoPairNext]_ioPairVars
  PROVE  [Handover!HandoverNext]_(Handover!handoverVars)
<1>1. CASE UNCHANGED ioPairVars BY <1>1, HandoverStutter DEF ioPairVars
<1>2. ASSUME NEW r \in IoRequests, IoServer(r)
      PROVE  \/ \E s \in Serials : Handover!Issue(s) \/ Handover!Forget(s)
             \/ UNCHANGED Handover!handoverVars
  <2>1. r.s \in Serials BY DEF IoRequests
  <2> QED BY <1>2, <2>1, IssueRefined, ForgetRefined, ServerStutters DEF IoServer
<1>3. ASSUME NEW s \in Serials, IoDevice(s)
      PROVE  Handover!Store(s) \/ Handover!Erase(s) \/ UNCHANGED Handover!handoverVars
  BY <1>3, StoreRefined, EraseRefined, DeviceStutters DEF IoDevice
<1>4. ASSUME NEW s \in Serials, registerIoBoxSerial(s)
      PROVE  UNCHANGED Handover!handoverVars
  <2>1. UNCHANGED <<ioClaim, ioDev, ioStored>> BY <1>4 DEF registerIoBoxSerial, ioBoxVars
  <2>2. \A t \in Serials : ioSerial'[t].paired = ioSerial[t].paired
    BY <1>4 DEF registerIoBoxSerial, EnrolInv, IoTypeOK, SerialRows
  <2> QED BY <2>1, <2>2, HandoverStutter
<1>5. ASSUME \/ \E b \in ioBoxes : patchIoBox(b)
             \/ \E t \in IoTenants : ArchiveTenant(t)
      PROVE  UNCHANGED Handover!handoverVars
  <2>1. UNCHANGED <<ioSerial, ioClaim, ioDev, ioStored>>
    BY <1>5 DEF patchIoBox, ArchiveTenant, ioBoxVars
  <2> QED BY <2>1, HandoverStutter
<1> QED BY <1>1, <1>2, <1>3, <1>4, <1>5 DEF IoPairNext, Handover!HandoverNext

(* The protocol with its locks, timeouts, lost answers and restarts        *)
(* implements CredentialHandover: every step is one of its steps, or       *)
(* leaves its state alone.                                                 *)
THEOREM EnrolmentHandsOver == IoPairSpec => HandsOver
BY HandoverInitially, HandoverStep, EnrolInvHolds, PTL
   DEF IoPairSpec, HandsOver, Handover!HandoverSpec

----------------------------------------------------------------------------
(* Paired boxes: the configuration a device pulls and the firmware it      *)
(* installs, for any boxes, displays, releases and writes of administrators.*)

\* What a device and a request of it are made of.
Configs == [display : MaybeDisplay, kiosk : IoKiosks \cup {None}, maps : SUBSET MapRows]
Images == [version : Nat, model : MaybeModel, sha : Nat]
BoxDevices == [config : Configs, image : Images, told : Nat]
Pulling == {"display", "mappings", "kiosk", "answer"}
Work == [at : Pulling \cup {"idle", "pinned", "latest", "download", "flashed"},
         assigned : MaybeDisplay, kiosk : IoKiosks \cup {None, "gone"},
         local : IoKiosks \cup {None}, maps : SUBSET MapRows, target : Nat,
         channel : IoChannels \cup {"stable", None}, row : Nat, sha : Nat, ok : BOOLEAN]

IoDevTypes ==
  /\ ibox \in [IoBoxes -> BoxRows]
  /\ idisp \in [IoDisplays -> IoKiosks \cup {None, "gone"}] /\ ikiosk \in [IoKiosks -> BOOLEAN]
  /\ imaps \subseteq MapRows /\ irels \subseteq IoRelRows
  /\ iadm.op # "none" => iadm.box \in IoBoxes /\ iadm.row \in BoxRows
  /\ idev \in [IoBoxes -> BoxDevices] /\ iwork \in [IoBoxes -> Work]
  /\ fresh \in [IoBoxes -> {"no", "pulling", "yes"}]
  /\ iedits \in Nat /\ iimports \in Nat

\* A box is assigned to a display that exists: deletions unassign it.
AssignedExist == \A b \in IoBoxes : ibox[b].assigned = None \/ Exists(ibox[b].assigned)

\* An id names a release, of one version and model, for good.
ReleasesTrue ==
  /\ \A r \in irels : r.id <= iimports
  /\ \A r, s \in irels : r.id = s.id => r = s

\* A pull that overlapped no write has read so far what the rows say now.
PullKnows(d, w) ==
  /\ w.at \in Pulling /\ w.assigned = d
  /\ d = None => w.at = "answer" /\ w.kiosk = None /\ w.local = None /\ w.maps = {}
  /\ d # None =>
       /\ w.at # "display" => w.kiosk = idisp[d]
       /\ w.at \in {"kiosk", "answer"} => w.maps = listIoBoxMappingsForDisplay(d)
       /\ w.at = "answer" =>
            w.local = IF idisp[d] \in IoKiosks /\ ikiosk[idisp[d]] THEN idisp[d] ELSE None

PullTrue(b) ==
  /\ fresh[b] = "pulling" => PullKnows(ibox[b].assigned, iwork[b])
  /\ fresh[b] = "yes" => iwork[b].at \notin Pulling

\* A release on its way to a device is newer than what it runs and built for it,
\* and stays so whatever is imported over it.
DownloadKnows(b, w, image) ==
  w.at = "download" =>
    /\ w.row <= iimports
    /\ \A r \in irels : r.id = w.row =>
         r.model \in {None, IoModelOf[b]} /\ r.version > image.version

DownloadTrue(b) == DownloadKnows(b, iwork[b], idev[b].image)

\* What a device holds.
DeviceTrue(b) ==
  /\ fresh[b] = "yes" => idev[b].config = ConfigOf(b)
  /\ idev[b].image.model \in {None, IoModelOf[b]} /\ idev[b].image.sha = idev[b].told

IoDevInv ==
  /\ IoDevTypes /\ AssignedExist /\ ReleasesTrue
  /\ \A b \in IoBoxes : PullTrue(b) /\ DownloadTrue(b) /\ DeviceTrue(b)

\* Unassigned, no kiosk and deleted are three things, and no display or kiosk.
LEMMA IoDevBounds ==
  /\ None \notin IoDisplays /\ None \notin IoKiosks /\ "gone" \notin IoKiosks /\ None # "gone"
  /\ IoModelOf \in [IoBoxes -> IoModels] /\ IoVersions \subseteq Nat
BY IoDevAssumption DEF None

\* Someone writes rows that a pull reads: nothing is claimed of the pulls under way.
LEMMA EditKept ==
  ASSUME IoDevInv, IoDevTypes', AssignedExist', UNCHANGED <<irels, idev, iwork, iimports>>,
         \A b \in IoBoxes : fresh'[b] = "no"
  PROVE  IoDevInv'
<1>1. ReleasesTrue'
  BY DEF IoDevInv, ReleasesTrue
<1>2. ASSUME NEW b \in IoBoxes PROVE PullTrue(b)' /\ DownloadTrue(b)' /\ DeviceTrue(b)'
  BY <1>2 DEF IoDevInv, PullTrue, DownloadTrue, DownloadKnows, DeviceTrue
<1>3. QED BY <1>1, <1>2 DEF IoDevInv

\* Someone writes what no pull reads.
LEMMA CalmKept ==
  ASSUME IoDevInv, IoDevTypes', \A b \in IoBoxes : ibox'[b].assigned = ibox[b].assigned,
         UNCHANGED <<idisp, ikiosk, imaps, irels, idev, iwork, fresh, iimports>>
  PROVE  IoDevInv'
<1>1. ReleasesTrue' /\ AssignedExist'
  BY DEF IoDevInv, ReleasesTrue, AssignedExist, Exists
<1>2. ASSUME NEW b \in IoBoxes PROVE PullTrue(b)' /\ DownloadTrue(b)' /\ DeviceTrue(b)'
  <2>1. PullTrue(b) /\ DownloadTrue(b) /\ DeviceTrue(b)
    BY DEF IoDevInv
  <2>2. PullTrue(b)'
    BY <2>1 DEF PullTrue, PullKnows, listIoBoxMappingsForDisplay
  <2>3. DownloadTrue(b)'
    BY <2>1 DEF DownloadTrue, DownloadKnows
  <2>4. DeviceTrue(b)'
    BY <2>1 DEF DeviceTrue, ConfigOf, Exists
  <2>5. QED BY <2>2, <2>3, <2>4
<1>3. QED BY <1>1, <1>2 DEF IoDevInv

\* One device takes a step: the rows stay, but for what it tells of itself.
LEMMA OneDeviceKept ==
  ASSUME IoDevInv, NEW b \in IoBoxes, NEW w \in Work, NEW v \in BoxDevices,
         NEW f \in {"no", "pulling", "yes"},
         iwork' = [iwork EXCEPT ![b] = w], idev' = [idev EXCEPT ![b] = v],
         fresh' = [fresh EXCEPT ![b] = f], ibox' \in [IoBoxes -> BoxRows],
         \A c \in IoBoxes : ibox'[c].assigned = ibox[c].assigned,
         UNCHANGED <<idisp, ikiosk, imaps, irels, iadm, iedits, iimports>>,
         f = "pulling" => PullKnows(ibox[b].assigned, w),
         DownloadKnows(b, w, v.image),
         f = "yes" => v.config = ConfigOf(b) /\ w.at \notin Pulling,
         v.image.model \in {None, IoModelOf[b]}, v.image.sha = v.told
  PROVE  IoDevInv'
<1>1. IoDevTypes'
  BY DEF IoDevInv, IoDevTypes
<1>2. ReleasesTrue' /\ AssignedExist'
  BY DEF IoDevInv, ReleasesTrue, AssignedExist, Exists
<1>3. /\ iwork'[b] = w /\ idev'[b] = v /\ fresh'[b] = f
      /\ \A c \in IoBoxes : c # b =>
           iwork'[c] = iwork[c] /\ idev'[c] = idev[c] /\ fresh'[c] = fresh[c]
  BY DEF IoDevInv, IoDevTypes
<1>4. \A d, x : PullKnows(d, x)' <=> PullKnows(d, x)
  BY DEF PullKnows, listIoBoxMappingsForDisplay
<1>5. \A c, x, i : DownloadKnows(c, x, i)' <=> DownloadKnows(c, x, i)
  BY DEF DownloadKnows
<1>6. \A c \in IoBoxes : ConfigOf(c)' = ConfigOf(c)
  BY DEF ConfigOf, Exists
<1>7. ASSUME NEW c \in IoBoxes PROVE PullTrue(c)' /\ DownloadTrue(c)' /\ DeviceTrue(c)'
  <2>1. CASE c = b
    BY <1>3, <1>4, <1>5, <1>6, <2>1 DEF PullTrue, DownloadTrue, DeviceTrue
  <2>2. CASE c # b
    <3>1. PullTrue(c) /\ DownloadTrue(c) /\ DeviceTrue(c)
      BY DEF IoDevInv
    <3>2. QED BY <1>3, <1>4, <1>5, <1>6, <2>2, <3>1 DEF PullTrue, DownloadTrue, DeviceTrue
  <2>3. QED BY <2>1, <2>2
<1>8. QED BY <1>1, <1>2, <1>7 DEF IoDevInv

\* What is known of one box.
LEMMA BoxTyped ==
  ASSUME IoDevInv, NEW b \in IoBoxes
  PROVE  /\ ibox[b] \in BoxRows /\ iwork[b] \in Work /\ idev[b] \in BoxDevices
         /\ idev[b].image \in Images /\ idev[b].config \in Configs
         /\ fresh[b] \in {"no", "pulling", "yes"}
         /\ PullTrue(b) /\ DownloadTrue(b) /\ DeviceTrue(b)
         /\ ibox[b].assigned \in MaybeDisplay
         /\ ibox[b].assigned = None \/ Exists(ibox[b].assigned)
BY DEF IoDevInv, IoDevTypes, AssignedExist, BoxRows, BoxDevices

\* A device at rest, and one that was just started.
LEMMA RestTyped == Resting \in Work /\ Resting.at = "idle" /\ Blank \in Configs
BY DEF Resting, Work, Blank, Configs, MaybeDisplay, NoVersion

\* A handler reads on for a device.
LEMMA ReadKept ==
  ASSUME IoDevInv, NEW b \in IoBoxes, NEW w \in Work, iwork' = [iwork EXCEPT ![b] = w],
         UNCHANGED <<ibox, idisp, ikiosk, imaps, irels, iadm, idev, fresh, iedits, iimports>>,
         fresh[b] = "pulling" => PullKnows(ibox[b].assigned, w),
         w.at \in Pulling => iwork[b].at \in Pulling,
         DownloadKnows(b, w, idev[b].image)
  PROVE  IoDevInv'
<1>1. /\ idev' = [idev EXCEPT ![b] = idev[b]] /\ fresh' = [fresh EXCEPT ![b] = fresh[b]]
      /\ ibox' \in [IoBoxes -> BoxRows]
  BY DEF IoDevInv, IoDevTypes
<1>2. PICK v \in BoxDevices : v = idev[b]
  BY BoxTyped
<1>3. PICK f \in {"no", "pulling", "yes"} : f = fresh[b]
  BY BoxTyped
<1>4. /\ f = "yes" => v.config = ConfigOf(b) /\ w.at \notin Pulling
      /\ v.image.model \in {None, IoModelOf[b]} /\ v.image.sha = v.told
  BY <1>2, <1>3, BoxTyped DEF DeviceTrue, PullTrue
<1>5. /\ idev' = [idev EXCEPT ![b] = v] /\ fresh' = [fresh EXCEPT ![b] = f]
      /\ f = "pulling" => PullKnows(ibox[b].assigned, w)
      /\ DownloadKnows(b, w, v.image)
  BY <1>1, <1>2, <1>3
<1>6. QED BY <1>1, <1>4, <1>5, OneDeviceKept

\* A patch of one box's row.
LEMMA PatchTyped ==
  ASSUME IoDevInv, NEW b \in IoBoxes, NEW d \in MaybeDisplay, NEW row \in BoxRows,
         updateIoBox(b, d, row)
  PROVE  /\ ibox' \in [IoBoxes -> BoxRows]
         /\ \A c \in IoBoxes : ibox'[c].assigned = IF c = b THEN d ELSE ibox[c].assigned
<1>1. ibox \in [IoBoxes -> BoxRows]
  BY DEF IoDevInv, IoDevTypes
<1>2. row.config + 1 \in Nat
  BY DEF BoxRows
<1>3. QED BY <1>1, <1>2 DEF updateIoBox, BoxRows

\* The pages of administrators that write what no pull reads.
LEMMA PagesKept ==
  ASSUME IoDevInv,
         \/ \E m \in IoModels : createIoBoxModel(m)
         \/ \E b \in IoBoxes, op \in {"assign", "map"} : AdminReads(b, op)
         \/ BumpConfig
         \/ \E b \in IoBoxes, c \in IoChannels, v \in IoVersions \cup {NoVersion} :
              setIoBoxFirmware(b, c, v)
  PROVE  IoDevInv'
<1>1. IoDevTypes
  BY DEF IoDevInv
<1>2. ASSUME NEW m \in IoModels, createIoBoxModel(m)
      PROVE  IoDevInv'
  <2>1. IoDevTypes'
    BY <1>1, <1>2 DEF createIoBoxModel, IoDevTypes
  <2>2. QED BY <1>2, <2>1, CalmKept DEF createIoBoxModel
<1>3. ASSUME NEW b \in IoBoxes, NEW op \in {"assign", "map"}, AdminReads(b, op)
      PROVE  IoDevInv'
  <2>1. iadm'.box \in IoBoxes /\ iadm'.row \in BoxRows
    BY <1>3, BoxTyped DEF AdminReads
  <2>2. IoDevTypes'
    BY <1>1, <1>3, <2>1 DEF AdminReads, IoDevTypes
  <2>3. QED BY <1>3, <2>2, CalmKept DEF AdminReads
<1>4. CASE BumpConfig
  <2>1. iadm.box \in IoBoxes /\ iadm.row \in BoxRows /\ NoAdmin.op = "none"
    BY <1>1, <1>4 DEF BumpConfig, IoDevTypes, NoAdmin
  <2>2. /\ ibox' \in [IoBoxes -> BoxRows]
        /\ \A c \in IoBoxes : ibox'[c].assigned = ibox[c].assigned
    BY <1>4, <2>1, BoxTyped, PatchTyped DEF BumpConfig
  <2>3. IoDevTypes'
    BY <1>1, <1>4, <2>1, <2>2 DEF BumpConfig, IoDevTypes
  <2>4. QED BY <1>4, <2>2, <2>3, CalmKept DEF BumpConfig
<1>5. ASSUME NEW b \in IoBoxes, NEW c \in IoChannels, NEW v \in IoVersions \cup {NoVersion},
             setIoBoxFirmware(b, c, v)
      PROVE  IoDevInv'
  <2>1. v \in Nat
    BY IoDevBounds DEF NoVersion
  <2>2. /\ ibox' \in [IoBoxes -> BoxRows]
        /\ \A o \in IoBoxes : ibox'[o].assigned = ibox[o].assigned
    BY <1>1, <1>5, <2>1 DEF setIoBoxFirmware, IoDevTypes, BoxRows
  <2>3. IoDevTypes'
    BY <1>1, <1>5, <2>2 DEF setIoBoxFirmware, IoDevTypes
  <2>4. QED BY <1>5, <2>2, <2>3, CalmKept DEF setIoBoxFirmware
<1>6. QED BY <1>2, <1>3, <1>4, <1>5

\* The pages that write what pulls read, and the displays and kiosks they read.
LEMMA EditsKept ==
  ASSUME IoDevInv,
         \/ \E d \in IoDisplays \cup {None} : AdminAssigns(d)
         \/ \E b \in IoBoxes, x \in imaps : deleteIoBoxMapping(b, x)
         \/ \E d \in IoDisplays, k \in IoKiosks \cup {None} : MoveDisplay(d, k)
         \/ \E d \in IoDisplays : DeleteDisplay(d)
         \/ \E k \in IoKiosks : KioskAddress(k)
  PROVE  IoDevInv'
<1>1. IoDevTypes /\ AssignedExist
  BY DEF IoDevInv
<1>2. ServerEdit => fresh' \in [IoBoxes -> {"no", "pulling", "yes"}] /\ iedits' \in Nat
                    /\ \A b \in IoBoxes : fresh'[b] = "no"
  BY <1>1 DEF ServerEdit, IoDevTypes
<1>3. ASSUME NEW d \in IoDisplays \cup {None}, AdminAssigns(d)
      PROVE  IoDevInv'
  <2>1. iadm.box \in IoBoxes /\ iadm.row \in BoxRows /\ NoAdmin.op = "none"
    BY <1>1, <1>3 DEF AdminAssigns, IoDevTypes, NoAdmin
  <2>2. /\ ibox' \in [IoBoxes -> BoxRows]
        /\ \A c \in IoBoxes : ibox'[c].assigned = IF c = iadm.box THEN d ELSE ibox[c].assigned
    BY <1>3, <2>1, PatchTyped DEF AdminAssigns, MaybeDisplay
  <2>3. IoDevTypes'
    BY <1>1, <1>2, <1>3, <2>1, <2>2 DEF AdminAssigns, IoDevTypes
  <2>4. AssignedExist'
    BY <1>1, <1>3, <2>2 DEF AdminAssigns, AssignedExist, Exists
  <2>5. QED BY <1>2, <1>3, <2>3, <2>4, EditKept DEF AdminAssigns
<1>4. ASSUME NEW b \in IoBoxes, NEW x \in imaps, deleteIoBoxMapping(b, x)
      PROVE  IoDevInv'
  <2>1. iadm'.box \in IoBoxes /\ iadm'.row \in BoxRows
    BY <1>4, BoxTyped DEF deleteIoBoxMapping
  <2>2. IoDevTypes'
    BY <1>1, <1>2, <1>4, <2>1 DEF deleteIoBoxMapping, IoDevTypes
  <2>3. AssignedExist'
    BY <1>1, <1>4 DEF deleteIoBoxMapping, AssignedExist, Exists
  <2>4. QED BY <1>2, <1>4, <2>2, <2>3, EditKept DEF deleteIoBoxMapping
<1>5. ASSUME NEW d \in IoDisplays, NEW k \in IoKiosks \cup {None}, MoveDisplay(d, k)
      PROVE  IoDevInv'
  <2>1. IoDevTypes'
    BY <1>1, <1>2, <1>5 DEF MoveDisplay, IoDevTypes
  <2>2. AssignedExist'
    BY <1>1, <1>5, IoDevBounds DEF MoveDisplay, AssignedExist, Exists, IoDevTypes
  <2>3. QED BY <1>2, <1>5, <2>1, <2>2, EditKept DEF MoveDisplay
<1>6. ASSUME NEW d \in IoDisplays, DeleteDisplay(d)
      PROVE  IoDevInv'
  <2>1. /\ ibox' \in [IoBoxes -> BoxRows]
        /\ \A c \in IoBoxes : ibox'[c].assigned = IF ibox[c].assigned = d THEN None
                                                  ELSE ibox[c].assigned
    BY <1>1, <1>6 DEF DeleteDisplay, IoDevTypes, BoxRows, MaybeDisplay
  <2>2. imaps' \subseteq MapRows /\ idisp' \in [IoDisplays -> IoKiosks \cup {None, "gone"}]
    BY <1>1, <1>6 DEF DeleteDisplay, IoDevTypes
  <2>3. IoDevTypes'
    BY <1>1, <1>2, <1>6, <2>1, <2>2 DEF DeleteDisplay, IoDevTypes
  <2>4. AssignedExist'
    BY <1>1, <1>6, <2>1 DEF DeleteDisplay, AssignedExist, Exists, IoDevTypes
  <2>5. QED BY <1>2, <1>6, <2>3, <2>4, EditKept DEF DeleteDisplay
<1>7. ASSUME NEW k \in IoKiosks, KioskAddress(k)
      PROVE  IoDevInv'
  <2>1. IoDevTypes'
    BY <1>1, <1>2, <1>7 DEF KioskAddress, IoDevTypes
  <2>2. AssignedExist'
    BY <1>1, <1>7 DEF KioskAddress, AssignedExist, Exists
  <2>3. QED BY <1>2, <1>7, <2>1, <2>2, EditKept DEF KioskAddress
<1>8. QED BY <1>3, <1>4, <1>5, <1>6, <1>7

\* A mapping is inserted, or refused because its display was deleted.
LEMMA MappingKept ==
  ASSUME IoDevInv, AdminMaps
  PROVE  IoDevInv'
<1>1. /\ IoDevTypes /\ AssignedExist /\ iadm.box \in IoBoxes /\ iadm.row \in BoxRows
      /\ NoAdmin.op = "none" /\ iadm' = NoAdmin
  BY DEF IoDevInv, IoDevTypes, AdminMaps, createIoBoxMapping, NoAdmin
<1>2. UNCHANGED <<idisp, ikiosk, irels, idev, iwork, iimports>>
  BY DEF AdminMaps, createIoBoxMapping
<1>3. CASE UNCHANGED <<imaps, ibox, fresh, iedits>>
  <2>1. IoDevTypes'
    BY <1>1, <1>2, <1>3 DEF IoDevTypes
  <2>2. QED BY <1>2, <1>3, <2>1, CalmKept
<1>4. CASE /\ imaps' = imaps \cup {<<iedits + 1, iadm.row.assigned>>}
           /\ updateIoBox(iadm.box, ibox[iadm.box].assigned, iadm.row) /\ ServerEdit
  <2>1. /\ ibox' \in [IoBoxes -> BoxRows]
        /\ \A c \in IoBoxes : ibox'[c].assigned = ibox[c].assigned
    BY <1>1, <1>4, BoxTyped, PatchTyped
  <2>2. /\ fresh' \in [IoBoxes -> {"no", "pulling", "yes"}] /\ iedits' \in Nat
        /\ \A b \in IoBoxes : fresh'[b] = "no"
    BY <1>1, <1>4 DEF ServerEdit, IoDevTypes
  <2>3. iadm.row.assigned \in MaybeDisplay /\ iedits + 1 \in Nat
    BY <1>1 DEF BoxRows, IoDevTypes
  <2>4. imaps' \subseteq MapRows
    BY <1>1, <1>4, <2>3 DEF MapRows, IoDevTypes
  <2>5. IoDevTypes'
    BY <1>1, <1>2, <2>1, <2>2, <2>4 DEF IoDevTypes
  <2>6. AssignedExist'
    BY <1>1, <1>2, <2>1 DEF AssignedExist, Exists
  <2>7. QED BY <1>2, <2>2, <2>5, <2>6, EditKept
<1>5. QED BY <1>3, <1>4 DEF AdminMaps, createIoBoxMapping

\* An import: an id goes on naming its version and model, or is new.
LEMMA IoImportKept ==
  ASSUME IoDevInv, NEW v \in IoVersions, NEW c \in IoChannels, NEW m \in IoModels \cup {None},
         importIoBoxFirmware(v, c, m)
  PROVE  IoDevInv'
<1>1. /\ IoDevTypes /\ AssignedExist /\ ReleasesTrue /\ iimports \in Nat /\ v \in Nat
      /\ m \in MaybeModel /\ iimports' = iimports + 1
      /\ UNCHANGED <<ibox, idisp, ikiosk, imaps, iadm, idev, iwork, fresh, iedits>>
  BY IoDevBounds DEF IoDevInv, IoDevTypes, importIoBoxFirmware, MaybeModel
<1>2. PICK id \in Nat, new \in IoRelRows :
        /\ new.id = id /\ new.version = v /\ new.model = m
        /\ irels' = {r \in irels : r.id # id} \cup {new}
        /\ \/ id = iimports + 1
           \/ \E r \in irels : r.id = id /\ r.version = v /\ r.model = m
  <2> DEFINE old == Conflicting(v, m)
             id == IF old = {} THEN iimports + 1 ELSE (CHOOSE r \in old : TRUE).id
             new == [id |-> id, version |-> v, channel |-> c, model |-> m,
                     sha |-> iimports + 1, uploaded |-> iimports + 1]
  <2>1. irels' = {r \in irels : r.id # id} \cup {new}
    BY DEF importIoBoxFirmware, createIoBoxFirmwareRelease
  <2>2. \/ id = iimports + 1
        \/ \E r \in irels : r.id = id /\ r.version = v /\ r.model = m
    <3>1. CASE old = {}
      BY <3>1
    <3>2. CASE old # {}
      <4>1. (CHOOSE r \in old : TRUE) \in old
        BY <3>2
      <4>2. QED BY <3>2, <4>1 DEF Conflicting
    <3>3. QED BY <3>1, <3>2
  <2>3. id \in Nat
    BY <1>1, <2>2 DEF IoDevTypes, IoRelRows
  <2> HIDE DEF id
  <2>4. new \in IoRelRows /\ new.id = id /\ new.version = v /\ new.model = m
    BY <1>1, <2>3 DEF IoRelRows
  <2> HIDE DEF new
  <2>5. QED BY <2>1, <2>2, <2>3, <2>4
<1>3. ReleasesTrue'
  BY <1>1, <1>2 DEF ReleasesTrue, IoDevTypes, IoRelRows
<1>4. irels' \subseteq IoRelRows
  BY <1>1, <1>2 DEF IoDevTypes
<1>5. IoDevTypes' /\ AssignedExist'
  BY <1>1, <1>4 DEF IoDevTypes, AssignedExist, Exists
<1>6. ASSUME NEW b \in IoBoxes PROVE PullTrue(b)' /\ DownloadTrue(b)' /\ DeviceTrue(b)'
  <2>1. PullTrue(b)'
    BY <1>1, BoxTyped DEF PullTrue, PullKnows, listIoBoxMappingsForDisplay
  <2>2. DeviceTrue(b)'
    BY <1>1, BoxTyped DEF DeviceTrue, ConfigOf, Exists
  <2>3. ASSUME iwork[b].at = "download"
        PROVE  /\ iwork[b].row <= iimports /\ iwork[b].row \in Nat
               /\ \A r \in irels : r.id = iwork[b].row =>
                    r.model \in {None, IoModelOf[b]} /\ r.version > idev[b].image.version
    BY <2>3, BoxTyped DEF DownloadTrue, DownloadKnows, Work
  <2>4. DownloadTrue(b)'
    BY <1>1, <1>2, <2>3 DEF DownloadTrue, DownloadKnows
  <2>5. QED BY <2>1, <2>2, <2>4
<1>7. QED BY <1>3, <1>5, <1>6 DEF IoDevInv

\* GET /api/iobox/config reads the box, the display, the mappings and the kiosk.
LEMMA ConfigReadKept ==
  ASSUME IoDevInv, NEW b \in IoBoxes,
         ConfigBox(b) \/ ConfigDisplay(b) \/ ConfigMappings(b) \/ ConfigKiosk(b)
  PROVE  IoDevInv'
<1>1. /\ iwork[b] \in Work /\ idev[b] \in BoxDevices /\ ibox[b].assigned \in MaybeDisplay
      /\ PullTrue(b) /\ ibox \in [IoBoxes -> BoxRows] /\ idev \in [IoBoxes -> BoxDevices]
      /\ IoDevTypes
  BY BoxTyped DEF IoDevInv, IoDevTypes
<1>2. CASE ConfigBox(b)
  <2>1. PICK at \in {"answer", "display"} :
          at = IF ibox[b].assigned = None THEN "answer" ELSE "display"
    OBVIOUS
  <2>2. PICK w : w = [Resting EXCEPT !.at = at, !.assigned = ibox[b].assigned]
    OBVIOUS
  <2>3. /\ w \in Work /\ w.at = at /\ w.assigned = ibox[b].assigned
        /\ w.kiosk = Resting.kiosk /\ w.local = Resting.local /\ w.maps = Resting.maps
    BY <1>1, <2>2, RestTyped DEF Work, Pulling
  <2>4. /\ w.at # "download"
        /\ w.kiosk = None /\ w.local = None /\ w.maps = {}
    BY <2>3 DEF Resting
  <2>5. PullKnows(ibox[b].assigned, w)
    BY <2>1, <2>3, <2>4 DEF PullKnows, Pulling
  <2>6. DownloadKnows(b, w, idev[b].image)
    BY <2>4 DEF DownloadKnows
  <2>7. PICK v \in BoxDevices : v = idev[b]
    BY <1>1
  <2>8. /\ idev' = [idev EXCEPT ![b] = v] /\ iwork' = [iwork EXCEPT ![b] = w]
        /\ fresh' = [fresh EXCEPT ![b] = "pulling"] /\ ibox' = ibox
        /\ UNCHANGED <<idisp, ikiosk, imaps, irels, iadm, iedits, iimports>>
    BY <1>1, <1>2, <2>1, <2>2, <2>7 DEF ConfigBox
  <2>9. v.image.model \in {None, IoModelOf[b]} /\ v.image.sha = v.told
    BY <2>7, BoxTyped DEF DeviceTrue
  <2>10. QED BY <1>1, <2>3, <2>5, <2>6, <2>7, <2>8, <2>9, OneDeviceKept
<1>3. CASE ConfigDisplay(b)
  <2>1. PICK w : w = [iwork[b] EXCEPT !.at = "mappings",
                        !.kiosk = IF Exists(iwork[b].assigned)
                                  THEN idisp[iwork[b].assigned] ELSE "gone"]
    OBVIOUS
  <2>2. w.kiosk = IF Exists(iwork[b].assigned) THEN idisp[iwork[b].assigned] ELSE "gone"
    BY <1>1, <2>1 DEF Work
  <2>3. w.kiosk \in IoKiosks \cup {None, "gone"}
    BY <1>1, <2>2 DEF Exists, IoDevTypes, Work, MaybeDisplay
  <2>4. w \in Work /\ w.at = "mappings" /\ w.assigned = iwork[b].assigned
    BY <1>1, <2>1, <2>2, <2>3 DEF Work, Pulling
  <2>5. fresh[b] = "pulling" => PullKnows(ibox[b].assigned, w)
    BY <1>1, <1>3, <2>2, <2>4, BoxTyped DEF PullTrue, PullKnows, Pulling, ConfigDisplay
  <2>6. DownloadKnows(b, w, idev[b].image)
    BY <2>4 DEF DownloadKnows
  <2>7. iwork' = [iwork EXCEPT ![b] = w]
    BY <1>1, <1>3, <2>1 DEF ConfigDisplay, IoDevTypes
  <2>8. w.at \in Pulling => iwork[b].at \in Pulling
    BY <1>3 DEF ConfigDisplay, Pulling
  <2>9. QED BY <1>3, <2>4, <2>5, <2>6, <2>7, <2>8, ReadKept DEF ConfigDisplay
<1>4. CASE ConfigMappings(b)
  <2>1. PICK w : w = [iwork[b] EXCEPT !.at = "kiosk",
                        !.maps = listIoBoxMappingsForDisplay(iwork[b].assigned)]
    OBVIOUS
  <2>2. listIoBoxMappingsForDisplay(iwork[b].assigned) \subseteq MapRows
    BY <1>1 DEF listIoBoxMappingsForDisplay, IoDevTypes
  <2>3. /\ w \in Work /\ w.at = "kiosk" /\ w.assigned = iwork[b].assigned
        /\ w.kiosk = iwork[b].kiosk
        /\ w.maps = listIoBoxMappingsForDisplay(iwork[b].assigned)
    BY <1>1, <2>1, <2>2 DEF Work, Pulling
  <2>4. fresh[b] = "pulling" => PullKnows(ibox[b].assigned, w)
    BY <1>1, <1>4, <2>3 DEF PullTrue, PullKnows, Pulling, ConfigMappings
  <2>5. DownloadKnows(b, w, idev[b].image)
    BY <2>3 DEF DownloadKnows
  <2>6. iwork' = [iwork EXCEPT ![b] = w]
    BY <1>1, <1>4, <2>1 DEF ConfigMappings, IoDevTypes
  <2>7. w.at \in Pulling => iwork[b].at \in Pulling
    BY <1>4 DEF ConfigMappings, Pulling
  <2>8. QED BY <1>4, <2>3, <2>4, <2>5, <2>6, <2>7, ReadKept DEF ConfigMappings
<1>5. CASE ConfigKiosk(b)
  <2>1. PICK l : l = IF iwork[b].kiosk \in IoKiosks /\ ikiosk[iwork[b].kiosk]
                     THEN iwork[b].kiosk ELSE None
    OBVIOUS
  <2>2. PICK w : w = [iwork[b] EXCEPT !.at = "answer", !.local = l]
    OBVIOUS
  <2>3. /\ w \in Work /\ w.at = "answer" /\ w.assigned = iwork[b].assigned
        /\ w.kiosk = iwork[b].kiosk /\ w.maps = iwork[b].maps /\ w.local = l
    BY <1>1, <2>1, <2>2 DEF Work, Pulling
  <2>4. fresh[b] = "pulling" => PullKnows(ibox[b].assigned, w)
    BY <1>1, <1>5, <2>1, <2>3 DEF PullTrue, PullKnows, Pulling, ConfigKiosk
  <2>5. DownloadKnows(b, w, idev[b].image)
    BY <2>3 DEF DownloadKnows
  <2>6. iwork' = [iwork EXCEPT ![b] = w]
    BY <1>1, <1>5, <2>1, <2>2 DEF ConfigKiosk, IoDevTypes
  <2>7. w.at \in Pulling => iwork[b].at \in Pulling
    BY <1>5 DEF ConfigKiosk, Pulling
  <2>8. QED BY <1>5, <2>3, <2>4, <2>5, <2>6, <2>7, ReadKept DEF ConfigKiosk
<1>6. QED BY <1>2, <1>3, <1>4, <1>5

\* The answer of a pull that overlapped no write is what the rows say.
LEMMA AnswerCurrent ==
  ASSUME IoDevInv, NEW b \in IoBoxes, fresh[b] = "pulling", iwork[b].at = "answer"
  PROVE  Answered(iwork[b]) = ConfigOf(b)
<1> DEFINE w == iwork[b]
           d == ibox[b].assigned
<1>1. PullKnows(d, w) /\ d \in MaybeDisplay /\ (d = None \/ Exists(d))
  BY BoxTyped DEF PullTrue
<1>2. None # "gone" /\ None \notin IoKiosks /\ "gone" \notin IoKiosks
  BY IoDevBounds
<1>3. CASE d = None
  BY <1>1, <1>2, <1>3 DEF PullKnows, Answered, ConfigOf, Exists, Blank
<1>4. CASE d # None
  <2>1. /\ w.assigned = d /\ w.kiosk = idisp[d] /\ w.maps = listIoBoxMappingsForDisplay(d)
        /\ w.local = IF idisp[d] \in IoKiosks /\ ikiosk[idisp[d]] THEN idisp[d] ELSE None
    BY <1>1, <1>4 DEF PullKnows
  <2>2. Exists(d) /\ idisp[d] # "gone" /\ idisp[d] \in IoKiosks \cup {None}
    BY <1>1, <1>4 DEF Exists, MaybeDisplay, IoDevInv, IoDevTypes
  <2>3. listIoBoxMappingsForDisplay(d) = {x \in imaps : x[2] = d \/ x[2] = None}
    BY DEF listIoBoxMappingsForDisplay
  <2>4. w.local = IF idisp[d] # None /\ ikiosk[idisp[d]] THEN idisp[d] ELSE None
    BY <1>2, <2>1, <2>2
  <2>5. QED BY <2>1, <2>2, <2>3, <2>4 DEF Answered, ConfigOf
<1>5. QED BY <1>3, <1>4

\* A request that is no pull: nothing is claimed of the pull.
LEMMA NoPull ==
  ASSUME IoDevInv, NEW b \in IoBoxes, iwork[b].at \notin Pulling
  PROVE  fresh[b] \in {"no", "yes"}
BY BoxTyped DEF PullTrue, PullKnows

\* The answer arrives and is kept, or the request fails.
LEMMA AnswerKept ==
  ASSUME IoDevInv, NEW b \in IoBoxes, PullAnswer(b) \/ RequestLost(b) \/ PowerCut(b)
  PROVE  IoDevInv'
<1>1. /\ ibox' \in [IoBoxes -> BoxRows] /\ \A c \in IoBoxes : ibox'[c].assigned = ibox[c].assigned
      /\ UNCHANGED <<idisp, ikiosk, imaps, irels, iadm, iedits, iimports>>
      /\ iwork' = [iwork EXCEPT ![b] = Resting]
  BY DEF IoDevInv, IoDevTypes, PullAnswer, RequestLost, PowerCut, Rest
<1>2. /\ iwork[b] \in Work /\ idev[b] \in BoxDevices /\ fresh[b] \in {"no", "pulling", "yes"}
      /\ Resting \in Work /\ Resting.at = "idle" /\ Blank \in Configs
      /\ idev[b].image.model \in {None, IoModelOf[b]} /\ idev[b].image.sha = idev[b].told
      /\ fresh[b] = "yes" => iwork[b].at \notin Pulling
      /\ "idle" \notin Pulling /\ "answer" \in Pulling
      /\ idev \in [IoBoxes -> BoxDevices] /\ fresh \in [IoBoxes -> {"no", "pulling", "yes"}]
  BY BoxTyped, RestTyped DEF DeviceTrue, PullTrue, IoDevInv, IoDevTypes, Pulling
<1>3. \A image : DownloadKnows(b, Resting, image)
  BY <1>2 DEF DownloadKnows
<1>4. CASE PullAnswer(b)
  <2>1. PICK f \in {"no", "pulling", "yes"} : f = IF fresh[b] = "pulling" THEN "yes" ELSE fresh[b]
    BY <1>2
  <2>2. Answered(iwork[b]) \in Configs
    BY <1>2, <1>4 DEF Answered, Work, Configs, MaybeDisplay, PullAnswer
  <2>3. PICK v : v = [idev[b] EXCEPT !.config = Answered(iwork[b])]
    OBVIOUS
  <2>4. /\ v \in BoxDevices /\ v.config = Answered(iwork[b]) /\ v.image = idev[b].image
        /\ v.told = idev[b].told
    BY <1>2, <2>2, <2>3 DEF BoxDevices
  <2>5. iwork[b].at = "answer"
    BY <1>4 DEF PullAnswer
  <2>6. f = "yes" => v.config = ConfigOf(b)
    <3>1. CASE fresh[b] = "pulling"
      BY <2>4, <2>5, <3>1, AnswerCurrent
    <3>2. CASE fresh[b] # "pulling"
      BY <1>2, <2>1, <2>5, <3>2
    <3>3. QED BY <3>1, <3>2
  <2>7. idev' = [idev EXCEPT ![b] = v] /\ fresh' = [fresh EXCEPT ![b] = f]
    BY <1>2, <1>4, <2>1, <2>3 DEF PullAnswer, pullConfig
  <2>8. f # "pulling"
    BY <2>1
  <2>9. QED BY <1>1, <1>2, <1>3, <2>4, <2>6, <2>7, <2>8, OneDeviceKept
<1>5. CASE RequestLost(b)
  <2>1. idev' = [idev EXCEPT ![b] = idev[b]] /\ fresh' = [fresh EXCEPT ![b] = "no"]
    BY <1>2, <1>5 DEF RequestLost
  <2>2. PICK v \in BoxDevices : v = idev[b]
    BY <1>2
  <2>3. QED BY <1>1, <1>2, <1>3, <2>1, <2>2, OneDeviceKept
<1>6. CASE PowerCut(b)
  <2>1. PICK v : v = [idev[b] EXCEPT !.config = Blank]
    OBVIOUS
  <2>2. /\ v \in BoxDevices /\ v.image = idev[b].image /\ v.told = idev[b].told
    BY <1>2, <2>1 DEF BoxDevices
  <2>3. idev' = [idev EXCEPT ![b] = v] /\ fresh' = [fresh EXCEPT ![b] = "no"]
    BY <1>2, <1>6, <2>1 DEF PowerCut
  <2>4. QED BY <1>1, <1>2, <1>3, <2>2, <2>3, OneDeviceKept
<1>7. QED BY <1>4, <1>5, <1>6

\* A device is offered a release that exists and was built for its model.
LEMMA OfferKept ==
  ASSUME IoDevInv, NEW b \in IoBoxes, NEW r \in irels, Offer(b, r),
         iwork[b].at \in {"pinned", "latest"}, r.model \in {None, IoModelOf[b]},
         UNCHANGED <<ibox, idisp, ikiosk, imaps, irels, iadm, idev, fresh, iedits, iimports>>
  PROVE  IoDevInv'
<1>1. /\ iwork[b] \in Work /\ Resting \in Work /\ Resting.at = "idle" /\ "idle" \notin Pulling
      /\ "download" \notin Pulling /\ iwork \in [IoBoxes -> Work] /\ r \in IoRelRows /\ ReleasesTrue
      /\ idev[b].image \in Images
  BY BoxTyped, RestTyped DEF IoDevInv, IoDevTypes, Pulling
<1>2. fresh[b] # "pulling"
  BY NoPull DEF Pulling
<1>3. CASE IoUpgrade(r.version, idev[b].image.version)
  <2>1. PICK w : w = [iwork[b] EXCEPT !.at = "download", !.row = r.id, !.sha = r.sha]
    OBVIOUS
  <2>2. w \in Work /\ w.row = r.id /\ w.at = "download"
    BY <1>1, <2>1 DEF Work, IoRelRows
  <2>3. iwork' = [iwork EXCEPT ![b] = w]
    BY <1>1, <1>3, <2>1 DEF Offer
  <2>4. DownloadKnows(b, w, idev[b].image)
    BY <1>1, <1>3, <2>2 DEF DownloadKnows, ReleasesTrue, IoUpgrade
  <2>5. QED BY <1>1, <1>2, <2>2, <2>3, <2>4, ReadKept
<1>4. CASE ~IoUpgrade(r.version, idev[b].image.version)
  <2>1. iwork' = [iwork EXCEPT ![b] = Resting]
    BY <1>1, <1>4 DEF Offer
  <2>2. DownloadKnows(b, Resting, idev[b].image)
    BY <1>1 DEF DownloadKnows
  <2>3. QED BY <1>1, <1>2, <2>1, <2>2, ReadKept
<1>5. QED BY <1>3, <1>4

\* GET /api/iobox/firmware/check.
LEMMA CheckKept ==
  ASSUME IoDevInv, NEW b \in IoBoxes, CheckBox(b) \/ CheckPinned(b) \/ CheckLatest(b)
  PROVE  IoDevInv'
<1>1. /\ iwork[b] \in Work /\ Resting \in Work /\ Resting.at = "idle" /\ ibox[b] \in BoxRows
      /\ iwork \in [IoBoxes -> Work]
  BY BoxTyped, RestTyped DEF IoDevInv, IoDevTypes
<1>2. fresh[b] # "pulling" /\ iwork[b].at \in {"idle", "pinned", "latest"}
  BY NoPull DEF Pulling, CheckBox, CheckPinned, CheckLatest, IdleBox
<1>3. UNCHANGED <<ibox, idisp, ikiosk, imaps, irels, iadm, idev, fresh, iedits, iimports>>
  BY DEF CheckBox, CheckPinned, CheckLatest
<1>4. ASSUME NEW w \in Work, w.at \in {"idle", "pinned", "latest"},
             iwork' = [iwork EXCEPT ![b] = w]
      PROVE  IoDevInv'
  <2>1. DownloadKnows(b, w, idev[b].image)
    BY <1>4 DEF DownloadKnows
  <2>2. w.at \notin Pulling
    BY <1>4 DEF Pulling
  <2>3. QED BY <1>2, <1>3, <1>4, <2>1, <2>2, ReadKept
<1>5. CASE CheckBox(b)
  <2>1. PICK at \in {"pinned", "latest"} :
          at = IF ibox[b].target # NoVersion THEN "pinned" ELSE "latest"
    OBVIOUS
  <2>2. PICK w : w = [Resting EXCEPT !.target = ibox[b].target, !.channel = ibox[b].channel,
                        !.at = at]
    OBVIOUS
  <2>3. ibox[b].target \in Nat /\ ibox[b].channel \in IoChannels \cup {"stable"}
    BY <1>1 DEF BoxRows
  <2>4. w \in Work /\ w.at \in {"pinned", "latest"}
    BY <1>1, <2>2, <2>3 DEF Work
  <2>5. iwork' = [iwork EXCEPT ![b] = w]
    BY <1>5, <2>1, <2>2 DEF CheckBox
  <2>6. QED BY <1>4, <2>4, <2>5
<1>6. CASE CheckPinned(b)
  <2>1. CASE Goto(b, "latest")
    <3>1. PICK w : w = [iwork[b] EXCEPT !.at = "latest"]
      OBVIOUS
    <3>2. w \in Work /\ w.at = "latest" /\ iwork' = [iwork EXCEPT ![b] = w]
      BY <1>1, <2>1, <3>1 DEF Work, Goto
    <3>3. QED BY <1>4, <3>2
  <2>2. ASSUME NEW r \in irels, r.model \in {None, IoModelOf[b]}, Offer(b, r)
        PROVE  IoDevInv'
    BY <1>3, <1>6, <2>2, OfferKept DEF CheckPinned
  <2>3. QED BY <1>6, <2>1, <2>2 DEF CheckPinned, ByVersion
<1>7. CASE CheckLatest(b)
  <2>1. CASE Rest(b)
    BY <1>1, <1>4, <2>1 DEF Rest
  <2>2. ASSUME NEW r \in irels, r.model \in {None, IoModelOf[b]}, Offer(b, r)
        PROVE  IoDevInv'
    BY <1>3, <1>7, <2>2, OfferKept DEF CheckLatest
  <2>3. getLatestIoBoxFirmwareRelease(iwork[b].channel, IoModelOf[b])
          \subseteq {r \in irels : r.model \in {None, IoModelOf[b]}}
    BY DEF getLatestIoBoxFirmwareRelease, Applicable
  <2>4. QED BY <1>7, <2>1, <2>2, <2>3 DEF CheckLatest
<1>8. QED BY <1>5, <1>6, <1>7

\* The image arrives, and the device tells the server and starts again.
LEMMA FlashKept ==
  ASSUME IoDevInv, NEW b \in IoBoxes,
         heartbeat(b) \/ Download(b) \/ \E arrives \in BOOLEAN : Applied(b, arrives)
  PROVE  IoDevInv' /\ idev'[b].image.version >= idev[b].image.version
<1>1. /\ iwork[b] \in Work /\ Resting \in Work /\ Resting.at = "idle" /\ ibox[b] \in BoxRows
      /\ "idle" \notin Pulling /\ "flashed" \notin Pulling
      /\ iwork \in [IoBoxes -> Work] /\ idev[b] \in BoxDevices /\ idev[b].image \in Images
      /\ idev \in [IoBoxes -> BoxDevices] /\ fresh \in [IoBoxes -> {"no", "pulling", "yes"}]
      /\ ibox \in [IoBoxes -> BoxRows] /\ Blank \in Configs /\ DownloadTrue(b)
      /\ idev[b].image.model \in {None, IoModelOf[b]} /\ idev[b].image.sha = idev[b].told
      /\ fresh[b] = "yes" => idev[b].config = ConfigOf(b)
      /\ idev[b].image.version \in Nat /\ idev[b].image.version >= idev[b].image.version
  BY BoxTyped, RestTyped DEF IoDevInv, IoDevTypes, DeviceTrue, Images, Pulling
<1>2. CASE heartbeat(b)
  <2>1. /\ ibox' \in [IoBoxes -> BoxRows]
        /\ \A c \in IoBoxes : ibox'[c].assigned = ibox[c].assigned
    BY <1>1, <1>2 DEF heartbeat, BoxRows
  <2>2. IoDevTypes'
    BY <1>2, <2>1 DEF heartbeat, IoDevInv, IoDevTypes
  <2>3. QED BY <1>1, <1>2, <2>1, <2>2, CalmKept DEF heartbeat
<1>3. CASE Download(b)
  <2>1. fresh[b] \in {"no", "yes"}
    BY <1>3, NoPull DEF Download, Pulling
  <2>2. PICK r \in irels :
          /\ r.id = iwork[b].row
          /\ \/ /\ idev' = [idev EXCEPT ![b].told = iwork[b].sha, ![b].image =
                              [version |-> r.version, model |-> r.model, sha |-> r.sha]]
                /\ r.sha = iwork[b].sha
                /\ iwork' = [iwork EXCEPT ![b].at = "flashed", ![b].ok = TRUE]
             \/ /\ iwork' = [iwork EXCEPT ![b].at = "flashed"]
                /\ idev' = idev
    BY <1>3 DEF Download, Verified
  <2>3. r \in IoRelRows /\ r.model \in {None, IoModelOf[b]} /\ r.version > idev[b].image.version
    BY <1>1, <1>3, <2>2 DEF Download, DownloadTrue, DownloadKnows, IoDevInv, IoDevTypes
  <2>4. PICK w \in Work : w.at = "flashed" /\ iwork' = [iwork EXCEPT ![b] = w]
    <3>1. [iwork[b] EXCEPT !.at = "flashed"] \in Work
          /\ [iwork[b] EXCEPT !.at = "flashed"].at = "flashed"
      BY <1>1 DEF Work
    <3>2. [iwork[b] EXCEPT !.at = "flashed", !.ok = TRUE] \in Work
          /\ [iwork[b] EXCEPT !.at = "flashed", !.ok = TRUE].at = "flashed"
      BY <1>1 DEF Work
    <3>3. \/ iwork' = [iwork EXCEPT ![b] = [iwork[b] EXCEPT !.at = "flashed"]]
          \/ iwork' = [iwork EXCEPT ![b] = [iwork[b] EXCEPT !.at = "flashed", !.ok = TRUE]]
      BY <1>1, <2>2
    <3>4. QED BY <3>1, <3>2, <3>3
  <2>5. PICK v \in BoxDevices :
          /\ idev' = [idev EXCEPT ![b] = v] /\ v.config = idev[b].config
          /\ v.image.model \in {None, IoModelOf[b]} /\ v.image.sha = v.told
          /\ v.image.version >= idev[b].image.version
    <3>1. CASE idev' = idev
      BY <1>1, <3>1
    <3>2. CASE /\ idev' = [idev EXCEPT ![b].told = iwork[b].sha, ![b].image =
                             [version |-> r.version, model |-> r.model, sha |-> r.sha]]
               /\ r.sha = iwork[b].sha
      <4>1. PICK i : i = [version |-> r.version, model |-> r.model, sha |-> r.sha]
        OBVIOUS
      <4>2. /\ i \in Images /\ i.model \in {None, IoModelOf[b]} /\ i.sha = iwork[b].sha
            /\ i.version >= idev[b].image.version
        BY <1>1, <2>3, <3>2, <4>1 DEF Images, IoRelRows
      <4>3. PICK v : v = [idev[b] EXCEPT !.told = iwork[b].sha, !.image = i]
        OBVIOUS
      <4>4. /\ v \in BoxDevices /\ v.config = idev[b].config /\ v.image = i
            /\ v.told = iwork[b].sha
        BY <1>1, <4>2, <4>3 DEF BoxDevices, Work
      <4>5. idev' = [idev EXCEPT ![b] = v]
        BY <1>1, <3>2, <4>1, <4>3
      <4>6. QED BY <4>2, <4>4, <4>5
    <3>3. QED BY <2>2, <3>1, <3>2
  <2>6. PICK f \in {"no", "yes"} : f = fresh[b]
    BY <2>1
  <2>7. /\ fresh' = [fresh EXCEPT ![b] = f] /\ ibox' = ibox
        /\ UNCHANGED <<idisp, ikiosk, imaps, irels, iadm, iedits, iimports>>
    BY <1>1, <1>3, <2>6 DEF Download
  <2>8. DownloadKnows(b, w, v.image)
    BY <2>4 DEF DownloadKnows
  <2>9. f = "yes" => v.config = ConfigOf(b)
    BY <1>1, <2>5, <2>6
  <2>10. IoDevInv'
    BY <1>1, <2>4, <2>5, <2>7, <2>8, <2>9, OneDeviceKept
  <2>11. idev'[b] = v
    BY <1>1, <2>5
  <2>12. QED BY <2>5, <2>10, <2>11
<1>4. ASSUME NEW arrives \in BOOLEAN, Applied(b, arrives)
      PROVE  IoDevInv' /\ idev'[b].image.version >= idev[b].image.version
  <2>1. fresh[b] \in {"no", "yes"}
    BY <1>4, NoPull DEF Applied, Pulling
  <2>2. /\ ibox' \in [IoBoxes -> BoxRows]
        /\ \A c \in IoBoxes : ibox'[c].assigned = ibox[c].assigned
    BY <1>1, <1>4 DEF Applied, BoxRows
  <2>3. PICK f \in {"no", "yes"} : f = IF iwork[b].ok THEN "no" ELSE fresh[b]
    BY <2>1
  <2>4. PICK v : v = IF iwork[b].ok THEN [idev[b] EXCEPT !.config = Blank] ELSE idev[b]
    OBVIOUS
  <2>5. /\ v \in BoxDevices /\ v.image = idev[b].image /\ v.told = idev[b].told
        /\ f = "yes" => v.config = ConfigOf(b)
    BY <1>1, <2>3, <2>4 DEF BoxDevices
  <2>6. /\ idev' = [idev EXCEPT ![b] = v] /\ fresh' = [fresh EXCEPT ![b] = f]
        /\ iwork' = [iwork EXCEPT ![b] = Resting]
    BY <1>1, <1>4, <2>3, <2>4 DEF Applied, Rest
  <2>7. UNCHANGED <<idisp, ikiosk, imaps, irels, iadm, iedits, iimports>>
    BY <1>4 DEF Applied
  <2>8. DownloadKnows(b, Resting, v.image)
    BY <1>1 DEF DownloadKnows
  <2>9. IoDevInv'
    BY <1>1, <2>2, <2>5, <2>6, <2>7, <2>8, OneDeviceKept
  <2>10. idev'[b] = v
    BY <1>1, <2>6
  <2>11. QED BY <1>1, <2>5, <2>9, <2>10
<1>5. QED BY <1>2, <1>3, <1>4

\* A device's step: it keeps the invariant, and runs no older image after it.
LEMMA DeviceKept ==
  ASSUME IoDevInv, NEW b \in IoBoxes, DeviceStep(b)
  PROVE  IoDevInv' /\ \A c \in IoBoxes : idev'[c].image.version >= idev[c].image.version
<1>1. /\ idev \in [IoBoxes -> BoxDevices]
      /\ \A c \in IoBoxes : idev[c].image.version \in Nat
      /\ \A c \in IoBoxes : idev[c].image.version >= idev[c].image.version
  BY DEF IoDevInv, IoDevTypes, BoxDevices, Images
<1>2. IoDevInv'
  BY CalmKept, ConfigReadKept, AnswerKept, CheckKept, FlashKept DEF DeviceStep
<1>3. ASSUME NEW c \in IoBoxes, c # b
      PROVE  idev'[c] = idev[c]
  BY <1>1, <1>3 DEF DeviceStep, heartbeat, ConfigBox, ConfigDisplay, ConfigMappings, ConfigKiosk,
     PullAnswer, RequestLost, CheckBox, CheckPinned, CheckLatest, Download, Applied, PowerCut
<1>4. idev'[b].image.version >= idev[b].image.version
  <2>1. CASE heartbeat(b) \/ Download(b) \/ \E arrives \in BOOLEAN : Applied(b, arrives)
    BY <2>1, FlashKept
  <2>2. CASE PullAnswer(b) \/ PowerCut(b)
    <3>1. idev'[b].image = idev[b].image
      BY <1>1, <2>2 DEF PullAnswer, PowerCut, BoxDevices
    <3>2. QED BY <1>1, <3>1
  <2>3. CASE \/ ConfigBox(b) \/ ConfigDisplay(b) \/ ConfigMappings(b) \/ ConfigKiosk(b)
             \/ RequestLost(b) \/ CheckBox(b) \/ CheckPinned(b) \/ CheckLatest(b)
    <3>1. idev' = idev
      BY <2>3 DEF ConfigBox, ConfigDisplay, ConfigMappings, ConfigKiosk, RequestLost, CheckBox,
         CheckPinned, CheckLatest
    <3>2. QED BY <1>1, <3>1
  <2>4. QED BY <2>1, <2>2, <2>3 DEF DeviceStep
<1>5. QED BY <1>1, <1>2, <1>3, <1>4

\* Every step of anyone.
LEMMA IoDevNextKept ==
  ASSUME IoDevInv, [IoDevNext]_ioDevVars
  PROVE  IoDevInv' /\ \A b \in IoBoxes : idev'[b].image.version >= idev[b].image.version
<1>1. \A b \in IoBoxes : idev[b].image.version >= idev[b].image.version
  BY DEF IoDevInv, IoDevTypes, BoxDevices, Images
<1>2. ASSUME NEW b \in IoBoxes, DeviceStep(b)
      PROVE  IoDevInv' /\ \A c \in IoBoxes : idev'[c].image.version >= idev[c].image.version
  BY <1>2, DeviceKept
<1>3. CASE \/ \E m \in IoModels : createIoBoxModel(m)
           \/ \E b \in IoBoxes, op \in {"assign", "map"} : AdminReads(b, op)
           \/ BumpConfig
           \/ \E b \in IoBoxes, c \in IoChannels, v \in IoVersions \cup {NoVersion} :
                setIoBoxFirmware(b, c, v)
  <2>1. idev' = idev
    BY <1>3 DEF createIoBoxModel, AdminReads, BumpConfig, setIoBoxFirmware
  <2>2. QED BY <1>1, <1>3, <2>1, PagesKept
<1>4. CASE \/ \E d \in IoDisplays \cup {None} : AdminAssigns(d)
           \/ \E b \in IoBoxes, x \in imaps : deleteIoBoxMapping(b, x)
           \/ \E d \in IoDisplays, k \in IoKiosks \cup {None} : MoveDisplay(d, k)
           \/ \E d \in IoDisplays : DeleteDisplay(d)
           \/ \E k \in IoKiosks : KioskAddress(k)
  <2>1. idev' = idev
    BY <1>4 DEF AdminAssigns, deleteIoBoxMapping, MoveDisplay, DeleteDisplay, KioskAddress
  <2>2. QED BY <1>1, <1>4, <2>1, EditsKept
<1>5. CASE AdminMaps
  <2>1. idev' = idev
    BY <1>5 DEF AdminMaps, createIoBoxMapping
  <2>2. QED BY <1>1, <1>5, <2>1, MappingKept
<1>6. ASSUME NEW v \in IoVersions, NEW c \in IoChannels, NEW m \in IoModels \cup {None},
             importIoBoxFirmware(v, c, m)
      PROVE  IoDevInv' /\ \A b \in IoBoxes : idev'[b].image.version >= idev[b].image.version
  <2>1. idev' = idev
    BY <1>6 DEF importIoBoxFirmware
  <2>2. QED BY <1>1, <1>6, <2>1, IoImportKept
<1>7. CASE UNCHANGED ioDevVars
  <2>1. IoDevTypes'
    BY <1>7 DEF ioDevVars, IoDevInv, IoDevTypes
  <2>2. QED BY <1>1, <1>7, <2>1, CalmKept DEF ioDevVars
<1>8. QED BY <1>2, <1>3, <1>4, <1>5, <1>6, <1>7 DEF IoDevNext

\* Boxes are assigned to displays that exist, and nothing was pulled or imported.
LEMMA IoDevStarts == IoDevInit => IoDevInv
<1> SUFFICES ASSUME IoDevInit PROVE IoDevInv
  OBVIOUS
<1>1. Resting \in Work /\ Resting.at = "idle" /\ Blank \in Configs
  BY RestTyped
<1>2. PICK at \in [IoBoxes -> IoDisplays \cup {None}] :
        ibox = [b \in IoBoxes |-> [assigned |-> at[b], config |-> 0, version |-> NoVersion,
                                  channel |-> "stable", target |-> NoVersion, error |-> FALSE]]
  BY DEF IoDevInit
<1>3. ibox \in [IoBoxes -> BoxRows] /\ \A b \in IoBoxes : ibox[b].assigned \in MaybeDisplay
  BY <1>2 DEF BoxRows, MaybeDisplay, NoVersion
<1>4. Factory \in Images /\ Factory.model = None /\ Factory.sha = 0
  BY DEF Factory, Images, NoVersion, MaybeModel
<1>5. PICK v : v = [config |-> Blank, image |-> Factory, told |-> 0]
  OBVIOUS
<1>6. v \in BoxDevices /\ v.image = Factory /\ v.told = 0
  BY <1>1, <1>4, <1>5 DEF BoxDevices
<1>7. idev = [b \in IoBoxes |-> v]
  BY <1>5 DEF IoDevInit
<1>8. IoDevTypes
  BY <1>1, <1>3, <1>6, <1>7 DEF IoDevInit, IoDevTypes, NoAdmin
<1>9. AssignedExist
  BY <1>3, IoDevBounds DEF IoDevInit, AssignedExist, Exists, MaybeDisplay
<1>10. ReleasesTrue
  BY DEF IoDevInit, ReleasesTrue
<1>11. ASSUME NEW b \in IoBoxes PROVE PullTrue(b) /\ DownloadTrue(b) /\ DeviceTrue(b)
  BY <1>1, <1>4, <1>6, <1>7 DEF IoDevInit, PullTrue, DownloadTrue, DownloadKnows, DeviceTrue
<1>12. QED BY <1>8, <1>9, <1>10, <1>11 DEF IoDevInv

(* Whatever administrators write, import and pin between any two reads of a   *)
(* device's request, whatever is lost and whenever power is cut: a pull that  *)
(* overlapped no write leaves the device with what the rows say, the image it *)
(* runs was built for its model and is the one its check announced, and no    *)
(* step takes it back to an older version (GET /api/iobox/config and the      *)
(* firmware's check, download and applied; pullConfig, otaCheck).             *)
THEOREM BoxesStaySafe == IoDevSpec => IoDevSteps
<1>1. IoDevInit => IoDevInv
  BY IoDevStarts
<1>2. IoDevInv /\ [IoDevNext]_ioDevVars => IoDevInv'
  BY IoDevNextKept
<1>3. IoDevInv' => IoDevSafe'
  BY DEF IoDevInv, DeviceTrue, IoDevSafe, CalmPullIsCurrent, ImageFits, InstalledAsAnnounced
<1>4. IoDevInv /\ [IoDevNext]_ioDevVars
        => [\A b \in IoBoxes : idev'[b].image.version >= idev[b].image.version]_ioDevVars
  BY IoDevNextKept
<1>5. QED BY <1>1, <1>2, <1>3, <1>4, PTL DEF IoDevSpec, IoDevSteps, FirmwareNeverOlder

-----------------------------------------------------------------------------
(* CameraDevices: the rows made of an ONVIF device *)

(* The name of the source or channel that profile token t stands for.      *)
TokenOf(t, x) == \E d \in DvDevices : \E i \in DOMAIN d : d[i].token = t /\ profileGroupKey(d[i])[2] = x

(* A channel id stands for the source or channel x.                        *)
StandsFor(chan, x) == chan = <<"id", {x}>> \/ (x = "default" /\ chan[1] = "tokens")

IsOf(c, x) == StandsFor(c.chan, x) /\ \A s \in c.streams : TokenOf(s.token, x)

(* Everything that is row i, or is about to become it, is of channel x.     *)
Handles(st, i) == st.pc \in {"update", "clear", "stream"} /\ st.cam = i
RowIsOf(i, x) ==
  /\ i \in DOMAIN dvRows => dvRows[i].chan = NoChannel \/ StandsFor(dvRows[i].chan, x)
  /\ \A s \in dvStreams : s.cam = i => TokenOf(s.token, x)
  /\ \A h \in DvHandlers : Handles(dvH[h], i) => IsOf(dvH[h].cur, x)

(* What the device ever offers. *)
Offered == UNION {discover(d, {}) : d \in DvDevices}
OfferedStreams == UNION {c.streams : c \in Offered}
Channels == {c.chan : c \in Offered} \cup {NoChannel}

DvReqs == [pc : {"idle", "find", "update", "create", "clear", "stream"}, kind : {"none", "sync", "add"},
           run : Nat, cred : Nat, todo : SUBSET Offered, cur : Offered \cup {NoCamera}, cam : Nat,
           left : SUBSET OfferedStreams, seen : SUBSET Nat, whole : BOOLEAN, alone : BOOLEAN]
DvRowTypes == [chan : Channels, cred : Nat, enabled : BOOLEAN]

ReqTrue(st, n) ==
  /\ st.pc \in {"update", "clear", "stream"} => st.cam \in 1..(n - 1)
  /\ st.pc \in {"update", "create", "clear", "stream"} => st.cur \in Offered
  /\ st.left \subseteq IF st.pc = "stream" THEN st.cur.streams ELSE {}

DevicesTypes ==
  /\ dvReal \in DvDevices /\ dvPast \subseteq DvDevices
  /\ dvCred \in Nat /\ dvNext \in Nat \ {0} /\ dvRuns \in Nat
  /\ dvH \in [DvHandlers -> DvReqs] /\ \A h \in DvHandlers : ReqTrue(dvH[h], dvNext)
  /\ DOMAIN dvRows \subseteq 1..(dvNext - 1) /\ dvRows \in [DOMAIN dvRows -> DvRowTypes]
  /\ \A s \in dvStreams : s.cam \in DOMAIN dvRows

ChannelInv == DevicesTypes /\ \A i \in Nat : \E x : RowIsOf(i, x)

ChannelsKept ==
  \A i \in DOMAIN dvRows :
    i \in DOMAIN dvRows' /\ dvRows[i].chan[1] = "id" /\ dvRows[i].chan # <<"id", {"default"}>>
      => dvRows'[i].chan = dvRows[i].chan

-----------------------------------------------------------------------------
(* What discovery finds *)

LEMMA TokensName ==
  ASSUME NEW t, NEW x, NEW y, TokenOf(t, x), TokenOf(t, y)
  PROVE  x = y
<1>1. PICK d \in DvDevices : \E i \in DOMAIN d : d[i].token = t /\ profileGroupKey(d[i])[2] = x
  BY DEF TokenOf
<1>2. PICK i \in DOMAIN d : d[i].token = t /\ profileGroupKey(d[i])[2] = x
  BY <1>1
<1>3. PICK e \in DvDevices : \E j \in DOMAIN e : e[j].token = t /\ profileGroupKey(e[j])[2] = y
  BY DEF TokenOf
<1>4. PICK j \in DOMAIN e : e[j].token = t /\ profileGroupKey(e[j])[2] = y
  BY <1>3
<1>5. profileGroupKey(d[i]) = profileGroupKey(e[j])
  BY <1>2, <1>4, ProfilesAssumption DEF ProfilesAssumption
<1> QED BY <1>2, <1>4, <1>5

LEMMA ChannelsName ==
  ASSUME NEW chan, NEW x, NEW y, StandsFor(chan, x), StandsFor(chan, y)
  PROVE  x = y /\ chan # NoChannel
BY DEF StandsFor, NoChannel

(* The group of profile i.                                                 *)
Beside(d, asked, i) == {j \in asked : profileGroupKey(d[j]) = profileGroupKey(d[i])}

LEMMA GroupNamed ==
  ASSUME NEW d \in DvDevices, NEW asked \in SUBSET DOMAIN d, NEW i \in asked
  PROVE  StandsFor(channelId(d, Beside(d, asked, i)), profileGroupKey(d[i])[2])
<1> DEFINE g == Beside(d, asked, i)
           x == profileGroupKey(d[i])[2]
           sources == {d[j].source : j \in g} \ {""}
           ids == IF sources # {} THEN sources ELSE {d[j].channel : j \in g} \ {""}
           tokens == {d[j].token : j \in g}
<1>2. i \in g /\ \A j \in g : j \in DOMAIN d /\ profileGroupKey(d[j]) = profileGroupKey(d[i])
  BY DEF Beside
<1>3. channelId(d, g) = IF ids # {} THEN <<"id", ids>> ELSE <<"tokens", tokens>>
  BY DEF channelId
<1>4. ids = {x} \/ (x = "default" /\ ids = {})
  <2> HIDE DEF g
  <2>1. CASE d[i].source # ""
    <3>1. profileGroupKey(d[i]) = <<"source", d[i].source>> /\ x = d[i].source
      BY <2>1 DEF profileGroupKey
    <3>2. \A j \in g : d[j].source \in {"", x}
      BY <1>2, <3>1 DEF profileGroupKey
    <3>3. sources = {x}
      BY <1>2, <2>1, <3>1, <3>2
    <3> QED BY <3>3, <2>1, <3>1
  <2>2. CASE d[i].source = "" /\ d[i].channel # ""
    <3>1. profileGroupKey(d[i]) = <<"channel", d[i].channel>> /\ x = d[i].channel
      BY <2>2 DEF profileGroupKey
    <3>2. \A j \in g : d[j].source = "" /\ d[j].channel = x
      BY <1>2, <3>1 DEF profileGroupKey
    <3> QED BY <1>2, <2>2, <3>1, <3>2
  <2>3. CASE d[i].source = "" /\ d[i].channel = ""
    <3>1. profileGroupKey(d[i]) = <<"source", "default">> /\ x = "default"
      BY <2>3 DEF profileGroupKey
    <3>2. \A j \in g : d[j].source = "default" \/ (d[j].source = "" /\ d[j].channel = "")
      BY <1>2, <3>1 DEF profileGroupKey
    <3> QED BY <1>2, <3>1, <3>2
  <2> QED BY <2>1, <2>2, <2>3
<1> HIDE DEF x, ids, tokens, g
<1>5. StandsFor(channelId(d, g), x)
  BY <1>3, <1>4 DEF StandsFor
<1> QED BY <1>5 DEF g, x

LEMMA OfferedNamed ==
  ASSUME NEW d \in DvDevices, NEW c \in discover(d, {})
  PROVE  (\E x : IsOf(c, x)) /\ c # NoCamera
<1> DEFINE asked == {i \in DOMAIN d : d[i].token \notin {}}
<1>1. d \in Seq(Profile) /\ \A j \in DOMAIN d : j \in Nat \ {0}
  BY DevicesAssumption DEF DevicesAssumption
<1>2. PICK i \in asked : c = [first |-> i, chan |-> channelId(d, Beside(d, asked, i)),
                              streams |-> roleProfiles(d, Beside(d, asked, i))]
  BY DEF discover, groupProfiles, Beside
<1> DEFINE g == Beside(d, asked, i)
           x == profileGroupKey(d[i])[2]
<1>3. /\ i \in DOMAIN d /\ asked \in SUBSET DOMAIN d
      /\ \A j \in g : j \in DOMAIN d /\ profileGroupKey(d[j]) = profileGroupKey(d[i])
  BY DEF Beside
<1>5. StandsFor(c.chan, x)
  BY <1>2, <1>3, GroupNamed
<1>6. \A s \in c.streams : \E j \in g : s.token = d[j].token
  <2> HIDE DEF g
  <2>1. c.streams = roleProfiles(d, g)
    BY <1>2 DEF g
  <2> QED BY <2>1 DEF roleProfiles
<1> HIDE DEF g
<1>7. \A s \in c.streams : TokenOf(s.token, x)
  <2> SUFFICES ASSUME NEW s \in c.streams PROVE TokenOf(s.token, x)
    OBVIOUS
  <2>1. PICK j \in g : s.token = d[j].token
    BY <1>6
  <2> QED BY <1>3, <2>1 DEF TokenOf
<1>8. c # NoCamera
  BY <1>1, <1>2, <1>3 DEF NoCamera
<1> QED BY <1>5, <1>7, <1>8 DEF IsOf

LEMMA DiscoverOffered ==
  ASSUME NEW d \in DvDevices
  PROVE  /\ discover(d, {}) \subseteq Offered
         /\ discover(d, Tokens(d)) = {}
<1>1. {i \in DOMAIN d : d[i].token \notin Tokens(d)} = {}
  BY DEF Tokens
<1>2. groupProfiles(d, {}) = {}
  BY DEF groupProfiles
<1> QED BY <1>1, <1>2 DEF discover, Offered

-----------------------------------------------------------------------------
(* What a step leaves alone *)

(* The fields of two requests but alone.                                   *)
Alike(a, b) ==
  /\ a.pc = b.pc /\ a.kind = b.kind /\ a.run = b.run /\ a.cred = b.cred /\ a.todo = b.todo
  /\ a.cur = b.cur /\ a.cam = b.cam /\ a.left = b.left /\ a.seen = b.seen /\ a.whole = b.whole

LEMMA AlikeTrue ==
  ASSUME NEW a \in DvReqs
  PROVE  /\ [a EXCEPT !.alone = FALSE] \in DvReqs /\ Alike([a EXCEPT !.alone = FALSE], a)
         /\ [a EXCEPT !.alone = FALSE].alone = FALSE
BY DEF DvReqs, Alike

LEMMA Disturbed ==
  ASSUME DevicesTypes, NEW h \in DvHandlers, NEW st \in DvReqs, DisturbSyncs(h, st)
  PROVE  /\ dvH' \in [DvHandlers -> DvReqs] /\ dvH'[h] = st
         /\ \A g \in DvHandlers \ {h} : Alike(dvH'[g], dvH[g]) /\ dvH'[g].alone = FALSE
<1>1. \A g \in DvHandlers : dvH[g] \in DvReqs
  BY DEF DevicesTypes
<1>2. dvH' = [g \in DvHandlers |-> IF g = h THEN st ELSE [dvH[g] EXCEPT !.alone = FALSE]]
  BY DEF DisturbSyncs
<1>3. \A g \in DvHandlers \ {h} : dvH'[g] = [dvH[g] EXCEPT !.alone = FALSE]
  BY <1>2
<1>4. ASSUME NEW g \in DvHandlers \ {h}
      PROVE  dvH'[g] \in DvReqs /\ Alike(dvH'[g], dvH[g]) /\ dvH'[g].alone = FALSE
  <2>1. dvH[g] \in DvReqs /\ dvH'[g] = [dvH[g] EXCEPT !.alone = FALSE]
    BY <1>1, <1>3
  <2> QED BY <2>1, AlikeTrue
<1> QED BY <1>2, <1>4

LEMMA AllDisturbed ==
  ASSUME DevicesTypes, DisturbAll
  PROVE  /\ dvH' \in [DvHandlers -> DvReqs]
         /\ \A g \in DvHandlers : Alike(dvH'[g], dvH[g]) /\ dvH'[g].alone = FALSE
<1>1. \A g \in DvHandlers : dvH[g] \in DvReqs
  BY DEF DevicesTypes
<1>2. dvH' = [g \in DvHandlers |-> [dvH[g] EXCEPT !.alone = FALSE]]
  BY DEF DisturbAll
<1>4. \A g \in DvHandlers : dvH'[g] \in DvReqs /\ Alike(dvH'[g], dvH[g]) /\ dvH'[g].alone = FALSE
  BY <1>1, <1>2, AlikeTrue
<1> QED BY <1>2, <1>4

LEMMA AlikeKept ==
  ASSUME NEW a, NEW b, Alike(a, b)
  PROVE  /\ \A n \in Nat, m \in Nat : ReqTrue(b, n) /\ n <= m => ReqTrue(a, m)
         /\ \A i : Handles(a, i) => Handles(b, i) /\ a.cur = b.cur
BY DEF Alike, ReqTrue, Handles

(* The requests after a step of request h, and what is known of each row.  *)
LEMMA ReqsKept ==
  ASSUME DevicesTypes, NEW h \in DvHandlers, NEW st \in DvReqs, DisturbSyncs(h, st),
         ReqTrue(st, dvNext'), dvNext' \in Nat, dvNext <= dvNext'
  PROVE  /\ dvH' \in [DvHandlers -> DvReqs]
         /\ \A g \in DvHandlers : ReqTrue(dvH'[g], dvNext')
<1>1. \A g \in DvHandlers : ReqTrue(dvH[g], dvNext)
  BY DEF DevicesTypes
<1>2. dvNext \in Nat
  BY DEF DevicesTypes
<1>3. /\ dvH' \in [DvHandlers -> DvReqs] /\ dvH'[h] = st
      /\ \A g \in DvHandlers \ {h} : Alike(dvH'[g], dvH[g])
  BY Disturbed
<1>4. ASSUME NEW g \in DvHandlers \ {h} PROVE ReqTrue(dvH'[g], dvNext')
  BY <1>1, <1>2, <1>3, AlikeKept
<1> QED BY <1>3, <1>4

LEMMA RowStaysOf ==
  ASSUME DevicesTypes, NEW i, NEW x, RowIsOf(i, x),
         \A g \in DvHandlers : \/ Alike(dvH'[g], dvH[g])
                               \/ Handles(dvH'[g], i) => IsOf(dvH'[g].cur, x),
         i \in DOMAIN dvRows' => \/ i \in DOMAIN dvRows /\ dvRows'[i].chan = dvRows[i].chan
                                 \/ StandsFor(dvRows'[i].chan, x),
         \A s \in dvStreams' : s.cam = i => s \in dvStreams \/ TokenOf(s.token, x)
  PROVE  RowIsOf(i, x)'
<1>1. \A g \in DvHandlers : Handles(dvH'[g], i) => IsOf(dvH'[g].cur, x)
  BY AlikeKept DEF RowIsOf
<1>2. i \in DOMAIN dvRows' => dvRows'[i].chan = NoChannel \/ StandsFor(dvRows'[i].chan, x)
  BY DEF RowIsOf
<1>3. \A s \in dvStreams' : s.cam = i => TokenOf(s.token, x)
  BY DEF RowIsOf
<1> QED BY <1>1, <1>2, <1>3 DEF RowIsOf

LEMMA SameChannel ==
  ASSUME NEW i, NEW x, RowIsOf(i, x), NEW c \in Offered, i \in MatchRow(c)
  PROVE  IsOf(c, x)
<1>1. PICK y : IsOf(c, y)
  BY OfferedNamed DEF Offered
<1>2. CASE ByChannel(c.chan) # {}
  <2>1. i \in DOMAIN dvRows /\ dvRows[i].chan = c.chan
    BY <1>2 DEF MatchRow, ByChannel
  <2>2. StandsFor(c.chan, y) /\ c.chan # NoChannel
    BY <1>1, ChannelsName DEF IsOf
  <2>3. StandsFor(c.chan, x)
    BY <2>1, <2>2 DEF RowIsOf
  <2> QED BY <1>1, <2>2, <2>3, ChannelsName
<1>3. CASE ByChannel(c.chan) = {}
  <2>1. PICK s \in dvStreams : s.cam = i /\ s.token \in {t.token : t \in c.streams}
    BY <1>3 DEF MatchRow, ByToken
  <2>2. PICK t \in c.streams : t.token = s.token
    BY <2>1
  <2> QED BY <1>1, <2>1, <2>2, TokensName DEF IsOf, RowIsOf
<1> QED BY <1>2, <1>3

LEMMA RowsInPlace ==
  ASSUME ChannelInv, NEW h \in DvHandlers, NEW st \in DvReqs, DisturbSyncs(h, st), ReqTrue(st, dvNext),
         dvNext' = dvNext, dvReal' = dvReal, dvPast' = dvPast, dvCred' \in Nat, dvRuns' \in Nat,
         dvRows' \in [DOMAIN dvRows -> DvRowTypes], \A i \in DOMAIN dvRows : dvRows'[i].chan = dvRows[i].chan,
         dvStreams' \subseteq dvStreams,
         \A i, x : RowIsOf(i, x) /\ Handles(st, i) => IsOf(st.cur, x)
  PROVE  ChannelInv' /\ ChannelsKept
<1>1. DevicesTypes /\ dvNext \in Nat
  BY DEF ChannelInv, DevicesTypes
<1>2. dvH' \in [DvHandlers -> DvReqs] /\ \A g \in DvHandlers : ReqTrue(dvH'[g], dvNext')
  BY <1>1, ReqsKept
<1>3. dvH'[h] = st /\ \A g \in DvHandlers \ {h} : Alike(dvH'[g], dvH[g])
  BY <1>1, Disturbed
<1>4. DOMAIN dvRows' = DOMAIN dvRows
  OBVIOUS
<1>5. DevicesTypes'
  BY <1>1, <1>2, <1>4 DEF DevicesTypes
<1>6. ASSUME NEW i, NEW x, RowIsOf(i, x) PROVE RowIsOf(i, x)'
  BY <1>1, <1>3, <1>4, <1>6, RowStaysOf
<1> QED BY <1>4, <1>5, <1>6 DEF ChannelInv, ChannelsKept

LEMMA SyncsBegin ==
  ASSUME ChannelInv, NEW h \in DvHandlers,
         \/ \E skipped \in {{}, Tokens(dvReal)} : SyncBegin(h, skipped)
         \/ \E d \in dvPast : DiscoverAdd(h, d, 2)
         \/ ImportStops(h)
  PROVE  ChannelInv' /\ ChannelsKept
<1>1. /\ dvReal \in DvDevices /\ dvPast \subseteq DvDevices /\ dvCred \in Nat /\ dvRuns \in Nat
      /\ dvNext \in Nat /\ dvRows \in [DOMAIN dvRows -> DvRowTypes]
  BY DEF ChannelInv, DevicesTypes
<1>2. DvIdle \in DvReqs /\ DvIdle.pc = "idle" /\ DvIdle.left = {}
  BY DEF DvIdle, DvReqs
<1>3. CASE \E skipped \in {{}, Tokens(dvReal)} : SyncBegin(h, skipped)
  <2>1. PICK skipped \in {{}, Tokens(dvReal)} : SyncBegin(h, skipped)
    BY <1>3
  <2>2. PICK alone \in BOOLEAN : alone = (\A g \in DvHandlers \ {h} : dvH[g].pc = "idle")
    OBVIOUS
  <2>3. PICK whole \in BOOLEAN : whole = (skipped = {})
    OBVIOUS
  <2> DEFINE found == discover(dvReal, skipped)
             st == [DvIdle EXCEPT !.pc = "find", !.kind = "sync", !.run = dvRuns', !.cred = dvCred,
                                  !.todo = found, !.whole = whole, !.alone = alone]
  <2>4. found \subseteq Offered /\ dvRuns' = dvRuns + 1
    BY <1>1, <2>1, DiscoverOffered DEF SyncBegin
  <2>5. DisturbSyncs(h, st)
    BY <2>1, <2>2, <2>3 DEF SyncBegin
  <2> HIDE DEF found
  <2>6. st \in DvReqs /\ st.pc = "find" /\ st.left = {}
    <3>1. dvRuns' \in Nat /\ 2 \in Nat
      BY <1>1, <2>4
    <3> QED BY <1>1, <1>2, <2>4, <3>1 DEF DvReqs
  <2> HIDE DEF st
  <2>7. ReqTrue(st, dvNext) /\ \A i : ~Handles(st, i)
    BY <2>6 DEF ReqTrue, Handles
  <2>8. /\ dvNext' = dvNext /\ dvReal' = dvReal /\ dvPast' = dvPast /\ dvCred' = dvCred /\ dvRows' = dvRows
        /\ dvStreams' = dvStreams
    BY <2>1 DEF SyncBegin
  <2> QED BY <1>1, <2>4, <2>5, <2>6, <2>7, <2>8, RowsInPlace
<1>4. CASE \E d \in dvPast : DiscoverAdd(h, d, 2)
  <2>1. PICK d \in dvPast : DiscoverAdd(h, d, 2)
    BY <1>4
  <2> DEFINE found == discover(d, {})
             st == [DvIdle EXCEPT !.pc = "find", !.kind = "add", !.run = dvRuns', !.cred = 2, !.todo = found]
  <2>4. found \subseteq Offered /\ dvRuns' = dvRuns + 1
    BY <1>1, <2>1, DiscoverOffered DEF DiscoverAdd
  <2>5. DisturbSyncs(h, st)
    BY <2>1 DEF DiscoverAdd
  <2> HIDE DEF found
  <2>6. st \in DvReqs /\ st.pc = "find" /\ st.left = {}
    <3>1. dvRuns' \in Nat /\ 2 \in Nat
      BY <1>1, <2>4
    <3> QED BY <1>1, <1>2, <2>4, <3>1 DEF DvReqs
  <2> HIDE DEF st
  <2>7. ReqTrue(st, dvNext) /\ \A i : ~Handles(st, i)
    BY <2>6 DEF ReqTrue, Handles
  <2>8. /\ dvNext' = dvNext /\ dvReal' = dvReal /\ dvPast' = dvPast /\ dvCred' = 2 /\ dvStreams' = dvStreams
        /\ dvRows' = [i \in DOMAIN dvRows |-> [dvRows[i] EXCEPT !.cred = 2]]
    BY <2>1 DEF DiscoverAdd, updateCameraDevice
  <2>9. /\ dvRows' \in [DOMAIN dvRows -> DvRowTypes]
        /\ \A i \in DOMAIN dvRows : dvRows'[i].chan = dvRows[i].chan
    BY <1>1, <2>8 DEF DvRowTypes
  <2> QED BY <1>1, <2>4, <2>5, <2>6, <2>7, <2>8, <2>9, RowsInPlace
<1>5. CASE ImportStops(h)
  <2>1. DisturbSyncs(h, DvIdle) /\ ReqTrue(DvIdle, dvNext) /\ \A i : ~Handles(DvIdle, i)
    BY <1>2, <1>5 DEF ImportStops, ReqTrue, Handles
  <2>2. /\ dvNext' = dvNext /\ dvReal' = dvReal /\ dvPast' = dvPast /\ dvCred' = dvCred /\ dvRows' = dvRows
        /\ dvStreams' = dvStreams /\ dvRuns' = dvRuns
    BY <1>5 DEF ImportStops
  <2> QED BY <1>1, <1>2, <2>1, <2>2, RowsInPlace
<1> QED BY <1>3, <1>4, <1>5

LEMMA RowFound ==
  ASSUME ChannelInv, NEW h \in DvHandlers, FindRow(h) \/ deleteCameraStreams(h) \/ Imported(h) \/ SyncEnd(h)
  PROVE  ChannelInv' /\ ChannelsKept
<1> DEFINE rq == dvH[h]
<1>1. /\ dvCred \in Nat /\ dvRuns \in Nat /\ dvNext \in Nat /\ dvRows \in [DOMAIN dvRows -> DvRowTypes]
      /\ rq \in DvReqs /\ ReqTrue(rq, dvNext) /\ DOMAIN dvRows \subseteq 1..(dvNext - 1)
      /\ \A s \in dvStreams : s.cam \in DOMAIN dvRows
  BY DEF ChannelInv, DevicesTypes
<1>2. ASSUME FindRow(h) PROVE ChannelInv' /\ ChannelsKept
  <2>1. PICK camera \in rq.todo :
          LET found == [rq EXCEPT !.todo = @ \ {camera}, !.cur = camera] IN
          \/ \E i \in MatchRow(camera) : DisturbSyncs(h, [found EXCEPT !.pc = "update", !.cam = i])
          \/ MatchRow(camera) = {} /\ DisturbSyncs(h, [found EXCEPT !.pc = "create"])
    BY <1>2 DEF FindRow
  <2>2. camera \in Offered
    BY <1>1 DEF DvReqs
  <2>3. /\ dvNext' = dvNext /\ dvReal' = dvReal /\ dvPast' = dvPast /\ dvCred' = dvCred /\ dvRows' = dvRows
        /\ dvStreams' = dvStreams /\ dvRuns' = dvRuns
    BY <1>2 DEF FindRow
  <2>4. rq.pc = "find"
    BY <1>2 DEF FindRow
  <2>5. CASE \E i \in MatchRow(camera) :
              DisturbSyncs(h, [[rq EXCEPT !.todo = @ \ {camera}, !.cur = camera] EXCEPT !.pc = "update", !.cam = i])
    <3>1. PICK i \in MatchRow(camera) :
            DisturbSyncs(h, [[rq EXCEPT !.todo = @ \ {camera}, !.cur = camera] EXCEPT !.pc = "update", !.cam = i])
      BY <2>5
    <3>2. i \in DOMAIN dvRows
      BY DEF MatchRow, ByChannel, ByToken
    <3> DEFINE st == [[rq EXCEPT !.todo = @ \ {camera}, !.cur = camera] EXCEPT !.pc = "update", !.cam = i]
    <3>3. st \in DvReqs /\ st.pc = "update" /\ st.cam = i /\ st.cur = camera /\ st.left = rq.left
      <4> DEFINE found == [rq EXCEPT !.todo = @ \ {camera}, !.cur = camera]
      <4>1. found \in DvReqs /\ found.cur = camera /\ found.left = rq.left
        BY <1>1, <2>2 DEF DvReqs
      <4>2. i \in Nat
        BY <1>1, <3>2
      <4>3. st = [found EXCEPT !.pc = "update", !.cam = i]
        OBVIOUS
      <4> HIDE DEF found, st
      <4> QED BY <4>1, <4>2, <4>3 DEF DvReqs
    <3> HIDE DEF st
    <3>4. ReqTrue(st, dvNext)
      BY <1>1, <2>2, <2>4, <3>2, <3>3 DEF ReqTrue
    <3>5. ASSUME NEW j, NEW x, RowIsOf(j, x), Handles(st, j) PROVE IsOf(st.cur, x)
      BY <2>2, <3>1, <3>3, <3>5, SameChannel DEF Handles
    <3> QED BY <1>1, <2>3, <3>1, <3>3, <3>4, <3>5, RowsInPlace DEF st
  <2>6. CASE DisturbSyncs(h, [[rq EXCEPT !.todo = @ \ {camera}, !.cur = camera] EXCEPT !.pc = "create"])
    <3> DEFINE st == [[rq EXCEPT !.todo = @ \ {camera}, !.cur = camera] EXCEPT !.pc = "create"]
    <3>3. st \in DvReqs /\ st.pc = "create" /\ st.cur = camera /\ st.left = rq.left
      BY <1>1, <2>2 DEF DvReqs
    <3>1. DisturbSyncs(h, st)
      BY <2>6
    <3> HIDE DEF st
    <3>4. ReqTrue(st, dvNext) /\ \A j : ~Handles(st, j)
      BY <1>1, <2>2, <2>4, <3>3 DEF ReqTrue, Handles
    <3> QED BY <1>1, <2>3, <3>1, <3>3, <3>4, RowsInPlace
  <2> QED BY <2>1, <2>5, <2>6
<1>3. ASSUME deleteCameraStreams(h) PROVE ChannelInv' /\ ChannelsKept
  <2> DEFINE st == [rq EXCEPT !.pc = "stream", !.left = rq.cur.streams]
  <2>1. /\ dvNext' = dvNext /\ dvReal' = dvReal /\ dvPast' = dvPast /\ dvCred' = dvCred /\ dvRows' = dvRows
        /\ dvStreams' \subseteq dvStreams /\ dvRuns' = dvRuns /\ rq.pc = "clear" /\ DisturbSyncs(h, st)
    BY <1>3 DEF deleteCameraStreams
  <2>2. rq.cur \in Offered /\ rq.cur.streams \subseteq OfferedStreams
    BY <1>1, <2>1 DEF ReqTrue, OfferedStreams
  <2>3. /\ st \in DvReqs /\ st.pc = "stream" /\ st.cam = rq.cam /\ st.cur = rq.cur
        /\ st.left = rq.cur.streams
    BY <1>1, <2>2 DEF DvReqs
  <2> HIDE DEF st
  <2>4. ReqTrue(st, dvNext)
    BY <1>1, <2>1, <2>2, <2>3 DEF ReqTrue
  <2>5. ASSUME NEW i, NEW x, RowIsOf(i, x), Handles(st, i) PROVE IsOf(st.cur, x)
    BY <2>1, <2>3, <2>5 DEF RowIsOf, Handles
  <2> QED BY <1>1, <2>1, <2>3, <2>4, <2>5, RowsInPlace
<1>4. ASSUME Imported(h) PROVE ChannelInv' /\ ChannelsKept
  <2> DEFINE st == [rq EXCEPT !.pc = "find", !.cur = NoCamera, !.seen = @ \cup {rq.cam}, !.cam = 0]
  <2>1. /\ dvNext' = dvNext /\ dvReal' = dvReal /\ dvPast' = dvPast /\ dvCred' = dvCred /\ dvRows' = dvRows
        /\ dvStreams' = dvStreams /\ dvRuns' = dvRuns /\ rq.left = {} /\ DisturbSyncs(h, st)
    BY <1>4 DEF Imported
  <2>3. st \in DvReqs /\ st.pc = "find" /\ st.left = {}
    BY <1>1, <2>1 DEF DvReqs
  <2> HIDE DEF st
  <2>4. ReqTrue(st, dvNext) /\ \A j : ~Handles(st, j)
    BY <2>3 DEF ReqTrue, Handles
  <2> QED BY <1>1, <2>1, <2>3, <2>4, RowsInPlace
<1>5. ASSUME SyncEnd(h) PROVE ChannelInv' /\ ChannelsKept
  <2>1. /\ dvNext' = dvNext /\ dvReal' = dvReal /\ dvPast' = dvPast /\ dvCred' = dvCred
        /\ dvStreams' = dvStreams /\ dvRuns' = dvRuns /\ DisturbSyncs(h, DvIdle)
        /\ \/ dvRows' = dvRows
           \/ dvRows' = [i \in DOMAIN dvRows |-> IF i \in rq.seen THEN dvRows[i]
                                                 ELSE [dvRows[i] EXCEPT !.enabled = FALSE]]
    BY <1>5 DEF SyncEnd
  <2>2. /\ dvRows' \in [DOMAIN dvRows -> DvRowTypes]
        /\ \A i \in DOMAIN dvRows : dvRows'[i].chan = dvRows[i].chan
    <3>1. ASSUME NEW row \in DvRowTypes
          PROVE  [row EXCEPT !.enabled = FALSE] \in DvRowTypes /\ [row EXCEPT !.enabled = FALSE].chan = row.chan
      BY DEF DvRowTypes
    <3>2. \A i \in DOMAIN dvRows : dvRows[i] \in DvRowTypes
      BY <1>1
    <3> QED BY <1>1, <2>1, <3>1, <3>2
  <2>3. DvIdle \in DvReqs /\ ReqTrue(DvIdle, dvNext) /\ \A j : ~Handles(DvIdle, j)
    BY DEF DvIdle, DvReqs, ReqTrue, Handles
  <2> QED BY <1>1, <2>1, <2>2, <2>3, RowsInPlace
<1> QED BY <1>2, <1>3, <1>4, <1>5

LEMMA RowWritten ==
  ASSUME ChannelInv, NEW h \in DvHandlers, UpdateRow(h) \/ createCameraStream(h)
  PROVE  ChannelInv' /\ ChannelsKept
<1> DEFINE rq == dvH[h]
<1>1. /\ dvCred \in Nat /\ dvRuns \in Nat /\ dvNext \in Nat /\ dvRows \in [DOMAIN dvRows -> DvRowTypes]
      /\ rq \in DvReqs /\ ReqTrue(rq, dvNext) /\ DOMAIN dvRows \subseteq 1..(dvNext - 1)
      /\ \A s \in dvStreams : s.cam \in DOMAIN dvRows
      /\ DevicesTypes
  BY DEF ChannelInv, DevicesTypes
<1>2. ASSUME UpdateRow(h) PROVE ChannelInv' /\ ChannelsKept
  <2> DEFINE st == [rq EXCEPT !.pc = "clear"]
             made == [chan |-> rq.cur.chan, cred |-> rq.cred, enabled |-> TRUE]
  <2>1. /\ dvNext' = dvNext /\ dvReal' = dvReal /\ dvPast' = dvPast /\ dvCred' = dvCred
        /\ dvStreams' = dvStreams /\ dvRuns' = dvRuns /\ DisturbSyncs(h, st) /\ rq.pc = "update"
        /\ dvRows' = [i \in DOMAIN dvRows |-> IF i # rq.cam THEN dvRows[i] ELSE made]
    BY <1>2 DEF UpdateRow
  <2>2. st \in DvReqs /\ st.pc = "clear" /\ st.cur = rq.cur /\ st.left = rq.left /\ st.cam = rq.cam
    BY <1>1 DEF DvReqs
  <2>3. rq.cur \in Offered /\ made \in DvRowTypes /\ made.chan = rq.cur.chan
    BY <1>1, <2>1 DEF ReqTrue, DvReqs, DvRowTypes, Channels
  <2> HIDE DEF st, made
  <2>4. ReqTrue(st, dvNext)
    BY <1>1, <2>1, <2>2 DEF ReqTrue
  <2>5. /\ dvH' \in [DvHandlers -> DvReqs] /\ (\A g \in DvHandlers : ReqTrue(dvH'[g], dvNext'))
        /\ dvH'[h] = st /\ \A g \in DvHandlers \ {h} : Alike(dvH'[g], dvH[g])
    <3>1. dvNext' \in Nat /\ dvNext <= dvNext' /\ ReqTrue(st, dvNext')
      BY <1>1, <2>1, <2>4
    <3>2. dvH' \in [DvHandlers -> DvReqs] /\ \A g \in DvHandlers : ReqTrue(dvH'[g], dvNext')
      BY <1>1, <2>1, <2>2, <3>1, ReqsKept
    <3>3. dvH'[h] = st /\ \A g \in DvHandlers \ {h} : Alike(dvH'[g], dvH[g])
      BY <1>1, <2>1, <2>2, Disturbed
    <3> QED BY <3>2, <3>3
  <2>6. /\ DOMAIN dvRows' = DOMAIN dvRows /\ dvRows' \in [DOMAIN dvRows -> DvRowTypes]
        /\ \A i \in DOMAIN dvRows : i # rq.cam => dvRows'[i] = dvRows[i]
        /\ rq.cam \in DOMAIN dvRows => dvRows'[rq.cam].chan = rq.cur.chan
    BY <1>1, <2>1, <2>3
  <2>7. DevicesTypes'
    BY <1>1, <2>1, <2>5, <2>6 DEF DevicesTypes
  <2>8. ASSUME NEW x, RowIsOf(rq.cam, x) PROVE IsOf(rq.cur, x)
    BY <2>1, <2>8 DEF RowIsOf, Handles
  <2>9. ASSUME NEW i, NEW x, RowIsOf(i, x) PROVE RowIsOf(i, x)'
    <3>1. Handles(dvH'[h], i) => IsOf(dvH'[h].cur, x)
      BY <2>2, <2>5, <2>8, <2>9 DEF Handles
    <3>2. i \in DOMAIN dvRows' => \/ i \in DOMAIN dvRows /\ dvRows'[i].chan = dvRows[i].chan
                                  \/ StandsFor(dvRows'[i].chan, x)
      BY <2>6, <2>8, <2>9 DEF IsOf
    <3> QED BY <1>1, <2>1, <2>5, <2>9, <3>1, <3>2, RowStaysOf
  <2>10. ASSUME NEW i \in DOMAIN dvRows, dvRows[i].chan[1] = "id", dvRows[i].chan # <<"id", {"default"}>>
         PROVE  dvRows'[i].chan = dvRows[i].chan
    <3>1. CASE i = rq.cam
      <4>1. PICK x : RowIsOf(i, x)
        BY <1>1 DEF ChannelInv
      <4>2. StandsFor(dvRows[i].chan, x)
        BY <2>10, <4>1 DEF RowIsOf, NoChannel
      <4>3. StandsFor(rq.cur.chan, x)
        BY <2>8, <3>1, <4>1 DEF IsOf
      <4>4. dvRows[i].chan = <<"id", {x}>> /\ x # "default"
        BY <2>10, <4>2 DEF StandsFor
      <4> QED BY <2>6, <3>1, <4>3, <4>4 DEF StandsFor
    <3> QED BY <2>6, <3>1
  <2> QED BY <2>7, <2>9, <2>10 DEF ChannelInv, ChannelsKept
<1>3. ASSUME createCameraStream(h) PROVE ChannelInv' /\ ChannelsKept
  <2>1. PICK s \in rq.left :
          /\ dvStreams' = dvStreams \cup {[cam |-> rq.cam, token |-> s.token, role |-> s.role, run |-> rq.run]}
          /\ DisturbSyncs(h, [rq EXCEPT !.left = @ \ {s}])
    BY <1>3 DEF createCameraStream
  <2> DEFINE st == [rq EXCEPT !.left = @ \ {s}]
             made == [cam |-> rq.cam, token |-> s.token, role |-> s.role, run |-> rq.run]
  <2>2. /\ st \in DvReqs /\ st.pc = rq.pc /\ st.cur = rq.cur /\ st.left = rq.left \ {s} /\ st.cam = rq.cam
    BY <1>1 DEF DvReqs
  <2>3. /\ dvNext' = dvNext /\ dvReal' = dvReal /\ dvPast' = dvPast /\ dvCred' = dvCred
        /\ dvRows' = dvRows /\ dvRuns' = dvRuns /\ rq.pc = "stream" /\ rq.cam \in DOMAIN dvRows
    BY <1>3 DEF createCameraStream
  <2>4. DisturbSyncs(h, st) /\ dvStreams' = dvStreams \cup {made} /\ made.cam = rq.cam /\ made.token = s.token
    BY <2>1
  <2>5. s \in rq.cur.streams
    BY <1>1, <2>3 DEF ReqTrue
  <2> HIDE DEF st, made
  <2>6. ReqTrue(st, dvNext)
    BY <1>1, <2>2 DEF ReqTrue
  <2>7. /\ dvH' \in [DvHandlers -> DvReqs] /\ (\A g \in DvHandlers : ReqTrue(dvH'[g], dvNext'))
        /\ dvH'[h] = st /\ \A g \in DvHandlers \ {h} : Alike(dvH'[g], dvH[g])
    <3>1. dvNext' \in Nat /\ dvNext <= dvNext' /\ ReqTrue(st, dvNext')
      BY <1>1, <2>3, <2>6
    <3>2. dvH' \in [DvHandlers -> DvReqs] /\ \A g \in DvHandlers : ReqTrue(dvH'[g], dvNext')
      BY <1>1, <2>2, <2>4, <3>1, ReqsKept
    <3>3. dvH'[h] = st /\ \A g \in DvHandlers \ {h} : Alike(dvH'[g], dvH[g])
      BY <1>1, <2>2, <2>4, Disturbed
    <3> QED BY <3>2, <3>3
  <2>8. DevicesTypes'
    BY <1>1, <2>3, <2>4, <2>7 DEF DevicesTypes
  <2>9. ASSUME NEW i, NEW x, RowIsOf(i, x) PROVE RowIsOf(i, x)'
    <3>1. Handles(rq, i) => IsOf(rq.cur, x)
      BY <2>9 DEF RowIsOf
    <3>2. Handles(dvH'[h], i) => IsOf(dvH'[h].cur, x)
      BY <2>2, <2>7, <3>1 DEF Handles
    <3>3. ASSUME NEW t \in dvStreams', t.cam = i PROVE t \in dvStreams \/ TokenOf(t.token, x)
      <4>1. t = made => Handles(rq, i)
        BY <2>3, <2>4, <3>3 DEF Handles
      <4> QED BY <2>4, <2>5, <3>1, <4>1 DEF IsOf
    <3> QED BY <1>1, <2>3, <2>7, <2>9, <3>2, <3>3, RowStaysOf
  <2> QED BY <2>3, <2>8, <2>9 DEF ChannelInv, ChannelsKept
<1> QED BY <1>2, <1>3

LEMMA RowMade ==
  ASSUME ChannelInv, NEW h \in DvHandlers, createCamera(h)
  PROVE  ChannelInv' /\ ChannelsKept
<1> DEFINE rq == dvH[h]
           made == [chan |-> rq.cur.chan, cred |-> rq.cred, enabled |-> TRUE]
           st == [rq EXCEPT !.pc = "stream", !.cam = dvNext, !.left = rq.cur.streams]
<1>1. /\ dvCred \in Nat /\ dvRuns \in Nat /\ dvNext \in Nat \ {0} /\ dvRows \in [DOMAIN dvRows -> DvRowTypes]
      /\ rq \in DvReqs /\ ReqTrue(rq, dvNext) /\ DOMAIN dvRows \subseteq 1..(dvNext - 1)
      /\ \A s \in dvStreams : s.cam \in DOMAIN dvRows
      /\ DevicesTypes
  BY DEF ChannelInv, DevicesTypes
<1>2. /\ dvNext' = dvNext + 1 /\ dvReal' = dvReal /\ dvPast' = dvPast /\ dvCred' = dvCred
      /\ dvStreams' = dvStreams /\ dvRuns' = dvRuns /\ DisturbSyncs(h, st) /\ rq.pc = "create"
      /\ dvRows' = With(dvRows, dvNext, made)
  BY DEF createCamera
<1>3. rq.cur \in Offered /\ rq.cur.streams \subseteq OfferedStreams /\ made \in DvRowTypes /\ made.chan = rq.cur.chan
  BY <1>1, <1>2 DEF ReqTrue, DvReqs, DvRowTypes, Channels, OfferedStreams
<1>4. /\ st \in DvReqs /\ st.pc = "stream" /\ st.cam = dvNext /\ st.cur = rq.cur
      /\ st.left = rq.cur.streams
  BY <1>1, <1>3 DEF DvReqs
<1> HIDE DEF st, made
<1>5. ReqTrue(st, dvNext')
  BY <1>1, <1>2, <1>3, <1>4 DEF ReqTrue
<1>6. dvNext' \in Nat /\ dvNext <= dvNext' /\ dvNext' \in Nat \ {0}
  BY <1>1, <1>2
<1>7. dvH' \in [DvHandlers -> DvReqs] /\ \A g \in DvHandlers : ReqTrue(dvH'[g], dvNext')
  BY <1>1, <1>2, <1>4, <1>5, <1>6, ReqsKept
<1>8. dvH'[h] = st /\ \A g \in DvHandlers \ {h} : Alike(dvH'[g], dvH[g])
  BY <1>1, <1>2, <1>4, Disturbed
<1>9. dvNext \notin DOMAIN dvRows
  BY <1>1
<1>10. /\ DOMAIN dvRows' = DOMAIN dvRows \cup {dvNext} /\ dvRows' \in [DOMAIN dvRows' -> DvRowTypes]
       /\ \A i \in DOMAIN dvRows : dvRows'[i] = dvRows[i]
       /\ dvRows'[dvNext] = made
  BY <1>1, <1>2, <1>3, <1>9 DEF With
<1>11. DOMAIN dvRows' \subseteq 1..(dvNext' - 1)
  BY <1>1, <1>2, <1>10
<1>12. DevicesTypes'
  BY <1>1, <1>2, <1>6, <1>7, <1>10, <1>11 DEF DevicesTypes
<1>13. ASSUME NEW i, i # dvNext, NEW x, RowIsOf(i, x) PROVE RowIsOf(i, x)'
  <2>1. ~Handles(st, i)
    BY <1>4, <1>13 DEF Handles
  <2>2. i \in DOMAIN dvRows' => i \in DOMAIN dvRows /\ dvRows'[i].chan = dvRows[i].chan
    BY <1>10, <1>13
  <2> QED BY <1>1, <1>2, <1>8, <1>13, <2>1, <2>2, RowStaysOf
<1> PICK n \in Nat : n = dvNext
  BY <1>1
<1>14. \E x : RowIsOf(n, x)'
  <2>1. PICK x : IsOf(rq.cur, x)
    BY <1>3, OfferedNamed DEF Offered
  <2>2. \A s \in dvStreams' : s.cam # dvNext
    BY <1>1, <1>2, <1>9
  <2>3. \A g \in DvHandlers : Handles(dvH'[g], dvNext) => IsOf(dvH'[g].cur, x)
    <3>1. \A g \in DvHandlers \ {h} : ~Handles(dvH[g], dvNext)
      BY <1>1 DEF DevicesTypes, ReqTrue, Handles
    <3>2. \A g \in DvHandlers \ {h} : ~Handles(dvH'[g], dvNext)
      BY <1>8, <3>1, AlikeKept
    <3> QED BY <1>4, <1>8, <2>1, <3>2
  <2>4. StandsFor(dvRows'[dvNext].chan, x)
    BY <1>3, <1>10, <2>1 DEF IsOf
  <2>5. /\ n \in DOMAIN dvRows' => dvRows'[n].chan = NoChannel \/ StandsFor(dvRows'[n].chan, x)
        /\ \A s \in dvStreams' : s.cam = n => TokenOf(s.token, x)
        /\ \A g \in DvHandlers : Handles(dvH'[g], n) => IsOf(dvH'[g].cur, x)
    BY <2>2, <2>3, <2>4
  <2> QED BY <2>5 DEF RowIsOf
<1>15. ASSUME NEW i \in Nat PROVE \E x : RowIsOf(i, x)'
  <2>1. CASE i = n
    BY <1>14, <2>1
  <2>2. CASE i # n
    <3>1. PICK x : RowIsOf(i, x)
      BY DEF ChannelInv
    <3> QED BY <1>13, <2>2, <3>1
  <2> QED BY <2>1, <2>2
<1> QED BY <1>10, <1>12, <1>15 DEF ChannelInv, ChannelsKept

LEMMA DeviceEdited ==
  ASSUME ChannelInv, DisturbAll,
         dvNext' = dvNext, dvReal' \in DvDevices, dvPast' \subseteq DvDevices, dvCred' \in Nat, dvRuns' = dvRuns,
         DOMAIN dvRows' \subseteq DOMAIN dvRows, dvRows' \in [DOMAIN dvRows' -> DvRowTypes],
         \A i \in DOMAIN dvRows' : dvRows'[i].chan = dvRows[i].chan,
         dvStreams' \subseteq dvStreams, \A s \in dvStreams' : s.cam \in DOMAIN dvRows'
  PROVE  ChannelInv' /\ ChannelsKept
<1>1. DevicesTypes /\ dvNext \in Nat
  BY DEF ChannelInv, DevicesTypes
<1>2. dvH' \in [DvHandlers -> DvReqs] /\ \A g \in DvHandlers : Alike(dvH'[g], dvH[g])
  BY <1>1, AllDisturbed
<1>3. \A g \in DvHandlers : ReqTrue(dvH'[g], dvNext')
  BY <1>1, <1>2, AlikeKept DEF DevicesTypes
<1>4. DevicesTypes'
  BY <1>1, <1>2, <1>3 DEF DevicesTypes
<1>5. ASSUME NEW i, NEW x, RowIsOf(i, x) PROVE RowIsOf(i, x)'
  BY <1>1, <1>2, <1>5, RowStaysOf
<1> QED BY <1>4, <1>5 DEF ChannelInv, ChannelsKept

LEMMA AdminEdits ==
  ASSUME ChannelInv,
         \/ \E cred \in {1, 2} : DeviceUpdate(cred)
         \/ deleteCameraDevice
         \/ \E i \in 1..MaxDvRows : deleteCamera(i) \/ \E on \in BOOLEAN : SetEnabled(i, on)
         \/ \E d \in DvDevices : DeviceChanges(d)
  PROVE  ChannelInv' /\ ChannelsKept
<1>1. /\ dvCred \in Nat /\ dvRows \in [DOMAIN dvRows -> DvRowTypes]
      /\ dvReal \in DvDevices /\ dvPast \subseteq DvDevices
      /\ \A s \in dvStreams : s.cam \in DOMAIN dvRows
  BY DEF ChannelInv, DevicesTypes
<1>2. ASSUME NEW row \in DvRowTypes
      PROVE  /\ \A n \in Nat : [row EXCEPT !.cred = n] \in DvRowTypes /\ [row EXCEPT !.cred = n].chan = row.chan
             /\ \A on \in BOOLEAN : [row EXCEPT !.enabled = on] \in DvRowTypes /\ [row EXCEPT !.enabled = on].chan = row.chan
  BY DEF DvRowTypes
<1>3. ASSUME NEW cred \in {1, 2}, DeviceUpdate(cred) PROVE ChannelInv' /\ ChannelsKept
  <2>1. /\ DisturbAll /\ dvNext' = dvNext /\ dvReal' = dvReal /\ dvPast' = dvPast /\ dvCred' = cred /\ dvRuns' = dvRuns
        /\ dvStreams' = dvStreams /\ dvRows' = [i \in DOMAIN dvRows |-> [dvRows[i] EXCEPT !.cred = cred]]
    BY <1>3 DEF DeviceUpdate, Edit, updateCameraDevice
  <2>2. /\ dvRows' \in [DOMAIN dvRows -> DvRowTypes] /\ \A i \in DOMAIN dvRows : dvRows'[i].chan = dvRows[i].chan
    <3>1. \A i \in DOMAIN dvRows : dvRows[i] \in DvRowTypes
      BY <1>1
    <3>2. DOMAIN dvRows' = DOMAIN dvRows /\ cred \in Nat
      BY <2>1
    <3>3. ASSUME NEW i \in DOMAIN dvRows
          PROVE  dvRows'[i] \in DvRowTypes /\ dvRows'[i].chan = dvRows[i].chan
      <4>1. dvRows'[i] = [dvRows[i] EXCEPT !.cred = cred]
        BY <2>1
      <4> QED BY <1>2, <3>1, <3>2, <4>1
    <3> QED BY <2>1, <3>3
  <2> QED BY <1>1, <2>1, <2>2, DeviceEdited
<1>4. ASSUME deleteCameraDevice PROVE ChannelInv' /\ ChannelsKept
  <2>1. /\ DisturbAll /\ dvNext' = dvNext /\ dvReal' = dvReal /\ dvPast' = dvPast /\ dvCred' = 0 /\ dvRuns' = dvRuns
        /\ dvStreams' = {} /\ dvRows' = [i \in {} |-> 0]
    BY <1>4 DEF deleteCameraDevice, Edit
  <2>2. DOMAIN dvRows' = {} /\ dvRows' \in [DOMAIN dvRows' -> DvRowTypes]
    BY <2>1
  <2> QED BY <1>1, <2>1, <2>2, DeviceEdited
<1>5. ASSUME NEW i \in 1..MaxDvRows, deleteCamera(i) PROVE ChannelInv' /\ ChannelsKept
  <2>1. /\ DisturbAll /\ dvNext' = dvNext /\ dvReal' = dvReal /\ dvPast' = dvPast /\ dvCred' = dvCred /\ dvRuns' = dvRuns
        /\ dvStreams' = {s \in dvStreams : s.cam # i} /\ dvRows' = [x \in DOMAIN dvRows \ {i} |-> dvRows[x]]
    BY <1>5 DEF deleteCamera, Edit
  <2>2. /\ DOMAIN dvRows' = DOMAIN dvRows \ {i} /\ dvRows' \in [DOMAIN dvRows' -> DvRowTypes]
        /\ \A j \in DOMAIN dvRows' : dvRows'[j].chan = dvRows[j].chan
    BY <1>1, <2>1
  <2> QED BY <1>1, <2>1, <2>2, DeviceEdited
<1>6. ASSUME NEW i \in 1..MaxDvRows, NEW on \in BOOLEAN, SetEnabled(i, on) PROVE ChannelInv' /\ ChannelsKept
  <2>1. /\ DisturbAll /\ dvNext' = dvNext /\ dvReal' = dvReal /\ dvPast' = dvPast /\ dvCred' = dvCred /\ dvRuns' = dvRuns
        /\ dvStreams' = dvStreams /\ dvRows' = [dvRows EXCEPT ![i].enabled = on]
    BY <1>6 DEF SetEnabled, Edit
  <2>2. /\ DOMAIN dvRows' = DOMAIN dvRows /\ dvRows' \in [DOMAIN dvRows -> DvRowTypes]
        /\ \A j \in DOMAIN dvRows : dvRows'[j].chan = dvRows[j].chan
    BY <1>1, <1>2, <2>1
  <2> QED BY <1>1, <2>1, <2>2, DeviceEdited
<1>7. ASSUME NEW d \in DvDevices, DeviceChanges(d) PROVE ChannelInv' /\ ChannelsKept
  <2>1. /\ DisturbAll /\ dvNext' = dvNext /\ dvReal' = d /\ dvPast' = dvPast \cup {d} /\ dvCred' = dvCred /\ dvRuns' = dvRuns
        /\ dvStreams' = dvStreams /\ dvRows' = dvRows
    BY <1>7 DEF DeviceChanges, Edit
  <2> QED BY <1>1, <2>1, DeviceEdited
<1> QED BY <1>3, <1>4, <1>5, <1>6, <1>7

LEMMA ChannelsInitially == DevicesInit => ChannelInv
<1> SUFFICES ASSUME DevicesInit PROVE ChannelInv
  OBVIOUS
<1>1. DvIdle \in DvReqs /\ (\A n : ReqTrue(DvIdle, n)) /\ \A i : ~Handles(DvIdle, i)
  BY DEF DvIdle, DvReqs, ReqTrue, Handles
<1>2. dvReal \in DvDevices /\ dvPast = {dvReal} /\ dvCred \in Nat /\ dvRuns = 0 /\ dvH = [h \in DvHandlers |-> DvIdle]
  BY DEF DevicesInit
<1>3. CASE dvRows = [i \in {} |-> 0] /\ dvStreams = {}
  <2>1. dvNext = 1 /\ DOMAIN dvRows = {}
    BY <1>3, FS_EmptySet DEF DevicesInit
  <2>2. dvRows \in [DOMAIN dvRows -> DvRowTypes]
    BY <1>3, <2>1
  <2>3. DevicesTypes
    BY <1>1, <1>2, <1>3, <2>1, <2>2 DEF DevicesTypes
  <2> QED BY <1>1, <1>2, <1>3, <2>1, <2>3 DEF ChannelInv, RowIsOf
<1>4. ASSUME NEW p \in Tokens(dvReal), dvStreams = {[cam |-> 1, token |-> p, role |-> "main", run |-> 0]},
             dvRows = [i \in {1} |-> [chan |-> NoChannel, cred |-> 1, enabled |-> TRUE]]
      PROVE  ChannelInv
  <2>1. dvNext = 2 /\ DOMAIN dvRows = {1}
    <3>1. DOMAIN dvRows = {1} /\ dvNext = 1 + Cardinality(DOMAIN dvRows)
      BY <1>4 DEF DevicesInit
    <3>2. Cardinality({1}) = 1
      BY FS_Singleton
    <3> QED BY <3>1, <3>2
  <2>2. dvRows \in [DOMAIN dvRows -> DvRowTypes] /\ dvRows[1].chan = NoChannel
    BY <1>4, <2>1 DEF DvRowTypes, Channels
  <2>3. DevicesTypes
    BY <1>1, <1>2, <1>4, <2>1, <2>2 DEF DevicesTypes
  <2>4. PICK k \in DOMAIN dvReal : dvReal[k].token = p
    BY <1>4 DEF Tokens
  <2>5. TokenOf(p, profileGroupKey(dvReal[k])[2])
    BY <1>2, <2>4 DEF TokenOf
  <2>6. ASSUME NEW i \in Nat PROVE RowIsOf(i, profileGroupKey(dvReal[k])[2])
    BY <1>1, <1>2, <1>4, <2>1, <2>2, <2>5 DEF RowIsOf
  <2> QED BY <2>3, <2>6 DEF ChannelInv
<1> QED BY <1>3, <1>4 DEF DevicesInit

LEMMA ChannelsStep == ChannelInv /\ DevicesNext => ChannelInv' /\ ChannelsKept
<1> SUFFICES ASSUME ChannelInv, DevicesNext PROVE ChannelInv' /\ ChannelsKept
  OBVIOUS
<1>1. ASSUME NEW h \in DvHandlers,
             \/ ImportStops(h) \/ FindRow(h) \/ UpdateRow(h) \/ deleteCameraStreams(h) \/ createCamera(h)
             \/ createCameraStream(h) \/ Imported(h) \/ SyncEnd(h)
             \/ \E skipped \in {{}, Tokens(dvReal)} : SyncBegin(h, skipped)
             \/ \E d \in dvPast : DiscoverAdd(h, d, 2)
      PROVE  ChannelInv' /\ ChannelsKept
  BY <1>1, SyncsBegin, RowFound, RowWritten, RowMade
<1> QED BY <1>1, AdminEdits DEF DevicesNext

LEMMA ChannelsStutter == ChannelInv /\ UNCHANGED dvVars => ChannelInv'
BY DEF ChannelInv, DevicesTypes, RowIsOf, dvVars

(* The first of a finite set in a total order, given by the predecessors.  *)
LEMMA FirstExists ==
  ASSUME NEW S, IsFiniteSet(S), S # {}, NEW A \in [S -> SUBSET S],
         \A i \in S : i \notin A[i],
         \A i, j \in S : i \in A[j] => A[i] \subseteq A[j],
         \A i, j \in S : i # j => i \in A[j] \/ j \in A[i]
  PROVE  \E i \in S : A[i] = {}
<1> DEFINE n == Cardinality(S)
           r == [i \in S |-> Cardinality(A[i]) + 1]
<1>1. n \in Nat /\ n # 0
  BY FS_CardinalityType, FS_EmptySet
<1>2. ASSUME NEW i \in S PROVE IsFiniteSet(A[i]) /\ Cardinality(A[i]) \in Nat /\ Cardinality(A[i]) < n
  <2>1. A[i] \in SUBSET S /\ A[i] # S
    OBVIOUS
  <2>2. IsFiniteSet(A[i]) /\ Cardinality(A[i]) <= n /\ (n = Cardinality(A[i]) => S = A[i])
    BY <2>1, FS_Subset
  <2>3. Cardinality(A[i]) \in Nat
    BY <2>2, FS_CardinalityType
  <2> QED BY <1>1, <2>1, <2>2, <2>3
<1>3. ASSUME NEW i \in S, NEW j \in S, i \in A[j] PROVE Cardinality(A[i]) < Cardinality(A[j])
  <2>1. A[i] \in SUBSET A[j] /\ A[i] # A[j]
    BY <1>3
  <2>2. Cardinality(A[i]) <= Cardinality(A[j]) /\ (Cardinality(A[j]) = Cardinality(A[i]) => A[j] = A[i])
    BY <1>2, <2>1, FS_Subset
  <2> QED BY <1>2, <2>1, <2>2
<1>4. r \in Injection(S, 1..n)
  <2>1. r \in [S -> 1..n]
    BY <1>1, <1>2
  <2>2. ASSUME NEW i \in S, NEW j \in S, i # j PROVE r[i] # r[j]
    BY <1>2, <1>3, <2>2
  <2> QED BY <2>1, <2>2 DEF Injection, IsInjective
<1>5. IsFiniteSet(1..n) /\ Cardinality(1..n) = n
  <2>1. 1 \in Int /\ n \in Int
    BY <1>1
  <2>2. IsFiniteSet(1..n) /\ Cardinality(1..n) = IF 1 > n THEN 0 ELSE n - 1 + 1
    BY <2>1, FS_Interval
  <2> QED BY <1>1, <2>2
<1>6. r \in Surjection(S, 1..n)
  BY <1>4, <1>5, FS_Injection
<1>7. PICK i \in S : r[i] = 1
  <2>1. 1 \in 1..n
    BY <1>1
  <2> HIDE DEF r, n
  <2> QED BY <1>6, <2>1 DEF Surjection
<1>8. Cardinality(A[i]) = 0
  BY <1>2, <1>7
<1> QED BY <1>2, <1>8, FS_EmptySet

Keys(d) == {profileGroupKey(d[i]) : i \in DOMAIN d}
Group(d, k) == {i \in DOMAIN d : profileGroupKey(d[i]) = k}

LEMMA GroupsFinite ==
  ASSUME NEW d \in DvDevices, NEW k \in Keys(d)
  PROVE  /\ Group(d, k) # {} /\ IsFiniteSet(Group(d, k))
         /\ \A i \in Group(d, k) : i \in Nat /\ i \in DOMAIN d /\ d[i].area \in Nat
<1>1. d \in Seq(Profile) /\ DOMAIN d = 1..Len(d) /\ Len(d) \in Nat
  BY DevicesAssumption DEF DevicesAssumption
<1>2. IsFiniteSet(DOMAIN d)
  <2>1. 1 \in Int /\ Len(d) \in Int
    BY <1>1
  <2> QED BY <1>1, <2>1, FS_Interval
<1>3. Group(d, k) \in SUBSET DOMAIN d
  BY DEF Group
<1>4. IsFiniteSet(Group(d, k))
  BY <1>2, <1>3, FS_Subset
<1>5. \A i \in DOMAIN d : i \in Nat /\ d[i].area \in Nat
  <2>1. \A i \in DOMAIN d : i \in Nat /\ d[i] \in Profile
    BY <1>1
  <2> QED BY <2>1 DEF Profile
<1> QED BY <1>3, <1>4, <1>5 DEF Group, Keys

LEMMA LeastOfGroup ==
  ASSUME NEW d \in DvDevices, NEW k \in Keys(d)
  PROVE  \E i \in Group(d, k) : \A j \in Group(d, k) : i <= j
<1> DEFINE S == Group(d, k)
           A == [i \in S |-> {j \in S : j < i}]
<1>1. S # {} /\ IsFiniteSet(S) /\ \A i \in S : i \in Nat
  BY GroupsFinite
<1> HIDE DEF S
<1>2. A \in [S -> SUBSET S]
  OBVIOUS
<1>3. /\ \A i \in S : i \notin A[i]
      /\ \A i, j \in S : i \in A[j] => A[i] \subseteq A[j]
      /\ \A i, j \in S : i # j => i \in A[j] \/ j \in A[i]
  BY <1>1
<1>4. PICK i \in S : A[i] = {}
  <2> HIDE DEF A
  <2> QED BY <1>1, <1>2, <1>3, FirstExists
<1>5. \A j \in S : ~(j < i)
  BY <1>4
<1>6. \A j \in S : i <= j
  BY <1>1, <1>5
<1> QED BY <1>6 DEF S

LEMMA MainOfGroup ==
  ASSUME NEW d \in DvDevices, NEW k \in Keys(d)
  PROVE  \E i \in Group(d, k) : Ahead(d, Group(d, k), i) = {}
<1> DEFINE S == Group(d, k)
           A == [i \in S |-> Ahead(d, S, i)]
           area == [i \in S |-> d[i].area]
<1>1. S # {} /\ IsFiniteSet(S) /\ \A i \in S : i \in Nat /\ d[i].area \in Nat
  BY GroupsFinite
<1> HIDE DEF S
<1>2. A \in [S -> SUBSET S]
  BY DEF Ahead
<1>3. \A i \in S : A[i] = {j \in S : area[j] > area[i] \/ (area[j] = area[i] /\ j < i)}
  BY DEF Ahead
<1>4. \A i \in S : i \in Nat /\ area[i] \in Nat
  BY <1>1
<1> HIDE DEF A, area
<1>5. \A i \in S : i \notin A[i]
  BY <1>3, <1>4
<1>6. \A i, j \in S : i \in A[j] => A[i] \subseteq A[j]
  BY <1>3, <1>4
<1>7. \A i, j \in S : i # j => i \in A[j] \/ j \in A[i]
  BY <1>3, <1>4
<1>8. PICK i \in S : A[i] = {}
  BY <1>1, <1>2, <1>5, <1>6, <1>7, FirstExists
<1> QED BY <1>8 DEF A, S

(* The camera of a key. *)
IsCamera(d, k, c) ==
  /\ c.first \in Group(d, k) /\ \A j \in Group(d, k) : c.first <= j
  /\ c = [first |-> c.first, chan |-> channelId(d, Group(d, k)), streams |-> roleProfiles(d, Group(d, k))]

LEMMA KeysDiffer ==
  ASSUME NEW d \in DvDevices, NEW k \in Keys(d), NEW l \in Keys(d), k[2] = l[2]
  PROVE  k = l
<1>1. PICK i \in DOMAIN d : k = profileGroupKey(d[i])
  BY DEF Keys
<1>2. PICK j \in DOMAIN d : l = profileGroupKey(d[j])
  BY DEF Keys
<1> QED BY <1>1, <1>2, ProfilesAssumption DEF ProfilesAssumption

LEMMA KeyNamed ==
  ASSUME NEW d \in DvDevices, NEW k \in Keys(d)
  PROVE  StandsFor(channelId(d, Group(d, k)), k[2])
<1>1. PICK i \in DOMAIN d : k = profileGroupKey(d[i])
  BY DEF Keys
<1>2. Beside(d, DOMAIN d, i) = Group(d, k)
  BY <1>1 DEF Beside, Group
<1> QED BY <1>1, <1>2, GroupNamed

LEMMA CamerasAre ==
  ASSUME NEW d \in DvDevices
  PROVE  /\ \A k \in Keys(d) : \E c \in discover(d, {}) : IsCamera(d, k, c)
         /\ \A c \in discover(d, {}) : \E k \in Keys(d) : IsCamera(d, k, c)
<1> DEFINE asked == {i \in DOMAIN d : d[i].token \notin {}}
           firsts == {i \in asked : \A j \in Beside(d, asked, i) : i <= j}
           Made(i) == [first |-> i, chan |-> channelId(d, Beside(d, asked, i)),
                       streams |-> roleProfiles(d, Beside(d, asked, i))]
<1>1. asked = DOMAIN d
  OBVIOUS
<1>2. \A c : c \in discover(d, {}) <=> \E i \in firsts : c = Made(i)
  BY DEF discover, groupProfiles, Beside
<1> HIDE DEF asked
<1>3. \A i \in DOMAIN d : /\ profileGroupKey(d[i]) \in Keys(d)
                          /\ Beside(d, asked, i) = Group(d, profileGroupKey(d[i])) /\ i \in Beside(d, asked, i)
  BY <1>1 DEF Beside, Group, Keys
<1>4. \A i : Made(i).first = i /\ Made(i).chan = channelId(d, Beside(d, asked, i))
             /\ Made(i).streams = roleProfiles(d, Beside(d, asked, i))
  OBVIOUS
<1>5. ASSUME NEW k \in Keys(d) PROVE \E c \in discover(d, {}) : IsCamera(d, k, c)
  <2>1. PICK i \in Group(d, k) : \A j \in Group(d, k) : i <= j
    BY LeastOfGroup
  <2>2. i \in DOMAIN d /\ profileGroupKey(d[i]) = k /\ Beside(d, asked, i) = Group(d, k)
    BY <1>3 DEF Group
  <2>3. i \in firsts
    BY <1>1, <2>1, <2>2
  <2>4. Made(i) \in discover(d, {})
    BY <1>2, <2>3
  <2>5. IsCamera(d, k, Made(i))
    BY <1>4, <2>1, <2>2 DEF IsCamera
  <2> QED BY <2>4, <2>5
<1>6. ASSUME NEW c \in discover(d, {}) PROVE \E k \in Keys(d) : IsCamera(d, k, c)
  <2>1. PICK i \in firsts : c = Made(i)
    BY <1>2
  <2>2. i \in DOMAIN d
    BY <1>1
  <2>3. IsCamera(d, profileGroupKey(d[i]), c)
    BY <1>3, <1>4, <2>1, <2>2 DEF IsCamera
  <2> QED BY <1>3, <2>2, <2>3
<1> QED BY <1>5, <1>6

LEMMA CamerasApart ==
  ASSUME NEW d \in DvDevices, NEW c \in discover(d, {}), NEW e \in discover(d, {}),
         NEW x, StandsFor(c.chan, x), StandsFor(e.chan, x)
  PROVE  c = e
<1>1. PICK k \in Keys(d) : IsCamera(d, k, c)
  BY CamerasAre
<1>2. PICK l \in Keys(d) : IsCamera(d, l, e)
  BY CamerasAre
<1>3. c.chan = channelId(d, Group(d, k)) /\ e.chan = channelId(d, Group(d, l))
  BY <1>1, <1>2 DEF IsCamera
<1>4. StandsFor(c.chan, k[2]) /\ StandsFor(e.chan, l[2])
  BY <1>3, KeyNamed
<1>5. k[2] = x /\ l[2] = x
  BY <1>4, ChannelsName
<1>6. k = l
  BY <1>5, KeysDiffer
<1>7. c.first = e.first
  <2>1. \A j \in Group(d, k) : j \in Nat
    BY GroupsFinite
  <2>2. /\ c.first \in Group(d, k) /\ e.first \in Group(d, k)
        /\ \A j \in Group(d, k) : c.first <= j /\ e.first <= j
    BY <1>1, <1>2, <1>6 DEF IsCamera
  <2> QED BY <2>1, <2>2
<1> QED BY <1>1, <1>2, <1>6, <1>7 DEF IsCamera

LEMMA KeysApart ==
  ASSUME NEW d \in DvDevices, NEW k \in Keys(d), NEW l \in Keys(d),
         channelId(d, Group(d, k)) = channelId(d, Group(d, l))
  PROVE  k = l
<1>1. k[2] = l[2]
  BY KeyNamed, ChannelsName
<1> QED BY <1>1, KeysDiffer

(* The rows of the streams of a group: as many as profiles, one for each, *)
(* one of them main, and that one is the largest.                          *)
StreamRow(i, s, nr) == [cam |-> i, token |-> s.token, role |-> s.role, run |-> nr]

HasStreams(d, k, of) ==
  /\ Cardinality(of) = Cardinality(Group(d, k))
  /\ \A j \in Group(d, k) : \E s \in of :
       /\ s.token = d[j].token
       /\ s.role = "main" => \A m \in Group(d, k) : d[m].area <= d[j].area
  /\ \E s \in of : s.role = "main"

LEMMA StreamsOfGroup ==
  ASSUME NEW d \in DvDevices, NEW k \in Keys(d), NEW i, NEW nr, NEW of,
         of = {StreamRow(i, s, nr) : s \in roleProfiles(d, Group(d, k))}
  PROVE  HasStreams(d, k, of)
<1> DEFINE g == Group(d, k)
           Rec(j) == [n |-> j, token |-> d[j].token, role |-> Role(Cardinality(Ahead(d, g, j)))]
           Row(j) == StreamRow(i, Rec(j), nr)
           f == [j \in g |-> Row(j)]
<1>1. /\ g # {} /\ IsFiniteSet(g)
      /\ \A j \in g : j \in Nat /\ j \in DOMAIN d /\ d[j].area \in Nat
  BY GroupsFinite
<1>2. \A j : Row(j).token = d[j].token /\ Row(j).role = Role(Cardinality(Ahead(d, g, j)))
  BY DEF StreamRow
<1>3. of = {Row(j) : j \in g}
  BY DEF roleProfiles
<1>4. \A j \in g : \A m \in g : d[j].token = d[m].token => j = m
  BY <1>1, ProfilesAssumption DEF ProfilesAssumption
<1> HIDE DEF g, Row
<1>5. f \in Bijection(g, of)
  <2>1. f \in [g -> of] /\ \A t \in of : \E j \in g : f[j] = t
    BY <1>3
  <2>2. \A j, m \in g : f[j] = f[m] => j = m
    BY <1>2, <1>4
  <2> HIDE DEF f
  <2> QED BY <2>1, <2>2 DEF Bijection, Injection, Surjection, IsInjective
<1>6. Cardinality(of) = Cardinality(g)
  BY <1>1, <1>5, FS_Bijection DEF ExistsBijection
<1>7. ASSUME NEW j \in g, Row(j).role = "main", NEW m \in g PROVE d[m].area <= d[j].area
  <2>1. Cardinality(Ahead(d, g, j)) = 0
    BY <1>2, <1>7 DEF Role
  <2>2. Ahead(d, g, j) \in SUBSET g
    BY DEF Ahead
  <2>3. Ahead(d, g, j) = {}
    BY <1>1, <2>1, <2>2, FS_Subset, FS_EmptySet
  <2>4. ~(d[m].area > d[j].area)
    BY <2>3 DEF Ahead
  <2> QED BY <1>1, <2>4
<1>8. \E j \in g : Row(j).role = "main"
  <2>1. PICK j \in g : Ahead(d, g, j) = {}
    BY MainOfGroup DEF g
  <2> QED BY <1>2, <2>1, FS_EmptySet DEF Role
<1>9. \A j \in g : \E s \in of : s.token = d[j].token /\ (s.role = "main" => \A m \in g : d[m].area <= d[j].area)
  BY <1>2, <1>3, <1>7
<1>10. \E s \in of : s.role = "main"
  BY <1>3, <1>8
<1> QED BY <1>6, <1>9, <1>10 DEF g, HasStreams

(* A complete sync that nothing disturbed: its cameras are in the tables,   *)
(* up to the one it is about.                                               *)
Complete(st) == st.pc # "idle" /\ st.alone /\ st.whole
StreamRows(i) == {s \in dvStreams : s.cam = i}
RowIs(i, c, nr) ==
  /\ i \in DOMAIN dvRows /\ dvRows[i] = [chan |-> c.chan, cred |-> dvCred, enabled |-> TRUE]
  /\ StreamRows(i) = {StreamRow(i, s, nr) : s \in c.streams}
Imports(st) == discover(dvReal, {}) \ (st.todo \cup {st.cur})

ImportTrue(st) ==
  /\ st.kind = "sync" /\ st.cred = dvCred /\ st.todo \subseteq discover(dvReal, {})
  /\ IF st.pc = "find" THEN st.cur = NoCamera ELSE st.cur \in discover(dvReal, {}) \ st.todo
  /\ \A c \in Imports(st) : \E i \in st.seen : RowIs(i, c, st.run)
  /\ \A i \in st.seen : \E c \in Imports(st) : RowIs(i, c, st.run)
  /\ st.pc \in {"update", "clear", "stream"} => st.cam \in DOMAIN dvRows \ st.seen
  /\ st.pc \in {"clear", "stream"}
       => dvRows[st.cam] = [chan |-> st.cur.chan, cred |-> dvCred, enabled |-> TRUE]
  /\ st.pc = "stream"
       => StreamRows(st.cam) = {StreamRow(st.cam, s, st.run) : s \in st.cur.streams \ st.left}

SyncsTrue ==
  /\ \A i, j \in DOMAIN dvRows : dvRows[i].chan = dvRows[j].chan => i = j
  /\ \A h \in DvHandlers : \A st : st = dvH[h] /\ Complete(st) =>
       (\A g \in DvHandlers \ {h} : dvH[g].pc = "idle") /\ ImportTrue(st)

(* After a step of request h only h can be complete.                        *)
LEMMA OnlyActor ==
  ASSUME ChannelInv, SyncsTrue, NEW h \in DvHandlers, NEW st \in DvReqs, DisturbSyncs(h, st),
         Complete(st) => Complete(dvH[h]) /\ ImportTrue(st)',
         \A i, j \in DOMAIN dvRows' : dvRows'[i].chan = dvRows'[j].chan => i = j
  PROVE  SyncsTrue'
<1>1. dvH' \in [DvHandlers -> DvReqs] /\ dvH'[h] = st
      /\ \A g \in DvHandlers \ {h} : Alike(dvH'[g], dvH[g]) /\ dvH'[g].alone = FALSE
  BY Disturbed DEF ChannelInv
<1>2. \A g \in DvHandlers \ {h} : ~Complete(dvH'[g]) /\ dvH'[g].pc = dvH[g].pc
  BY <1>1 DEF Complete, Alike
<1>3. \A i, j \in DOMAIN dvRows' : dvRows'[i].chan = dvRows'[j].chan => i = j
  OBVIOUS
<1>4. ASSUME NEW g \in DvHandlers, NEW rq, rq = dvH'[g], Complete(rq)
      PROVE  (\A q \in DvHandlers \ {g} : dvH'[q].pc = "idle") /\ ImportTrue(rq)'
  <2>1. g = h /\ rq = st
    BY <1>1, <1>2, <1>4
  <2>2. Complete(dvH[h]) /\ ImportTrue(st)'
    BY <1>4, <2>1
  <2>3. \A q \in DvHandlers \ {h} : dvH[q].pc = "idle"
    BY <2>2 DEF SyncsTrue
  <2> QED BY <1>2, <2>1, <2>2, <2>3
<1> QED BY <1>3, <1>4 DEF SyncsTrue

(* A step that leaves a row and its streams alone leaves it what it is.     *)
LEMMA RowStays ==
  ASSUME NEW i, NEW c, NEW nr, RowIs(i, c, nr),
         i \in DOMAIN dvRows', dvRows'[i] = dvRows[i], dvCred' = dvCred, StreamRows(i)' = StreamRows(i)
  PROVE  RowIs(i, c, nr)'
BY DEF RowIs

LEMMA CompleteIs ==
  ASSUME ChannelInv, SyncsTrue, NEW h \in DvHandlers, NEW rq, rq = dvH[h]
  PROVE  /\ rq \in DvReqs /\ ReqTrue(rq, dvNext) /\ (Complete(rq) => ImportTrue(rq))
         /\ dvReal \in DvDevices /\ NoCamera \notin discover(dvReal, {}) /\ discover(dvReal, {}) \subseteq Offered
         /\ \A i, j \in DOMAIN dvRows : dvRows[i].chan = dvRows[j].chan => i = j
         /\ dvNext \in Nat /\ DOMAIN dvRows \subseteq 1..(dvNext - 1) /\ dvNext \notin DOMAIN dvRows
         /\ \A s \in dvStreams : s.cam \in DOMAIN dvRows
<1>1. /\ rq \in DvReqs /\ ReqTrue(rq, dvNext) /\ dvReal \in DvDevices
      /\ dvNext \in Nat /\ DOMAIN dvRows \subseteq 1..(dvNext - 1) /\ \A s \in dvStreams : s.cam \in DOMAIN dvRows
  BY DEF ChannelInv, DevicesTypes
<1>2. NoCamera \notin discover(dvReal, {})
  BY <1>1, OfferedNamed
<1>3. discover(dvReal, {}) \subseteq Offered
  BY <1>1, DiscoverOffered
<1>4. dvNext \notin DOMAIN dvRows
  BY <1>1
<1>5. /\ Complete(rq) => ImportTrue(rq)
      /\ \A i, j \in DOMAIN dvRows : dvRows[i].chan = dvRows[j].chan => i = j
  BY DEF SyncsTrue
<1> QED BY <1>1, <1>2, <1>3, <1>4, <1>5

(* The camera looked for is none of those imported: another row is its row. *)
LEMMA NotYetImported ==
  ASSUME ChannelInv, NEW st, st.pc = "find", ImportTrue(st), NEW c \in st.todo, NEW i \in MatchRow(c),
         dvReal \in DvDevices, NoCamera \notin discover(dvReal, {}), discover(dvReal, {}) \subseteq Offered,
         i \in Nat
  PROVE  i \notin st.seen
<1> SUFFICES ASSUME i \in st.seen PROVE FALSE
  OBVIOUS
<1>1. PICK e \in Imports(st) : RowIs(i, e, st.run)
  BY DEF ImportTrue
<1>2. c \in discover(dvReal, {}) /\ e \in discover(dvReal, {}) /\ e # c
  BY <1>1 DEF ImportTrue, Imports
<1>3. PICK x : RowIsOf(i, x)
  BY DEF ChannelInv
<1>4. StandsFor(c.chan, x)
  BY <1>2, <1>3, SameChannel DEF IsOf
<1>5. PICK y : StandsFor(e.chan, y)
  BY <1>2, OfferedNamed DEF IsOf
<1>6. e.chan # NoChannel
  BY <1>5, ChannelsName
<1>7. i \in DOMAIN dvRows /\ dvRows[i].chan = e.chan
  BY <1>1 DEF RowIs
<1>8. StandsFor(e.chan, x)
  BY <1>3, <1>6, <1>7 DEF RowIsOf
<1> QED BY <1>2, <1>4, <1>8, CamerasApart

LEMMA FoundTrue ==
  ASSUME NEW rq, NEW st, NEW camera \in rq.todo, rq.pc = "find", ImportTrue(rq), NoCamera \notin discover(dvReal, {}),
         st.todo = rq.todo \ {camera}, st.cur = camera, st.pc \in {"update", "create"},
         st.pc = "update" => st.cam \in DOMAIN dvRows \ rq.seen,
         st.kind = rq.kind, st.cred = rq.cred, st.seen = rq.seen, st.run = rq.run,
         dvReal' = dvReal, dvCred' = dvCred, dvRows' = dvRows, dvStreams' = dvStreams
  PROVE  ImportTrue(st)'
<1>1. Imports(st) = Imports(rq)
  BY DEF Imports, ImportTrue
<1>2. /\ st.kind = "sync" /\ st.cred = dvCred /\ st.todo \subseteq discover(dvReal, {})
      /\ st.cur \in discover(dvReal, {}) \ st.todo /\ st.pc # "find" /\ st.pc \notin {"clear", "stream"}
  BY DEF ImportTrue
<1>3. /\ \A c \in Imports(st) : \E i \in st.seen : RowIs(i, c, st.run)
      /\ \A i \in st.seen : \E c \in Imports(st) : RowIs(i, c, st.run)
  BY <1>1 DEF ImportTrue
<1>5. \A i, c, nr : RowIs(i, c, nr)' <=> RowIs(i, c, nr)
  BY DEF RowIs, StreamRows
<1>6. Imports(st)' = Imports(st)
  BY DEF Imports
<1>7. (/\ \A c \in Imports(st) : \E i \in st.seen : RowIs(i, c, st.run)
       /\ \A i \in st.seen : \E c \in Imports(st) : RowIs(i, c, st.run))'
  BY <1>3, <1>5, <1>6
<1> QED BY <1>2, <1>7 DEF ImportTrue

(* A request that goes on with the row it has found, or without one.        *)
SameSync(a, b) ==
  /\ a.todo = b.todo /\ a.cur = b.cur /\ a.alone = b.alone /\ a.whole = b.whole /\ a.kind = b.kind
  /\ a.cred = b.cred /\ a.seen = b.seen /\ a.run = b.run

LEMMA SyncFinds ==
  ASSUME ChannelInv, SyncsTrue, NEW h \in DvHandlers, FindRow(h)
  PROVE  SyncsTrue'
<1> PICK rq : rq = dvH[h]
  OBVIOUS
<1>1. /\ rq \in DvReqs /\ ReqTrue(rq, dvNext) /\ (Complete(rq) => ImportTrue(rq))
      /\ dvReal \in DvDevices /\ NoCamera \notin discover(dvReal, {}) /\ discover(dvReal, {}) \subseteq Offered
      /\ \A i, j \in DOMAIN dvRows : dvRows[i].chan = dvRows[j].chan => i = j
      /\ dvNext \in Nat /\ DOMAIN dvRows \subseteq 1..(dvNext - 1)
  BY CompleteIs
<1>2. PICK camera \in rq.todo :
        LET found == [rq EXCEPT !.todo = @ \ {camera}, !.cur = camera] IN
        \/ \E i \in MatchRow(camera) : DisturbSyncs(h, [found EXCEPT !.pc = "update", !.cam = i])
        \/ MatchRow(camera) = {} /\ DisturbSyncs(h, [found EXCEPT !.pc = "create"])
  BY DEF FindRow
<1>3. rq.pc = "find" /\ camera \in Offered
  BY <1>1 DEF FindRow, DvReqs
<1>4. dvReal' = dvReal /\ dvCred' = dvCred /\ dvRows' = dvRows /\ dvStreams' = dvStreams
  BY DEF FindRow
<1>5. \A i \in MatchRow(camera) : i \in DOMAIN dvRows /\ i \in Nat
  BY <1>1 DEF MatchRow, ByChannel, ByToken
<1>f. PICK found : found = [rq EXCEPT !.todo = @ \ {camera}, !.cur = camera]
  OBVIOUS
<1>6. /\ found \in DvReqs /\ found.cur = camera /\ found.todo = rq.todo \ {camera}
      /\ found.alone = rq.alone /\ found.whole = rq.whole /\ found.kind = rq.kind /\ found.cred = rq.cred
      /\ found.seen = rq.seen /\ found.run = rq.run
  BY <1>f, <1>1, <1>3 DEF DvReqs
<1>7. ASSUME NEW st \in DvReqs, DisturbSyncs(h, st), SameSync(st, found),
             st.pc = "create" \/ (st.pc = "update" /\ st.cam \in MatchRow(camera))
      PROVE  SyncsTrue'
  <2>f. /\ st.todo = found.todo /\ st.cur = camera /\ st.alone = found.alone /\ st.whole = found.whole
        /\ st.kind = found.kind /\ st.cred = found.cred /\ st.seen = found.seen /\ st.run = found.run
    BY <1>6, <1>7 DEF SameSync
  <2>1. ASSUME Complete(st) PROVE Complete(dvH[h]) /\ ImportTrue(st)'
    <3>1. Complete(rq) /\ ImportTrue(rq)
      BY <1>1, <1>3, <1>6, <1>7, <2>f, <2>1 DEF Complete
    <3>2. st.pc = "update" => st.cam \in DOMAIN dvRows \ rq.seen
      BY <1>1, <1>3, <1>5, <1>7, <2>f, <3>1, NotYetImported
    <3>3. ImportTrue(st)'
      BY <1>1, <1>3, <1>4, <1>6, <1>7, <2>f, <3>1, <3>2, FoundTrue
    <3> QED BY <3>1, <3>3
  <2> QED BY <1>1, <1>4, <1>7, <2>1, OnlyActor
<1>8. CASE DisturbSyncs(h, [found EXCEPT !.pc = "create"])
  <2>1. PICK st : st = [found EXCEPT !.pc = "create"]
    OBVIOUS
  <2>2. st \in DvReqs /\ st.pc = "create" /\ SameSync(st, found)
    BY <1>6, <2>1 DEF DvReqs, SameSync
  <2> QED BY <1>7, <1>8, <2>1, <2>2
<1>9. ASSUME NEW i \in MatchRow(camera), DisturbSyncs(h, [found EXCEPT !.pc = "update", !.cam = i])
      PROVE  SyncsTrue'
  <2>1. PICK st : st = [found EXCEPT !.pc = "update", !.cam = i]
    OBVIOUS
  <2>2. st \in DvReqs /\ st.pc = "update" /\ st.cam = i /\ SameSync(st, found)
    <3>1. i \in Nat /\ found \in DvReqs
      BY <1>5, <1>6
    <3> QED BY <2>1, <3>1 DEF DvReqs, SameSync
  <2> QED BY <1>7, <1>9, <2>1, <2>2
<1> QED BY <1>f, <1>2, <1>8, <1>9

LEMMA SyncUpdates ==
  ASSUME ChannelInv, SyncsTrue, NEW h \in DvHandlers, UpdateRow(h)
  PROVE  SyncsTrue'
<1> PICK rq : rq = dvH[h]
  OBVIOUS
<1> PICK st : st = [rq EXCEPT !.pc = "clear"]
  OBVIOUS
<1> PICK made : made = [chan |-> rq.cur.chan, cred |-> rq.cred, enabled |-> TRUE]
  OBVIOUS
<1>1. /\ rq \in DvReqs /\ (Complete(rq) => ImportTrue(rq))
      /\ \A i, j \in DOMAIN dvRows : dvRows[i].chan = dvRows[j].chan => i = j
  BY CompleteIs
<1>2. /\ DisturbSyncs(h, st) /\ rq.pc = "update" /\ ByChannel(rq.cur.chan) \subseteq {rq.cam}
      /\ dvRows' = [i \in DOMAIN dvRows |-> IF i # rq.cam THEN dvRows[i] ELSE made]
      /\ dvReal' = dvReal /\ dvCred' = dvCred /\ dvStreams' = dvStreams
  BY DEF UpdateRow
<1>3. /\ st \in DvReqs /\ st.pc = "clear" /\ st.todo = rq.todo /\ st.cur = rq.cur /\ st.cam = rq.cam
      /\ st.alone = rq.alone /\ st.whole = rq.whole /\ st.kind = rq.kind /\ st.cred = rq.cred
      /\ st.seen = rq.seen /\ st.run = rq.run
  BY <1>1 DEF DvReqs
<1>4. /\ DOMAIN dvRows' = DOMAIN dvRows /\ \A i \in DOMAIN dvRows : i # rq.cam => dvRows'[i] = dvRows[i]
      /\ rq.cam \in DOMAIN dvRows => dvRows'[rq.cam] = made
  BY <1>2
<1>5. \A i, j \in DOMAIN dvRows' : dvRows'[i].chan = dvRows'[j].chan => i = j
  <2>1. made.chan = rq.cur.chan
    OBVIOUS
  <2>2. \A i \in DOMAIN dvRows : dvRows[i].chan = rq.cur.chan => i = rq.cam
    BY <1>2 DEF ByChannel
  <2> QED BY <1>1, <1>4, <2>1, <2>2
<1>6. ASSUME Complete(st) PROVE Complete(dvH[h]) /\ ImportTrue(st)'
  <2>1. Complete(rq) /\ ImportTrue(rq)
    BY <1>1, <1>2, <1>3, <1>6 DEF Complete
  <2>2. Imports(st)' = Imports(rq)
    BY <1>2, <1>3 DEF Imports
  <2>3. rq.cam \in DOMAIN dvRows \ rq.seen
    BY <1>2, <2>1 DEF ImportTrue
  <2>4. ASSUME NEW i \in rq.seen, NEW c, RowIs(i, c, rq.run) PROVE RowIs(i, c, rq.run)'
    <3>1. i \in DOMAIN dvRows' /\ dvRows'[i] = dvRows[i]
      BY <1>4, <2>3, <2>4 DEF RowIs
    <3>2. StreamRows(i)' = StreamRows(i)
      BY <1>2 DEF StreamRows
    <3> QED BY <1>2, <2>4, <3>1, <3>2, RowStays
  <2>5. /\ \A c \in Imports(rq) : \E i \in rq.seen : RowIs(i, c, rq.run)'
        /\ \A i \in rq.seen : \E c \in Imports(rq) : RowIs(i, c, rq.run)'
    BY <2>1, <2>4 DEF ImportTrue
  <2>6. (/\ \A c \in Imports(st) : \E i \in st.seen : RowIs(i, c, st.run)
         /\ \A i \in st.seen : \E c \in Imports(st) : RowIs(i, c, st.run))'
    BY <1>3, <2>2, <2>5
  <2>7. /\ st.kind = "sync" /\ st.cred = dvCred' /\ st.todo \subseteq discover(dvReal', {})
        /\ st.cur \in discover(dvReal', {}) \ st.todo /\ st.cam \in DOMAIN dvRows' \ st.seen
    BY <1>2, <1>3, <1>4, <2>1, <2>3 DEF ImportTrue
  <2>8. dvRows'[st.cam] = [chan |-> st.cur.chan, cred |-> dvCred', enabled |-> TRUE]
    BY <1>2, <1>3, <1>4, <2>1, <2>3 DEF ImportTrue
  <2>9. ImportTrue(st)'
    BY <1>3, <2>6, <2>7, <2>8 DEF ImportTrue
  <2> QED BY <2>1, <2>9
<1> QED BY <1>2, <1>3, <1>5, <1>6, OnlyActor

LEMMA SyncClears ==
  ASSUME ChannelInv, SyncsTrue, NEW h \in DvHandlers, deleteCameraStreams(h)
  PROVE  SyncsTrue'
<1> PICK rq : rq = dvH[h]
  OBVIOUS
<1> PICK st : st = [rq EXCEPT !.pc = "stream", !.left = rq.cur.streams]
  OBVIOUS
<1>1. /\ rq \in DvReqs /\ ReqTrue(rq, dvNext) /\ (Complete(rq) => ImportTrue(rq))
      /\ \A i, j \in DOMAIN dvRows : dvRows[i].chan = dvRows[j].chan => i = j
  BY CompleteIs
<1>2. /\ DisturbSyncs(h, st) /\ rq.pc = "clear" /\ dvStreams' = {s \in dvStreams : s.cam # rq.cam}
      /\ dvReal' = dvReal /\ dvCred' = dvCred /\ dvRows' = dvRows
  BY DEF deleteCameraStreams
<1>3. /\ st \in DvReqs /\ st.pc = "stream" /\ st.todo = rq.todo /\ st.cur = rq.cur /\ st.cam = rq.cam
      /\ st.alone = rq.alone /\ st.whole = rq.whole /\ st.kind = rq.kind /\ st.cred = rq.cred
      /\ st.seen = rq.seen /\ st.run = rq.run /\ st.left = rq.cur.streams
  <2>1. rq.cur.streams \subseteq OfferedStreams
    BY <1>1, <1>2 DEF ReqTrue, OfferedStreams
  <2> QED BY <1>1, <2>1 DEF DvReqs
<1>6. ASSUME Complete(st) PROVE Complete(dvH[h]) /\ ImportTrue(st)'
  <2>1. Complete(rq) /\ ImportTrue(rq)
    BY <1>1, <1>2, <1>3, <1>6 DEF Complete
  <2>2. Imports(st)' = Imports(rq)
    BY <1>2, <1>3 DEF Imports
  <2>3. rq.cam \in DOMAIN dvRows \ rq.seen
    BY <1>2, <2>1 DEF ImportTrue
  <2>4. ASSUME NEW i \in rq.seen, NEW c, RowIs(i, c, rq.run) PROVE RowIs(i, c, rq.run)'
    <3>1. StreamRows(i)' = StreamRows(i)
      BY <1>2, <2>3 DEF StreamRows
    <3> QED BY <1>2, <2>4, <3>1, RowStays DEF RowIs
  <2>5. /\ \A c \in Imports(rq) : \E i \in rq.seen : RowIs(i, c, rq.run)'
        /\ \A i \in rq.seen : \E c \in Imports(rq) : RowIs(i, c, rq.run)'
    BY <2>1, <2>4 DEF ImportTrue
  <2>6. (/\ \A c \in Imports(st) : \E i \in st.seen : RowIs(i, c, st.run)
         /\ \A i \in st.seen : \E c \in Imports(st) : RowIs(i, c, st.run))'
    BY <1>3, <2>2, <2>5
  <2>7. /\ st.kind = "sync" /\ st.cred = dvCred' /\ st.todo \subseteq discover(dvReal', {})
        /\ st.cur \in discover(dvReal', {}) \ st.todo /\ st.cam \in DOMAIN dvRows' \ st.seen
        /\ dvRows'[st.cam] = [chan |-> st.cur.chan, cred |-> dvCred', enabled |-> TRUE]
    BY <1>2, <1>3, <2>1, <2>3 DEF ImportTrue
  <2>8. StreamRows(st.cam)' = {StreamRow(st.cam, s, st.run) : s \in st.cur.streams \ st.left}
    BY <1>2, <1>3 DEF StreamRows
  <2>9. ImportTrue(st)'
    BY <1>3, <2>6, <2>7, <2>8 DEF ImportTrue
  <2> QED BY <2>1, <2>9
<1> QED BY <1>1, <1>2, <1>3, <1>6, OnlyActor

LEMMA SyncCreates ==
  ASSUME ChannelInv, SyncsTrue, NEW h \in DvHandlers, createCamera(h)
  PROVE  SyncsTrue'
<1> PICK rq : rq = dvH[h]
  OBVIOUS
<1> PICK n : n = dvNext
  OBVIOUS
<1> PICK st : st = [rq EXCEPT !.pc = "stream", !.cam = n, !.left = rq.cur.streams]
  OBVIOUS
<1> PICK made : made = [chan |-> rq.cur.chan, cred |-> rq.cred, enabled |-> TRUE]
  OBVIOUS
<1>1. /\ rq \in DvReqs /\ ReqTrue(rq, dvNext) /\ (Complete(rq) => ImportTrue(rq))
      /\ \A i, j \in DOMAIN dvRows : dvRows[i].chan = dvRows[j].chan => i = j
      /\ n \in Nat /\ n \notin DOMAIN dvRows /\ \A s \in dvStreams : s.cam \in DOMAIN dvRows
  BY CompleteIs
<1>2. /\ DisturbSyncs(h, st) /\ rq.pc = "create" /\ ByChannel(rq.cur.chan) = {}
      /\ dvRows' = With(dvRows, n, made)
      /\ dvReal' = dvReal /\ dvCred' = dvCred /\ dvStreams' = dvStreams
  BY DEF createCamera
<1>3. /\ st \in DvReqs /\ st.pc = "stream" /\ st.todo = rq.todo /\ st.cur = rq.cur /\ st.cam = n
      /\ st.alone = rq.alone /\ st.whole = rq.whole /\ st.kind = rq.kind /\ st.cred = rq.cred
      /\ st.seen = rq.seen /\ st.run = rq.run /\ st.left = rq.cur.streams
  <2>1. rq.cur.streams \subseteq OfferedStreams
    BY <1>1, <1>2 DEF ReqTrue, OfferedStreams
  <2> QED BY <1>1, <2>1 DEF DvReqs
<1>4. /\ DOMAIN dvRows' = DOMAIN dvRows \cup {n} /\ \A i \in DOMAIN dvRows : dvRows'[i] = dvRows[i]
      /\ dvRows'[n] = made
  BY <1>1, <1>2 DEF With
<1>5. \A i, j \in DOMAIN dvRows' : dvRows'[i].chan = dvRows'[j].chan => i = j
  <2>1. made.chan = rq.cur.chan
    OBVIOUS
  <2>2. \A i \in DOMAIN dvRows : dvRows[i].chan # rq.cur.chan
    BY <1>2 DEF ByChannel
  <2> QED BY <1>1, <1>4, <2>1, <2>2
<1>6. ASSUME Complete(st) PROVE Complete(dvH[h]) /\ ImportTrue(st)'
  <2>1. Complete(rq) /\ ImportTrue(rq)
    BY <1>1, <1>2, <1>3, <1>6 DEF Complete
  <2>2. Imports(st)' = Imports(rq)
    BY <1>2, <1>3 DEF Imports
  <2>3. n \in DOMAIN dvRows' \ rq.seen
    <3>1. \A i \in rq.seen : i \in DOMAIN dvRows
      BY <2>1 DEF ImportTrue, RowIs
    <3> QED BY <1>1, <1>4, <3>1
  <2>4. ASSUME NEW i \in rq.seen, NEW c, RowIs(i, c, rq.run) PROVE RowIs(i, c, rq.run)'
    <3>1. i \in DOMAIN dvRows' /\ dvRows'[i] = dvRows[i]
      BY <1>4, <2>4 DEF RowIs
    <3>2. StreamRows(i)' = StreamRows(i)
      BY <1>2 DEF StreamRows
    <3> QED BY <1>2, <2>4, <3>1, <3>2, RowStays
  <2>5. /\ \A c \in Imports(rq) : \E i \in rq.seen : RowIs(i, c, rq.run)'
        /\ \A i \in rq.seen : \E c \in Imports(rq) : RowIs(i, c, rq.run)'
    BY <2>1, <2>4 DEF ImportTrue
  <2>6. (/\ \A c \in Imports(st) : \E i \in st.seen : RowIs(i, c, st.run)
         /\ \A i \in st.seen : \E c \in Imports(st) : RowIs(i, c, st.run))'
    BY <1>3, <2>2, <2>5
  <2>7. /\ st.kind = "sync" /\ st.cred = dvCred' /\ st.todo \subseteq discover(dvReal', {})
        /\ st.cur \in discover(dvReal', {}) \ st.todo /\ st.cam \in DOMAIN dvRows' \ st.seen
    BY <1>2, <1>3, <2>1, <2>3 DEF ImportTrue
  <2>8. dvRows'[st.cam] = [chan |-> st.cur.chan, cred |-> dvCred', enabled |-> TRUE]
    BY <1>2, <1>3, <1>4, <2>1 DEF ImportTrue
  <2>9. StreamRows(st.cam)' = {StreamRow(st.cam, s, st.run) : s \in st.cur.streams \ st.left}
    BY <1>1, <1>2, <1>3 DEF StreamRows
  <2>10. ImportTrue(st)'
    BY <1>3, <2>6, <2>7, <2>8, <2>9 DEF ImportTrue
  <2> QED BY <2>1, <2>10
<1> QED BY <1>2, <1>3, <1>5, <1>6, OnlyActor

LEMMA SyncStores ==
  ASSUME ChannelInv, SyncsTrue, NEW h \in DvHandlers, createCameraStream(h)
  PROVE  SyncsTrue'
<1> PICK rq : rq = dvH[h]
  OBVIOUS
<1>1. /\ rq \in DvReqs /\ ReqTrue(rq, dvNext) /\ (Complete(rq) => ImportTrue(rq))
      /\ \A i, j \in DOMAIN dvRows : dvRows[i].chan = dvRows[j].chan => i = j
  BY CompleteIs
<1>2. PICK s \in rq.left :
        /\ dvStreams' = dvStreams \cup {[cam |-> rq.cam, token |-> s.token, role |-> s.role, run |-> rq.run]}
        /\ DisturbSyncs(h, [rq EXCEPT !.left = @ \ {s}])
  BY DEF createCameraStream
<1> PICK st : st = [rq EXCEPT !.left = @ \ {s}]
  OBVIOUS
<1>3. /\ rq.pc = "stream" /\ dvReal' = dvReal /\ dvCred' = dvCred /\ dvRows' = dvRows
      /\ dvStreams' = dvStreams \cup {StreamRow(rq.cam, s, rq.run)} /\ DisturbSyncs(h, st)
  BY <1>2 DEF createCameraStream, StreamRow
<1>4. /\ st \in DvReqs /\ st.pc = rq.pc /\ st.todo = rq.todo /\ st.cur = rq.cur /\ st.cam = rq.cam
      /\ st.alone = rq.alone /\ st.whole = rq.whole /\ st.kind = rq.kind /\ st.cred = rq.cred
      /\ st.seen = rq.seen /\ st.run = rq.run /\ st.left = rq.left \ {s}
  BY <1>1 DEF DvReqs
<1>5. \A i : StreamRows(i)' = IF i = rq.cam THEN StreamRows(i) \cup {StreamRow(rq.cam, s, rq.run)} ELSE StreamRows(i)
  BY <1>3 DEF StreamRows, StreamRow
<1>6. ASSUME Complete(st) PROVE Complete(dvH[h]) /\ ImportTrue(st)'
  <2>1. Complete(rq) /\ ImportTrue(rq)
    BY <1>1, <1>3, <1>4, <1>6 DEF Complete
  <2>2. Imports(st)' = Imports(rq)
    BY <1>3, <1>4 DEF Imports
  <2>3. rq.cam \in DOMAIN dvRows \ rq.seen
    BY <1>3, <2>1 DEF ImportTrue
  <2>4. ASSUME NEW i \in rq.seen, NEW c, RowIs(i, c, rq.run) PROVE RowIs(i, c, rq.run)'
    <3>1. StreamRows(i)' = StreamRows(i)
      BY <1>5, <2>3
    <3> QED BY <1>3, <2>4, <3>1, RowStays DEF RowIs
  <2>5. /\ \A c \in Imports(rq) : \E i \in rq.seen : RowIs(i, c, rq.run)'
        /\ \A i \in rq.seen : \E c \in Imports(rq) : RowIs(i, c, rq.run)'
    BY <2>1, <2>4 DEF ImportTrue
  <2>6. (/\ \A c \in Imports(st) : \E i \in st.seen : RowIs(i, c, st.run)
         /\ \A i \in st.seen : \E c \in Imports(st) : RowIs(i, c, st.run))'
    BY <1>4, <2>2, <2>5
  <2>7. /\ st.kind = "sync" /\ st.cred = dvCred' /\ st.todo \subseteq discover(dvReal', {})
        /\ st.cur \in discover(dvReal', {}) \ st.todo /\ st.cam \in DOMAIN dvRows' \ st.seen
        /\ dvRows'[st.cam] = [chan |-> st.cur.chan, cred |-> dvCred', enabled |-> TRUE]
    BY <1>3, <1>4, <2>1, <2>3 DEF ImportTrue
  <2>8. StreamRows(st.cam)' = {StreamRow(st.cam, t, st.run) : t \in st.cur.streams \ st.left}
    <3>1. StreamRows(rq.cam) = {StreamRow(rq.cam, t, rq.run) : t \in rq.cur.streams \ rq.left}
      BY <1>3, <2>1 DEF ImportTrue
    <3>2. rq.cur.streams \ st.left = (rq.cur.streams \ rq.left) \cup {s}
      BY <1>1, <1>3, <1>4 DEF ReqTrue
    <3>3. StreamRows(rq.cam)' = StreamRows(rq.cam) \cup {StreamRow(rq.cam, s, rq.run)}
      BY <1>5
    <3>4. StreamRows(st.cam)' = StreamRows(rq.cam)'
      BY <1>4 DEF StreamRows
    <3> QED BY <1>4, <3>1, <3>2, <3>3, <3>4
  <2>9. ImportTrue(st)'
    BY <1>3, <1>4, <2>6, <2>7, <2>8 DEF ImportTrue
  <2> QED BY <2>1, <2>9
<1> QED BY <1>1, <1>3, <1>4, <1>6, OnlyActor

LEMMA SyncImports ==
  ASSUME ChannelInv, SyncsTrue, NEW h \in DvHandlers, Imported(h)
  PROVE  SyncsTrue'
<1> PICK rq : rq = dvH[h]
  OBVIOUS
<1> PICK st : st = [rq EXCEPT !.pc = "find", !.cur = NoCamera, !.seen = @ \cup {rq.cam}, !.cam = 0]
  OBVIOUS
<1>1. /\ rq \in DvReqs /\ (Complete(rq) => ImportTrue(rq)) /\ NoCamera \notin discover(dvReal, {})
      /\ \A i, j \in DOMAIN dvRows : dvRows[i].chan = dvRows[j].chan => i = j
  BY CompleteIs
<1>2. /\ DisturbSyncs(h, st) /\ rq.pc = "stream" /\ rq.left = {} /\ dvStreams' = dvStreams
      /\ dvReal' = dvReal /\ dvCred' = dvCred /\ dvRows' = dvRows
  BY DEF Imported
<1>3. /\ st \in DvReqs /\ st.pc = "find" /\ st.todo = rq.todo /\ st.cur = NoCamera
      /\ st.alone = rq.alone /\ st.whole = rq.whole /\ st.kind = rq.kind /\ st.cred = rq.cred
      /\ st.seen = rq.seen \cup {rq.cam} /\ st.run = rq.run
  BY <1>1 DEF DvReqs
<1>6. ASSUME Complete(st) PROVE Complete(dvH[h]) /\ ImportTrue(st)'
  <2>1. Complete(rq) /\ ImportTrue(rq)
    BY <1>1, <1>2, <1>3, <1>6 DEF Complete
  <2>2. Imports(st)' = Imports(rq) \cup {rq.cur}
    <3>1. rq.cur \in discover(dvReal, {}) \ rq.todo
      BY <1>2, <2>1 DEF ImportTrue
    <3> QED BY <1>1, <1>2, <1>3, <3>1 DEF Imports
  <2>3. RowIs(rq.cam, rq.cur, rq.run)
    BY <1>2, <2>1 DEF ImportTrue, RowIs
  <2>4. \A i, c, nr : RowIs(i, c, nr)' <=> RowIs(i, c, nr)
    BY <1>2 DEF RowIs, StreamRows
  <2>5. /\ \A c \in Imports(rq) : \E i \in rq.seen : RowIs(i, c, rq.run)
        /\ \A i \in rq.seen : \E c \in Imports(rq) : RowIs(i, c, rq.run)
    BY <2>1 DEF ImportTrue
  <2>6. (/\ \A c \in Imports(st) : \E i \in st.seen : RowIs(i, c, st.run)
         /\ \A i \in st.seen : \E c \in Imports(st) : RowIs(i, c, st.run))'
    BY <1>3, <2>2, <2>3, <2>4, <2>5
  <2>7. st.kind = "sync" /\ st.cred = dvCred' /\ st.todo \subseteq discover(dvReal', {})
    BY <1>2, <1>3, <2>1 DEF ImportTrue
  <2>8. ImportTrue(st)'
    BY <1>3, <2>6, <2>7 DEF ImportTrue
  <2> QED BY <2>1, <2>8
<1> QED BY <1>1, <1>2, <1>3, <1>6, OnlyActor

LEMMA SyncsStart ==
  ASSUME ChannelInv, SyncsTrue, NEW h \in DvHandlers, NEW skipped \in {{}, Tokens(dvReal)}, SyncBegin(h, skipped)
  PROVE  SyncsTrue'
<1> PICK alone \in BOOLEAN : alone = (\A g \in DvHandlers \ {h} : dvH[g].pc = "idle")
  OBVIOUS
<1> PICK whole \in BOOLEAN : whole = (skipped = {})
  OBVIOUS
<1> PICK found : found = discover(dvReal, skipped)
  OBVIOUS
<1> PICK nr, cred : nr = dvRuns' /\ cred = dvCred
  OBVIOUS
<1>a. PICK st : st = [DvIdle EXCEPT !.pc = "find", !.kind = "sync", !.run = nr, !.cred = cred,
                                  !.todo = found, !.whole = whole, !.alone = alone]
  OBVIOUS
<1>1. /\ dvReal \in DvDevices /\ dvCred \in Nat /\ dvRuns \in Nat /\ DevicesTypes
      /\ NoCamera \notin discover(dvReal, {})
      /\ \A i, j \in DOMAIN dvRows : dvRows[i].chan = dvRows[j].chan => i = j
  BY CompleteIs DEF ChannelInv, DevicesTypes
<1>2. /\ DisturbSyncs(h, st) /\ dvRuns' = dvRuns + 1 /\ dvStreams' = dvStreams
      /\ dvReal' = dvReal /\ dvCred' = dvCred /\ dvRows' = dvRows
  BY <1>a DEF SyncBegin
<1>3. found \subseteq Offered /\ nr \in Nat /\ cred \in Nat /\ DvIdle \in DvReqs
  <2>1. DvIdle \in DvReqs
    BY DEF DvIdle, DvReqs
  <2>2. found \subseteq Offered
    BY <1>1, DiscoverOffered
  <2> QED BY <1>1, <1>2, <2>1, <2>2
<1>4. /\ st \in DvReqs /\ st.pc = "find" /\ st.todo = found /\ st.cur = NoCamera /\ st.seen = {}
      /\ st.whole = whole /\ st.alone = alone /\ st.kind = "sync" /\ st.cred = cred
  <2>1. st = [pc |-> "find", kind |-> "sync", run |-> nr, cred |-> cred, todo |-> found, cur |-> NoCamera,
              cam |-> 0, left |-> {}, seen |-> {}, whole |-> whole, alone |-> alone]
    BY <1>a, Zenon DEF DvIdle
  <2>2. found \in SUBSET Offered /\ nr \in Nat /\ cred \in Nat
    BY <1>3
  <2>3. st \in DvReqs
    BY <2>1, <2>2 DEF DvReqs
  <2> QED BY <2>1, <2>3
<1>5. st.cur = NoCamera /\ st.seen = {}
  BY <1>4
<1>6. dvH' \in [DvHandlers -> DvReqs] /\ dvH'[h] = st
      /\ \A g \in DvHandlers \ {h} : Alike(dvH'[g], dvH[g]) /\ dvH'[g].alone = FALSE
  BY <1>1, <1>2, <1>4, Disturbed
<1>7. \A g \in DvHandlers \ {h} : ~Complete(dvH'[g]) /\ dvH'[g].pc = dvH[g].pc
  BY <1>6 DEF Complete, Alike
<1>8. ASSUME Complete(st) PROVE (\A g \in DvHandlers \ {h} : dvH'[g].pc = "idle") /\ ImportTrue(st)'
  <2>1. skipped = {} /\ alone
    BY <1>4, <1>8 DEF Complete
  <2>2. Imports(st)' = {}
    BY <1>2, <1>4, <2>1 DEF Imports
  <2>3. ImportTrue(st)'
    BY <1>2, <1>4, <1>5, <2>1, <2>2 DEF ImportTrue
  <2> QED BY <1>7, <2>1, <2>3
<1>9. ASSUME NEW g \in DvHandlers, NEW rq, rq = dvH'[g], Complete(rq)
      PROVE  (\A q \in DvHandlers \ {g} : dvH'[q].pc = "idle") /\ ImportTrue(rq)'
  <2>1. g = h /\ rq = st
    BY <1>6, <1>7, <1>9
  <2> QED BY <1>8, <1>9, <2>1
<1> QED BY <1>1, <1>2, <1>9 DEF SyncsTrue

LEMMA NobodyComplete ==
  ASSUME ChannelInv, SyncsTrue, \A g \in DvHandlers : ~Complete(dvH'[g]),
         DOMAIN dvRows' \subseteq DOMAIN dvRows, \A i \in DOMAIN dvRows' : dvRows'[i].chan = dvRows[i].chan
  PROVE  SyncsTrue'
BY DEF SyncsTrue

LEMMA OthersNotComplete ==
  ASSUME ChannelInv, NEW h \in DvHandlers, NEW st \in DvReqs, DisturbSyncs(h, st), ~Complete(st)
  PROVE  \A g \in DvHandlers : ~Complete(dvH'[g])
<1>1. dvH'[h] = st /\ \A g \in DvHandlers \ {h} : dvH'[g].alone = FALSE
  BY Disturbed DEF ChannelInv
<1> QED BY <1>1 DEF Complete

LEMMA SyncsEndOrStop ==
  ASSUME ChannelInv, SyncsTrue, NEW h \in DvHandlers,
         ImportStops(h) \/ SyncEnd(h) \/ \E d \in dvPast : DiscoverAdd(h, d, 2)
  PROVE  SyncsTrue'
<1>1. DvIdle \in DvReqs /\ ~Complete(DvIdle) /\ DvIdle.alone = FALSE
  BY DEF DvIdle, DvReqs, Complete
<1>2. dvRows \in [DOMAIN dvRows -> DvRowTypes]
  BY DEF ChannelInv, DevicesTypes
<1>3. ASSUME NEW row \in DvRowTypes
      PROVE  [row EXCEPT !.cred = 2].chan = row.chan /\ [row EXCEPT !.enabled = FALSE].chan = row.chan
  BY DEF DvRowTypes
<1>4. CASE ImportStops(h)
  <2>1. DisturbSyncs(h, DvIdle) /\ dvRows' = dvRows
    BY <1>4 DEF ImportStops
  <2> QED BY <1>1, <2>1, NobodyComplete, OthersNotComplete
<1>5. CASE SyncEnd(h)
  <2>1. /\ DisturbSyncs(h, DvIdle)
        /\ \/ dvRows' = dvRows
           \/ dvRows' = [i \in DOMAIN dvRows |-> IF i \in dvH[h].seen THEN dvRows[i]
                                                 ELSE [dvRows[i] EXCEPT !.enabled = FALSE]]
    BY <1>5 DEF SyncEnd
  <2>2. DOMAIN dvRows' \subseteq DOMAIN dvRows /\ \A i \in DOMAIN dvRows' : dvRows'[i].chan = dvRows[i].chan
    BY <1>2, <1>3, <2>1
  <2> QED BY <1>1, <2>1, <2>2, NobodyComplete, OthersNotComplete
<1>6. ASSUME NEW d \in dvPast, DiscoverAdd(h, d, 2) PROVE SyncsTrue'
  <2> PICK found, nr : found = discover(d, {}) /\ nr = dvRuns'
    OBVIOUS
  <2> PICK st : st = [DvIdle EXCEPT !.pc = "find", !.kind = "add", !.run = nr, !.cred = 2, !.todo = found]
    OBVIOUS
  <2>1. /\ DisturbSyncs(h, st) /\ dvRuns' = dvRuns + 1
        /\ dvRows' = [i \in DOMAIN dvRows |-> [dvRows[i] EXCEPT !.cred = 2]]
    BY <1>6 DEF DiscoverAdd, updateCameraDevice
  <2>2. found \subseteq Offered /\ nr \in Nat
    BY <2>1, DiscoverOffered DEF ChannelInv, DevicesTypes
  <2>3. st \in DvReqs /\ st.alone = DvIdle.alone
    BY <1>1, <2>2 DEF DvReqs
  <2>4. ~Complete(st)
    BY <1>1, <2>3 DEF Complete
  <2>5. DOMAIN dvRows' \subseteq DOMAIN dvRows /\ \A i \in DOMAIN dvRows' : dvRows'[i].chan = dvRows[i].chan
    BY <1>2, <1>3, <2>1
  <2> QED BY <2>1, <2>3, <2>4, <2>5, NobodyComplete, OthersNotComplete
<1> QED BY <1>4, <1>5, <1>6

LEMMA EditsDisturb ==
  ASSUME ChannelInv, SyncsTrue,
         \/ \E cred \in {1, 2} : DeviceUpdate(cred)
         \/ deleteCameraDevice
         \/ \E i \in 1..MaxDvRows : deleteCamera(i) \/ \E on \in BOOLEAN : SetEnabled(i, on)
         \/ \E d \in DvDevices : DeviceChanges(d)
  PROVE  SyncsTrue'
<1>1. DisturbAll
  BY DEF DeviceUpdate, deleteCameraDevice, deleteCamera, SetEnabled, DeviceChanges, Edit
<1>2. \A g \in DvHandlers : ~Complete(dvH'[g])
  BY <1>1, AllDisturbed DEF Complete, ChannelInv
<1>3. dvRows \in [DOMAIN dvRows -> DvRowTypes] /\ \A i \in DOMAIN dvRows : dvRows[i] \in DvRowTypes
  BY DEF ChannelInv, DevicesTypes
<1>4. ASSUME NEW row \in DvRowTypes
      PROVE  /\ \A n \in Nat : [row EXCEPT !.cred = n].chan = row.chan
             /\ \A on \in BOOLEAN : [row EXCEPT !.enabled = on].chan = row.chan
  BY DEF DvRowTypes
<1>5. ASSUME NEW cred \in {1, 2}, DeviceUpdate(cred)
      PROVE  DOMAIN dvRows' \subseteq DOMAIN dvRows /\ \A i \in DOMAIN dvRows' : dvRows'[i].chan = dvRows[i].chan
  <2>1. dvRows' = [i \in DOMAIN dvRows |-> [dvRows[i] EXCEPT !.cred = cred]] /\ cred \in Nat
    BY <1>5 DEF DeviceUpdate, updateCameraDevice
  <2> QED BY <1>3, <1>4, <2>1
<1>6. ASSUME deleteCameraDevice
      PROVE  DOMAIN dvRows' \subseteq DOMAIN dvRows /\ \A i \in DOMAIN dvRows' : dvRows'[i].chan = dvRows[i].chan
  BY <1>6 DEF deleteCameraDevice
<1>7. ASSUME NEW j \in 1..MaxDvRows, deleteCamera(j)
      PROVE  DOMAIN dvRows' \subseteq DOMAIN dvRows /\ \A i \in DOMAIN dvRows' : dvRows'[i].chan = dvRows[i].chan
  BY <1>7 DEF deleteCamera
<1>8. ASSUME NEW j \in 1..MaxDvRows, NEW on \in BOOLEAN, SetEnabled(j, on)
      PROVE  DOMAIN dvRows' \subseteq DOMAIN dvRows /\ \A i \in DOMAIN dvRows' : dvRows'[i].chan = dvRows[i].chan
  <2>1. dvRows' = [dvRows EXCEPT ![j].enabled = on]
    BY <1>8 DEF SetEnabled
  <2> QED BY <1>3, <1>4, <2>1
<1>9. ASSUME NEW d \in DvDevices, DeviceChanges(d)
      PROVE  DOMAIN dvRows' \subseteq DOMAIN dvRows /\ \A i \in DOMAIN dvRows' : dvRows'[i].chan = dvRows[i].chan
  BY <1>9 DEF DeviceChanges
<1>10. DOMAIN dvRows' \subseteq DOMAIN dvRows /\ \A i \in DOMAIN dvRows' : dvRows'[i].chan = dvRows[i].chan
  BY <1>5, <1>6, <1>7, <1>8, <1>9
<1> QED BY <1>2, <1>10, NobodyComplete

LEMMA SyncsInitially == DevicesInit => SyncsTrue
<1> SUFFICES ASSUME DevicesInit PROVE SyncsTrue
  OBVIOUS
<1>1. \A h \in DvHandlers : ~Complete(dvH[h])
  BY DEF DevicesInit, DvIdle, Complete
<1>2. \A i, j \in DOMAIN dvRows : i = j
  BY DEF DevicesInit
<1> QED BY <1>1, <1>2 DEF SyncsTrue

LEMMA SyncsStep == ChannelInv /\ SyncsTrue /\ DevicesNext => SyncsTrue'
<1> SUFFICES ASSUME ChannelInv, SyncsTrue, DevicesNext PROVE SyncsTrue'
  OBVIOUS
<1>1. ASSUME NEW h \in DvHandlers,
             \/ ImportStops(h) \/ FindRow(h) \/ UpdateRow(h) \/ deleteCameraStreams(h) \/ createCamera(h)
             \/ createCameraStream(h) \/ Imported(h) \/ SyncEnd(h)
             \/ \E skipped \in {{}, Tokens(dvReal)} : SyncBegin(h, skipped)
             \/ \E d \in dvPast : DiscoverAdd(h, d, 2)
      PROVE  SyncsTrue'
  <2>1. CASE FindRow(h) \/ UpdateRow(h) \/ deleteCameraStreams(h)
    BY <2>1, SyncFinds, SyncUpdates, SyncClears
  <2>2. CASE createCamera(h) \/ createCameraStream(h) \/ Imported(h)
    BY <2>2, SyncCreates, SyncStores, SyncImports
  <2>3. CASE \E skipped \in {{}, Tokens(dvReal)} : SyncBegin(h, skipped)
    BY <2>3, SyncsStart
  <2>4. CASE ImportStops(h) \/ SyncEnd(h) \/ \E d \in dvPast : DiscoverAdd(h, d, 2)
    BY <2>4, SyncsEndOrStop
  <2> QED BY <1>1, <2>1, <2>2, <2>3, <2>4
<1> QED BY <1>1, EditsDisturb DEF DevicesNext

LEMMA SyncsStutter == SyncsTrue /\ UNCHANGED dvVars => SyncsTrue'
<1> SUFFICES ASSUME SyncsTrue, UNCHANGED dvVars PROVE SyncsTrue'
  OBVIOUS
<1>1. /\ dvReal' = dvReal /\ dvCred' = dvCred /\ dvRows' = dvRows /\ dvStreams' = dvStreams /\ dvH' = dvH
  BY DEF dvVars
<1>2. ASSUME NEW st, ImportTrue(st) PROVE ImportTrue(st)'
  <2>1. \A i : StreamRows(i)' = StreamRows(i)
    BY <1>1 DEF StreamRows
  <2>2. (\A i, c, nr : RowIs(i, c, nr)' <=> RowIs(i, c, nr)) /\ Imports(st)' = Imports(st)
    BY <1>1, <2>1 DEF RowIs, Imports
  <2> QED BY <1>1, <1>2, <2>1, <2>2 DEF ImportTrue
<1> QED BY <1>1, <1>2 DEF SyncsTrue

(* A group has its one enabled camera with the group's streams.             *)
HasCamera(d, k, rows, streams, cred) ==
  \E i \in DOMAIN rows :
    /\ rows[i].enabled /\ rows[i].cred = cred /\ rows[i].chan = channelId(d, Group(d, k))
    /\ HasStreams(d, k, {s \in streams : s.cam = i})

LEMMA EndSettles ==
  ASSUME ChannelInv, SyncsTrue, NEW h \in DvHandlers, SyncEnd(h), dvSettled'
  PROVE  SyncSettles'
<1> PICK rq : rq = dvH[h]
  OBVIOUS
<1> PICK d, seen, nr : d = dvReal /\ seen = rq.seen /\ nr = rq.run
  OBVIOUS
<1>1. /\ (Complete(rq) => ImportTrue(rq)) /\ d \in DvDevices /\ NoCamera \notin discover(d, {})
      /\ \A i, j \in DOMAIN dvRows : dvRows[i].chan = dvRows[j].chan => i = j
      /\ dvRows \in [DOMAIN dvRows -> DvRowTypes] /\ dvNext \in Nat /\ DOMAIN dvRows \subseteq 1..(dvNext - 1)
  BY CompleteIs DEF ChannelInv, DevicesTypes
<1>2. /\ rq.pc = "find" /\ rq.todo = {} /\ rq.alone /\ rq.whole
      /\ dvReal' = dvReal /\ dvCred' = dvCred /\ dvStreams' = dvStreams
  BY DEF SyncEnd
<1>3. ImportTrue(rq)
  BY <1>1, <1>2 DEF Complete
<1>4. dvRows' = [i \in DOMAIN dvRows |-> IF i \in seen THEN dvRows[i] ELSE [dvRows[i] EXCEPT !.enabled = FALSE]]
  BY <1>3 DEF SyncEnd, ImportTrue
<1>5. Imports(rq) = discover(d, {})
  BY <1>1, <1>2, <1>3 DEF Imports, ImportTrue
<1>6. /\ \A c \in discover(d, {}) : \E i \in seen : RowIs(i, c, nr)
      /\ \A i \in seen : \E c \in discover(d, {}) : RowIs(i, c, nr)
  BY <1>3, <1>5 DEF ImportTrue
<1>7. /\ seen \subseteq DOMAIN dvRows /\ DOMAIN dvRows' = DOMAIN dvRows
      /\ \A i \in seen : dvRows'[i] = dvRows[i] /\ dvRows[i].enabled = TRUE
      /\ \A i \in DOMAIN dvRows \ seen : dvRows'[i].enabled = FALSE
  <2>1. \A row \in DvRowTypes : [row EXCEPT !.enabled = FALSE].enabled = FALSE
    BY DEF DvRowTypes
  <2>2. \A i \in DOMAIN dvRows : dvRows[i] \in DvRowTypes
    BY <1>1
  <2>3. \A i \in seen : i \in DOMAIN dvRows /\ dvRows[i].enabled = TRUE
    <3> SUFFICES ASSUME NEW i \in seen PROVE i \in DOMAIN dvRows /\ dvRows[i].enabled = TRUE
      OBVIOUS
    <3>1. PICK c \in discover(d, {}) : RowIs(i, c, nr)
      BY <1>6
    <3>2. [chan |-> c.chan, cred |-> dvCred, enabled |-> TRUE].enabled = TRUE
      OBVIOUS
    <3> QED BY <3>1, <3>2 DEF RowIs
  <2> QED BY <1>4, <2>1, <2>2, <2>3
<1>8. {i \in DOMAIN dvRows' : dvRows'[i].enabled} = seen
  BY <1>7
<1>9. ASSUME NEW k \in Keys(d)
      PROVE  HasCamera(d, k, dvRows', dvStreams', dvCred')
  <2>1. PICK c \in discover(d, {}) : IsCamera(d, k, c)
    BY <1>1, CamerasAre
  <2>2. PICK i \in seen : RowIs(i, c, nr)
    BY <1>6
  <2>3. c.chan = channelId(d, Group(d, k)) /\ c.streams = roleProfiles(d, Group(d, k))
    BY <2>1 DEF IsCamera
  <2>4. PICK of : of = StreamRows(i)
    OBVIOUS
  <2>5. of = {StreamRow(i, s, nr) : s \in roleProfiles(d, Group(d, k))}
    BY <2>2, <2>3, <2>4 DEF RowIs
  <2>6. HasStreams(d, k, of)
    <3>1. d \in DvDevices /\ k \in Keys(d)
      BY <1>1
    <3> QED BY <3>1, <2>5, StreamsOfGroup
  <2>7. {s \in dvStreams' : s.cam = i} = of
    BY <1>2, <2>4 DEF StreamRows
  <2>8. /\ i \in DOMAIN dvRows' /\ dvRows'[i].enabled /\ dvRows'[i].cred = dvCred'
        /\ dvRows'[i].chan = channelId(d, Group(d, k))
    BY <1>2, <1>7, <2>2, <2>3 DEF RowIs
  <2> QED BY <2>6, <2>7, <2>8 DEF HasCamera
<1>10. IsFiniteSet(seen)
  <2>1. 1 \in Int /\ dvNext - 1 \in Int
    BY <1>1
  <2>2. IsFiniteSet(1..(dvNext - 1))
    BY <2>1, FS_Interval
  <2>3. seen \in SUBSET (1..(dvNext - 1))
    BY <1>1, <1>7
  <2> QED BY <2>2, <2>3, FS_Subset
<1>11. Cardinality(seen) = Cardinality(Keys(d))
  <2> DEFINE KeyOf(i) == CHOOSE k \in Keys(d) : dvRows[i].chan = channelId(d, Group(d, k))
             f == [i \in seen |-> KeyOf(i)]
  <2>1. ASSUME NEW i \in seen PROVE \E k \in Keys(d) : dvRows[i].chan = channelId(d, Group(d, k))
    <3>1. PICK c \in discover(d, {}) : RowIs(i, c, nr)
      BY <1>6
    <3>2. PICK k \in Keys(d) : IsCamera(d, k, c)
      BY <1>1, CamerasAre
    <3> QED BY <3>1, <3>2 DEF RowIs, IsCamera
  <2>2. \A i \in seen : KeyOf(i) \in Keys(d) /\ dvRows[i].chan = channelId(d, Group(d, KeyOf(i)))
    BY <2>1
  <2> HIDE DEF KeyOf
  <2>3. f \in [seen -> Keys(d)]
    BY <2>2
  <2>4. \A i, j \in seen : f[i] = f[j] => i = j
    BY <1>1, <1>7, <2>2
  <2>5. ASSUME NEW k \in Keys(d) PROVE \E i \in seen : f[i] = k
    <3>1. PICK c \in discover(d, {}) : IsCamera(d, k, c)
      BY <1>1, CamerasAre
    <3>2. PICK i \in seen : RowIs(i, c, nr)
      BY <1>6
    <3>3. dvRows[i].chan = channelId(d, Group(d, k))
      BY <3>1, <3>2 DEF RowIs, IsCamera
    <3>4. KeyOf(i) = k
      BY <1>1, <2>2, <3>3, KeysApart
    <3> QED BY <3>4
  <2> HIDE DEF f
  <2>6. f \in Bijection(seen, Keys(d))
    BY <2>3, <2>4, <2>5 DEF Bijection, Injection, Surjection, IsInjective
  <2> QED BY <1>10, <2>6, FS_Bijection DEF ExistsBijection
<1>12. d = dvReal'
  BY <1>2
<1>13. Cardinality({i \in DOMAIN dvRows' : dvRows'[i].enabled}) = Cardinality(Keys(d))
  BY <1>8, <1>11
<1>14. \A k \in Keys(dvReal') : HasCamera(dvReal', k, dvRows', dvStreams', dvCred')
  BY <1>9, <1>12
<1>15. Cardinality({cam \in DOMAIN dvRows' : dvRows'[cam].enabled})
         = Cardinality({profileGroupKey(d[i]) : i \in DOMAIN d})
  BY <1>13 DEF Keys
<1>16. ASSUME NEW k \in {profileGroupKey(dvReal'[i]) : i \in DOMAIN dvReal'}
       PROVE  \E cam \in DOMAIN dvRows' :
                /\ dvRows'[cam].enabled /\ dvRows'[cam].cred = dvCred'
                /\ dvRows'[cam].chan = channelId(dvReal', {i \in DOMAIN dvReal' : profileGroupKey(dvReal'[i]) = k})
                /\ Cardinality({s \in dvStreams' : s.cam = cam})
                     = Cardinality({i \in DOMAIN dvReal' : profileGroupKey(dvReal'[i]) = k})
                /\ \A i \in {i \in DOMAIN dvReal' : profileGroupKey(dvReal'[i]) = k} : \E s \in {s \in dvStreams' : s.cam = cam} :
                     /\ s.token = dvReal'[i].token
                     /\ s.role = "main"
                          => \A j \in {j \in DOMAIN dvReal' : profileGroupKey(dvReal'[j]) = k} : dvReal'[j].area <= dvReal'[i].area
                /\ \E s \in {s \in dvStreams' : s.cam = cam} : s.role = "main"
  BY <1>14, <1>16 DEF HasCamera, HasStreams, Keys, Group
<1>17. Cardinality({cam \in DOMAIN dvRows' : dvRows'[cam].enabled})
         = Cardinality({profileGroupKey(dvReal'[i]) : i \in DOMAIN dvReal'})
  BY <1>12, <1>15, Zenon
<1> QED BY <1>16, <1>17, Zenon DEF SyncSettles

LEMMA OnlyEndsSettle ==
  ASSUME ChannelInv, SyncsTrue, DevicesNext
  PROVE  SyncSettles'
<1>1. ASSUME NEW h \in DvHandlers, SyncEnd(h) PROVE SyncSettles'
  <2>1. CASE dvSettled'
    BY <1>1, <2>1, EndSettles
  <2>2. CASE ~dvSettled'
    BY <2>2 DEF SyncSettles
  <2> QED BY <2>1, <2>2
<1>2. ASSUME NEW h \in DvHandlers,
             \/ ImportStops(h) \/ FindRow(h) \/ UpdateRow(h) \/ deleteCameraStreams(h) \/ createCamera(h)
             \/ createCameraStream(h) \/ Imported(h)
             \/ \E skipped \in {{}, Tokens(dvReal)} : SyncBegin(h, skipped)
             \/ \E d \in dvPast : DiscoverAdd(h, d, 2)
      PROVE  dvSettled' = FALSE
  BY <1>2 DEF ImportStops, FindRow, UpdateRow, deleteCameraStreams, createCamera, createCameraStream, Imported,
              SyncBegin, DiscoverAdd
<1>3. ASSUME \/ \E cred \in {1, 2} : DeviceUpdate(cred)
             \/ deleteCameraDevice
             \/ \E i \in 1..MaxDvRows : deleteCamera(i) \/ \E on \in BOOLEAN : SetEnabled(i, on)
             \/ \E d \in DvDevices : DeviceChanges(d)
      PROVE  dvSettled' = FALSE
  BY <1>3 DEF DeviceUpdate, deleteCameraDevice, deleteCamera, SetEnabled, DeviceChanges, Edit
<1>4. dvSettled' = FALSE => SyncSettles'
  BY DEF SyncSettles
<1> QED BY <1>1, <1>2, <1>3, <1>4 DEF DevicesNext

(* For every device and every change of it, rows, credentials and overlap   *)
(* of imports: a complete sync that runs alone leaves one enabled camera    *)
(* for each channel of the device, with its streams, and no row that stands *)
(* for a source or a number ever comes to stand for another.                *)
THEOREM DevicesStaySettled == DevicesSpec => DevicesSteps
<1>1. DevicesInit => ChannelInv /\ SyncsTrue
  BY ChannelsInitially, SyncsInitially
<1>2. ChannelInv /\ SyncsTrue /\ [DevicesNext]_dvVars => (ChannelInv /\ SyncsTrue)'
  BY ChannelsStep, ChannelsStutter, SyncsStep, SyncsStutter
<1>3. ChannelInv /\ SyncsTrue /\ [DevicesNext]_dvVars => [SyncSettles']_dvVars
  BY OnlyEndsSettle
<1>4. ChannelInv /\ [DevicesNext]_dvVars =>
        [\A i \in DOMAIN dvRows :
           i \in DOMAIN dvRows' /\ dvRows[i].chan[1] = "id" /\ dvRows[i].chan # <<"id", {"default"}>>
             => dvRows'[i].chan = dvRows[i].chan]_dvVars
  BY ChannelsStep DEF ChannelsKept
<1> QED BY <1>1, <1>2, <1>3, <1>4, PTL DEF DevicesSpec, DevicesSteps, RowKeepsChannel
=============================================================================
