--------------------------- MODULE PairingProofs ---------------------------
(***************************************************************************)
(* For any number of codes, devices, administrators and tenants: pairing   *)
(* keeps kiosks, keys and codes consistent, credentials are dropped by the *)
(* server only once a device has saved them, no answer crosses tenants and *)
(* the demo tenant is never overfilled.                                    *)
(* For any monitors, heartbeats and administrators: the displays of a      *)
(* paired kiosk end up as reported, and the configuration counted as       *)
(* applied is the one it has (module KioskHeartbeat).                      *)
(***************************************************************************)
EXTENDS Pairing, KioskHeartbeat, FiniteSetTheorems, TLAPS

(* What a device's program counter says about its files and memory.        *)
DevicesHold ==
  \A d \in Devices :
    /\ device[d].pc \in {"initiated", "polling"} => device[d].mem \in Codes /\ device[d].identity = NoCode
    /\ device[d].pc \in {"saved", "paired", "deleted"} => device[d].identity \in Codes
    /\ device[d].identity # NoCode => device[d].identity \in saved
    /\ device[d].pc = "deleted" => device[d].identity \in deletedKeys

(* A transaction in progress owns an open code, alone; the kiosk it        *)
(* replaces belongs to its tenant, even if it is deleted meanwhile.        *)
TxnsHoldLocks ==
  /\ \A a \in Callers :
       txn[a].code # NoCode =>
         /\ code[txn[a].code].stage = "open"
         /\ txn[a].request.replace # NoCode =>
              /\ kiosk[txn[a].request.replace].state # "none"
              /\ kiosk[txn[a].request.replace].tenant = txn[a].request.tenant
  /\ \A a, b \in Callers :
       txn[a].code # NoCode /\ txn[a].code = txn[b].code => a = b

(* A confirmed code names a kiosk of the tenant that confirmed it.         *)
ClaimsPointBack ==
  \A c \in Codes :
    Consumed(c) =>
      /\ code[c].kiosk \in Codes
      /\ kiosk[code[c].kiosk].state # "none"
      /\ kiosk[code[c].kiosk].tenant = code[c].request.tenant

KeysIssued == \A k \in Codes : kiosk[k].state # "none" => kiosk[k].key \in Codes

(* ... and so does every answer.                                           *)
AnswersExist ==
  \A a \in Callers : answers[a].kiosk # NoCode => kiosk[answers[a].kiosk].state # "none"

ServerInv ==
  /\ TxnsHoldLocks /\ ClaimsPointBack /\ KeysIssued /\ AnswersExist
  /\ ConfirmIsAtomic /\ AcknowledgedMeansSaved /\ AnswersStayInTenant

PairingInv == TypeOK /\ DevicesHold /\ ServerInv

-----------------------------------------------------------------------------
LEMMA RecordTypes ==
  /\ NoRequest \in Requests /\ UnusedCode \in CodeRows
  /\ NoTxn \in TxnStates /\ NewDevice \in DeviceStates
  /\ \A t \in AllTenants, r \in Codes \cup {NoCode} : [tenant |-> t, replace |-> r] \in Requests
BY PairingAssumption
   DEF NoRequest, Requests, UnusedCode, CodeRows, NoTxn, TxnStates, NewDevice,
       DeviceStates, Statuses, Times, AllTenants

(* The updates the actions make to a device's record.                      *)
LEMMA DeviceMoves ==
  ASSUME NEW s \in DeviceStates, NEW c \in Codes \cup {NoCode}, NEW i \in Codes \cup {NoCode},
         NEW p \in {"boot", "initiated", "polling", "saved", "paired", "deleted"},
         NEW r \in Statuses
  PROVE  /\ [s EXCEPT !.pc = p] \in DeviceStates
         /\ [s EXCEPT !.reply = r] \in DeviceStates
         /\ [s EXCEPT !.pending = c] \in DeviceStates
         /\ [s EXCEPT !.pc = p, !.mem = c] \in DeviceStates
         /\ [s EXCEPT !.pc = p, !.pending = c] \in DeviceStates
         /\ [s EXCEPT !.pc = p, !.mem = c, !.reply = r] \in DeviceStates
         /\ [s EXCEPT !.pc = p, !.mem = c, !.pending = i, !.reply = r] \in DeviceStates
         /\ [s EXCEPT !.pc = p, !.pending = c, !.mem = i] \in DeviceStates
BY ZenonT(60) DEF DeviceStates

LEMMA StatusTypes ==
  \A c \in Codes : ClaimStatus(c) \in Statuses
BY DEF ClaimStatus, Statuses

LEMMA Deadlines ==
  ASSUME now \in 0..MaxTime
  PROVE  now + CodeTtl \in Times /\ now + Grace \in Times
BY PairingAssumption DEF Times

(* The actions that change nothing but one device's record.                *)
DeviceOnly(d) ==
  \/ SaveSession(d) \/ SaveSessionFails(d) \/ Boot(d) \/ Crash(d)
  \/ claimPairing(d) \/ ClaimFails(d) \/ KeepPolling(d) \/ HandleExpired(d)
  \/ RemoveSession(d) \/ DeletionReported(d) \/ confirm_deletion(d)

LEMMA DeviceOnlyTypes ==
  ASSUME TypeOK, DevicesHold, NEW d \in Devices, DeviceOnly(d)
  PROVE  /\ device' \in [Devices -> DeviceStates]
         /\ UNCHANGED <<now, code, kiosk, deletedKeys, txn, answers, saved>>
<1> USE DEF TypeOK, serverVars
<1>0. /\ "none" \in Statuses /\ "failed" \in Statuses
      /\ device[d] \in DeviceStates
      /\ device[d].mem \in Codes \cup {NoCode} /\ device[d].pending \in Codes \cup {NoCode}
  BY DEF Statuses, DeviceStates
<1>1. CASE SaveSession(d) BY <1>0, <1>1, DeviceMoves, ZenonT(60) DEF SaveSession
<1>2. CASE SaveSessionFails(d) BY <1>0, <1>2, DeviceMoves DEF SaveSessionFails
<1>3. CASE Boot(d) BY <1>0, <1>3, DeviceMoves, ZenonT(60) DEF Boot
<1>4. CASE Crash(d) BY <1>0, <1>4, DeviceMoves, ZenonT(60) DEF Crash
<1>5. CASE claimPairing(d)
  <2>1. ClaimStatus(device[d].mem) \in Statuses
    BY <1>5, StatusTypes DEF claimPairing, DevicesHold
  <2> QED BY <1>0, <1>5, <2>1, DeviceMoves DEF claimPairing
<1>6. CASE ClaimFails(d) BY <1>0, <1>6, DeviceMoves DEF ClaimFails
<1>7. CASE KeepPolling(d) BY <1>0, <1>7, DeviceMoves DEF KeepPolling
<1>8. CASE HandleExpired(d) BY <1>0, <1>8, DeviceMoves, ZenonT(60) DEF HandleExpired
<1>9. CASE RemoveSession(d) BY <1>0, <1>9, DeviceMoves DEF RemoveSession
<1>10. CASE DeletionReported(d) BY <1>0, <1>10, DeviceMoves DEF DeletionReported
<1>11. CASE confirm_deletion(d)
  <2>1. \A p \in {device[d].pending, NoCode} : [NewDevice EXCEPT !.pending = p] \in DeviceStates
    BY <1>0, DeviceMoves, RecordTypes
  <2>2. PICK v \in DeviceStates : device' = [device EXCEPT ![d] = v]
    <3>1. [device[d] EXCEPT !.pc = "paired"] \in DeviceStates BY <1>0, DeviceMoves
    <3> QED BY <1>11, <2>1, <3>1 DEF confirm_deletion
  <2> QED BY <1>11, <2>2 DEF confirm_deletion
<1> QED BY <1>1, <1>2, <1>3, <1>4, <1>5, <1>6, <1>7, <1>8, <1>9, <1>10, <1>11 DEF DeviceOnly

LEMMA ConfirmTypes ==
  ASSUME TypeOK, NEW a \in Callers, NEW c \in Codes, NEW q \in Requests,
         ConfirmRetry(a, c, q) \/ ConfirmBegin(a, c, q)
  PROVE  TypeOK'
<1> USE DEF TypeOK, serverVars
<1>1. CASE ConfirmRetry(a, c, q)
  <2>1. [kiosk |-> code[c].kiosk, request |-> q] \in AnswerRows BY DEF AnswerRows, CodeRows
  <2> QED BY <1>1, <2>1 DEF ConfirmRetry
<1>2. CASE ConfirmBegin(a, c, q)
  <2>1. [code |-> c, request |-> q] \in TxnStates BY DEF TxnStates
  <2> QED BY <1>2, <2>1 DEF ConfirmBegin
<1> QED BY <1>1, <1>2

LEMMA CommitTypes ==
  ASSUME TypeOK, NEW a \in Callers, ConfirmCommit(a)
  PROVE  TypeOK'
<1> USE DEF TypeOK
<1> DEFINE c == txn[a].code
           q == txn[a].request
<1>1. c \in Codes /\ q \in Requests /\ q.tenant \in AllTenants /\ q.replace \in Codes \cup {NoCode}
  BY DEF ConfirmCommit, markPairingCodeClaimed, TxnStates, Requests
<1>2. Target(c, q) \in Codes BY <1>1 DEF Target
<1>3. /\ kiosk' = Enrolled(c, q)
      /\ code' = [code EXCEPT ![c].stage = "claimable", ![c].kiosk = Target(c, q),
                              ![c].request = q, ![c].expires = now + Grace]
      /\ txn' = [txn EXCEPT ![a] = NoTxn]
      /\ \/ answers' = [answers EXCEPT ![a] = [kiosk |-> Target(c, q), request |-> q]]
         \/ UNCHANGED answers
      /\ UNCHANGED <<now, deletedKeys, device, saved>>
  BY DEF ConfirmCommit, markPairingCodeClaimed
<1> HIDE DEF c, q
<1>4. kiosk' \in [Codes -> KioskRows]
  BY <1>1, <1>3 DEF Enrolled, createKiosk, replaceKioskKey, KioskRows
<1>5. code' \in [Codes -> CodeRows]
  <2>1. [code[c] EXCEPT !.stage = "claimable", !.kiosk = Target(c, q),
                        !.request = q, !.expires = now + Grace] \in CodeRows
    BY <1>1, <1>2, Deadlines DEF CodeRows
  <2> QED BY <1>1, <1>3, <2>1
<1>6. answers' \in [Callers -> AnswerRows]
  <2>1. [kiosk |-> Target(c, q), request |-> q] \in AnswerRows BY <1>1, <1>2 DEF AnswerRows
  <2> QED BY <1>3, <2>1
<1> QED BY <1>3, <1>4, <1>5, <1>6, RecordTypes

(* The state each step leaves has the declared types.                      *)
LEMMA TypeStep == PairingInv /\ [Next]_vars => TypeOK'
<1> SUFFICES ASSUME PairingInv, [Next]_vars PROVE TypeOK'
  OBVIOUS
<1> USE DEF TypeOK
<1>0. TypeOK /\ DevicesHold BY DEF PairingInv
<1>1. CASE Tick BY <1>0, <1>1, PairingAssumption DEF Tick, serverVars
<1>2. ASSUME NEW d \in Devices, DeviceStep(d) PROVE TypeOK'
  <2>1. CASE DeviceOnly(d) BY <1>0, <2>1, DeviceOnlyTypes
  <2>2. ASSUME NEW c \in Codes, initiatePairing(d, c) PROVE TypeOK'
    <3>1. code' \in [Codes -> CodeRows]
      <4>1. [code[c] EXCEPT !.stage = "open", !.device = d, !.expires = now + CodeTtl] \in CodeRows
        BY <1>0, Deadlines DEF CodeRows
      <4> QED BY <1>0, <2>2, <4>1 DEF initiatePairing, createPairingCode
    <3>2. device' \in [Devices -> DeviceStates]
      BY <1>0, <2>2, DeviceMoves DEF initiatePairing, createPairingCode, Statuses
    <3> QED BY <1>0, <2>2, <3>1, <3>2 DEF initiatePairing, createPairingCode
  <2>3. CASE EnrollDemo(d)
    <3> DEFINE req == [tenant |-> Demo, replace |-> NoCode]
    <3>1. device[d].mem \in Codes BY <1>0, <2>3 DEF EnrollDemo, DevicesHold
    <3>2. req \in Requests /\ d \in Callers BY RecordTypes DEF AllTenants, Callers
    <3> HIDE DEF req
    <3>3. ConfirmRetry(d, device[d].mem, req) \/ ConfirmBegin(d, device[d].mem, req)
      BY <2>3 DEF EnrollDemo, req
    <3> QED BY <1>0, <3>1, <3>2, <3>3, ConfirmTypes
  <2>4. CASE SaveIdentity(d)
    <3>0. device[d].mem \in Codes BY <1>0, <2>4 DEF SaveIdentity, DevicesHold
    <3>1. device' \in [Devices -> DeviceStates]
      <4>1. [device[d] EXCEPT !.pc = "saved", !.identity = device[d].mem,
                              !.ackDue = TRUE, !.reply = "none"] \in DeviceStates
        BY <1>0, <3>0 DEF DeviceStates, Statuses
      <4> QED BY <1>0, <2>4, <4>1 DEF SaveIdentity
    <3> QED BY <1>0, <2>4, <3>0, <3>1 DEF SaveIdentity, serverVars
  <2>5. CASE acknowledgePairing(d)
    <3>1. device' \in [Devices -> DeviceStates]
      <4>1. [device[d] EXCEPT !.ackDue = FALSE] \in DeviceStates BY <1>0 DEF DeviceStates
      <4> QED BY <1>0, <2>5, <4>1 DEF acknowledgePairing
    <3>2. code' \in [Codes -> CodeRows]
      <4>1. device[d].identity \in Codes BY <1>0, <2>5 DEF acknowledgePairing, DevicesHold
      <4>2. [code[device[d].identity] EXCEPT !.stage = "acknowledged"] \in CodeRows
        BY <1>0, <4>1 DEF CodeRows
      <4> QED BY <1>0, <2>5, <4>1, <4>2 DEF acknowledgePairing
    <3> QED BY <1>0, <2>5, <3>1, <3>2 DEF acknowledgePairing
  <2> QED BY <1>2, <2>1, <2>2, <2>3, <2>4, <2>5 DEF DeviceStep, DeviceOnly
<1>3. ASSUME NEW a \in Admins, AdminStep(a) PROVE TypeOK'
  <2>1. PICK c \in Codes, t \in Tenants, r \in Codes \cup {NoCode} :
          \/ ConfirmBegin(a, c, [tenant |-> t, replace |-> r])
          \/ ConfirmRetry(a, c, [tenant |-> t, replace |-> r])
    BY <1>3 DEF AdminStep
  <2>2. [tenant |-> t, replace |-> r] \in Requests /\ a \in Callers
    BY RecordTypes DEF AllTenants, Callers
  <2> QED BY <1>0, <2>1, <2>2, ConfirmTypes
<1>4. ASSUME NEW a \in Callers, ConfirmCommit(a) PROVE TypeOK'
  BY <1>0, <1>4, CommitTypes
<1>5. ASSUME NEW a \in Callers, ConfirmAbort(a) PROVE TypeOK'
  BY <1>0, <1>5, RecordTypes DEF ConfirmAbort, serverVars
<1>6. ASSUME NEW k \in Codes, deleteKiosk(k) PROVE TypeOK'
  <2>1. kiosk' \in [Codes -> KioskRows] BY <1>0, <1>6 DEF deleteKiosk, KioskRows
  <2>2. kiosk[k].key \in Codes
    BY <1>6 DEF deleteKiosk, Exists, PairingInv, ServerInv, KeysIssued
  <2> QED BY <1>0, <1>6, <2>1, <2>2 DEF deleteKiosk
<1>7. ASSUME NEW k \in Codes, SetEnabled(k) PROVE TypeOK'
  <2>1. kiosk' \in [Codes -> KioskRows] BY <1>0, <1>7 DEF SetEnabled, KioskRows
  <2> QED BY <1>0, <1>7, <2>1 DEF SetEnabled
<1>8. CASE UNCHANGED vars BY <1>0, <1>8 DEF vars, serverVars
<1> QED BY <1>1, <1>2, <1>3, <1>4, <1>5, <1>6, <1>7, <1>8 DEF Next

-----------------------------------------------------------------------------
(* A device's files agree with its program counter after every step.       *)
LEMMA DevicesStep == PairingInv /\ [Next]_vars => DevicesHold'
<1> SUFFICES ASSUME PairingInv, [Next]_vars PROVE DevicesHold'
  OBVIOUS
<1>0. TypeOK /\ DevicesHold BY DEF PairingInv
<1>1. ASSUME UNCHANGED device, saved \subseteq saved', deletedKeys \subseteq deletedKeys'
      PROVE  DevicesHold'
  BY <1>0, <1>1 DEF DevicesHold
<1>2. ASSUME NEW d \in Devices, DeviceStep(d) PROVE DevicesHold'
  <2> USE <1>0 DEF DevicesHold, TypeOK, serverVars
  <2>0. device[d].mem \in Codes \cup {NoCode} /\ device[d].pending \in Codes \cup {NoCode}
        /\ device[d].identity \in Codes \cup {NoCode}
    BY DEF DeviceStates
  <2>1. ASSUME NEW c \in Codes, initiatePairing(d, c) PROVE DevicesHold'
    BY <2>1 DEF initiatePairing, createPairingCode, DeviceStates
  <2>2. CASE SaveSession(d) BY <2>2 DEF SaveSession, DeviceStates
  <2>3. CASE SaveSessionFails(d) BY <2>3 DEF SaveSessionFails, DeviceStates
  <2>4. CASE Boot(d) BY <2>0, <2>4 DEF Boot, DeviceStates
  <2>5. CASE Crash(d) BY <2>5 DEF Crash, DeviceStates
  <2>6. CASE EnrollDemo(d)
    BY <1>1, <2>6 DEF EnrollDemo, ConfirmRetry, ConfirmBegin
  <2>7. CASE claimPairing(d) BY <2>7 DEF claimPairing, DeviceStates
  <2>8. CASE ClaimFails(d) BY <2>8 DEF ClaimFails, DeviceStates
  <2>9. CASE KeepPolling(d) BY <2>9 DEF KeepPolling, DeviceStates
  <2>10. CASE HandleExpired(d) BY <2>10 DEF HandleExpired, DeviceStates
  <2>11. CASE SaveIdentity(d) BY <2>11 DEF SaveIdentity, DeviceStates
  <2>12. CASE RemoveSession(d) BY <2>12 DEF RemoveSession, DeviceStates
  <2>13. CASE acknowledgePairing(d) BY <2>13 DEF acknowledgePairing, DeviceStates
  <2>14. CASE DeletionReported(d) BY <2>14 DEF DeletionReported, DeviceStates
  <2>15. CASE confirm_deletion(d)
    <3>1. NoCode \notin Codes BY PairingAssumption
    <3>2. CASE device' = [device EXCEPT ![d].pc = "paired"]
      BY <2>15, <3>1, <3>2 DEF confirm_deletion, DeviceStates
    <3>3. CASE \E p \in {device[d].pending, NoCode} :
                 device' = [device EXCEPT ![d] = [NewDevice EXCEPT !.pending = p]]
      <4>1. PICK p \in {device[d].pending, NoCode} :
               device' = [device EXCEPT ![d] = [pc |-> "boot", mem |-> NoCode, pending |-> p,
                                   identity |-> NoCode, ackDue |-> FALSE, reply |-> "none"]]
        BY <3>3 DEF NewDevice
      <4> QED BY <2>15, <3>1, <4>1 DEF confirm_deletion
    <3> QED BY <2>15, <3>2, <3>3 DEF confirm_deletion
  <2> QED BY <1>2, <2>1, <2>2, <2>3, <2>4, <2>5, <2>6, <2>7, <2>8, <2>9, <2>10, <2>11,
             <2>12, <2>13, <2>14, <2>15 DEF DeviceStep
<1>4. ASSUME NEW a \in Admins, AdminStep(a) PROVE DevicesHold'
  BY <1>1, <1>4 DEF AdminStep, ConfirmRetry, ConfirmBegin, serverVars
<1>5. ASSUME NEW a \in Callers, ConfirmCommit(a) \/ ConfirmAbort(a) PROVE DevicesHold'
  BY <1>1, <1>5 DEF ConfirmCommit, markPairingCodeClaimed, ConfirmAbort, serverVars
<1>6. ASSUME NEW k \in Codes, deleteKiosk(k) \/ SetEnabled(k) PROVE DevicesHold'
  BY <1>1, <1>6 DEF deleteKiosk, SetEnabled
<1>7. CASE Tick \/ UNCHANGED vars BY <1>1, <1>7 DEF Tick, vars, serverVars
<1> QED BY <1>2, <1>4, <1>5, <1>6, <1>7 DEF Next

-----------------------------------------------------------------------------
(* The server's rows, one lemma per operation that writes them.            *)
LEMMA ServerUntouched ==
  ServerInv /\ UNCHANGED <<code, kiosk, txn, answers>> /\ saved \subseteq saved' => ServerInv'
BY DEF ServerInv, TxnsHoldLocks, ClaimsPointBack, KeysIssued, ConfirmIsAtomic, Consumed,
       AcknowledgedMeansSaved, AnswersExist, AnswersStayInTenant

LEMMA InitiateServer ==
  ASSUME PairingInv, NEW d \in Devices, NEW c \in Codes, initiatePairing(d, c)
  PROVE  ServerInv'
<1> USE DEF PairingInv, ServerInv, TypeOK
<1>1. /\ code' = [code EXCEPT ![c].stage = "open", ![c].device = d, ![c].expires = now + CodeTtl]
      /\ code[c].stage = "unused"
      /\ UNCHANGED <<kiosk, txn, answers, saved>>
  BY DEF initiatePairing, createPairingCode
<1>2. \A x \in Codes : /\ code'[x].stage = IF x = c THEN "open" ELSE code[x].stage
                       /\ code'[x].kiosk = code[x].kiosk
                       /\ code'[x].request = code[x].request
  BY <1>1 DEF CodeRows
<1>3. \A x \in Codes : Consumed(x)' <=> Consumed(x)
  BY <1>1, <1>2 DEF Consumed
<1>4. TxnsHoldLocks'
  BY <1>1, <1>2 DEF TxnsHoldLocks, TxnStates
<1>5. ClaimsPointBack' BY <1>1, <1>2, <1>3 DEF ClaimsPointBack
<1>6. KeysIssued' BY <1>1 DEF KeysIssued
<1>7. ConfirmIsAtomic' BY <1>1, <1>2, <1>3, <1>6 DEF ConfirmIsAtomic, KeysIssued
<1>8. AcknowledgedMeansSaved' BY <1>1, <1>2 DEF AcknowledgedMeansSaved
<1>9. AnswersExist' /\ AnswersStayInTenant' BY <1>1 DEF AnswersExist, AnswersStayInTenant
<1> QED BY <1>4, <1>5, <1>6, <1>7, <1>8, <1>9

LEMMA AckServer ==
  ASSUME PairingInv, NEW d \in Devices, acknowledgePairing(d)
  PROVE  ServerInv'
<1> USE DEF PairingInv, ServerInv, TypeOK
<1> DEFINE c == device[d].identity
<1>1. /\ code' = [code EXCEPT ![c].stage = "acknowledged"]
      /\ KeyValid(code[c].kiosk, c)
      /\ UNCHANGED <<kiosk, txn, answers, saved>>
      /\ c \in Codes /\ c \in saved
  BY PairingAssumption DEF acknowledgePairing, DevicesHold
<1> HIDE DEF c
<1>2. Consumed(c)
  <2>1. code[c].kiosk \in Codes BY <1>1 DEF KeyValid, CodeRows
  <2> QED BY <1>1, <2>1 DEF KeyValid, ConfirmIsAtomic
<1>3. \A x \in Codes : /\ code'[x].stage = IF x = c THEN "acknowledged" ELSE code[x].stage
                       /\ code'[x].kiosk = code[x].kiosk
                       /\ code'[x].request = code[x].request
  BY <1>1 DEF CodeRows
<1>4. \A x \in Codes : Consumed(x)' <=> Consumed(x)
  BY <1>2, <1>3 DEF Consumed
<1>5. TxnsHoldLocks'
  BY <1>1, <1>2, <1>3 DEF TxnsHoldLocks, TxnStates, Consumed
<1>6. ClaimsPointBack' BY <1>1, <1>3, <1>4 DEF ClaimsPointBack
<1>7. KeysIssued' BY <1>1 DEF KeysIssued
<1>8. ConfirmIsAtomic' BY <1>1, <1>3, <1>4, <1>7 DEF ConfirmIsAtomic, KeysIssued
<1>9. AcknowledgedMeansSaved' BY <1>1, <1>3 DEF AcknowledgedMeansSaved
<1>10. AnswersExist' /\ AnswersStayInTenant' BY <1>1 DEF AnswersExist, AnswersStayInTenant
<1> QED BY <1>5, <1>6, <1>7, <1>8, <1>9, <1>10

LEMMA ConfirmServer ==
  ASSUME PairingInv, NEW a \in Callers, NEW c \in Codes, NEW q \in Requests,
         ConfirmRetry(a, c, q) \/ ConfirmBegin(a, c, q)
  PROVE  ServerInv'
<1> USE DEF PairingInv, ServerInv, TypeOK, serverVars
<1>0. UNCHANGED <<code, kiosk, saved>> BY DEF ConfirmRetry, ConfirmBegin
<1>1. ClaimsPointBack' /\ KeysIssued' /\ ConfirmIsAtomic' /\ AcknowledgedMeansSaved'
  BY <1>0 DEF ClaimsPointBack, KeysIssued, ConfirmIsAtomic, AcknowledgedMeansSaved, Consumed
<1>2. CASE ConfirmRetry(a, c, q)
  <2>1. TxnsHoldLocks' BY <1>0, <1>2 DEF ConfirmRetry, TxnsHoldLocks
  <2>2. kiosk[code[c].kiosk].tenant = q.tenant /\ kiosk[code[c].kiosk].state # "none"
    BY <1>2 DEF ConfirmRetry, SameOperation, ClaimsPointBack
  <2>3. AnswersExist' /\ AnswersStayInTenant'
    BY <1>0, <1>2, <2>2 DEF ConfirmRetry, AnswersExist, AnswersStayInTenant
  <2> QED BY <1>1, <2>1, <2>3
<1>3. CASE ConfirmBegin(a, c, q)
  <2>1. /\ txn' = [txn EXCEPT ![a] = [code |-> c, request |-> q]]
        /\ code[c].stage = "open" /\ \A b \in Callers : txn[b].code # c
        /\ q.replace # NoCode => /\ kiosk[q.replace].state # "none"
                                 /\ kiosk[q.replace].tenant = q.tenant
    BY <1>3 DEF ConfirmBegin, Locked, Exists
  <2>2. TxnsHoldLocks' BY <1>0, <2>1 DEF TxnsHoldLocks
  <2>3. AnswersExist' /\ AnswersStayInTenant'
    BY <1>0, <1>3 DEF ConfirmBegin, AnswersExist, AnswersStayInTenant
  <2> QED BY <1>1, <2>2, <2>3
<1> QED BY <1>2, <1>3

LEMMA KioskServer ==
  ASSUME PairingInv, NEW k \in Codes, deleteKiosk(k) \/ SetEnabled(k)
  PROVE  ServerInv'
<1> USE DEF PairingInv, ServerInv, TypeOK
<1>1. UNCHANGED <<code, txn, answers, saved>> BY DEF deleteKiosk, SetEnabled
<1>2. \A x \in Codes : /\ kiosk'[x].state # "none" <=> kiosk[x].state # "none"
                       /\ kiosk'[x].tenant = kiosk[x].tenant
                       /\ kiosk'[x].key = kiosk[x].key
  BY DEF deleteKiosk, SetEnabled, Exists, KioskRows
<1>3. TxnsHoldLocks' BY <1>1, <1>2 DEF TxnsHoldLocks, TxnStates, Requests
<1>4. ClaimsPointBack' BY <1>1, <1>2 DEF ClaimsPointBack, Consumed
<1>5. KeysIssued' BY <1>2 DEF KeysIssued
<1>6. ConfirmIsAtomic' BY <1>1, <1>2 DEF ConfirmIsAtomic, Consumed
<1>7. AcknowledgedMeansSaved' BY <1>1 DEF AcknowledgedMeansSaved
<1>8. AnswersExist' /\ AnswersStayInTenant'
  BY <1>1, <1>2 DEF AnswersExist, AnswersStayInTenant, AnswerRows
<1> QED BY <1>3, <1>4, <1>5, <1>6, <1>7, <1>8

LEMMA CommitServer ==
  ASSUME PairingInv, NEW a \in Callers, ConfirmCommit(a)
  PROVE  ServerInv'
<1> USE DEF PairingInv, ServerInv, TypeOK
<1> DEFINE c == txn[a].code
           q == txn[a].request
           k == Target(c, q)
<1>1. /\ c \in Codes /\ q \in Requests /\ q.tenant \in AllTenants
      /\ q.replace \in Codes \cup {NoCode} /\ k \in Codes
  BY DEF ConfirmCommit, markPairingCodeClaimed, TxnStates, Requests, Target
<1>2. /\ kiosk' = Enrolled(c, q)
      /\ code' = [code EXCEPT ![c].stage = "claimable", ![c].kiosk = k,
                              ![c].request = q, ![c].expires = now + Grace]
      /\ txn' = [txn EXCEPT ![a] = NoTxn]
      /\ \/ answers' = [answers EXCEPT ![a] = [kiosk |-> k, request |-> q]]
         \/ UNCHANGED answers
      /\ UNCHANGED saved
  BY DEF ConfirmCommit, markPairingCodeClaimed
<1>3. /\ code[c].stage = "open"
      /\ q.replace # NoCode => kiosk[k].state # "none" /\ kiosk[k].tenant = q.tenant
      /\ q.replace = NoCode => k = c
      /\ \A b \in Callers : b # a => txn[b].code # c
  BY <1>1, PairingAssumption DEF TxnsHoldLocks, Target
<1>4. \A x \in Codes : /\ x # c => code'[x] = code[x]
                       /\ x = c => /\ code'[x].stage = "claimable" /\ code'[x].kiosk = k
                                   /\ code'[x].request = q
  BY <1>1, <1>2, SMTT(30) DEF CodeRows
<1>5. kiosk[c].state = "none"
  BY <1>1, <1>3 DEF ConfirmIsAtomic, Consumed
<1>6. /\ \A x \in Codes : x # k => kiosk'[x] = kiosk[x]
      /\ kiosk'[k].state # "none" /\ kiosk'[k].tenant = q.tenant
      /\ kiosk'[k] = kiosk[k] \/ kiosk'[k].key = c
      /\ q.replace = NoCode => kiosk'[k].key = c
  <2>1. CASE q.replace = NoCode
    BY <1>1, <1>2, <1>3, <2>1 DEF Enrolled, createKiosk, replaceKioskKey, KioskRows
  <2>2. CASE q.replace # NoCode
    BY <1>1, <1>2, <1>3, <2>2 DEF Enrolled, createKiosk, replaceKioskKey, Target, KioskRows, Exists
  <2> QED BY <2>1, <2>2
<1>7. \A x \in Codes : Consumed(x)' <=> Consumed(x) \/ x = c
  BY <1>1, <1>4 DEF Consumed
<1> HIDE DEF c, q, k
<1>8. \A x \in Codes : kiosk[x].state # "none" =>
         kiosk'[x].state # "none" /\ kiosk'[x].tenant = kiosk[x].tenant
  <2>1. kiosk[k].state # "none" => kiosk[k].tenant = q.tenant
    BY <1>3, <1>5
  <2> QED BY <1>6, <2>1
<1>9. TxnsHoldLocks'
  <2>1. \A b \in Callers : txn'[b] = IF b = a THEN NoTxn ELSE txn[b]
    BY <1>2
  <2>2. ASSUME NEW b \in Callers, txn'[b].code # NoCode
        PROVE  /\ code'[txn'[b].code].stage = "open"
               /\ txn'[b].request.replace # NoCode =>
                    /\ kiosk'[txn'[b].request.replace].state # "none"
                    /\ kiosk'[txn'[b].request.replace].tenant = txn'[b].request.tenant
    <3>1. txn'[b] = txn[b] /\ b # a BY <2>1, <2>2 DEF NoTxn
    <3>2. txn[b].code \in Codes /\ txn[b].code # c /\ txn[b].request.replace \in Codes \cup {NoCode}
      BY <1>3, <2>2, <3>1 DEF TxnStates, Requests
    <3> QED BY <1>4, <1>8, <2>2, <3>1, <3>2 DEF TxnsHoldLocks
  <2>3. \A b, d \in Callers : txn'[b].code # NoCode /\ txn'[b].code = txn'[d].code => b = d
    BY <2>1 DEF TxnsHoldLocks, NoTxn
  <2> QED BY <2>2, <2>3 DEF TxnsHoldLocks
<1>10. ClaimsPointBack'
  BY <1>1, <1>4, <1>6, <1>7, <1>8 DEF ClaimsPointBack
<1>11. KeysIssued' BY <1>1, <1>3, <1>5, <1>6 DEF KeysIssued
<1>12. ConfirmIsAtomic'
  <2>1. ASSUME NEW x \in Codes, kiosk'[x].state # "none"
        PROVE  /\ Consumed(x)' /\ code'[x].kiosk = x
               /\ Consumed(kiosk[x].key)' /\ code'[kiosk'[x].key].kiosk = x
    <3>1. CASE kiosk'[x] = kiosk[x]
      <4>1. /\ Consumed(x) /\ code[x].kiosk = x /\ kiosk[x].key \in Codes
            /\ Consumed(kiosk[x].key) /\ code[kiosk[x].key].kiosk = x
        BY <2>1, <3>1 DEF ConfirmIsAtomic, KeysIssued
      <4>2. x # c /\ kiosk[x].key # c BY <1>3, <4>1 DEF Consumed
      <4> QED BY <1>4, <1>7, <3>1, <4>1, <4>2
    <3>2. CASE kiosk'[x] # kiosk[x]
      <4>1. x = k /\ kiosk'[x].key = c BY <1>6, <3>2
      <4>2. CASE q.replace = NoCode BY <1>1, <1>3, <1>4, <1>7, <4>1, <4>2
      <4>3. CASE q.replace # NoCode
        <5>1. Consumed(k) /\ code[k].kiosk = k BY <1>1, <1>3, <4>3 DEF ConfirmIsAtomic
        <5>2. k # c BY <1>3, <5>1 DEF Consumed
        <5> QED BY <1>1, <1>4, <1>7, <4>1, <5>1, <5>2
      <4> QED BY <4>2, <4>3
    <3> QED BY <3>1, <3>2
  <2> QED BY <2>1 DEF ConfirmIsAtomic, Consumed
<1>13. AcknowledgedMeansSaved' BY <1>1, <1>2, <1>4 DEF AcknowledgedMeansSaved
<1>14. AnswersExist' /\ AnswersStayInTenant'
  <2>1. ASSUME NEW b \in Callers, answers'[b].kiosk # NoCode
        PROVE  /\ kiosk'[answers'[b].kiosk].state # "none"
               /\ kiosk'[answers'[b].kiosk].tenant = answers'[b].request.tenant
    <3>1. CASE answers'[b] = answers[b]
      BY <1>8, <2>1, <3>1 DEF AnswersExist, AnswersStayInTenant, AnswerRows
    <3>2. CASE answers'[b] # answers[b]
      BY <1>2, <1>6, <3>2
    <3> QED BY <3>1, <3>2
  <2> QED BY <2>1 DEF AnswersExist, AnswersStayInTenant
<1> QED BY <1>9, <1>10, <1>11, <1>12, <1>13, <1>14

LEMMA ServerStep == PairingInv /\ [Next]_vars => ServerInv'
<1> SUFFICES ASSUME PairingInv, [Next]_vars PROVE ServerInv'
  OBVIOUS
<1>0. TypeOK /\ DevicesHold /\ ServerInv BY DEF PairingInv
<1>1. ASSUME NEW d \in Devices, DeviceStep(d) PROVE ServerInv'
  <2>1. CASE DeviceOnly(d) BY <1>0, <2>1, DeviceOnlyTypes, ServerUntouched
  <2>2. ASSUME NEW c \in Codes, initiatePairing(d, c) PROVE ServerInv'
    BY <2>2, InitiateServer
  <2>3. CASE EnrollDemo(d)
    <3> DEFINE req == [tenant |-> Demo, replace |-> NoCode]
    <3>1. device[d].mem \in Codes BY <1>0, <2>3 DEF EnrollDemo, DevicesHold
    <3>2. req \in Requests /\ d \in Callers BY RecordTypes DEF AllTenants, Callers
    <3> HIDE DEF req
    <3>3. ConfirmRetry(d, device[d].mem, req) \/ ConfirmBegin(d, device[d].mem, req)
      BY <2>3 DEF EnrollDemo, req
    <3> QED BY <3>1, <3>2, <3>3, ConfirmServer
  <2>4. CASE SaveIdentity(d)
    BY <1>0, <2>4, ServerUntouched DEF SaveIdentity, serverVars
  <2>5. CASE acknowledgePairing(d) BY <2>5, AckServer
  <2> QED BY <1>1, <2>1, <2>2, <2>3, <2>4, <2>5 DEF DeviceStep, DeviceOnly
<1>2. ASSUME NEW a \in Admins, AdminStep(a) PROVE ServerInv'
  <2>1. PICK c \in Codes, t \in Tenants, r \in Codes \cup {NoCode} :
          \/ ConfirmBegin(a, c, [tenant |-> t, replace |-> r])
          \/ ConfirmRetry(a, c, [tenant |-> t, replace |-> r])
    BY <1>2 DEF AdminStep
  <2>2. [tenant |-> t, replace |-> r] \in Requests /\ a \in Callers
    BY RecordTypes DEF AllTenants, Callers
  <2> QED BY <2>1, <2>2, ConfirmServer
<1>3. ASSUME NEW a \in Callers, ConfirmCommit(a) PROVE ServerInv'
  BY <1>3, CommitServer
<1>4. ASSUME NEW a \in Callers, ConfirmAbort(a) PROVE ServerInv'
  <2> USE <1>0 DEF ServerInv
  <2>1. txn' = [txn EXCEPT ![a] = NoTxn] /\ UNCHANGED <<code, kiosk, answers, saved>>
    BY <1>4 DEF ConfirmAbort, serverVars
  <2>2. TxnsHoldLocks' BY <2>1 DEF TxnsHoldLocks, TypeOK, NoTxn
  <2> QED BY <2>1, <2>2 DEF ClaimsPointBack, KeysIssued, ConfirmIsAtomic, Consumed,
             AcknowledgedMeansSaved, AnswersExist, AnswersStayInTenant
<1>5. ASSUME NEW k \in Codes, deleteKiosk(k) \/ SetEnabled(k) PROVE ServerInv'
  BY <1>5, KioskServer
<1>6. CASE Tick \/ UNCHANGED vars
  BY <1>0, <1>6, ServerUntouched DEF Tick, vars, serverVars
<1> QED BY <1>1, <1>2, <1>3, <1>4, <1>5, <1>6 DEF Next

-----------------------------------------------------------------------------
LEMMA PairingInvInit == Init => PairingInv
<1> SUFFICES ASSUME Init PROVE PairingInv
  OBVIOUS
<1> USE PairingAssumption, RecordTypes DEF Init
<1>1. [state |-> "none", tenant |-> Demo, key |-> NoCode] \in KioskRows
  BY DEF KioskRows, AllTenants
<1>2. [kiosk |-> NoCode, request |-> NoRequest] \in AnswerRows BY DEF AnswerRows
<1>3. TypeOK BY <1>1, <1>2 DEF TypeOK
<1>4. DevicesHold BY DEF DevicesHold, NewDevice
<1>5. TxnsHoldLocks BY DEF TxnsHoldLocks, NoTxn
<1>6. ClaimsPointBack /\ AcknowledgedMeansSaved
  BY DEF ClaimsPointBack, AcknowledgedMeansSaved, Consumed, UnusedCode
<1>7. KeysIssued /\ ConfirmIsAtomic BY DEF KeysIssued, ConfirmIsAtomic
<1>8. AnswersExist /\ AnswersStayInTenant BY DEF AnswersExist, AnswersStayInTenant
<1> QED BY <1>3, <1>4, <1>5, <1>6, <1>7, <1>8 DEF PairingInv, ServerInv

(* The inductive invariant of pairing holds in every reachable state.       *)
THEOREM PairingInvariant == Spec => []PairingInv
<1>1. PairingInv /\ [Next]_vars => PairingInv'
  BY TypeStep, DevicesStep, ServerStep DEF PairingInv
<1> QED BY <1>1, PairingInvInit, PTL DEF Spec

(* Every reachable state of the pairing protocol is well typed.            *)
THEOREM PairingTypes == Spec => []TypeOK
<1>1. PairingInv => TypeOK BY DEF PairingInv
<1> QED BY <1>1, PairingInvariant, PTL

(* However confirmations overlap, fail or are repeated, every kiosk and    *)
(* every key it accepts belong to the code that records them.              *)
THEOREM ConfirmStaysAtomic == Spec => []ConfirmIsAtomic
<1>1. PairingInv => ConfirmIsAtomic BY DEF PairingInv, ServerInv
<1> QED BY <1>1, PairingInvariant, PTL

(* The server drops a claim's credentials only after a device saved them.  *)
THEOREM AcknowledgementFollowsSave == Spec => []AcknowledgedMeansSaved
<1>1. PairingInv => AcknowledgedMeansSaved BY DEF PairingInv, ServerInv
<1> QED BY <1>1, PairingInvariant, PTL

(* No confirmation, first or repeated, answers with another tenant's kiosk.*)
THEOREM AnswersNeverCrossTenants == Spec => []AnswersStayInTenant
<1>1. PairingInv => AnswersStayInTenant BY DEF PairingInv, ServerInv
<1> QED BY <1>1, PairingInvariant, PTL

(* A device gives up a saved identity only when its key was deleted.       *)
THEOREM IdentityIsKept == Spec => IdentityOutlivesRejection
<1> DEFINE Kept == \A d \in Devices :
             (device[d].identity # NoCode /\ device'[d].identity # device[d].identity)
               => device[d].identity \in deletedKeys
<1>1. PairingInv /\ [Next]_vars => [Kept]_vars
  <2> SUFFICES ASSUME PairingInv, [Next]_vars PROVE Kept \/ UNCHANGED vars
    OBVIOUS
  <2>0. TypeOK /\ DevicesHold BY DEF PairingInv
  <2>1. CASE UNCHANGED device BY <2>1
  <2>2. ASSUME NEW d \in Devices, DeviceStep(d) PROVE Kept
    <3> USE <2>0 DEF TypeOK, DevicesHold
    <3>1. ASSUME NEW c \in Codes, initiatePairing(d, c) PROVE Kept
      BY <3>1 DEF initiatePairing, createPairingCode
    <3>2. CASE SaveSession(d) \/ SaveSessionFails(d)
      BY <3>2 DEF SaveSession, SaveSessionFails, DeviceStates
    <3>8. CASE Boot(d) BY <3>8 DEF Boot, DeviceStates
    <3>9. CASE Crash(d) BY <3>9 DEF Crash, DeviceStates
    <3>3. CASE claimPairing(d) \/ ClaimFails(d) \/ KeepPolling(d) \/ HandleExpired(d)
      BY <3>3 DEF claimPairing, ClaimFails, KeepPolling, HandleExpired
    <3>4. CASE SaveIdentity(d) BY <3>4 DEF SaveIdentity
    <3>5. CASE RemoveSession(d) \/ DeletionReported(d)
      BY <3>5 DEF RemoveSession, DeletionReported, DeviceStates
    <3>10. CASE acknowledgePairing(d) BY <3>10 DEF acknowledgePairing, DeviceStates
    <3>6. CASE confirm_deletion(d) BY <3>6 DEF confirm_deletion
    <3>7. CASE EnrollDemo(d) BY <3>7 DEF EnrollDemo, ConfirmRetry, ConfirmBegin
    <3> QED BY <2>2, <3>1, <3>2, <3>3, <3>4, <3>5, <3>6, <3>7, <3>8, <3>9, <3>10 DEF DeviceStep
  <2>3. CASE \E d \in Devices : DeviceStep(d) BY <2>2, <2>3
  <2>4. CASE Next /\ ~\E d \in Devices : DeviceStep(d)
    BY <2>1, <2>4, ZenonT(60) DEF Next, Tick, AdminStep, ConfirmRetry, ConfirmBegin, ConfirmCommit, markPairingCodeClaimed,
                      ConfirmAbort, deleteKiosk, SetEnabled, serverVars
  <2> QED BY <2>3, <2>4
<1> QED BY <1>1, PairingInvariant, PTL DEF Spec, IdentityOutlivesRejection

(* Whatever confirmations, polls and acknowledgements overlap, fail or are *)
(* repeated, the claims of PairingSafe hold together.                      *)
THEOREM PairingIsSafe == Spec => []PairingSafe
<1>1. PairingInv => PairingSafe BY DEF PairingInv, ServerInv, PairingSafe
<1> QED BY <1>1, PairingInvariant, PTL

-----------------------------------------------------------------------------
(* The demo tenant's capacity *)

DemoKiosks == {k \in Codes : Exists(k) /\ kiosk[k].tenant = Demo}

(* One enrollment at a time holds the demo tenant's row, and while it does *)
(* there is room for its kiosk; nobody else creates a kiosk there.         *)
DemoRoom ==
  /\ \A d, e \in Devices : txn[d].code # NoCode /\ txn[e].code # NoCode => d = e
  /\ \A d \in Devices :
       txn[d].code # NoCode => txn[d].request.replace = NoCode /\ DemoCount < MaxDemo
  /\ \A a \in Admins : txn[a].code # NoCode => txn[a].request.tenant # Demo
  /\ DemoCount <= MaxDemo

LEMMA DemoCounts ==
  /\ DemoCount = Cardinality(DemoKiosks) /\ IsFiniteSet(DemoKiosks)
  /\ DemoCount \in Nat
<1>1. DemoKiosks \in SUBSET Codes BY DEF DemoKiosks
<1>2. IsFiniteSet(DemoKiosks) BY <1>1, FS_Subset, PairingAssumption
<1> QED BY <1>2, FS_CardinalityType DEF DemoCount, DemoKiosks

LEMMA DemoCountsNext ==
  /\ DemoCount' = Cardinality(DemoKiosks') /\ IsFiniteSet(DemoKiosks')
  /\ DemoCount' \in Nat
<1>1. DemoKiosks' \in SUBSET Codes BY DEF DemoKiosks
<1>2. IsFiniteSet(DemoKiosks') BY <1>1, FS_Subset, PairingAssumption
<1>3. DemoCount' = Cardinality(DemoKiosks') BY DEF DemoCount, DemoKiosks
<1> QED BY <1>2, <1>3, FS_CardinalityType

(* Steps that begin or end no transaction and add no demo kiosk.           *)
LEMMA DemoShrinks ==
  ASSUME DemoRoom, DemoKiosks' \subseteq DemoKiosks,
         \A a \in Callers : txn'[a] = txn[a] \/ txn'[a].code = NoCode
  PROVE  DemoRoom'
<1>1. DemoCount' <= DemoCount
  BY DemoCounts, DemoCountsNext, FS_Subset
<1>2. \A n \in Nat : n <= DemoCount => (n <= MaxDemo) /\ (DemoCount < MaxDemo => n < MaxDemo)
  BY DemoCounts, PairingAssumption DEF DemoRoom
<1>3. DemoCount' <= MaxDemo /\ (DemoCount < MaxDemo => DemoCount' < MaxDemo)
  BY <1>1, <1>2, DemoCountsNext
<1> QED BY <1>3 DEF DemoRoom, Callers

LEMMA DemoUntouched ==
  ASSUME DemoRoom, UNCHANGED <<kiosk, txn>>
  PROVE  DemoRoom'
BY DemoShrinks DEF DemoKiosks, Exists

LEMMA DemoStep ==
  PairingInv /\ DemoRoom /\ [Next]_vars => DemoRoom'
<1> SUFFICES ASSUME PairingInv, DemoRoom, [Next]_vars PROVE DemoRoom'
  OBVIOUS
<1>0. TypeOK /\ DevicesHold BY DEF PairingInv
<1>1. ASSUME NEW d \in Devices, DeviceStep(d) PROVE DemoRoom'
  <2>1. CASE DeviceOnly(d) BY <1>0, <2>1, DeviceOnlyTypes, DemoUntouched
  <2>2. CASE (\E c \in Codes : initiatePairing(d, c)) \/ SaveIdentity(d) \/ acknowledgePairing(d)
    BY <2>2, DemoUntouched DEF initiatePairing, createPairingCode, SaveIdentity, acknowledgePairing, serverVars
  <2>3. CASE EnrollDemo(d)
    <3> DEFINE req == [tenant |-> Demo, replace |-> NoCode]
               c == device[d].mem
    <3>1. CASE ConfirmRetry(d, c, req) BY <3>1, DemoUntouched DEF ConfirmRetry, serverVars
    <3>2. CASE ConfirmBegin(d, c, req) /\ DemoFree
      <4>1. /\ txn' = [txn EXCEPT ![d] = [code |-> c, request |-> req]]
            /\ UNCHANGED kiosk /\ DemoCount < MaxDemo
            /\ \A e \in Devices : txn[e].code = NoCode
        BY <3>2 DEF ConfirmBegin, DemoFree, DemoLocked, serverVars
      <4>2. DemoCount' = DemoCount BY <4>1 DEF DemoCount, Exists
      <4>3. \A b \in Callers : txn'[b] = IF b = d THEN [code |-> c, request |-> req] ELSE txn[b]
        BY <1>0, <4>1 DEF TypeOK
      <4>4. \A e \in Devices : txn'[e].code # NoCode => e = d /\ txn'[e].request = req
        BY <4>1, <4>3 DEF Callers
      <4>5. \A a \in Admins : txn'[a] = txn[a]
        BY <4>3, PairingAssumption DEF Callers
      <4> QED BY <4>1, <4>2, <4>4, <4>5 DEF DemoRoom
    <3> QED BY <2>3, <3>1, <3>2 DEF EnrollDemo
  <2> QED BY <1>1, <2>1, <2>2, <2>3 DEF DeviceStep, DeviceOnly
<1>2. ASSUME NEW a \in Admins, AdminStep(a) PROVE DemoRoom'
  <2>1. PICK c \in Codes, t \in Tenants, r \in Codes \cup {NoCode} :
          \/ ConfirmBegin(a, c, [tenant |-> t, replace |-> r])
          \/ ConfirmRetry(a, c, [tenant |-> t, replace |-> r])
    BY <1>2 DEF AdminStep
  <2> DEFINE req == [tenant |-> t, replace |-> r]
  <2>2. CASE ConfirmRetry(a, c, req) BY <2>2, DemoUntouched DEF ConfirmRetry, serverVars
  <2>3. CASE ConfirmBegin(a, c, req)
    <3>1. txn' = [txn EXCEPT ![a] = [code |-> c, request |-> req]] /\ UNCHANGED kiosk
      BY <2>3 DEF ConfirmBegin, serverVars
    <3>2. DemoCount' = DemoCount BY <3>1 DEF DemoCount, Exists
    <3>3. req.tenant # Demo BY PairingAssumption
    <3>4. \A b \in Callers : txn'[b] = IF b = a THEN [code |-> c, request |-> req] ELSE txn[b]
      BY <1>0, <3>1 DEF TypeOK
    <3>5. \A e \in Devices : txn'[e] = txn[e]
      BY <3>4, PairingAssumption DEF Callers
    <3>6. \A b \in Admins : txn'[b] = txn[b] \/ txn'[b].request = req
      BY <3>4 DEF Callers
    <3> HIDE DEF req
    <3> QED BY <3>2, <3>3, <3>5, <3>6 DEF DemoRoom
  <2> QED BY <2>1, <2>2, <2>3
<1>3. ASSUME NEW a \in Callers, ConfirmCommit(a) PROVE DemoRoom'
  <2> DEFINE c == txn[a].code
             q == txn[a].request
  <2>1. /\ c \in Codes /\ q.replace \in Codes \cup {NoCode}
        /\ kiosk' = Enrolled(c, q) /\ txn' = [txn EXCEPT ![a] = NoTxn]
    BY <1>0, <1>3 DEF ConfirmCommit, markPairingCodeClaimed, TypeOK, TxnStates, Requests
  <2>2. \A b \in Callers : txn'[b] = IF b = a THEN NoTxn ELSE txn[b]
    BY <1>0, <2>1 DEF TypeOK
  <2>3. NoTxn.code = NoCode BY DEF NoTxn
  <2>4. CASE q.replace # NoCode
    <3>1. /\ \A k \in Codes : kiosk'[k].state = kiosk[k].state /\ kiosk'[k].tenant = kiosk[k].tenant
      BY <1>0, <2>1, <2>4 DEF Enrolled, createKiosk, replaceKioskKey, TypeOK, KioskRows
    <3>2. DemoKiosks' \subseteq DemoKiosks BY <3>1 DEF DemoKiosks, Exists
    <3> QED BY <2>2, <2>3, <3>2, DemoShrinks
  <2>5. CASE q.replace = NoCode /\ q.tenant # Demo
    <3>1. \A k \in Codes : k # c => kiosk'[k] = kiosk[k]
      BY <1>0, <2>1, <2>5 DEF Enrolled, createKiosk, replaceKioskKey, TypeOK
    <3>2. kiosk'[c].tenant # Demo
      BY <1>0, <2>1, <2>5 DEF Enrolled, createKiosk, replaceKioskKey, TypeOK
    <3>3. DemoKiosks' \subseteq DemoKiosks BY <3>1, <3>2 DEF DemoKiosks, Exists
    <3> QED BY <2>2, <2>3, <3>3, DemoShrinks
  <2>6. CASE q.replace = NoCode /\ q.tenant = Demo
    <3>1. a \in Devices /\ c # NoCode
      BY <2>1, <2>6, PairingAssumption DEF DemoRoom, Callers
    <3>2. DemoCount < MaxDemo BY <3>1 DEF DemoRoom
    <3>3. \A k \in Codes : k # c => kiosk'[k] = kiosk[k]
      BY <1>0, <2>1, <2>6 DEF Enrolled, createKiosk, replaceKioskKey, TypeOK
    <3>4. DemoKiosks' \subseteq DemoKiosks \cup {c} BY <3>3 DEF DemoKiosks, Exists
    <3>5. Cardinality(DemoKiosks') <= Cardinality(DemoKiosks \cup {c})
      BY <3>4, DemoCounts, FS_AddElement, FS_Subset
    <3>6. Cardinality(DemoKiosks \cup {c}) \in {DemoCount, DemoCount + 1}
      BY DemoCounts, FS_AddElement
    <3>7. DemoCount' <= MaxDemo
      BY <3>2, <3>5, <3>6, DemoCounts, DemoCountsNext, PairingAssumption
    <3>8. \A e \in Devices : txn'[e].code = NoCode
      BY <2>2, <2>3, <3>1 DEF DemoRoom, Callers
    <3>9. \A b \in Admins : txn'[b] = txn[b]
      BY <2>2, <3>1, PairingAssumption DEF Callers
    <3> QED BY <3>7, <3>8, <3>9 DEF DemoRoom
  <2> QED BY <2>4, <2>5, <2>6
<1>4. ASSUME NEW a \in Callers, ConfirmAbort(a) PROVE DemoRoom'
  <2>1. \A b \in Callers : txn'[b] = txn[b] \/ txn'[b].code = NoCode
    BY <1>0, <1>4 DEF ConfirmAbort, TypeOK, NoTxn
  <2>2. UNCHANGED kiosk BY <1>4 DEF ConfirmAbort, serverVars
  <2> QED BY <2>1, <2>2, DemoShrinks DEF DemoKiosks, Exists
<1>5. ASSUME NEW k \in Codes, deleteKiosk(k) \/ SetEnabled(k) PROVE DemoRoom'
  <2>1. \A x \in Codes : /\ kiosk'[x].tenant = kiosk[x].tenant
                         /\ kiosk'[x].state \in {"enabled", "disabled"} =>
                              kiosk[x].state \in {"enabled", "disabled"}
    BY <1>0, <1>5 DEF deleteKiosk, SetEnabled, Exists, TypeOK, KioskRows
  <2>2. DemoKiosks' \subseteq DemoKiosks BY <2>1 DEF DemoKiosks, Exists
  <2>3. UNCHANGED txn BY <1>5 DEF deleteKiosk, SetEnabled
  <2> QED BY <2>2, <2>3, DemoShrinks
<1>6. CASE Tick \/ UNCHANGED vars
  BY <1>6, DemoUntouched DEF Tick, vars, serverVars
<1> QED BY <1>1, <1>2, <1>3, <1>4, <1>5, <1>6 DEF Next

LEMMA DemoInit == Init => DemoRoom
<1> SUFFICES ASSUME Init PROVE DemoRoom
  OBVIOUS
<1>1. DemoKiosks = {} BY DEF Init, DemoKiosks, Exists
<1>2. DemoCount = 0 BY <1>1, DemoCounts, FS_EmptySet
<1>3. \A a \in Callers : txn[a].code = NoCode BY DEF Init, NoTxn
<1> QED BY <1>2, <1>3, PairingAssumption DEF DemoRoom, Callers

(* However enrollments of demo devices race, are repeated or fail, the     *)
(* demo tenant never has more kiosks than it may.                          *)
THEOREM DemoStaysWithinCapacity == Spec => []DemoWithinCapacity
<1>1. PairingInv /\ DemoRoom /\ [Next]_vars => DemoRoom' BY DemoStep
<1>2. DemoRoom => DemoWithinCapacity BY DEF DemoRoom, DemoWithinCapacity
<1> QED BY <1>1, <1>2, DemoInit, PairingInvariant, PTL DEF Spec

-----------------------------------------------------------------------------
(* KioskHeartbeat: display rows and the managed configuration *)

MonitorLists == {s \in Seq(Monitors) : \A i, j \in DOMAIN s : s[i] = s[j] => i = j}
DisplayRows == [id : Nat, name : Monitors \cup {Custom}, index : Nat, on : BOOLEAN, lay : BOOLEAN]
Configs == [Fields -> Nat]
BeatStates == [pc : {"none", "echo", "lock", "sync", "answer"}, rep : MonitorLists, ver : Nat,
               k : Nat \ {0}, seen : SUBSET Nat, old : SUBSET DisplayRows]

HeartbeatTypes ==
  /\ heViewer \in BOOLEAN /\ heDefault \in BOOLEAN
  /\ hePlugged \in MonitorLists
  /\ heRows \in SUBSET DisplayRows
  /\ heBeat \in [Beats -> BeatStates]
  /\ heLock \in Beats \cup {"none"}
  /\ heSrv \in [ver : Nat, cfg : Configs, applied : Nat]
  /\ heSave \in [Savers -> [pc : {"none", "read"}, ver : Nat, cfg : Configs, field : Fields]]
  /\ heKiosk \in [ver : Nat, cfg : Configs, bad : Nat, wait : Beats \cup {"none"},
                  got : [ver : Nat, cfg : Configs]]
  /\ heIds \in Nat /\ heChanges \in Nat
  /\ heClean \in MonitorLists \cup {NoReport, Touched}
  /\ heCross \in BOOLEAN

\* An id is one row's, a monitor's name is one row's, and both were given before.
RowsDistinct(rows) ==
  /\ \A r \in rows : r.id <= heIds
  /\ \A r, q \in rows : r.id = q.id \/ (r.name = q.name /\ r.name \in Monitors) => r = q

\* The request that syncs holds the lock; a report that settled is not being replaced.
SyncsAlone ==
  /\ \A h \in Beats : heBeat[h].pc = "sync" => heLock = h
  /\ heClean \notin {NoReport, Touched} => heLock = "none"

\* How the rows relate to those a sync listed: a row not yet seen was listed,
\* and while reports are matched it kept its name unless an administrator
\* took it away; a row already seen has a name reported before.
SyncTracks(b) ==
  /\ RowsDistinct(b.old)
  /\ b.k \in 1..(Len(b.rep) + 1)
  /\ \A r \in heRows : r.id \notin b.seen => \E d \in b.old : d.id = r.id
  /\ b.k <= Len(b.rep) =>
       \A r \in heRows :
         /\ \A d \in b.old : d.id = r.id /\ r.id \notin b.seen => r.name \in {d.name, Custom}
         /\ r.id \in b.seen => r.name = Custom \/ \E j \in 1..(b.k - 1) : r.name = b.rep[j]

\* What a sync nobody disturbed has achieved.
SyncAchieves(b) ==
  /\ \A d \in b.old : d.id \notin b.seen => d \in heRows
  /\ \A j \in 1..(b.k - 1) : \E r \in heRows : r.name = b.rep[j] /\ r.index = j /\ r.id \in b.seen
  /\ \A r \in heRows : r.id \in b.seen => r.lay \/ \E j \in 1..(b.k - 1) : r.name = b.rep[j]

DisplaysTrue ==
  /\ RowsDistinct(heRows)
  /\ SyncsAlone
  /\ \A h \in Beats : heBeat[h].pc \in {"echo", "lock"} => heBeat[h].k = 1 /\ heBeat[h].seen = {}
  /\ \A h \in Beats : heBeat[h].pc = "sync" =>
       /\ SyncTracks(heBeat[h])
       /\ heClean = NoReport => SyncAchieves(heBeat[h])
  /\ ReportSettles

\* The server's version of the configuration is held, or on its way back, as applied.
Reported ==
  heSrv.ver # 0 /\ (\/ heKiosk.ver = heSrv.ver
                    \/ heSrv.applied = heSrv.ver
                    \/ \E h \in Beats : heBeat[h].ver = heSrv.ver)

\* Unless saves crossed, no version is ahead of the server's, the one under
\* way names its settings, and the kiosk has what it is said to have applied,
\* nothing older waiting to replace it.
ConfigTrue ==
  ~heCross =>
    /\ heKiosk.ver <= heSrv.ver /\ heSrv.applied <= heSrv.ver /\ heKiosk.got.ver <= heSrv.ver
    /\ \A h \in Beats : heBeat[h].ver <= heSrv.ver
    /\ heKiosk.got.ver = heSrv.ver /\ heSrv.ver # 0 => heKiosk.got.cfg = heSrv.cfg
    /\ Reported => heKiosk.cfg = heSrv.cfg /\ heKiosk.got.ver \in {0, heSrv.ver}

HeartbeatInv == HeartbeatTypes /\ DisplaysTrue /\ ConfigTrue

\* A report lists monitors, each once.
LEMMA ReportsListed == Reports \subseteq MonitorLists
BY DEF Reports, MonitorLists

\* The heartbeat's variables keep their types.
LEMMA HeartbeatTypesStart == HeartbeatInit => HeartbeatTypes
<1> SUFFICES ASSUME HeartbeatInit PROVE HeartbeatTypes
  OBVIOUS
<1>1. (CHOOSE f \in Fields : TRUE) \in Fields
  BY HeartbeatAssumption DEF HeartbeatAssumption
<1>2. <<>> \in MonitorLists
  BY DEF MonitorLists
<1>3. NoBeat \in BeatStates
  BY <1>2 DEF NoBeat, BeatStates
<1>4. [f \in Fields |-> 0] \in Configs
  BY DEF Configs
<1>5. NoSave \in [pc : {"none", "read"}, ver : Nat, cfg : Configs, field : Fields]
  BY <1>1, <1>4 DEF NoSave
<1>6. Nothing \in [ver : Nat, cfg : Configs]
  BY <1>4 DEF Nothing
<1> QED
  BY <1>3, <1>4, <1>5, <1>6, ReportsListed DEF HeartbeatInit, HeartbeatTypes

\* What a request's fields are.
LEMMA BeatTyped ==
  ASSUME NEW b \in BeatStates
  PROVE  /\ b.pc \in {"none", "echo", "lock", "sync", "answer"} /\ b.rep \in MonitorLists
         /\ b.ver \in Nat /\ b.k \in Nat \ {0} /\ b.seen \subseteq Nat /\ b.old \subseteq DisplayRows
         /\ Len(b.rep) \in Nat
         /\ \A j \in 1..Len(b.rep) : b.rep[j] \in Monitors
         /\ \A i, j \in 1..Len(b.rep) : b.rep[i] = b.rep[j] => i = j
<1>1. /\ b.pc \in {"none", "echo", "lock", "sync", "answer"} /\ b.rep \in MonitorLists
      /\ b.ver \in Nat /\ b.k \in Nat \ {0} /\ b.seen \subseteq Nat /\ b.old \subseteq DisplayRows
  BY DEF BeatStates
<1> DEFINE s == b.rep
<1>2. s \in Seq(Monitors) /\ \A i, j \in DOMAIN s : s[i] = s[j] => i = j
  BY <1>1 DEF MonitorLists
<1>3. /\ Len(s) \in Nat /\ DOMAIN s = 1..Len(s)
      /\ \A j \in 1..Len(s) : s[j] \in Monitors
  BY <1>2
<1> QED
  BY <1>1, <1>2, <1>3

\* The loop over the rows has dealt with the row of one id.
LEMMA BeatMoves ==
  ASSUME NEW h \in Beats, NEW i \in Nat, NEW k, k \in {heBeat[h].k, heBeat[h].k + 1},
         heBeat \in [Beats -> BeatStates],
         \/ heBeat' = [heBeat EXCEPT ![h].k = k, ![h].seen = @ \cup {i}]
         \/ k = heBeat[h].k /\ heBeat' = [heBeat EXCEPT ![h].seen = @ \cup {i}]
  PROVE  /\ heBeat' \in [Beats -> BeatStates]
         /\ \A o \in Beats \ {h} : heBeat'[o] = heBeat[o]
         /\ heBeat'[h].pc = heBeat[h].pc /\ heBeat'[h].rep = heBeat[h].rep
         /\ heBeat'[h].ver = heBeat[h].ver /\ heBeat'[h].old = heBeat[h].old
         /\ heBeat'[h].k = k
         /\ heBeat'[h].seen = heBeat[h].seen \cup {i}
<1> DEFINE b == heBeat[h]
           c == [pc |-> b.pc, rep |-> b.rep, ver |-> b.ver, k |-> k,
                 seen |-> b.seen \cup {i}, old |-> b.old]
<1>1. b \in BeatStates
  OBVIOUS
<1>2. c \in BeatStates
  BY <1>1, BeatTyped DEF BeatStates
<1>3. heBeat'[h] = c
  <2>1. CASE heBeat' = [heBeat EXCEPT ![h].k = k, ![h].seen = @ \cup {i}]
    <3>1. heBeat'[h] = [b EXCEPT !.k = k, !.seen = @ \cup {i}]
      BY <2>1
    <3> QED
      BY <1>1, <3>1 DEF BeatStates
  <2>2. CASE k = heBeat[h].k /\ heBeat' = [heBeat EXCEPT ![h].seen = @ \cup {i}]
    <3>1. heBeat'[h] = [b EXCEPT !.seen = @ \cup {i}]
      BY <2>2
    <3> QED
      BY <1>1, <2>2, <3>1 DEF BeatStates
  <2> QED
    BY <2>1, <2>2
<1>4. \A o \in Beats \ {h} : heBeat'[o] = heBeat[o]
  OBVIOUS
<1>5. heBeat' = [o \in Beats |-> heBeat'[o]]
  OBVIOUS
<1>6. heBeat' \in [Beats -> BeatStates]
  BY <1>2, <1>3, <1>4, <1>5
<1>7. /\ c.pc = b.pc /\ c.rep = b.rep /\ c.ver = b.ver /\ c.old = b.old
      /\ c.k = k /\ c.seen = b.seen \cup {i}
  BY <1>1 DEF BeatStates
<1> QED
  BY <1>3, <1>4, <1>6, <1>7

\* Every step of anyone.
LEMMA HeartbeatTypesKept ==
  ASSUME HeartbeatTypes, HeartbeatNext
  PROVE  HeartbeatTypes'
<1>0. NoBeat \in BeatStates /\ [f \in Fields |-> 0] \in Configs
  BY DEF NoBeat, BeatStates, Configs, MonitorLists
<1>a. Nothing \in [ver : Nat, cfg : Configs]
  BY <1>0 DEF Nothing
<1>b. NoSave \in [pc : {"none", "read"}, ver : Nat, cfg : Configs, field : Fields]
  BY <1>0, HeartbeatAssumption DEF NoSave, HeartbeatAssumption
<1>1. CASE Plug
  BY <1>1, ReportsListed DEF Plug, HeartbeatTypes, heFixed, heDisplayVars, heConfigVars
<1>2. CASE NoAnswer
  BY <1>2 DEF NoAnswer, HeartbeatTypes, heFixed, heDisplayVars, heConfigVars
<1>3. CASE apply_pending_managed_config
  <2> DEFINE p == heKiosk.got
             KioskStates == [ver : Nat, cfg : Configs, bad : Nat, wait : Beats \cup {"none"},
                             got : [ver : Nat, cfg : Configs]]
  <2>1. heKiosk \in KioskStates /\ p.ver \in Nat /\ p.cfg \in Configs
    BY DEF HeartbeatTypes
  <2>2. /\ [heKiosk EXCEPT !.got = Nothing] \in KioskStates
        /\ [heKiosk EXCEPT !.got = Nothing, !.bad = p.ver] \in KioskStates
        /\ [heKiosk EXCEPT !.got = Nothing, !.ver = p.ver, !.cfg = p.cfg, !.bad = 0] \in KioskStates
    BY <2>1, <1>a
  <2>3. heKiosk' \in KioskStates
    BY <1>3, <2>2 DEF apply_pending_managed_config
  <2> QED
    BY <1>3, <2>3 DEF apply_pending_managed_config, HeartbeatTypes, heFixed, heDisplayVars, heConfigVars
<1>4. CASE Restart
  BY <1>4, <1>a DEF Restart, HeartbeatTypes, heFixed, heDisplayVars, heConfigVars
<1>5. ASSUME NEW h \in Beats, send_heartbeat(h) PROVE HeartbeatTypes'
  BY <1>5, <1>0 DEF send_heartbeat, HeartbeatTypes, BeatStates, heFixed, heDisplayVars, heConfigVars
<1>6. ASSUME NEW h \in Beats, Echo(h) PROVE HeartbeatTypes'
  BY <1>6 DEF Echo, HeartbeatTypes, BeatStates, heFixed, heDisplayVars
<1>7. ASSUME NEW h \in Beats, SyncBegin(h) PROVE HeartbeatTypes'
  <2>1. [heBeat[h] EXCEPT !.pc = "sync", !.old = heRows] \in BeatStates
    <3>1. heBeat[h] \in BeatStates /\ heRows \in SUBSET DisplayRows
      BY DEF HeartbeatTypes
    <3> QED
      BY <3>1 DEF BeatStates
  <2>2. heBeat' = [heBeat EXCEPT ![h] = [heBeat[h] EXCEPT !.pc = "sync", !.old = heRows]]
    BY <1>7 DEF SyncBegin, HeartbeatTypes
  <2>3. heBeat' \in [Beats -> BeatStates]
    BY <2>1, <2>2 DEF HeartbeatTypes
  <2> QED
    BY <1>7, <2>3 DEF SyncBegin, HeartbeatTypes, heFixed, heConfigVars
<1>8. ASSUME NEW h \in Beats, SyncUpdate(h) PROVE HeartbeatTypes'
  <2> DEFINE b == heBeat[h]
  <2>1. PICK d \in findReportedDisplayMatch(b.old, b.seen, b.rep[b.k], b.k), write \in BOOLEAN :
          /\ heRows' = {IF write /\ r.id = d.id
                        THEN [r EXCEPT !.name = b.rep[b.k], !.index = b.k,
                                       !.on = IF heViewer THEN d.on ELSE TRUE]
                        ELSE r : r \in heRows}
          /\ heBeat' = [heBeat EXCEPT ![h].k = b.k + 1, ![h].seen = @ \cup {d.id}]
    BY <1>8 DEF SyncUpdate
  <2>2. b \in BeatStates /\ d \in b.old
    BY DEF HeartbeatTypes, findReportedDisplayMatch
  <2>3. d \in DisplayRows /\ d.id \in Nat /\ d.on \in BOOLEAN
    BY <2>2 DEF BeatStates, DisplayRows
  <2>4. b.k \in Nat \ {0} /\ b.rep[b.k] \in Monitors
    <3>1. b.k <= Len(b.rep)
      BY <1>8 DEF SyncUpdate
    <3>2. b.k \in 1..Len(b.rep)
      BY <3>1, <2>2, BeatTyped
    <3> QED
      BY <3>2, <2>2, BeatTyped
  <2> DEFINE on == IF heViewer THEN d.on ELSE TRUE
             New(r) == [r EXCEPT !.name = b.rep[b.k], !.index = b.k, !.on = on]
  <2>5. on \in BOOLEAN
    BY <2>3
  <2> HIDE DEF on, b
  <2>6. \A r \in DisplayRows : New(r) \in DisplayRows
    BY <2>4, <2>5 DEF DisplayRows
  <2>7. heRows' = {IF write /\ r.id = d.id THEN New(r) ELSE r : r \in heRows}
    BY <2>1 DEF on
  <2> HIDE DEF New
  <2>8. heRows' \in SUBSET DisplayRows
    BY <2>6, <2>7 DEF HeartbeatTypes
  <2>9. heBeat' \in [Beats -> BeatStates]
    <3>1. heBeat' = [heBeat EXCEPT ![h].k = heBeat[h].k + 1, ![h].seen = @ \cup {d.id}]
      BY <2>1 DEF b
    <3> QED
      BY <3>1, <2>3, BeatMoves DEF HeartbeatTypes
  <2> QED
    BY <1>8, <2>8, <2>9 DEF SyncUpdate, HeartbeatTypes, heFixed, heConfigVars
<1>9. ASSUME NEW h \in Beats, SyncCreate(h) PROVE HeartbeatTypes'
  <2> DEFINE b == heBeat[h]
  <2>1. b \in BeatStates
    BY DEF HeartbeatTypes
  <2>2. b.k \in Nat \ {0} /\ b.rep[b.k] \in Monitors
    BY <1>9, <2>1, BeatTyped DEF SyncCreate
  <2>3. createDisplayForKiosk(b.rep[b.k], b.k) \in DisplayRows
    BY <2>2 DEF createDisplayForKiosk, DisplayRows, HeartbeatTypes
  <2>4. heBeat' \in [Beats -> BeatStates]
    <3>1. heIds + 1 \in Nat /\ heBeat \in [Beats -> BeatStates]
      BY DEF HeartbeatTypes
    <3>2. heBeat' = [heBeat EXCEPT ![h].k = heBeat[h].k + 1, ![h].seen = @ \cup {heIds + 1}]
      BY <1>9 DEF SyncCreate
    <3> QED
      BY <3>1, <3>2, BeatMoves
  <2> QED
    BY <1>9, <2>3, <2>4 DEF SyncCreate, HeartbeatTypes, heFixed, heConfigVars
<1>10. ASSUME NEW h \in Beats, NEW d \in heBeat[h].old, deleteDisplayIfUnused(h, d) PROVE HeartbeatTypes'
  <2>1. d.id \in Nat /\ heBeat \in [Beats -> BeatStates]
    BY DEF HeartbeatTypes, BeatStates, DisplayRows
  <2>2. heBeat' = [heBeat EXCEPT ![h].seen = @ \cup {d.id}]
    BY <1>10 DEF deleteDisplayIfUnused
  <2>3. heBeat' \in [Beats -> BeatStates]
    BY <2>1, <2>2, BeatMoves
  <2>4. heRows' \subseteq heRows
    BY <1>10 DEF deleteDisplayIfUnused
  <2> QED
    BY <1>10, <2>3, <2>4 DEF deleteDisplayIfUnused, HeartbeatTypes, heFixed, heConfigVars
<1>11. ASSUME NEW h \in Beats, SyncEnd(h) PROVE HeartbeatTypes'
  BY <1>11, <1>0 DEF SyncEnd, HeartbeatTypes, BeatStates, heFixed, heConfigVars
<1>12. ASSUME NEW h \in Beats, HeartbeatAnswer(h) PROVE HeartbeatTypes'
  <2>1. PendingConfig \in [ver : Nat, cfg : Configs]
    BY <1>a DEF PendingConfig, HeartbeatTypes
  <2> QED
    BY <1>12, <1>0, <2>1 DEF HeartbeatAnswer, HeartbeatTypes, heFixed, heDisplayVars, heConfigVars
<1>13. ASSUME NEW h \in Beats, HeartbeatFails(h) PROVE HeartbeatTypes'
  BY <1>13, <1>0 DEF HeartbeatFails, HeartbeatTypes, heFixed, heConfigVars
<1>14. ASSUME NEW r \in heRows, attachLayout(r) PROVE HeartbeatTypes'
  <2>1. [r EXCEPT !.lay = ~r.lay] \in DisplayRows
    <3>1. r \in DisplayRows
      BY DEF HeartbeatTypes
    <3> QED
      BY <3>1 DEF DisplayRows
  <2>2. heRows' \in SUBSET DisplayRows
    BY <1>14, <2>1 DEF attachLayout, HeartbeatTypes
  <2> QED
    BY <1>14, <2>2 DEF attachLayout, HeartbeatTypes, heFixed, heConfigVars
<1>15. ASSUME NEW r \in heRows, NEW n \in {r.name, Custom}, NEW on \in BOOLEAN, updateDisplay(r, n, on)
       PROVE  HeartbeatTypes'
  <2>1. [r EXCEPT !.name = n, !.on = on] \in DisplayRows
    <3>1. r \in DisplayRows
      BY DEF HeartbeatTypes
    <3> QED
      BY <3>1 DEF DisplayRows
  <2>2. heRows' \in SUBSET DisplayRows
    BY <1>15, <2>1 DEF updateDisplay, HeartbeatTypes
  <2> QED
    BY <1>15, <2>2 DEF updateDisplay, HeartbeatTypes, heFixed, heConfigVars
<1>16. ASSUME NEW a \in Savers, SaveWrite(a) PROVE HeartbeatTypes'
  <2>1. NewConfig(heSave[a].cfg, heSave[a].field) \in Configs
    BY DEF NewConfig, HeartbeatTypes, Configs
  <2>2. heSrv' \in [ver : Nat, cfg : Configs, applied : Nat]
    <3>1. heSave[a].ver + 1 \in Nat /\ heSrv \in [ver : Nat, cfg : Configs, applied : Nat]
      BY DEF HeartbeatTypes
    <3> QED
      BY <1>16, <2>1, <3>1 DEF SaveWrite
  <2>3. /\ heSave' \in [Savers -> [pc : {"none", "read"}, ver : Nat, cfg : Configs, field : Fields]]
        /\ heCross' \in BOOLEAN
    BY <1>16, <1>b DEF SaveWrite, HeartbeatTypes
  <2> QED
    BY <1>16, <2>2, <2>3 DEF SaveWrite, HeartbeatTypes, heFixed, heDisplayVars
<1>17. ASSUME NEW a \in Savers, NEW f \in Fields, SaveRead(a, f) PROVE HeartbeatTypes'
  BY <1>17 DEF SaveRead, HeartbeatTypes, heFixed, heDisplayVars
<1> QED
  BY <1>1, <1>2, <1>3, <1>4, <1>5, <1>6, <1>7, <1>8, <1>9, <1>10, <1>11, <1>12, <1>13, <1>14, <1>15,
     <1>16, <1>17 DEF HeartbeatNext, HeartbeatHandler

\* No configuration has been saved yet.
LEMMA ConfigStarts == HeartbeatInit => ConfigTrue
BY DEF HeartbeatInit, ConfigTrue, Reported, Nothing, NoBeat

\* Steps that leave the server's row and the kiosk's memory alone.
LEMMA ConfigUntouched ==
  ASSUME HeartbeatTypes, ConfigTrue, UNCHANGED <<heSrv, heCross>>,
         heKiosk'.ver \in {0, heKiosk.ver}, heKiosk'.cfg = heKiosk.cfg,
         heKiosk'.got \in {Nothing, heKiosk.got},
         \A h \in Beats : heBeat'[h].ver \in {0, heBeat[h].ver, heKiosk.ver}
  PROVE  ConfigTrue'
<1>1. heSrv.ver \in Nat
  BY DEF HeartbeatTypes
<1>2. ~heCross /\ Reported' => Reported
  BY DEF Reported
<1> QED
  BY <1>1, <1>2 DEF ConfigTrue, Nothing

\* Only a save makes a version, and it is above every other unless it crossed.
LEMMA ConfigKept ==
  ASSUME HeartbeatTypes, ConfigTrue, HeartbeatNext
  PROVE  ConfigTrue'
<1>1. CASE Plug
  BY <1>1, ConfigUntouched DEF Plug, heConfigVars
<1>2. CASE NoAnswer
  BY <1>2, ConfigUntouched DEF NoAnswer, heConfigVars, HeartbeatTypes
<1>3. CASE apply_pending_managed_config
  <2>1. CASE heKiosk' = [heKiosk EXCEPT !.got = Nothing]
    BY <1>3, <2>1, ConfigUntouched DEF apply_pending_managed_config, heConfigVars, HeartbeatTypes
  <2>2. CASE heKiosk' = [heKiosk EXCEPT !.got = Nothing, !.bad = heKiosk.got.ver]
    BY <1>3, <2>2, ConfigUntouched DEF apply_pending_managed_config, heConfigVars, HeartbeatTypes
  <2>3. CASE heKiosk' = [heKiosk EXCEPT !.got = Nothing, !.ver = heKiosk.got.ver,
                                        !.cfg = heKiosk.got.cfg, !.bad = 0]
    <3>1. UNCHANGED <<heSrv, heBeat, heCross>> /\ heKiosk.got.ver # 0
      BY <1>3 DEF apply_pending_managed_config, heConfigVars
    <3>2. /\ heKiosk'.ver = heKiosk.got.ver /\ heKiosk'.cfg = heKiosk.got.cfg
          /\ heKiosk'.got.ver = 0
      BY <2>3 DEF HeartbeatTypes, Nothing
    <3>3. Reported' => Reported \/ heKiosk.got.ver = heSrv.ver
      BY <3>1, <3>2 DEF Reported
    <3> QED
      BY <3>1, <3>2, <3>3 DEF ConfigTrue, HeartbeatTypes, Reported
  <2> QED
    BY <1>3, <2>1, <2>2, <2>3 DEF apply_pending_managed_config
<1>4. CASE Restart
  BY <1>4, ConfigUntouched DEF Restart, heConfigVars, HeartbeatTypes
<1>5. ASSUME NEW h \in Beats, send_heartbeat(h) PROVE ConfigTrue'
  BY <1>5, ConfigUntouched DEF send_heartbeat, heConfigVars, HeartbeatTypes, BeatStates, NoBeat
<1>6. ASSUME NEW h \in Beats, Echo(h) PROVE ConfigTrue'
  <2>1. UNCHANGED <<heKiosk, heCross>> /\ heSrv'.ver = heSrv.ver /\ heSrv'.cfg = heSrv.cfg
    BY <1>6 DEF Echo, HeartbeatTypes
  <2>2. heSrv'.applied \in {heSrv.applied, heBeat[h].ver}
    BY <1>6 DEF Echo, HeartbeatTypes
  <2>3. \A o \in Beats : heBeat'[o].ver = heBeat[o].ver
    BY <1>6 DEF Echo, HeartbeatTypes, BeatStates
  <2>4. Reported' => Reported
    BY <2>1, <2>2, <2>3 DEF Reported
  <2> QED
    BY <2>1, <2>2, <2>3, <2>4 DEF ConfigTrue
<1>7. ASSUME NEW h \in Beats, SyncBegin(h) PROVE ConfigTrue'
  BY <1>7, ConfigUntouched DEF SyncBegin, heConfigVars, HeartbeatTypes, BeatStates
<1>8. ASSUME NEW h \in Beats, SyncUpdate(h) PROVE ConfigTrue'
  <2>1. \A o \in Beats : heBeat'[o].ver = heBeat[o].ver
    <3>1. PICK d \in findReportedDisplayMatch(heBeat[h].old, heBeat[h].seen,
                                              heBeat[h].rep[heBeat[h].k], heBeat[h].k) :
            heBeat' = [heBeat EXCEPT ![h].k = heBeat[h].k + 1, ![h].seen = @ \cup {d.id}]
      BY <1>8 DEF SyncUpdate
    <3>2. d \in DisplayRows /\ d.id \in Nat
      BY DEF HeartbeatTypes, findReportedDisplayMatch, BeatStates, DisplayRows
    <3> QED
      BY <3>1, <3>2, BeatMoves DEF HeartbeatTypes
  <2> QED
    BY <1>8, <2>1, ConfigUntouched DEF SyncUpdate, heConfigVars
<1>9. ASSUME NEW h \in Beats, SyncCreate(h) PROVE ConfigTrue'
  <2>1. \A o \in Beats : heBeat'[o].ver = heBeat[o].ver
    BY <1>9 DEF SyncCreate, HeartbeatTypes, BeatStates
  <2> QED
    BY <1>9, <2>1, ConfigUntouched DEF SyncCreate, heConfigVars
<1>10. ASSUME NEW h \in Beats, NEW d \in heBeat[h].old, deleteDisplayIfUnused(h, d) PROVE ConfigTrue'
  <2>1. \A o \in Beats : heBeat'[o].ver = heBeat[o].ver
    BY <1>10 DEF deleteDisplayIfUnused, HeartbeatTypes, BeatStates
  <2> QED
    BY <1>10, <2>1, ConfigUntouched DEF deleteDisplayIfUnused, heConfigVars
<1>11. ASSUME NEW h \in Beats, SyncEnd(h) PROVE ConfigTrue'
  BY <1>11, ConfigUntouched DEF SyncEnd, heConfigVars, HeartbeatTypes, BeatStates, NoBeat
<1>12. ASSUME NEW h \in Beats, HeartbeatAnswer(h) PROVE ConfigTrue'
  <2>1. UNCHANGED <<heSrv, heCross>> /\ \A o \in Beats : heBeat'[o].ver \in {0, heBeat[o].ver}
    BY <1>12 DEF HeartbeatAnswer, heConfigVars, HeartbeatTypes, BeatStates, NoBeat
  <2>2. CASE heKiosk' = heKiosk
    BY <2>1, <2>2, ConfigUntouched
  <2>3. CASE heKiosk' = [heKiosk EXCEPT !.wait = "none", !.got = PendingConfig]
    <3>1. heKiosk'.ver = heKiosk.ver /\ heKiosk'.cfg = heKiosk.cfg /\ heKiosk'.got = PendingConfig
      BY <2>3 DEF HeartbeatTypes
    <3>2. \/ PendingConfig.ver = 0
          \/ PendingConfig.ver = heSrv.ver /\ PendingConfig.cfg = heSrv.cfg
      BY DEF PendingConfig, Nothing
    <3>3. Reported' => Reported
      BY <2>1, <3>1 DEF Reported
    <3> QED
      BY <2>1, <3>1, <3>2, <3>3 DEF ConfigTrue, HeartbeatTypes
  <2> QED
    BY <1>12, <2>2, <2>3 DEF HeartbeatAnswer
<1>13. ASSUME NEW h \in Beats, HeartbeatFails(h) PROVE ConfigTrue'
  BY <1>13, ConfigUntouched DEF HeartbeatFails, heConfigVars, HeartbeatTypes, BeatStates, NoBeat
<1>14. ASSUME NEW r \in heRows, attachLayout(r) PROVE ConfigTrue'
  BY <1>14, ConfigUntouched DEF attachLayout, heConfigVars
<1>15. ASSUME NEW r \in heRows, NEW n \in {r.name, Custom}, NEW on \in BOOLEAN, updateDisplay(r, n, on)
       PROVE  ConfigTrue'
  BY <1>15, ConfigUntouched DEF updateDisplay, heConfigVars
<1>16. ASSUME NEW a \in Savers, SaveWrite(a) PROVE ConfigTrue'
  <2>1. UNCHANGED <<heBeat, heKiosk>> /\ heSrv'.applied = heSrv.applied
    BY <1>16 DEF SaveWrite, HeartbeatTypes
  <2>2. heSrv'.ver = heSave[a].ver + 1
    BY <1>16 DEF SaveWrite, HeartbeatTypes
  <2>3. ~heCross' => ~heCross /\ heSave[a].ver = heSrv.ver
    BY <1>16 DEF SaveWrite
  <2>4. /\ heSrv.ver \in Nat /\ heSrv.applied \in Nat /\ heKiosk.ver \in Nat /\ heKiosk.got.ver \in Nat
        /\ \A h \in Beats : heBeat[h].ver \in Nat
    BY DEF HeartbeatTypes, BeatStates
  <2>5. ~heCross' => ~Reported'
    BY <2>1, <2>2, <2>3, <2>4 DEF ConfigTrue, Reported
  <2> QED
    BY <2>1, <2>2, <2>3, <2>4, <2>5 DEF ConfigTrue
<1>17. ASSUME NEW a \in Savers, NEW f \in Fields, SaveRead(a, f) PROVE ConfigTrue'
  BY <1>17, ConfigUntouched DEF SaveRead
<1> QED
  BY <1>1, <1>2, <1>3, <1>4, <1>5, <1>6, <1>7, <1>8, <1>9, <1>10, <1>11, <1>12, <1>13, <1>14, <1>15,
     <1>16, <1>17 DEF HeartbeatNext, HeartbeatHandler

-----------------------------------------------------------------------------
\* There are no rows yet.
LEMMA DisplaysStart == HeartbeatInit => DisplaysTrue
BY DEF HeartbeatInit, DisplaysTrue, RowsDistinct, SyncsAlone, ReportSettles, NoBeat

\* Steps that leave rows and reports alone and change no request that syncs.
LEMMA DisplaysUntouched ==
  ASSUME HeartbeatTypes, DisplaysTrue, UNCHANGED <<heRows, heIds, heClean>>,
         heLock' \in {heLock, "none"},
         \A h \in Beats : heBeat'[h].pc = "sync" => heBeat'[h] = heBeat[h] /\ heLock' = heLock,
         \A h \in Beats : heBeat'[h].pc \in {"echo", "lock"} => heBeat'[h].k = 1 /\ heBeat'[h].seen = {}
  PROVE  DisplaysTrue'
<1>1. RowsDistinct(heRows)'
  BY DEF DisplaysTrue, RowsDistinct
<1>2. SyncsAlone'
  BY DEF DisplaysTrue, SyncsAlone
<1>3. ASSUME NEW h \in Beats, heBeat'[h].pc = "sync"
      PROVE  SyncTracks(heBeat[h])' /\ (heClean' = NoReport => SyncAchieves(heBeat[h])')
  <2>1. heBeat'[h] = heBeat[h] /\ heBeat[h].pc = "sync"
    BY <1>3
  <2>2. SyncTracks(heBeat[h]) /\ (heClean = NoReport => SyncAchieves(heBeat[h]))
    BY <2>1 DEF DisplaysTrue
  <2> QED
    BY <2>1, <2>2 DEF SyncTracks, SyncAchieves, RowsDistinct
<1>4. ReportSettles'
  BY DEF DisplaysTrue, ReportSettles
<1> QED
  BY <1>1, <1>2, <1>3, <1>4 DEF DisplaysTrue

\* A step of the request that syncs, which holds the lock alone.
LEMMA SyncStep ==
  ASSUME HeartbeatTypes, DisplaysTrue, NEW h \in Beats, heBeat[h].pc = "sync",
         \A o \in Beats \ {h} : heBeat'[o] = heBeat[o],
         heBeat'[h].pc = "sync", UNCHANGED <<heLock, heClean>>,
         RowsDistinct(heRows)', SyncTracks(heBeat[h])',
         heClean = NoReport => SyncAchieves(heBeat[h])'
  PROVE  DisplaysTrue'
<1>1. heLock = h /\ h # "none"
  BY HeartbeatAssumption DEF DisplaysTrue, SyncsAlone, HeartbeatAssumption
<1>2. heClean \in {NoReport, Touched}
  BY <1>1 DEF DisplaysTrue, SyncsAlone
<1>3. \A o \in Beats \ {h} : heBeat'[o].pc # "sync"
  BY <1>1 DEF DisplaysTrue, SyncsAlone
<1>4. SyncsAlone'
  BY <1>1, <1>2, <1>3 DEF SyncsAlone
<1>5. ReportSettles'
  BY <1>2 DEF ReportSettles
<1>6. \A o \in Beats : heBeat'[o].pc \in {"echo", "lock"} => heBeat'[o].k = 1 /\ heBeat'[o].seen = {}
  BY DEF DisplaysTrue
<1> QED
  BY <1>3, <1>4, <1>5, <1>6 DEF DisplaysTrue

\* withPowerStateLock is taken: the rows listed are the rows.
LEMMA SyncBeginKept ==
  ASSUME HeartbeatTypes, DisplaysTrue, NEW h \in Beats, SyncBegin(h)
  PROVE  DisplaysTrue'
<1>1. heLock = "none" /\ heLock' = h /\ heClean' = NoReport /\ UNCHANGED <<heRows, heIds>>
  BY DEF SyncBegin
<1>2. /\ heBeat'[h].pc = "sync" /\ heBeat'[h].old = heRows
      /\ heBeat'[h].k = heBeat[h].k /\ heBeat'[h].seen = heBeat[h].seen
      /\ heBeat'[h].rep = heBeat[h].rep
      /\ \A o \in Beats \ {h} : heBeat'[o] = heBeat[o]
  <2>1. heBeat[h] \in BeatStates
    BY DEF HeartbeatTypes
  <2>2. heBeat'[h] = [heBeat[h] EXCEPT !.pc = "sync", !.old = heRows]
    BY DEF SyncBegin, HeartbeatTypes
  <2>3. \A o \in Beats \ {h} : heBeat'[o] = heBeat[o]
    BY DEF SyncBegin, HeartbeatTypes
  <2> QED
    BY <2>1, <2>2, <2>3 DEF BeatStates
<1>3. heBeat[h].k = 1 /\ heBeat[h].seen = {} /\ Len(heBeat[h].rep) \in Nat
  <2>1. heBeat[h].pc = "lock" /\ heBeat[h] \in BeatStates
    BY DEF SyncBegin, HeartbeatTypes
  <2> QED
    BY <2>1, BeatTyped DEF DisplaysTrue
<1>4. RowsDistinct(heRows) /\ RowsDistinct(heRows)'
  BY <1>1 DEF DisplaysTrue, RowsDistinct
<1>5. SyncTracks(heBeat[h])'
  BY <1>1, <1>2, <1>3, <1>4 DEF SyncTracks, RowsDistinct
<1>6. SyncAchieves(heBeat[h])'
  BY <1>1, <1>2, <1>3 DEF SyncAchieves
<1>7. \A o \in Beats \ {h} : heBeat'[o].pc # "sync"
  BY <1>1, <1>2, HeartbeatAssumption DEF DisplaysTrue, SyncsAlone, HeartbeatAssumption
<1>8. SyncsAlone'
  BY <1>1, <1>7 DEF SyncsAlone
<1>9. ReportSettles'
  BY <1>1 DEF ReportSettles
<1>10. \A o \in Beats : heBeat'[o].pc \in {"echo", "lock"} => heBeat'[o].k = 1 /\ heBeat'[o].seen = {}
  BY <1>2 DEF DisplaysTrue
<1> QED
  BY <1>4, <1>5, <1>6, <1>7, <1>8, <1>9, <1>10 DEF DisplaysTrue

\* While reports are matched, only the row found, if any, has the name looked for.
LEMMA NameTaken ==
  ASSUME HeartbeatTypes, DisplaysTrue, NEW h \in Beats, heBeat[h].pc = "sync",
         heBeat[h].k <= Len(heBeat[h].rep),
         NEW r \in heRows, r.name = heBeat[h].rep[heBeat[h].k]
  PROVE  LET b == heBeat[h]
             found == findReportedDisplayMatch(b.old, b.seen, b.rep[b.k], b.k)
         IN  found # {} /\ \A d \in found : d.id = r.id
<1> DEFINE b == heBeat[h]
           name == b.rep[b.k]
           named == {e \in b.old : e.id \notin b.seen /\ e.name = name}
           found == findReportedDisplayMatch(b.old, b.seen, name, b.k)
<1>1. b \in BeatStates /\ SyncTracks(b)
  BY DEF HeartbeatTypes, DisplaysTrue
<1>2. b.k \in 1..Len(b.rep) /\ name \in Monitors /\ name # Custom
  <2>1. b.k \in 1..Len(b.rep)
    BY <1>1, BeatTyped
  <2> QED
    BY <1>1, <2>1, BeatTyped, HeartbeatAssumption DEF HeartbeatAssumption
<1>3. r.id \notin b.seen
  <2>1. \A j \in 1..(b.k - 1) : b.rep[j] # name
    BY <1>1, <1>2, BeatTyped
  <2> QED
    BY <1>1, <1>2, <2>1 DEF SyncTracks
<1>4. PICK e \in b.old : e.id = r.id
  BY <1>1, <1>3 DEF SyncTracks
<1>5. e.name = name
  BY <1>1, <1>2, <1>3, <1>4 DEF SyncTracks
<1>6. e \in named
  BY <1>3, <1>4, <1>5
<1>7. found = named
  BY <1>6 DEF findReportedDisplayMatch
<1>8. \A d \in named : d = e
  BY <1>1, <1>2, <1>4, <1>5 DEF SyncTracks, RowsDistinct
<1> QED
  BY <1>4, <1>6, <1>7, <1>8

\* The row found takes the reported name, which no other row has.
LEMMA SyncUpdateKept ==
  ASSUME HeartbeatTypes, DisplaysTrue, NEW h \in Beats, SyncUpdate(h)
  PROVE  DisplaysTrue'
<1> DEFINE b == heBeat[h]
           name == b.rep[b.k]
           found == findReportedDisplayMatch(b.old, b.seen, name, b.k)
<1>1. b \in BeatStates /\ b.pc = "sync" /\ b.k <= Len(b.rep) /\ UNCHANGED <<heIds, heLock, heClean>>
  BY DEF SyncUpdate, HeartbeatTypes
<1>2. PICK d \in found, write \in BOOLEAN :
        /\ write \/ (d.name = name /\ d.index = b.k /\ (heViewer \/ d.on))
        /\ heRows' = {IF write /\ r.id = d.id
                      THEN [r EXCEPT !.name = name, !.index = b.k,
                                     !.on = IF heViewer THEN d.on ELSE TRUE]
                      ELSE r : r \in heRows}
        /\ heBeat' = [heBeat EXCEPT ![h].k = b.k + 1, ![h].seen = @ \cup {d.id}]
  BY DEF SyncUpdate
<1> DEFINE New(r) == IF write /\ r.id = d.id
                     THEN [r EXCEPT !.name = name, !.index = b.k,
                                    !.on = IF heViewer THEN d.on ELSE TRUE]
                     ELSE r
<1>3. heRows' = {New(r) : r \in heRows}
  BY <1>2
<1>4. d \in b.old /\ d.id \notin b.seen /\ d.id \in Nat
  BY <1>1, BeatTyped DEF findReportedDisplayMatch, DisplayRows
<1>5. \A r \in heRows : /\ r.id # d.id \/ ~write => New(r) = r
                        /\ r.id = d.id /\ write => New(r).name = name /\ New(r).index = b.k
                        /\ New(r).id = r.id /\ New(r).lay = r.lay
  BY DEF HeartbeatTypes, DisplayRows
<1>6. \A r \in heRows : r.name = name => r.id = d.id
  BY <1>1, NameTaken
<1>7. /\ \A o \in Beats \ {h} : heBeat'[o] = heBeat[o]
      /\ heBeat'[h].pc = "sync" /\ heBeat'[h].rep = b.rep /\ heBeat'[h].old = b.old
      /\ heBeat'[h].k = b.k + 1 /\ heBeat'[h].seen = b.seen \cup {d.id}
  BY <1>1, <1>2, <1>4, BeatMoves DEF HeartbeatTypes
<1>8. /\ b.k \in Nat \ {0} /\ Len(b.rep) \in Nat
      /\ RowsDistinct(heRows) /\ SyncTracks(b) /\ (heClean = NoReport => SyncAchieves(b))
  BY <1>1, BeatTyped DEF DisplaysTrue
<1>9. ~write => d.name = name /\ d.index = b.k
  BY <1>2
<1> HIDE DEF New, name, found
<1>10. RowsDistinct(heRows)'
  <2>1. ASSUME NEW r \in heRows, NEW q \in heRows,
               New(r).id = New(q).id \/ (New(r).name = New(q).name /\ New(r).name \in Monitors)
        PROVE  r = q
    <3>1. CASE r.id = q.id
      BY <1>8, <3>1 DEF RowsDistinct
    <3>2. CASE r.id # q.id
      BY <1>5, <1>6, <1>8, <2>1, <3>2 DEF RowsDistinct
    <3> QED
      BY <3>1, <3>2
  <2>2. \A r \in heRows : New(r).id <= heIds
    BY <1>5, <1>8 DEF RowsDistinct
  <2> QED
    BY <1>1, <1>3, <2>1, <2>2 DEF RowsDistinct
<1>11. SyncTracks(heBeat[h])'
  <2>1. RowsDistinct(b.old)' /\ b.k + 1 \in 1..(Len(b.rep) + 1)
    BY <1>1, <1>7, <1>8 DEF SyncTracks, RowsDistinct
  <2>2. ASSUME NEW r \in heRows, New(r).id \notin b.seen \cup {d.id}
        PROVE  New(r) = r /\ r.id \notin b.seen
    BY <1>5, <2>2
  <2>3. \A r \in heRows : New(r).id \notin b.seen \cup {d.id} => \E e \in b.old : e.id = New(r).id
    BY <1>5, <1>8 DEF SyncTracks
  <2>4. ASSUME NEW r \in heRows, New(r).id \in b.seen \cup {d.id}
        PROVE  New(r).name = Custom \/ \E j \in 1..b.k : New(r).name = b.rep[j]
    <3>1. CASE r.id = d.id /\ write
      BY <1>5, <1>8, <3>1 DEF name
    <3>2. CASE r.id = d.id /\ ~write
      <4>1. r.name \in {d.name, Custom} /\ New(r) = r
        BY <1>1, <1>4, <1>5, <1>8, <3>2 DEF SyncTracks
      <4> QED
        BY <1>8, <1>9, <3>2, <4>1 DEF name
    <3>3. CASE r.id # d.id
      <4>1. New(r) = r /\ r.id \in b.seen
        BY <1>5, <2>4, <3>3
      <4> QED
        BY <1>1, <1>8, <4>1 DEF SyncTracks
    <3> QED
      BY <3>1, <3>2, <3>3
  <2>5. ASSUME NEW r \in heRows, NEW e \in b.old, e.id = New(r).id, New(r).id \notin b.seen \cup {d.id}
        PROVE  New(r).name \in {e.name, Custom}
    BY <1>1, <1>8, <2>2, <2>5 DEF SyncTracks
  <2> QED
    BY <1>3, <1>7, <1>8, <2>1, <2>3, <2>4, <2>5 DEF SyncTracks
<1>12. ASSUME heClean = NoReport PROVE SyncAchieves(heBeat[h])'
  <2>1. SyncAchieves(b) /\ d \in heRows
    BY <1>4, <1>8, <1>12 DEF SyncAchieves
  <2>2. \A r \in heRows : r.id # d.id => r \in heRows'
    BY <1>3, <1>5
  <2>3. \A e \in b.old : e.id \notin b.seen \cup {d.id} => e \in heRows'
    BY <2>1, <2>2 DEF SyncAchieves
  <2>4. New(d) \in heRows' /\ New(d).name = name /\ New(d).index = b.k /\ New(d).id = d.id
    BY <1>3, <1>5, <1>9, <2>1
  <2>5. ASSUME NEW j \in 1..b.k
        PROVE  \E r \in heRows' : r.name = b.rep[j] /\ r.index = j /\ r.id \in b.seen \cup {d.id}
    <3>1. CASE j = b.k
      BY <2>4, <3>1 DEF name
    <3>2. CASE j # b.k
      <4>1. PICK r \in heRows : r.name = b.rep[j] /\ r.index = j /\ r.id \in b.seen
        BY <1>8, <2>1, <3>2 DEF SyncAchieves
      <4> QED
        BY <1>4, <2>2, <4>1
    <3> QED
      BY <3>1, <3>2
  <2>6. ASSUME NEW r \in heRows, New(r).id \in b.seen \cup {d.id}
        PROVE  New(r).lay \/ \E j \in 1..b.k : New(r).name = b.rep[j]
    <3>1. CASE r.id = d.id
      <4>1. r = d
        BY <1>8, <2>1, <3>1 DEF RowsDistinct
      <4> QED
        BY <1>8, <2>4, <4>1 DEF name
    <3>2. CASE r.id # d.id
      <4>1. New(r) = r /\ r.id \in b.seen
        BY <1>5, <2>6, <3>2
      <4> QED
        BY <1>8, <2>1, <4>1 DEF SyncAchieves
    <3> QED
      BY <3>1, <3>2
  <2> QED
    BY <1>3, <1>7, <1>8, <2>3, <2>5, <2>6 DEF SyncAchieves
<1> QED
  BY <1>1, <1>7, <1>10, <1>11, <1>12, SyncStep

\* A row is created only for a name and an id no row has.
LEMMA SyncCreateKept ==
  ASSUME HeartbeatTypes, DisplaysTrue, NEW h \in Beats, SyncCreate(h)
  PROVE  DisplaysTrue'
<1> DEFINE b == heBeat[h]
           name == b.rep[b.k]
           new == createDisplayForKiosk(name, b.k)
<1>1. /\ b \in BeatStates /\ b.pc = "sync" /\ b.k <= Len(b.rep) /\ UNCHANGED <<heLock, heClean>>
      /\ heIds \in Nat /\ heIds' = heIds + 1 /\ heRows' = heRows \cup {new}
      /\ heBeat' = [heBeat EXCEPT ![h].k = b.k + 1, ![h].seen = @ \cup {heIds + 1}]
      /\ findReportedDisplayMatch(b.old, b.seen, name, b.k) = {}
  BY DEF SyncCreate, HeartbeatTypes
<1>2. new.id = heIds + 1 /\ new.name = name /\ new.index = b.k
  BY DEF createDisplayForKiosk
<1>3. \A r \in heRows : r.name # name
  BY <1>1, NameTaken
<1>4. /\ \A o \in Beats \ {h} : heBeat'[o] = heBeat[o]
      /\ heBeat'[h].pc = "sync" /\ heBeat'[h].rep = b.rep /\ heBeat'[h].old = b.old
      /\ heBeat'[h].k = b.k + 1 /\ heBeat'[h].seen = b.seen \cup {heIds + 1}
  <2>1. heIds + 1 \in Nat /\ heBeat \in [Beats -> BeatStates]
    BY DEF HeartbeatTypes
  <2>2. heBeat' = [heBeat EXCEPT ![h].k = heBeat[h].k + 1, ![h].seen = @ \cup {heIds + 1}]
    BY <1>1
  <2> QED
    BY <1>1, <2>1, <2>2, BeatMoves
<1>5. /\ b.k \in Nat \ {0} /\ Len(b.rep) \in Nat
      /\ RowsDistinct(heRows) /\ SyncTracks(b) /\ (heClean = NoReport => SyncAchieves(b))
  BY <1>1, BeatTyped DEF DisplaysTrue
<1>6. \A r \in heRows \cup b.old : r.id \in Nat /\ r.id <= heIds /\ r.id # heIds + 1
  <2>1. \A r \in heRows \cup b.old : r.id \in Nat
    <3>1. heRows \cup b.old \subseteq DisplayRows
      BY <1>1, BeatTyped DEF HeartbeatTypes
    <3> QED
      BY <3>1 DEF DisplayRows
  <2> QED
    BY <1>1, <1>5, <2>1 DEF SyncTracks, RowsDistinct
<1> HIDE DEF new, name
<1>7. RowsDistinct(heRows)' /\ RowsDistinct(heBeat[h].old)'
  <2>1. \A r \in heRows' : r.id <= heIds'
    BY <1>1, <1>2, <1>6
  <2>2. ASSUME NEW r \in heRows', NEW q \in heRows',
               r.id = q.id \/ (r.name = q.name /\ r.name \in Monitors)
        PROVE  r = q
    <3>1. CASE r \in heRows /\ q \in heRows
      BY <1>5, <2>2, <3>1 DEF RowsDistinct
    <3>2. CASE r = new \/ q = new
      BY <1>1, <1>2, <1>3, <1>6, <2>2, <3>2
    <3> QED
      BY <1>1, <3>1, <3>2
  <2>3. RowsDistinct(b.old)
    BY <1>5 DEF SyncTracks
  <2>4. \A r \in b.old : r.id <= heIds'
    BY <1>1, <1>6
  <2>5. RowsDistinct(heRows)'
    BY <2>1, <2>2 DEF RowsDistinct
  <2>6. RowsDistinct(heBeat[h].old)'
    <3>1. heBeat'[h].old = b.old
      BY <1>4
    <3>2. \A r, q \in b.old : r.id = q.id \/ (r.name = q.name /\ r.name \in Monitors) => r = q
      BY <2>3 DEF RowsDistinct
    <3> QED
      BY <2>4, <3>1, <3>2 DEF RowsDistinct
  <2> QED
    BY <2>5, <2>6
<1>8. SyncTracks(heBeat[h])'
  <2>1. b.k + 1 \in 1..(Len(b.rep) + 1)
    BY <1>1, <1>5
  <2>2. \A r \in heRows' : r.id \notin b.seen \cup {heIds + 1} => \E e \in b.old : e.id = r.id
    BY <1>1, <1>2, <1>5 DEF SyncTracks
  <2>3. ASSUME NEW r \in heRows', r.id \in b.seen \cup {heIds + 1}
        PROVE  r.name = Custom \/ \E j \in 1..b.k : r.name = b.rep[j]
    <3>1. CASE r = new
      BY <1>2, <1>5, <3>1 DEF name
    <3>2. CASE r \in heRows
      BY <1>1, <1>5, <1>6, <2>3, <3>2 DEF SyncTracks
    <3> QED
      BY <1>1, <3>1, <3>2
  <2>4. ASSUME NEW r \in heRows', NEW e \in b.old, e.id = r.id, r.id \notin b.seen \cup {heIds + 1}
        PROVE  r.name \in {e.name, Custom}
    BY <1>1, <1>2, <1>5, <2>4 DEF SyncTracks
  <2> QED
    BY <1>4, <1>5, <1>7, <2>1, <2>2, <2>3, <2>4 DEF SyncTracks
<1>9. ASSUME heClean = NoReport PROVE SyncAchieves(heBeat[h])'
  <2>1. SyncAchieves(b)
    BY <1>5, <1>9
  <2>2. \A e \in b.old : e.id \notin b.seen \cup {heIds + 1} => e \in heRows'
    BY <1>1, <2>1 DEF SyncAchieves
  <2>3. ASSUME NEW j \in 1..b.k
        PROVE  \E r \in heRows' : r.name = b.rep[j] /\ r.index = j /\ r.id \in b.seen \cup {heIds + 1}
    <3>1. CASE j = b.k
      BY <1>1, <1>2, <3>1 DEF name
    <3>2. CASE j # b.k
      BY <1>1, <1>5, <2>1, <3>2 DEF SyncAchieves
    <3> QED
      BY <3>1, <3>2
  <2>4. ASSUME NEW r \in heRows', r.id \in b.seen \cup {heIds + 1}
        PROVE  r.lay \/ \E j \in 1..b.k : r.name = b.rep[j]
    <3>1. CASE r = new
      BY <1>2, <1>5, <3>1 DEF name
    <3>2. CASE r \in heRows
      BY <1>1, <1>5, <1>6, <2>1, <2>4, <3>2 DEF SyncAchieves
    <3> QED
      BY <1>1, <3>1, <3>2
  <2> QED
    BY <1>4, <1>5, <2>2, <2>3, <2>4 DEF SyncAchieves
<1> QED
  BY <1>1, <1>4, <1>7, <1>8, <1>9, SyncStep

\* What is deleted was not reported.
LEMMA DeleteKept ==
  ASSUME HeartbeatTypes, DisplaysTrue, NEW h \in Beats, NEW d \in heBeat[h].old,
         deleteDisplayIfUnused(h, d)
  PROVE  DisplaysTrue'
<1> DEFINE b == heBeat[h]
<1>1. /\ b \in BeatStates /\ b.pc = "sync" /\ b.k > Len(b.rep) /\ UNCHANGED <<heIds, heLock, heClean>>
      /\ d.id \notin b.seen /\ heRows' = {r \in heRows : r.id # d.id \/ r.lay}
      /\ heBeat' = [heBeat EXCEPT ![h].seen = @ \cup {d.id}]
  BY DEF deleteDisplayIfUnused, HeartbeatTypes
<1>2. d.id \in Nat
  BY <1>1, BeatTyped DEF DisplayRows
<1>3. /\ \A o \in Beats \ {h} : heBeat'[o] = heBeat[o]
      /\ heBeat'[h].pc = "sync" /\ heBeat'[h].rep = b.rep /\ heBeat'[h].old = b.old
      /\ heBeat'[h].k = b.k /\ heBeat'[h].seen = b.seen \cup {d.id}
  BY <1>1, <1>2, BeatMoves DEF HeartbeatTypes
<1>4. /\ b.k \in Nat \ {0} /\ Len(b.rep) \in Nat
      /\ RowsDistinct(heRows) /\ SyncTracks(b) /\ (heClean = NoReport => SyncAchieves(b))
  BY <1>1, BeatTyped DEF DisplaysTrue
<1>5. RowsDistinct(heRows)'
  BY <1>1, <1>4 DEF RowsDistinct
<1>6. SyncTracks(heBeat[h])'
  BY <1>1, <1>3, <1>4 DEF SyncTracks, RowsDistinct
<1>7. ASSUME heClean = NoReport PROVE SyncAchieves(heBeat[h])'
  BY <1>1, <1>3, <1>4, <1>7 DEF SyncAchieves
<1> QED
  BY <1>1, <1>3, <1>5, <1>6, <1>7, SyncStep

\* Every row listed has been matched or dealt with: the report has settled.
LEMMA SyncEndKept ==
  ASSUME HeartbeatTypes, DisplaysTrue, NEW h \in Beats, SyncEnd(h)
  PROVE  DisplaysTrue'
<1> DEFINE b == heBeat[h]
<1>1. /\ b \in BeatStates /\ b.pc = "sync" /\ b.k > Len(b.rep) /\ \A d \in b.old : d.id \in b.seen
      /\ heLock' = "none" /\ heClean' = (IF heClean = Touched THEN NoReport ELSE b.rep)
      /\ UNCHANGED <<heRows, heIds>>
  BY DEF SyncEnd, HeartbeatTypes
<1>2. heBeat'[h].pc = "answer" /\ \A o \in Beats \ {h} : heBeat'[o] = heBeat[o]
  BY DEF SyncEnd, HeartbeatTypes, NoBeat
<1>3. heLock = h /\ h # "none" /\ heClean \in {NoReport, Touched}
  BY <1>1, HeartbeatAssumption DEF DisplaysTrue, SyncsAlone, HeartbeatAssumption
<1>4. \A o \in Beats : heBeat'[o].pc # "sync"
  BY <1>2, <1>3 DEF DisplaysTrue, SyncsAlone
<1>5. RowsDistinct(heRows) /\ SyncTracks(b) /\ (heClean = NoReport => SyncAchieves(b))
  BY <1>1 DEF DisplaysTrue
<1>6. b.k = Len(b.rep) + 1 /\ Len(b.rep) \in Nat /\ DOMAIN b.rep = 1..Len(b.rep)
  <2>1. b.rep \in Seq(Monitors)
    BY <1>1, BeatTyped DEF MonitorLists
  <2> QED
    BY <1>1, <1>5, <2>1 DEF SyncTracks
<1>7. ReportSettles'
  <2> SUFFICES ASSUME heClean # Touched, heClean' = b.rep PROVE ReportSettles'
    BY <1>1 DEF ReportSettles
  <2>1. SyncAchieves(b)
    BY <1>3, <1>5
  <2>2. \A r \in heRows : r.id \in b.seen
    BY <1>1, <1>5 DEF SyncTracks
  <2>3. \A r \in heRows : r.lay \/ \E k \in DOMAIN b.rep : b.rep[k] = r.name
    BY <1>6, <2>1, <2>2 DEF SyncAchieves
  <2>4. ASSUME NEW k \in DOMAIN b.rep
        PROVE  \E r \in heRows : /\ r.name = b.rep[k] /\ r.index = k
                                 /\ \A q \in heRows \ {r} : q.name # b.rep[k]
    <3>1. PICK r \in heRows : r.name = b.rep[k] /\ r.index = k
      BY <1>6, <2>1 DEF SyncAchieves
    <3>2. b.rep[k] \in Monitors
      BY <1>1, <1>6, BeatTyped
    <3> QED
      BY <1>5, <3>1, <3>2 DEF RowsDistinct
  <2> QED
    BY <1>1, <2>3, <2>4 DEF ReportSettles
<1>8. RowsDistinct(heRows)' /\ SyncsAlone'
  BY <1>1, <1>4, <1>5 DEF RowsDistinct, SyncsAlone
<1>9. \A o \in Beats : heBeat'[o].pc \in {"echo", "lock"} => heBeat'[o].k = 1 /\ heBeat'[o].seen = {}
  BY <1>2 DEF DisplaysTrue
<1> QED
  BY <1>4, <1>7, <1>8, <1>9 DEF DisplaysTrue

\* An administrator's edit keeps the row's id and gives at most the custom name.
LEMMA RowEdited ==
  ASSUME HeartbeatTypes, DisplaysTrue, NEW r \in heRows, NEW s, s.id = r.id,
         s.name \in {r.name, Custom}, heRows' = (heRows \ {r}) \cup {s},
         heClean' = Touched, UNCHANGED <<heBeat, heLock, heIds>>
  PROVE  DisplaysTrue'
<1>1. Touched # NoReport
  BY DEF Touched, NoReport
<1>2. RowsDistinct(heRows)'
  BY HeartbeatAssumption DEF DisplaysTrue, RowsDistinct, HeartbeatAssumption
<1>3. ASSUME NEW h \in Beats, heBeat[h].pc = "sync" PROVE SyncTracks(heBeat[h])'
  <2>1. SyncTracks(heBeat[h])
    BY <1>3 DEF DisplaysTrue
  <2>2. RowsDistinct(heBeat[h].old)'
    BY <2>1 DEF SyncTracks, RowsDistinct
  <2> QED
    BY <2>1, <2>2 DEF SyncTracks
<1>4. SyncsAlone' /\ ReportSettles'
  BY DEF DisplaysTrue, SyncsAlone, ReportSettles
<1> QED
  BY <1>1, <1>2, <1>3, <1>4 DEF DisplaysTrue

\* Every step keeps the rows and the reports in order.
LEMMA DisplaysKept ==
  ASSUME HeartbeatTypes, DisplaysTrue, HeartbeatNext
  PROVE  DisplaysTrue'
<1>0. \A h \in Beats : heBeat[h].pc \in {"echo", "lock"} => heBeat[h].k = 1 /\ heBeat[h].seen = {}
  BY DEF DisplaysTrue
<1>1. CASE Plug
  BY <1>0, <1>1, DisplaysUntouched DEF Plug, heDisplayVars
<1>2. CASE NoAnswer
  BY <1>0, <1>2, DisplaysUntouched DEF NoAnswer, heDisplayVars
<1>3. CASE apply_pending_managed_config
  BY <1>0, <1>3, DisplaysUntouched DEF apply_pending_managed_config, heDisplayVars
<1>4. CASE Restart
  BY <1>0, <1>4, DisplaysUntouched DEF Restart, heDisplayVars
<1>5. ASSUME NEW h \in Beats, send_heartbeat(h) PROVE DisplaysTrue'
  BY <1>0, <1>5, DisplaysUntouched DEF send_heartbeat, heDisplayVars, HeartbeatTypes, NoBeat
<1>6. ASSUME NEW h \in Beats, Echo(h) PROVE DisplaysTrue'
  <2>1. heBeat[h] \in BeatStates /\ heBeat[h].pc = "echo" /\ UNCHANGED heDisplayVars
    BY <1>6 DEF Echo, HeartbeatTypes
  <2>2. /\ heBeat'[h] = [heBeat[h] EXCEPT !.pc = "lock"]
        /\ \A o \in Beats \ {h} : heBeat'[o] = heBeat[o]
    BY <1>6 DEF Echo, HeartbeatTypes
  <2>3. heBeat'[h].pc = "lock" /\ heBeat'[h].k = heBeat[h].k /\ heBeat'[h].seen = heBeat[h].seen
    BY <2>1, <2>2 DEF BeatStates
  <2> QED
    BY <1>0, <2>1, <2>2, <2>3, DisplaysUntouched DEF heDisplayVars
<1>7. ASSUME NEW h \in Beats, HeartbeatAnswer(h) PROVE DisplaysTrue'
  BY <1>0, <1>7, DisplaysUntouched DEF HeartbeatAnswer, heDisplayVars, HeartbeatTypes, NoBeat
<1>8. ASSUME NEW h \in Beats, HeartbeatFails(h) PROVE DisplaysTrue'
  <2>1. /\ heBeat'[h].pc = "none" /\ \A o \in Beats \ {h} : heBeat'[o] = heBeat[o]
        /\ heLock' = (IF heLock = h THEN "none" ELSE heLock)
        /\ UNCHANGED <<heRows, heIds, heClean>>
    BY <1>8 DEF HeartbeatFails, HeartbeatTypes, NoBeat
  <2>2. \A o \in Beats \ {h} : heBeat'[o].pc = "sync" => heLock' = heLock
    BY <2>1 DEF DisplaysTrue, SyncsAlone
  <2> QED
    BY <1>0, <2>1, <2>2, DisplaysUntouched
<1>9. ASSUME NEW r \in heRows, attachLayout(r) PROVE DisplaysTrue'
  <2> DEFINE s == [r EXCEPT !.lay = ~r.lay]
  <2>1. s.id = r.id /\ s.name = r.name
    BY DEF HeartbeatTypes, DisplayRows
  <2>2. /\ heRows' = (heRows \ {r}) \cup {s} /\ heClean' = Touched
        /\ UNCHANGED <<heBeat, heLock, heIds>>
    BY <1>9 DEF attachLayout
  <2> HIDE DEF s
  <2> QED
    BY <2>1, <2>2, RowEdited
<1>10. ASSUME NEW r \in heRows, NEW n \in {r.name, Custom}, NEW on \in BOOLEAN, updateDisplay(r, n, on)
       PROVE  DisplaysTrue'
  <2> DEFINE s == [r EXCEPT !.name = n, !.on = on]
  <2>1. s.id = r.id /\ s.name = n
    BY DEF HeartbeatTypes, DisplayRows
  <2>2. /\ heRows' = (heRows \ {r}) \cup {s} /\ heClean' = Touched
        /\ UNCHANGED <<heBeat, heLock, heIds>>
    BY <1>10 DEF updateDisplay
  <2> HIDE DEF s
  <2> QED
    BY <2>1, <2>2, RowEdited
<1>11. ASSUME NEW a \in Savers, SaveWrite(a) \/ \E f \in Fields : SaveRead(a, f) PROVE DisplaysTrue'
  BY <1>0, <1>11, DisplaysUntouched DEF SaveWrite, SaveRead, heDisplayVars
<1> QED
  BY <1>1, <1>2, <1>3, <1>4, <1>5, <1>6, <1>7, <1>8, <1>9, <1>10, <1>11, SyncBeginKept, SyncUpdateKept,
     SyncCreateKept, DeleteKept, SyncEndKept DEF HeartbeatNext, HeartbeatHandler

\* The heartbeat's claims for any kiosk: whatever overlaps, fails or restarts,
\* a display sync that ends undisturbed leaves one row per reported monitor
\* and no unused row of another, and a configuration counted as applied is
\* the kiosk's, unless two saves crossed.
THEOREM HeartbeatsStaySafe == HeartbeatSpec => []HeartbeatSafe
<1>1. HeartbeatInit => HeartbeatInv
  BY HeartbeatTypesStart, DisplaysStart, ConfigStarts DEF HeartbeatInv
<1>2. HeartbeatInv /\ [HeartbeatNext]_heVars => HeartbeatInv'
  <2> SUFFICES ASSUME HeartbeatInv, [HeartbeatNext]_heVars PROVE HeartbeatInv'
    OBVIOUS
  <2>1. CASE HeartbeatNext
    BY <2>1, HeartbeatTypesKept, DisplaysKept, ConfigKept DEF HeartbeatInv
  <2>2. CASE UNCHANGED heVars
    <3>1. HeartbeatTypes'
      BY <2>2 DEF HeartbeatInv, HeartbeatTypes, heVars
    <3>2. ConfigTrue'
      BY <2>2 DEF HeartbeatInv, ConfigTrue, Reported, heVars
    <3>3. \A h \in Beats : heBeat[h].pc \in {"echo", "lock"} => heBeat[h].k = 1 /\ heBeat[h].seen = {}
      BY DEF HeartbeatInv, DisplaysTrue
    <3>4. DisplaysTrue'
      BY <2>2, <3>3, DisplaysUntouched DEF HeartbeatInv, heVars
    <3> QED
      BY <3>1, <3>2, <3>4 DEF HeartbeatInv
  <2> QED
    BY <2>1, <2>2
<1>3. HeartbeatInv => HeartbeatSafe
  <2> SUFFICES ASSUME HeartbeatInv PROVE HeartbeatSafe
    OBVIOUS
  <2>1. ReportSettles
    BY DEF HeartbeatInv, DisplaysTrue
  <2>2. AppliedIsCurrent
    BY DEF HeartbeatInv, ConfigTrue, Reported, AppliedIsCurrent
  <2> QED
    BY <2>1, <2>2 DEF HeartbeatSafe
<1> QED
  BY <1>1, <1>2, <1>3, PTL DEF HeartbeatSpec
=============================================================================
