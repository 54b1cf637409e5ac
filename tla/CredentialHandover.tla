------------------------- MODULE CredentialHandover -------------------------
(***************************************************************************)
(* What enrolment of an ioBOX promises: a serial gets one credential; the  *)
(* server keeps a copy for retries until the device has stored it, and     *)
(* then forgets it.  IoBoxPairing implements this.                         *)
(***************************************************************************)
EXTENDS Naturals

CONSTANTS Boards,       \* serial numbers
          Credentials   \* credentials the server can mint, positive naturals

VARIABLES issued,   \* credential of the serial, 0: none yet
          copy,     \* the copy the server keeps for retries, 0: none
          holds,    \* credential in the device's storage, 0: none
          stored    \* the device has stored its credential at some time

handoverVars == <<issued, copy, holds, stored>>

HandoverInit ==
  /\ issued = [s \in Boards |-> 0]
  /\ copy = [s \in Boards |-> 0]
  /\ holds = [s \in Boards |-> 0]
  /\ stored = [s \in Boards |-> FALSE]

\* The only credential the serial ever gets; a device that offered no secret
\* gets no second chance.
Issue(s) ==
  /\ issued[s] = 0
  /\ \E c \in Credentials :
       /\ issued' = [issued EXCEPT ![s] = c]
       /\ copy' \in {copy, [copy EXCEPT ![s] = c]}
  /\ UNCHANGED <<holds, stored>>

Store(s) ==
  /\ issued[s] # 0
  /\ holds' = [holds EXCEPT ![s] = issued[s]]
  /\ stored' = [stored EXCEPT ![s] = TRUE]
  /\ UNCHANGED <<issued, copy>>

Forget(s) ==
  /\ stored[s]
  /\ copy' = [copy EXCEPT ![s] = 0]
  /\ UNCHANGED <<issued, holds, stored>>

\* The device's storage is erased.
Erase(s) ==
  /\ holds' = [holds EXCEPT ![s] = 0]
  /\ UNCHANGED <<issued, copy, stored>>

HandoverNext == \E s \in Boards : Issue(s) \/ Store(s) \/ Forget(s) \/ Erase(s)

HandoverSpec == HandoverInit /\ [][HandoverNext]_handoverVars
=============================================================================
