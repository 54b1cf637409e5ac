------------------------------ MODULE MCKioskLive ---------------------------
(* What a kiosk must get done in the end, on small instances in one state  *)
(* graph: pairing, and the upload of its journal.  They share no state, so *)
(* a behaviour chooses one of them (part) and leaves the other alone; the  *)
(* fairness of each is asked while it runs.                                *)
EXTENDS Pairing, JournalUpload

VARIABLE part   \* the component that runs

LiveInit == part \in {"pairing", "journal"} /\ Init /\ JournalInit

LiveNext ==
  /\ UNCHANGED part
  /\ \/ part = "pairing" /\ Next /\ UNCHANGED juVars
     \/ part = "journal" /\ JournalNext /\ UNCHANGED vars

LiveSpec ==
  /\ LiveInit /\ [][LiveNext]_<<part, vars, juVars>>
  /\ \A d \in Devices :
       /\ WF_vars(part = "pairing" /\ Boot(d)) /\ WF_vars(part = "pairing" /\ KeepPolling(d))
       /\ SF_vars(part = "pairing" /\ claimPairing(d))
       /\ SF_vars(part = "pairing" /\ SaveIdentity(d))
  /\ WF_juVars(part = "journal" /\ OwnerChanged) /\ WF_juVars(part = "journal" /\ read_batch)
  /\ SF_juVars(part = "journal" /\ insertKioskLogs) /\ SF_juVars(part = "journal" /\ Uploaded)
=============================================================================
