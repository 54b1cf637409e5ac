--------------------------- MODULE JournalUpload ----------------------------
(***************************************************************************)
(* The kiosk's journal uploader: batches of journal entries are posted to  *)
(* the server the kiosk is paired with, and the journal's cursor moves     *)
(* only once the server has answered.  Answers are lost, the uploader and  *)
(* the disk fail, the kiosk is paired with another owner meanwhile.        *)
(***************************************************************************)
EXTENDS Naturals, FiniteSets, Sequences

CONSTANTS MaxEntries,   \* bound on journal entries
          MaxOwners,    \* bound on pairings
          BatchSize

ASSUME JournalAssumption == {MaxEntries, MaxOwners, BatchSize} \subseteq Nat \ {0}

VARIABLES juEra,      \* the journal: sequence of the owners at the time of each entry
          juOwner,    \* the kiosk's identity; every pairing makes a new one
          juMem,      \* uploader's state: [owner, cursor, since], owner 0: none
          juDisk,     \* the state file
          juPost,     \* batch under way: [to, set, cursor, pc]
          juRows,     \* kiosk_logs: [owner, entry, copy]
          juBlank     \* history: owners taken on when the state held none

juVars == <<juEra, juOwner, juMem, juDisk, juPost, juRows, juBlank>>

NoState == [owner |-> 0, cursor |-> 0, since |-> 0]
NoPost == [to |-> 0, set |-> {}, cursor |-> 0, pc |-> "none"]

\* write_encrypted: errors are ignored.
Persist(state) ==
  juDisk' \in {state, juDisk}

Journal ==
  /\ Len(juEra) < MaxEntries /\ juEra' = Append(juEra, juOwner)
  /\ UNCHANGED <<juOwner, juMem, juDisk, juPost, juRows, juBlank>>

Repair ==
  /\ juOwner < MaxOwners /\ juOwner' = juOwner + 1
  /\ UNCHANGED <<juEra, juMem, juDisk, juPost, juRows, juBlank>>

\* A new owner gets nothing from before it was noticed, unless it is the first.
OwnerChanged ==
  LET end == Len(juEra)
      state == IF juMem.owner = 0 THEN [NoState EXCEPT !.owner = juOwner]
               ELSE [owner |-> juOwner, cursor |-> end, since |-> end] IN
  /\ juPost.pc = "none" /\ juOwner # 0 /\ juMem.owner # juOwner
  /\ juMem' = state /\ Persist(state)
  /\ juBlank' = IF juMem.owner = 0 THEN juBlank \cup {juOwner} ELSE juBlank
  /\ UNCHANGED <<juEra, juOwner, juPost, juRows>>

\* Mutant: journalctl, killed after a full batch, counts as failed.
read_batch_strict ==
  LET from == IF juMem.cursor > juMem.since THEN juMem.cursor ELSE juMem.since IN
  /\ juPost.pc = "none" /\ juMem.owner = juOwner /\ juOwner # 0
  /\ from < Len(juEra) /\ Len(juEra) - from < BatchSize
  /\ juPost' = [to |-> juOwner, set |-> from + 1 .. Len(juEra), cursor |-> Len(juEra), pc |-> "sent"]
  /\ UNCHANGED <<juEra, juOwner, juMem, juDisk, juRows, juBlank>>

\* The destination is the identity read at the top of the loop.
read_batch ==
  LET from == IF juMem.cursor > juMem.since THEN juMem.cursor ELSE juMem.since
      to == IF from + BatchSize < Len(juEra) THEN from + BatchSize ELSE Len(juEra) IN
  /\ juPost.pc = "none" /\ juMem.owner = juOwner /\ juOwner # 0 /\ from < to
  /\ juPost' = [to |-> juOwner, set |-> from + 1 .. to, cursor |-> to, pc |-> "sent"]
  /\ UNCHANGED <<juEra, juOwner, juMem, juDisk, juRows, juBlank>>

\* A vacuumed cursor: the retained window is replayed.
ReadFails ==
  /\ juPost.pc = "none" /\ juMem.owner = juOwner
  /\ juMem' = [juMem EXCEPT !.cursor = 0]
  /\ UNCHANGED <<juEra, juOwner, juDisk, juPost, juRows, juBlank>>

\* Mutant: a row for every entry of every batch.
insertKioskLogsAgain ==
  /\ juPost.pc = "sent"
  /\ juRows' = juRows \cup {[owner |-> juPost.to, entry |-> e,
                             copy |-> Cardinality({r \in juRows : r.owner = juPost.to /\ r.entry = e})]
                            : e \in juPost.set}
  /\ juPost' = [juPost EXCEPT !.pc = "stored"]
  /\ UNCHANGED <<juEra, juOwner, juMem, juDisk, juBlank>>

\* One statement for the batch, ON CONFLICT (kiosk_id, event_id) DO NOTHING.
insertKioskLogs ==
  /\ juPost.pc = "sent"
  /\ juRows' = juRows \cup {[owner |-> juPost.to, entry |-> e, copy |-> 0] : e \in juPost.set}
  /\ juPost' = [juPost EXCEPT !.pc = "stored"]
  /\ UNCHANGED <<juEra, juOwner, juMem, juDisk, juBlank>>

\* One bad entry refuses the batch as a whole, before anything is stored.
parseKioskLogs ==
  /\ juPost.pc = "sent" /\ juPost' = NoPost
  /\ UNCHANGED <<juEra, juOwner, juMem, juDisk, juRows, juBlank>>

\* The key is not accepted, the request or its answer is lost or late.
UploadFails ==
  /\ juPost.pc # "none" /\ juPost' = NoPost
  /\ UNCHANGED <<juEra, juOwner, juMem, juDisk, juRows, juBlank>>

Uploaded ==
  LET state == [juMem EXCEPT !.cursor = juPost.cursor] IN
  /\ juPost.pc = "stored"
  /\ juMem' = state /\ Persist(state)
  /\ juPost' = NoPost
  /\ UNCHANGED <<juEra, juOwner, juRows, juBlank>>

UploaderRestarts ==
  /\ juMem' = juDisk /\ juPost' = NoPost
  /\ UNCHANGED <<juEra, juOwner, juDisk, juRows, juBlank>>

-----------------------------------------------------------------------------
JournalInit ==
  /\ juEra = <<>> /\ juOwner = 0
  /\ juMem = NoState /\ juDisk = NoState /\ juPost = NoPost
  /\ juRows = {} /\ juBlank = {}

JournalNext ==
  \/ Journal \/ Repair \/ OwnerChanged \/ read_batch \/ ReadFails \/ insertKioskLogs
  \/ parseKioskLogs \/ UploadFails \/ Uploaded \/ UploaderRestarts

JournalSpec == JournalInit /\ [][JournalNext]_juVars

\* The loop goes on, and a server that is reached again and again stores a
\* batch and answers at last.
JournalFairSpec ==
  /\ JournalSpec
  /\ WF_juVars(OwnerChanged) /\ WF_juVars(read_batch)
  /\ SF_juVars(insertKioskLogs) /\ SF_juVars(Uploaded)

-----------------------------------------------------------------------------
(* Properties. *)

\* The server's copy of the journal has every entry up to the cursor that is
\* the owner's, whatever failed on the way: the cursor never passes an entry
\* that was not stored.
NothingSkipped ==
  \A s \in {juMem, juDisk} :
    \A e \in s.since + 1 .. s.cursor :
      \E r \in juRows : r.owner = s.owner /\ r.entry = e

\* Replays after a lost answer, a lost cursor or a restart leave one row.
StoredOnce == \A r \in juRows : r.copy = 0

\* journal_logs.rs: "Re-pairing must not send the previous owner's journal
\* history to the new tenant".  An owner the uploader takes on when its state
\* names none (first pairing, or no write of the state ever succeeded) gets
\* all there is; every other owner only its own entries, replays included.
NoForeignHistory ==
  \A r \in juRows : r.owner \notin juBlank => juEra[r.entry] = r.owner

\* Once journalctl and the uploader hold, every entry that follows the
\* pairing being noticed reaches the server or the kiosk is paired again.
EveryEntryArrives ==
  <>[][~ReadFails /\ ~UploaderRestarts]_juVars =>
    \A e \in 1..MaxEntries, o \in 1..MaxOwners :
      (Len(juEra) >= e /\ juMem.owner = o /\ juOwner = o /\ juMem.since < e)
        ~> (juOwner # o \/ juMem.since >= e \/ \E r \in juRows : r.owner = o /\ r.entry = e)

\* The upload as a whole: the claims above.
JournalSafe == NothingSkipped /\ StoredOnce /\ NoForeignHistory
=============================================================================
