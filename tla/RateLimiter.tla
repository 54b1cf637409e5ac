---------------------------- MODULE RateLimiter ----------------------------
(***************************************************************************)
(* createRateLimiter: a sliding window of hit timestamps per key, bounded  *)
(* in keys and in stored hits, swept on traffic.  Every login, second      *)
(* factor, pairing and public download route takes from one.               *)
(*                                                                         *)
(* A bucket's array is only filtered, appended to and counted, so it is a  *)
(* set of hits; a hit carries its number since the key's last reset, which *)
(* tells two hits of one time apart.                                       *)
(***************************************************************************)
EXTENDS Integers, FiniteSets, FiniteSetsExt

CONSTANTS Keys, windowMs, max, maxBuckets, maxEntries,
          sweepMs,     \* the interval between sweeps (1 s, or a shorter window)
          MaxTime      \* bound on the clock

ASSUME LimiterAssumption ==
  {windowMs, max, maxBuckets, maxEntries, sweepMs} \subseteq Nat \ {0} /\ MaxTime \in Nat

VARIABLES buckets,     \* [Keys -> set of hits], empty when the key has no bucket
          entries,     \* stored hits
          nextSweep,
          clock,
          admitted     \* history: [Keys -> hits admitted since the last reset]

limVars == <<buckets, entries, nextSweep, clock, admitted>>

Active(b) == {k \in Keys : b[k] # {}}
HitsOf(b) == UNION {{k} \X b[k] : k \in Keys}
Stored(b) == Cardinality(HitsOf(b))

\* trim drops the hits of a key that left the window.
trim(hits) == {h \in hits : h.at > clock - windowMs}

\* The buckets after the sweep that take and remaining begin with.
sweep(b) == IF clock < nextSweep THEN b ELSE [k \in Keys |-> trim(b[k])]
Swept == IF clock < nextSweep THEN nextSweep ELSE clock + sweepMs

\* Buckets and entries once the store is swept and the key trimmed.
Trimmed(key) == [sweep(buckets) EXCEPT ![key] = trim(@)]
Left(key) == entries - (Stored(buckets) - Stored(Trimmed(key)))

LimInit ==
  /\ buckets = [k \in Keys |-> {}]
  /\ entries = 0 /\ nextSweep = 0 /\ clock = 0
  /\ admitted = [k \in Keys |-> {}]

NewHit(key) == [at |-> clock, n |-> Cardinality(admitted[key]) + 1]

MayTake(key) ==
  /\ Cardinality(Trimmed(key)[key]) < max
  /\ Left(key) < maxEntries
  /\ Trimmed(key)[key] = {} => Cardinality(Active(Trimmed(key))) < maxBuckets

\* Mutant: the hit is pushed and the count is taken from the bucket only.
takeUncounted(key) ==
  /\ nextSweep' = Swept
  /\ buckets' = IF MayTake(key) THEN [Trimmed(key) EXCEPT ![key] = @ \cup {NewHit(key)}]
                ELSE Trimmed(key)
  /\ entries' = Left(key)
  /\ admitted' = IF MayTake(key) THEN [admitted EXCEPT ![key] = @ \cup {NewHit(key)}] ELSE admitted
  /\ UNCHANGED clock

take(key) ==
  /\ nextSweep' = Swept
  /\ IF MayTake(key)
       THEN /\ buckets' = [Trimmed(key) EXCEPT ![key] = @ \cup {NewHit(key)}]
            /\ entries' = Left(key) + 1
            /\ admitted' = [admitted EXCEPT ![key] = @ \cup {NewHit(key)}]
       ELSE /\ buckets' = Trimmed(key)
            /\ entries' = Left(key)
            /\ UNCHANGED admitted
  /\ UNCHANGED clock

\* What remaining answers; its trim and sweep change the store as take's do.
Remaining(key) ==
  IF Trimmed(key)[key] = {} /\ Cardinality(Active(Trimmed(key))) >= maxBuckets THEN 0
  ELSE Max({0, Min({max - Cardinality(Trimmed(key)[key]), maxEntries - Left(key)})})

remaining(key) ==
  /\ nextSweep' = Swept
  /\ buckets' = Trimmed(key) /\ entries' = Left(key)
  /\ UNCHANGED <<clock, admitted>>

reset(key) ==
  /\ entries' = entries - Cardinality(buckets[key])
  /\ buckets' = [buckets EXCEPT ![key] = {}]
  /\ admitted' = [admitted EXCEPT ![key] = {}]
  /\ UNCHANGED <<nextSweep, clock>>

Tick ==
  /\ clock < MaxTime /\ clock' = clock + 1
  /\ UNCHANGED <<buckets, entries, nextSweep, admitted>>

LimNext == Tick \/ \E k \in Keys : take(k) \/ remaining(k) \/ reset(k)

LimSpec == LimInit /\ [][LimNext]_limVars

-----------------------------------------------------------------------------
\* Types, and the bookkeeping: the counter is the number of stored hits, and
\* keys and hits stay within their limits whatever is trimmed, swept or reset.
StoreBounded ==
  /\ buckets \in [Keys -> SUBSET [at : 0..MaxTime, n : Nat \ {0}]]
  /\ entries = Stored(buckets) /\ entries <= maxEntries
  /\ Cardinality(Active(buckets)) <= maxBuckets

\* "Active buckets are never evicted to admit new keys, so rotating keys cannot
\* reset an existing quota": since the last reset, no window of windowMs holds
\* more than max admitted hits of a key.
QuotaHolds ==
  \A k \in Keys, t \in 0..MaxTime :
    Cardinality({h \in admitted[k] : t - windowMs < h.at /\ h.at <= t}) <= max

\* remaining tells the truth: a key with quota left may take, one without may not.
RemainingAgrees == \A k \in Keys : (Remaining(k) > 0) <=> MayTake(k)

\* The limiter as a whole: the claims above.
LimiterSafe == StoreBounded /\ QuotaHolds /\ RemainingAgrees
=============================================================================
