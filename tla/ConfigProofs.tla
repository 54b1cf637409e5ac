---------------------------- MODULE ConfigProofs ----------------------------
(***************************************************************************)
(* Three parts of the server that every kiosk configuration passes through.*)
(* The rate limiter, for any keys, limits and order of hits: the counter   *)
(* is the stored hits, the store stays within its limits, and no rotation  *)
(* of keys buys a key more hits than its quota.  The kiosk bundle, for     *)
(* any cameras, entities, layouts, cells and number of admin handlers: a   *)
(* kiosk that is told of every change and whose fetches succeed shows the  *)
(* tables it was built from.  That part follows a handler as its plan, the *)
(* statements it has still to run: what any plan is like, what each kind   *)
(* of statement does to the tables, and what the plans, the fetch and the  *)
(* applied bundle have to do with each other (CfgInv).  And the database   *)
(* under both, for any tenants and servers and the databases of any past   *)
(* build: what is left of the lists is what a schema still lacks, and what *)
(* is left of a transaction is what its tenants still lack (MgInv).        *)
(***************************************************************************)
EXTENDS RateLimiter, KioskConfig, Migrations, FiniteSetTheorems, SequenceTheorems, TLAPS

Hits == [at : 0..MaxTime, n : Nat \ {0}]
Stores == [Keys -> SUBSET Hits]
Live(k) == {h \in admitted[k] : h.at > clock - windowMs}

(* Hits are only dropped when they left every window still to come, so     *)
(* that the bucket holds what the quota counts.                            *)
HitsTrue ==
  \A k \in Keys :
    /\ buckets[k] \subseteq admitted[k] /\ Live(k) \subseteq buckets[k]
    /\ IsFiniteSet(admitted[k])
    /\ \A h \in admitted[k] : h.at <= clock /\ h.n <= Cardinality(admitted[k])

LimInv ==
  /\ buckets \in Stores /\ admitted \in Stores
  /\ clock \in 0..MaxTime /\ nextSweep \in Nat
  /\ IsFiniteSet(HitsOf(buckets))
  /\ StoreBounded /\ HitsTrue /\ QuotaHolds

LEMMA HitsOfElement ==
  ASSUME NEW b, NEW p
  PROVE  p \in HitsOf(b) <=> \E k \in Keys : \E h \in b[k] : p = <<k, h>>
BY DEF HitsOf

(* A store's active keys are as finite as its hits.                        *)
LEMMA ActiveFinite ==
  ASSUME NEW b \in Stores, IsFiniteSet(HitsOf(b))
  PROVE  IsFiniteSet(Active(b))
<1> DEFINE f == [p \in HitsOf(b) |-> p[1]]
<1>1. \A p \in HitsOf(b) : p[1] \in Active(b)
  BY HitsOfElement DEF Active
<1>2. \A k \in Active(b) : \E p \in HitsOf(b) : p[1] = k
  <2> SUFFICES ASSUME NEW k \in Active(b) PROVE \E p \in HitsOf(b) : p[1] = k
    OBVIOUS
  <2>1. PICK h \in b[k] : TRUE
    BY DEF Active
  <2>2. <<k, h>> \in HitsOf(b)
    BY <2>1, HitsOfElement DEF Active
  <2> QED BY <2>2
<1>3. f \in Surjection(HitsOf(b), Active(b))
  BY <1>1, <1>2 DEF Surjection
<1> QED BY <1>3, FS_Surjection

(* What holds of a store whose buckets are parts of another's.             *)
LEMMA SmallerStore ==
  ASSUME NEW b \in Stores, NEW c \in Stores, IsFiniteSet(HitsOf(b)),
         \A k \in Keys : c[k] \subseteq b[k]
  PROVE  /\ IsFiniteSet(HitsOf(c))
         /\ Stored(c) \in Nat /\ Stored(b) \in Nat /\ Stored(c) <= Stored(b)
         /\ Cardinality(Active(c)) \in Nat /\ Cardinality(Active(b)) \in Nat
         /\ Cardinality(Active(c)) <= Cardinality(Active(b))
<1>1. HitsOf(c) \subseteq HitsOf(b)
  BY HitsOfElement
<1>2. Active(c) \subseteq Active(b)
  BY DEF Active
<1>3. IsFiniteSet(HitsOf(c)) /\ Cardinality(HitsOf(c)) <= Cardinality(HitsOf(b))
  BY <1>1, FS_Subset
<1>4. IsFiniteSet(Active(b))
  BY ActiveFinite
<1>5. IsFiniteSet(Active(c)) /\ Cardinality(Active(c)) <= Cardinality(Active(b))
  BY <1>2, <1>4, FS_Subset
<1>6. Cardinality(HitsOf(c)) \in Nat /\ Cardinality(HitsOf(b)) \in Nat
  BY <1>3, FS_CardinalityType
<1>7. Cardinality(Active(c)) \in Nat /\ Cardinality(Active(b)) \in Nat
  BY <1>4, <1>5, FS_CardinalityType
<1> QED BY <1>3, <1>5, <1>6, <1>7 DEF Stored

(* One hit more in one bucket.                                             *)
LEMMA LargerStore ==
  ASSUME NEW b \in Stores, NEW key \in Keys, NEW hit \in Hits, hit \notin b[key],
         IsFiniteSet(HitsOf(b)), NEW c \in Stores,
         \A k \in Keys : c[k] = IF k = key THEN b[key] \cup {hit} ELSE b[k]
  PROVE  /\ IsFiniteSet(HitsOf(c)) /\ Stored(c) = Stored(b) + 1
         /\ Cardinality(Active(c)) = Cardinality(Active(b)) + (IF b[key] = {} THEN 1 ELSE 0)
<1>1. HitsOf(c) = HitsOf(b) \cup {<<key, hit>>}
  <2>1. ASSUME NEW p \in HitsOf(c) PROVE p \in HitsOf(b) \cup {<<key, hit>>}
    BY <2>1, HitsOfElement
  <2>2. ASSUME NEW p \in HitsOf(b) PROVE p \in HitsOf(c)
    BY <2>2, HitsOfElement
  <2>3. <<key, hit>> \in HitsOf(c)
    BY HitsOfElement
  <2> QED BY <2>1, <2>2, <2>3
<1>2. <<key, hit>> \notin HitsOf(b)
  BY HitsOfElement
<1>3. /\ IsFiniteSet(HitsOf(b) \cup {<<key, hit>>})
      /\ Cardinality(HitsOf(b) \cup {<<key, hit>>}) = Cardinality(HitsOf(b)) + 1
  BY <1>2, FS_AddElement
<1>4. IsFiniteSet(Active(b))
  BY ActiveFinite
<1>5. Active(c) = Active(b) \cup {key} /\ (key \in Active(b) <=> b[key] # {})
  BY DEF Active
<1>6. Cardinality(Active(b)) \in Nat
  BY <1>4, FS_CardinalityType
<1>7. Cardinality(Active(b) \cup {key})
        = IF key \in Active(b) THEN Cardinality(Active(b)) ELSE Cardinality(Active(b)) + 1
  BY <1>4, FS_AddElement
<1> QED BY <1>1, <1>3, <1>5, <1>6, <1>7 DEF Stored

(* The sweep and the trim only drop hits no window will count.             *)
LEMMA TrimmedStore ==
  ASSUME LimInv, NEW key \in Keys
  PROVE  /\ Trimmed(key) \in Stores
         /\ \A k \in Keys : Trimmed(key)[k] \subseteq buckets[k] /\ Live(k) \subseteq Trimmed(key)[k]
         /\ Trimmed(key)[key] = Live(key)
<1>1. sweep(buckets) \in Stores
  BY DEF LimInv, sweep, trim, Stores
<1>2. \A k \in Keys : sweep(buckets)[k] \subseteq buckets[k] /\ Live(k) \subseteq sweep(buckets)[k]
  BY DEF LimInv, HitsTrue, sweep, trim, Stores, Live
<1>3. /\ Trimmed(key) \in Stores
      /\ \A k \in Keys : Trimmed(key)[k] = IF k = key THEN trim(sweep(buckets)[key])
                                           ELSE sweep(buckets)[k]
  BY <1>1 DEF Trimmed, trim, Stores
<1>4. trim(sweep(buckets)[key]) = Live(key)
  BY <1>2 DEF trim, Live, LimInv, HitsTrue
<1>5. Live(key) \subseteq buckets[key]
  BY DEF LimInv, HitsTrue
<1> QED BY <1>2, <1>3, <1>4, <1>5

(* Swept and trimmed, the store is within its limits and counted right.    *)
LEMMA TrimmedCounts ==
  ASSUME LimInv, NEW key \in Keys
  PROVE  /\ IsFiniteSet(HitsOf(Trimmed(key)))
         /\ Left(key) = Stored(Trimmed(key)) /\ Left(key) \in Nat /\ Left(key) <= maxEntries
         /\ Cardinality(Active(Trimmed(key))) \in Nat
         /\ Cardinality(Active(Trimmed(key))) <= maxBuckets
         /\ IsFiniteSet(Trimmed(key)[key]) /\ Cardinality(Trimmed(key)[key]) \in Nat
<1>0. {max, maxEntries, maxBuckets} \subseteq Nat
  BY LimiterAssumption
<1>1. buckets \in Stores /\ Trimmed(key) \in Stores /\ IsFiniteSet(HitsOf(buckets))
  BY TrimmedStore DEF LimInv
<1>2. \A k \in Keys : Trimmed(key)[k] \subseteq buckets[k]
  BY TrimmedStore
<1>3. /\ IsFiniteSet(HitsOf(Trimmed(key)))
      /\ Stored(Trimmed(key)) \in Nat /\ Stored(buckets) \in Nat
      /\ Stored(Trimmed(key)) <= Stored(buckets)
      /\ Cardinality(Active(Trimmed(key))) \in Nat /\ Cardinality(Active(buckets)) \in Nat
      /\ Cardinality(Active(Trimmed(key))) <= Cardinality(Active(buckets))
  BY <1>1, <1>2, SmallerStore
<1>4. entries = Stored(buckets) /\ entries <= maxEntries /\ Cardinality(Active(buckets)) <= maxBuckets
  BY DEF LimInv, StoreBounded
<1>5. Left(key) = Stored(Trimmed(key))
  BY <1>3, <1>4 DEF Left
<1>6. IsFiniteSet(Trimmed(key)[key])
  BY <1>2, FS_Subset DEF LimInv, HitsTrue
<1>7. Cardinality(Trimmed(key)[key]) \in Nat
  BY <1>6, FS_CardinalityType
<1> QED BY <1>0, <1>3, <1>4, <1>5, <1>6, <1>7

LEMMA LimInvInit == LimInit => LimInv
<1> SUFFICES ASSUME LimInit PROVE LimInv
  OBVIOUS
<1>0. {windowMs, max, maxBuckets, maxEntries} \subseteq Nat \ {0} /\ MaxTime \in Nat
  BY LimiterAssumption
<1>1. HitsOf(buckets) = {} /\ Active(buckets) = {}
  BY HitsOfElement DEF LimInit, Active
<1>2. Stored(buckets) = 0 /\ Cardinality(Active(buckets)) = 0 /\ IsFiniteSet(HitsOf(buckets))
  BY <1>1, FS_EmptySet DEF Stored
<1>3. StoreBounded
  BY <1>0, <1>2 DEF StoreBounded, LimInit
<1>4. QuotaHolds
  <2> SUFFICES ASSUME NEW k \in Keys, NEW t \in 0..MaxTime
               PROVE  Cardinality({h \in admitted[k] : t - windowMs < h.at /\ h.at <= t}) <= max
    BY DEF QuotaHolds
  <2>1. {h \in admitted[k] : t - windowMs < h.at /\ h.at <= t} = {}
    BY DEF LimInit
  <2>2. Cardinality({h \in admitted[k] : t - windowMs < h.at /\ h.at <= t}) = 0
    BY <2>1, FS_EmptySet
  <2> QED BY <2>2, <1>0
<1>5. HitsTrue
  BY FS_EmptySet DEF HitsTrue, LimInit, Live
<1> QED BY <1>0, <1>2, <1>3, <1>4, <1>5 DEF LimInv, LimInit, Stores

(* What remaining does to the store, and a take that is refused.           *)
LEMMA TrimKeeps ==
  ASSUME LimInv, NEW key \in Keys, nextSweep' = Swept,
         buckets' = Trimmed(key), entries' = Left(key), UNCHANGED <<clock, admitted>>
  PROVE  LimInv'
<1>1. buckets' \in Stores /\ IsFiniteSet(HitsOf(buckets'))
  BY TrimmedStore, TrimmedCounts
<1>2. HitsTrue'
  BY TrimmedStore DEF LimInv, HitsTrue, Live
<1>3. entries' = Stored(buckets')
  BY TrimmedCounts
<1>4. StoreBounded'
  BY <1>1, <1>3, TrimmedCounts DEF StoreBounded, Stored, HitsOf, Active, Stores, Hits
<1>5. QuotaHolds'
  BY DEF LimInv, QuotaHolds
<1>6. nextSweep' \in Nat
  BY LimiterAssumption DEF LimInv, Swept
<1>7. IsFiniteSet(HitsOf(buckets))'
  BY <1>1 DEF HitsOf
<1> QED BY <1>1, <1>2, <1>4, <1>5, <1>6, <1>7 DEF LimInv

(* A hit is new, and takes one place of the store and of the quota.        *)
LEMMA AdmitKeeps ==
  ASSUME LimInv, NEW key \in Keys, MayTake(key), nextSweep' = Swept,
         buckets' = [Trimmed(key) EXCEPT ![key] = @ \cup {NewHit(key)}],
         entries' = Left(key) + 1,
         admitted' = [admitted EXCEPT ![key] = @ \cup {NewHit(key)}], UNCHANGED clock
  PROVE  LimInv'
<1> DEFINE T == Trimmed(key)
           hit == NewHit(key)
           total == Cardinality(admitted[key])
<1>0. /\ max \in Nat /\ maxEntries \in Nat /\ maxBuckets \in Nat /\ windowMs \in Nat \ {0}
      /\ MaxTime \in Nat
  BY LimiterAssumption
<1>1. /\ T \in Stores /\ T[key] = Live(key)
      /\ \A k \in Keys : T[k] \subseteq buckets[k] /\ Live(k) \subseteq T[k]
  BY TrimmedStore
<1>2. /\ IsFiniteSet(HitsOf(T)) /\ Left(key) = Stored(T) /\ Left(key) \in Nat
      /\ Left(key) <= maxEntries
      /\ Cardinality(Active(T)) \in Nat /\ Cardinality(Active(T)) <= maxBuckets
      /\ IsFiniteSet(T[key]) /\ Cardinality(T[key]) \in Nat
  BY TrimmedCounts
<1>3. /\ Cardinality(T[key]) < max /\ Left(key) < maxEntries
      /\ T[key] = {} => Cardinality(Active(T)) < maxBuckets
  BY DEF MayTake
<1>4. /\ IsFiniteSet(admitted[key]) /\ buckets[key] \subseteq admitted[key]
      /\ \A h \in admitted[key] : h.at <= clock /\ h.n <= total
      /\ admitted \in Stores /\ clock \in 0..MaxTime
  BY DEF LimInv, HitsTrue
<1>5. total \in Nat
  BY <1>4, FS_CardinalityType
<1>6. hit = [at |-> clock, n |-> total + 1] /\ hit.at = clock /\ hit.n = total + 1
  BY DEF NewHit
<1>7. hit \in Hits
  BY <1>4, <1>5, <1>6 DEF Hits
<1>8. hit \notin admitted[key] /\ hit \notin T[key]
  BY <1>1, <1>4, <1>5, <1>6
<1> HIDE DEF T, hit, total
<1>9. /\ buckets' = [T EXCEPT ![key] = T[key] \cup {hit}]
      /\ admitted' = [admitted EXCEPT ![key] = admitted[key] \cup {hit}]
  BY DEF T, hit
<1>10. buckets' \in Stores /\ admitted' \in Stores
  <2>1. T[key] \cup {hit} \in SUBSET Hits /\ admitted[key] \cup {hit} \in SUBSET Hits
    BY <1>1, <1>4, <1>7 DEF Stores
  <2>2. [T EXCEPT ![key] = T[key] \cup {hit}] \in Stores
    BY <1>1, <2>1 DEF Stores
  <2>3. [admitted EXCEPT ![key] = admitted[key] \cup {hit}] \in Stores
    BY <1>4, <2>1 DEF Stores
  <2> QED BY <1>9, <2>2, <2>3
<1>11. /\ IsFiniteSet(admitted[key] \cup {hit})
       /\ Cardinality(admitted[key] \cup {hit}) = total + 1
  BY <1>4, <1>8, FS_AddElement DEF total
<1>12. HitsTrue'
  <2> SUFFICES ASSUME NEW k \in Keys
               PROVE  /\ buckets'[k] \subseteq admitted'[k]
                      /\ {h \in admitted'[k] : h.at > clock' - windowMs} \subseteq buckets'[k]
                      /\ IsFiniteSet(admitted'[k])
                      /\ \A h \in admitted'[k] : h.at <= clock' /\ h.n <= Cardinality(admitted'[k])
    BY DEF HitsTrue, Live
  <2>1. CASE k = key
    <3>1. buckets'[k] = T[key] \cup {hit} /\ admitted'[k] = admitted[key] \cup {hit}
      BY <1>1, <1>4, <1>9, <2>1 DEF Stores
    <3>2. \A h \in admitted[key] \cup {hit} : h.at <= clock /\ h.n <= total + 1
      BY <1>4, <1>5, <1>6, <1>0 DEF Stores, Hits
    <3>3. {h \in admitted[key] \cup {hit} : h.at > clock - windowMs} \subseteq Live(key) \cup {hit}
      BY DEF Live
    <3> QED BY <1>1, <1>4, <1>11, <3>1, <3>2, <3>3
  <2>2. CASE k # key
    <3>1. buckets'[k] = T[k] /\ admitted'[k] = admitted[k]
      BY <1>1, <1>4, <1>9, <2>2 DEF Stores
    <3> QED BY <1>1, <3>1 DEF LimInv, HitsTrue, Live
  <2> QED BY <2>1, <2>2
<1>13. /\ IsFiniteSet(HitsOf(buckets')) /\ Stored(buckets') = Stored(T) + 1
       /\ Cardinality(Active(buckets'))
            = Cardinality(Active(T)) + (IF T[key] = {} THEN 1 ELSE 0)
  <2>1. \A k \in Keys : buckets'[k] = IF k = key THEN T[key] \cup {hit} ELSE T[k]
    BY <1>1, <1>9 DEF Stores
  <2>2. \A c \in Stores :
          (\A k \in Keys : c[k] = IF k = key THEN T[key] \cup {hit} ELSE T[k]) =>
             /\ IsFiniteSet(HitsOf(c)) /\ Stored(c) = Stored(T) + 1
             /\ Cardinality(Active(c)) = Cardinality(Active(T)) + (IF T[key] = {} THEN 1 ELSE 0)
    BY <1>1, <1>2, <1>7, <1>8, LargerStore
  <2> QED BY <1>10, <2>1, <2>2
<1>14. Cardinality(Active(buckets')) <= maxBuckets
  BY <1>0, <1>2, <1>3, <1>13
<1>15. entries' = Stored(T) + 1 /\ entries' <= maxEntries
  BY <1>0, <1>2, <1>3
<1>16. StoreBounded'
  <2>1. entries' = Cardinality(HitsOf(buckets'))
    BY <1>13, <1>15 DEF Stored
  <2> QED BY <1>10, <1>14, <1>15, <2>1 DEF StoreBounded, Stored, HitsOf, Active, Stores, Hits
<1>17. QuotaHolds'
  <2> SUFFICES ASSUME NEW k \in Keys, NEW t \in 0..MaxTime
               PROVE  Cardinality({h \in admitted'[k] : t - windowMs < h.at /\ h.at <= t}) <= max
    BY DEF QuotaHolds
  <2> DEFINE before == {h \in admitted[k] : t - windowMs < h.at /\ h.at <= t}
             after == {h \in admitted'[k] : t - windowMs < h.at /\ h.at <= t}
  <2>1. Cardinality(before) <= max
    BY DEF LimInv, QuotaHolds
  <2>2. CASE k # key
    <3>1. after = before
      BY <1>9, <2>2, <1>4 DEF Stores
    <3> QED BY <2>1, <3>1
  <2>3. CASE k = key /\ t < clock
    <3>1. admitted'[k] = admitted[k] \cup {hit}
      BY <1>4, <1>9, <2>3 DEF Stores
    <3>2. ~(hit.at <= t)
      BY <1>4, <1>6, <2>3
    <3>3. after = before
      BY <3>1, <3>2
    <3> QED BY <2>1, <3>3
  <2>4. CASE k = key /\ t >= clock
    <3>1. admitted'[k] = admitted[k] \cup {hit}
      BY <1>4, <1>9, <2>4 DEF Stores
    <3>2. \A h \in admitted[k] : h.at \in Int
      BY <1>4 DEF Stores, Hits
    <3>3. \A h \in admitted[k] : t - windowMs < h.at => h \in Live(key)
      BY <1>0, <1>4, <2>4, <3>2 DEF Live
    <3>4. after \subseteq T[key] \cup {hit}
      BY <1>1, <3>1, <3>3
    <3>5. /\ IsFiniteSet(T[key] \cup {hit})
          /\ Cardinality(T[key] \cup {hit}) = Cardinality(T[key]) + 1
      BY <1>2, <1>8, FS_AddElement
    <3>6. IsFiniteSet(after) /\ Cardinality(after) <= Cardinality(T[key] \cup {hit})
      BY <3>4, <3>5, FS_Subset
    <3>7. Cardinality(after) \in Nat
      BY <3>6, FS_CardinalityType
    <3> QED BY <1>0, <1>2, <1>3, <3>5, <3>6, <3>7
  <2>5. t < clock \/ t >= clock
    BY <1>4
  <2> QED BY <2>2, <2>3, <2>4, <2>5
<1>18. nextSweep' \in Nat
  BY LimiterAssumption DEF LimInv, Swept
<1>19. IsFiniteSet(HitsOf(buckets))'
  BY <1>13 DEF HitsOf
<1> QED BY <1>4, <1>10, <1>12, <1>16, <1>17, <1>18, <1>19 DEF LimInv

(* A reset forgets a key's hits, and what it was admitted.                 *)
LEMMA ResetKeeps == ASSUME LimInv, NEW key \in Keys, reset(key) PROVE LimInv'
<1> DEFINE keep == [buckets EXCEPT ![key] = {}]
           gone == {key} \X buckets[key]
<1>1. /\ entries' = entries - Cardinality(buckets[key]) /\ buckets' = keep
      /\ admitted' = [admitted EXCEPT ![key] = {}] /\ UNCHANGED <<nextSweep, clock>>
  BY DEF reset
<1>2. /\ buckets \in Stores /\ admitted \in Stores /\ IsFiniteSet(HitsOf(buckets))
      /\ entries = Cardinality(HitsOf(buckets)) /\ entries <= maxEntries
      /\ Cardinality(Active(buckets)) <= maxBuckets
  BY DEF LimInv, StoreBounded, Stored
<1>0. maxEntries \in Nat /\ maxBuckets \in Nat
  BY LimiterAssumption
<1>3. keep \in Stores /\ admitted' \in Stores
  BY <1>1, <1>2 DEF Stores
<1>4. \A k \in Keys : /\ keep[k] = IF k = key THEN {} ELSE buckets[k]
                      /\ admitted'[k] = IF k = key THEN {} ELSE admitted[k]
  BY <1>1, <1>2 DEF Stores
<1> HIDE DEF keep
<1>5. HitsOf(keep) = HitsOf(buckets) \ gone
  <2>1. ASSUME NEW p \in HitsOf(keep) PROVE p \in HitsOf(buckets) \ gone
    BY <1>4, <2>1, HitsOfElement
  <2>2. ASSUME NEW p \in HitsOf(buckets) \ gone PROVE p \in HitsOf(keep)
    BY <1>4, <2>2, HitsOfElement
  <2> QED BY <2>1, <2>2
<1>6. HitsOf(buckets) \cap gone = gone
  BY HitsOfElement
<1>7. Cardinality(HitsOf(keep)) = Cardinality(HitsOf(buckets)) - Cardinality(gone)
  BY <1>2, <1>5, <1>6, FS_Difference
<1>8. IsFiniteSet(buckets[key])
  BY FS_Subset DEF LimInv, HitsTrue
<1>9. Cardinality(buckets[key]) \in Nat
  BY <1>8, FS_CardinalityType
<1>10. Cardinality(gone) = Cardinality(buckets[key])
  <2>1. Cardinality(gone) = Cardinality({key}) * Cardinality(buckets[key])
    BY <1>8, FS_Singleton, FS_Product
  <2>2. Cardinality({key}) = 1
    BY FS_Singleton
  <2> QED BY <1>9, <2>1, <2>2
<1>11. /\ IsFiniteSet(HitsOf(keep))
       /\ Stored(keep) \in Nat /\ Stored(keep) <= Stored(buckets)
       /\ Cardinality(Active(keep)) \in Nat /\ Cardinality(Active(buckets)) \in Nat
       /\ Cardinality(Active(keep)) <= Cardinality(Active(buckets))
  BY <1>2, <1>3, <1>4, SmallerStore
<1>12. entries' = Stored(keep) /\ entries' <= maxEntries
       /\ Cardinality(Active(keep)) <= maxBuckets
  <2>1. Stored(buckets) \in Nat
    BY <1>2, <1>3, <1>4, SmallerStore
  <2> QED BY <1>0, <1>1, <1>2, <1>7, <1>10, <1>11, <2>1 DEF Stored
<1>13. StoreBounded'
  <2>1. entries' = Cardinality(HitsOf(buckets'))
    BY <1>1, <1>12 DEF Stored
  <2> QED BY <1>1, <1>3, <1>12, <2>1 DEF StoreBounded, Stored, HitsOf, Active, Stores, Hits
<1>14. HitsTrue'
  <2> SUFFICES ASSUME NEW k \in Keys
               PROVE  /\ keep[k] \subseteq admitted'[k]
                      /\ {h \in admitted'[k] : h.at > clock - windowMs} \subseteq keep[k]
                      /\ IsFiniteSet(admitted'[k])
                      /\ \A h \in admitted'[k] : h.at <= clock /\ h.n <= Cardinality(admitted'[k])
    BY <1>1 DEF HitsTrue, Live
  <2>1. CASE k = key
    BY <1>4, <2>1, FS_EmptySet
  <2>2. CASE k # key
    BY <1>4, <2>2 DEF LimInv, HitsTrue, Live
  <2> QED BY <2>1, <2>2
<1>15. QuotaHolds'
  <2> SUFFICES ASSUME NEW k \in Keys, NEW t \in 0..MaxTime
               PROVE  Cardinality({h \in admitted'[k] : t - windowMs < h.at /\ h.at <= t}) <= max
    BY DEF QuotaHolds
  <2>1. CASE k = key
    <3>1. {h \in admitted'[k] : t - windowMs < h.at /\ h.at <= t} = {}
      BY <1>4, <2>1
    <3>2. Cardinality({h \in admitted'[k] : t - windowMs < h.at /\ h.at <= t}) = 0
      BY <3>1, FS_EmptySet
    <3> QED BY <3>2, LimiterAssumption
  <2>2. CASE k # key
    <3>1. admitted'[k] = admitted[k]
      BY <1>4, <2>2
    <3> QED BY <3>1 DEF LimInv, QuotaHolds
  <2> QED BY <2>1, <2>2
<1>16. IsFiniteSet(HitsOf(buckets))'
  BY <1>1, <1>11 DEF HitsOf
<1> QED BY <1>1, <1>3, <1>13, <1>14, <1>15, <1>16 DEF LimInv

LEMMA TickKeeps == ASSUME LimInv, Tick PROVE LimInv'
<1>1. clock' = clock + 1 /\ clock' \in 0..MaxTime /\ UNCHANGED <<buckets, entries, nextSweep, admitted>>
  BY LimiterAssumption DEF Tick, LimInv
<1>2. HitsTrue'
  <2> SUFFICES ASSUME NEW k \in Keys
               PROVE  /\ {h \in admitted[k] : h.at > clock' - windowMs} \subseteq buckets[k]
                      /\ \A h \in admitted[k] : h.at <= clock'
    BY <1>1 DEF HitsTrue, LimInv, Live
  <2>1. \A h \in admitted[k] : h.at \in Int /\ h.at <= clock
    BY DEF LimInv, HitsTrue, Stores, Hits
  <2>2. windowMs \in Nat /\ clock \in Nat
    BY LimiterAssumption DEF LimInv
  <2>3. \A h \in admitted[k] : h.at > clock' - windowMs => h \in Live(k)
    BY <1>1, <2>1, <2>2 DEF Live
  <2> QED BY <1>1, <2>1, <2>2, <2>3 DEF LimInv, HitsTrue
<1> QED BY <1>1, <1>2 DEF LimInv, StoreBounded, QuotaHolds, Stored, HitsOf, Active

LEMMA LimInvStep == LimInv /\ [LimNext]_limVars => LimInv'
<1> SUFFICES ASSUME LimInv, [LimNext]_limVars PROVE LimInv'
  OBVIOUS
<1>1. CASE UNCHANGED limVars
  BY <1>1 DEF limVars, LimInv, StoreBounded, QuotaHolds, HitsTrue, Live, Stored, HitsOf, Active
<1>2. CASE Tick
  BY <1>2, TickKeeps
<1>3. ASSUME NEW key \in Keys, take(key) PROVE LimInv'
  <2>1. CASE MayTake(key)
    BY <1>3, <2>1, AdmitKeeps DEF take
  <2>2. CASE ~MayTake(key)
    BY <1>3, <2>2, TrimKeeps DEF take
  <2> QED BY <2>1, <2>2
<1>4. ASSUME NEW key \in Keys, remaining(key) PROVE LimInv'
  BY <1>4, TrimKeeps DEF remaining
<1>5. ASSUME NEW key \in Keys, reset(key) PROVE LimInv'
  BY <1>5, ResetKeeps
<1> QED BY <1>1, <1>2, <1>3, <1>4, <1>5 DEF LimNext

LEMMA MinOfTwo ==
  ASSUME NEW x \in Int, NEW y \in Int
  PROVE  Min({x, y}) = IF x <= y THEN x ELSE y
<1>1. \E z \in {x, y} : \A w \in {x, y} : z =< w
  OBVIOUS
<1>2. Min({x, y}) \in {x, y} /\ \A w \in {x, y} : Min({x, y}) =< w
  BY <1>1 DEF Min
<1> QED BY <1>2

LEMMA MaxOfTwo ==
  ASSUME NEW x \in Int, NEW y \in Int
  PROVE  Max({x, y}) = IF x <= y THEN y ELSE x
<1>1. \E z \in {x, y} : \A w \in {x, y} : z >= w
  OBVIOUS
<1>2. Max({x, y}) \in {x, y} /\ \A w \in {x, y} : Max({x, y}) >= w
  BY <1>1 DEF Max
<1> QED BY <1>2

(* remaining and take judge the same store by the same limits.             *)
LEMMA RemainingIsTrue == LimInv => RemainingAgrees
<1> SUFFICES ASSUME LimInv, NEW key \in Keys PROVE (Remaining(key) > 0) <=> MayTake(key)
  BY DEF RemainingAgrees
<1> DEFINE hits == Cardinality(Trimmed(key)[key])
           full == Trimmed(key)[key] = {} /\ Cardinality(Active(Trimmed(key))) >= maxBuckets
           left == IF max - hits <= maxEntries - Left(key) THEN max - hits ELSE maxEntries - Left(key)
<1>1. max \in Nat /\ maxEntries \in Nat /\ maxBuckets \in Nat
  BY LimiterAssumption
<1>2. /\ Left(key) \in Nat /\ hits \in Nat /\ Cardinality(Active(Trimmed(key))) \in Nat
  BY TrimmedCounts
<1>3. left \in Int
  BY <1>1, <1>2
<1>4. Min({max - hits, maxEntries - Left(key)}) = left
  BY <1>1, <1>2, MinOfTwo
<1>5. Max({0, left}) = IF 0 <= left THEN left ELSE 0
  BY <1>3, MaxOfTwo
<1>6. Remaining(key) = IF full THEN 0 ELSE IF 0 <= left THEN left ELSE 0
  BY <1>4, <1>5 DEF Remaining
<1>7. MayTake(key) <=> hits < max /\ Left(key) < maxEntries /\ ~full
  BY <1>1, <1>2 DEF MayTake
<1> HIDE DEF hits, full
<1> QED BY <1>1, <1>2, <1>6, <1>7

(* The limiter keeps its promises for every set of keys, window and limit: *)
(* the counter is what is stored, the store is bounded, a key is never     *)
(* admitted more than max times in a window whatever other keys, sweeps    *)
(* and refusals come between, and remaining agrees with take.              *)
THEOREM LimiterStaysSafe == LimSpec => []LimiterSafe
<1>1. LimInv => LimiterSafe
  BY RemainingIsTrue DEF LimInv, LimiterSafe
<1> QED BY <1>1, LimInvInit, LimInvStep, PTL DEF LimSpec

-----------------------------------------------------------------------------
(* KioskConfig: the statements a handler may hold, by the tables they name. *)

Kinds == {"insertCamera", "insertEntity", "insertCell", "insertLayout", "import", "addStream",
          "dropStreams", "enable", "disableOthers", "ensureDevice", "deleteDevice", "deleteCamera",
          "labelDevice", "label", "unlabel", "unlabelAll", "operate", "setEntity", "readEntity",
          "propagate", "deleteEntity", "assignCell", "clearCell", "deleteCell", "dropCameraCells",
          "cloneCells", "cloneDisplays", "dropLayoutCells", "deleteLayout", "attach", "detach",
          "clearDefault", "readAttached", "setDisplay", "setDefault", "prefs", "notify"}
RowIds == Layouts \cup Cells \cup Entities \cup Cameras
Args == RowIds \cup BOOLEAN \cup {Null, Web}
SourceOK(s) ==
  /\ s.k \in {"insertCamera", "import", "addStream", "dropStreams", "enable", "deleteCamera",
              "label", "unlabel", "dropCameraCells"} => s.x \in Cameras
  /\ s.k \in {"setEntity", "readEntity", "propagate", "deleteEntity"} => s.x \in Entities
  /\ s.k \in {"insertCell", "assignCell", "clearCell", "deleteCell"} => s.x \in Cells
  /\ s.k \in {"insertLayout", "cloneCells", "cloneDisplays", "dropLayoutCells", "deleteLayout",
              "attach", "detach", "clearDefault"} => s.x \in Layouts
  /\ s.k \in {"setDisplay", "labelDevice", "operate"} => s.x \in BOOLEAN
  /\ s.k = "insertEntity" => s.x \in Entities \cup {Null}
ValueOK(s) ==
  /\ s.k = "insertEntity" => s.y \in Cameras \cup {Web}
  /\ s.k = "import" => s.y \in Entities \cup {Null}
  /\ s.k = "enable" => s.y \in BOOLEAN
  /\ s.k = "setEntity" => s.y \in Cameras \cup {Null}
  /\ s.k = "insertCell" => s.y \in Layouts \X Entities
  /\ s.k = "assignCell" => s.y \in Entities
  /\ s.k \in {"cloneCells", "cloneDisplays"} => s.y \in Layouts
Stmts == {s \in [k : Kinds, x : Args, y : Args \cup (Layouts \X Entities) \cup SUBSET DeviceCams] :
            SourceOK(s) /\ ValueOK(s)}

(* A statement that copies the content of an entity into cells, and the    *)
(* entity; the statement before it has read the entity.                    *)
Copying == {"propagate", "insertCell", "assignCell"}
Copied(s) == IF s.k = "propagate" THEN s.x ELSE IF s.k = "insertCell" THEN s.y[2] ELSE s.y
Growing == {"import", "disableOthers", "cloneCells"}
Makes == {"insertEntity", "import"}
Made(s) == IF s.k = "insertEntity" THEN s.x ELSE s.y

ReadsFirst(t) ==
  \A i \in 2..Len(t) :
    t[i].k \in Copying => t[i - 1].k = "readEntity" /\ t[i - 1].x = Copied(t[i])
WritesThrough(t) ==
  \A i \in 1..Len(t) :
    t[i].k = "setEntity" => /\ i + 2 <= Len(t)
                            /\ t[i + 1].k = "readEntity" /\ t[i + 1].x = t[i].x
                            /\ t[i + 2].k = "propagate" /\ t[i + 2].x = t[i].x
(* A handler tells the kiosks last, or is one of the few that tell nobody. *)
EndsTold(t) ==
  /\ Len(t) > 0 /\ \A i \in 1..Len(t) - 1 : t[i] # Notify
  /\ \/ t[Len(t)] = Notify \/ t[Len(t)].k \in SilentEnds
     \/ Len(t) = 1 /\ t[1].k = "insertLayout"
Plan(t) == t \in Seq(Stmts) /\ ReadsFirst(t) /\ WritesThrough(t) /\ EndsTold(t)

(* The rows a plan relies on: the entities it shows in cells were there,   *)
(* the one it makes was not, and it makes one at most.                     *)
Known(t, used) ==
  /\ \A i \in 1..Len(t) : /\ t[i].k \in {"insertCell", "assignCell"} => Copied(t[i]) \in used
                          /\ t[i].k \in Makes /\ Made(t[i]) # Null => Made(t[i]) \notin used
  /\ \A i, j \in 1..Len(t) : t[i].k \in Makes /\ t[j].k \in Makes => i = j

(* Statements that can follow others, and be followed.                     *)
Steps(t) ==
  /\ t \in Seq(Stmts) /\ Len(t) > 0
  /\ ReadsFirst(t) /\ WritesThrough(t) /\ t[1].k \notin Copying
Untold(t) == \A i \in 1..Len(t) : t[i] # Notify
Makers(t) == {i \in 1..Len(t) : t[i].k \in Makes}

Request(h) == Plan(h) /\ Known(h, db.used) /\ h[1].k \notin Copying

(* Statements that need nothing of those around them.                      *)
Fresh1(s) == s.k \in Makes /\ Made(s) # Null => Made(s) \notin db.used
Plain(s) == s \in Stmts /\ s.k \notin Copying \cup Makes \cup {"setEntity", "notify"}

LEMMA NotifyIs == Notify \in Stmts /\ Notify.k = "notify"
BY DEF Notify, S, Stmts, SourceOK, ValueOK, Kinds, Args

LEMMA PlanOf1 ==
  ASSUME NEW a, Plain(a), a.k \in SilentEnds \cup {"insertLayout"}
  PROVE  Request(<<a>>)
<1>1. a \in Stmts /\ a.k \notin Copying \cup Makes \cup {"setEntity", "notify"}
  BY DEF Plain
<1>2. <<a>> \in Seq(Stmts) /\ Len(<<a>>) = 1 /\ <<a>>[1] = a
  BY <1>1
<1> DEFINE t == <<a>>
<1> HIDE DEF t
<1>3. t \in Seq(Stmts) /\ Len(t) = 1 /\ t[1] = a
  BY <1>2 DEF t
<1>4. ReadsFirst(t) /\ WritesThrough(t) /\ t[1].k \notin Copying
  BY <1>1, <1>3 DEF ReadsFirst, WritesThrough
<1>5. EndsTold(t)
  BY <1>1, <1>3 DEF EndsTold
<1>6. Known(t, db.used)
  BY <1>1, <1>3 DEF Known, Copying
<1> QED BY <1>3, <1>4, <1>5, <1>6 DEF t, Request, Plan

LEMMA PlanOf2 ==
  ASSUME NEW a \in Stmts, a.k \notin Copying \cup {"setEntity", "notify"}, Fresh1(a)
  PROVE  Request(<<a, Notify>>)
<1> DEFINE t == <<a, Notify>>
<1>1. t \in Seq(Stmts) /\ Len(t) = 2 /\ t[1] = a /\ t[2] = Notify
  BY NotifyIs
<1> HIDE DEF t
<1>2. ReadsFirst(t) /\ WritesThrough(t) /\ EndsTold(t) /\ t[1].k \notin Copying
  BY <1>1, NotifyIs DEF ReadsFirst, WritesThrough, EndsTold, Copying
<1>3. Known(t, db.used)
  BY <1>1, NotifyIs DEF Known, Fresh1, Makes, Copying
<1> QED BY <1>1, <1>2, <1>3 DEF t, Request, Plan

LEMMA PlanOf3 ==
  ASSUME NEW a \in Stmts, NEW b \in Stmts, NEW c \in Stmts,
         a.k \notin Copying \cup {"setEntity", "notify"}, b.k \notin {"setEntity", "notify"},
         b.k \in Copying => a.k = "readEntity" /\ a.x = Copied(b) /\ Copied(b) \in db.used,
         Fresh1(a), Fresh1(b), a.k \in Makes => b.k \notin Makes,
         c = Notify \/ (c.k \in SilentEnds /\ Plain(c))
  PROVE  Request(<<a, b, c>>)
<1> DEFINE t == <<a, b, c>>
<1>1. t \in Seq(Stmts) /\ Len(t) = 3 /\ t[1] = a /\ t[2] = b /\ t[3] = c
  OBVIOUS
<1> HIDE DEF t
<1>2. c.k \notin Copying \cup Makes \cup {"setEntity"}
  BY NotifyIs DEF Plain, Copying, Makes
<1>3. ReadsFirst(t) /\ WritesThrough(t) /\ t[1].k \notin Copying
  BY <1>1, <1>2 DEF ReadsFirst, WritesThrough
<1>4. EndsTold(t)
  BY <1>1, NotifyIs DEF EndsTold
<1>5. Known(t, db.used)
  BY <1>1, <1>2 DEF Known, Fresh1, Copying
<1> QED BY <1>1, <1>3, <1>4, <1>5 DEF t, Request, Plan

LEMMA StepsThenSteps ==
  ASSUME NEW x, NEW y, NEW used, Steps(x), Steps(y)
  PROVE  /\ Steps(x \o y)
         /\ Known(x, used) /\ Known(y, used) /\ (Makers(x) = {} \/ Makers(y) = {}) => Known(x \o y, used)
<1> DEFINE t == x \o y
<1>1. x \in Seq(Stmts) /\ y \in Seq(Stmts) /\ Len(x) \in Nat /\ Len(y) \in Nat /\ Len(x) > 0 /\ Len(y) > 0
  BY LenProperties DEF Steps
<1>2. /\ t \in Seq(Stmts) /\ Len(t) = Len(x) + Len(y)
      /\ \A i \in 1..Len(x) + Len(y) : t[i] = IF i <= Len(x) THEN x[i] ELSE y[i - Len(x)]
  BY <1>1, ConcatProperties
<1> HIDE DEF t
<1>3. /\ \A i \in 1..Len(x) : t[i] = x[i]
      /\ \A i \in Len(x) + 1..Len(x) + Len(y) : t[i] = y[i - Len(x)] /\ i - Len(x) \in 1..Len(y)
  <2>1. ASSUME NEW i \in 1..Len(x) PROVE t[i] = x[i]
    BY <1>1, <1>2
  <2>2. ASSUME NEW i \in Len(x) + 1..Len(x) + Len(y)
        PROVE  t[i] = y[i - Len(x)] /\ i - Len(x) \in 1..Len(y)
    <3>1. i \in 1..Len(x) + Len(y) /\ ~(i <= Len(x)) /\ i - Len(x) \in 1..Len(y)
      BY <1>1
    <3>2. t[i] = IF i <= Len(x) THEN x[i] ELSE y[i - Len(x)]
      BY <1>2, <3>1
    <3> QED BY <3>1, <3>2
  <2> QED BY <2>1, <2>2
<1>4. ReadsFirst(t)
  <2> SUFFICES ASSUME NEW i \in 2..Len(t), t[i].k \in Copying
               PROVE  t[i - 1].k = "readEntity" /\ t[i - 1].x = Copied(t[i])
    BY DEF ReadsFirst
  <2>1. CASE i <= Len(x)
    <3>1. t[i] = x[i] /\ t[i - 1] = x[i - 1] /\ i \in 2..Len(x)
      BY <1>1, <1>3, <2>1
    <3> QED BY <3>1 DEF Steps, ReadsFirst
  <2>2. CASE i > Len(x)
    <3>1. t[i] = y[i - Len(x)] /\ i - Len(x) \in 1..Len(y)
      BY <1>1, <1>2, <1>3, <2>2
    <3>2. i - Len(x) # 1
      BY <3>1 DEF Steps
    <3>3. i - Len(x) \in 2..Len(y) /\ t[i - 1] = y[i - Len(x) - 1]
      <4>1. i - 1 \in Len(x) + 1..Len(x) + Len(y) /\ (i - 1) - Len(x) = i - Len(x) - 1
        BY <1>1, <1>2, <3>1, <3>2
      <4>2. t[i - 1] = y[(i - 1) - Len(x)]
        BY <1>3, <4>1
      <4> QED BY <1>1, <3>1, <3>2, <4>1, <4>2
    <3> QED BY <3>1, <3>3 DEF Steps, ReadsFirst
  <2> QED BY <1>1, <1>2, <2>1, <2>2
<1>5. WritesThrough(t)
  <2> SUFFICES ASSUME NEW i \in 1..Len(t), t[i].k = "setEntity"
               PROVE  /\ i + 2 <= Len(t) /\ t[i + 1].k = "readEntity" /\ t[i + 1].x = t[i].x
                      /\ t[i + 2].k = "propagate" /\ t[i + 2].x = t[i].x
    BY DEF WritesThrough
  <2>1. CASE i <= Len(x)
    <3>1. t[i] = x[i] /\ i \in 1..Len(x)
      BY <1>1, <1>3, <2>1
    <3>2. i + 2 <= Len(x) /\ x[i + 1].k = "readEntity" /\ x[i + 1].x = t[i].x
          /\ x[i + 2].k = "propagate" /\ x[i + 2].x = t[i].x
      BY <3>1 DEF Steps, WritesThrough
    <3>3. t[i + 1] = x[i + 1] /\ t[i + 2] = x[i + 2]
      BY <1>1, <1>3, <3>1, <3>2
    <3> QED BY <1>1, <1>2, <3>1, <3>2, <3>3
  <2>2. CASE i > Len(x)
    <3> DEFINE j == i - Len(x)
    <3>1. t[i] = y[j] /\ j \in 1..Len(y) /\ i = j + Len(x)
      <4>1. i \in Len(x) + 1..Len(x) + Len(y)
        BY <1>1, <1>2, <2>2
      <4> QED BY <1>1, <1>3, <4>1
    <3> HIDE DEF j
    <3>2. j + 2 <= Len(y) /\ y[j + 1].k = "readEntity" /\ y[j + 1].x = t[i].x
          /\ y[j + 2].k = "propagate" /\ y[j + 2].x = t[i].x
      BY <3>1 DEF Steps, WritesThrough
    <3>3. /\ i + 1 \in Len(x) + 1..Len(x) + Len(y) /\ (i + 1) - Len(x) = j + 1
          /\ i + 2 \in Len(x) + 1..Len(x) + Len(y) /\ (i + 2) - Len(x) = j + 2
      BY <1>1, <3>1, <3>2
    <3>4. t[i + 1] = y[j + 1] /\ t[i + 2] = y[j + 2]
      BY <1>3, <3>3
    <3> QED BY <1>1, <1>2, <3>1, <3>2, <3>3, <3>4
  <2> QED BY <1>1, <1>2, <2>1, <2>2
<1>6. ASSUME Known(x, used), Known(y, used), Makers(x) = {} \/ Makers(y) = {} PROVE Known(t, used)
  <2>1. \A i \in 1..Len(t) : \/ i \in 1..Len(x) /\ t[i] = x[i]
                             \/ i - Len(x) \in 1..Len(y) /\ t[i] = y[i - Len(x)]
    BY <1>1, <1>2, <1>3
  <2>2. \A i \in 1..Len(t) : /\ t[i].k \in {"insertCell", "assignCell"} => Copied(t[i]) \in used
                             /\ t[i].k \in Makes /\ Made(t[i]) # Null => Made(t[i]) \notin used
    BY <1>6, <2>1 DEF Known
  <2>3. ASSUME NEW i \in 1..Len(t), NEW j \in 1..Len(t), t[i].k \in Makes, t[j].k \in Makes
        PROVE  i = j
    <3>1. CASE Makers(x) = {}
      <4>1. /\ i - Len(x) \in 1..Len(y) /\ t[i] = y[i - Len(x)]
            /\ j - Len(x) \in 1..Len(y) /\ t[j] = y[j - Len(x)]
        BY <2>1, <2>3, <3>1 DEF Makers
      <4>2. i - Len(x) = j - Len(x)
        BY <1>6, <2>3, <4>1 DEF Known
      <4> QED BY <1>1, <1>2, <4>2
    <3>2. CASE Makers(y) = {}
      <4>1. i \in 1..Len(x) /\ t[i] = x[i] /\ j \in 1..Len(x) /\ t[j] = x[j]
        BY <2>1, <2>3, <3>2 DEF Makers
      <4> QED BY <1>6, <2>3, <4>1 DEF Known
    <3> QED BY <1>6, <3>1, <3>2
  <2> QED BY <2>2, <2>3 DEF Known
<1>7. t[1].k \notin Copying
  BY <1>1, <1>3 DEF Steps
<1> QED BY <1>1, <1>2, <1>4, <1>5, <1>6, <1>7 DEF Steps, t

LEMMA UntoldThenEnds ==
  ASSUME NEW x \in Seq(Stmts), NEW y \in Seq(Stmts), Untold(x)
  PROVE  /\ Untold(y) => Untold(x \o y)
         /\ EndsTold(y) /\ y[Len(y)].k # "insertLayout" => EndsTold(x \o y)
<1> DEFINE t == x \o y
<1>1. Len(x) \in Nat /\ Len(y) \in Nat
  BY LenProperties
<1>2. /\ t \in Seq(Stmts) /\ Len(t) = Len(x) + Len(y)
      /\ \A i \in 1..Len(x) + Len(y) : t[i] = IF i <= Len(x) THEN x[i] ELSE y[i - Len(x)]
  BY ConcatProperties
<1> HIDE DEF t
<1>3. \A i \in 1..Len(t) : \/ i \in 1..Len(x) /\ t[i] = x[i]
                           \/ i - Len(x) \in 1..Len(y) /\ t[i] = y[i - Len(x)]
  BY <1>1, <1>2
<1>4. Untold(y) => Untold(t)
  BY <1>3 DEF Untold
<1>5. ASSUME EndsTold(y), y[Len(y)].k # "insertLayout" PROVE EndsTold(t)
  <2>1. Len(y) > 0 /\ (y[Len(y)] = Notify \/ y[Len(y)].k \in SilentEnds)
    BY <1>1, <1>5 DEF EndsTold
  <2>2. Len(t) > 0 /\ t[Len(t)] = y[Len(y)]
    <3>1. Len(t) \in 1..Len(x) + Len(y) /\ ~(Len(t) <= Len(x)) /\ Len(t) - Len(x) = Len(y)
      BY <1>1, <1>2, <2>1
    <3> QED BY <1>2, <3>1
  <2>3. ASSUME NEW i \in 1..Len(t) - 1 PROVE t[i] # Notify
    <3>1. i \in 1..Len(t)
      BY <1>1, <1>2
    <3>2. CASE i \in 1..Len(x) /\ t[i] = x[i]
      BY <3>2 DEF Untold
    <3>3. CASE i - Len(x) \in 1..Len(y) /\ t[i] = y[i - Len(x)]
      <4>1. i - Len(x) \in 1..Len(y) - 1
        BY <1>1, <1>2, <3>3
      <4> QED BY <1>5, <3>3, <4>1 DEF EndsTold
    <3> QED BY <1>3, <3>1, <3>2, <3>3
  <2> QED BY <2>1, <2>2, <2>3 DEF EndsTold
<1> QED BY <1>4, <1>5 DEF t

(* A body of a handler, and the handler it is when it tells the kiosks.    *)
Body(t) == Steps(t) /\ Untold(t) /\ Known(t, db.used)

LEMMA BodyThenBody ==
  ASSUME NEW x, NEW y, Body(x), Body(y), Makers(x) = {} \/ Makers(y) = {}
  PROVE  Body(x \o y)
<1>1. Steps(x \o y) /\ Known(x \o y, db.used)
  BY StepsThenSteps DEF Body
<1>2. Untold(x \o y)
  BY UntoldThenEnds DEF Body, Steps
<1> QED BY <1>1, <1>2 DEF Body

LEMMA BodyThenRequest ==
  ASSUME NEW x, NEW y, Body(x), Request(y), y[Len(y)].k # "insertLayout",
         Makers(x) = {} \/ Makers(y) = {}
  PROVE  Request(x \o y)
<1>1. Steps(y) /\ Known(y, db.used) /\ EndsTold(y)
  BY DEF Request, Plan, Steps, EndsTold
<1>2. Steps(x \o y) /\ Known(x \o y, db.used)
  BY <1>1, StepsThenSteps DEF Body
<1>3. EndsTold(x \o y)
  BY <1>1, UntoldThenEnds DEF Body, Steps
<1> QED BY <1>2, <1>3 DEF Request, Steps, Plan

LEMMA BodyThenNotify ==
  ASSUME NEW x, Body(x)
  PROVE  Request(x \o <<Notify>>)
<1> DEFINE y == <<Notify>>
<1>1. y \in Seq(Stmts) /\ Len(y) = 1 /\ y[1] = Notify
  BY NotifyIs
<1> HIDE DEF y
<1>2. Plan(y) /\ y[1].k \notin Copying
  BY <1>1, NotifyIs DEF Plan, EndsTold, ReadsFirst, WritesThrough, Copying
<1>3. Known(y, db.used) /\ Makers(y) = {}
  BY <1>1, NotifyIs DEF Known, Makers, Makes
<1>4. Request(y) /\ y[Len(y)].k # "insertLayout"
  BY <1>1, <1>2, <1>3, NotifyIs DEF Request
<1>5. Request(x \o y)
  BY <1>3, <1>4, BodyThenRequest
<1> QED BY <1>5 DEF y

LEMMA BodyOf1 ==
  ASSUME NEW a \in Stmts, a.k \notin Copying \cup {"setEntity", "notify"}, Fresh1(a)
  PROVE  Body(<<a>>) /\ (Plain(a) => Makers(<<a>>) = {})
<1> DEFINE t == <<a>>
<1>1. t \in Seq(Stmts) /\ Len(t) = 1 /\ t[1] = a
  OBVIOUS
<1> HIDE DEF t
<1>2. Steps(t) /\ Untold(t)
  BY <1>1, NotifyIs DEF Steps, Untold, ReadsFirst, WritesThrough
<1>3. Known(t, db.used)
  BY <1>1 DEF Known, Fresh1, Copying
<1>4. Plain(a) => Makers(t) = {}
  BY <1>1 DEF Plain, Makers
<1> QED BY <1>2, <1>3, <1>4 DEF Body, t

LEMMA BodyOf2 ==
  ASSUME NEW a, Plain(a), NEW b \in Stmts, b.k \notin Makes \cup {"setEntity", "notify"},
         b.k \in Copying => a.k = "readEntity" /\ a.x = Copied(b)
  PROVE  /\ Steps(<<a, b>>) /\ Untold(<<a, b>>) /\ Makers(<<a, b>>) = {}
         /\ (b.k \in Copying => Copied(b) \in db.used) => Body(<<a, b>>)
<1> DEFINE t == <<a, b>>
<1>1. t \in Seq(Stmts) /\ Len(t) = 2 /\ t[1] = a /\ t[2] = b
  BY DEF Plain
<1> HIDE DEF t
<1>2. a.k \notin Copying \cup Makes \cup {"setEntity", "notify"}
  BY DEF Plain
<1>3. Steps(t) /\ Untold(t)
  BY <1>1, <1>2, NotifyIs DEF Steps, Untold, ReadsFirst, WritesThrough
<1>4. Makers(t) = {} /\ ((b.k \in Copying => Copied(b) \in db.used) => Known(t, db.used))
  BY <1>1, <1>2 DEF Known, Copying, Makers
<1> QED BY <1>3, <1>4 DEF Body, t

LEMMA BodyOf3 ==
  ASSUME NEW a, NEW b \in Stmts, NEW c, Plain(a), Plain(c),
         b.k \notin Copying \cup {"setEntity", "notify"}
  PROVE  /\ Steps(<<a, b, c>>) /\ Untold(<<a, b, c>>) /\ (Fresh1(b) => Body(<<a, b, c>>))
         /\ Plain(b) => Makers(<<a, b, c>>) = {}
<1> DEFINE t == <<a, b, c>>
<1>1. t \in Seq(Stmts) /\ Len(t) = 3 /\ t[1] = a /\ t[2] = b /\ t[3] = c
  BY DEF Plain
<1> HIDE DEF t
<1>2. /\ a.k \notin Copying \cup Makes \cup {"setEntity", "notify"}
      /\ c.k \notin Copying \cup Makes \cup {"setEntity", "notify"}
  BY DEF Plain
<1>3. Steps(t) /\ Untold(t)
  BY <1>1, <1>2, NotifyIs DEF Steps, Untold, ReadsFirst, WritesThrough
<1>4. Fresh1(b) => Known(t, db.used)
  BY <1>1, <1>2 DEF Known, Fresh1, Copying, Makes
<1>5. Plain(b) => Makers(t) = {}
  BY <1>1, <1>2 DEF Makers, Plain
<1> QED BY <1>3, <1>4, <1>5 DEF Body, t

LEMMA BodyOf4 ==
  ASSUME NEW a, NEW b, NEW c, NEW d, Plain(a), Plain(b), Plain(c), Plain(d)
  PROVE  Body(<<a, b, c, d>>)
<1> DEFINE t == <<a, b, c, d>>
<1>1. t \in Seq(Stmts) /\ Len(t) = 4 /\ t[1] = a /\ t[2] = b /\ t[3] = c /\ t[4] = d
  BY DEF Plain
<1> HIDE DEF t
<1>2. \A i \in 1..Len(t) : t[i].k \notin Copying \cup Makes \cup {"setEntity", "notify"}
  BY <1>1 DEF Plain
<1>3. Steps(t) /\ Untold(t)
  BY <1>1, <1>2, NotifyIs DEF Steps, Untold, ReadsFirst, WritesThrough
<1>4. Known(t, db.used)
  BY <1>2 DEF Known, Copying, Makes
<1> QED BY <1>3, <1>4 DEF Body, t

LEMMA BodyOfUpdate ==
  ASSUME NEW e \in Entities, NEW x \in Cameras \cup {Null}
  PROVE  Body(updateEntity(e, x)) /\ Makers(updateEntity(e, x)) = {}
<1> DEFINE set == S("setEntity", e, x)
           read == S("readEntity", e, Null)
           prop == S("propagate", e, Null)
           t == <<set, read, prop>>
<1>1. /\ set \in Stmts /\ read \in Stmts /\ prop \in Stmts
      /\ set.k = "setEntity" /\ set.x = e /\ read.k = "readEntity" /\ read.x = e
      /\ prop.k = "propagate" /\ prop.x = e
  BY DEF S, Stmts, SourceOK, ValueOK, Kinds, Args, RowIds
<1>2. updateEntity(e, x) = t
  BY DEF updateEntity
<1> HIDE DEF set, read, prop
<1>3. t \in Seq(Stmts) /\ Len(t) = 3 /\ t[1] = set /\ t[2] = read /\ t[3] = prop
  BY <1>1
<1> HIDE DEF t
<1>4. ReadsFirst(t) /\ WritesThrough(t) /\ t[1].k \notin Copying
  BY <1>1, <1>3 DEF ReadsFirst, WritesThrough, Copying, Copied
<1>5. Untold(t)
  BY <1>1, <1>3, NotifyIs DEF Untold
<1>6. Known(t, db.used) /\ Makers(t) = {}
  BY <1>1, <1>3 DEF Known, Makers, Copying, Makes
<1> QED BY <1>2, <1>3, <1>4, <1>5, <1>6 DEF Body, Steps

-----------------------------------------------------------------------------
(* The statements the handlers are made of.                                *)
LEMMA CameraStmts ==
  ASSUME NEW c \in Cameras, NEW en \in BOOLEAN
  PROVE  /\ Plain(S("insertCamera", c, Null)) /\ Plain(S("addStream", c, Null))
         /\ Plain(S("dropStreams", c, Null)) /\ Plain(S("enable", c, en))
         /\ Plain(S("deleteCamera", c, Null)) /\ Plain(S("label", c, Null))
         /\ Plain(S("unlabel", c, Null)) /\ Plain(S("dropCameraCells", c, Null))
BY DEF Plain, S, Stmts, SourceOK, ValueOK, Kinds, Args, RowIds, Copying, Makes

LEMMA LayoutStmts ==
  ASSUME NEW l \in Layouts, NEW m \in Layouts
  PROVE  /\ Plain(S("insertLayout", l, Null)) /\ S("insertLayout", l, Null).k = "insertLayout"
         /\ Plain(S("dropLayoutCells", l, Null)) /\ Plain(S("deleteLayout", l, Null))
         /\ Plain(S("attach", l, Null)) /\ Plain(S("detach", l, Null))
         /\ Plain(S("clearDefault", l, Null))
         /\ Plain(S("cloneCells", l, m)) /\ Plain(S("cloneDisplays", l, m))
BY DEF Plain, S, Stmts, SourceOK, ValueOK, Kinds, Args, RowIds, Copying, Makes

LEMMA DisplayStmts ==
  ASSUME NEW l \in Layouts \cup {Null}, NEW en \in BOOLEAN
  PROVE  /\ Plain(S("readAttached", l, Null)) /\ Plain(S("setDefault", l, Null))
         /\ Plain(S("setDisplay", en, Null))
         /\ Plain(S("operate", en, Null)) /\ S("operate", en, Null).k = "operate"
         /\ Plain(S("prefs", Null, Null)) /\ S("prefs", Null, Null).k = "prefs"
BY DEF Plain, S, Stmts, SourceOK, ValueOK, Kinds, Args, RowIds, Copying, Makes

LEMMA DeviceStmts ==
  ASSUME NEW found \in SUBSET DeviceCams, NEW en \in BOOLEAN
  PROVE  /\ Plain(S("ensureDevice", Null, Null)) /\ Plain(S("deleteDevice", Null, Null))
         /\ Plain(S("labelDevice", en, Null)) /\ Plain(S("unlabelAll", Null, Null))
         /\ Plain(S("disableOthers", Null, found))
BY DEF Plain, S, Stmts, SourceOK, ValueOK, Kinds, Args, RowIds, Copying, Makes

LEMMA EntityStmts ==
  ASSUME NEW e \in Entities
  PROVE  /\ Plain(S("readEntity", e, Null)) /\ Plain(S("deleteEntity", e, Null))
         /\ S("readEntity", e, Null).k = "readEntity" /\ S("readEntity", e, Null).x = e
BY DEF Plain, S, Stmts, SourceOK, ValueOK, Kinds, Args, RowIds, Copying, Makes

LEMMA MakingStmts ==
  ASSUME NEW e \in Entities \cup {Null}, e # Null => e \notin db.used,
         NEW x \in Cameras \cup {Web}, NEW c \in Cameras
  PROVE  /\ S("insertEntity", e, x) \in Stmts /\ S("insertEntity", e, x).k = "insertEntity"
         /\ Fresh1(S("insertEntity", e, x))
         /\ S("import", c, e) \in Stmts /\ S("import", c, e).k = "import"
         /\ Fresh1(S("import", c, e))
BY DEF S, Stmts, SourceOK, ValueOK, Kinds, Args, RowIds, Fresh1, Makes, Made

LEMMA CellStmts ==
  ASSUME NEW c \in Cells, NEW l \in Layouts, NEW e \in Entities
  PROVE  /\ S("insertCell", c, <<l, e>>) \in Stmts /\ S("insertCell", c, <<l, e>>).k = "insertCell"
         /\ Copied(S("insertCell", c, <<l, e>>)) = e
         /\ S("assignCell", c, e) \in Stmts /\ S("assignCell", c, e).k = "assignCell"
         /\ Copied(S("assignCell", c, e)) = e
         /\ Plain(S("clearCell", c, Null)) /\ Plain(S("deleteCell", c, Null))
BY DEF Plain, S, Stmts, SourceOK, ValueOK, Kinds, Args, RowIds, Copying, Copied, Makes

(* A plain statement, and the news.                                        *)
LEMMA TellOf1 ==
  ASSUME NEW a, Plain(a)
  PROVE  Request(<<a, Notify>>) /\ Body(<<a>>) /\ Makers(<<a>>) = {}
<1>1. a \in Stmts /\ a.k \notin Copying \cup {"setEntity", "notify"} /\ Fresh1(a)
  BY DEF Plain, Fresh1
<1> QED BY <1>1, PlanOf2, BodyOf1

-----------------------------------------------------------------------------
(* The requests, one by one.                                               *)
LEMMA NewCameraPlans ==
  ASSUME NEW c \in Cameras, NEW e \in Entities \cup {Null}, e # Null => e \notin db.used
  PROVE  Request(cameraNew(c, e)) /\ Request(discoverAdd(c, e))
<1>0. /\ S("insertEntity", e, c) \in Stmts /\ S("insertEntity", e, c).k = "insertEntity"
      /\ Fresh1(S("insertEntity", e, c))
      /\ S("import", c, e) \in Stmts /\ S("import", c, e).k = "import"
      /\ Fresh1(S("import", c, e))
  BY MakingStmts
<1>1. Body(createCamera(c, e))
  BY <1>0, CameraStmts, BodyOf3 DEF createCamera, Copying
<1>2. Body(<<S("import", c, e)>>)
  BY <1>0, BodyOf1 DEF Copying
<1>3. Body(<<S("ensureDevice", Null, Null)>>) /\ Makers(<<S("ensureDevice", Null, Null)>>) = {}
  BY DeviceStmts, TellOf1
<1>4. Body(<<S("ensureDevice", Null, Null)>> \o <<S("import", c, e)>>)
  BY <1>2, <1>3, BodyThenBody
<1> QED BY <1>1, <1>4, BodyThenNotify DEF cameraNew, discoverAdd, importDiscoveredCamera

LEMMA SyncPlans ==
  ASSUME NEW found \in SUBSET DeviceCams, NEW e \in Entities \cup {Null}, e # Null => e \notin db.used
  PROVE  Request(deviceSync(found, e))
<1> DEFINE last == <<S("disableOthers", Null, found), Notify>>
<1>1. Plain(S("disableOthers", Null, found))
  BY DeviceStmts
<1>2. Request(last)
  BY <1>1, TellOf1
<1>3. last \in Seq(Stmts) /\ Len(last) = 2 /\ last[1] = S("disableOthers", Null, found) /\ last[2] = Notify
  BY <1>1, NotifyIs DEF Plain
<1>4. last[Len(last)].k # "insertLayout" /\ Makers(last) = {}
  BY <1>1, <1>3, NotifyIs DEF Makers, Plain, Makes
<1> HIDE DEF last
<1>5. CASE found = {}
  BY <1>2, <1>3, <1>5, ConcatEmptySeq DEF deviceSync, last
<1>6. CASE found # {}
  <2> DEFINE c == CHOOSE x \in found : TRUE
  <2>1. c \in Cameras
    BY <1>6, ConfigAssumption
  <2> HIDE DEF c
  <2>2. /\ S("import", c, e) \in Stmts /\ S("import", c, e).k = "import" /\ Fresh1(S("import", c, e))
    BY <2>1, MakingStmts
  <2>3. Body(<<S("import", c, e)>>)
    BY <2>2, BodyOf1 DEF Copying
  <2>4. Request(<<S("import", c, e)>> \o last)
    BY <1>2, <1>4, <2>3, BodyThenRequest
  <2> QED BY <1>6, <2>4 DEF deviceSync, importDiscoveredCamera, last, c
<1> QED BY <1>5, <1>6

LEMMA UpdatePlans ==
  ASSUME NEW e \in Entities, NEW x \in Cameras \cup {Null}
  PROVE  Request(entityUpdate(e, x)) /\ Request(entityName(e)) /\ Request(entityDelete(e))
<1>1. Body(updateEntity(e, x)) /\ Body(updateEntity(e, Null))
  BY BodyOfUpdate
<1> QED BY <1>1, BodyThenNotify, EntityStmts, TellOf1 DEF entityUpdate, entityName, entityDelete

LEMMA CameraPlans ==
  ASSUME NEW c \in Cameras, NEW en \in BOOLEAN, NEW e \in Entities \cup {Null}
  PROVE  /\ Request(cameraUpdate(c, en, e)) /\ Request(cameraEnabled(c, en))
         /\ Request(cameraDelete(c)) /\ Request(cameraLabel(c)) /\ Request(cameraLabelRemove(c))
<1>1. Plain(S("enable", c, en))
  BY CameraStmts
<1>2. /\ Body(<<S("enable", c, en)>>) /\ Makers(<<S("enable", c, en)>>) = {}
      /\ Request(<<S("enable", c, en), Notify>>)
  BY <1>1, TellOf1
<1>3. Request(cameraUpdate(c, en, e))
  <2>1. CASE e = Null
    <3>1. <<S("enable", c, en)>> \o <<>> = <<S("enable", c, en)>>
      BY <1>2, ConcatEmptySeq DEF Body, Steps
    <3> QED BY <1>2, <2>1, <3>1, BodyThenNotify DEF cameraUpdate
  <2>2. CASE e # Null
    <3>1. Body(updateEntity(e, Null)) /\ Makers(updateEntity(e, Null)) = {}
      BY <2>2, BodyOfUpdate
    <3>2. Body(<<S("enable", c, en)>> \o updateEntity(e, Null))
      BY <1>2, <3>1, BodyThenBody
    <3> QED BY <2>2, <3>2, BodyThenNotify DEF cameraUpdate
  <2> QED BY <2>1, <2>2
<1>4. Request(cameraDelete(c))
  <2>1. Body(deleteCamera(c))
    BY CameraStmts, BodyOf4 DEF deleteCamera
  <2> QED BY <2>1, BodyThenNotify DEF cameraDelete
<1>5. /\ Request(<<S("label", c, Null), Notify>>) /\ Request(<<S("unlabel", c, Null), Notify>>)
  BY CameraStmts, TellOf1
<1> QED BY <1>2, <1>3, <1>4, <1>5 DEF cameraEnabled, cameraLabel, cameraLabelRemove

LEMMA NewEntityPlans ==
  ASSUME NEW e \in Entities \cup {Null}, e # Null => e \notin db.used, NEW x \in Cameras \cup {Web},
         NEW known \in Entities \cup {Null}
  PROVE  Request(entityNew(e, x)) /\ Request(syncDashboards(e, known))
<1>1. \A y \in Cameras \cup {Web} : Request(<<S("insertEntity", e, y), Notify>>)
  <2> SUFFICES ASSUME NEW y \in Cameras \cup {Web} PROVE Request(<<S("insertEntity", e, y), Notify>>)
    OBVIOUS
  <2> DEFINE a == S("insertEntity", e, y)
  <2>1. \A c \in Cameras : a \in Stmts /\ a.k = "insertEntity" /\ Fresh1(a)
    BY MakingStmts
  <2>2. a \in Stmts /\ a.k = "insertEntity" /\ Fresh1(a)
    BY <2>1, ConfigAssumption
  <2> HIDE DEF a
  <2>3. Request(<<a, Notify>>)
    BY <2>2, PlanOf2 DEF Copying
  <2> QED BY <2>3 DEF a
<1>2. Request(syncDashboards(e, known))
  <2>1. CASE known = Null
    <3> DEFINE a == S("insertEntity", e, Web)
    <3>1. a \in Stmts /\ a.k = "insertEntity" /\ Fresh1(a)
      BY MakingStmts, ConfigAssumption
    <3> HIDE DEF a
    <3>2. Body(<<a>>)
      BY <3>1, BodyOf1 DEF Copying
    <3> QED BY <2>1, <3>2, BodyThenNotify DEF syncDashboards, a
  <2>2. CASE known # Null
    <3>1. Body(updateEntity(known, Null))
      BY <2>2, BodyOfUpdate
    <3> QED BY <2>2, <3>1, BodyThenNotify DEF syncDashboards
  <2> QED BY <2>1, <2>2
<1> QED BY <1>1, <1>2 DEF entityNew

LEMMA CellPlans ==
  ASSUME NEW c \in Cells, NEW l \in Layouts, NEW e \in Entities, e \in db.used
  PROVE  /\ Body(createLayoutCell(c, l, e)) /\ Request(cellNew(c, l, e)) /\ Request(cellDelete(c))
         /\ Request(cellUpdate(c, e)) /\ Request(cellUpdate(c, Null))
<1> DEFINE read == S("readEntity", e, Null)
           insert == S("insertCell", c, <<l, e>>)
           assign == S("assignCell", c, e)
<1>1. /\ insert \in Stmts /\ insert.k = "insertCell" /\ Copied(insert) = e
      /\ assign \in Stmts /\ assign.k = "assignCell" /\ Copied(assign) = e
      /\ Plain(S("clearCell", c, Null)) /\ Plain(S("deleteCell", c, Null))
  BY CellStmts
<1>2. Plain(read) /\ read.k = "readEntity" /\ read.x = e
  BY EntityStmts
<1> HIDE DEF read, insert, assign
<1>3. Body(<<read, insert>>) /\ Body(<<read, assign>>)
  BY <1>1, <1>2, BodyOf2 DEF Makes
<1>4. Body(createLayoutCell(c, l, e))
  BY <1>3 DEF createLayoutCell, read, insert
<1>5. Request(cellUpdate(c, Null)) /\ Request(cellDelete(c))
  <2>1. Body(<<S("clearCell", c, Null)>>) /\ Request(<<S("deleteCell", c, Null), Notify>>)
    BY <1>1, TellOf1
  <2> QED BY <2>1, BodyThenNotify DEF cellUpdate, assignCellEntity, cellDelete
<1>6. Request(cellUpdate(c, e))
  <2>1. CASE e = Null BY <1>5, <2>1
  <2>2. CASE e # Null
    BY <1>3, <2>2, BodyThenNotify DEF cellUpdate, assignCellEntity, read, assign
  <2> QED BY <2>1, <2>2
<1> QED BY <1>4, <1>5, <1>6, BodyThenNotify DEF cellNew

LEMMA LayoutPlans ==
  ASSUME NEW l \in Layouts, NEW m \in Layouts
  PROVE  /\ Request(layoutNew(l)) /\ Request(layoutClone(l, m)) /\ Request(layoutDelete(l))
         /\ Request(attachLayout(l)) /\ Request(detachLayout(l))
<1>1. /\ Plain(S("insertLayout", m, Null)) /\ Plain(S("insertLayout", l, Null))
      /\ S("insertLayout", l, Null).k = "insertLayout"
      /\ Plain(S("dropLayoutCells", l, Null)) /\ Plain(S("deleteLayout", l, Null))
      /\ Plain(S("attach", l, Null)) /\ Plain(S("detach", l, Null))
      /\ Plain(S("clearDefault", l, Null))
      /\ Plain(S("cloneCells", l, m)) /\ Plain(S("cloneDisplays", l, m))
  BY LayoutStmts
<1>2. Request(layoutNew(l))
  BY <1>1, PlanOf1 DEF layoutNew
<1>3. \A a \in Stmts : Plain(a) => a.k \notin Copying \cup Makes \cup {"setEntity", "notify"} /\ Fresh1(a)
  BY DEF Plain, Fresh1
<1>4. /\ S("cloneCells", l, m) \in Stmts /\ S("clearDefault", l, Null) \in Stmts
  BY <1>1 DEF Plain
<1>5. Body(cloneLayout(l, m))
  BY <1>1, <1>3, <1>4, BodyOf3 DEF cloneLayout
<1>6. Body(deleteLayout(l))
  BY <1>1, BodyOf4 DEF deleteLayout
<1>7. Body(detachLayoutFromDisplay(l))
  BY <1>1, <1>3, <1>4, BodyOf2 DEF detachLayoutFromDisplay
<1>8. Request(attachLayout(l))
  BY <1>1, TellOf1 DEF attachLayout
<1> QED BY <1>2, <1>5, <1>6, <1>7, <1>8, BodyThenNotify DEF layoutClone, layoutDelete, detachLayout

LEMMA DisplayPlans ==
  ASSUME NEW l \in Layouts \cup {Null}, NEW en \in BOOLEAN
  PROVE  /\ Request(displayUpdate(l, en)) /\ Request(apiDefaultLayout(l)) /\ Request(kioskLabel(en))
         /\ Request(kioskUpdate) /\ Request(gpioChange) /\ Request(operatorConsole)
         /\ Request(subscribeEvents) /\ Request(deviceUpdate)
         /\ Request(layoutUpdate) /\ Request(layoutPriority)
<1>1. /\ Plain(S("readAttached", l, Null)) /\ Plain(S("setDefault", l, Null))
      /\ Plain(S("setDisplay", en, Null))
      /\ Plain(S("operate", en, Null)) /\ S("operate", en, Null).k = "operate"
      /\ Plain(S("prefs", Null, Null)) /\ S("prefs", Null, Null).k = "prefs"
  BY DisplayStmts
<1>2. \A a \in Stmts : Plain(a) => a.k \notin Copying \cup Makes \cup {"setEntity", "notify"} /\ Fresh1(a)
  BY DEF Plain, Fresh1
<1>3. /\ S("readAttached", l, Null) \in Stmts /\ S("setDefault", l, Null) \in Stmts
      /\ S("setDisplay", en, Null) \in Stmts /\ Notify \in Stmts
  BY <1>1, NotifyIs DEF Plain
<1>4. Request(displayUpdate(l, en))
  BY <1>1, <1>2, <1>3, PlanOf3 DEF displayUpdate
<1>5. Request(apiDefaultLayout(l))
  BY <1>1, <1>2, <1>3, PlanOf3 DEF apiDefaultLayout
<1>6. Request(kioskUpdate)
  BY <1>1, PlanOf1 DEF kioskUpdate, SilentEnds
<1>7. Request(<<S("prefs", Null, Null), Notify>>) /\ Request(<<S("operate", en, Null), Notify>>)
  BY <1>1, TellOf1
<1> QED BY <1>4, <1>5, <1>6, <1>7
    DEF gpioChange, operatorConsole, subscribeEvents, deviceUpdate, layoutUpdate, layoutPriority, kioskLabel

LEMMA LabelPlans ==
  ASSUME NEW en \in BOOLEAN
  PROVE  Request(labelDelete) /\ Request(deviceLabel(en)) /\ Request(deviceDelete)
<1>1. /\ Plain(S("labelDevice", FALSE, Null)) /\ Plain(S("labelDevice", en, Null))
      /\ Plain(S("unlabelAll", Null, Null)) /\ Plain(S("deleteDevice", Null, Null))
      /\ Plain(S("operate", FALSE, Null)) /\ S("operate", FALSE, Null).k = "operate"
  BY DeviceStmts, DisplayStmts
<1>2. \A a \in Stmts : Plain(a) => a.k \notin Copying \cup Makes \cup {"setEntity", "notify"} /\ Fresh1(a)
  BY DEF Plain, Fresh1
<1>3. /\ S("labelDevice", FALSE, Null) \in Stmts /\ S("unlabelAll", Null, Null) \in Stmts
      /\ S("operate", FALSE, Null) \in Stmts
  BY <1>1 DEF Plain
<1>4. Request(labelDelete)
  BY <1>1, <1>2, <1>3, PlanOf3 DEF labelDelete, deleteLabel, SilentEnds
<1> QED BY <1>1, <1>4, TellOf1 DEF deviceLabel, deviceDelete

LEMMA AllPlain ==
  ASSUME NEW t \in Seq(Stmts), Len(t) > 0, \A i \in 1..Len(t) : Plain(t[i])
  PROVE  Body(t) /\ Makers(t) = {}
<1>1. \A i \in 1..Len(t) : t[i].k \notin Copying \cup Makes \cup {"setEntity", "notify"}
  BY DEF Plain
<1>2. Len(t) \in Nat
  BY LenProperties
<1>3. Steps(t) /\ Untold(t)
  BY <1>1, <1>2, NotifyIs DEF Steps, Untold, ReadsFirst, WritesThrough
<1>4. Known(t, db.used) /\ Makers(t) = {}
  BY <1>1 DEF Known, Copying, Makers
<1> QED BY <1>3, <1>4 DEF Body

(* Ids that are free are in no table and in no plan.                       *)
LEMMA FreshIsFree ==
  ASSUME NEW ids, Fresh(ids) # Null
  PROVE  Fresh(ids) \in ids /\ Fresh(ids) \notin Taken /\ Fresh(ids) \notin db.used
<1>1. ~(ids \subseteq Taken) /\ Fresh(ids) = CHOOSE x \in ids : x \notin Taken
  BY DEF Fresh
<1>2. \E x \in ids : x \notin Taken
  BY <1>1
<1>3. Fresh(ids) \in ids /\ Fresh(ids) \notin Taken
  BY <1>1, <1>2
<1> QED BY <1>3 DEF Taken

-----------------------------------------------------------------------------
(* The tables, and the references that foreign keys and the writers keep.  *)
CellRows == [layout : Layouts \cup {Null}, entity : Entities \cup {Null}, camera : Cameras \cup {Null}]
Contents == Cameras \cup {Null, Web}
Tables ==
  [layouts : SUBSET Layouts, attached : SUBSET Layouts, default : Layouts \cup {Null},
   enabled : BOOLEAN, device : BOOLEAN, cells : [Cells -> CellRows], entities : [Entities -> Contents],
   cams : [Cameras -> CameraRows \cup {Null}], labeled : SUBSET Cameras, devLabel : BOOLEAN,
   operates : BOOLEAN, prefs : Nat, used : SUBSET RowIds]
ForeignKeys(d) ==
  /\ d.attached \subseteq d.layouts /\ d.default \in d.layouts \cup {Null}
  /\ \A c \in Cells : /\ d.cells[c].layout \in d.layouts \cup {Null}
                      /\ d.cells[c].camera = Null \/ d.cams[d.cells[c].camera] # Null
  /\ \A e \in Entities : d.entities[e] \in Cameras => d.cams[d.entities[e]] # Null
DataOK(d) ==
  /\ d \in Tables /\ ForeignKeys(d)
  /\ \A e \in Entities : d.entities[e] # Null => e \in d.used

LEMMA HandlersArePlanned ==
  ASSUME DataOK(db), NEW h \in Handlers
  PROVE  Request(h)
<1> DEFINE present == {e \in Entities : db.entities[e] # Null}
           rows == {c \in Cells : Exists(db, c)}
           free == {Fresh(Cells), Null} \ {Null}
           blank == {Fresh(Layouts), Null} \ {Null}
           cams == {c \in Cameras : db.cams[c] # Null}
           importable == DeviceCams \ (Taken \ cams)
           mirrored == {e \in present : db.entities[e] \in Cameras}
           webs == {e \in present : db.entities[e] = Web}
<1>1. /\ present \subseteq Entities /\ present \subseteq db.used /\ rows \subseteq Cells
      /\ cams \subseteq Cameras /\ importable \subseteq Cameras /\ importable \subseteq DeviceCams
      /\ db.layouts \subseteq Layouts /\ db.attached \subseteq Layouts /\ db.labeled \subseteq Cameras
      /\ mirrored \subseteq Entities /\ webs \subseteq Entities
  BY ConfigAssumption DEF DataOK, Tables
<1>2. free \subseteq Cells /\ blank \subseteq Layouts
  BY FreshIsFree
<1>3. FreeEntity \in Entities \cup {Null} /\ (FreeEntity # Null => FreeEntity \notin db.used)
  BY FreshIsFree DEF FreeEntity
<1>4. \A c \in Cameras : EntityOf(c) \in Entities \cup {Null}
  BY DEF EntityOf
<1> DEFINE
  camReq == {cameraNew(c, FreeEntity) : c \in Cameras \ (Taken \cup DeviceCams)}
      \cup {deviceSync(f, FreeEntity) : f \in {x \in SUBSET importable : db.device /\ Cardinality(x) < 2}}
      \cup {discoverAdd(c, FreeEntity) : c \in importable} \cup {deviceDelete}
      \cup {cameraUpdate(p[1], p[2], EntityOf(p[1])) : p \in cams \X BOOLEAN}
      \cup {cameraEnabled(p[1], p[2]) : p \in cams \X BOOLEAN}
      \cup {cameraDelete(c) : c \in cams} \cup {cameraLabel(c) : c \in cams}
      \cup {cameraLabelRemove(c) : c \in db.labeled}
  entReq == {entityNew(p[1], p[2]) : p \in ({FreeEntity} \ {Null}) \X (cams \cup {Web})}
      \cup {entityUpdate(p[1], p[2]) : p \in mirrored \X cams}
      \cup {entityDelete(e) : e \in present}
  cellReq == {cellNew(p[1], p[2], p[3]) : p \in free \X db.layouts \X present}
      \cup {cellUpdate(p[1], p[2]) : p \in rows \X (present \cup {Null})}
      \cup {cellDelete(c) : c \in rows}
  layReq == {layoutNew(l) : l \in blank} \cup {layoutUpdate}
      \cup {layoutClone(p[1], p[2]) : p \in db.layouts \X blank}
      \cup {layoutDelete(l) : l \in db.layouts}
      \cup {displayUpdate(p[1], p[2]) : p \in (db.layouts \cup {Null}) \X BOOLEAN}
      \cup {attachLayout(l) : l \in db.layouts} \cup {detachLayout(l) : l \in db.attached}
      \cup {kioskLabel(o) : o \in BOOLEAN} \cup {labelDelete, kioskUpdate, gpioChange, operatorConsole}
  restReq == {subscribeEvents, deviceUpdate, layoutPriority} \cup {deviceLabel(o) : o \in BOOLEAN}
      \cup {entityName(e) : e \in present} \cup {apiDefaultLayout(l) : l \in db.layouts \cup {Null}}
      \cup {syncDashboards(FreeEntity, e) : e \in webs \cup {Null}}
<1>5. h \in camReq \/ h \in entReq \/ h \in cellReq \/ h \in layReq \/ h \in restReq
  BY DEF Handlers
<1> HIDE DEF present, rows, free, blank, cams, importable, mirrored, webs
<1>6. CASE h \in camReq
  <2>1. \A c \in Cameras : Request(cameraNew(c, FreeEntity)) /\ Request(discoverAdd(c, FreeEntity))
    BY <1>3, NewCameraPlans
  <2>2. \A f \in SUBSET DeviceCams : Request(deviceSync(f, FreeEntity))
    BY <1>3, SyncPlans
  <2>3. \A c \in Cameras, en \in BOOLEAN :
          /\ Request(cameraUpdate(c, en, EntityOf(c))) /\ Request(cameraEnabled(c, en))
          /\ Request(cameraDelete(c)) /\ Request(cameraLabel(c)) /\ Request(cameraLabelRemove(c))
    BY <1>4, CameraPlans
  <2>4. Request(deviceDelete)
    BY LabelPlans
  <2>5. \A p \in cams \X BOOLEAN : p[1] \in Cameras /\ p[2] \in BOOLEAN
    BY <1>1
  <2> QED BY <1>1, <1>6, <2>1, <2>2, <2>3, <2>4, <2>5
<1>7. CASE h \in entReq
  <2>1. \A x \in Cameras \cup {Web} : Request(entityNew(FreeEntity, x))
    BY <1>3, NewEntityPlans
  <2>2. \A e \in Entities, x \in Cameras : Request(entityUpdate(e, x)) /\ Request(entityDelete(e))
    BY UpdatePlans
  <2>3. \A e \in Entities : Request(entityDelete(e))
    BY <2>2, ConfigAssumption
  <2>4. \A p \in ({FreeEntity} \ {Null}) \X (cams \cup {Web}) : p[1] = FreeEntity /\ p[2] \in Cameras \cup {Web}
    BY <1>1
  <2>5. \A p \in mirrored \X cams : p[1] \in Entities /\ p[2] \in Cameras
    BY <1>1
  <2> QED BY <1>1, <1>7, <2>1, <2>2, <2>3, <2>4, <2>5
<1>8. CASE h \in cellReq
  <2>1. \A c \in Cells, l \in Layouts, e \in present :
          /\ Request(cellNew(c, l, e)) /\ Request(cellUpdate(c, e))
    BY <1>1, CellPlans
  <2>2. \A c \in Cells : Request(cellDelete(c)) /\ Request(cellUpdate(c, Null))
    <3> SUFFICES ASSUME NEW c \in Cells PROVE Request(cellDelete(c)) /\ Request(cellUpdate(c, Null))
      OBVIOUS
    <3>1. \A e \in Entities : Plain(S("clearCell", c, Null)) /\ Plain(S("deleteCell", c, Null))
      BY CellStmts, ConfigAssumption
    <3>2. Body(<<S("clearCell", c, Null)>>) /\ Request(<<S("deleteCell", c, Null), Notify>>)
      BY <3>1, TellOf1, ConfigAssumption
    <3> QED BY <3>2, BodyThenNotify DEF cellUpdate, assignCellEntity, cellDelete
  <2>3. \A p \in free \X db.layouts \X present : p[1] \in Cells /\ p[2] \in Layouts /\ p[3] \in present
    BY <1>1, <1>2
  <2>4. \A p \in rows \X (present \cup {Null}) : p[1] \in Cells /\ p[2] \in present \cup {Null}
    BY <1>1
  <2>5. Layouts # {}
    BY ConfigAssumption
  <2>6. \A c \in Cells, e \in present : Request(cellUpdate(c, e))
    BY <2>1, <2>5
  <2> QED BY <1>1, <1>8, <2>1, <2>2, <2>3, <2>4, <2>6
<1>9. CASE h \in layReq
  <2>1. \A l \in Layouts, m \in Layouts :
          /\ Request(layoutNew(l)) /\ Request(layoutClone(l, m)) /\ Request(layoutDelete(l))
          /\ Request(attachLayout(l)) /\ Request(detachLayout(l))
    BY LayoutPlans
  <2>2. \A l \in Layouts \cup {Null}, en \in BOOLEAN : 
         /\ Request(displayUpdate(l, en)) /\ Request(kioskLabel(en))
         /\ Request(kioskUpdate) /\ Request(gpioChange) /\ Request(operatorConsole)
         /\ Request(layoutUpdate)
    BY DisplayPlans
  <2>3. Request(labelDelete)
    BY LabelPlans
  <2>4. \A p \in db.layouts \X blank : p[1] \in Layouts /\ p[2] \in Layouts
    BY <1>1, <1>2
  <2>5. \A p \in (db.layouts \cup {Null}) \X BOOLEAN : p[1] \in Layouts \cup {Null} /\ p[2] \in BOOLEAN
    BY <1>1
  <2> QED BY <1>1, <1>2, <1>9, <2>1, <2>2, <2>3, <2>4, <2>5
<1>10. CASE h \in restReq
  <2>1. \A l \in Layouts \cup {Null}, en \in BOOLEAN :
         /\ Request(apiDefaultLayout(l)) /\ Request(subscribeEvents) /\ Request(deviceUpdate)
         /\ Request(layoutPriority)
    BY DisplayPlans
  <2>2. \A en \in BOOLEAN : Request(deviceLabel(en))
    BY LabelPlans
  <2>3. \A e \in Entities : Request(entityName(e))
    BY UpdatePlans
  <2>4. \A known \in Entities \cup {Null} : Request(syncDashboards(FreeEntity, known))
    BY <1>3, NewEntityPlans
  <2> QED BY <1>1, <1>10, <2>1, <2>2, <2>3, <2>4
<1> QED BY <1>5, <1>6, <1>7, <1>8, <1>9, <1>10

-----------------------------------------------------------------------------
(* What is left of a plan after its first statement.                       *)

(* A finite set in some order.                                             *)
LEMMA OrderedSet ==
  ASSUME NEW A, IsFiniteSet(A)
  PROVE  SetToSeq(A) \in Seq(A)
<1>1. Cardinality(A) \in Nat /\ ExistsBijection(1..Cardinality(A), A)
  BY FS_CardinalityType
<1>2. \E f \in [1..Cardinality(A) -> A] : IsInjective(f)
  BY <1>1 DEF ExistsBijection, Bijection, Injection
<1>3. SetToSeq(A) \in [1..Cardinality(A) -> A]
  BY <1>2 DEF SetToSeq
<1> QED BY <1>1, <1>3, SeqDef

(* Rows of the tables that an entity's copies rely on.                     *)
CellsKnown(d) == \A c \in Cells : d.cells[c].entity # Null => d.cells[c].entity \in d.used

LEMMA DisabledOnes ==
  ASSUME NEW s \in Stmts, s.k = "disableOthers"
  PROVE  Then(db, s) = <<>> \/ (Body(Then(db, s)) /\ Makers(Then(db, s)) = {})
<1> DEFINE on == {x \in DeviceCams \ s.y : db.cams[x] # Null /\ db.cams[x].enabled}
           A == {S("enable", c, FALSE) : c \in on}
           f == [c \in on |-> S("enable", c, FALSE)]
<1>1. Then(db, s) = SetToSeq(A)
  BY DEF Then
<1>2. IsFiniteSet(on)
  <2>1. on \subseteq DeviceCams /\ IsFiniteSet(DeviceCams)
    BY ConfigAssumption
  <2> QED BY <2>1, FS_Subset
<1>3. f \in Surjection(on, A)
  BY DEF Surjection
<1>4. IsFiniteSet(A)
  BY <1>2, <1>3, FS_Surjection
<1>5. on \subseteq Cameras
  BY ConfigAssumption
<1>6. \A a \in A : Plain(a)
  BY <1>5, CameraStmts
<1> DEFINE t == SetToSeq(A)
<1>7. t \in Seq(A)
  BY <1>4, OrderedSet
<1>8. A \subseteq Stmts
  BY <1>6 DEF Plain
<1> HIDE DEF A, t
<1>9. t \in Seq(Stmts) /\ \A i \in 1..Len(t) : Plain(t[i])
  BY <1>6, <1>7, <1>8, SeqMonotonic, ElementOfSeq
<1>10. t = <<>> \/ Len(t) > 0
  BY <1>9, EmptySeq
<1> QED BY <1>1, <1>9, <1>10, AllPlain DEF t

(* What a statement adds to its plan.                                      *)
LEMMA ThenIsBody ==
  ASSUME DataOK(db), NEW s \in Stmts, Then(db, s) # <<>>
  PROVE  /\ s.k \in Growing /\ Steps(Then(db, s)) /\ Untold(Then(db, s))
         /\ s.k # "import" => Makers(Then(db, s)) = {}
         /\ Fresh1(s) /\ CellsKnown(db) => Known(Then(db, s), db.used)
<1>1. CASE s.k = "import"
  <2>1. s.x \in Cameras /\ s.y \in Entities \cup {Null}
    BY <1>1 DEF Stmts, SourceOK, ValueOK
  <2>2. CASE db.cams[s.x] # Null
    <3>1. /\ Plain(S("enable", s.x, TRUE)) /\ Plain(S("dropStreams", s.x, Null))
          /\ Plain(S("addStream", s.x, Null))
      BY <2>1, CameraStmts
    <3>2. S("dropStreams", s.x, Null) \in Stmts /\ Fresh1(S("dropStreams", s.x, Null))
          /\ S("dropStreams", s.x, Null).k \notin Copying \cup {"setEntity", "notify"}
      BY <3>1 DEF Plain, Fresh1
    <3>3. Body(importFound(s.x))
      BY <3>1, <3>2, BodyOf3 DEF importFound
    <3> QED BY <1>1, <2>2, <3>3 DEF Then, Growing, Body
  <2>3. CASE db.cams[s.x] = Null
    <3> DEFINE b == S("insertEntity", s.y, s.x)
    <3>1. b \in Stmts /\ b.k = "insertEntity" /\ b.x = s.y
      BY <2>1 DEF S, Stmts, SourceOK, ValueOK, Kinds, Args, RowIds
    <3>2. Fresh1(s) => Fresh1(b)
      BY <1>1, <3>1 DEF Fresh1, Made, Makes
    <3>3. Plain(S("insertCamera", s.x, Null)) /\ Plain(S("addStream", s.x, Null))
      BY <2>1, CameraStmts
    <3> HIDE DEF b
    <3>4. /\ Steps(createCamera(s.x, s.y)) /\ Untold(createCamera(s.x, s.y))
          /\ Fresh1(s) => Body(createCamera(s.x, s.y))
      BY <3>1, <3>2, <3>3, BodyOf3 DEF createCamera, b, Copying
    <3> QED BY <1>1, <2>3, <3>4 DEF Then, Growing, Body
  <2> QED BY <2>2, <2>3
<1>2. CASE s.k = "disableOthers"
  BY <1>2, DisabledOnes DEF Growing, Body
<1>3. CASE s.k = "cloneCells"
  <2> DEFINE src == {c \in CellsOf(db, s.x) : db.cells[c].entity # Null}
             new == Fresh(Cells)
             c == CHOOSE c \in src : TRUE
             e == db.cells[c].entity
  <2>1. Then(db, s) = IF src = {} \/ new = Null THEN <<>> ELSE createLayoutCell(new, s.y, e)
    BY <1>3 DEF Then
  <2>2. src # {} /\ new # Null /\ Then(db, s) = createLayoutCell(new, s.y, e)
    BY <2>1
  <2>3. c \in Cells /\ e # Null /\ new \in Cells /\ s.y \in Layouts
    <3>1. c \in src
      BY <2>2
    <3> QED BY <1>3, <2>2, <3>1, FreshIsFree DEF CellsOf, Stmts, ValueOK
  <2> HIDE DEF c, new, src
  <2>4. e \in Entities
    BY <2>3 DEF DataOK, Tables, CellRows
  <2>5. CellsKnown(db) => e \in db.used
    BY <2>3 DEF CellsKnown
  <2> HIDE DEF e
  <2> DEFINE a == S("readEntity", e, Null)
             b == S("insertCell", new, <<s.y, e>>)
  <2>6. Plain(a) /\ a.k = "readEntity" /\ a.x = e
    BY <2>4, EntityStmts
  <2>7. b \in Stmts /\ b.k = "insertCell" /\ Copied(b) = e
    BY <2>3, <2>4, CellStmts
  <2> HIDE DEF a, b
  <2>8. /\ Steps(<<a, b>>) /\ Untold(<<a, b>>) /\ Makers(<<a, b>>) = {}
        /\ (b.k \in Copying => Copied(b) \in db.used) => Body(<<a, b>>)
    BY <2>6, <2>7, BodyOf2 DEF Makes, Copying
  <2>9. Then(db, s) = <<a, b>>
    BY <2>2 DEF createLayoutCell, a, b
  <2> QED BY <1>3, <2>5, <2>7, <2>8, <2>9 DEF Growing, Body
<1>4. CASE s.k \notin {"import", "disableOthers", "cloneCells"}
  BY <1>4 DEF Then
<1> QED BY <1>1, <1>2, <1>3, <1>4

LEMMA TailOfPlan ==
  ASSUME NEW t, Plan(t), NEW used
  PROVE  /\ Tail(t) \in Seq(Stmts) /\ t[1] \in Stmts /\ Len(t) \in Nat
         /\ Len(Tail(t)) = Len(t) - 1 /\ \A i \in 1..Len(Tail(t)) : Tail(t)[i] = t[i + 1]
         /\ ReadsFirst(Tail(t)) /\ WritesThrough(Tail(t))
         /\ Len(t) > 1 => EndsTold(Tail(t)) /\ Tail(t)[Len(Tail(t))].k # "insertLayout"
         /\ Known(t, used) => /\ Known(Tail(t), used)
                              /\ t[1].k \in Makes => Makers(Tail(t)) = {}
<1> DEFINE y == Tail(t)
<1>1. t \in Seq(Stmts) /\ Len(t) \in Nat /\ Len(t) > 0 /\ t # <<>>
  BY LenProperties, EmptySeq DEF Plan, EndsTold
<1>2. y \in Seq(Stmts) /\ Len(y) = Len(t) - 1 /\ \A i \in 1..Len(y) : y[i] = t[i + 1]
  BY <1>1, HeadTailProperties
<1> HIDE DEF y
<1>3. t[1] \in Stmts
  BY <1>1, ElementOfSeq
<1>4. ReadsFirst(y)
  <2> SUFFICES ASSUME NEW i \in 2..Len(y), y[i].k \in Copying
               PROVE  y[i - 1].k = "readEntity" /\ y[i - 1].x = Copied(y[i])
    BY DEF ReadsFirst
  <2>1. i + 1 \in 2..Len(t) /\ i \in 1..Len(y) /\ i - 1 \in 1..Len(y) /\ (i - 1) + 1 = i /\ (i + 1) - 1 = i
    BY <1>1, <1>2
  <2>2. y[i] = t[i + 1] /\ y[i - 1] = t[i]
    BY <1>2, <2>1
  <2>3. t[(i + 1) - 1].k = "readEntity" /\ t[(i + 1) - 1].x = Copied(t[i + 1])
    BY <2>1, <2>2 DEF Plan, ReadsFirst
  <2> QED BY <2>1, <2>2, <2>3
<1>5. WritesThrough(y)
  <2> SUFFICES ASSUME NEW i \in 1..Len(y), y[i].k = "setEntity"
               PROVE  /\ i + 2 <= Len(y) /\ y[i + 1].k = "readEntity" /\ y[i + 1].x = y[i].x
                      /\ y[i + 2].k = "propagate" /\ y[i + 2].x = y[i].x
    BY DEF WritesThrough
  <2>1. i + 1 \in 1..Len(t) /\ y[i] = t[i + 1]
    BY <1>1, <1>2
  <2>2. /\ (i + 1) + 2 <= Len(t) /\ t[(i + 1) + 1].k = "readEntity" /\ t[(i + 1) + 1].x = y[i].x
        /\ t[(i + 1) + 2].k = "propagate" /\ t[(i + 1) + 2].x = y[i].x
    BY <2>1 DEF Plan, WritesThrough
  <2>3. i + 1 \in 1..Len(y) /\ i + 2 \in 1..Len(y) /\ (i + 2) + 1 = (i + 1) + 2
    BY <1>1, <1>2, <2>2
  <2>4. y[i + 1] = t[(i + 1) + 1] /\ y[i + 2] = t[(i + 2) + 1]
    BY <1>2, <2>3
  <2> QED BY <2>2, <2>3, <2>4
<1>6. ASSUME Len(t) > 1 PROVE EndsTold(y) /\ y[Len(y)].k # "insertLayout"
  <2>1. Len(y) > 0 /\ Len(y) \in 1..Len(y) /\ Len(y) + 1 = Len(t)
    BY <1>1, <1>2, <1>6
  <2>2. y[Len(y)] = t[Len(t)]
    BY <1>2, <2>1
  <2>3. t[Len(t)] = Notify \/ t[Len(t)].k \in SilentEnds
    BY <1>6 DEF Plan, EndsTold
  <2>4. ASSUME NEW i \in 1..Len(y) - 1 PROVE y[i] # Notify
    <3>1. i \in 1..Len(y) /\ i + 1 \in 1..Len(t) - 1
      BY <1>1, <1>2
    <3> QED BY <1>2, <3>1 DEF Plan, EndsTold
  <2> QED BY <2>1, <2>2, <2>3, <2>4, NotifyIs DEF EndsTold, SilentEnds
<1>7. ASSUME Known(t, used) PROVE Known(y, used) /\ (t[1].k \in Makes => Makers(y) = {})
  <2>1. \A i \in 1..Len(y) : i + 1 \in 1..Len(t) /\ i + 1 # 1 /\ y[i] = t[i + 1]
    BY <1>1, <1>2
  <2>2. \A i \in 1..Len(y) : /\ y[i].k \in {"insertCell", "assignCell"} => Copied(y[i]) \in used
                             /\ y[i].k \in Makes /\ Made(y[i]) # Null => Made(y[i]) \notin used
    BY <1>7, <2>1 DEF Known
  <2>3. ASSUME NEW i \in 1..Len(y), NEW j \in 1..Len(y), y[i].k \in Makes, y[j].k \in Makes PROVE i = j
    <3>1. i + 1 = j + 1
      BY <1>7, <2>1, <2>3 DEF Known
    <3> QED BY <1>1, <1>2, <3>1
  <2>4. ASSUME t[1].k \in Makes, NEW i \in 1..Len(y) PROVE y[i].k \notin Makes
    <3>1. 1 \in 1..Len(t)
      BY <1>1
    <3> QED BY <1>7, <2>1, <2>4, <3>1 DEF Known
  <2> QED BY <2>2, <2>3, <2>4 DEF Known, Makers
<1> QED BY <1>1, <1>2, <1>3, <1>4, <1>5, <1>6, <1>7 DEF y

RestOf(t) == Then(db, t[1]) \o Tail(t)

LEMMA RestOfPlan ==
  ASSUME DataOK(db), NEW t, Plan(t), t[1] # Notify
  PROVE  /\ RestOf(t) = <<>> => t[1].k \in SilentEnds \/ (Len(t) = 1 /\ t[1].k = "insertLayout")
         /\ RestOf(t) # <<>> => /\ Plan(RestOf(t)) /\ t # <<t[1]>>
                                /\ RestOf(t)[Len(RestOf(t))].k # "insertLayout"
                                /\ RestOf(t)[1].k \in Copying => Then(db, t[1]) = <<>> /\ RestOf(t) = Tail(t)
         /\ Known(t, db.used) /\ CellsKnown(db) => Known(RestOf(t), db.used)
         /\ t[1].k \notin Growing => RestOf(t) = Tail(t)
<1> DEFINE x == Then(db, t[1])
           y == Tail(t)
<1>1. /\ y \in Seq(Stmts) /\ t[1] \in Stmts /\ Len(t) \in Nat
      /\ Len(y) = Len(t) - 1 /\ \A i \in 1..Len(y) : y[i] = t[i + 1]
      /\ ReadsFirst(y) /\ WritesThrough(y)
      /\ Len(t) > 1 => EndsTold(y) /\ y[Len(y)].k # "insertLayout"
      /\ Known(t, db.used) => Known(y, db.used) /\ (t[1].k \in Makes => Makers(y) = {})
  BY TailOfPlan
<1>2. x # <<>> => /\ t[1].k \in Growing /\ Steps(x) /\ Untold(x)
                  /\ t[1].k # "import" => Makers(x) = {}
                  /\ Fresh1(t[1]) /\ CellsKnown(db) => Known(x, db.used)
  BY <1>1, ThenIsBody
<1>3. RestOf(t) = x \o y
  BY DEF RestOf
<1>4. Len(t) > 0 /\ (Len(t) = 1 => t[1].k \in SilentEnds \cup {"insertLayout"})
  BY DEF Plan, EndsTold
<1> HIDE DEF x, y
<1>5. x = <<>> => RestOf(t) = y
  BY <1>1, <1>3, ConcatEmptySeq
<1>6. CASE Len(t) = 1
  <2>1. x = <<>>
    BY <1>2, <1>4, <1>6 DEF Growing, SilentEnds
  <2>2. y = <<>>
    BY <1>1, <1>6, EmptySeq
  <2>3. Known(<<>>, db.used)
    BY DEF Known
  <2> QED BY <1>4, <1>5, <1>6, <2>1, <2>2, <2>3 DEF y, x
<1>7. CASE Len(t) > 1
  <2>1. Len(y) > 0 /\ y[1] = t[2] /\ 2 \in 2..Len(t) /\ Len(y) \in 1..Len(y) /\ Len(y) \in Nat /\ 1 \in 1..Len(y)
    BY <1>1, <1>7
  <2>2. y # <<>> /\ t # <<t[1]>>
    BY <1>1, <1>7, <2>1
  <2>3. CASE x = <<>>
    <3>1. Plan(y) /\ y[Len(y)].k # "insertLayout"
      BY <1>1, <1>7 DEF Plan
    <3>2. RestOf(t) = y
      BY <1>5, <2>3
    <3> QED BY <1>1, <2>2, <2>3, <3>1, <3>2 DEF x, y
  <2>4. CASE x # <<>>
    <3>1. /\ t[1].k \in Growing /\ Steps(x) /\ Untold(x) /\ x \in Seq(Stmts) /\ Len(x) > 0 /\ Len(x) \in Nat
          /\ x[1].k \notin Copying
      BY <1>2, <2>4, LenProperties DEF Steps
    <3>2. y[1].k \notin Copying
      <4>1. y[1].k \in Copying => t[2 - 1].k = "readEntity"
        BY <2>1 DEF Plan, ReadsFirst
      <4> QED BY <3>1, <4>1 DEF Growing
    <3>3. Steps(y)
      BY <1>1, <2>1, <3>2 DEF Steps
    <3>4. Steps(x \o y) /\ EndsTold(x \o y)
      BY <1>1, <1>7, <3>1, <3>3, StepsThenSteps, UntoldThenEnds
    <3>5. Plan(x \o y)
      BY <3>4 DEF Plan, Steps
    <3>6. /\ Len(x \o y) = Len(x) + Len(y)
          /\ \A i \in 1..Len(x) + Len(y) : (x \o y)[i] = IF i <= Len(x) THEN x[i] ELSE y[i - Len(x)]
      BY <1>1, <3>1, ConcatProperties
    <3>7. (x \o y)[Len(x \o y)] = y[Len(y)]
      <4>1. Len(x) + Len(y) \in 1..Len(x) + Len(y) /\ ~(Len(x) + Len(y) <= Len(x))
            /\ (Len(x) + Len(y)) - Len(x) = Len(y)
        BY <2>1, <3>1
      <4> QED BY <3>6, <4>1
    <3>8. (x \o y)[1] = x[1]
      BY <2>1, <3>1, <3>6
    <3>9. ASSUME Known(t, db.used), CellsKnown(db) PROVE Known(x \o y, db.used)
      <4>1. Fresh1(t[1])
        <5>1. 1 \in 1..Len(t)
          BY <1>7, <1>1
        <5> QED BY <3>9, <5>1 DEF Known, Fresh1
      <4>2. Known(x, db.used) /\ Known(y, db.used)
        BY <1>1, <1>2, <2>4, <3>9, <4>1
      <4>3. Makers(x) = {} \/ Makers(y) = {}
        BY <1>1, <1>2, <2>4, <3>9 DEF Makes
      <4> QED BY <3>1, <3>3, <4>2, <4>3, StepsThenSteps
    <3> QED BY <1>1, <1>3, <1>7, <2>2, <3>1, <3>5, <3>7, <3>8, <3>9
  <2> QED BY <2>3, <2>4
<1> QED BY <1>1, <1>4, <1>6, <1>7

-----------------------------------------------------------------------------
(* What one statement does to the tables.                                  *)

(* The contents of cells and entities stay, and no entity is made.         *)
KeepsContents(d, n) ==
  /\ DataOK(n) /\ n.cells = d.cells /\ n.entities = d.entities
  /\ n.used \cap Entities = d.used \cap Entities /\ d.used \subseteq n.used

LEMMA MoreCameras ==
  ASSUME NEW d, DataOK(d), NEW n \in Tables, n.attached = d.attached, n.layouts = d.layouts,
         n.default = d.default, n.cells = d.cells, n.entities = d.entities, d.used \subseteq n.used,
         \A c \in Cameras : d.cams[c] # Null => n.cams[c] # Null
  PROVE  DataOK(n)
BY DEF DataOK, ForeignKeys, Tables, CellRows

LEMMA CameraIs ==
  ASSUME NEW en \in BOOLEAN, NEW st \in BOOLEAN
  PROVE  Camera(en, st) \in CameraRows /\ Camera(en, st) # Null
BY ConfigAssumption DEF Camera, CameraRows

LEMMA CameraInserted ==
  ASSUME NEW d, DataOK(d), NEW c \in Cameras, NEW row \in CameraRows, row # Null
  PROVE  KeepsContents(d, [d EXCEPT !.cams[c] = row, !.used = @ \cup {c}])
<1> DEFINE n == [d EXCEPT !.cams[c] = row, !.used = @ \cup {c}]
<1>1. d \in Tables /\ c \in RowIds /\ c \notin Entities
  BY ConfigAssumption DEF DataOK, RowIds
<1>2. /\ n \in Tables /\ n.attached = d.attached /\ n.layouts = d.layouts
      /\ n.default = d.default /\ n.cells = d.cells /\ n.entities = d.entities /\ n.used = d.used \cup {c}
      /\ n.cams = [d.cams EXCEPT ![c] = row]
  BY <1>1 DEF Tables
<1>3. \A x \in Cameras : d.cams[x] # Null => n.cams[x] # Null
  BY <1>1, <1>2 DEF Tables
<1> HIDE DEF n
<1>4. d.used \subseteq n.used /\ n.used \cap Entities = d.used \cap Entities
  BY <1>1, <1>2
<1>5. DataOK(n)
  BY <1>2, <1>3, <1>4, MoreCameras
<1> QED BY <1>2, <1>4, <1>5 DEF KeepsContents, n

LEMMA CameraWritten ==
  ASSUME NEW d, DataOK(d), NEW c \in Cameras, NEW en, NEW st,
         d.cams[c] # Null => en \in BOOLEAN /\ st \in BOOLEAN
  PROVE  KeepsContents(d, updateCamera(d, c, en, st))
<1> DEFINE n == [d EXCEPT !.cams[c] = Camera(en, st)]
<1>1. CASE d.cams[c] = Null
  BY <1>1 DEF updateCamera, KeepsContents
<1>2. CASE d.cams[c] # Null
  <2>1. Camera(en, st) \in CameraRows /\ Camera(en, st) # Null
    BY <1>2, CameraIs
  <2>2. d \in Tables
    BY DEF DataOK
  <2>3. /\ n \in Tables /\ n.attached = d.attached /\ n.layouts = d.layouts
        /\ n.default = d.default /\ n.cells = d.cells /\ n.entities = d.entities /\ n.used = d.used
        /\ n.cams = [d.cams EXCEPT ![c] = Camera(en, st)]
    BY <2>1, <2>2 DEF Tables
  <2>4. \A x \in Cameras : d.cams[x] # Null => n.cams[x] # Null
    BY <2>1, <2>2, <2>3 DEF Tables
  <2> HIDE DEF n
  <2>5. DataOK(n)
    BY <2>3, <2>4, MoreCameras
  <2> QED BY <1>2, <2>3, <2>5 DEF updateCamera, n, KeepsContents
<1> QED BY <1>1, <1>2

EntityMade(d, e, x, n) == n = [d EXCEPT !.entities[e] = x, !.used = @ \cup {e}]

LEMMA EntityCreated ==
  ASSUME NEW d, DataOK(d), NEW e \in Entities, NEW x \in Contents, x \in Cameras => d.cams[x] # Null,
         NEW n, EntityMade(d, e, x, n)
  PROVE  /\ DataOK(n) /\ n.cells = d.cells /\ n.used = d.used \cup {e}
         /\ n.entities = [d.entities EXCEPT ![e] = x]
<1>1. d \in Tables /\ ForeignKeys(d) /\ (\A y \in Entities : d.entities[y] # Null => y \in d.used) /\ e \in RowIds
  BY DEF DataOK, RowIds
<1>3. n \in Tables /\ n.cells = d.cells /\ n.used = d.used \cup {e} /\ n.entities = [d.entities EXCEPT ![e] = x]
  BY <1>1 DEF Tables, EntityMade
<1>4. n.attached = d.attached /\ n.layouts = d.layouts /\ n.default = d.default /\ n.cams = d.cams
  BY <1>1 DEF Tables, EntityMade
<1>5. \A y \in Entities : n.entities[y] = IF y = e THEN x ELSE d.entities[y]
  BY <1>1, <1>3 DEF Tables
<1>6. ForeignKeys(n)
  BY <1>1, <1>3, <1>4, <1>5 DEF ForeignKeys
<1> QED BY <1>1, <1>3, <1>5, <1>6 DEF DataOK

EntityPut(d, e, x, n) == n = [d EXCEPT !.entities[e] = x]

LEMMA EntityWritten ==
  ASSUME NEW d, DataOK(d), NEW e \in Entities, NEW x \in Contents, x \in Cameras => d.cams[x] # Null,
         x = Null \/ d.entities[e] # Null, NEW n, EntityPut(d, e, x, n)
  PROVE  DataOK(n) /\ n.cells = d.cells /\ n.used = d.used /\ n.entities = [d.entities EXCEPT ![e] = x]
<1>1. d \in Tables /\ ForeignKeys(d) /\ (\A y \in Entities : d.entities[y] # Null => y \in d.used) /\ e \in RowIds
  BY DEF DataOK, RowIds
<1>2. n \in Tables /\ n.cells = d.cells /\ n.used = d.used /\ n.entities = [d.entities EXCEPT ![e] = x]
  BY <1>1 DEF Tables, EntityPut
<1>3. n.attached = d.attached /\ n.layouts = d.layouts /\ n.default = d.default /\ n.cams = d.cams
  BY <1>1 DEF Tables, EntityPut
<1>4. \A y \in Entities : n.entities[y] = IF y = e THEN x ELSE d.entities[y]
  BY <1>1, <1>2 DEF Tables
<1>5. ForeignKeys(n)
  BY <1>1, <1>2, <1>3, <1>4 DEF ForeignKeys
<1> QED BY <1>1, <1>2, <1>4, <1>5 DEF DataOK

RowsFit(d, rows) ==
  /\ rows \in [Cells -> CellRows]
  /\ \A c \in Cells : /\ rows[c].layout \in d.layouts \cup {Null}
                      /\ rows[c].camera = Null \/ d.cams[rows[c].camera] # Null
CellsPut(d, rows, new, n) ==
  /\ new \subseteq Cells
  /\ n = [d EXCEPT !.cells = rows, !.used = @ \cup new] \/ (new = {} /\ n = [d EXCEPT !.cells = rows])

LEMMA CellsWritten ==
  ASSUME NEW d, DataOK(d), NEW rows, RowsFit(d, rows), NEW new, NEW n, CellsPut(d, rows, new, n)
  PROVE  DataOK(n) /\ n.cells = rows /\ n.entities = d.entities /\ n.used = d.used \cup new
<1>1. d \in Tables /\ ForeignKeys(d) /\ (\A y \in Entities : d.entities[y] # Null => y \in d.used) /\ new \subseteq RowIds
  BY DEF DataOK, RowIds, CellsPut
<1>2. n \in Tables /\ n.cells = rows /\ n.used = d.used \cup new /\ n.entities = d.entities
  BY <1>1 DEF Tables, CellsPut, RowsFit
<1>3. n.attached = d.attached /\ n.layouts = d.layouts /\ n.default = d.default /\ n.cams = d.cams
  BY <1>1 DEF Tables, CellsPut, RowsFit
<1>4. ForeignKeys(n)
  BY <1>1, <1>2, <1>3 DEF ForeignKeys, RowsFit
<1> QED BY <1>1, <1>2, <1>4 DEF DataOK

LEMMA CamerasDropped ==
  ASSUME NEW d, DataOK(d), NEW gone \in SUBSET Cameras, NEW n, n = DropCameras(d, gone)
  PROVE  /\ DataOK(n) /\ n.used = d.used
         /\ \A c \in Cells : /\ n.cells[c].entity = d.cells[c].entity
                             /\ n.cells[c].camera = IF d.cells[c].camera \in gone THEN Null ELSE d.cells[c].camera
         /\ \A e \in Entities : n.entities[e] = IF d.entities[e] \in gone THEN Null ELSE d.entities[e]
<1> DEFINE rows == [c \in Cells |-> IF d.cells[c].camera \in gone THEN [d.cells[c] EXCEPT !.camera = Null] ELSE d.cells[c]]
           cams == [c \in Cameras |-> IF c \in gone THEN Null ELSE d.cams[c]]
           ents == [e \in Entities |-> IF d.entities[e] \in gone THEN Null ELSE d.entities[e]]
<1>1. d \in Tables /\ ForeignKeys(d) /\ (\A y \in Entities : d.entities[y] # Null => y \in d.used)
  BY DEF DataOK
<1>2. rows \in [Cells -> CellRows] /\ cams \in [Cameras -> CameraRows \cup {Null}] /\ ents \in [Entities -> Contents]
  BY <1>1 DEF Tables, CellRows, Contents
<1>3. /\ \A c \in Cells : /\ rows[c].entity = d.cells[c].entity /\ rows[c].layout = d.cells[c].layout
                          /\ rows[c].camera = IF d.cells[c].camera \in gone THEN Null ELSE d.cells[c].camera
      /\ \A e \in Entities : ents[e] = IF d.entities[e] \in gone THEN Null ELSE d.entities[e]
      /\ \A c \in Cameras : cams[c] = IF c \in gone THEN Null ELSE d.cams[c]
  BY <1>1 DEF Tables, CellRows
<1>4. n = [d EXCEPT !.cells = rows, !.cams = cams, !.labeled = @ \ gone, !.entities = ents]
  BY <1>1 DEF DropCameras, SetCells, Tables
<1> HIDE DEF rows, cams, ents
<1>5. /\ n \in Tables /\ n.cells = rows /\ n.cams = cams /\ n.entities = ents /\ n.used = d.used
      /\ n.attached = d.attached /\ n.layouts = d.layouts /\ n.default = d.default
  BY <1>1, <1>2, <1>4 DEF Tables
<1>6. ForeignKeys(n)
  <2>1. \A c \in Cells : d.cells[c].camera \in Cameras \cup {Null}
    BY <1>1 DEF Tables, CellRows
  <2>2. \A c \in Cells : /\ rows[c].layout \in d.layouts \cup {Null}
                         /\ rows[c].camera = Null \/ cams[rows[c].camera] # Null
    BY <1>1, <1>3, <2>1 DEF ForeignKeys
  <2>3. \A e \in Entities : ents[e] \in Cameras => cams[ents[e]] # Null
    BY <1>1, <1>3, ConfigAssumption DEF ForeignKeys
  <2> QED BY <1>1, <1>5, <2>2, <2>3 DEF ForeignKeys
<1>7. \A e \in Entities : n.entities[e] # Null => e \in n.used
  BY <1>1, <1>3, <1>5
<1> QED BY <1>3, <1>5, <1>6, <1>7 DEF DataOK

-----------------------------------------------------------------------------
(* What the statement s, given the content reg it copies, makes of the     *)
(* tables d: the ids that are used, the entities cells show, and the cells *)
(* whose camera is not the one of their entity.                            *)
Lags(d, x, e) == d.cells[x].entity = e /\ d.entities[e] \in Cameras /\ d.cells[x].camera # d.entities[e]
Informed(d, s, reg) ==
  /\ CellsKnown(d)
  /\ s.k \in {"insertCell", "assignCell"} => Copied(s) \in d.used
  /\ s.k = "insertEntity" => s.x \notin d.used
  /\ s.k \in Copying => reg = d.entities[Copied(s)]
Effect(d, s, reg, n) ==
  /\ DataOK(n) /\ d.used \subseteq n.used
  /\ n.used \cap Entities \subseteq d.used \cup (IF s.k = "insertEntity" THEN {s.x} ELSE {})
  /\ Informed(d, s, reg) =>
       /\ CellsKnown(n)
       /\ \A x \in Cells, e \in Entities : Lags(n, x, e) =>
            \/ s.k = "setEntity" /\ s.x = e
            \/ Lags(d, x, e) /\ ~(s.k = "propagate" /\ s.x = e)

LEMMA KeepEffect ==
  ASSUME NEW d, DataOK(d), NEW s, NEW reg, NEW n, KeepsContents(d, n),
         s.k = "propagate" => reg = Null
  PROVE  Effect(d, s, reg, n)
<1>1. DataOK(n) /\ d.used \subseteq n.used /\ n.used \cap Entities = d.used \cap Entities
      /\ n.cells = d.cells /\ n.entities = d.entities
  BY DEF KeepsContents
<1>2. ASSUME Informed(d, s, reg), NEW x \in Cells, NEW e \in Entities, Lags(n, x, e)
      PROVE  Lags(d, x, e) /\ ~(s.k = "propagate" /\ s.x = e)
  <2>1. Lags(d, x, e)
    BY <1>1, <1>2 DEF Lags
  <2>2. ASSUME s.k = "propagate", s.x = e PROVE FALSE
    <3>1. d.entities[e] = Null
      BY <1>2, <2>2 DEF Informed, Copying, Copied
    <3> QED BY <2>1, <3>1, ConfigAssumption DEF Lags
  <2> QED BY <2>1, <2>2
<1>3. CellsKnown(d) => CellsKnown(n)
  BY <1>1 DEF CellsKnown
<1> QED BY <1>1, <1>2, <1>3 DEF Effect, Informed

RowOK(d, s, reg, c, row) ==
  /\ row \in CellRows /\ row.layout \in d.layouts \cup {Null}
  /\ row.camera = Null \/ d.cams[row.camera] # Null
  /\ \/ row = d.cells[c] /\ ~(s.k = "propagate" /\ row.entity = s.x)
     \/ row.entity = Null
     \/ /\ s.k \in Copying /\ row.entity = Copied(s) /\ row.camera = CamOf(reg)
        /\ s.k = "propagate" => d.cells[c].entity = row.entity

LEMMA RowsEffect ==
  ASSUME NEW d, DataOK(d), NEW s, NEW reg, NEW rows, rows \in [Cells -> CellRows], s.k # "insertEntity",
         \A c \in Cells : RowOK(d, s, reg, c, rows[c]), NEW new, NEW n,
         CellsPut(d, rows, new, n)
  PROVE  Effect(d, s, reg, n)
<1>1. /\ DataOK(n) /\ n.cells = rows /\ n.entities = d.entities
      /\ d.used \subseteq n.used /\ n.used \subseteq d.used \cup new
  <2>1. RowsFit(d, rows)
    BY DEF RowsFit, RowOK
  <2> QED BY <2>1, CellsWritten
<1>2. n.used \cap Entities \subseteq d.used
  BY <1>1, ConfigAssumption DEF CellsPut
<1>3. \A c \in Cells : \/ rows[c] = d.cells[c] /\ ~(s.k = "propagate" /\ rows[c].entity = s.x)
                       \/ rows[c].entity = Null
                       \/ /\ s.k \in Copying /\ rows[c].entity = Copied(s) /\ rows[c].camera = CamOf(reg)
                          /\ s.k = "propagate" => d.cells[c].entity = rows[c].entity
  BY DEF RowOK
<1>4. ASSUME Informed(d, s, reg), NEW c \in Cells, rows[c].entity # Null PROVE rows[c].entity \in n.used
  <2>1. CASE rows[c] = d.cells[c]
    BY <1>1, <1>4, <2>1 DEF Informed, CellsKnown
  <2>2. CASE s.k \in Copying /\ rows[c].entity = Copied(s) /\ rows[c].camera = CamOf(reg)
    <3>1. CASE s.k \in {"insertCell", "assignCell"}
      BY <1>1, <1>4, <2>2, <3>1 DEF Informed
    <3>2. CASE s.k = "propagate"
      BY <1>1, <1>3, <1>4, <2>2, <3>2 DEF Informed, CellsKnown
    <3> QED BY <2>2, <3>1, <3>2 DEF Copying
  <2> QED BY <1>3, <1>4, <2>1, <2>2
<1>5. ASSUME Informed(d, s, reg), NEW x \in Cells, NEW e \in Entities, Lags(n, x, e)
      PROVE  Lags(d, x, e) /\ ~(s.k = "propagate" /\ s.x = e)
  <2>1. rows[x].entity = e /\ d.entities[e] \in Cameras /\ rows[x].camera # d.entities[e] /\ e # Null
    BY <1>1, <1>5, ConfigAssumption DEF Lags
  <2>2. CASE s.k \in Copying /\ rows[x].entity = Copied(s) /\ rows[x].camera = CamOf(reg)
    <3>1. reg = d.entities[e]
      BY <1>5, <2>1, <2>2 DEF Informed
    <3> QED BY <2>1, <2>2, <3>1 DEF CamOf
  <2>3. CASE rows[x] = d.cells[x] /\ ~(s.k = "propagate" /\ rows[x].entity = s.x)
    BY <2>1, <2>3 DEF Lags
  <2> QED BY <1>3, <2>1, <2>2, <2>3
<1> QED BY <1>1, <1>2, <1>4, <1>5 DEF Effect, CellsKnown

LEMMA OtherWritten ==
  ASSUME NEW d, DataOK(d), NEW n, n \in Tables, n.cells = d.cells, n.entities = d.entities,
         n.cams = d.cams, d.layouts \subseteq n.layouts, n.attached \subseteq n.layouts,
         n.default \in n.layouts \cup {Null}, n.used = d.used \/ \E l \in Layouts : n.used = d.used \cup {l}
  PROVE  KeepsContents(d, n)
<1>1. d.used \subseteq n.used /\ n.used \cap Entities = d.used \cap Entities
  BY ConfigAssumption
<1> QED BY <1>1 DEF KeepsContents, DataOK, ForeignKeys

LEMMA CameraStatements ==
  ASSUME NEW d, DataOK(d), NEW s \in Stmts, NEW reg, NEW n, n = Apply(d, s, reg),
         s.k \in {"insertCamera", "addStream", "dropStreams", "enable"}
  PROVE  Effect(d, s, reg, n)
<1>0. d \in Tables /\ s.x \in Cameras /\ (s.k = "enable" => s.y \in BOOLEAN)
  BY DEF DataOK, Stmts, SourceOK, ValueOK
<1>1. d.cams[s.x] # Null => d.cams[s.x].enabled \in BOOLEAN /\ d.cams[s.x].streams \in BOOLEAN
  BY <1>0 DEF Tables, CameraRows
<1>2. CASE s.k = "insertCamera"
  <2>1. \E row : row = Camera(TRUE, FALSE) /\ n = [d EXCEPT !.cams[s.x] = row, !.used = @ \cup {s.x}]
    BY <1>2 DEF Apply
  <2>2. \A en, st \in BOOLEAN : Camera(en, st) \in CameraRows /\ Camera(en, st) # Null
    BY CameraIs
  <2>3. PICK row : row \in CameraRows /\ row # Null /\ n = [d EXCEPT !.cams[s.x] = row, !.used = @ \cup {s.x}]
    BY <2>1, <2>2
  <2>4. KeepsContents(d, [d EXCEPT !.cams[s.x] = row, !.used = @ \cup {s.x}])
    BY <1>0, <2>3, CameraInserted
  <2> QED BY <1>2, <2>3, <2>4, KeepEffect
<1>3. CASE s.k # "insertCamera"
  <2>1. \E en, st : /\ n = updateCamera(d, s.x, en, st)
                    /\ d.cams[s.x] # Null => en \in BOOLEAN /\ st \in BOOLEAN
    <3>1. CASE s.k = "addStream"
      BY <1>1, <3>1 DEF Apply, createCameraStream
    <3>2. CASE s.k = "dropStreams"
      BY <1>1, <3>2 DEF Apply, deleteCameraStreams
    <3>3. CASE s.k = "enable"
      BY <1>0, <1>1, <3>3 DEF Apply
    <3> QED BY <1>3, <3>1, <3>2, <3>3
  <2>2. KeepsContents(d, n)
    BY <1>0, <2>1, CameraWritten
  <2> QED BY <1>3, <2>2, KeepEffect
<1> QED BY <1>2, <1>3

LEMMA OtherStatements ==
  ASSUME NEW d, DataOK(d), NEW s \in Stmts, NEW reg, ~Fails(d, s, reg), NEW n, n = Apply(d, s, reg),
         s.k \in {"ensureDevice", "attach", "cloneDisplays", "detach", "clearDefault", "setDisplay", "setDefault", "labelDevice", "label", "unlabel", "unlabelAll", "operate", "prefs", "insertLayout"}
  PROVE  Effect(d, s, reg, n)
<1>0. d \in Tables /\ ForeignKeys(d) /\ SourceOK(s) /\ ValueOK(s)
  BY DEF DataOK, Stmts
<1> DEFINE Fine == /\ n \in Tables /\ n.cells = d.cells /\ n.entities = d.entities
                   /\ n.cams = d.cams /\ d.layouts \subseteq n.layouts /\ n.attached \subseteq n.layouts
                   /\ n.default \in n.layouts \cup {Null}
                   /\ n.used = d.used \/ \E l \in Layouts : n.used = d.used \cup {l}
<1>1. ASSUME s.k = "ensureDevice" PROVE Fine
  <2>1. n = (createCameraDevice(d))
    BY <1>1 DEF Apply
  <2> QED BY <1>0, <1>1, <2>1 DEF Tables, ForeignKeys, SourceOK, ValueOK, Fails, RowIds, createCameraDevice
<1>2. ASSUME s.k = "attach" PROVE Fine
  <2>1. n = (attachLayoutToDisplay(d, s.x))
    BY <1>2 DEF Apply
  <2> QED BY <1>0, <1>2, <2>1 DEF Tables, ForeignKeys, SourceOK, ValueOK, Fails, RowIds, attachLayoutToDisplay
<1>3. ASSUME s.k = "cloneDisplays" PROVE Fine
  <2>1. n = (IF s.x \in d.attached THEN attachLayoutToDisplay(d, s.y) ELSE d)
    BY <1>3 DEF Apply
  <2> QED BY <1>0, <1>3, <2>1 DEF Tables, ForeignKeys, SourceOK, ValueOK, Fails, RowIds, attachLayoutToDisplay
<1>4. ASSUME s.k = "detach" PROVE Fine
  <2>1. n = ([d EXCEPT !.attached = @ \ {s.x}])
    BY <1>4 DEF Apply
  <2> QED BY <1>0, <1>4, <2>1 DEF Tables, ForeignKeys, SourceOK, ValueOK, Fails, RowIds
<1>5. ASSUME s.k = "clearDefault" PROVE Fine
  <2>1. n = ([d EXCEPT !.default = IF @ = s.x THEN Null ELSE @])
    BY <1>5 DEF Apply
  <2> QED BY <1>0, <1>5, <2>1 DEF Tables, ForeignKeys, SourceOK, ValueOK, Fails, RowIds
<1>6. ASSUME s.k = "setDisplay" PROVE Fine
  <2>1. n = (updateDisplay(d, reg, s.x))
    BY <1>6 DEF Apply
  <2> QED BY <1>0, <1>6, <2>1 DEF Tables, ForeignKeys, SourceOK, ValueOK, Fails, RowIds, updateDisplay
<1>7. ASSUME s.k = "setDefault" PROVE Fine
  <2>1. n = (updateDisplay(d, reg, d.enabled))
    BY <1>7 DEF Apply
  <2> QED BY <1>0, <1>7, <2>1 DEF Tables, ForeignKeys, SourceOK, ValueOK, Fails, RowIds, updateDisplay
<1>8. ASSUME s.k = "labelDevice" PROVE Fine
  <2>1. \E b \in BOOLEAN : n = [d EXCEPT !.devLabel = b]
    BY <1>8 DEF Apply, attachCameraDeviceLabel
  <2> QED BY <1>0, <2>1 DEF Tables, ForeignKeys
<1>9. ASSUME s.k = "label" PROVE Fine
  <2>1. n = (attachCameraLabel(d, s.x))
    BY <1>9 DEF Apply
  <2> QED BY <1>0, <1>9, <2>1 DEF Tables, ForeignKeys, SourceOK, ValueOK, Fails, RowIds, attachCameraLabel
<1>10. ASSUME s.k = "unlabel" PROVE Fine
  <2>1. n = ([d EXCEPT !.labeled = @ \ {s.x}])
    BY <1>10 DEF Apply
  <2> QED BY <1>0, <1>10, <2>1 DEF Tables, ForeignKeys, SourceOK, ValueOK, Fails, RowIds
<1>11. ASSUME s.k = "unlabelAll" PROVE Fine
  <2>1. n = ([d EXCEPT !.labeled = {}])
    BY <1>11 DEF Apply
  <2> QED BY <1>0, <1>11, <2>1 DEF Tables, ForeignKeys, SourceOK, ValueOK, Fails, RowIds
<1>12. ASSUME s.k = "operate" PROVE Fine
  <2>1. \E b \in BOOLEAN : n = [d EXCEPT !.operates = b]
    BY <1>12 DEF Apply, attachKioskLabel, detachKioskLabel
  <2> QED BY <1>0, <2>1 DEF Tables, ForeignKeys
<1>13. ASSUME s.k = "prefs" PROVE Fine
  <2>1. n = ([d EXCEPT !.prefs = @ + 1])
    BY <1>13 DEF Apply
  <2> QED BY <1>0, <1>13, <2>1 DEF Tables, ForeignKeys, SourceOK, ValueOK, Fails, RowIds
<1>14. ASSUME s.k = "insertLayout" PROVE Fine
  <2>1. n = (createLayout(d, s.x))
    BY <1>14 DEF Apply
  <2>2. s.x \in Layouts /\ s.x \in RowIds
    BY <1>0, <1>14 DEF SourceOK, RowIds
  <2>3. /\ n.cells = d.cells /\ n.entities = d.entities /\ n.cams = d.cams /\ n.default = d.default
        /\ n.attached = d.attached /\ n.layouts = d.layouts \cup {s.x} /\ n.used = d.used \cup {s.x}
    BY <1>0, <2>1 DEF Tables, createLayout
  <2>4. n \in Tables
    <3>1. d.layouts \cup {s.x} \in SUBSET Layouts /\ d.used \cup {s.x} \in SUBSET RowIds
      BY <1>0, <2>2 DEF Tables
    <3>2. n = [d EXCEPT !.layouts = d.layouts \cup {s.x}, !.used = d.used \cup {s.x}]
      BY <1>0, <2>1 DEF createLayout, Tables
    <3> QED BY <1>0, <3>1, <3>2 DEF Tables
  <2>5. n.used = d.used \/ \E l \in Layouts : n.used = d.used \cup {l}
    BY <2>2, <2>3
  <2>6. n.attached \subseteq n.layouts /\ n.default \in n.layouts \cup {Null}
    BY <1>0, <2>3 DEF ForeignKeys
  <2> QED BY <2>3, <2>4, <2>5, <2>6
<1>20. Fine
  BY <1>1, <1>2, <1>3, <1>4, <1>5, <1>6, <1>7, <1>8, <1>9, <1>10, <1>11, <1>12, <1>13, <1>14
<1>21. KeepsContents(d, n)
  BY <1>20, OtherWritten
<1> QED BY <1>21, KeepEffect

LEMMA EntityStatements ==
  ASSUME NEW d, DataOK(d), NEW s \in Stmts, NEW reg, ~Fails(d, s, reg), NEW n, n = Apply(d, s, reg),
         s.k \in {"insertEntity", "setEntity", "deleteEntity"}
  PROVE  Effect(d, s, reg, n)
<1>0. /\ d \in Tables /\ \A e \in Entities : d.entities[e] # Null => e \in d.used
      /\ s.x \in Entities /\ (s.k = "setEntity" => s.y \in Cameras \cup {Null})
  BY DEF DataOK, Stmts, SourceOK, ValueOK, Fails
<1>1. ASSUME DataOK(n), n.cells = d.cells, s.k # "insertEntity", n.used = d.used, NEW x \in Contents,
             n.entities = d.entities \/ n.entities = [d.entities EXCEPT ![s.x] = x],
             s.k = "setEntity" \/ x = Null
      PROVE  Effect(d, s, reg, n)
  <2>1. ASSUME NEW c \in Cells, NEW e \in Entities, Lags(n, c, e)
        PROVE  \/ s.k = "setEntity" /\ s.x = e
               \/ Lags(d, c, e) /\ ~(s.k = "propagate" /\ s.x = e)
    <3>1. CASE n.entities[e] = d.entities[e]
      BY <1>1, <2>1, <3>1 DEF Lags
    <3>2. CASE n.entities[e] # d.entities[e]
      <4>1. e = s.x /\ n.entities[e] = x
        BY <1>0, <1>1, <3>2 DEF Tables
      <4> QED BY <1>1, <2>1, <4>1, ConfigAssumption DEF Lags
    <3> QED BY <3>1, <3>2
  <2> QED BY <1>1, <2>1 DEF Effect, Informed, CellsKnown
<1>2. CASE s.k = "insertEntity"
  <2>1. s.y \in Contents /\ (s.y \in Cameras => d.cams[s.y] # Null)
    BY <1>2 DEF Stmts, ValueOK, Fails, Contents
  <2>2. EntityMade(d, s.x, s.y, n)
    BY <1>2 DEF Apply, createEntity, EntityMade
  <2>3. /\ DataOK(n) /\ n.cells = d.cells /\ n.used = d.used \cup {s.x}
        /\ n.entities = [d.entities EXCEPT ![s.x] = s.y]
    BY <1>0, <2>1, <2>2, EntityCreated
  <2>4. ASSUME Informed(d, s, reg), NEW c \in Cells, NEW e \in Entities, Lags(n, c, e)
        PROVE  Lags(d, c, e) /\ ~(s.k = "propagate" /\ s.x = e)
    <3>1. e \in d.used /\ s.x \notin d.used
      BY <1>2, <2>3, <2>4, ConfigAssumption DEF Informed, CellsKnown, Lags
    <3>2. n.entities[e] = d.entities[e]
      BY <1>0, <2>3, <3>1 DEF Tables
    <3> QED BY <1>2, <2>3, <2>4, <3>2 DEF Lags
  <2>5. Informed(d, s, reg) => CellsKnown(n)
    BY <2>3 DEF Informed, CellsKnown
  <2> QED BY <1>2, <2>3, <2>4, <2>5 DEF Effect
<1>3. CASE s.k = "setEntity"
  <2>1. n = d \/ (d.entities[s.x] # Null /\ s.y # Null /\ EntityPut(d, s.x, s.y, n))
    BY <1>3 DEF Apply, EntityPut
  <2>2. s.y \in Contents /\ (s.y \in Cameras => d.cams[s.y] # Null) /\ Null \in Contents
    BY <1>0, <1>3 DEF Fails, Contents
  <2>3. CASE n = d
    BY <1>1, <1>3, <2>2, <2>3
  <2>4. CASE n # d
    <3>1. DataOK(n) /\ n.cells = d.cells /\ n.used = d.used /\ n.entities = [d.entities EXCEPT ![s.x] = s.y]
      BY <1>0, <2>1, <2>2, <2>4, EntityWritten
    <3> QED BY <1>1, <1>3, <2>2, <3>1
  <2> QED BY <2>3, <2>4
<1>4. CASE s.k = "deleteEntity"
  <2>1. EntityPut(d, s.x, Null, n)
    BY <1>4 DEF Apply, EntityPut
  <2>2. Null \in Contents /\ Null \notin Cameras
    BY ConfigAssumption DEF Contents
  <2>3. DataOK(n) /\ n.cells = d.cells /\ n.used = d.used /\ n.entities = [d.entities EXCEPT ![s.x] = Null]
    BY <1>0, <2>1, <2>2, EntityWritten
  <2> QED BY <1>1, <1>4, <2>2, <2>3
<1> QED BY <1>2, <1>3, <1>4

LEMMA DropEffect ==
  ASSUME NEW d, DataOK(d), NEW s, NEW reg, NEW n, DataOK(n), n.used = d.used, NEW gone,
         \A c \in Cells : /\ n.cells[c].entity = d.cells[c].entity
                          /\ n.cells[c].camera = IF d.cells[c].camera \in gone THEN Null ELSE d.cells[c].camera,
         \A e \in Entities : n.entities[e] = IF d.entities[e] \in gone THEN Null ELSE d.entities[e],
         s.k \notin Copying \cup {"insertEntity"}
  PROVE  Effect(d, s, reg, n)
<1>1. ASSUME NEW c \in Cells, NEW e \in Entities, Lags(n, c, e)
      PROVE  Lags(d, c, e) /\ ~(s.k = "propagate" /\ s.x = e)
  <2>1. n.entities[e] # Null
    BY <1>1, ConfigAssumption DEF Lags
  <2>2. n.entities[e] = d.entities[e] /\ d.entities[e] \notin gone
    BY <2>1
  <2> QED BY <1>1, <2>2 DEF Lags, Copying
<1> QED BY <1>1 DEF Effect, Informed, CellsKnown

LEMMA DropStatements ==
  ASSUME NEW d, DataOK(d), NEW s \in Stmts, NEW reg, NEW n, n = Apply(d, s, reg),
         s.k \in {"deleteCamera", "deleteDevice"}
  PROVE  Effect(d, s, reg, n)
<1>1. CASE s.k = "deleteCamera"
  <2>1. {s.x} \in SUBSET Cameras /\ n = DropCameras(d, {s.x})
    BY <1>1 DEF Stmts, SourceOK, Apply
  <2>2. /\ DataOK(n) /\ n.used = d.used
        /\ \A c \in Cells : /\ n.cells[c].entity = d.cells[c].entity
                            /\ n.cells[c].camera = IF d.cells[c].camera \in {s.x} THEN Null ELSE d.cells[c].camera
        /\ \A e \in Entities : n.entities[e] = IF d.entities[e] \in {s.x} THEN Null ELSE d.entities[e]
    BY <2>1, CamerasDropped
  <2> DEFINE gone == {s.x}
  <2> HIDE DEF gone
  <2>3. /\ \A c \in Cells : /\ n.cells[c].entity = d.cells[c].entity
                            /\ n.cells[c].camera = IF d.cells[c].camera \in gone THEN Null ELSE d.cells[c].camera
        /\ \A e \in Entities : n.entities[e] = IF d.entities[e] \in gone THEN Null ELSE d.entities[e]
    BY <2>2 DEF gone
  <2>4. s.k \notin Copying \cup {"insertEntity"}
    BY <1>1 DEF Copying
  <2> QED BY <2>2, <2>3, <2>4, DropEffect
<1>2. CASE s.k = "deleteDevice"
  <2> DEFINE m == DropCameras(d, DeviceCams)
  <2>1. n = [m EXCEPT !.device = FALSE, !.devLabel = FALSE]
    BY <1>2 DEF Apply, deleteCameraDevice
  <2>2. /\ DataOK(m) /\ m.used = d.used
        /\ \A c \in Cells : /\ m.cells[c].entity = d.cells[c].entity
                            /\ m.cells[c].camera = IF d.cells[c].camera \in DeviceCams THEN Null ELSE d.cells[c].camera
        /\ \A e \in Entities : m.entities[e] = IF d.entities[e] \in DeviceCams THEN Null ELSE d.entities[e]
    BY CamerasDropped, ConfigAssumption
  <2> HIDE DEF m
  <2>3. m \in Tables /\ ForeignKeys(m)
    BY <2>2 DEF DataOK
  <2>4. /\ n \in Tables /\ n.cells = m.cells /\ n.entities = m.entities /\ n.cams = m.cams
        /\ n.layouts = m.layouts /\ n.attached = m.attached /\ n.default = m.default /\ n.used = m.used
    BY <2>1, <2>3 DEF Tables
  <2>5. DataOK(n)
    BY <2>2, <2>4, MoreCameras
  <2>6. s.k \notin Copying \cup {"insertEntity"}
    BY <1>2 DEF Copying
  <2> QED BY <2>2, <2>4, <2>5, <2>6, DropEffect
<1> QED BY <1>1, <1>2

LEMMA RowsAre ==
  ASSUME NEW d, DataOK(d), NEW s, NEW reg
  PROVE  /\ d \in Tables /\ d.cells \in [Cells -> CellRows]
         /\ \A c \in Cells : /\ d.cells[c] \in CellRows /\ d.cells[c].layout \in d.layouts \cup {Null}
                             /\ d.cells[c].camera = Null \/ d.cams[d.cells[c].camera] # Null
                             /\ ~(s.k = "propagate" /\ d.cells[c].entity = s.x) => RowOK(d, s, reg, c, d.cells[c])
                             /\ RowOK(d, s, reg, c, NoRow)
         /\ NoRow \in CellRows /\ NoRow.entity = Null /\ KeepsContents(d, d)
<1>1. d \in Tables /\ d.cells \in [Cells -> CellRows] /\ ForeignKeys(d)
  BY DEF DataOK, Tables
<1>2. \A c \in Cells : /\ d.cells[c] \in CellRows /\ d.cells[c].layout \in d.layouts \cup {Null}
                       /\ d.cells[c].camera = Null \/ d.cams[d.cells[c].camera] # Null
  BY <1>1 DEF ForeignKeys
<1>3. NoRow \in CellRows /\ NoRow.entity = Null /\ NoRow.camera = Null /\ NoRow.layout = Null
  BY DEF NoRow, CellRows
<1>4. KeepsContents(d, d)
  BY DEF KeepsContents
<1> QED BY <1>1, <1>2, <1>3, <1>4 DEF RowOK

LEMMA CamOfIs ==
  ASSUME NEW d, NEW reg, reg \in Cameras => d.cams[reg] # Null
  PROVE  CamOf(reg) \in Cameras \cup {Null} /\ (CamOf(reg) = Null \/ d.cams[CamOf(reg)] # Null)
BY DEF CamOf

LEMMA CellCopies ==
  ASSUME NEW d, DataOK(d), NEW s \in Stmts, NEW reg, ~Fails(d, s, reg), NEW n, n = Apply(d, s, reg),
         s.k \in Copying
  PROVE  Effect(d, s, reg, n)
<1>0. /\ d \in Tables /\ d.cells \in [Cells -> CellRows]
      /\ \A c \in Cells : /\ d.cells[c] \in CellRows /\ d.cells[c].layout \in d.layouts \cup {Null}
                          /\ d.cells[c].camera = Null \/ d.cams[d.cells[c].camera] # Null
                          /\ ~(s.k = "propagate" /\ d.cells[c].entity = s.x) => RowOK(d, s, reg, c, d.cells[c])
      /\ KeepsContents(d, d)
  BY RowsAre
<1>1. /\ reg \in Cameras => d.cams[reg] # Null
      /\ s.k = "insertCell" => /\ s.y[1] \in d.layouts /\ s.y[1] \in Layouts /\ s.y[2] \in Entities
                               /\ s.x \in Cells
      /\ s.k = "assignCell" => s.y \in Entities /\ s.x \in Cells
      /\ s.k = "propagate" => s.x \in Entities
  BY DEF Fails, Copying, Stmts, SourceOK, ValueOK
<1> DEFINE cam == CamOf(reg)
<1>2. cam \in Cameras \cup {Null} /\ (cam = Null \/ d.cams[cam] # Null)
  BY <1>1, CamOfIs
<1> HIDE DEF cam
<1>3. CASE s.k = "propagate" /\ reg = Null
  <2>1. n = d
    BY <1>3 DEF Apply
  <2> QED BY <1>0, <1>3, <2>1, KeepEffect
<1>4. CASE s.k = "propagate" /\ reg # Null
  <2> DEFINE rows == [c \in Cells |-> IF d.cells[c].entity = s.x THEN [d.cells[c] EXCEPT !.camera = cam] ELSE d.cells[c]]
  <2>1. n = [d EXCEPT !.cells = rows]
    BY <1>0, <1>4 DEF Apply, SetCells, cam, Tables
  <2>2. rows \in [Cells -> CellRows]
    BY <1>0, <1>2 DEF CellRows
  <2>3. ASSUME NEW c \in Cells, d.cells[c].entity = s.x PROVE RowOK(d, s, reg, c, rows[c])
    <3>1. /\ rows[c] \in CellRows /\ rows[c].entity = s.x /\ rows[c].layout = d.cells[c].layout
          /\ rows[c].camera = cam
      BY <1>0, <1>2, <2>3 DEF CellRows
    <3> QED BY <1>0, <1>2, <1>4, <2>3, <3>1 DEF RowOK, Copying, Copied, cam
  <2>4. ASSUME NEW c \in Cells, d.cells[c].entity # s.x PROVE RowOK(d, s, reg, c, rows[c])
    BY <1>0, <2>4
  <2>5. CellsPut(d, rows, {}, n)
    BY <2>1 DEF CellsPut
  <2> HIDE DEF rows
  <2>6. s.k # "insertEntity" /\ \A c \in Cells : RowOK(d, s, reg, c, rows[c])
    BY <1>4, <2>3, <2>4
  <2> QED BY <2>2, <2>5, <2>6, RowsEffect
<1>5. CASE s.k = "insertCell"
  <2> DEFINE row == [layout |-> s.y[1], entity |-> s.y[2], camera |-> cam]
             rows == [d.cells EXCEPT ![s.x] = row]
  <2>1. n = [d EXCEPT !.cells[s.x] = row, !.used = @ \cup {s.x}]
    BY <1>5 DEF Apply, cam
  <2>2. row \in CellRows /\ row.layout = s.y[1] /\ row.entity = s.y[2] /\ row.camera = cam
    BY <1>1, <1>2, <1>5 DEF CellRows
  <2> HIDE DEF row
  <2>3. CellsPut(d, rows, {s.x}, n)
    BY <1>0, <1>1, <1>5, <2>1 DEF CellsPut, Tables
  <2>4. rows \in [Cells -> CellRows] /\ \A c \in Cells : rows[c] = IF c = s.x THEN row ELSE d.cells[c]
    BY <1>0, <2>2
  <2> HIDE DEF rows
  <2>5. \A c \in Cells : RowOK(d, s, reg, c, row)
    BY <1>1, <1>2, <1>5, <2>2 DEF RowOK, Copying, Copied, cam
  <2>6. s.k # "insertEntity" /\ \A c \in Cells : RowOK(d, s, reg, c, rows[c])
    BY <1>0, <1>5, <2>4, <2>5
  <2> QED BY <2>3, <2>4, <2>6, RowsEffect
<1>6. CASE s.k = "assignCell"
  <2> DEFINE row == [d.cells[s.x] EXCEPT !.entity = s.y, !.camera = cam]
             rows == [d.cells EXCEPT ![s.x] = row]
  <2>1. n = d \/ n = [d EXCEPT !.cells[s.x] = row]
    BY <1>6 DEF Apply, cam
  <2>2. row \in CellRows /\ row.layout = d.cells[s.x].layout /\ row.entity = s.y /\ row.camera = cam
    BY <1>0, <1>1, <1>2, <1>6 DEF CellRows
  <2> HIDE DEF row
  <2>3. CASE n = d
    BY <1>0, <1>6, <2>3, KeepEffect
  <2>4. CASE n # d
    <3>1. CellsPut(d, rows, {}, n)
      BY <1>0, <1>1, <1>6, <2>1, <2>4 DEF CellsPut, Tables
    <3>2. rows \in [Cells -> CellRows] /\ \A c \in Cells : rows[c] = IF c = s.x THEN row ELSE d.cells[c]
      BY <1>0, <2>2
    <3> HIDE DEF rows
    <3>3. \A c \in Cells : RowOK(d, s, reg, c, row)
      BY <1>0, <1>1, <1>2, <1>6, <2>2 DEF RowOK, Copying, Copied, cam
    <3>4. s.k # "insertEntity" /\ \A c \in Cells : RowOK(d, s, reg, c, rows[c])
      BY <1>0, <1>6, <3>2, <3>3
    <3> QED BY <3>1, <3>2, <3>4, RowsEffect
  <2> QED BY <2>3, <2>4
<1> QED BY <1>3, <1>4, <1>5, <1>6 DEF Copying

LEMMA CellRemovals ==
  ASSUME NEW d, DataOK(d), NEW s \in Stmts, NEW reg, NEW n, n = Apply(d, s, reg),
         s.k \in {"clearCell", "deleteCell", "dropCameraCells", "dropLayoutCells"}
  PROVE  Effect(d, s, reg, n)
<1>0. /\ d \in Tables /\ d.cells \in [Cells -> CellRows]
      /\ \A c \in Cells : /\ d.cells[c] \in CellRows /\ d.cells[c].layout \in d.layouts \cup {Null}
                          /\ ~(s.k = "propagate" /\ d.cells[c].entity = s.x) => RowOK(d, s, reg, c, d.cells[c])
                          /\ RowOK(d, s, reg, c, NoRow)
      /\ KeepsContents(d, d) /\ NoRow \in CellRows
  BY RowsAre
<1>1. s.k \in {"clearCell", "deleteCell"} => s.x \in Cells
  BY DEF Stmts, SourceOK
<1>2. ASSUME NEW rows, CellsPut(d, rows, {}, n), rows \in [Cells -> CellRows],
             \A c \in Cells : rows[c] \in {d.cells[c], NoRow} \/ RowOK(d, s, reg, c, rows[c])
      PROVE  Effect(d, s, reg, n)
  <2>1. s.k # "insertEntity" /\ \A c \in Cells : RowOK(d, s, reg, c, rows[c])
    BY <1>0, <1>2
  <2> QED BY <1>2, <2>1, RowsEffect
<1>3. CASE s.k = "clearCell"
  <2> DEFINE row == [NoRow EXCEPT !.layout = d.cells[s.x].layout]
             rows == [d.cells EXCEPT ![s.x] = row]
  <2>1. n = d \/ n = [d EXCEPT !.cells[s.x] = row]
    BY <1>3 DEF Apply
  <2>2. row \in CellRows /\ row.layout = d.cells[s.x].layout /\ row.entity = Null /\ row.camera = Null
    BY <1>0, <1>1, <1>3 DEF CellRows, NoRow
  <2> HIDE DEF row
  <2>3. CASE n = d
    BY <1>0, <1>3, <2>3, KeepEffect
  <2>4. CASE n # d
    <3>1. CellsPut(d, rows, {}, n)
      BY <1>0, <1>1, <1>3, <2>1, <2>4 DEF CellsPut, Tables
    <3>2. rows \in [Cells -> CellRows] /\ \A c \in Cells : rows[c] = IF c = s.x THEN row ELSE d.cells[c]
      BY <1>0, <2>2
    <3> HIDE DEF rows
    <3>3. RowOK(d, s, reg, s.x, row)
      BY <1>0, <1>1, <1>3, <2>2 DEF RowOK
    <3> QED BY <1>2, <3>1, <3>2, <3>3
  <2> QED BY <2>3, <2>4
<1>4. CASE s.k = "deleteCell"
  <2> DEFINE rows == [d.cells EXCEPT ![s.x] = NoRow]
  <2>1. CellsPut(d, rows, {}, n)
    BY <1>0, <1>1, <1>4 DEF CellsPut, Tables, Apply
  <2>2. rows \in [Cells -> CellRows] /\ \A c \in Cells : rows[c] = IF c = s.x THEN NoRow ELSE d.cells[c]
    BY <1>0
  <2> HIDE DEF rows
  <2> QED BY <1>2, <2>1, <2>2
<1>5. CASE s.k = "dropCameraCells"
  <2> DEFINE rows == [c \in Cells |-> IF d.cells[c].camera = s.x THEN NoRow ELSE d.cells[c]]
  <2>1. n = [d EXCEPT !.cells = rows]
    BY <1>0, <1>5 DEF Apply, DropCells, SetCells, Tables
  <2>2. rows \in [Cells -> CellRows] /\ \A c \in Cells : rows[c] \in {d.cells[c], NoRow}
    BY <1>0
  <2> HIDE DEF rows
  <2>3. CellsPut(d, rows, {}, n)
    BY <2>1 DEF CellsPut
  <2> QED BY <1>2, <2>2, <2>3
<1>6. CASE s.k = "dropLayoutCells"
  <2> DEFINE rows == [c \in Cells |-> IF d.cells[c].layout = s.x THEN NoRow ELSE d.cells[c]]
  <2>1. n = [d EXCEPT !.cells = rows]
    BY <1>0, <1>6 DEF Apply, DropCells, SetCells, Tables
  <2>2. rows \in [Cells -> CellRows] /\ \A c \in Cells : rows[c] \in {d.cells[c], NoRow}
    BY <1>0
  <2> HIDE DEF rows
  <2>3. CellsPut(d, rows, {}, n)
    BY <2>1 DEF CellsPut
  <2> QED BY <1>2, <2>2, <2>3
<1> QED BY <1>3, <1>4, <1>5, <1>6

LEMMA LayoutDeleted ==
  ASSUME NEW d, DataOK(d), NEW s \in Stmts, NEW reg, NEW n, n = Apply(d, s, reg), s.k = "deleteLayout"
  PROVE  Effect(d, s, reg, n)
<1> DEFINE rows == [c \in Cells |-> IF d.cells[c].layout = s.x THEN NoRow ELSE d.cells[c]]
<1>0. d \in Tables /\ ForeignKeys(d) /\ (\A e \in Entities : d.entities[e] # Null => e \in d.used) /\ s.x \in Layouts
  BY DEF DataOK, Stmts, SourceOK
<1>1. /\ NoRow \in CellRows /\ NoRow.entity = Null /\ NoRow.layout = Null /\ NoRow.camera = Null
  BY DEF NoRow, CellRows
<1>2. n = [d EXCEPT !.cells = rows, !.layouts = @ \ {s.x}, !.attached = @ \ {s.x},
                    !.default = IF @ = s.x THEN Null ELSE @]
  BY <1>0 DEF Apply, DropCells, SetCells, Tables
<1>3. rows \in [Cells -> CellRows] /\ \A c \in Cells : rows[c] = IF d.cells[c].layout = s.x THEN NoRow ELSE d.cells[c]
  BY <1>0, <1>1 DEF Tables
<1> HIDE DEF rows
<1>4. /\ n \in Tables /\ n.cells = rows /\ n.entities = d.entities /\ n.cams = d.cams /\ n.used = d.used
      /\ n.layouts = d.layouts \ {s.x} /\ n.attached = d.attached \ {s.x}
      /\ n.default = IF d.default = s.x THEN Null ELSE d.default
  <2>1. /\ n.cells = rows /\ n.entities = d.entities /\ n.cams = d.cams /\ n.used = d.used
        /\ n.layouts = d.layouts \ {s.x} /\ n.attached = d.attached \ {s.x}
        /\ n.default = IF d.default = s.x THEN Null ELSE d.default
    BY <1>0, <1>2 DEF Tables
  <2>2. n.layouts \in SUBSET Layouts /\ n.attached \in SUBSET Layouts /\ n.default \in Layouts \cup {Null}
    BY <1>0, <2>1 DEF Tables
  <2>3. n \in Tables
    BY <1>0, <1>2, <1>3, <2>1, <2>2 DEF Tables
  <2> QED BY <2>1, <2>3
<1>5. ForeignKeys(n)
  <2>1. n.attached \subseteq n.layouts /\ n.default \in n.layouts \cup {Null}
    BY <1>0, <1>4 DEF ForeignKeys
  <2>2. ASSUME NEW c \in Cells
        PROVE  /\ n.cells[c].layout \in n.layouts \cup {Null}
               /\ n.cells[c].camera = Null \/ n.cams[n.cells[c].camera] # Null
    <3>1. CASE d.cells[c].layout = s.x
      BY <1>1, <1>3, <1>4, <3>1
    <3>2. CASE d.cells[c].layout # s.x
      <4>1. n.cells[c] = d.cells[c] /\ n.cams = d.cams
        BY <1>3, <1>4, <3>2
      <4>2. d.cells[c].layout \in d.layouts \cup {Null}
        BY <1>0 DEF ForeignKeys
      <4>3. d.cells[c].camera = Null \/ d.cams[d.cells[c].camera] # Null
        BY <1>0 DEF ForeignKeys
      <4> QED BY <1>4, <3>2, <4>1, <4>2, <4>3
    <3> QED BY <3>1, <3>2
  <2>3. \A e \in Entities : n.entities[e] \in Cameras => n.cams[n.entities[e]] # Null
    BY <1>0, <1>4 DEF ForeignKeys
  <2> QED BY <2>1, <2>2, <2>3 DEF ForeignKeys
<1>6. DataOK(n)
  BY <1>0, <1>4, <1>5 DEF DataOK
<1>7. CellsKnown(d) => CellsKnown(n)
  BY <1>1, <1>3, <1>4 DEF CellsKnown
<1>8. ASSUME NEW c \in Cells, NEW e \in Entities, Lags(n, c, e)
      PROVE  Lags(d, c, e) /\ ~(s.k = "propagate" /\ s.x = e)
  BY <1>1, <1>3, <1>4, <1>8, ConfigAssumption DEF Lags
<1> QED BY <1>4, <1>6, <1>7, <1>8 DEF Effect, Informed

(* Every statement that does not fail.                                     *)
LEMMA StatementEffect ==
  ASSUME NEW d, DataOK(d), NEW s \in Stmts, NEW reg, ~Fails(d, s, reg)
  PROVE  Effect(d, s, reg, Apply(d, s, reg))
<1>1. PICK n : n = Apply(d, s, reg)
  OBVIOUS
<1>2. CASE s.k \in {"insertCamera", "addStream", "dropStreams", "enable"}
  BY <1>1, <1>2, CameraStatements
<1>3. CASE s.k \in {"insertEntity", "setEntity", "deleteEntity"}
  BY <1>1, <1>3, EntityStatements
<1>4. CASE s.k \in {"deleteCamera", "deleteDevice"}
  BY <1>1, <1>4, DropStatements
<1>5. CASE s.k \in Copying
  BY <1>1, <1>5, CellCopies
<1>6. CASE s.k \in {"clearCell", "deleteCell", "dropCameraCells", "dropLayoutCells"}
  BY <1>1, <1>6, CellRemovals
<1>7. CASE s.k = "deleteLayout"
  BY <1>1, <1>7, LayoutDeleted
<1>8. CASE s.k \in {"ensureDevice", "attach", "cloneDisplays", "detach", "clearDefault", "setDisplay",
                    "setDefault", "labelDevice", "label", "unlabel", "unlabelAll", "operate", "prefs",
                    "insertLayout"}
  BY <1>1, <1>8, OtherStatements
<1>9. CASE s.k \in {"import", "disableOthers", "cloneCells", "readEntity", "readAttached", "notify"}
  <2>1. Apply(d, s, reg) = d
    BY <1>9 DEF Apply
  <2>2. KeepsContents(d, d)
    BY RowsAre
  <2> QED BY <1>9, <2>1, <2>2, KeepEffect
<1>10. s.k \in Kinds
  BY DEF Stmts
<1> QED BY <1>2, <1>3, <1>4, <1>5, <1>6, <1>7, <1>8, <1>9, <1>10 DEF Kinds, Copying

-----------------------------------------------------------------------------
(* The inductive invariant.                                                *)
Busy == {w \in Workers : op[w] # NoHandler}

(* Every handler runs a plan.                                              *)
OpsOK ==
  /\ op \in [Workers -> {NoHandler} \cup [todo : Seq(Stmts), reg : Contents \cup Layouts]]
  /\ \A w \in Busy : Plan(op[w].todo)

(* A reload is told once, by a handler that ends with it.                  *)
Counted ==
  /\ reloads \in Nat /\ cfgStarted \in Nat /\ cfgStarted <= MaxChanges
  /\ reloads + Cardinality(Busy) <= cfgStarted
Fetching == fetch = NoFetch \/ fetch.at \in {"scope", "layouts"}
FlagsOK == isViewer \in BOOLEAN /\ lapsed \in BOOLEAN /\ overlap \in BOOLEAN

(* Nothing will tell the kiosk to reload, and nothing it shows will change. *)
Making(t) == Len(t) = 1 /\ t[1].k = "insertLayout"
Calm == reloads = 0 /\ ~lapsed /\ \A w \in Busy : Making(op[w].todo)
Carried ==
  Calm => /\ fetch = NoFetch => bundle = Current(db, isViewer)
          /\ fetch.at = "scope" => fetch.part = ReadScope(db, isViewer)
          /\ fetch.at = "layouts" => fetch.part = ReadLayouts(db, ReadScope(db, isViewer))

(* As long as handlers run one after the other, a cell's camera is that of *)
(* its entity, or the handler under way is about to copy it.               *)
Owes(t, e) ==
  \/ t[1].k = "propagate" /\ t[1].x = e
  \/ Len(t) > 1 /\ t[1].k = "readEntity" /\ t[2].k = "propagate" /\ t[2].x = e
InStep(w) ==
  /\ Known(op[w].todo, db.used)
  /\ op[w].todo[1].k \in Copying => op[w].reg = db.entities[Copied(op[w].todo[1])]
Alone ==
  ~overlap => /\ \A v, w \in Busy : v = w
              /\ CellsKnown(db) /\ \A w \in Busy : InStep(w)
              /\ \A x \in Cells, e \in Entities : Lags(db, x, e) => \E w \in Busy : Owes(op[w].todo, e)

CfgInv == DataOK(db) /\ OpsOK /\ Counted /\ Fetching /\ FlagsOK /\ Carried /\ Alone

LEMMA CfgInitInv == CfgInit => CfgInv
<1> SUFFICES ASSUME CfgInit PROVE CfgInv
  OBVIOUS
<1> DEFINE cam == CHOOSE c \in DeviceCams \cap Present : TRUE
           ent == CHOOSE e \in Entities : TRUE
           lay == CHOOSE l \in Layouts : TRUE
           row == CHOOSE c \in Cells : TRUE
           first == [layout |-> lay, entity |-> ent, camera |-> cam]
           rows == [c \in Cells |-> IF c = row THEN first ELSE NoRow]
           ents == [e \in Entities |-> IF e = ent THEN cam ELSE Null]
           on == Camera(TRUE, TRUE)
           cams == [c \in Cameras |-> IF c \in Present THEN on ELSE Null]
<1>1. /\ cam \in DeviceCams \cap Present /\ cam \in Cameras /\ cam \in Present
      /\ ent \in Entities /\ lay \in Layouts /\ row \in Cells
  BY ConfigAssumption
<1>2. on \in CameraRows /\ on # Null
  <2>1. \A en, st \in BOOLEAN : Camera(en, st) \in CameraRows /\ Camera(en, st) # Null
    BY CameraIs
  <2> QED BY <2>1
<1>3. db = [layouts |-> {lay}, attached |-> {lay}, default |-> lay, enabled |-> TRUE,
            device |-> TRUE, cells |-> rows, entities |-> ents, cams |-> cams,
            labeled |-> {}, devLabel |-> FALSE, operates |-> FALSE, prefs |-> 0,
            used |-> Present \cup {ent, lay, row}]
  BY DEF CfgInit
<1> HIDE DEF cam, ent, lay, row, on
<1>4. first \in CellRows /\ first.entity = ent /\ first.layout = lay /\ first.camera = cam
      /\ NoRow \in CellRows /\ NoRow.entity = Null /\ NoRow.layout = Null /\ NoRow.camera = Null
  BY <1>1 DEF CellRows, NoRow
<1> HIDE DEF first
<1>5. /\ rows \in [Cells -> CellRows] /\ ents \in [Entities -> Contents]
      /\ cams \in [Cameras -> CameraRows \cup {Null}] /\ Present \cup {ent, lay, row} \subseteq RowIds
      /\ \A c \in Cells : rows[c] = IF c = row THEN first ELSE NoRow
      /\ \A e \in Entities : ents[e] = IF e = ent THEN cam ELSE Null
      /\ cams[cam] # Null
  BY <1>1, <1>2, <1>4, ConfigAssumption DEF Contents, RowIds
<1> HIDE DEF rows, ents, cams
<1>6. db \in Tables
  BY <1>1, <1>3, <1>5 DEF Tables
<1>7. /\ db.attached = {lay} /\ db.layouts = {lay} /\ db.default = lay /\ db.cells = rows
      /\ db.entities = ents /\ db.cams = cams /\ db.used = Present \cup {ent, lay, row}
  BY <1>3
<1>8. DataOK(db)
  <2>1. ForeignKeys(db)
    BY <1>1, <1>4, <1>5, <1>7, ConfigAssumption DEF ForeignKeys
  <2>2. \A e \in Entities : db.entities[e] # Null => e \in db.used
    BY <1>5, <1>7
  <2> QED BY <1>6, <2>1, <2>2 DEF DataOK
<1>9. op = [w \in Workers |-> NoHandler] /\ Busy = {}
  BY DEF CfgInit, Busy
<1>10. OpsOK
  BY <1>9 DEF OpsOK
<1>11. Counted
  <2>1. Cardinality(Busy) = 0
    BY <1>9, FS_EmptySet
  <2> QED BY <2>1, ConfigAssumption DEF Counted, CfgInit
<1>12. Fetching /\ FlagsOK
  BY DEF CfgInit, Fetching, FlagsOK
<1>13. Carried
  BY DEF CfgInit, Carried, NoFetch
<1>14. Alone
  <2>1. CellsKnown(db)
    BY <1>4, <1>5, <1>7 DEF CellsKnown
  <2>2. ASSUME NEW x \in Cells, NEW e \in Entities, Lags(db, x, e) PROVE FALSE
    <3>1. e # Null
      BY ConfigAssumption
    <3> QED BY <1>4, <1>5, <1>7, <2>2, <3>1 DEF Lags
  <2> QED BY <1>9, <2>1, <2>2 DEF Alone
<1> QED BY <1>8, <1>10, <1>11, <1>12, <1>13, <1>14 DEF CfgInv

(* What follows for the bundle.                                            *)
LEMMA BundleFromInv == CfgInv => BundleSafe
<1> SUFFICES ASSUME CfgInv PROVE BundleSafe
  OBVIOUS
<1>1. DataOK(db) /\ OpsOK /\ Counted /\ Fetching /\ FlagsOK /\ Carried /\ Alone
  BY DEF CfgInv
<1>2. CfgTypeOK
  <2>1. Cardinality(Busy) \in Nat
    <3>1. Busy \subseteq Workers /\ IsFiniteSet(Workers)
      BY ConfigAssumption DEF Busy
    <3> QED BY <3>1, FS_Subset, FS_CardinalityType
  <2>2. reloads \in 0..MaxChanges
    BY <1>1, <2>1, ConfigAssumption DEF Counted
  <2>3. fetch.at \in {"none", "scope", "layouts"}
    BY <1>1 DEF Fetching, NoFetch
  <2> QED BY <1>1, <2>2, <2>3 DEF CfgTypeOK, DataOK, ForeignKeys
<1>3. ASSUME Settled PROVE bundle = Current(db, isViewer) /\ Busy = {}
  <2>1. Busy = {}
    BY <1>3 DEF Settled, Busy
  <2>2. Calm
    BY <1>3, <2>1 DEF Settled, Calm
  <2> QED BY <1>1, <1>3, <2>1, <2>2 DEF Carried, Settled
<1>4. ASSUME Settled, isViewer \/ ~overlap
      PROVE  {c \in CellCams(bundle.layouts) : Enabled(db, c)} \subseteq {p[1] : p \in bundle.cams}
  <2> DEFINE b == ReadLayouts(db, ReadScope(db, isViewer))
             shown == IF isViewer THEN {c \in CellCams(b.layouts) : Enabled(db, c)} ELSE b.cams
  <2>1. bundle = [b EXCEPT !.cams = WithStreams(db, shown)]
    BY <1>3, <1>4 DEF Current, ReadCameras
  <2>2. /\ b.layouts = BuiltLayouts(db) /\ (~isViewer => b.cams = ScopeCams(db))
        /\ bundle.layouts = BuiltLayouts(db) /\ bundle.cams = WithStreams(db, shown)
    BY <2>1 DEF ReadLayouts, ReadScope, NoBundle
  <2> HIDE DEF b
  <2>3. {p[1] : p \in bundle.cams} = shown
    <3> HIDE DEF shown
    <3>1. ASSUME NEW c \in shown PROVE c \in {p[1] : p \in bundle.cams}
      <4>1. <<c, IF db.cams[c] = Null THEN FALSE ELSE db.cams[c].streams>> \in bundle.cams
        BY <2>2 DEF WithStreams
      <4> QED BY <4>1
    <3>2. ASSUME NEW p \in bundle.cams PROVE p[1] \in shown
      <4>1. PICK c \in shown : p = <<c, IF db.cams[c] = Null THEN FALSE ELSE db.cams[c].streams>>
        BY <2>2 DEF WithStreams
      <4> QED BY <4>1
    <3> QED BY <3>1, <3>2
  <2>4. CASE isViewer
    BY <2>2, <2>3, <2>4
  <2>5. CASE ~isViewer
    <3> SUFFICES ASSUME NEW c \in CellCams(BuiltLayouts(db)), Enabled(db, c) PROVE c \in camerasForLayoutIds(db)
      BY <2>2, <2>3, <2>5 DEF ScopeCams
    <3>1. c \in Cameras /\ \E l \in BuiltLayouts(db) : \E p \in l[2] : p[2] = c
      BY DEF CellCams
    <3>2. PICK l \in db.attached : \E p \in {<<x, CellContent(db, x)>> : x \in CellsOf(db, l)} : p[2] = c
      <4>1. PICK m \in BuiltLayouts(db) : \E p \in m[2] : p[2] = c
        BY <3>1
      <4>2. PICK l \in db.attached : m = <<l, {<<x, CellContent(db, x)>> : x \in CellsOf(db, l)}>>
        BY DEF BuiltLayouts
      <4>3. m[2] = {<<x, CellContent(db, x)>> : x \in CellsOf(db, l)}
        BY <4>2
      <4> QED BY <4>1, <4>3
    <3>3. PICK x \in CellsOf(db, l) : CellContent(db, x) = c
      BY <3>2
    <3>4. x \in Cells /\ db.cells[x].layout = l
      BY <3>3 DEF CellsOf
    <3>5. db.cells[x].camera = c
      <4>1. CASE db.cells[x].entity # Null /\ db.entities[db.cells[x].entity] # Null
        <5> DEFINE e == db.cells[x].entity
        <5>1. e \in Entities /\ db.entities[e] = c
          BY <1>1, <3>3, <3>4, <4>1 DEF CellContent, DataOK, Tables, CellRows
        <5>2. ~Lags(db, x, e)
          BY <1>1, <1>3, <1>4, <2>5, <3>4, <5>1 DEF Alone
        <5> QED BY <3>1, <5>1, <5>2 DEF Lags
      <4>2. CASE ~(db.cells[x].entity # Null /\ db.entities[db.cells[x].entity] # Null)
        BY <3>3, <4>2 DEF CellContent
      <4> QED BY <4>1, <4>2
    <3> QED BY <3>1, <3>2, <3>4, <3>5 DEF camerasForLayoutIds, listLayoutsForDisplay
  <2> QED BY <2>4, <2>5
<1> QED BY <1>2, <1>3, <1>4 DEF BundleSafe, BundleIsCurrent, BundleIsClosed

-----------------------------------------------------------------------------
(* A layout nobody uses yet is in no bundle.                               *)
LEMMA SameBundle ==
  ASSUME NEW d, NEW n, NEW v, n.default = d.default, n.prefs = d.prefs, n.cams = d.cams, n.cells = d.cells,
         n.attached = d.attached, n.entities = d.entities, n.labeled = d.labeled, n.devLabel = d.devLabel,
         n.operates = d.operates
  PROVE  /\ ReadScope(n, v) = ReadScope(d, v) /\ Current(n, v) = Current(d, v)
         /\ ReadLayouts(n, ReadScope(n, v)) = ReadLayouts(d, ReadScope(d, v))
<1>1. \A c : Enabled(n, c) <=> Enabled(d, c)
  BY DEF Enabled
<1>2. \A c : CellContent(n, c) = CellContent(d, c)
  BY DEF CellContent
<1>3. \A l : CellsOf(n, l) = CellsOf(d, l)
  BY DEF CellsOf
<1>4. camerasForLayoutIds(n) = camerasForLayoutIds(d)
  BY <1>1 DEF camerasForLayoutIds, listLayoutsForDisplay
<1>5. camerasForLabelIds(n) = camerasForLabelIds(d)
  BY <1>1 DEF camerasForLabelIds
<1>6. ScopeCams(n) = ScopeCams(d)
  BY <1>4, <1>5 DEF ScopeCams
<1>7. ReadScope(n, v) = ReadScope(d, v)
  BY <1>6 DEF ReadScope
<1>8. BuiltLayouts(n) = BuiltLayouts(d)
  <2>1. \A l : {<<c, CellContent(n, c)>> : c \in CellsOf(n, l)} = {<<c, CellContent(d, c)>> : c \in CellsOf(d, l)}
    BY <1>2, <1>3
  <2> QED BY <2>1 DEF BuiltLayouts
<1>9. \A b : ReadLayouts(n, b) = ReadLayouts(d, b)
  BY <1>8 DEF ReadLayouts
<1>10. \A cams : WithStreams(n, cams) = WithStreams(d, cams)
  BY DEF WithStreams
<1>11. \A b : ReadCameras(n, b, v) = ReadCameras(d, b, v)
  <2> SUFFICES ASSUME NEW b PROVE ReadCameras(n, b, v) = ReadCameras(d, b, v)
    OBVIOUS
  <2>1. {c \in CellCams(b.layouts) : Enabled(n, c)} = {c \in CellCams(b.layouts) : Enabled(d, c)}
    BY <1>1
  <2> QED BY <1>10, <2>1 DEF ReadCameras
<1> QED BY <1>7, <1>9, <1>11 DEF Current

LEMMA LayoutMade ==
  ASSUME NEW d, DataOK(d), NEW s, s.k = "insertLayout", NEW reg, NEW n, n = Apply(d, s, reg), NEW v
  PROVE  /\ ReadScope(n, v) = ReadScope(d, v) /\ Current(n, v) = Current(d, v)
         /\ ReadLayouts(n, ReadScope(n, v)) = ReadLayouts(d, ReadScope(d, v))
<1>1. n = [d EXCEPT !.layouts = @ \cup {s.x}, !.used = @ \cup {s.x}] /\ d \in Tables
  BY DEF Apply, createLayout, DataOK
<1>2. /\ n.default = d.default /\ n.prefs = d.prefs /\ n.cams = d.cams /\ n.cells = d.cells
      /\ n.attached = d.attached /\ n.entities = d.entities /\ n.labeled = d.labeled
      /\ n.devLabel = d.devLabel /\ n.operates = d.operates
  BY <1>1 DEF Tables
<1> QED BY <1>2, SameBundle

-----------------------------------------------------------------------------
(* Each action keeps the invariant.                                        *)
LEMMA BusyCounts ==
  ASSUME NEW A \in SUBSET Workers, NEW B
  PROVE  /\ Cardinality(A) \in Nat
         /\ B \subseteq A => Cardinality(B) \in Nat /\ Cardinality(B) <= Cardinality(A)
         /\ \A w \in A : B = A \ {w} => Cardinality(B) = Cardinality(A) - 1
         /\ \A w \in Workers \ A : B = A \cup {w} => Cardinality(B) = Cardinality(A) + 1
<1>1. IsFiniteSet(A)
  BY ConfigAssumption, FS_Subset
<1> QED BY <1>1, FS_CardinalityType, FS_Subset, FS_RemoveElement, FS_AddElement

(* A request begins.                                                       *)
LEMMA StartKeeps ==
  ASSUME CfgInv, NEW w \in Workers, Start(w)
  PROVE  CfgInv'
<1>1. DataOK(db) /\ OpsOK /\ Counted /\ Fetching /\ FlagsOK /\ Carried /\ Alone
  BY DEF CfgInv
<1>2. PICK h \in Handlers : op' = [op EXCEPT ![w] = [todo |-> h, reg |-> Null]]
  BY DEF Start
<1>3. Request(h)
  BY <1>1, HandlersArePlanned
<1>4. /\ op[w] = NoHandler /\ cfgStarted < MaxChanges /\ cfgStarted' = cfgStarted + 1
      /\ overlap' = (overlap \/ \E v \in Workers : op[v] # NoHandler)
      /\ db' = db /\ isViewer' = isViewer /\ reloads' = reloads /\ fetch' = fetch /\ bundle' = bundle
      /\ lapsed' = lapsed
  BY DEF Start, kioskVars
<1>5. Plan(h) /\ Known(h, db.used) /\ h[1].k \notin Copying /\ h \in Seq(Stmts) /\ Len(h) > 0 /\ h # <<>>
  BY <1>3 DEF Request, Plan, EndsTold
<1>6. /\ op'[w].todo = h /\ op'[w].reg = Null /\ op'[w] # NoHandler
      /\ \A v \in Workers : v # w => op'[v] = op[v]
      /\ op' \in [Workers -> {NoHandler} \cup [todo : Seq(Stmts), reg : Contents \cup Layouts]]
  BY <1>1, <1>2, <1>5 DEF OpsOK, NoHandler, Contents
<1>7. Busy' = Busy \cup {w} /\ w \in Workers \ Busy
  BY <1>4, <1>6 DEF Busy
<1>8. OpsOK'
  <2>1. ASSUME NEW v \in Busy' PROVE Plan(op'[v].todo)
    BY <1>1, <1>5, <1>6, <1>7, <2>1 DEF OpsOK, Busy
  <2> QED BY <1>6, <2>1 DEF OpsOK
<1>9. Counted'
  <2>1. Cardinality(Busy') = Cardinality(Busy) + 1 /\ Cardinality(Busy) \in Nat
    BY <1>7, BusyCounts DEF Busy
  <2> QED BY <1>1, <1>4, <2>1, ConfigAssumption DEF Counted
<1>10. Fetching' /\ FlagsOK'
  BY <1>1, <1>4 DEF Fetching, FlagsOK
<1>11. Carried'
  <2>1. Calm' => Calm
    <3>1. \A v \in Busy : v # w /\ v \in Busy'
      BY <1>7
    <3> QED BY <1>4, <1>6, <3>1 DEF Calm, Busy
  <2> QED BY <1>1, <1>4, <2>1 DEF Carried
<1>12. Alone'
  <2> SUFFICES ASSUME ~overlap'
               PROVE  /\ \A u, v \in Busy' : u = v
                      /\ CellsKnown(db') /\ \A v \in Busy' : InStep(v)'
                      /\ \A x \in Cells, e \in Entities :
                           Lags(db', x, e) => \E v \in Busy' : Owes(op'[v].todo, e)
    BY DEF Alone
  <2>1. ~overlap /\ Busy = {}
    BY <1>4 DEF Busy
  <2>2. Busy' = {w}
    BY <1>7, <2>1
  <2>3. InStep(w)'
    BY <1>4, <1>5, <1>6 DEF InStep
  <2>4. CellsKnown(db) /\ \A x \in Cells, e \in Entities : ~Lags(db, x, e)
    BY <1>1, <2>1 DEF Alone
  <2> QED BY <1>4, <2>2, <2>3, <2>4
<1> QED BY <1>1, <1>4, <1>8, <1>9, <1>10, <1>11, <1>12 DEF CfgInv

LEMMA WorkerFacts ==
  ASSUME OpsOK, NEW w \in Workers, op[w] # NoHandler
  PROVE  /\ Plan(op[w].todo) /\ op[w].todo \in Seq(Stmts) /\ Len(op[w].todo) \in Nat /\ Len(op[w].todo) > 0
         /\ Head1(w) = op[w].todo[1] /\ Head1(w) \in Stmts /\ w \in Busy
         /\ op[w].reg \in Contents \cup Layouts
<1>1. w \in Busy /\ Plan(op[w].todo)
  BY DEF OpsOK, Busy
<1>2. op[w].todo \in Seq(Stmts) /\ Len(op[w].todo) > 0
  BY <1>1 DEF Plan, EndsTold
<1>3. Len(op[w].todo) \in Nat /\ op[w].todo # <<>>
  BY <1>2, LenProperties, EmptySeq
<1>4. Head1(w) = op[w].todo[1] /\ Head1(w) \in Stmts
  BY <1>2, <1>3, HeadTailProperties, ElementOfSeq DEF Head1
<1>5. op[w].reg \in Contents \cup Layouts
  BY DEF OpsOK
<1> QED BY <1>1, <1>2, <1>3, <1>4, <1>5

(* A handler ends: it was not one that would change the bundle later.      *)
LEMMA EndKeeps ==
  ASSUME CfgInv, NEW w \in Workers, op[w] # NoHandler, op' = [op EXCEPT ![w] = NoHandler],
         UNCHANGED <<db, isViewer, fetch, bundle, cfgStarted, overlap>>,
         lapsed' \in BOOLEAN, lapsed' = TRUE \/ reloads' > 0, reloads' \in {reloads, reloads + 1},
         \A e \in Entities : ~overlap => ~Owes(op[w].todo, e)
  PROVE  CfgInv'
<1>1. DataOK(db) /\ OpsOK /\ Counted /\ Fetching /\ FlagsOK /\ Carried /\ Alone
  BY DEF CfgInv
<1>2. op'[w] = NoHandler /\ \A v \in Workers : v # w => op'[v] = op[v]
  BY <1>1 DEF OpsOK
<1>3. Busy' = Busy \ {w} /\ w \in Busy /\ \A v \in Busy' : v \in Busy /\ op'[v] = op[v]
  BY <1>2 DEF Busy
<1>4. OpsOK'
  <2>1. op' \in [Workers -> {NoHandler} \cup [todo : Seq(Stmts), reg : Contents \cup Layouts]]
    BY <1>1 DEF OpsOK
  <2> QED BY <1>1, <1>3, <2>1 DEF OpsOK
<1>5. Counted'
  <2>1. Cardinality(Busy') = Cardinality(Busy) - 1 /\ Cardinality(Busy) \in Nat
    BY <1>3, BusyCounts DEF Busy
  <2>2. Cardinality(Busy') \in Nat
    BY <1>3, BusyCounts DEF Busy
  <2> QED BY <1>1, <2>1, <2>2, ConfigAssumption DEF Counted
<1>6. Fetching' /\ FlagsOK'
  BY <1>1 DEF Fetching, FlagsOK
<1>7. ~Calm'
  BY <1>1 DEF Calm, Counted
<1>8. Alone'
  <2> SUFFICES ASSUME ~overlap'
               PROVE  /\ \A u, v \in Busy' : u = v
                      /\ CellsKnown(db') /\ \A v \in Busy' : InStep(v)'
                      /\ \A x \in Cells, e \in Entities :
                           Lags(db', x, e) => \E v \in Busy' : Owes(op'[v].todo, e)
    BY DEF Alone
  <2>1. /\ ~overlap /\ \A u, v \in Busy : u = v
        /\ CellsKnown(db)
        /\ \A x \in Cells, e \in Entities : Lags(db, x, e) => \E v \in Busy : Owes(op[v].todo, e)
    BY <1>1 DEF Alone
  <2>2. Busy' = {}
    BY <1>3, <2>1
  <2>3. ASSUME NEW x \in Cells, NEW e \in Entities PROVE ~Lags(db, x, e)
    BY <1>3, <2>1
  <2> QED BY <2>1, <2>2, <2>3
<1> QED BY <1>1, <1>4, <1>5, <1>6, <1>7, <1>8 DEF CfgInv, Carried

(* The kiosks are told: nothing is left to do.                             *)
LEMMA NotifyKeeps ==
  ASSUME CfgInv, NEW w \in Workers, notifyKiosks(w)
  PROVE  CfgInv'
<1>1. OpsOK /\ Counted /\ FlagsOK
  BY DEF CfgInv
<1>2. op[w] # NoHandler /\ Head1(w) = Notify
  BY DEF notifyKiosks
<1>3. /\ Plan(op[w].todo) /\ Len(op[w].todo) \in Nat /\ Len(op[w].todo) > 0
      /\ op[w].todo[1] = Notify
  BY <1>1, <1>2, WorkerFacts
<1>4. Len(op[w].todo) = 1
  <2>1. \A i \in 1..Len(op[w].todo) - 1 : op[w].todo[i] # Notify
    BY <1>3 DEF Plan, EndsTold
  <2>2. ASSUME Len(op[w].todo) # 1 PROVE FALSE
    <3>1. 1 \in 1..Len(op[w].todo) - 1
      <4>1. \A n \in Nat : n > 0 /\ n # 1 => 1 \in 1..n - 1
        OBVIOUS
      <4> QED BY <1>3, <2>2, <4>1
    <3>2. op[w].todo[1] # Notify
      BY <2>1, <3>1
    <3> QED BY <1>3, <3>2
  <2> QED BY <2>2
<1>5. op' = [op EXCEPT ![w] = NoHandler]
  BY <1>4 DEF notifyKiosks
<1>6. \A e \in Entities : ~Owes(op[w].todo, e)
  BY <1>3, NotifyIs DEF Owes
<1>7. /\ lapsed' = TRUE \/ reloads' > 0
      /\ lapsed' \in BOOLEAN /\ reloads' \in {reloads, reloads + 1}
  <2>1. CASE reloads' = reloads + 1 /\ UNCHANGED lapsed
    BY <1>1, <2>1 DEF Counted, FlagsOK
  <2>2. CASE lapsed' = TRUE /\ UNCHANGED reloads
    BY <2>2
  <2> QED BY <2>1, <2>2 DEF notifyKiosks
<1>8. UNCHANGED <<db, isViewer, fetch, bundle, cfgStarted, overlap>>
  BY DEF notifyKiosks
<1> QED BY <1>2, <1>5, <1>6, <1>7, <1>8, EndKeeps

(* A statement fails, never the copy that a change of an entity owes.      *)
LEMMA FailKeeps ==
  ASSUME CfgInv, NEW w \in Workers, RunFails(w)
  PROVE  CfgInv'
<1>1. OpsOK /\ DataOK(db) /\ FlagsOK /\ Alone
  BY DEF CfgInv
<1>2. op[w] # NoHandler /\ Fails(db, Head1(w), op[w].reg)
  BY DEF RunFails
<1>3. Head1(w) = op[w].todo[1] /\ Head1(w) \in Stmts /\ w \in Busy
  BY <1>1, <1>2, WorkerFacts
<1>4. ASSUME ~overlap, NEW e \in Entities PROVE ~Owes(op[w].todo, e)
  <2> DEFINE s == Head1(w)
  <2>1. s.k \in Copying => op[w].reg = db.entities[Copied(s)]
    BY <1>1, <1>3, <1>4 DEF Alone, InStep
  <2>2. s.k # "readEntity"
    BY <1>2 DEF Fails
  <2>3. ~(s.k = "propagate" /\ s.x = e)
    <3> SUFFICES ASSUME s.k = "propagate", s.x = e PROVE FALSE
      OBVIOUS
    <3>1. op[w].reg = db.entities[e]
      BY <2>1 DEF Copying, Copied
    <3>2. db.entities[e] \in Cameras => db.cams[db.entities[e]] # Null
      BY <1>1 DEF DataOK, ForeignKeys
    <3> QED BY <1>2, <3>1, <3>2 DEF Fails
  <2> QED BY <1>3, <2>2, <2>3 DEF Owes
<1>5. /\ op' = [op EXCEPT ![w] = NoHandler] /\ lapsed' = TRUE /\ reloads' = reloads
      /\ UNCHANGED <<db, isViewer, fetch, bundle, cfgStarted, overlap>>
  BY DEF RunFails, kioskVars
<1>6. lapsed' \in BOOLEAN /\ reloads' \in {reloads, reloads + 1}
  BY <1>5
<1> QED BY <1>2, <1>4, <1>5, <1>6, EndKeeps

(* What is known of a plan stays so when the rows it made are counted.     *)
LEMMA StillKnown ==
  ASSUME NEW r \in Seq(Stmts), NEW used, NEW more, used \subseteq more, NEW x, Known(r, used),
         more \cap Entities \subseteq used \cup x, x = {} \/ Makers(r) = {}
  PROVE  Known(r, more)
<1>1. ASSUME NEW i \in 1..Len(r), r[i].k \in Makes, Made(r[i]) # Null PROVE Made(r[i]) \notin more
  <2>1. x = {}
    BY <1>1 DEF Makers
  <2>2. r[i] \in Stmts
    BY ElementOfSeq
  <2>3. Made(r[i]) \in Entities
    BY <1>1, <2>2 DEF Stmts, SourceOK, ValueOK, Makes, Made
  <2>4. Made(r[i]) \notin used
    BY <1>1 DEF Known
  <2> QED BY <2>1, <2>3, <2>4
<1>2. \A i \in 1..Len(r) : r[i].k \in {"insertCell", "assignCell"} => Copied(r[i]) \in more
  BY DEF Known
<1>3. \A i, j \in 1..Len(r) : r[i].k \in Makes /\ r[j].k \in Makes => i = j
  BY DEF Known
<1> QED BY <1>1, <1>2, <1>3 DEF Known

(* A statement of a handler that runs alone.                               *)
LEMMA RunAlone ==
  ASSUME DataOK(db), NEW t, Plan(t), Known(t, db.used), CellsKnown(db), t[1] # Notify, NEW reg,
         t[1].k \in Copying => reg = db.entities[Copied(t[1])],
         ~Fails(db, t[1], reg), NEW n, n = Apply(db, t[1], reg), Effect(db, t[1], reg, n)
  PROVE  /\ CellsKnown(n)
         /\ Known(RestOf(t), n.used)
         /\ RestOf(t) # <<>> /\ RestOf(t)[1].k \in Copying =>
              Read(db, t[1], reg) = n.entities[Copied(RestOf(t)[1])]
         /\ \A x \in Cells, e \in Entities : Lags(n, x, e) =>
              \/ RestOf(t) # <<>> /\ Owes(RestOf(t), e)
              \/ Lags(db, x, e) /\ ~Owes(t, e)
<1> DEFINE s == t[1]
           rest == RestOf(t)
<1>0. /\ t \in Seq(Stmts) /\ s \in Stmts /\ Len(t) \in Nat /\ Len(t) > 0
      /\ Tail(t) \in Seq(Stmts) /\ Len(Tail(t)) = Len(t) - 1 /\ \A i \in 1..Len(Tail(t)) : Tail(t)[i] = t[i + 1]
      /\ s.k \in Makes => Makers(Tail(t)) = {}
  BY TailOfPlan DEF Plan, EndsTold
<1>1. /\ rest # <<>> => /\ Plan(rest)
                        /\ rest[1].k \in Copying => Then(db, s) = <<>> /\ rest = Tail(t)
      /\ Known(rest, db.used)
      /\ s.k \notin Growing => rest = Tail(t)
  BY RestOfPlan
<1> HIDE DEF rest, s
<1>2. Informed(db, s, reg)
  <2>1. 1 \in 1..Len(t)
    BY <1>0
  <2>2. s.k \in {"insertCell", "assignCell"} => Copied(s) \in db.used
    BY <2>1 DEF Known, s
  <2>3. s.k = "insertEntity" => s.x \notin db.used
    <3>1. s.k \in Makes /\ Made(s) # Null => Made(s) \notin db.used
      BY <2>1 DEF Known, s
    <3>2. s.k = "insertEntity" => s.x # Null
      BY DEF Fails, s
    <3> QED BY <3>1, <3>2 DEF Makes, Made
  <2> QED BY <2>2, <2>3 DEF Informed, s
<1>3. /\ CellsKnown(n) /\ db.used \subseteq n.used
      /\ n.used \cap Entities \subseteq db.used \cup (IF s.k = "insertEntity" THEN {s.x} ELSE {})
      /\ \A x \in Cells, e \in Entities : Lags(n, x, e) =>
            \/ s.k = "setEntity" /\ s.x = e
            \/ Lags(db, x, e) /\ ~(s.k = "propagate" /\ s.x = e)
  BY <1>2 DEF Effect, s
<1>4. Known(rest, n.used)
  <2>1. rest \in Seq(Stmts)
    <3>1. CASE rest = <<>> BY <3>1
    <3>2. CASE rest # <<>> BY <1>1, <3>2 DEF Plan
    <3> QED BY <3>1, <3>2
  <2> DEFINE x == IF s.k = "insertEntity" THEN {s.x} ELSE {}
  <2>2. s.k = "insertEntity" => Makers(rest) = {}
    BY <1>0, <1>1 DEF Makes, Growing
  <2>3. x = {} \/ Makers(rest) = {}
    BY <2>2
  <2> HIDE DEF x
  <2>4. n.used \cap Entities \subseteq db.used \cup x
    BY <1>3 DEF x
  <2> QED BY <1>1, <1>3, <2>1, <2>3, <2>4, StillKnown
<1>5. ASSUME rest # <<>>, rest[1].k \in Copying PROVE Read(db, s, reg) = n.entities[Copied(rest[1])]
  <2>1. Then(db, s) = <<>> /\ rest = Tail(t)
    BY <1>1, <1>5
  <2>2. Len(t) > 1 /\ rest[1] = t[2] /\ 2 \in 2..Len(t) /\ 2 - 1 = 1
    <3>1. Len(rest) > 0 /\ 1 \in 1..Len(rest)
      BY <1>1, <1>5, LenProperties DEF Plan, EndsTold
    <3> QED BY <1>0, <2>1, <3>1
  <2>3. t[2 - 1].k = "readEntity" /\ t[2 - 1].x = Copied(t[2])
    BY <1>5, <2>2 DEF Plan, ReadsFirst
  <2>4. s.k = "readEntity" /\ s.x = Copied(rest[1])
    BY <2>2, <2>3 DEF s
  <2>5. n = db
    BY <2>4 DEF Apply, s
  <2> QED BY <2>4, <2>5 DEF Read
<1>6. ASSUME NEW x \in Cells, NEW e \in Entities, Lags(n, x, e)
      PROVE  (rest # <<>> /\ Owes(rest, e)) \/ (Lags(db, x, e) /\ ~Owes(t, e))
  <2>1. CASE s.k = "setEntity" /\ s.x = e
    <3>1. 1 \in 1..Len(t) /\ 1 + 1 = 2 /\ 1 + 2 = 3
      BY <1>0
    <3>2. /\ 1 + 2 <= Len(t) /\ t[1 + 1].k = "readEntity" /\ t[1 + 1].x = e
          /\ t[1 + 2].k = "propagate" /\ t[1 + 2].x = e
      BY <2>1, <3>1 DEF Plan, WritesThrough, s
    <3>3. rest = Tail(t)
      BY <1>1, <2>1 DEF Growing
    <3>4. /\ Len(rest) > 1 /\ 1 \in 1..Len(rest) /\ 2 \in 1..Len(rest)
      BY <1>0, <3>2, <3>3
    <3>5. rest[1] = t[1 + 1] /\ rest[2] = t[2 + 1] /\ 2 + 1 = 1 + 2
      BY <1>0, <3>3, <3>4
    <3>6. rest # <<>>
      BY <3>4
    <3> QED BY <3>2, <3>4, <3>5, <3>6 DEF Owes
  <2>2. CASE Lags(db, x, e) /\ ~(s.k = "propagate" /\ s.x = e)
    <3>1. CASE ~Owes(t, e)
      BY <2>2, <3>1
    <3>2. CASE Owes(t, e)
      <4>1. Len(t) > 1 /\ s.k = "readEntity" /\ t[2].k = "propagate" /\ t[2].x = e
        BY <2>2, <3>2 DEF Owes, s
      <4>2. rest = Tail(t)
        BY <1>1, <4>1 DEF Growing
      <4>3. 1 \in 1..Len(rest) /\ 1 + 1 = 2
        BY <1>0, <4>1, <4>2
      <4>4. rest[1] = t[1 + 1]
        BY <1>0, <4>2, <4>3
      <4>5. rest # <<>>
        BY <4>3
      <4> QED BY <4>1, <4>3, <4>4, <4>5 DEF Owes
    <3> QED BY <3>1, <3>2
  <2> QED BY <1>3, <1>6, <2>1, <2>2
<1> QED BY <1>3, <1>4, <1>5, <1>6 DEF rest, s

LEMMA RunKeeps ==
  ASSUME CfgInv, NEW w \in Workers, Run(w)
  PROVE  CfgInv'
<1> DEFINE t == op[w].todo
           s == t[1]
           reg == op[w].reg
           rest == RestOf(t)
<1>1. DataOK(db) /\ OpsOK /\ Counted /\ Fetching /\ FlagsOK /\ Carried /\ Alone
  BY DEF CfgInv
<1>2. /\ Plan(t) /\ t \in Seq(Stmts) /\ Len(t) \in Nat /\ Len(t) > 0 /\ Head1(w) = s /\ s \in Stmts
      /\ w \in Busy /\ reg \in Contents \cup Layouts
  BY <1>1, WorkerFacts DEF Run
<1>3. /\ s # Notify /\ ~Fails(db, s, reg) /\ db' = Apply(db, s, reg)
      /\ op' = [op EXCEPT ![w] = IF rest = <<>> THEN NoHandler ELSE [todo |-> rest, reg |-> Read(db, s, reg)]]
      /\ lapsed' = (lapsed \/ (rest = <<>> /\ s.k \in SilentEnds))
      /\ UNCHANGED <<isViewer, reloads, fetch, bundle, cfgStarted, overlap>>
  BY <1>2 DEF Run, kioskVars, RestOf
<1>4. /\ rest = <<>> => s.k \in SilentEnds \/ (Len(t) = 1 /\ s.k = "insertLayout")
      /\ rest # <<>> => Plan(rest) /\ rest[Len(rest)].k # "insertLayout"
  BY <1>1, <1>2, <1>3, RestOfPlan
<1>5. Effect(db, s, reg, Apply(db, s, reg))
  BY <1>1, <1>2, <1>3, StatementEffect
<1>6. Read(db, s, reg) \in Contents \cup Layouts
  <2>1. db \in Tables
    BY <1>1 DEF DataOK
  <2>2. CASE s.k = "readEntity"
    <3>1. s.x \in Entities
      BY <1>2, <2>2 DEF Stmts, SourceOK
    <3> QED BY <2>1, <2>2, <3>1 DEF Read, Tables
  <2>3. CASE s.k = "readAttached"
    BY <2>1, <2>3 DEF Read, Tables, listLayoutsForDisplay, Contents
  <2>4. CASE s.k \notin {"readEntity", "readAttached"}
    BY <1>2, <2>4 DEF Read
  <2> QED BY <2>2, <2>3, <2>4
<1> HIDE DEF t, s, reg, rest
<1> DEFINE next == IF rest = <<>> THEN NoHandler ELSE [todo |-> rest, reg |-> Read(db, s, reg)]
<1>7. /\ op'[w] = next /\ \A v \in Workers : v # w => op'[v] = op[v]
      /\ next \in {NoHandler} \cup [todo : Seq(Stmts), reg : Contents \cup Layouts]
      /\ rest # <<>> => next.todo = rest /\ next.reg = Read(db, s, reg) /\ next # NoHandler
  <2>1. rest # <<>> => rest \in Seq(Stmts)
    BY <1>4 DEF Plan
  <2> QED BY <1>1, <1>3, <1>6, <2>1 DEF OpsOK, NoHandler
<1>8. /\ op' \in [Workers -> {NoHandler} \cup [todo : Seq(Stmts), reg : Contents \cup Layouts]]
  BY <1>1, <1>3, <1>7 DEF OpsOK
<1> HIDE DEF next
<1>9. /\ Busy' \subseteq Busy /\ (rest # <<>> <=> w \in Busy')
      /\ \A v \in Workers : v # w => (v \in Busy <=> v \in Busy')
  BY <1>2, <1>7 DEF Busy, next
<1>10. DataOK(db')
  BY <1>3, <1>5 DEF Effect
<1>11. OpsOK'
  <2>1. ASSUME NEW v \in Busy' PROVE Plan(op'[v].todo)
    <3>1. CASE v = w
      BY <1>4, <1>7, <1>9, <2>1, <3>1
    <3>2. CASE v # w
      BY <1>1, <1>7, <1>9, <2>1, <3>2 DEF OpsOK, Busy
    <3> QED BY <3>1, <3>2
  <2> QED BY <1>8, <2>1 DEF OpsOK
<1>12. Counted'
  <2>1. Cardinality(Busy') <= Cardinality(Busy) /\ Cardinality(Busy') \in Nat /\ Cardinality(Busy) \in Nat
    BY <1>9, BusyCounts DEF Busy
  <2> QED BY <1>1, <1>3, <2>1, ConfigAssumption DEF Counted
<1>13. lapsed' \in BOOLEAN /\ (~lapsed' => ~lapsed /\ ~(rest = <<>> /\ s.k \in SilentEnds))
  BY <1>1, <1>3 DEF FlagsOK
<1>14. Fetching' /\ FlagsOK'
  BY <1>1, <1>3, <1>13 DEF Fetching, FlagsOK
<1>15. Carried'
  <2> SUFFICES ASSUME Calm'
               PROVE  /\ fetch = NoFetch => bundle = Current(db', isViewer)
                      /\ fetch.at = "scope" => fetch.part = ReadScope(db', isViewer)
                      /\ fetch.at = "layouts" => fetch.part = ReadLayouts(db', ReadScope(db', isViewer))
    BY <1>3 DEF Carried
  <2>1. rest = <<>>
    <3> SUFFICES ASSUME rest # <<>> PROVE FALSE
      OBVIOUS
    <3>1. Making(rest)
      BY <1>7, <1>9 DEF Calm
    <3> QED BY <1>4, <3>1 DEF Making
  <2>2. Len(t) = 1 /\ s.k = "insertLayout" /\ ~lapsed
    BY <1>4, <1>13, <2>1 DEF Calm
  <2>3. Calm
    <3>1. ASSUME NEW v \in Busy PROVE Making(op[v].todo)
      <4>1. CASE v = w
        BY <2>2, <4>1 DEF Making, t, s
      <4>2. CASE v # w
        BY <1>7, <1>9, <3>1, <4>2 DEF Calm, Busy
      <4> QED BY <4>1, <4>2
    <3> QED BY <1>3, <2>2, <3>1 DEF Calm
  <2>4. /\ ReadScope(db', isViewer) = ReadScope(db, isViewer) /\ Current(db', isViewer) = Current(db, isViewer)
        /\ ReadLayouts(db', ReadScope(db', isViewer)) = ReadLayouts(db, ReadScope(db, isViewer))
    BY <1>1, <1>3, <2>2, LayoutMade
  <2> QED BY <1>1, <2>3, <2>4 DEF Carried
<1>16. Alone'
  <2> SUFFICES ASSUME ~overlap
               PROVE  /\ \A u, v \in Busy' : u = v
                      /\ CellsKnown(db') /\ \A v \in Busy' : InStep(v)'
                      /\ \A x \in Cells, e \in Entities :
                           Lags(db', x, e) => \E v \in Busy' : Owes(op'[v].todo, e)
    BY <1>3 DEF Alone
  <2>1. /\ \A u, v \in Busy : u = v
        /\ CellsKnown(db) /\ InStep(w)
        /\ \A x \in Cells, e \in Entities : Lags(db, x, e) => \E v \in Busy : Owes(op[v].todo, e)
    BY <1>1, <1>2 DEF Alone
  <2>2. Known(t, db.used) /\ (s.k \in Copying => reg = db.entities[Copied(s)])
    BY <2>1 DEF InStep, t, s, reg
  <2>3. /\ CellsKnown(db') /\ Known(rest, db'.used)
        /\ rest # <<>> /\ rest[1].k \in Copying => Read(db, s, reg) = db'.entities[Copied(rest[1])]
        /\ \A x \in Cells, e \in Entities : Lags(db', x, e) =>
             \/ rest # <<>> /\ Owes(rest, e)
             \/ Lags(db, x, e) /\ ~Owes(t, e)
    BY <1>1, <1>2, <1>3, <1>5, <2>1, <2>2, RunAlone DEF rest, s
  <2>4. ASSUME NEW v \in Busy' PROVE v = w /\ InStep(v)'
    <3>1. v = w
      BY <1>2, <1>9, <2>1, <2>4
    <3>2. rest # <<>> /\ op'[v].todo = rest /\ op'[v].reg = Read(db, s, reg)
      BY <1>7, <1>9, <2>4, <3>1
    <3> QED BY <2>3, <3>1, <3>2 DEF InStep
  <2>5. ASSUME NEW x \in Cells, NEW e \in Entities, Lags(db', x, e)
        PROVE  \E v \in Busy' : Owes(op'[v].todo, e)
    <3>1. ~(Lags(db, x, e) /\ ~Owes(t, e))
      BY <1>2, <2>1 DEF t
    <3>2. rest # <<>> /\ Owes(rest, e)
      BY <2>3, <2>5, <3>1
    <3> QED BY <1>7, <1>9, <3>2
  <2> QED BY <2>3, <2>4, <2>5
<1> QED BY <1>10, <1>11, <1>12, <1>14, <1>15, <1>16 DEF CfgInv

(* The kiosk's own steps.                                                  *)
LEMMA KioskKeeps ==
  ASSUME CfgInv, BundleRequest \/ generateBundle \/ BundleDone \/ BundleFails
  PROVE  CfgInv'
<1>1. DataOK(db) /\ OpsOK /\ Counted /\ Fetching /\ FlagsOK /\ Carried /\ Alone
  BY DEF CfgInv
<1>2. db' = db /\ op' = op /\ cfgStarted' = cfgStarted /\ isViewer' = isViewer /\ overlap' = overlap
      /\ (reloads' = reloads \/ (reloads > 0 /\ reloads' = reloads - 1))
  BY DEF BundleRequest, generateBundle, BundleDone, BundleFails
<1>3. Busy' = Busy
  BY <1>2 DEF Busy
<1>4. OpsOK' /\ DataOK(db')
  BY <1>1, <1>2, <1>3 DEF OpsOK
<1>5. Alone'
  <2>1. \A w : InStep(w)' <=> InStep(w)
    BY <1>2 DEF InStep
  <2> QED BY <1>1, <1>2, <1>3, <2>1 DEF Alone
<1>6. Counted'
  <2>1. Cardinality(Busy) \in Nat
    BY BusyCounts DEF Busy
  <2> QED BY <1>1, <1>2, <1>3, <2>1, ConfigAssumption DEF Counted
<1>7. db.enabled \in BOOLEAN
  BY <1>1 DEF DataOK, Tables
<1>8. Calm' <=> (reloads' = 0 /\ ~lapsed' /\ \A w \in Busy : Making(op[w].todo))
  BY <1>2, <1>3 DEF Calm
<1>9. CASE BundleRequest
  <2>1. CASE db.enabled
    <3>1. fetch' = [at |-> "scope", part |-> ReadScope(db, isViewer)] /\ lapsed' = FALSE
      BY <1>7, <1>9, <2>1 DEF BundleRequest
    <3>2. fetch'.at = "scope" /\ fetch'.part = ReadScope(db, isViewer) /\ fetch' # NoFetch
      BY <3>1 DEF NoFetch
    <3>3. Fetching' /\ FlagsOK'
      BY <1>1, <1>2, <3>1, <3>2 DEF Fetching, FlagsOK
    <3>4. Carried'
      BY <1>2, <3>2 DEF Carried
    <3> QED BY <1>4, <1>5, <1>6, <3>3, <3>4 DEF CfgInv
  <2>2. CASE ~db.enabled
    <3>1. fetch' = NoFetch /\ lapsed' = TRUE
      BY <1>7, <1>9, <2>2 DEF BundleRequest
    <3>2. Fetching' /\ FlagsOK' /\ Carried'
      BY <1>1, <1>2, <3>1 DEF Fetching, FlagsOK, Carried, Calm
    <3> QED BY <1>4, <1>5, <1>6, <3>2 DEF CfgInv
  <2> QED BY <2>1, <2>2
<1>10. CASE generateBundle
  <2>1. /\ fetch.at = "scope" /\ fetch' = [at |-> "layouts", part |-> ReadLayouts(db, fetch.part)]
        /\ reloads' = reloads /\ lapsed' = lapsed /\ bundle' = bundle
    BY <1>10 DEF generateBundle
  <2>2. fetch'.at = "layouts" /\ fetch'.part = ReadLayouts(db, fetch.part) /\ fetch' # NoFetch
    BY <2>1 DEF NoFetch
  <2>3. Fetching' /\ FlagsOK'
    BY <1>1, <1>2, <2>1, <2>2 DEF Fetching, FlagsOK
  <2>4. Calm' => Calm
    BY <1>8, <2>1 DEF Calm
  <2>5. Carried'
    BY <1>1, <1>2, <2>1, <2>2, <2>4 DEF Carried
  <2> QED BY <1>4, <1>5, <1>6, <2>3, <2>5 DEF CfgInv
<1>11. CASE BundleDone
  <2>1. /\ fetch.at = "layouts" /\ fetch' = NoFetch /\ bundle' = ReadCameras(db, fetch.part, isViewer)
        /\ reloads' = reloads /\ lapsed' = lapsed
    BY <1>11 DEF BundleDone
  <2>2. Fetching' /\ FlagsOK'
    BY <1>1, <1>2, <2>1 DEF Fetching, FlagsOK
  <2>3. Calm' => Calm
    BY <1>8, <2>1 DEF Calm
  <2>4. Carried'
    <3>1. fetch'.at = "none"
      BY <2>1 DEF NoFetch
    <3> QED BY <1>1, <1>2, <2>1, <2>3, <3>1 DEF Carried, Current
  <2> QED BY <1>4, <1>5, <1>6, <2>2, <2>4 DEF CfgInv
<1>12. CASE BundleFails
  <2>1. fetch' = NoFetch /\ lapsed' = TRUE
    BY <1>12 DEF BundleFails
  <2>2. Fetching' /\ FlagsOK' /\ Carried'
    BY <1>1, <1>2, <2>1 DEF Fetching, FlagsOK, Carried, Calm
  <2> QED BY <1>4, <1>5, <1>6, <2>2 DEF CfgInv
<1> QED BY <1>9, <1>10, <1>11, <1>12

(* The routes of routes-admin.ts change the tables one statement at a time *)
(* and tell the kiosks after their last write; generateBundle reads them   *)
(* one after another in between, and cells keep their own copy of the      *)
(* camera.  However these interleave, once no handler is on its way, no    *)
(* reload is pending and no step failed, the kiosk's bundle is the one the *)
(* tables give, and it holds the enabled cameras its cells show: for a     *)
(* viewer always, for other kiosks if no two handlers ever overlapped.     *)
THEOREM BundleStaysSafe == CfgSpec => []BundleSafe
<1>1. CfgInit => CfgInv
  BY CfgInitInv
<1>2. CfgInv /\ [CfgNext]_cfgVars => CfgInv'
  <2> SUFFICES ASSUME CfgInv, [CfgNext]_cfgVars PROVE CfgInv'
    OBVIOUS
  <2>1. CASE UNCHANGED cfgVars
    BY <2>1 DEF cfgVars, CfgInv, OpsOK, Busy, Counted, Fetching, FlagsOK, Carried, Calm, Alone, InStep
  <2>2. ASSUME NEW w \in Workers, Start(w) PROVE CfgInv'
    BY <2>2, StartKeeps
  <2>3. ASSUME NEW w \in Workers, Run(w) PROVE CfgInv'
    BY <2>3, RunKeeps
  <2>4. ASSUME NEW w \in Workers, RunFails(w) PROVE CfgInv'
    BY <2>4, FailKeeps
  <2>5. ASSUME NEW w \in Workers, notifyKiosks(w) PROVE CfgInv'
    BY <2>5, NotifyKeeps
  <2>6. ASSUME BundleRequest \/ generateBundle \/ BundleDone \/ BundleFails PROVE CfgInv'
    BY <2>6, KioskKeeps
  <2> QED BY <2>1, <2>2, <2>3, <2>4, <2>5, <2>6 DEF CfgNext
<1>3. CfgInv => BundleSafe
  BY BundleFromInv
<1> QED BY <1>1, <1>2, <1>3, PTL DEF CfgSpec
-----------------------------------------------------------------------------
(* Migrations: what a database holds by the statements it has run.         *)
Objects == AllObjects(TENANT_MIGRATIONS) \cup AllObjects(PUBLIC_MIGRATIONS)
Ids == {"int", "text", "uuid"}
SchemaContents == [objs : SUBSET Objects, ids : Ids, fk : Ids, plain : Ids,
             bound : BOOLEAN, admins : BOOLEAN, owner : MgTenants \cup {"none", "default", "platform"}]
Stable == {n \in Names : n[1] \notin {"long", "cut"}}
Applied(list, c, v) ==
  /\ v \in 0..Len(list) /\ c.objs \subseteq AllObjects(list)
  /\ AllObjects(list) \subseteq c.objs \cup UNION {list[i].adds : i \in (v + 1)..Len(list)}
  /\ \A i \in (v + 1)..Len(list) : list[i].once => list[i].adds \cap c.objs = {}

(* The schema of a tenant, whether it is registered or not.                *)
Home(d, t) == IF d.tenants[t] = NoTenantName THEN tenantSchemaName(t)
              ELSE storedPostgresIdentifier(d.tenants[t])
Greater(a, b) == IF a > b THEN a ELSE b

Databases == [tenants : [MgTenants -> Names \cup {NoTenantName}], schema : [Names -> SchemaContents],
              version : [Names -> Nat]]
DbTyped(d) ==
  /\ d \in Databases
  /\ \A t \in MgTenants : d.tenants[t] \in {NoTenantName, OldName(t), tenantSchemaName(t)}
  /\ \A n \in Names : d.schema[n].bound /\ d.schema[n].fk = d.schema[n].ids
DbOwned(d) ==
  /\ d.schema[Public].owner = "default" /\ d.schema[Global].owner = "platform"
  /\ \A n \in Names \ {Public, Global} :
       /\ d.schema[n].owner \in MgTenants \cup {"none"}
       /\ d.schema[n].owner \in MgTenants => n = Home(d, d.schema[n].owner)
       /\ d.schema[n].owner = "none" /\ n \in Stable => d.schema[n] = Absent /\ d.version[n] = 0
DbCounted(d) ==
  /\ \A n \in Stable : Applied(ListOf(n), d.schema[n], d.version[n])
  /\ \A t \in MgTenants :
       d.tenants[t] = <<"long", t>> /\ d.schema[Cut].owner = t =>
         Applied(TENANT_MIGRATIONS, d.schema[Cut], Greater(d.version[<<"long", t>>], d.version[Cut]))
DbOK(d) == DbTyped(d) /\ DbOwned(d) /\ DbCounted(d)

(* A tenant whose schema was repaired; what is left to do for it.          *)
Housed(d, t) == d.tenants[t] = tenantSchemaName(t) /\ d.schema[tenantSchemaName(t)].owner = t
Complete(d, n) == d.schema[n].objs = AllObjects(TENANT_MIGRATIONS)
Ready(d) ==
  /\ Complete(d, Public)
  /\ \A t \in Registered(d) :
       Housed(d, t) /\ Complete(d, tenantSchemaName(t)) /\ d.schema[tenantSchemaName(t)].admins

TodoSteps == {<<"tenants">>, <<"migrate", Global>>, <<"migrate", Public>>}
         \cup UNION {{<<"tenant", t>>, <<"migrate", tenantSchemaName(t)>>, <<"mirror", tenantSchemaName(t)>>} :
                     t \in MgTenants}
Pending(todo, x) == \E i \in 1..Len(todo) : todo[i] = x
TodoOK(d, todo) ==
  /\ todo \in Seq(TodoSteps)
  /\ \A i \in 1..Len(todo) : /\ todo[i] = <<"tenants">> =>
                                  i = Len(todo) /\ \A j \in 1..(i - 1) : todo[j][1] = "migrate"
                             /\ \A t \in MgTenants :
                                  /\ todo[i] = <<"tenant", t>> => t \in Registered(d)
                                  /\ todo[i] \in {<<"migrate", tenantSchemaName(t)>>, <<"mirror", tenantSchemaName(t)>>}
                                       => d.schema[tenantSchemaName(t)].owner = t
  /\ Complete(d, Public) \/ Pending(todo, <<"migrate", Public>>)
TenantsOK(d, todo) ==
  \/ Pending(todo, <<"tenants">>)
  \/ /\ ~Ambiguous(d)
     /\ \A t \in Registered(d) :
          \/ Pending(todo, <<"tenant", t>>)
          \/ /\ Housed(d, t)
             /\ Complete(d, tenantSchemaName(t)) \/ Pending(todo, <<"migrate", tenantSchemaName(t)>>)
             /\ d.schema[tenantSchemaName(t)].admins \/ Pending(todo, <<"mirror", tenantSchemaName(t)>>)

Slugged == mgSlug \in [MgTenants -> {"simple", "dashed", "long"}]
ServersOK ==
  /\ Slugged
  /\ mgServer \in [MgServers -> [at : {"down", "waiting", "up", "failed", "checked", "inserted"},
                                 slug : MgTenants \cup {NoSlug}]]
  /\ \A s \in MgServers : /\ mgServer[s].at \in {"checked", "inserted"} => mgServer[s].slug \in MgTenants
                          /\ mgServer[s].at = "failed" => Ambiguous(mgDb)
TxOK ==
  mgTx # NoTx =>
    /\ mgTx = [by |-> mgTx.by, db |-> mgTx.db, todo |-> mgTx.todo]
    /\ mgTx.by \in MgServers /\ mgServer[mgTx.by].at \in {"waiting", "inserted"}
    /\ DbOK(mgTx.db) /\ TodoOK(mgTx.db, mgTx.todo) /\ TenantsOK(mgTx.db, mgTx.todo)
    /\ IF Pending(mgTx.todo, <<"tenants">>) THEN mgTx.db.tenants = mgDb.tenants ELSE ~Ambiguous(mgDb)
MgInv == ServersOK /\ DbOK(mgDb) /\ (Up => Ready(mgDb)) /\ TxOK

(* The lists: what may run only once is added by no other statement.       *)
ListOK(list) ==
  /\ Len(list) \in Nat
  /\ \A i \in 1..Len(list) : /\ list[i].adds \subseteq Objects
                             /\ list[i].does \in {"ddl", "convert", "backfill"}
                             /\ list[i].does # "ddl" => list[i].adds = {} /\ ~list[i].once
                             /\ list[i].once => list[i].adds # {}
                             /\ \A j \in 1..Len(list) : i # j /\ list[i].once => list[i].adds \cap list[j].adds = {}

LEMMA TenantSections ==
  /\ Len(TENANT_MIGRATIONS) = 21
  /\ TENANT_MIGRATIONS[5].adds = TENANT_MIGRATIONS[10].adds
  /\ TENANT_MIGRATIONS[11].adds = TENANT_MIGRATIONS[13].adds
  /\ TENANT_MIGRATIONS[16].adds = TENANT_MIGRATIONS[18].adds
  /\ TENANT_MIGRATIONS[20] = ShortKeys
  /\ \A i \in (1..21) \ {20} : /\ ~TENANT_MIGRATIONS[i].once
                               /\ "local_short_keys" \notin TENANT_MIGRATIONS[i].adds
  /\ \A i \in 1..21 : /\ TENANT_MIGRATIONS[i].does # "ddl" => TENANT_MIGRATIONS[i].adds = {}
                       /\ TENANT_MIGRATIONS[i].does \in {"ddl", "convert", "backfill"}
<1> DEFINE Usual(x) == ~x.once /\ x.does \in {"ddl", "convert", "backfill"} /\ "local_short_keys" \notin x.adds
                       /\ (x.does # "ddl" => x.adds = {})
<1>1. Usual(BaseTables) /\ Usual(KioskTables) /\ Usual(ReleaseTables) /\ Usual(PartitionsColumn)
  BY DEF BaseTables, KioskTables, ReleaseTables, PartitionsColumn, Sql
<1>2. Usual(LoggingColumn) /\ Usual(AddForeignKeys) /\ Usual(ConvertIds) /\ Usual(BackfillIds)
  BY DEF LoggingColumn, AddForeignKeys, ConvertIds, BackfillIds, Sql
<1>3. Usual(AbleSignTables) /\ Usual(AudioColumns) /\ Usual(IoBoxTables) /\ Usual(TargetColumns)
  BY DEF AbleSignTables, AudioColumns, IoBoxTables, TargetColumns, Sql
<1>4. Usual(DeviceTables) /\ Usual(DeviceLabels) /\ Usual(DeviceBackfill) /\ Usual(LogIndexes) /\ Usual(PushColumn)
  BY DEF DeviceTables, DeviceLabels, DeviceBackfill, LogIndexes, PushColumn, Sql
<1>5. ShortKeys.does = "ddl"
  BY DEF ShortKeys, Sql
<1> HIDE DEF Usual
<1>6. /\ Len(TENANT_MIGRATIONS) = 21 /\ TENANT_MIGRATIONS[20] = ShortKeys
      /\ TENANT_MIGRATIONS[5] = LoggingColumn /\ TENANT_MIGRATIONS[10] = LoggingColumn
      /\ TENANT_MIGRATIONS[11] = AudioColumns /\ TENANT_MIGRATIONS[13] = AudioColumns
      /\ TENANT_MIGRATIONS[16] = DeviceLabels /\ TENANT_MIGRATIONS[18] = DeviceLabels
  BY DEF TENANT_MIGRATIONS
<1>7. \A i \in (1..21) \ {20} : Usual(TENANT_MIGRATIONS[i])
  <2> SUFFICES ASSUME NEW i \in (1..21) \ {20} PROVE Usual(TENANT_MIGRATIONS[i])
    OBVIOUS
  <2>1. CASE i \in 1..7
    BY <1>1, <1>2, <2>1 DEF TENANT_MIGRATIONS
  <2>2. CASE i \in 8..14
    BY <1>2, <1>3, <2>2 DEF TENANT_MIGRATIONS
  <2>3. CASE i \in 15..21
    BY <1>3, <1>4, <2>3 DEF TENANT_MIGRATIONS
  <2> QED BY <2>1, <2>2, <2>3
<1> QED BY <1>5, <1>6, <1>7 DEF Usual

LEMMA ListsOK == ListOK(TENANT_MIGRATIONS) /\ ListOK(PUBLIC_MIGRATIONS) /\ Len(PUBLIC_MIGRATIONS) = 4
<1>1. ShortKeys.adds = {"local_short_keys"} /\ ShortKeys.does = "ddl"
  BY DEF ShortKeys, Sql
<1>2. ListOK(TENANT_MIGRATIONS)
  <2>1. ASSUME NEW i \in 1..21, TENANT_MIGRATIONS[i].once PROVE i = 20
    BY <2>1, TenantSections
  <2>2. ASSUME NEW i \in 1..21, NEW j \in 1..21, i # j, TENANT_MIGRATIONS[i].once
        PROVE  TENANT_MIGRATIONS[i].adds \cap TENANT_MIGRATIONS[j].adds = {}
    <3>1. i = 20 /\ j \in (1..21) \ {20}
      BY <2>1, <2>2
    <3>2. TENANT_MIGRATIONS[i].adds = {"local_short_keys"} /\ "local_short_keys" \notin TENANT_MIGRATIONS[j].adds
      BY <1>1, <3>1, TenantSections
    <3> QED BY <3>2
  <2>3. ASSUME NEW i \in 1..21
        PROVE  /\ TENANT_MIGRATIONS[i].does # "ddl" => TENANT_MIGRATIONS[i].adds = {} /\ ~TENANT_MIGRATIONS[i].once
               /\ TENANT_MIGRATIONS[i].once => TENANT_MIGRATIONS[i].adds # {}
    BY <1>1, <2>1, TenantSections
  <2>4. Len(TENANT_MIGRATIONS) = 21
    BY TenantSections
  <2>5. ASSUME NEW i \in 1..21
        PROVE  TENANT_MIGRATIONS[i].adds \subseteq Objects /\ TENANT_MIGRATIONS[i].does \in {"ddl", "convert", "backfill"}
    BY <2>4, TenantSections DEF Objects, AllObjects
  <2> QED BY <2>2, <2>3, <2>4, <2>5 DEF ListOK
<1>3. Len(PUBLIC_MIGRATIONS) = 4
  BY DEF PUBLIC_MIGRATIONS
<1>4. \A i \in 1..4 : PUBLIC_MIGRATIONS[i].adds \subseteq Objects
  BY <1>3 DEF Objects, AllObjects
<1>5. \A i \in 1..4 : /\ PUBLIC_MIGRATIONS[i].does = "ddl"
                      /\ PUBLIC_MIGRATIONS[i].once => i = 4
  BY DEF PUBLIC_MIGRATIONS, Sql
<1>6. PUBLIC_MIGRATIONS[4].adds = {"deleted_kiosk_keys"}
  BY DEF PUBLIC_MIGRATIONS, Sql
<1>7. \A i \in 1..3 : "deleted_kiosk_keys" \notin PUBLIC_MIGRATIONS[i].adds
  BY DEF PUBLIC_MIGRATIONS, Sql
<1> QED BY <1>2, <1>3, <1>5, <1>6, <1>7, <1>4 DEF ListOK

(* One statement of a list.                                                *)
LEMMA NextStatement ==
  ASSUME NEW list, ListOK(list), NEW c \in SchemaContents, c.bound, c.fk = c.ids, NEW v, Applied(list, c, v), v < Len(list),
         NEW n, n = runStatement(c, list[v + 1])
  PROVE  /\ ~MigrationFails(c, list[v + 1])
         /\ n \in SchemaContents /\ n.bound /\ n.fk = n.ids /\ n.owner = c.owner /\ n.admins = c.admins
         /\ Applied(list, n, v + 1)
<1> DEFINE sql == list[v + 1]
<1>1. /\ v \in 0..Len(list) /\ Len(list) \in Nat /\ v + 1 \in 1..Len(list)
      /\ sql.does \in {"ddl", "convert", "backfill"} /\ sql.adds \subseteq Objects
  BY DEF Applied, ListOK
<1>2. ~MigrationFails(c, sql)
  BY <1>1 DEF Applied, ListOK, MigrationFails
<1>3. n.objs = c.objs \cup sql.adds
  BY <1>1 DEF ListOK, runStatement, convertIds, backfillIds, SchemaContents
<1>4. n \in SchemaContents /\ n.bound /\ n.fk = n.ids /\ n.owner = c.owner /\ n.admins = c.admins
  <2>1. sql.does = "convert" \/ sql.does = "backfill" \/ sql.does = "ddl"
    BY <1>1
  <2>2. CASE sql.does = "convert"
    BY <2>2 DEF runStatement, convertIds, SchemaContents, Ids
  <2>3. CASE sql.does = "backfill"
    BY <2>3 DEF runStatement, backfillIds, SchemaContents, Ids
  <2>4. CASE sql.does = "ddl"
    <3>1. n = [c EXCEPT !.objs = c.objs \cup sql.adds] /\ sql.adds \subseteq Objects
      BY <1>1, <2>4 DEF runStatement
    <3> QED BY <3>1 DEF SchemaContents
  <2> QED BY <2>1, <2>2, <2>3, <2>4
<1>5. sql.adds \subseteq AllObjects(list)
  BY <1>1 DEF AllObjects
<1>6. ASSUME NEW x \in AllObjects(list), x \notin n.objs
      PROVE  x \in UNION {list[i].adds : i \in (v + 2)..Len(list)}
  <2>1. PICK i \in (v + 1)..Len(list) : x \in list[i].adds
    BY <1>3, <1>6 DEF Applied
  <2>2. i # v + 1
    BY <1>3, <1>6, <2>1
  <2>3. i \in (v + 2)..Len(list)
    BY <1>1, <2>1, <2>2
  <2> QED BY <2>1, <2>3
<1>7. ASSUME NEW i \in (v + 2)..Len(list), list[i].once
      PROVE  list[i].adds \cap n.objs = {}
  <2>1. i \in (v + 1)..Len(list) /\ i \in 1..Len(list) /\ i # v + 1
    BY <1>1, <1>7
  <2>2. list[i].adds \cap c.objs = {} /\ list[i].adds \cap sql.adds = {}
    BY <1>1, <1>7, <2>1 DEF Applied, ListOK
  <2> QED BY <1>3, <2>2
<1>8. v + 1 \in 0..Len(list) /\ (v + 1) + 1 = v + 2
  BY <1>1
<1> HIDE DEF sql
<1>9. Applied(list, n, v + 1)
  BY <1>3, <1>5, <1>6, <1>7, <1>8 DEF Applied
<1> QED BY <1>2, <1>4, <1>9 DEF sql

LEMMA AllApplied ==
  ASSUME NEW list, ListOK(list), NEW c, NEW v, Applied(list, c, v), v >= Len(list)
  PROVE  c.objs = AllObjects(list)
<1>1. v = Len(list) /\ Len(list) \in Nat
  BY DEF Applied, ListOK
<1>2. (v + 1)..Len(list) = {}
  BY <1>1
<1> QED BY <1>2 DEF Applied

LEMMA NoneApplied ==
  ASSUME NEW list, ListOK(list), NEW c, c.objs = {}
  PROVE  Applied(list, c, 0)
BY DEF Applied, ListOK, AllObjects
-----------------------------------------------------------------------------
(* The names of schemas.                                                   *)
LEMMA NamesOf ==
  ASSUME Slugged, NEW t \in MgTenants
  PROVE  /\ tenantSchemaName(t) \in Stable \ {Global, Public, Cut} /\ tenantSchemaName(t) \in Names
         /\ tenantSchemaName(t) # NoTenantName /\ OldName(t) # NoTenantName
         /\ ValidName(tenantSchemaName(t)) /\ storedPostgresIdentifier(tenantSchemaName(t)) = tenantSchemaName(t)
         /\ OldName(t) \in Names \ {Global, Public, Cut}
         /\ \/ OldName(t) = tenantSchemaName(t)
            \/ /\ ~ValidName(OldName(t)) /\ tenantSchemaName(t) = legacyTenantSchemaName(t)
               /\ \/ OldName(t) = <<"long", t>> /\ storedPostgresIdentifier(OldName(t)) = Cut
                  \/ /\ OldName(t) = <<"dash", t>> /\ storedPostgresIdentifier(OldName(t)) = OldName(t)
                     /\ OldName(t) \in Stable
<1>1. mgSlug[t] \in {"simple", "dashed", "long"}
  BY DEF Slugged
<1>2. /\ \A k \in {"ok", "dash", "long", "hash"} : <<k, t>> \in Names \ {Global, Public, Cut} /\ <<k, t>> # NoTenantName
      /\ \A k \in {"ok", "dash", "hash"} : <<k, t>> \in Stable
  BY DEF Names, Global, Public, Cut, NoTenantName, Stable
<1>3. CASE mgSlug[t] = "simple"
  BY <1>2, <1>3 DEF tenantSchemaName, OldName, ValidName, storedPostgresIdentifier
<1>4. CASE mgSlug[t] = "dashed"
  BY <1>2, <1>4 DEF tenantSchemaName, legacyTenantSchemaName, OldName, ValidName, storedPostgresIdentifier
<1>5. CASE mgSlug[t] = "long"
  BY <1>2, <1>5 DEF tenantSchemaName, legacyTenantSchemaName, OldName, ValidName, storedPostgresIdentifier
<1> QED BY <1>1, <1>3, <1>4, <1>5

LEMMA NamesApart ==
  ASSUME Slugged, NEW t \in MgTenants, NEW u \in MgTenants, t # u
  PROVE  /\ tenantSchemaName(t) # tenantSchemaName(u)
         /\ storedPostgresIdentifier(OldName(t)) # tenantSchemaName(u)
         /\ storedPostgresIdentifier(OldName(t)) = storedPostgresIdentifier(OldName(u)) =>
              OldName(t) = <<"long", t>> /\ OldName(u) = <<"long", u>>
<1>1. mgSlug[t] \in {"simple", "dashed", "long"} /\ mgSlug[u] \in {"simple", "dashed", "long"}
  BY DEF Slugged
<1> QED BY <1>1 DEF tenantSchemaName, legacyTenantSchemaName, OldName, storedPostgresIdentifier, Cut

LEMMA FixedNames ==
  /\ Global \in Stable /\ Public \in Stable /\ Cut \in Names /\ Stable \subseteq Names
  /\ Global # Public /\ Cut # Public /\ Cut # Global /\ Cut \notin Stable
  /\ ListOf(Global) = PUBLIC_MIGRATIONS
  /\ \A n \in Names \ {Global} : ListOf(n) = TENANT_MIGRATIONS
  /\ \A n \in Names : n # NoTenantName
BY DEF Global, Public, Cut, Stable, Names, ListOf, NoTenantName

(* What the name of a registered tenant may be.                            *)
LEMMA TenantNames ==
  ASSUME Slugged, NEW d, DbTyped(d), NEW t \in MgTenants
  PROVE  /\ d.tenants[t] = tenantSchemaName(t) => Home(d, t) = tenantSchemaName(t)
         /\ t \notin Registered(d) => Home(d, t) = tenantSchemaName(t)
         /\ t \in Registered(d) => Home(d, t) = storedPostgresIdentifier(d.tenants[t])
         /\ t \in Registered(d) /\ ValidName(d.tenants[t]) => d.tenants[t] = tenantSchemaName(t)
         /\ t \in Registered(d) /\ ~ValidName(d.tenants[t]) =>
              d.tenants[t] = OldName(t) /\ OldName(t) # tenantSchemaName(t)
         /\ Home(d, t) \in Names
BY NamesOf, FixedNames DEF DbTyped, Home, Registered

LEMMA ContentOf ==
  ASSUME NEW t \in MgTenants \cup {"none", "default", "platform"}, NEW c, c = [Absent EXCEPT !.owner = t]
  PROVE  /\ c \in SchemaContents /\ c.bound /\ c.fk = c.ids /\ c.owner = t /\ c.objs = {}
         /\ Absent \in SchemaContents /\ Absent.bound /\ Absent.fk = Absent.ids /\ Absent.owner = "none" /\ Absent.objs = {}
         /\ Applied(TENANT_MIGRATIONS, c, 0) /\ Applied(TENANT_MIGRATIONS, Absent, 0) /\ Applied(PUBLIC_MIGRATIONS, Absent, 0)
<1>1. c = [objs |-> {}, ids |-> "uuid", fk |-> "uuid", plain |-> "uuid", bound |-> TRUE, admins |-> FALSE, owner |-> t]
  BY DEF Absent
<1>2. Absent \in SchemaContents
  BY DEF SchemaContents, Ids, Absent
<1>3. c \in SchemaContents
  BY <1>2 DEF SchemaContents
<1>4. Absent.objs = {} /\ Absent.bound /\ Absent.fk = Absent.ids /\ Absent.owner = "none"
  BY DEF Absent
<1> QED BY <1>1, <1>2, <1>3, <1>4, NoneApplied, ListsOK
-----------------------------------------------------------------------------
(* What the steps of a transaction make of a database.                     *)
Differs(d, e, n, r, v) ==
  /\ e \in Databases /\ e.tenants = d.tenants /\ e.schema[n] = r /\ e.version[n] = v
  /\ \A m \in Names : m # n => e.schema[m] = d.schema[m] /\ e.version[m] = d.version[m]
LEMMA Replaced ==
  ASSUME NEW d \in Databases, NEW n \in Names, NEW r \in SchemaContents, NEW v \in Nat, NEW e,
         e = [tenants |-> e.tenants, schema |-> e.schema, version |-> e.version], e.tenants = d.tenants,
         e.schema = [d.schema EXCEPT ![n] = r], e.version = [d.version EXCEPT ![n] = v]
  PROVE  Differs(d, e, n, r, v)
<1>1. /\ d.schema \in [Names -> SchemaContents] /\ d.version \in [Names -> Nat]
      /\ d.tenants \in [MgTenants -> Names \cup {NoTenantName}]
  BY DEF Databases
<1>2. e.schema \in [Names -> SchemaContents] /\ e.version \in [Names -> Nat]
  BY <1>1
<1>3. e \in Databases
  BY <1>1, <1>2 DEF Databases
<1> QED BY <1>1, <1>3 DEF Differs

Migrates(d, e, n, sql, v) == e = [d EXCEPT !.schema[n] = runStatement(@, sql), !.version[n] = v + 1]
LEMMA Migrated ==
  ASSUME Slugged, NEW d, DbOK(d), NEW n \in Stable, d.schema[n].owner # "none",
         NEW v, v = d.version[n], v < Len(ListOf(n)), NEW sql, sql = ListOf(n)[v + 1],
         NEW e, Migrates(d, e, n, sql, v)
  PROVE  /\ ~MigrationFails(d.schema[n], sql) /\ DbOK(e) /\ e.tenants = d.tenants
         /\ \A m \in Names : /\ e.schema[m].owner = d.schema[m].owner /\ e.schema[m].admins = d.schema[m].admins
                             /\ m # n => e.schema[m] = d.schema[m]
<1> DEFINE c == d.schema[n]
           r == runStatement(c, sql)
<1>1. /\ d \in Databases /\ c \in SchemaContents /\ c.bound /\ c.fk = c.ids /\ n \in Names /\ n # Cut
      /\ ListOK(ListOf(n)) /\ Applied(ListOf(n), c, v)
  BY FixedNames, ListsOK DEF DbOK, DbTyped, DbCounted, Databases
<1>2. /\ ~MigrationFails(c, sql) /\ r \in SchemaContents /\ r.bound /\ r.fk = r.ids
      /\ r.owner = c.owner /\ r.admins = c.admins /\ Applied(ListOf(n), r, v + 1)
  BY <1>1, NextStatement
<1>3. /\ e = [tenants |-> e.tenants, schema |-> e.schema, version |-> e.version] /\ e.tenants = d.tenants
      /\ e.schema = [d.schema EXCEPT ![n] = r] /\ e.version = [d.version EXCEPT ![n] = v + 1]
  BY <1>1 DEF Databases, Migrates
<1>4. v + 1 \in Nat
  BY <1>1 DEF Applied, ListOK
<1> HIDE DEF c, r
<1>5. Differs(d, e, n, r, v + 1)
  BY <1>1, <1>2, <1>3, <1>4, Replaced
<1>6. /\ e.schema[n] = r /\ e.version[n] = v + 1
      /\ \A m \in Names : m # n => e.schema[m] = d.schema[m] /\ e.version[m] = d.version[m]
      /\ e \in Databases /\ e.tenants = d.tenants
  BY <1>5 DEF Differs
<1>7. \A m \in Names : e.schema[m].owner = d.schema[m].owner /\ e.schema[m].admins = d.schema[m].admins
  BY <1>2, <1>6 DEF c
<1>8. DbTyped(e)
  <2>1. \A m \in Names : e.schema[m].bound /\ e.schema[m].fk = e.schema[m].ids
    BY <1>2, <1>6 DEF DbOK, DbTyped
  <2> QED BY <1>6, <2>1 DEF DbOK, DbTyped
<1>9. DbOwned(e)
  <2>1. \A t \in MgTenants : Home(e, t) = Home(d, t)
    BY <1>6 DEF Home
  <2> QED BY <1>6, <1>7, <2>1, FixedNames DEF DbOK, DbOwned
<1>10. DbCounted(e)
  <2>1. \A m \in Stable : Applied(ListOf(m), e.schema[m], e.version[m])
    BY <1>2, <1>6, FixedNames DEF DbOK, DbCounted
  <2>2. e.schema[Cut] = d.schema[Cut] /\ e.version[Cut] = d.version[Cut]
    BY <1>1, <1>6, FixedNames
  <2>3. ASSUME NEW t \in MgTenants PROVE e.version[<<"long", t>>] = d.version[<<"long", t>>]
    BY <1>6 DEF Names, Stable
  <2> QED BY <1>6, <2>1, <2>2, <2>3 DEF DbOK, DbCounted
<1> QED BY <1>2, <1>6, <1>7, <1>8, <1>9, <1>10 DEF DbOK, c

Mirrors(d, e, n) == e = [d EXCEPT !.schema[n].admins = TRUE]
LEMMA Mirrored ==
  ASSUME Slugged, NEW d, DbOK(d), NEW t \in MgTenants, d.schema[tenantSchemaName(t)].owner = t,
         NEW e, Mirrors(d, e, tenantSchemaName(t))
  PROVE  /\ DbOK(e) /\ e.tenants = d.tenants /\ e.schema[tenantSchemaName(t)].admins
         /\ \A m \in Names : /\ e.schema[m].owner = d.schema[m].owner /\ e.schema[m].objs = d.schema[m].objs
                             /\ m # tenantSchemaName(t) => e.schema[m] = d.schema[m]
<1> DEFINE n == tenantSchemaName(t)
           c == d.schema[n]
           r == [c EXCEPT !.admins = TRUE]
<1>1. /\ d \in Databases /\ c \in SchemaContents /\ c.bound /\ c.fk = c.ids /\ n \in Names /\ n \in Stable \ {Cut} /\ c.owner = t
  BY NamesOf DEF DbOK, DbTyped, Databases
<1>2. /\ r \in SchemaContents /\ r.bound /\ r.fk = r.ids /\ r.owner = t /\ r.objs = c.objs /\ r.admins
  BY <1>1 DEF SchemaContents
<1>3. /\ e = [tenants |-> e.tenants, schema |-> e.schema, version |-> e.version] /\ e.tenants = d.tenants
      /\ e.schema = [d.schema EXCEPT ![n] = r] /\ e.version = [d.version EXCEPT ![n] = d.version[n]]
  BY <1>1 DEF Databases, Mirrors
<1>4. d.version[n] \in Nat
  BY <1>1 DEF Databases
<1> HIDE DEF n, c, r
<1>5. Differs(d, e, n, r, d.version[n])
  BY <1>1, <1>2, <1>3, <1>4, Replaced
<1>6. /\ e.schema[n] = r /\ \A m \in Names : m # n => e.schema[m] = d.schema[m]
      /\ \A m \in Names : e.version[m] = d.version[m]
      /\ e \in Databases /\ e.tenants = d.tenants
  BY <1>5 DEF Differs
<1>7. \A m \in Names : e.schema[m].owner = d.schema[m].owner /\ e.schema[m].objs = d.schema[m].objs
  <2>1. e.schema[n].owner = d.schema[n].owner /\ e.schema[n].objs = d.schema[n].objs
    BY <1>1, <1>2, <1>6 DEF c
  <2> QED BY <1>6, <2>1
<1>8. DbTyped(e)
  <2>1. \A m \in Names : e.schema[m].bound /\ e.schema[m].fk = e.schema[m].ids
    BY <1>2, <1>6 DEF DbOK, DbTyped
  <2> QED BY <1>6, <2>1 DEF DbOK, DbTyped
<1>9. DbOwned(e)
  <2>1. \A u \in MgTenants : Home(e, u) = Home(d, u)
    BY <1>6 DEF Home
  <2>2. d.schema[n].owner # "none"
    BY <1>1, MigrationsAssumption DEF c
  <2>3. ASSUME NEW m \in Names \ {Public, Global}, m \in Stable, d.schema[m].owner = "none"
        PROVE  e.schema[m] = Absent /\ e.version[m] = 0
    BY <1>6, <2>2, <2>3 DEF DbOK, DbOwned
  <2> QED BY <1>7, <2>1, <2>3, FixedNames DEF DbOK, DbOwned
<1>10. DbCounted(e)
  <2>1. ASSUME NEW m \in Stable PROVE Applied(ListOf(m), e.schema[m], e.version[m])
    <3>1. Applied(ListOf(m), d.schema[m], d.version[m]) /\ m \in Names
      BY FixedNames DEF DbOK, DbCounted
    <3>2. e.schema[m].objs = d.schema[m].objs /\ e.version[m] = d.version[m]
      BY <1>6, <1>7, <3>1
    <3> QED BY <3>1, <3>2 DEF Applied
  <2>2. e.schema[Cut] = d.schema[Cut]
    BY <1>1, <1>6, FixedNames
  <2>3. ASSUME NEW u \in MgTenants PROVE e.version[<<"long", u>>] = d.version[<<"long", u>>]
    BY <1>6 DEF Names, Stable
  <2> QED BY <1>6, <2>1, <2>2, <2>3, FixedNames DEF DbOK, DbCounted
<1> QED BY <1>2, <1>6, <1>7, <1>8, <1>9, <1>10 DEF DbOK, n

(* CREATE SCHEMA IF NOT EXISTS finds the tenant's own schema or none.      *)
LEMMA Created ==
  ASSUME Slugged, NEW d, DbOK(d), NEW t \in MgTenants, d.tenants[t] = tenantSchemaName(t),
         NEW e, e = createSchema(d, tenantSchemaName(t), t)
  PROVE  /\ DbOK(e) /\ e.tenants = d.tenants /\ Housed(e, t)
         /\ \A m \in Names : m # tenantSchemaName(t) => e.schema[m] = d.schema[m]
<1> DEFINE n == tenantSchemaName(t)
           r == [Absent EXCEPT !.owner = t]
<1>1. /\ d \in Databases /\ n \in Names /\ n \in Stable \ {Cut, Public, Global} /\ t # "none"
  BY NamesOf, MigrationsAssumption DEF DbOK, DbTyped
<1>2. CASE d.schema[n].owner # "none"
  <2>1. e = d
    BY <1>2 DEF createSchema
  <2>2. PICK u \in MgTenants : d.schema[n].owner = u /\ n = Home(d, u)
    BY <1>1, <1>2 DEF DbOK, DbOwned
  <2>3. u = t
    <3> SUFFICES ASSUME u # t PROVE FALSE
      OBVIOUS
    <3>1. Home(d, u) = tenantSchemaName(u) \/ Home(d, u) = storedPostgresIdentifier(OldName(u))
      BY NamesOf DEF Home, DbOK, DbTyped
    <3> QED BY <2>2, <3>1, NamesApart
  <2> QED BY <2>1, <2>2, <2>3 DEF Housed
<1>3. CASE d.schema[n].owner = "none"
  <2>1. /\ r \in SchemaContents /\ r.bound /\ r.fk = r.ids /\ r.owner = t /\ r.objs = {}
        /\ Applied(TENANT_MIGRATIONS, r, 0) /\ d.version[n] = 0
    BY <1>1, <1>3, ContentOf DEF DbOK, DbOwned
  <2>2. /\ e.tenants = d.tenants /\ e.schema = [d.schema EXCEPT ![n] = r] /\ e.version = d.version
        /\ e = [tenants |-> e.tenants, schema |-> e.schema, version |-> e.version]
    BY <1>1, <1>3 DEF Databases, createSchema
  <2> HIDE DEF n, r
  <2>3. /\ d.schema \in [Names -> SchemaContents] /\ d.version \in [Names -> Nat] /\ d.tenants \in [MgTenants -> Names \cup {NoTenantName}]
    BY <1>1 DEF Databases
  <2>4. e \in Databases
    BY <1>1, <2>1, <2>2, <2>3 DEF Databases
  <2>5. e.schema[n] = r /\ \A m \in Names : m # n => e.schema[m] = d.schema[m]
    BY <1>1, <2>2, <2>3
  <2>6. DbTyped(e)
    BY <2>1, <2>2, <2>4, <2>5 DEF DbOK, DbTyped
  <2>7. DbOwned(e)
    <3>1. \A u \in MgTenants : Home(e, u) = Home(d, u)
      BY <2>2 DEF Home
    <3>2. Home(d, t) = n
      BY TenantNames DEF DbOK, n
    <3>3. e.schema[Public] = d.schema[Public] /\ e.schema[Global] = d.schema[Global]
      BY <1>1, <2>5, FixedNames
    <3> QED BY <1>1, <2>1, <2>2, <2>5, <3>1, <3>2, <3>3, FixedNames DEF DbOK, DbOwned
  <2>8. DbCounted(e)
    <3>1. \A m \in Stable : Applied(ListOf(m), e.schema[m], e.version[m])
      BY <1>1, <2>1, <2>2, <2>5, FixedNames DEF DbOK, DbCounted
    <3>2. e.schema[Cut] = d.schema[Cut]
      BY <1>1, <2>5, FixedNames
    <3> QED BY <2>2, <3>1, <3>2 DEF DbOK, DbCounted
  <2> QED BY <2>1, <2>2, <2>5, <2>6, <2>7, <2>8 DEF DbOK, Housed, n
<1> QED BY <1>2, <1>3
(* The schema of an older build's name is the tenant's own, or missing.    *)
LEMMA StoredSchema ==
  ASSUME Slugged, NEW d, DbOK(d), ~Ambiguous(d), NEW t \in Registered(d), ~ValidName(d.tenants[t])
  PROVE  LET raw == d.tenants[t]
             stored == storedPostgresIdentifier(raw)
         IN  /\ t \in MgTenants /\ tenantSchemaName(t) = legacyTenantSchemaName(t)
             /\ stored \in Names \ {Public, Global, tenantSchemaName(t)} /\ raw \in Names \ {Public, Global, Cut, tenantSchemaName(t)}
             /\ Home(d, t) = stored
             /\ \/ stored = raw /\ raw \in Stable
                \/ stored = Cut /\ raw = <<"long", t>> /\ raw \notin Stable
             /\ d.schema[stored].owner # "none" =>
                  /\ d.schema[stored].owner = t
                  /\ Applied(TENANT_MIGRATIONS, d.schema[stored], Greater(d.version[raw], d.version[stored]))
<1> DEFINE raw == d.tenants[t]
           stored == storedPostgresIdentifier(raw)
<1>1. t \in MgTenants /\ DbTyped(d)
  BY DEF Registered, DbOK
<1>2. raw = OldName(t) /\ raw # tenantSchemaName(t) /\ Home(d, t) = stored
  BY <1>1, TenantNames
<1>3. /\ tenantSchemaName(t) = legacyTenantSchemaName(t) /\ raw \in Names \ {Public, Global, Cut}
      /\ \/ stored = raw /\ raw \in Stable
         \/ stored = Cut /\ raw = <<"long", t>>
  BY <1>1, <1>2, NamesOf
<1>4. <<"long", t>> \notin Stable
  BY DEF Stable
<1>5. stored \in Names \ {Public, Global, tenantSchemaName(t)}
  BY <1>1, <1>2, <1>3, FixedNames, NamesOf
<1>6. ASSUME d.schema[stored].owner # "none"
      PROVE  d.schema[stored].owner = t
  <2>1. PICK u \in MgTenants : d.schema[stored].owner = u /\ stored = Home(d, u)
    BY <1>5, <1>6 DEF DbOK, DbOwned
  <2> SUFFICES ASSUME u # t PROVE FALSE
    BY <2>1
  <2>2. CASE u \in Registered(d)
    BY <1>1, <2>1, <2>2, TenantNames DEF Ambiguous
  <2>3. CASE u \notin Registered(d)
    <3>1. stored = tenantSchemaName(u)
      BY <1>1, <2>1, <2>3, TenantNames
    <3> QED BY <1>1, <1>2, <3>1, NamesApart
  <2> QED BY <2>2, <2>3
<1>7. ASSUME d.schema[stored].owner = t
      PROVE  Applied(TENANT_MIGRATIONS, d.schema[stored], Greater(d.version[raw], d.version[stored]))
  <2>1. CASE stored = Cut /\ raw = <<"long", t>>
    BY <1>1, <1>7, <2>1 DEF DbOK, DbCounted
  <2>2. CASE stored = raw /\ raw \in Stable
    <3>1. Applied(TENANT_MIGRATIONS, d.schema[raw], d.version[raw])
      BY <1>3, <2>2, FixedNames DEF DbOK, DbCounted
    <3>2. Greater(d.version[raw], d.version[raw]) = d.version[raw]
      BY DEF Greater
    <3> QED BY <2>2, <3>1, <3>2
  <2> QED BY <1>3, <2>1, <2>2
<1> QED BY <1>1, <1>2, <1>3, <1>4, <1>5, <1>6, <1>7

Renames(d, e, t) == e = [renameSchema(d, t) EXCEPT !.tenants[t] = legacyTenantSchemaName(t)]
Moves(d, e, t) ==
  LET raw == d.tenants[t]
      stored == storedPostgresIdentifier(raw)
      n == tenantSchemaName(t)
  IN  \/ d.schema[stored].owner = "none" /\ e.schema = d.schema /\ e.version = d.version
      \/ /\ d.schema[stored].owner = t
         /\ e.schema[n] = d.schema[stored] /\ e.schema[stored] = Absent
         /\ e.version[n] = Greater(d.version[raw], d.version[stored]) /\ e.version[stored] = 0
         /\ \A m \in Names \ {n, stored} : e.schema[m] = d.schema[m]
         /\ \A m \in Names \ {n, stored, raw} : e.version[m] = d.version[m]

LEMMA Moved ==
  ASSUME Slugged, NEW d, DbOK(d), ~Ambiguous(d), NEW t \in Registered(d), ~ValidName(d.tenants[t]),
         NEW e, Renames(d, e, t)
  PROVE  /\ e \in Databases /\ e.tenants = [d.tenants EXCEPT ![t] = tenantSchemaName(t)]
         /\ Moves(d, e, t)
<1> DEFINE raw == d.tenants[t]
           stored == storedPostgresIdentifier(raw)
           n == tenantSchemaName(t)
           g == Greater(d.version[raw], d.version[stored])
<1>1. /\ t \in MgTenants /\ d \in Databases /\ n \in Names /\ n = legacyTenantSchemaName(t)
      /\ raw \in Names \ {n} /\ stored \in Names \ {n}
      /\ d.schema[stored].owner # "none" => d.schema[stored].owner = t
  BY StoredSchema, NamesOf DEF DbOK, DbTyped
<1>2. /\ d.schema \in [Names -> SchemaContents] /\ d.version \in [Names -> Nat]
      /\ d.tenants \in [MgTenants -> Names \cup {NoTenantName}]
  BY <1>1 DEF Databases
<1>3. g \in Nat /\ Absent \in SchemaContents
  BY <1>1, <1>2, ContentOf DEF Greater
<1>4. CASE d.schema[stored].owner = "none"
  <2>1. /\ e = [tenants |-> e.tenants, schema |-> e.schema, version |-> e.version]
        /\ e.tenants = [d.tenants EXCEPT ![t] = n] /\ e.schema = d.schema /\ e.version = d.version
    BY <1>1, <1>4 DEF Databases, Renames, renameSchema
  <2>2. e.tenants \in [MgTenants -> Names \cup {NoTenantName}]
    BY <1>1, <1>2, <2>1
  <2> QED BY <1>2, <1>4, <2>1, <2>2 DEF Databases, Moves
<1>5. CASE d.schema[stored].owner # "none"
  <2> DEFINE r == renameSchema(d, t)
  <2>1. /\ r = [tenants |-> r.tenants, schema |-> r.schema, version |-> r.version] /\ r.tenants = d.tenants
        /\ r.schema = [[d.schema EXCEPT ![n] = d.schema[stored]] EXCEPT ![stored] = Absent]
        /\ r.version = [[[d.version EXCEPT ![n] = g] EXCEPT ![raw] = 0] EXCEPT ![stored] = 0]
    BY <1>1, <1>5 DEF Databases, renameSchema, Greater
  <2>2. /\ e = [tenants |-> e.tenants, schema |-> e.schema, version |-> e.version]
        /\ e.tenants = [d.tenants EXCEPT ![t] = n] /\ e.schema = r.schema /\ e.version = r.version
    BY <1>1, <2>1 DEF Renames
  <2>3. e.schema = [[d.schema EXCEPT ![n] = d.schema[stored]] EXCEPT ![stored] = Absent]
    BY <2>1, <2>2
  <2>4. e.version = [[[d.version EXCEPT ![n] = g] EXCEPT ![raw] = 0] EXCEPT ![stored] = 0]
    BY <2>1, <2>2
  <2> HIDE DEF r, n, g, stored, raw
  <2>5. /\ e.schema \in [Names -> SchemaContents] /\ e.schema[n] = d.schema[stored] /\ e.schema[stored] = Absent
        /\ \A m \in Names \ {n, stored} : e.schema[m] = d.schema[m]
    BY <1>1, <1>2, <1>3, <2>3
  <2>6. /\ e.version \in [Names -> Nat] /\ e.version[n] = g /\ e.version[stored] = 0
        /\ \A m \in Names \ {n, stored, raw} : e.version[m] = d.version[m]
    BY <1>1, <1>2, <1>3, <2>4
  <2>7. e.tenants \in [MgTenants -> Names \cup {NoTenantName}]
    BY <1>1, <1>2, <2>2
  <2>8. e \in Databases
    BY <2>2, <2>5, <2>6, <2>7 DEF Databases
  <2>9. d.schema[stored].owner = t
    BY <1>1, <1>5
  <2> QED BY <2>2, <2>5, <2>6, <2>8, <2>9 DEF Moves, n, g, stored, raw
<1> QED BY <1>4, <1>5

Moving(d, e, t) ==
  /\ DbOK(e) /\ ~Ambiguous(e) /\ Registered(e) = Registered(d)
  /\ e.tenants[t] = tenantSchemaName(t) /\ \A u \in MgTenants \ {t} : e.tenants[u] = d.tenants[u]
  /\ e.schema[Public] = d.schema[Public]
  /\ \A u \in MgTenants \ {t} : e.schema[tenantSchemaName(u)] = d.schema[tenantSchemaName(u)]
LEMMA Renamed ==
  ASSUME Slugged, NEW d, DbOK(d), ~Ambiguous(d), NEW t \in Registered(d), ~ValidName(d.tenants[t]),
         NEW e, e \in Databases, e.tenants = [d.tenants EXCEPT ![t] = tenantSchemaName(t)], Moves(d, e, t)
  PROVE  Moving(d, e, t)
<1> DEFINE raw == d.tenants[t]
           stored == storedPostgresIdentifier(raw)
           n == tenantSchemaName(t)
           g == Greater(d.version[raw], d.version[stored])
<1>1. /\ t \in MgTenants /\ d \in Databases /\ n \in Stable \ {Public, Global, Cut} /\ n # NoTenantName
      /\ raw \in Names \ {n, Public, Global, Cut} /\ stored \in Names \ {n, Public, Global} /\ Home(d, t) = stored
      /\ \/ stored = raw /\ raw \in Stable
         \/ stored = Cut /\ raw = <<"long", t>> /\ raw \notin Stable
      /\ d.schema[stored].owner = t => Applied(TENANT_MIGRATIONS, d.schema[stored], g)
      /\ t # "none"
  BY StoredSchema, NamesOf, MigrationsAssumption DEF DbOK, DbTyped
<1>2. /\ e.tenants[t] = n /\ \A u \in MgTenants \ {t} : e.tenants[u] = d.tenants[u]
  BY <1>1 DEF Databases
<1>3. Registered(e) = Registered(d)
  BY <1>1, <1>2 DEF Registered
<1>4. \A u \in MgTenants \ {t} : Home(e, u) = Home(d, u)
  BY <1>2 DEF Home
<1>5. Home(e, t) = n
  BY <1>1, <1>2, NamesOf DEF Home
<1>6. ~Ambiguous(e)
  <2> SUFFICES ASSUME NEW a \in Registered(e), NEW b \in Registered(e), a # b,
                      storedPostgresIdentifier(e.tenants[a]) = storedPostgresIdentifier(e.tenants[b])
               PROVE  FALSE
    BY DEF Ambiguous
  <2>1. ASSUME NEW u \in Registered(d), u # t, storedPostgresIdentifier(d.tenants[u]) = n PROVE FALSE
    <3>1. u \in MgTenants /\ (d.tenants[u] = tenantSchemaName(u) \/ d.tenants[u] = OldName(u))
      BY <2>1 DEF Registered, DbOK, DbTyped
    <3> QED BY <1>1, <2>1, <3>1, NamesOf, NamesApart
  <2>2. storedPostgresIdentifier(n) = n /\ a \in MgTenants /\ b \in MgTenants
    BY <1>1, NamesOf DEF Registered
  <2>3. CASE a = t
    BY <1>2, <1>3, <2>1, <2>2, <2>3
  <2>4. CASE b = t
    BY <1>2, <1>3, <2>1, <2>2, <2>4
  <2>5. CASE a # t /\ b # t
    BY <1>2, <1>3, <2>2, <2>5 DEF Ambiguous
  <2> QED BY <2>3, <2>4, <2>5
<1>7. ASSUME NEW u \in MgTenants \ {t}, NEW m \in Names, d.schema[m].owner = u
      PROVE  m # n /\ m # stored
  <2>1. m = Home(d, u)
    BY <1>7, MigrationsAssumption DEF DbOK, DbOwned
  <2>2. CASE u \in Registered(d)
    <3>1. m = storedPostgresIdentifier(d.tenants[u]) /\ (d.tenants[u] = tenantSchemaName(u) \/ d.tenants[u] = OldName(u))
      BY <2>1, <2>2, TenantNames DEF Registered, DbOK, DbTyped
    <3>2. m # stored
      BY <1>1, <2>2, <3>1 DEF Ambiguous
    <3> QED BY <1>1, <3>1, <3>2, NamesOf, NamesApart
  <2>3. CASE u \notin Registered(d)
    <3>1. m = tenantSchemaName(u)
      BY <2>1, <2>3, TenantNames DEF DbOK
    <3>2. stored = storedPostgresIdentifier(OldName(t))
      BY <1>1, TenantNames DEF DbOK
    <3> QED BY <1>1, <3>1, <3>2, NamesApart
  <2> QED BY <2>2, <2>3
<1>8. \A m \in Names : d.schema[m].owner = t => m = stored
  BY <1>1, MigrationsAssumption DEF DbOK, DbOwned
<1>9. Cut \notin Stable /\ Cut # n /\ Public # n /\ Public # stored /\ Global # n /\ Global # stored
  BY <1>1, FixedNames
<1>10. ASSUME NEW u \in MgTenants \ {t} PROVE tenantSchemaName(u) \in Names \ {n, stored}
  <2>1. stored = storedPostgresIdentifier(OldName(t))
    BY <1>1, TenantNames DEF DbOK
  <2> QED BY <1>1, <2>1, NamesOf, NamesApart
<1>11. Absent \in SchemaContents /\ Absent.bound /\ Absent.fk = Absent.ids /\ Absent.owner = "none"
       /\ Applied(TENANT_MIGRATIONS, Absent, 0)
  BY ContentOf
<1>12. \A u \in MgTenants : e.tenants[u] \in {NoTenantName, OldName(u), tenantSchemaName(u)}
  BY <1>2 DEF DbOK, DbTyped
<1>13. \A u \in MgTenants : <<"long", u>> \in Names /\ <<"long", u>> \notin Stable /\ <<"long", u>> # Cut
  BY DEF Names, Stable, Cut
<1>14. n # <<"long", t>>
  BY <1>1, <1>13
<1>15. CASE d.schema[stored].owner = "none" /\ e.schema = d.schema /\ e.version = d.version
  <2>1. \A m \in Names : d.schema[m].owner # t
    BY <1>1, <1>8, <1>15
  <2>2. DbTyped(e)
    BY <1>12, <1>15 DEF DbOK, DbTyped
  <2>3. DbOwned(e)
    BY <1>4, <1>15, <2>1 DEF DbOK, DbOwned
  <2>4. DbCounted(e)
    BY <1>2, <1>14, <1>15 DEF DbOK, DbCounted
  <2> QED BY <1>2, <1>3, <1>6, <1>15, <2>2, <2>3, <2>4 DEF DbOK, Moving
<1>16. CASE /\ d.schema[stored].owner = t
            /\ e.schema[n] = d.schema[stored] /\ e.schema[stored] = Absent
            /\ e.version[n] = g /\ e.version[stored] = 0
            /\ \A m \in Names \ {n, stored} : e.schema[m] = d.schema[m]
            /\ \A m \in Names \ {n, stored, raw} : e.version[m] = d.version[m]
  <2>1. \A m \in Names : e.schema[m].bound /\ e.schema[m].fk = e.schema[m].ids
    BY <1>1, <1>11, <1>16 DEF DbOK, DbTyped
  <2>2. DbTyped(e)
    BY <1>12, <2>1 DEF DbTyped
  <2>3. DbOwned(e)
    <3>1. e.schema[Public].owner = "default" /\ e.schema[Global].owner = "platform"
      BY <1>9, <1>16, FixedNames DEF DbOK, DbOwned
    <3>2. ASSUME NEW m \in Names \ {Public, Global}
          PROVE  /\ e.schema[m].owner \in MgTenants \cup {"none"}
                 /\ e.schema[m].owner \in MgTenants => m = Home(e, e.schema[m].owner)
                 /\ e.schema[m].owner = "none" /\ m \in Stable => e.schema[m] = Absent /\ e.version[m] = 0
      <4>1. CASE m = n
        BY <1>1, <1>5, <1>16, <4>1
      <4>2. CASE m = stored
        BY <1>11, <1>16, <4>2, MigrationsAssumption
      <4>3. CASE m # n /\ m # stored
        <5>1. e.schema[m] = d.schema[m] /\ d.schema[m].owner # t /\ (m \in Stable => e.version[m] = d.version[m])
          BY <1>1, <1>8, <1>16, <4>3
        <5> QED BY <1>4, <5>1 DEF DbOK, DbOwned
      <4> QED BY <4>1, <4>2, <4>3
    <3> QED BY <3>1, <3>2 DEF DbOwned
  <2>4. ASSUME NEW m \in Stable PROVE Applied(ListOf(m), e.schema[m], e.version[m])
    <3>1. m \in Names /\ (m # Global => ListOf(m) = TENANT_MIGRATIONS)
      BY FixedNames
    <3>2. CASE m = n
      BY <1>1, <1>9, <1>16, <3>1, <3>2
    <3>3. CASE m = stored
      BY <1>9, <1>11, <1>16, <3>1, <3>3
    <3>4. CASE m # n /\ m # stored
      BY <1>1, <1>16, <3>1, <3>4 DEF DbOK, DbCounted
    <3> QED BY <3>2, <3>3, <3>4
  <2>5. ASSUME NEW u \in MgTenants, e.tenants[u] = <<"long", u>>, e.schema[Cut].owner = u
        PROVE  Applied(TENANT_MIGRATIONS, e.schema[Cut], Greater(e.version[<<"long", u>>], e.version[Cut]))
    <3>1. u # t /\ u # "none"
      BY <1>2, <1>14, <2>5, MigrationsAssumption
    <3>2. stored # Cut
      BY <1>11, <1>16, <2>5, <3>1
    <3>3. <<"long", u>> \notin {n, stored, raw} /\ Cut \notin {n, stored, raw}
      BY <1>1, <1>9, <1>13, <3>2
    <3>4. /\ e.version[<<"long", u>>] = d.version[<<"long", u>>] /\ e.version[Cut] = d.version[Cut]
          /\ e.schema[Cut] = d.schema[Cut]
      BY <1>13, <1>16, <3>3, FixedNames
    <3>5. d.tenants[u] = <<"long", u>> /\ d.schema[Cut].owner = u
      BY <1>2, <2>5, <3>1, <3>4
    <3> QED BY <3>4, <3>5 DEF DbOK, DbCounted
  <2>6. DbCounted(e)
    BY <2>4, <2>5 DEF DbCounted
  <2>7. e.schema[Public] = d.schema[Public]
    BY <1>9, <1>16, FixedNames
  <2> QED BY <1>2, <1>3, <1>6, <1>10, <1>16, <2>2, <2>3, <2>6, <2>7 DEF DbOK, Moving
<1> QED BY <1>15, <1>16 DEF Moves
-----------------------------------------------------------------------------
(* What a transaction has left to do.                                      *)
LEMMA StepKinds ==
  ASSUME Slugged, NEW x \in TodoSteps
  PROVE  /\ x[1] = "tenants" => x = <<"tenants">>
         /\ x[1] = "tenant" => x[2] \in MgTenants /\ x = <<"tenant", x[2]>>
         /\ x[1] = "mirror" => \E t \in MgTenants : x[2] = tenantSchemaName(t) /\ x = <<"mirror", tenantSchemaName(t)>>
         /\ x[1] = "migrate" => /\ x = <<"migrate", x[2]>> /\ x[2] \in Stable
                                /\ x[2] \in {Global, Public} \/ \E t \in MgTenants : x[2] = tenantSchemaName(t)
BY NamesOf, FixedNames DEF TodoSteps

LEMMA TodoSplit ==
  ASSUME NEW todo \in Seq(TodoSteps), todo # <<>>
  PROVE  /\ Len(todo) \in Nat /\ Len(todo) > 0 /\ Head(todo) = todo[1] /\ Head(todo) \in TodoSteps
         /\ Tail(todo) \in Seq(TodoSteps) /\ Len(Tail(todo)) = Len(todo) - 1
         /\ \A i \in 1..Len(Tail(todo)) : Tail(todo)[i] = todo[i + 1]
         /\ \A x : Pending(todo, x) <=> (x = Head(todo) \/ Pending(Tail(todo), x))
<1>1. /\ Len(todo) \in Nat /\ Len(todo) > 0 /\ Head(todo) = todo[1] /\ Head(todo) \in TodoSteps
      /\ Tail(todo) \in Seq(TodoSteps) /\ Len(Tail(todo)) = Len(todo) - 1
      /\ \A i \in 1..Len(Tail(todo)) : Tail(todo)[i] = todo[i + 1]
  OBVIOUS
<1> DEFINE rest == Tail(todo)
<1> HIDE DEF rest
<1>2. ASSUME NEW x, Pending(todo, x) PROVE x = todo[1] \/ Pending(rest, x)
  <2>1. PICK i \in 1..Len(todo) : todo[i] = x
    BY <1>2 DEF Pending
  <2>2. CASE i = 1
    BY <2>1, <2>2
  <2>3. CASE i # 1
    <3>1. i - 1 \in 1..Len(rest) /\ (i - 1) + 1 = i
      BY <1>1, <2>1, <2>3 DEF rest
    <3> QED BY <1>1, <2>1, <3>1 DEF rest, Pending
  <2> QED BY <2>2, <2>3
<1>3. ASSUME NEW x, x = todo[1] \/ Pending(rest, x) PROVE Pending(todo, x)
  <2>1. CASE x = todo[1]
    <3>1. 1 \in 1..Len(todo)
      BY <1>1
    <3> QED BY <2>1, <3>1 DEF Pending
  <2>2. CASE Pending(rest, x)
    <3>1. PICK i \in 1..Len(rest) : rest[i] = x
      BY <2>2 DEF Pending
    <3>2. i + 1 \in 1..Len(todo) /\ todo[i + 1] = x
      BY <1>1, <3>1 DEF rest
    <3> QED BY <3>2 DEF Pending
  <2> QED BY <1>3, <2>1, <2>2
<1> QED BY <1>1, <1>2, <1>3 DEF rest

(* A step that is done, and changes to the database that leave the rest.   *)
Keeps(d, e) ==
  /\ Registered(e) = Registered(d)
  /\ \A t \in MgTenants : d.schema[tenantSchemaName(t)].owner = t => e.schema[tenantSchemaName(t)].owner = t

LEMMA TodoKept ==
  ASSUME NEW d, NEW todo, TodoOK(d, todo), NEW e, Keeps(d, e), Complete(e, Public) \/ Pending(todo, <<"migrate", Public>>)
  PROVE  TodoOK(e, todo)
BY DEF TodoOK, Keeps

LEMMA TodoLess ==
  ASSUME NEW d, NEW todo, TodoOK(d, todo), todo # <<>>, Complete(d, Public) \/ Head(todo) # <<"migrate", Public>>
  PROVE  TodoOK(d, Tail(todo))
<1> DEFINE rest == Tail(todo)
<1>1. todo \in Seq(TodoSteps)
  BY DEF TodoOK
<1>2. /\ Len(todo) \in Nat /\ Len(todo) > 0 /\ rest \in Seq(TodoSteps) /\ Len(rest) = Len(todo) - 1
      /\ \A i \in 1..Len(rest) : rest[i] = todo[i + 1]
      /\ \A x : Pending(todo, x) <=> (x = Head(todo) \/ Pending(rest, x))
  BY <1>1, TodoSplit
<1> HIDE DEF rest
<1>3. \A i \in 1..Len(rest) : i + 1 \in 1..Len(todo)
  BY <1>2
<1>4. ASSUME NEW i \in 1..Len(rest), rest[i] = <<"tenants">>
      PROVE  i = Len(rest) /\ \A j \in 1..(i - 1) : rest[j][1] = "migrate"
  <2>1. i + 1 = Len(todo) /\ \A j \in 1..((i + 1) - 1) : todo[j][1] = "migrate"
    BY <1>2, <1>3, <1>4 DEF TodoOK
  <2>2. ASSUME NEW j \in 1..(i - 1) PROVE rest[j] = todo[j + 1] /\ j + 1 \in 1..((i + 1) - 1)
    BY <1>2
  <2> QED BY <1>2, <2>1, <2>2
<1>5. ASSUME NEW i \in 1..Len(rest), NEW t \in MgTenants
      PROVE  /\ rest[i] = <<"tenant", t>> => t \in Registered(d)
             /\ rest[i] \in {<<"migrate", tenantSchemaName(t)>>, <<"mirror", tenantSchemaName(t)>>}
                  => d.schema[tenantSchemaName(t)].owner = t
  BY <1>2, <1>3 DEF TodoOK
<1>6. Complete(d, Public) \/ Pending(rest, <<"migrate", Public>>)
  BY <1>2 DEF TodoOK
<1> QED BY <1>2, <1>4, <1>5, <1>6 DEF TodoOK, rest

(* Only migrations come before the tenants are listed.                     *)
LEMMA ListedOnce ==
  ASSUME NEW d, NEW todo, TodoOK(d, todo), todo # <<>>, Pending(todo, <<"tenants">>)
  PROVE  /\ Head(todo)[1] # "migrate" => Head(todo) = <<"tenants">>
         /\ Head(todo) = <<"tenants">> => Tail(todo) = <<>>
<1>1. todo \in Seq(TodoSteps) /\ Len(todo) \in Nat /\ Len(todo) > 0 /\ Head(todo) = todo[1]
      /\ Len(Tail(todo)) = Len(todo) - 1 /\ Tail(todo) \in Seq(TodoSteps) /\ 1 \in 1..Len(todo)
  BY TodoSplit DEF TodoOK
<1>2. PICK i \in 1..Len(todo) : todo[i] = <<"tenants">>
  BY DEF Pending
<1>3. i = Len(todo) /\ \A j \in 1..(i - 1) : todo[j][1] = "migrate"
  BY <1>2 DEF TodoOK
<1>4. ASSUME Head(todo)[1] # "migrate" PROVE Head(todo) = <<"tenants">>
  <2>1. 1 \notin 1..(i - 1)
    BY <1>1, <1>3, <1>4
  <2>2. i = 1
    BY <1>1, <1>3, <2>1
  <2> QED BY <1>1, <1>2, <2>2
<1>5. ASSUME Head(todo) = <<"tenants">> PROVE Tail(todo) = <<>>
  <2>1. Len(todo) = 1
    BY <1>1, <1>5 DEF TodoOK
  <2>2. Len(Tail(todo)) = 0
    BY <1>1, <2>1
  <2> QED BY <1>1, <2>2, EmptySeq
<1> QED BY <1>4, <1>5
-----------------------------------------------------------------------------
(* The steps of the transaction under the lock.                            *)
LEMMA WithLock ==
  ASSUME MgInv, mgTx # NoTx
  PROVE  /\ Slugged /\ mgTx.by \in MgServers /\ mgServer[mgTx.by].at \in {"waiting", "inserted"}
         /\ mgTx = [by |-> mgTx.by, db |-> mgTx.db, todo |-> mgTx.todo]
         /\ DbOK(mgTx.db) /\ DbTyped(mgTx.db) /\ TodoOK(mgTx.db, mgTx.todo) /\ TenantsOK(mgTx.db, mgTx.todo)
         /\ mgTx.todo \in Seq(TodoSteps) /\ DbOK(mgDb)
         /\ IF Pending(mgTx.todo, <<"tenants">>) THEN mgTx.db.tenants = mgDb.tenants ELSE ~Ambiguous(mgDb)
BY DEF MgInv, TxOK, ServersOK, TodoOK, DbOK

(* The transaction goes on with another database and todo.                 *)
LEMMA GoesOn ==
  ASSUME MgInv, mgTx # NoTx, NEW e, NEW rest, Goes(e, rest),
         DbOK(e), TodoOK(e, rest), TenantsOK(e, rest),
         IF Pending(rest, <<"tenants">>) THEN e.tenants = mgDb.tenants ELSE ~Ambiguous(mgDb)
  PROVE  MgInv'
<1>1. /\ mgTx' = [by |-> mgTx.by, db |-> e, todo |-> rest]
      /\ mgDb' = mgDb /\ mgServer' = mgServer /\ mgSlug' = mgSlug
  BY WithLock DEF Goes
<1>2. mgTx'.by = mgTx.by /\ mgTx'.db = e /\ mgTx'.todo = rest
      /\ mgTx' = [by |-> mgTx'.by, db |-> mgTx'.db, todo |-> mgTx'.todo]
  BY <1>1
<1>3. ServersOK'
  BY <1>1 DEF MgInv, ServersOK, Slugged, Ambiguous, Registered
<1>4. DbOK(mgDb)' /\ (Up => Ready(mgDb))'
  <2>1. DbOK(mgDb)'
    BY <1>1, WithLock DEF DbOK, DbTyped, DbOwned, DbCounted, Home, OldName, tenantSchemaName
  <2>2. (Up => Ready(mgDb))'
    BY <1>1 DEF MgInv, Up, Ready, Housed, Registered, Complete, tenantSchemaName
  <2> QED BY <2>1, <2>2
<1>5. DbOK(mgTx.db)'
  BY <1>1, <1>2 DEF DbOK, DbTyped, DbOwned, DbCounted, Home, OldName, tenantSchemaName
<1>6. TodoOK(mgTx.db, mgTx.todo)'
  BY <1>1, <1>2 DEF TodoOK, TodoSteps, tenantSchemaName, Registered, Complete
<1>7. TenantsOK(mgTx.db, mgTx.todo)'
  BY <1>1, <1>2 DEF TenantsOK, tenantSchemaName, Registered, Complete, Housed, Ambiguous
<1>8. (IF Pending(mgTx.todo, <<"tenants">>) THEN mgTx.db.tenants = mgDb.tenants ELSE ~Ambiguous(mgDb))'
  BY <1>1, <1>2 DEF Ambiguous, Registered
<1>9. mgTx'.by \in MgServers /\ mgServer'[mgTx'.by].at \in {"waiting", "inserted"}
  BY <1>1, <1>2, WithLock
<1> QED BY <1>2, <1>3, <1>4, <1>5, <1>6, <1>7, <1>8, <1>9 DEF MgInv, TxOK

LEMMA MigrateKeeps ==
  ASSUME MgInv, applyMigrations
  PROVE  MgInv'
<1> DEFINE d == mgTx.db
           todo == mgTx.todo
           rest == Tail(todo)
           n == Head(todo)[2]
           list == ListOf(n)
           v == d.version[n]
           sql == list[v + 1]
           e == [d EXCEPT !.schema[n] = runStatement(@, sql), !.version[n] = v + 1]
<1>1. mgTx # NoTx /\ todo # <<>> /\ Head(todo)[1] = "migrate"
  BY DEF applyMigrations, Doing
<1>2. /\ Slugged /\ DbOK(d) /\ DbTyped(d) /\ TodoOK(d, todo) /\ TenantsOK(d, todo) /\ todo \in Seq(TodoSteps)
      /\ IF Pending(todo, <<"tenants">>) THEN d.tenants = mgDb.tenants ELSE ~Ambiguous(mgDb)
  BY <1>1, WithLock
<1>3. /\ Head(todo) \in TodoSteps /\ (\A x : Pending(todo, x) <=> (x = Head(todo) \/ Pending(rest, x))) /\ Pending(todo, Head(todo))
  BY <1>1, <1>2, TodoSplit
<1>4. /\ Head(todo) = <<"migrate", n>> /\ n \in Stable
      /\ n \in {Global, Public} \/ \E t \in MgTenants : n = tenantSchemaName(t)
  BY <1>1, <1>2, <1>3, StepKinds
<1>5. d.schema[n].owner # "none"
  <2>1. CASE n \in {Global, Public}
    BY <1>2, <2>1 DEF DbOK, DbOwned
  <2>2. ASSUME NEW t \in MgTenants, n = tenantSchemaName(t) PROVE d.schema[n].owner = t
    <3>1. PICK i \in 1..Len(todo) : todo[i] = <<"migrate", tenantSchemaName(t)>>
      BY <1>3, <1>4, <2>2 DEF Pending
    <3> QED BY <1>2, <2>2, <3>1 DEF TodoOK
  <2> QED BY <1>4, <2>1, <2>2, MigrationsAssumption
<1>6. ListOK(list) /\ Applied(list, d.schema[n], v) /\ v \in Nat /\ Len(list) \in Nat
      /\ (n # Global => list = TENANT_MIGRATIONS)
  <2>1. ListOK(list) /\ (n # Global => list = TENANT_MIGRATIONS) /\ (n = Global => list = PUBLIC_MIGRATIONS)
    BY <1>4, ListsOK, FixedNames
  <2>2. Applied(list, d.schema[n], v)
    BY <1>2, <1>4 DEF DbOK, DbCounted
  <2> HIDE DEF list, v
  <2>3. Len(list) \in Nat /\ v \in 0..Len(list)
    BY <2>1, <2>2 DEF Applied, ListOK
  <2> QED BY <2>1, <2>2, <2>3
<1>7. IF v >= Len(list) THEN Goes(d, rest)
      ELSE IF MigrationFails(d.schema[n], sql) THEN RollBack ELSE Goes(e, todo)
  BY DEF applyMigrations
<1>8. CASE v >= Len(list)
  <2>1. n # Global => Complete(d, n)
    BY <1>6, <1>8, AllApplied DEF Complete
  <2>2. TodoOK(d, rest)
    BY <1>1, <1>2, <1>4, <2>1, TodoLess, FixedNames
  <2>3. TenantsOK(d, rest)
    <3>1. \A t \in MgTenants : tenantSchemaName(t) = n => n # Global
      BY <1>2, NamesOf
    <3>2. Pending(todo, <<"tenants">>) => Pending(rest, <<"tenants">>)
      BY <1>3, <1>4
    <3>3. \A t \in MgTenants : Pending(todo, <<"tenant", t>>) => Pending(rest, <<"tenant", t>>)
      BY <1>3, <1>4
    <3>4. \A m : Pending(todo, <<"mirror", m>>) => Pending(rest, <<"mirror", m>>)
      BY <1>3, <1>4
    <3>5. \A t \in MgTenants : Pending(todo, <<"migrate", tenantSchemaName(t)>>) =>
             Pending(rest, <<"migrate", tenantSchemaName(t)>>) \/ Complete(d, tenantSchemaName(t))
      BY <1>3, <1>4, <2>1, <3>1
    <3> QED BY <1>2, <3>2, <3>3, <3>4, <3>5 DEF TenantsOK, Registered
  <2>4. Pending(rest, <<"tenants">>) <=> Pending(todo, <<"tenants">>)
    BY <1>3, <1>4
  <2> HIDE DEF d, todo, rest
  <2> QED BY <1>1, <1>2, <1>7, <1>8, <2>2, <2>3, <2>4, GoesOn
<1>9. CASE ~(v >= Len(list))
  <2>0. Migrates(d, e, n, sql, v) /\ v < Len(ListOf(n))
    BY <1>6, <1>9 DEF Migrates
  <2>1. /\ ~MigrationFails(d.schema[n], sql) /\ DbOK(e) /\ e.tenants = d.tenants
        /\ \A m \in Names : /\ e.schema[m].owner = d.schema[m].owner /\ e.schema[m].admins = d.schema[m].admins
                            /\ m # n => e.schema[m] = d.schema[m]
    <3>1. v = d.version[n] /\ sql = ListOf(n)[v + 1]
      OBVIOUS
    <3> HIDE DEF d, n, v, sql, e
    <3> QED BY <1>2, <1>4, <1>5, <2>0, <3>1, Migrated
  <2> HIDE DEF e
  <2>2. Goes(e, todo)
    BY <1>7, <1>9, <2>1
  <2>3. Registered(e) = Registered(d) /\ (Ambiguous(e) <=> Ambiguous(d))
    BY <2>1 DEF Registered, Ambiguous
  <2>4. \A t \in MgTenants : tenantSchemaName(t) \in Names
    BY <1>2, NamesOf
  <2>5. Keeps(d, e)
    BY <2>1, <2>3, <2>4 DEF Keeps
  <2>6. \A m \in Names : Complete(d, m) => Complete(e, m) \/ Pending(todo, <<"migrate", m>>)
    BY <1>3, <1>4, <2>1 DEF Complete
  <2>7. TodoOK(e, todo)
    <3>1. Complete(e, Public) \/ Pending(todo, <<"migrate", Public>>)
      BY <1>2, <2>6, FixedNames DEF TodoOK
    <3> QED BY <1>2, <2>5, <3>1, TodoKept
  <2>8. TenantsOK(e, todo)
    <3>1. \A t \in MgTenants : Housed(d, t) => Housed(e, t)
      BY <2>1, <2>4 DEF Housed
    <3>2. \A t \in MgTenants : e.schema[tenantSchemaName(t)].admins = d.schema[tenantSchemaName(t)].admins
      BY <2>1, <2>4
    <3>3. \A t \in MgTenants : Complete(d, tenantSchemaName(t)) =>
            Complete(e, tenantSchemaName(t)) \/ Pending(todo, <<"migrate", tenantSchemaName(t)>>)
      BY <2>4, <2>6
    <3> QED BY <1>2, <2>3, <3>1, <3>2, <3>3 DEF TenantsOK, Registered
  <2> HIDE DEF d, todo
  <2> QED BY <1>1, <1>2, <2>1, <2>2, <2>7, <2>8, GoesOn
<1> QED BY <1>8, <1>9

LEMMA MirrorKeeps ==
  ASSUME MgInv, mirrorPlatformAdmins
  PROVE  MgInv'
<1> DEFINE d == mgTx.db
           todo == mgTx.todo
           rest == Tail(todo)
           n == Head(todo)[2]
           e == [d EXCEPT !.schema[n].admins = TRUE]
<1>1. mgTx # NoTx /\ todo # <<>> /\ Head(todo)[1] = "mirror" /\ Goes(e, rest)
  BY DEF mirrorPlatformAdmins, Doing
<1>2. /\ Slugged /\ DbOK(d) /\ DbTyped(d) /\ TodoOK(d, todo) /\ TenantsOK(d, todo) /\ todo \in Seq(TodoSteps)
      /\ IF Pending(todo, <<"tenants">>) THEN d.tenants = mgDb.tenants ELSE ~Ambiguous(mgDb)
  BY <1>1, WithLock
<1>3. /\ Head(todo) \in TodoSteps /\ (\A x : Pending(todo, x) <=> (x = Head(todo) \/ Pending(rest, x))) /\ Pending(todo, Head(todo))
  BY <1>1, <1>2, TodoSplit
<1>4. PICK t \in MgTenants : n = tenantSchemaName(t) /\ Head(todo) = <<"mirror", tenantSchemaName(t)>>
  BY <1>1, <1>2, <1>3, StepKinds
<1>5. d.schema[n].owner = t
  <2>1. PICK i \in 1..Len(todo) : todo[i] = <<"mirror", tenantSchemaName(t)>>
    BY <1>3, <1>4 DEF Pending
  <2> QED BY <1>2, <1>4, <2>1 DEF TodoOK
<1>6. Mirrors(d, e, tenantSchemaName(t))
  BY <1>4 DEF Mirrors
<1>7. ~Pending(todo, <<"tenants">>)
  BY <1>1, <1>2, <1>4, ListedOnce
<1> HIDE DEF e
<1>8. /\ DbOK(e) /\ e.tenants = d.tenants /\ e.schema[tenantSchemaName(t)].admins
      /\ \A m \in Names : /\ e.schema[m].owner = d.schema[m].owner /\ e.schema[m].objs = d.schema[m].objs
                          /\ m # tenantSchemaName(t) => e.schema[m] = d.schema[m]
  BY <1>2, <1>4, <1>5, <1>6, Mirrored
<1>9. Registered(e) = Registered(d) /\ (Ambiguous(e) <=> Ambiguous(d))
  BY <1>8 DEF Registered, Ambiguous
<1>10. \A u \in MgTenants : tenantSchemaName(u) \in Names
  BY <1>2, NamesOf
<1>11. Keeps(d, e) /\ \A m \in Names : Complete(d, m) => Complete(e, m)
  BY <1>8, <1>9, <1>10 DEF Keeps, Complete
<1>12. TodoOK(e, rest)
  <2>1. Complete(e, Public) \/ Pending(todo, <<"migrate", Public>>)
    BY <1>2, <1>11, FixedNames DEF TodoOK
  <2>2. TodoOK(e, todo)
    BY <1>2, <1>11, <2>1, TodoKept
  <2>3. Head(todo) # <<"migrate", Public>>
    BY <1>1
  <2> QED BY <1>1, <2>2, <2>3, TodoLess
<1>13. TenantsOK(e, rest)
  <2>1. ~Ambiguous(e)
    BY <1>2, <1>7, <1>9 DEF TenantsOK
  <2>2. ASSUME NEW u \in Registered(e)
        PROVE  \/ Pending(rest, <<"tenant", u>>)
               \/ /\ Housed(e, u)
                  /\ Complete(e, tenantSchemaName(u)) \/ Pending(rest, <<"migrate", tenantSchemaName(u)>>)
                  /\ e.schema[tenantSchemaName(u)].admins \/ Pending(rest, <<"mirror", tenantSchemaName(u)>>)
    <3>1. u \in Registered(d) /\ u \in MgTenants
      BY <1>9 DEF Registered
    <3>2. /\ Pending(todo, <<"tenant", u>>) => Pending(rest, <<"tenant", u>>)
          /\ Pending(todo, <<"migrate", tenantSchemaName(u)>>) => Pending(rest, <<"migrate", tenantSchemaName(u)>>)
          /\ Pending(todo, <<"mirror", tenantSchemaName(u)>>) =>
               Pending(rest, <<"mirror", tenantSchemaName(u)>>) \/ tenantSchemaName(u) = tenantSchemaName(t)
      BY <1>3, <1>4
    <3>3. /\ Housed(d, u) => Housed(e, u)
          /\ d.schema[tenantSchemaName(u)].admins => e.schema[tenantSchemaName(u)].admins
      <4>1. Housed(d, u) => Housed(e, u)
        BY <1>8, <1>10, <3>1 DEF Housed
      <4>2. CASE tenantSchemaName(u) = tenantSchemaName(t)
        BY <1>8, <4>1, <4>2
      <4>3. CASE tenantSchemaName(u) # tenantSchemaName(t)
        BY <1>8, <1>10, <3>1, <4>1, <4>3
      <4> QED BY <4>2, <4>3
    <3>4. Complete(d, tenantSchemaName(u)) => Complete(e, tenantSchemaName(u))
      BY <1>10, <1>11, <3>1
    <3>5. tenantSchemaName(u) = tenantSchemaName(t) => e.schema[tenantSchemaName(u)].admins
      BY <1>8
    <3> QED BY <1>2, <1>7, <3>1, <3>2, <3>3, <3>4, <3>5 DEF TenantsOK
  <2> QED BY <2>1, <2>2 DEF TenantsOK
<1>14. ~Pending(rest, <<"tenants">>)
  BY <1>3, <1>7
<1> HIDE DEF d, todo, rest
<1> QED BY <1>1, <1>2, <1>7, <1>8, <1>12, <1>13, <1>14, GoesOn

StartsWith(q, a, b, r) == q = <<a, b>> \o r
LEMMA Prefixed ==
  ASSUME NEW U, NEW a \in U, NEW b \in U, NEW r \in Seq(U), NEW q, StartsWith(q, a, b, r)
  PROVE  /\ q \in Seq(U) /\ Len(q) = Len(r) + 2 /\ q[1] = a /\ q[2] = b
         /\ \A i \in 3..Len(q) : q[i] = r[i - 2]
<1> DEFINE ab == <<a, b>>
<1>1. ab \in Seq(U) /\ Len(ab) = 2 /\ ab[1] = a /\ ab[2] = b /\ Len(r) \in Nat
  OBVIOUS
<1> HIDE DEF ab
<1>2. /\ q \in Seq(U) /\ Len(q) = Len(ab) + Len(r)
      /\ \A i \in 1..(Len(ab) + Len(r)) : q[i] = IF i <= Len(ab) THEN ab[i] ELSE r[i - Len(ab)]
  <2>1. q = ab \o r
    BY DEF ab, StartsWith
  <2> QED BY <1>1, <2>1, ConcatProperties
<1>3. q[1] = a /\ q[2] = b
  BY <1>1, <1>2
<1>4. \A i \in 3..Len(q) : q[i] = r[i - 2]
  BY <1>1, <1>2
<1> QED BY <1>1, <1>2, <1>3, <1>4

Continues(q, n, r) == \A x : Pending(q, x) <=> x = <<"migrate", n>> \/ x = <<"mirror", n>> \/ Pending(r, x)
LEMMA TodoMore ==
  ASSUME Slugged, NEW d, NEW r, TodoOK(d, r), NEW t \in MgTenants, d.schema[tenantSchemaName(t)].owner = t,
         ~Pending(r, <<"tenants">>), NEW q,
         StartsWith(q, <<"migrate", tenantSchemaName(t)>>, <<"mirror", tenantSchemaName(t)>>, r)
  PROVE  TodoOK(d, q) /\ Continues(q, tenantSchemaName(t), r)
<1> DEFINE a == <<"migrate", tenantSchemaName(t)>>
           b == <<"mirror", tenantSchemaName(t)>>
<1>1. a \in TodoSteps /\ b \in TodoSteps /\ r \in Seq(TodoSteps) /\ Len(r) \in Nat
  BY DEF TodoSteps, TodoOK
<1>2. a # <<"tenants">> /\ b # <<"tenants">> /\ (\A u : a # <<"tenant", u>> /\ b # <<"tenant", u>>)
  OBVIOUS
<1>3. \A u \in MgTenants \ {t} : a # <<"migrate", tenantSchemaName(u)>> /\ b # <<"mirror", tenantSchemaName(u)>>
  BY NamesApart
<1>4. \A u : a # <<"mirror", u>> /\ b # <<"migrate", u>>
  OBVIOUS
<1>5. StartsWith(q, a, b, r)
  OBVIOUS
<1> HIDE DEF a, b
<1>6. /\ q \in Seq(TodoSteps) /\ Len(q) = Len(r) + 2 /\ q[1] = a /\ q[2] = b
      /\ \A i \in 3..Len(q) : q[i] = r[i - 2]
  BY <1>1, <1>5, Prefixed
<1>7. \A i \in 3..Len(q) : i - 2 \in 1..Len(r)
  BY <1>1, <1>6
<1>8. \A i \in 1..Len(q) : i = 1 \/ i = 2 \/ i \in 3..Len(q)
  BY <1>1, <1>6
<1>9. ASSUME NEW x, Pending(q, x) PROVE x = a \/ x = b \/ Pending(r, x)
  BY <1>6, <1>7, <1>8, <1>9 DEF Pending
<1>10. ASSUME NEW x, x = a \/ x = b \/ Pending(r, x) PROVE Pending(q, x)
  <2>1. 1 \in 1..Len(q) /\ 2 \in 1..Len(q)
    BY <1>1, <1>6
  <2>2. ASSUME NEW i \in 1..Len(r) PROVE i + 2 \in 1..Len(q) /\ q[i + 2] = r[i]
    BY <1>1, <1>6
  <2> QED BY <1>6, <1>10, <2>1, <2>2 DEF Pending
<1>11. ASSUME NEW i \in 1..Len(q)
       PROVE  /\ q[i] # <<"tenants">>
              /\ \A u \in MgTenants :
                   /\ q[i] = <<"tenant", u>> => u \in Registered(d)
                   /\ q[i] \in {<<"migrate", tenantSchemaName(u)>>, <<"mirror", tenantSchemaName(u)>>}
                        => d.schema[tenantSchemaName(u)].owner = u
  <2>1. CASE i = 1
    BY <1>2, <1>3, <1>4, <1>6, <2>1
  <2>2. CASE i = 2
    BY <1>2, <1>3, <1>4, <1>6, <2>2
  <2>3. CASE i \in 3..Len(q)
    BY <1>6, <1>7, <2>3 DEF TodoOK, Pending
  <2> QED BY <1>8, <2>1, <2>2, <2>3
<1>12. Complete(d, Public) \/ Pending(q, <<"migrate", Public>>)
  BY <1>10 DEF TodoOK
<1>13. TodoOK(d, q)
  BY <1>6, <1>11, <1>12 DEF TodoOK
<1> QED BY <1>9, <1>10, <1>13 DEF a, b, Continues

LEMMA RepairKeeps ==
  ASSUME MgInv, RepairTenant
  PROVE  MgInv'
<1> DEFINE d == mgTx.db
           todo == mgTx.todo
           rest == Tail(todo)
           t == Head(todo)[2]
           n == tenantSchemaName(t)
           p == IF ValidName(d.tenants[t]) THEN d
                ELSE [renameSchema(d, t) EXCEPT !.tenants[t] = legacyTenantSchemaName(t)]
           m == p.tenants[t]
           e == createSchema(p, m, t)
           q == <<<<"migrate", m>>, <<"mirror", m>>>> \o rest
<1>1. mgTx # NoTx /\ todo # <<>> /\ Head(todo)[1] = "tenant" /\ Goes(e, q)
  BY DEF RepairTenant, Doing
<1>2. /\ Slugged /\ DbOK(d) /\ DbTyped(d) /\ TodoOK(d, todo) /\ TenantsOK(d, todo) /\ todo \in Seq(TodoSteps)
      /\ IF Pending(todo, <<"tenants">>) THEN d.tenants = mgDb.tenants ELSE ~Ambiguous(mgDb)
  BY <1>1, WithLock
<1>3. /\ Head(todo) \in TodoSteps /\ (\A x : Pending(todo, x) <=> (x = Head(todo) \/ Pending(rest, x))) /\ Pending(todo, Head(todo))
  BY <1>1, <1>2, TodoSplit
<1>4. t \in MgTenants /\ Head(todo) = <<"tenant", t>>
  BY <1>1, <1>2, <1>3, StepKinds
<1>5. t \in Registered(d)
  <2>1. PICK i \in 1..Len(todo) : todo[i] = <<"tenant", t>>
    BY <1>3, <1>4 DEF Pending
  <2> QED BY <1>2, <1>4, <2>1 DEF TodoOK
<1>6. ~Pending(todo, <<"tenants">>) /\ ~Ambiguous(d)
  <2>1. Head(todo)[1] # "migrate" /\ Head(todo) # <<"tenants">> /\ todo # <<>> /\ TodoOK(d, todo)
    <3>1. <<"tenants">>[1] = "tenants"
      OBVIOUS
    <3> HIDE DEF d, todo, q, e
    <3>2. Head(todo)[1] = "tenant" /\ todo # <<>> /\ TodoOK(d, todo)
      BY <1>1, <1>2
    <3>3. Head(todo)[1] # <<"tenants">>[1]
      BY <3>1, <3>2
    <3> QED BY <3>2, <3>3
  <2>2. ~Pending(todo, <<"tenants">>)
    <3> HIDE DEF d, todo
    <3> QED BY <2>1, ListedOnce
  <2> QED BY <1>2, <2>2 DEF TenantsOK
<1>7. Moving(d, p, t)
  <2>1. CASE ValidName(d.tenants[t])
    BY <1>2, <1>4, <1>5, <1>6, <2>1, TenantNames DEF Moving
  <2>2. CASE ~ValidName(d.tenants[t])
    <3>1. Renames(d, p, t)
      BY <2>2 DEF Renames
    <3> HIDE DEF p, d, t, n
    <3>2. p \in Databases /\ p.tenants = [d.tenants EXCEPT ![t] = tenantSchemaName(t)] /\ Moves(d, p, t)
      BY <1>2, <1>5, <1>6, <2>2, <3>1, Moved
    <3> QED BY <1>2, <1>5, <1>6, <2>2, <3>2, Renamed
  <2> QED BY <2>1, <2>2
<1> HIDE DEF p
<1>8. /\ DbOK(p) /\ ~Ambiguous(p) /\ Registered(p) = Registered(d)
      /\ p.tenants[t] = n /\ \A u \in MgTenants \ {t} : p.tenants[u] = d.tenants[u]
      /\ p.schema[Public] = d.schema[Public]
      /\ \A u \in MgTenants \ {t} : p.schema[tenantSchemaName(u)] = d.schema[tenantSchemaName(u)]
  BY <1>7 DEF Moving
<1>9. /\ DbOK(e) /\ e.tenants = p.tenants /\ Housed(e, t)
      /\ \A x \in Names : x # n => e.schema[x] = p.schema[x]
  <2>1. e = createSchema(p, tenantSchemaName(t), t)
    BY <1>8
  <2> HIDE DEF e, t
  <2> QED BY <1>2, <1>4, <1>8, <2>1, Created
<1> HIDE DEF e
<1>10. Registered(e) = Registered(d) /\ ~Ambiguous(e)
  BY <1>8, <1>9 DEF Registered, Ambiguous
<1>11. e.schema[Public] = d.schema[Public]
  BY <1>2, <1>4, <1>8, <1>9, NamesOf, FixedNames
<1>12. \A u \in MgTenants \ {t} : e.schema[tenantSchemaName(u)] = d.schema[tenantSchemaName(u)]
                                  /\ e.tenants[u] = d.tenants[u]
  BY <1>2, <1>4, <1>8, <1>9, NamesOf, NamesApart
<1>13. Keeps(d, e) /\ (Complete(d, Public) => Complete(e, Public))
  BY <1>9, <1>10, <1>11, <1>12 DEF Keeps, Complete, Housed
<1>14. TodoOK(e, rest)
  <2>1. Complete(e, Public) \/ Pending(todo, <<"migrate", Public>>)
    BY <1>2, <1>13 DEF TodoOK
  <2>2. TodoOK(e, todo)
    BY <1>2, <1>13, <2>1, TodoKept
  <2>3. Head(todo) # <<"migrate", Public>>
    BY <1>1
  <2> QED BY <1>1, <2>2, <2>3, TodoLess
<1>15. ~Pending(rest, <<"tenants">>)
  BY <1>3, <1>6
<1>16. TodoOK(e, q) /\ Continues(q, n, rest)
  <2>1. StartsWith(q, <<"migrate", tenantSchemaName(t)>>, <<"mirror", tenantSchemaName(t)>>, rest)
    BY <1>8 DEF StartsWith
  <2>2. e.schema[tenantSchemaName(t)].owner = t
    BY <1>9 DEF Housed
  <2> HIDE DEF q, rest, t
  <2> QED BY <1>2, <1>4, <1>14, <1>15, <2>1, <2>2, TodoMore DEF n
<1>17. TodoOK(e, q) /\ \A x : Pending(q, x) <=> x = <<"migrate", n>> \/ x = <<"mirror", n>> \/ Pending(rest, x)
  BY <1>16 DEF Continues
<1> HIDE DEF q
<1>18. TenantsOK(e, q)
  <2>1. ASSUME NEW u \in Registered(e)
        PROVE  \/ Pending(q, <<"tenant", u>>)
               \/ /\ Housed(e, u)
                  /\ Complete(e, tenantSchemaName(u)) \/ Pending(q, <<"migrate", tenantSchemaName(u)>>)
                  /\ e.schema[tenantSchemaName(u)].admins \/ Pending(q, <<"mirror", tenantSchemaName(u)>>)
    <3>1. u \in Registered(d) /\ u \in MgTenants
      BY <1>10 DEF Registered
    <3>2. CASE u = t
      BY <1>9, <1>17, <3>2
    <3>3. CASE u # t
      <4>1. /\ Pending(todo, <<"tenant", u>>) => Pending(q, <<"tenant", u>>)
            /\ Pending(todo, <<"migrate", tenantSchemaName(u)>>) => Pending(q, <<"migrate", tenantSchemaName(u)>>)
            /\ Pending(todo, <<"mirror", tenantSchemaName(u)>>) => Pending(q, <<"mirror", tenantSchemaName(u)>>)
        BY <1>3, <1>4, <1>17, <3>3
      <4>2. /\ Housed(d, u) => Housed(e, u)
            /\ Complete(d, tenantSchemaName(u)) => Complete(e, tenantSchemaName(u))
            /\ d.schema[tenantSchemaName(u)].admins => e.schema[tenantSchemaName(u)].admins
        BY <1>12, <3>1, <3>3 DEF Housed, Complete
      <4> QED BY <1>2, <1>6, <3>1, <4>1, <4>2 DEF TenantsOK
    <3> QED BY <3>2, <3>3
  <2> QED BY <1>10, <2>1 DEF TenantsOK
<1>19. ~Pending(q, <<"tenants">>)
  BY <1>15, <1>17
<1> HIDE DEF d, todo, rest
<1> QED BY <1>1, <1>2, <1>6, <1>9, <1>17, <1>18, <1>19, GoesOn
-----------------------------------------------------------------------------
(* The steps that start and end a transaction.                             *)
LEMMA ServersMove ==
  ASSUME MgInv, mgDb' = mgDb, mgSlug' = mgSlug, ServersOK', Up' => Ready(mgDb),
         \/ mgTx' = NoTx
         \/ mgTx' = mgTx /\ (mgTx # NoTx => mgServer'[mgTx.by].at \in {"waiting", "inserted"})
  PROVE  MgInv'
<1>1. DbOK(mgDb) /\ TxOK
  BY DEF MgInv
<1>2. DbOK(mgDb)'
  BY <1>1 DEF DbOK, DbTyped, DbOwned, DbCounted, Home, OldName, tenantSchemaName
<1>3. (Up => Ready(mgDb))'
  BY DEF Ready, Housed, Registered, Complete, tenantSchemaName
<1>4. TxOK'
  <2> SUFFICES ASSUME mgTx' = mgTx, mgTx # NoTx PROVE TxOK'
    BY DEF TxOK
  <2>1. DbOK(mgTx.db)'
    BY <1>1 DEF TxOK, DbOK, DbTyped, DbOwned, DbCounted, Home, OldName, tenantSchemaName
  <2>2. TodoOK(mgTx.db, mgTx.todo)'
    BY <1>1 DEF TxOK, TodoOK, TodoSteps, tenantSchemaName, Registered, Complete
  <2>3. TenantsOK(mgTx.db, mgTx.todo)'
    BY <1>1 DEF TxOK, TenantsOK, tenantSchemaName, Registered, Complete, Housed, Ambiguous
  <2>4. (IF Pending(mgTx.todo, <<"tenants">>) THEN mgTx.db.tenants = mgDb.tenants ELSE ~Ambiguous(mgDb))'
    BY <1>1 DEF TxOK, Ambiguous, Registered
  <2> QED BY <1>1, <2>1, <2>2, <2>3, <2>4 DEF TxOK
<1> QED BY <1>2, <1>3, <1>4 DEF MgInv

(* A start-up gives up, a creation is refused.                             *)
LEMMA RollBackKeeps ==
  ASSUME MgInv, mgTx # NoTx, RollBack, Ambiguous(mgDb)
  PROVE  MgInv'
<1>1. mgTx.by \in MgServers /\ mgServer[mgTx.by].at \in {"waiting", "inserted"}
  BY WithLock
<1>2. /\ mgDb' = mgDb /\ mgSlug' = mgSlug /\ mgTx' = NoTx
      /\ mgServer' = [mgServer EXCEPT ![mgTx.by] = IF @.at = "waiting" THEN At("failed", NoSlug) ELSE At("up", NoSlug)]
  BY DEF RollBack
<1>3. ServersOK'
  BY <1>1, <1>2 DEF MgInv, ServersOK, Slugged, At, Ambiguous, Registered
<1>4. Up' => Up
  BY <1>1, <1>2 DEF MgInv, ServersOK, Up, At
<1> QED BY <1>2, <1>3, <1>4, ServersMove DEF MgInv

(* The registrations are listed in some order, each once.                  *)
LEMMA AllListed ==
  ASSUME NEW R, IsFiniteSet(R), NEW order \in [1..Cardinality(R) -> R],
         \A i, j \in DOMAIN order : i # j => order[i] # order[j], NEW t \in R
  PROVE  \E i \in 1..Cardinality(R) : order[i] = t
<1> SUFFICES ASSUME \A i \in 1..Cardinality(R) : order[i] # t PROVE FALSE
  OBVIOUS
<1>1. Cardinality(R) \in Nat /\ IsFiniteSet(R \ {t}) /\ Cardinality(R \ {t}) = Cardinality(R) - 1
  BY FS_CardinalityType, FS_RemoveElement
<1>2. IsFiniteSet(1..Cardinality(R)) /\ Cardinality(1..Cardinality(R)) = Cardinality(R)
  BY <1>1, FS_Interval
<1>3. order \in [1..Cardinality(R) -> R \ {t}]
  OBVIOUS
<1>4. \E x, y \in 1..Cardinality(R) : x # y /\ order[x] = order[y]
  BY <1>1, <1>2, <1>3, FS_PigeonHole
<1> QED BY <1>4

LEMMA ListKeeps ==
  ASSUME MgInv, ListTenants
  PROVE  MgInv'
<1> DEFINE d == mgTx.db
           todo == mgTx.todo
           R == Registered(d)
<1>1. mgTx # NoTx /\ todo # <<>> /\ Head(todo)[1] = "tenants"
  BY DEF ListTenants, Doing
<1>2. /\ Slugged /\ DbOK(d) /\ DbTyped(d) /\ TodoOK(d, todo) /\ TenantsOK(d, todo) /\ todo \in Seq(TodoSteps)
      /\ IF Pending(todo, <<"tenants">>) THEN d.tenants = mgDb.tenants ELSE ~Ambiguous(mgDb)
  BY <1>1, WithLock
<1>3. /\ Head(todo) \in TodoSteps /\ (\A x : Pending(todo, x) <=> (x = Head(todo) \/ Pending(Tail(todo), x))) /\ Pending(todo, Head(todo))
  BY <1>1, <1>2, TodoSplit
<1>4. Head(todo) = <<"tenants">> /\ Pending(todo, <<"tenants">>)
  BY <1>1, <1>2, <1>3, StepKinds
<1>5. d.tenants = mgDb.tenants /\ (Ambiguous(d) <=> Ambiguous(mgDb))
  BY <1>2, <1>4 DEF Ambiguous, Registered
<1>6. CASE Ambiguous(d)
  BY <1>1, <1>5, <1>6, RollBackKeeps DEF ListTenants
<1>7. CASE ~Ambiguous(d)
  <2>1. PICK order \in [1..Cardinality(R) -> R] :
          /\ \A i, j \in DOMAIN order : i # j => order[i] # order[j]
          /\ Goes(d, [i \in DOMAIN order |-> <<"tenant", order[i]>>])
    BY <1>7 DEF ListTenants
  <2> DEFINE q == [i \in DOMAIN order |-> <<"tenant", order[i]>>]
  <2>2. IsFiniteSet(R) /\ Cardinality(R) \in Nat /\ R \subseteq MgTenants
    BY FS_Subset, FS_CardinalityType, MigrationsAssumption DEF Registered
  <2>3. DOMAIN order = 1..Cardinality(R) /\ \A i \in 1..Cardinality(R) : q[i] = <<"tenant", order[i]>> /\ order[i] \in R
    BY <2>1
  <2>4. \A i \in 1..Cardinality(R) : q[i] \in TodoSteps
    BY <2>2, <2>3 DEF TodoSteps
  <2>5. q \in Seq(TodoSteps) /\ Len(q) = Cardinality(R)
    <3>1. q = [i \in 1..Cardinality(R) |-> q[i]]
      BY <2>3
    <3> HIDE DEF q
    <3> QED BY <2>2, <2>4, <3>1
  <2>6. ~Pending(q, <<"tenants">>)
    BY <2>3, <2>5 DEF Pending
  <2>7. \A t \in R : Pending(q, <<"tenant", t>>)
    BY <2>1, <2>2, <2>3, <2>5, AllListed DEF Pending
  <2>8. Complete(d, Public)
    <3>1. ~Pending(todo, <<"migrate", Public>>)
      <4>1. Tail(todo) = <<>>
        BY <1>1, <1>2, <1>4, ListedOnce
      <4>2. ~Pending(<<>>, <<"migrate", Public>>)
        BY DEF Pending
      <4>3. <<"migrate", Public>> # <<"tenants">>
        OBVIOUS
      <4> HIDE DEF todo
      <4> QED BY <1>3, <1>4, <4>1, <4>2, <4>3
    <3> QED BY <1>2, <3>1 DEF TodoOK
  <2>9. TodoOK(d, q)
    <3>1. ASSUME NEW i \in 1..Len(q), NEW t \in MgTenants
          PROVE  /\ q[i] = <<"tenant", t>> => t \in R
                 /\ q[i] # <<"migrate", tenantSchemaName(t)>> /\ q[i] # <<"mirror", tenantSchemaName(t)>>
      <4>1. q[i] = <<"tenant", order[i]>> /\ order[i] \in R
        BY <2>3, <2>5
      <4> HIDE DEF q, R
      <4> QED BY <4>1
    <3>2. \A i \in 1..Len(q) : q[i] # <<"tenants">>
      BY <2>3, <2>5
    <3> HIDE DEF q
    <3> QED BY <2>5, <2>8, <3>1, <3>2 DEF TodoOK
  <2>10. TenantsOK(d, q)
    BY <1>7, <2>7 DEF TenantsOK
  <2> HIDE DEF q
  <2>11. Goes(d, q)
    BY <2>1 DEF q
  <2> HIDE DEF d
  <2> QED BY <1>1, <1>2, <1>5, <1>7, <2>6, <2>9, <2>10, <2>11, GoesOn
<1> QED BY <1>6, <1>7

(* Tenants that all have a current name share none.                        *)
LEMMA ReadyApart ==
  ASSUME Slugged, NEW d, \A t \in Registered(d) : d.tenants[t] = tenantSchemaName(t)
  PROVE  ~Ambiguous(d)
BY NamesOf, NamesApart DEF Ambiguous, Registered

LEMMA CommitKeeps ==
  ASSUME MgInv, MigrationCommits
  PROVE  MgInv'
<1> DEFINE d == mgTx.db
<1>1. mgTx # NoTx /\ mgTx.todo = <<>>
  BY DEF MigrationCommits
<1>2. /\ Slugged /\ DbOK(d) /\ TodoOK(d, mgTx.todo) /\ TenantsOK(d, mgTx.todo) /\ mgTx.by \in MgServers
      /\ IF Pending(mgTx.todo, <<"tenants">>) THEN d.tenants = mgDb.tenants ELSE ~Ambiguous(mgDb)
  BY <1>1, WithLock
<1>3. \A x : ~Pending(mgTx.todo, x)
  BY <1>1 DEF Pending
<1>4. Ready(d) /\ ~Ambiguous(mgDb)
  BY <1>2, <1>3 DEF Ready, TodoOK, TenantsOK
<1>5. /\ mgDb' = d /\ mgTx' = NoTx /\ mgSlug' = mgSlug
      /\ mgServer' = [mgServer EXCEPT ![mgTx.by] = At("up", NoSlug)]
  BY DEF MigrationCommits
<1>6. ServersOK'
  BY <1>2, <1>4, <1>5 DEF MgInv, ServersOK, Slugged, At
<1>7. DbOK(mgDb)'
  BY <1>2, <1>5 DEF DbOK, DbTyped, DbOwned, DbCounted, Home, OldName, tenantSchemaName
<1>8. Ready(mgDb)'
  BY <1>4, <1>5 DEF Ready, Housed, Registered, Complete, tenantSchemaName
<1>9. TxOK'
  BY <1>5 DEF TxOK
<1> QED BY <1>6, <1>7, <1>8, <1>9 DEF MgInv

(* A tenant whose schema has the current name is registered or deleted.    *)
Reregisters(d, e, t, x) == e = [d EXCEPT !.tenants[t] = x]
LEMMA Reregistered ==
  ASSUME Slugged, NEW d, DbOK(d), NEW t \in MgTenants, d.tenants[t] \in {NoTenantName, tenantSchemaName(t)},
         NEW x \in {NoTenantName, tenantSchemaName(t)}, NEW e, Reregisters(d, e, t, x)
  PROVE  DbOK(e) /\ e.schema = d.schema /\ e.tenants = [d.tenants EXCEPT ![t] = x] /\ DbTyped(d)
<1>1. d \in Databases /\ d.tenants \in [MgTenants -> Names \cup {NoTenantName}] /\ DbTyped(d)
  BY DEF DbOK, DbTyped, Databases
<1>2. /\ tenantSchemaName(t) \in Stable /\ tenantSchemaName(t) # NoTenantName /\ tenantSchemaName(t) \in Names
      /\ storedPostgresIdentifier(tenantSchemaName(t)) = tenantSchemaName(t)
  BY NamesOf
<1>3. /\ e = [tenants |-> e.tenants, schema |-> e.schema, version |-> e.version]
      /\ e.tenants = [d.tenants EXCEPT ![t] = x] /\ e.schema = d.schema /\ e.version = d.version
  BY <1>1 DEF Reregisters, Databases
<1>4. e.tenants \in [MgTenants -> Names \cup {NoTenantName}] /\ e.tenants[t] = x
      /\ \A u \in MgTenants \ {t} : e.tenants[u] = d.tenants[u]
  BY <1>1, <1>2, <1>3
<1>5. e \in Databases
  BY <1>1, <1>3, <1>4 DEF Databases
<1>6. DbTyped(e)
  BY <1>1, <1>3, <1>4, <1>5 DEF DbTyped
<1>7. \A u \in MgTenants : Home(e, u) = Home(d, u)
  <2>1. Home(e, t) = tenantSchemaName(t) /\ Home(d, t) = tenantSchemaName(t)
    BY <1>2, <1>4 DEF Home
  <2>2. \A u \in MgTenants \ {t} : Home(e, u) = Home(d, u)
    BY <1>4 DEF Home
  <2> QED BY <2>1, <2>2
<1>8. DbOwned(e)
  BY <1>3, <1>7 DEF DbOK, DbOwned
<1>9. DbCounted(e)
  <2>1. x # <<"long", t>>
    BY <1>2 DEF NoTenantName, Stable
  <2> QED BY <1>3, <1>4, <2>1 DEF DbOK, DbCounted
<1> QED BY <1>1, <1>3, <1>6, <1>8, <1>9 DEF DbOK

LEMMA UpFacts ==
  ASSUME MgInv, NEW s \in MgServers, mgServer[s].at \in {"up", "checked", "inserted"}
  PROVE  /\ Slugged /\ DbOK(mgDb) /\ Ready(mgDb) /\ ~Ambiguous(mgDb)
         /\ \A u \in MgServers : mgServer[u].at # "failed"
         /\ \A t \in MgTenants : mgDb.tenants[t] \in {NoTenantName, tenantSchemaName(t)}
         /\ \A t \in Registered(mgDb) : mgDb.tenants[t] = tenantSchemaName(t)
<1>1. Slugged /\ DbOK(mgDb) /\ Up
  BY DEF MgInv, ServersOK, Up
<1>2. Ready(mgDb)
  BY <1>1 DEF MgInv
<1>3. \A t \in Registered(mgDb) : mgDb.tenants[t] = tenantSchemaName(t)
  BY <1>2 DEF Ready, Housed
<1>4. ~Ambiguous(mgDb)
  BY <1>1, <1>3, ReadyApart
<1> QED BY <1>1, <1>2, <1>3, <1>4 DEF MgInv, ServersOK, Registered

LEMMA DeleteKeeps ==
  ASSUME MgInv, NEW s \in MgServers, NEW t \in MgTenants, DeleteTenant(s, t)
  PROVE  MgInv'
<1> DEFINE e == [mgDb EXCEPT !.tenants[t] = NoTenantName]
<1>1. /\ mgServer[s].at = "up" /\ mgTx = NoTx /\ mgDb' = e /\ mgTx' = mgTx /\ mgServer' = mgServer /\ mgSlug' = mgSlug
  BY DEF DeleteTenant
<1>2. Reregisters(mgDb, e, t, NoTenantName)
  BY DEF Reregisters
<1> HIDE DEF e
<1>3. /\ Slugged /\ DbOK(mgDb) /\ Ready(mgDb) /\ \A u \in MgServers : mgServer[u].at # "failed"
      /\ mgDb.tenants[t] \in {NoTenantName, tenantSchemaName(t)}
  BY <1>1, UpFacts
<1>4. DbOK(e) /\ e.schema = mgDb.schema /\ e.tenants = [mgDb.tenants EXCEPT ![t] = NoTenantName] /\ DbTyped(mgDb)
  BY <1>2, <1>3, Reregistered
<1>5. \A u \in MgTenants : e.tenants[u] = NoTenantName \/ e.tenants[u] = mgDb.tenants[u]
  BY <1>4 DEF DbTyped, Databases
<1>6. Ready(e)
  BY <1>3, <1>4, <1>5 DEF Ready, Registered, Housed, Complete
<1>7. ServersOK'
  BY <1>1, <1>3 DEF MgInv, ServersOK, Slugged
<1>8. DbOK(mgDb)'
  BY <1>1, <1>4 DEF DbOK, DbTyped, DbOwned, DbCounted, Home, OldName, tenantSchemaName
<1>9. Ready(mgDb)'
  BY <1>1, <1>6 DEF Ready, Housed, Registered, Complete, tenantSchemaName
<1>10. TxOK'
  BY <1>1 DEF TxOK
<1> QED BY <1>7, <1>8, <1>9, <1>10 DEF MgInv

LEMMA LocksKeep ==
  ASSUME MgInv, NEW s \in MgServers, StartLock(s)
  PROVE  MgInv'
<1> DEFINE q == <<<<"migrate", Global>>, <<"migrate", Public>>, <<"tenants">>>>
<1>1. /\ mgServer[s].at = "waiting" /\ mgDb' = mgDb /\ mgServer' = mgServer /\ mgSlug' = mgSlug
      /\ mgTx' = [by |-> s, db |-> mgDb, todo |-> q]
  BY DEF StartLock
<1>2. q \in Seq(TodoSteps) /\ Len(q) = 3
  BY DEF TodoSteps
<1>3. /\ q[1] = <<"migrate", Global>> /\ q[2] = <<"migrate", Public>> /\ q[3] = <<"tenants">>
      /\ \A i \in 1..3 : i = 1 \/ i = 2 \/ i = 3
  OBVIOUS
<1> HIDE DEF q
<1>4. Pending(q, <<"tenants">>) /\ Pending(q, <<"migrate", Public>>)
  BY <1>2, <1>3 DEF Pending
<1>5. Slugged /\ DbOK(mgDb)
  BY DEF MgInv, ServersOK
<1>6. TodoOK(mgDb, q)
  <2>1. ASSUME NEW i \in 1..Len(q)
        PROVE  /\ q[i] = <<"tenants">> => i = Len(q) /\ \A j \in 1..(i - 1) : q[j][1] = "migrate"
               /\ \A t \in MgTenants :
                    q[i] # <<"tenant", t>> /\ q[i] # <<"migrate", tenantSchemaName(t)>> /\ q[i] # <<"mirror", tenantSchemaName(t)>>
    <3>1. \A t \in MgTenants : tenantSchemaName(t) # Global /\ tenantSchemaName(t) # Public
      BY <1>5, NamesOf
    <3>2. q[1] # <<"tenants">> /\ q[2] # <<"tenants">> /\ q[1][1] = "migrate" /\ q[2][1] = "migrate"
      BY <1>3
    <3>3. q[i] = <<"tenants">> => i = 3
      BY <1>2, <1>3, <3>2
    <3>4. \A j \in 1..(3 - 1) : j = 1 \/ j = 2
      OBVIOUS
    <3>5. \A t \in MgTenants :
            q[i] # <<"tenant", t>> /\ q[i] # <<"migrate", tenantSchemaName(t)>> /\ q[i] # <<"mirror", tenantSchemaName(t)>>
      BY <1>2, <1>3, <3>1
    <3> QED BY <1>2, <3>2, <3>3, <3>4, <3>5
  <2> QED BY <1>2, <1>4, <2>1 DEF TodoOK
<1>7. TenantsOK(mgDb, q)
  BY <1>4 DEF TenantsOK
<1>8. mgTx'.by = s /\ mgTx'.db = mgDb /\ mgTx'.todo = q /\ mgTx' = [by |-> mgTx'.by, db |-> mgTx'.db, todo |-> mgTx'.todo]
  BY <1>1
<1>9. DbOK(mgTx.db)'
  BY <1>1, <1>5, <1>8 DEF DbOK, DbTyped, DbOwned, DbCounted, Home, OldName, tenantSchemaName
<1>10. TodoOK(mgTx.db, mgTx.todo)'
  BY <1>1, <1>6, <1>8 DEF TodoOK, TodoSteps, tenantSchemaName, Registered, Complete
<1>11. TenantsOK(mgTx.db, mgTx.todo)'
  BY <1>1, <1>7, <1>8 DEF TenantsOK, tenantSchemaName, Registered, Complete, Housed, Ambiguous
<1>12. ServersOK' /\ DbOK(mgDb)'
  BY <1>1, <1>5 DEF MgInv, ServersOK, Slugged, Ambiguous, Registered,
                    DbOK, DbTyped, DbOwned, DbCounted, Home, OldName, tenantSchemaName
<1>13. (Up => Ready(mgDb))'
  BY <1>1 DEF MgInv, Up, Ready, Housed, Registered, Complete, tenantSchemaName
<1>14. TxOK'
  BY <1>1, <1>4, <1>8, <1>9, <1>10, <1>11 DEF TxOK
<1> QED BY <1>12, <1>13, <1>14 DEF MgInv
-----------------------------------------------------------------------------
(* The steps that leave the database and the lock alone.                   *)
LEMMA LockKept ==
  ASSUME MgInv, NEW s \in MgServers, NEW r, mgServer' = [mgServer EXCEPT ![s] = r],
         mgTx' = mgTx, mgServer[s].at \notin {"waiting", "inserted"}
  PROVE  mgTx # NoTx => mgServer'[mgTx.by].at \in {"waiting", "inserted"}
BY WithLock DEF MgInv, ServersOK

LEMMA StartUpKeeps ==
  ASSUME MgInv, NEW s \in MgServers, StartUp(s)
  PROVE  MgInv'
<1>1. /\ mgServer[s].at \in {"down", "failed"} /\ mgServer' = [mgServer EXCEPT ![s] = At("waiting", NoSlug)]
      /\ mgDb' = mgDb /\ mgTx' = mgTx /\ mgSlug' = mgSlug
  BY DEF StartUp
<1>2. ServersOK' /\ (Up' => Up)
  BY <1>1 DEF MgInv, ServersOK, Slugged, At, Up
<1> QED BY <1>1, <1>2, LockKept, ServersMove DEF MgInv

LEMMA CrashKeeps ==
  ASSUME MgInv, NEW s \in MgServers, ServerCrash(s)
  PROVE  MgInv'
<1>1. /\ mgServer' = [mgServer EXCEPT ![s] = At("down", NoSlug)] /\ mgDb' = mgDb /\ mgSlug' = mgSlug
      /\ mgTx' = IF mgTx # NoTx /\ mgTx.by = s THEN NoTx ELSE mgTx
  BY DEF ServerCrash
<1>2. ServersOK' /\ (Up' => Up)
  BY <1>1 DEF MgInv, ServersOK, Slugged, At, Up
<1>3. \/ mgTx' = NoTx
      \/ mgTx' = mgTx /\ (mgTx # NoTx => mgServer'[mgTx.by].at \in {"waiting", "inserted"})
  BY <1>1, WithLock DEF MgInv, ServersOK
<1> QED BY <1>1, <1>2, <1>3, ServersMove DEF MgInv

LEMMA CheckKeeps ==
  ASSUME MgInv, NEW s \in MgServers, NEW t \in MgTenants, CreateCheck(s, t)
  PROVE  MgInv'
<1>1. /\ mgServer[s].at = "up" /\ mgServer' = [mgServer EXCEPT ![s] = At("checked", t)]
      /\ mgDb' = mgDb /\ mgTx' = mgTx /\ mgSlug' = mgSlug
  BY DEF CreateCheck
<1>2. ServersOK' /\ Up
  BY <1>1 DEF MgInv, ServersOK, Slugged, At, Up
<1> QED BY <1>1, <1>2, LockKept, ServersMove DEF MgInv

LEMMA InsertKeeps ==
  ASSUME MgInv, NEW s \in MgServers, CreateInsert(s)
  PROVE  MgInv'
<1>1. /\ mgServer[s].at = "checked" /\ mgDb' = mgDb /\ mgTx' = mgTx /\ mgSlug' = mgSlug
      /\ mgServer' = [mgServer EXCEPT ![s] = IF mgDb.tenants[@.slug] = NoTenantName
                                             THEN At("inserted", @.slug) ELSE At("up", NoSlug)]
  BY DEF CreateInsert
<1>2. ServersOK' /\ Up
  BY <1>1 DEF MgInv, ServersOK, Slugged, At, Up
<1>3. PICK r : mgServer' = [mgServer EXCEPT ![s] = r]
  BY <1>1
<1>4. mgTx # NoTx => mgServer'[mgTx.by].at \in {"waiting", "inserted"}
  BY <1>1, <1>3, LockKept
<1> QED BY <1>1, <1>2, <1>4, ServersMove DEF MgInv

(* A creation registers the tenant and finds its old schema or makes one.  *)
LEMMA CreateKeeps ==
  ASSUME MgInv, NEW s \in MgServers, createTenantSchema(s)
  PROVE  MgInv'
<1> DEFINE t == mgServer[s].slug
           n == tenantSchemaName(t)
           d == [mgDb EXCEPT !.tenants[t] = n]
           e == createSchema(d, n, t)
           q == <<<<"migrate", n>>, <<"mirror", n>>>>
<1>1. /\ mgServer[s].at = "inserted" /\ mgDb' = mgDb /\ mgServer' = mgServer /\ mgSlug' = mgSlug
      /\ mgTx' = [by |-> s, db |-> e, todo |-> q]
  BY DEF createTenantSchema
<1>2. t \in MgTenants
  BY <1>1 DEF MgInv, ServersOK
<1>3. /\ Slugged /\ DbOK(mgDb) /\ Ready(mgDb) /\ ~Ambiguous(mgDb)
      /\ mgDb.tenants[t] \in {NoTenantName, n}
      /\ \A u \in Registered(mgDb) : mgDb.tenants[u] = tenantSchemaName(u)
  BY <1>1, <1>2, UpFacts
<1>4. Reregisters(mgDb, d, t, n)
  BY DEF Reregisters
<1>5. StartsWith(q, <<"migrate", n>>, <<"mirror", n>>, <<>>)
  BY DEF StartsWith
<1> HIDE DEF d, q, t
<1>6. DbOK(d) /\ d.schema = mgDb.schema /\ d.tenants = [mgDb.tenants EXCEPT ![t] = n] /\ DbTyped(mgDb)
  BY <1>2, <1>3, <1>4, Reregistered
<1>7. d.tenants[t] = n /\ \A u \in MgTenants \ {t} : d.tenants[u] = mgDb.tenants[u]
  BY <1>2, <1>6 DEF DbTyped, Databases
<1> HIDE DEF e
<1>8. /\ DbOK(e) /\ e.tenants = d.tenants /\ Housed(e, t)
      /\ \A m \in Names : m # n => e.schema[m] = d.schema[m]
  <2>1. e = createSchema(d, tenantSchemaName(t), t)
    BY DEF e
  <2>2. d.tenants[t] = tenantSchemaName(t)
    BY <1>7
  <2>3. /\ DbOK(e) /\ e.tenants = d.tenants /\ Housed(e, t)
        /\ \A m \in Names : m # tenantSchemaName(t) => e.schema[m] = d.schema[m]
    <3>1. Slugged /\ DbOK(d) /\ t \in MgTenants
      BY <1>2, <1>3, <1>6
    <3> HIDE DEF n
    <3> QED BY <2>1, <2>2, <3>1, Created
  <2> QED BY <2>3
<1>9. n \in Stable \ {Global, Public, Cut} /\ Public \in Names
  BY <1>2, <1>3, NamesOf, FixedNames
<1>10. Complete(e, Public) /\ e.schema[n].owner = t
  BY <1>3, <1>6, <1>8, <1>9 DEF Ready, Complete, Housed
<1>11. ~Pending(<<>>, <<"tenants">>) /\ TodoOK(e, <<>>)
  BY <1>10 DEF Pending, TodoOK
<1>12. TodoOK(e, q) /\ Continues(q, n, <<>>)
  BY <1>2, <1>3, <1>5, <1>10, <1>11, TodoMore
<1>13. Pending(q, <<"migrate", n>>) /\ Pending(q, <<"mirror", n>>) /\ ~Pending(q, <<"tenants">>)
  BY <1>11, <1>12 DEF Continues
<1>14. \A u \in Registered(e) : e.tenants[u] = tenantSchemaName(u)
  BY <1>3, <1>7, <1>8 DEF Registered
<1>15. ~Ambiguous(e)
  BY <1>3, <1>14, ReadyApart
<1>16. TenantsOK(e, q)
  <2>1. ASSUME NEW u \in Registered(e), u # t
        PROVE  Housed(e, u) /\ Complete(e, tenantSchemaName(u)) /\ e.schema[tenantSchemaName(u)].admins
    <3>1. u \in MgTenants /\ u \in Registered(mgDb) /\ tenantSchemaName(u) # n /\ tenantSchemaName(u) \in Names
      BY <1>2, <1>3, <1>7, <1>8, <2>1, NamesApart, NamesOf DEF Registered
    <3> QED BY <1>3, <1>6, <1>7, <1>8, <2>1, <3>1 DEF Ready, Housed, Complete
  <2> QED BY <1>8, <1>13, <1>15, <2>1 DEF TenantsOK
<1>17. mgTx'.by = s /\ mgTx'.db = e /\ mgTx'.todo = q /\ mgTx' = [by |-> mgTx'.by, db |-> mgTx'.db, todo |-> mgTx'.todo]
  BY <1>1
<1>18. DbOK(mgTx.db)'
  BY <1>1, <1>8, <1>17 DEF DbOK, DbTyped, DbOwned, DbCounted, Home, OldName, tenantSchemaName
<1>19. TodoOK(mgTx.db, mgTx.todo)'
  BY <1>1, <1>12, <1>17 DEF TodoOK, TodoSteps, tenantSchemaName, Registered, Complete
<1>20. TenantsOK(mgTx.db, mgTx.todo)'
  BY <1>1, <1>16, <1>17 DEF TenantsOK, tenantSchemaName, Registered, Complete, Housed, Ambiguous
<1>21. ServersOK' /\ DbOK(mgDb)'
  BY <1>1, <1>3 DEF MgInv, ServersOK, Slugged, Ambiguous, Registered,
                    DbOK, DbTyped, DbOwned, DbCounted, Home, OldName, tenantSchemaName
<1>22. (Up => Ready(mgDb))'
  BY <1>1 DEF MgInv, Up, Ready, Housed, Registered, Complete, tenantSchemaName
<1>23. ~Ambiguous(mgDb)' /\ ~Pending(mgTx.todo, <<"tenants">>)'
  BY <1>1, <1>3, <1>13, <1>17 DEF Ambiguous, Registered
<1>24. TxOK'
  BY <1>1, <1>17, <1>18, <1>19, <1>20, <1>23 DEF TxOK
<1> QED BY <1>21, <1>22, <1>24 DEF MgInv
-----------------------------------------------------------------------------
(* The databases past builds can have left.                                *)
LEMMA RunInOrder ==
  ASSUME NEW list, ListOK(list), NEW v \in 0..Len(list), NEW c, c.objs = UNION {list[i].adds : i \in 1..v}
  PROVE  Applied(list, c, v)
<1>1. Len(list) \in Nat /\ 1..v \subseteq 1..Len(list) /\ \A i \in 1..Len(list) : i \in 1..v \/ i \in (v + 1)..Len(list)
  BY DEF ListOK
<1>2. c.objs \subseteq AllObjects(list)
  BY <1>1 DEF AllObjects
<1>3. AllObjects(list) \subseteq c.objs \cup UNION {list[i].adds : i \in (v + 1)..Len(list)}
  BY <1>1 DEF AllObjects
<1>4. ASSUME NEW i \in (v + 1)..Len(list), list[i].once, NEW j \in 1..v
      PROVE  list[i].adds \cap list[j].adds = {}
  <2>1. i # j /\ i \in 1..Len(list) /\ j \in 1..Len(list)
    BY <1>1
  <2> QED BY <1>4, <2>1 DEF ListOK
<1> QED BY <1>2, <1>3, <1>4 DEF Applied

(* A past list lacks at most one statement, which is repeated after it.    *)
LEMMA PastMissing ==
  ASSUME NEW l \in PastLists
  PROVE  /\ l.last \in 0..21
         /\ \/ l.missing = {}
            \/ \E i \in Inserted : l.missing = {i} /\ i <= l.last /\ l.last < RepairedAt[i]
<1>1. l.last \in MgPastEnds /\ l.missing \in SUBSET Inserted
      /\ \A i \in l.missing : i <= l.last /\ l.last < RepairedAt[i]
  BY DEF PastLists
<1>2. l.last \in 0..21
  BY <1>1, MigrationsAssumption
<1>3. Inserted = {5, 11, 16} /\ RepairedAt[5] = 10 /\ RepairedAt[11] = 13 /\ RepairedAt[16] = 18
  BY DEF Inserted, RepairedAt
<1>4. \A i, j \in l.missing : i = j
  BY <1>1, <1>2, <1>3
<1> QED BY <1>1, <1>2, <1>4

PastApplies(l, c) == Applied(TENANT_MIGRATIONS, c, l.last - Cardinality(l.missing)) /\ l.last - Cardinality(l.missing) \in Nat
LEMMA PastApplied ==
  ASSUME NEW l \in PastLists, NEW c,
         c.objs = UNION {TENANT_MIGRATIONS[i].adds : i \in (1..l.last) \ l.missing}
  PROVE  PastApplies(l, c)
<1> DEFINE T == TENANT_MIGRATIONS
<1>1. ListOK(T) /\ Len(T) = 21
  BY ListsOK, TenantSections
<1>2. l.last \in 0..21
  BY PastMissing
<1>3. CASE l.missing = {}
  <2>1. Cardinality(l.missing) = 0 /\ (1..l.last) \ l.missing = 1..l.last
    BY <1>3, FS_EmptySet
  <2>2. l.last - Cardinality(l.missing) = l.last
    BY <1>2, <2>1
  <2>3. c.objs = UNION {T[i].adds : i \in 1..l.last}
    BY <2>1
  <2>4. Applied(T, c, l.last)
    <3> HIDE DEF T
    <3>1. l.last \in 0..Len(T)
      BY <1>1, <1>2
    <3> QED BY <1>1, <2>3, <3>1, RunInOrder
  <2>5. l.last \in Nat
    BY <1>2
  <2> QED BY <2>2, <2>4, <2>5 DEF PastApplies
<1>4. CASE l.missing # {}
  <2>1. PICK m \in Inserted : l.missing = {m} /\ m <= l.last /\ l.last < RepairedAt[m]
    BY <1>4, PastMissing
  <2> DEFINE v == l.last - 1
             w == RepairedAt[m]
  <2>2. /\ m \in 1..17 /\ w \in m..18 /\ l.last < 18 /\ T[m].adds = T[w].adds /\ ~T[m].once
        /\ \A i \in 1..21 : T[i].once => i = 20
    <3>1. m = 5 \/ m = 11 \/ m = 16
      BY DEF Inserted
    <3>2. RepairedAt[5] = 10 /\ RepairedAt[11] = 13 /\ RepairedAt[16] = 18
      BY DEF Inserted, RepairedAt
    <3>3. \A i \in 1..21 : T[i].once => i = 20
      BY TenantSections
    <3>4. T[m].adds = T[w].adds
      BY <3>1, <3>2, TenantSections
    <3>5. m \in 1..17 /\ ~T[m].once
      BY <3>1, TenantSections
    <3>6. w = 10 \/ w = 13 \/ w = 18
      BY <3>1, <3>2
    <3>7. l.last < w /\ m <= l.last
      BY <2>1
    <3> HIDE DEF T, w
    <3>8. w \in m..18 /\ l.last < 18
      BY <1>2, <3>5, <3>6, <3>7
    <3> QED BY <3>3, <3>4, <3>5, <3>8
  <2>3. Cardinality(l.missing) = 1
    BY <2>1, FS_Singleton
  <2>4. l.last - Cardinality(l.missing) = v /\ v \in 0..21 /\ v \in Nat /\ v < 17
    BY <1>2, <2>1, <2>2, <2>3
  <2>5. c.objs = UNION {T[i].adds : i \in (1..l.last) \ {m}}
    BY <2>1
  <2> HIDE DEF T, v
  <2>6. \A i \in 1..l.last : i \in 1..21
    BY <1>2
  <2>7. c.objs \subseteq AllObjects(T)
    BY <1>1, <2>5, <2>6 DEF AllObjects
  <2>8. ASSUME NEW i \in 1..21, NEW x \in T[i].adds, x \notin c.objs
        PROVE  \E j \in (v + 1)..21 : x \in T[j].adds
    <3>1. i \notin (1..l.last) \ {m}
      BY <2>5, <2>8
    <3>2. CASE i = m
      <4>1. w \in (v + 1)..21
        BY <1>2, <2>1, <2>2 DEF v
      <4> QED BY <2>2, <2>8, <3>2, <4>1
    <3>3. CASE i # m
      <4>1. i \in (v + 1)..21
        BY <1>2, <3>1, <3>3 DEF v
      <4> QED BY <2>8, <4>1
    <3> QED BY <3>2, <3>3
  <2>9. AllObjects(T) \subseteq c.objs \cup UNION {T[j].adds : j \in (v + 1)..21}
    BY <1>1, <2>8 DEF AllObjects
  <2>10. ASSUME NEW i \in (v + 1)..21, T[i].once PROVE T[i].adds \cap c.objs = {}
    <3>1. i = 20
      BY <2>2, <2>4, <2>10
    <3>2. \A j \in 1..l.last : j # 20 /\ j \in 1..21
      BY <1>2, <2>2
    <3>3. \A j \in 1..l.last : T[20].adds \cap T[j].adds = {}
      BY <1>1, <2>10, <3>1, <3>2 DEF ListOK
    <3> QED BY <2>5, <3>1, <3>3
  <2>11. Applied(T, c, v)
    BY <1>1, <2>4, <2>7, <2>9, <2>10 DEF Applied
  <2> QED BY <2>4, <2>11 DEF PastApplies, T
<1> QED BY <1>3, <1>4
-----------------------------------------------------------------------------
(* A past build's database, schema by schema.                              *)
PastOf(d, l, ids, global, registered, held) ==
  /\ l \in PastLists /\ ids \in Ids /\ global \in {0, 2, 4}
  /\ registered \subseteq MgTenants /\ held \subseteq registered
  /\ d = PastDb(l, ids, global, registered, held)

LEMMA PastContents ==
  ASSUME NEW l \in PastLists, NEW ids \in Ids, NEW t \in MgTenants \cup {"default"},
         NEW c, c = PastContent(l, ids, t)
  PROVE  c \in SchemaContents /\ c.bound /\ c.fk = c.ids /\ c.owner = t /\ PastApplies(l, c)
<1> DEFINE o == UNION {TENANT_MIGRATIONS[i].adds : i \in (1..l.last) \ l.missing}
<1>1. o \subseteq Objects
  <2>1. l.last \in 0..21 /\ Len(TENANT_MIGRATIONS) = 21
    BY PastMissing, TenantSections
  <2>2. \A i \in 1..l.last : i \in 1..Len(TENANT_MIGRATIONS)
    BY <2>1
  <2> QED BY <2>2 DEF Objects, AllObjects
<1>2. c.objs = o
  BY DEF PastContent, Absent
<1>3. PastApplies(l, c)
  BY <1>2, PastApplied
<1> HIDE DEF o
<1>4. c = [objs |-> o, ids |-> ids, fk |-> ids, plain |-> ids, bound |-> TRUE, admins |-> FALSE, owner |-> t]
  BY DEF PastContent, Absent, o
<1>5. c.bound /\ c.fk = c.ids /\ c.owner = t
  BY <1>4
<1>6. c \in SchemaContents
  <2>1. Absent \in SchemaContents
    BY ContentOf
  <2>2. c = [Absent EXCEPT !.objs = o, !.ids = ids, !.fk = ids, !.plain = ids, !.owner = t]
    BY DEF PastContent, o
  <2> QED BY <1>1, <2>1, <2>2 DEF SchemaContents
<1> QED BY <1>3, <1>5, <1>6

GlobalContent(global) ==
  [Absent EXCEPT !.objs = UNION {PUBLIC_MIGRATIONS[i].adds : i \in 1..global}, !.owner = "platform"]
LEMMA PastGlobal ==
  ASSUME NEW global \in {0, 2, 4}, NEW c, c = GlobalContent(global)
  PROVE  c \in SchemaContents /\ c.bound /\ c.fk = c.ids /\ c.owner = "platform" /\ Applied(PUBLIC_MIGRATIONS, c, global)
<1> DEFINE o == UNION {PUBLIC_MIGRATIONS[i].adds : i \in 1..global}
<1>1. ListOK(PUBLIC_MIGRATIONS) /\ Len(PUBLIC_MIGRATIONS) = 4 /\ global \in 0..Len(PUBLIC_MIGRATIONS)
  BY ListsOK
<1>2. o \subseteq Objects
  <2>1. \A i \in 1..global : i \in 1..Len(PUBLIC_MIGRATIONS)
    BY <1>1
  <2> QED BY <2>1 DEF Objects, AllObjects
<1>3. c.objs = o
  BY DEF GlobalContent, Absent
<1>4. Applied(PUBLIC_MIGRATIONS, c, global)
  BY <1>1, <1>3, RunInOrder
<1> HIDE DEF o
<1>5. c = [Absent EXCEPT !.objs = o, !.owner = "platform"]
  BY DEF GlobalContent, o
<1>6. c \in SchemaContents
  <2>1. Absent \in SchemaContents
    BY ContentOf
  <2> QED BY <1>2, <1>5, <2>1 DEF SchemaContents
<1>7. c.bound /\ c.fk = c.ids /\ c.owner = "platform"
  BY <1>5 DEF Absent
<1> QED BY <1>4, <1>6, <1>7

PastSchema(d, l, held, n) ==
  \/ /\ n = Global /\ d.schema[n].owner = "platform"
     /\ Applied(PUBLIC_MIGRATIONS, d.schema[n], d.version[n])
  \/ /\ n = Public /\ d.schema[n].owner = "default"
     /\ Applied(TENANT_MIGRATIONS, d.schema[n], d.version[n])
  \/ /\ n \notin {Global, Public} /\ d.schema[n].owner \in held
     /\ storedPostgresIdentifier(OldName(d.schema[n].owner)) = n
     /\ PastApplies(l, d.schema[n])
  \/ /\ n \notin {Global, Public} /\ d.schema[n] = Absent
     /\ \A t \in held : storedPostgresIdentifier(OldName(t)) # n

SchemaAt(l, ids, global, held, n) ==
  CASE n = Global -> GlobalContent(global)
    [] n = Public -> PastContent(l, ids, "default")
    [] \E t \in held : storedPostgresIdentifier(OldName(t)) = n ->
         PastContent(l, ids, CHOOSE t \in held : storedPostgresIdentifier(OldName(t)) = n)
    [] OTHER -> Absent
VersionAt(l, global, held, n) ==
  CASE n = Global -> global
    [] n = Public -> l.last - Cardinality(l.missing)
    [] \E t \in held : OldName(t) = n -> l.last - Cardinality(l.missing)
    [] OTHER -> 0
LEMMA PastDbAt ==
  ASSUME NEW l, NEW ids, NEW global, NEW registered, NEW held, NEW d, d = PastDb(l, ids, global, registered, held),
         NEW n \in Names
  PROVE  d.schema[n] = SchemaAt(l, ids, global, held, n) /\ d.version[n] = VersionAt(l, global, held, n)
BY DEF PastDb, GlobalContent, SchemaAt, VersionAt

LEMMA FixedAt ==
  ASSUME Slugged, NEW l, NEW ids, NEW global, NEW held \in SUBSET MgTenants
  PROVE  /\ SchemaAt(l, ids, global, held, Global) = GlobalContent(global)
         /\ SchemaAt(l, ids, global, held, Public) = PastContent(l, ids, "default")
         /\ VersionAt(l, global, held, Global) = global
         /\ VersionAt(l, global, held, Public) = l.last - Cardinality(l.missing)
<1>1. Public # Global
  BY FixedNames
<1>2. \A t \in held : /\ OldName(t) \notin {Global, Public}
                       /\ storedPostgresIdentifier(OldName(t)) \notin {Global, Public}
  BY <1>1, NamesOf, FixedNames
<1>3. SchemaAt(l, ids, global, held, Global) = GlobalContent(global)
  BY <1>1, <1>2 DEF SchemaAt
<1>4. SchemaAt(l, ids, global, held, Public) = PastContent(l, ids, "default")
  BY <1>1, <1>2 DEF SchemaAt
<1>5. VersionAt(l, global, held, Global) = global
  BY <1>1, <1>2 DEF VersionAt
<1>6. VersionAt(l, global, held, Public) = l.last - Cardinality(l.missing)
  BY <1>1, <1>2 DEF VersionAt
<1> QED BY <1>3, <1>4, <1>5, <1>6

LEMMA PastSchemas ==
  ASSUME Slugged, NEW d, NEW l, NEW ids, NEW global, NEW registered, NEW held,
         PastOf(d, l, ids, global, registered, held), NEW n \in Names
  PROVE  /\ d.schema[n] \in SchemaContents /\ d.schema[n].bound /\ d.schema[n].fk = d.schema[n].ids
         /\ PastSchema(d, l, held, n)
<1>1. /\ l \in PastLists /\ ids \in Ids /\ global \in {0, 2, 4} /\ held \subseteq MgTenants
      /\ d = PastDb(l, ids, global, registered, held) /\ Global # Public
  BY FixedNames DEF PastOf
<1>2. d.schema[n] = SchemaAt(l, ids, global, held, n) /\ d.version[n] = VersionAt(l, global, held, n)
  BY <1>1, PastDbAt
<1>3. CASE n = Global
  <2>1. d.schema[n] = GlobalContent(global) /\ d.version[n] = global
    BY <1>1, <1>2, <1>3, FixedAt
  <2> QED BY <1>1, <1>3, <2>1, PastGlobal DEF PastSchema
<1>4. CASE n = Public
  <2>1. d.schema[n] = PastContent(l, ids, "default") /\ d.version[n] = l.last - Cardinality(l.missing)
    BY <1>1, <1>2, <1>4, FixedAt
  <2> QED BY <1>1, <1>4, <2>1, PastContents DEF PastSchema, PastApplies
<1>5. CASE n \notin {Global, Public} /\ \E t \in held : storedPostgresIdentifier(OldName(t)) = n
  <2> DEFINE t == CHOOSE t \in held : storedPostgresIdentifier(OldName(t)) = n
  <2>1. t \in held /\ storedPostgresIdentifier(OldName(t)) = n
    BY <1>5
  <2>2. d.schema[n] = PastContent(l, ids, t)
    BY <1>1, <1>5, <1>2 DEF SchemaAt, VersionAt
  <2> HIDE DEF t
  <2> QED BY <1>1, <1>5, <2>1, <2>2, PastContents DEF PastSchema
<1>6. CASE n \notin {Global, Public} /\ \A t \in held : storedPostgresIdentifier(OldName(t)) # n
  <2>1. d.schema[n] = Absent
    BY <1>1, <1>6, <1>2 DEF SchemaAt, VersionAt
  <2> QED BY <1>6, <2>1, ContentOf DEF PastSchema
<1> QED BY <1>3, <1>4, <1>5, <1>6

LEMMA PastVersions ==
  ASSUME Slugged, NEW d, NEW l, NEW ids, NEW global, NEW registered, NEW held,
         PastOf(d, l, ids, global, registered, held), NEW n \in Names
  PROVE  /\ d.version[n] \in Nat
         /\ n \notin {Global, Public} /\ (\A t \in held : OldName(t) # n) => d.version[n] = 0
         /\ n \notin {Global, Public} /\ (\E t \in held : OldName(t) = n) =>
              d.version[n] = l.last - Cardinality(l.missing)
<1>1. /\ l \in PastLists /\ global \in {0, 2, 4} /\ d = PastDb(l, ids, global, registered, held)
  BY DEF PastOf
<1>2. l.last - Cardinality(l.missing) \in Nat
  <2> DEFINE c == [objs |-> UNION {TENANT_MIGRATIONS[i].adds : i \in (1..l.last) \ l.missing}]
  <2>1. PastApplies(l, c)
    BY <1>1, PastApplied
  <2> QED BY <2>1 DEF PastApplies
<1>3. d.version[n] = VersionAt(l, global, held, n)
  BY <1>1, PastDbAt
<1> QED BY <1>1, <1>2, <1>3, FixedNames DEF VersionAt
LEMMA PastTenants ==
  ASSUME Slugged, NEW d, NEW l, NEW ids, NEW global, NEW registered, NEW held,
         PastOf(d, l, ids, global, registered, held), NEW t \in MgTenants
  PROVE  /\ d.tenants[t] \in Names \cup {NoTenantName} /\ d.tenants[t] \in {NoTenantName, OldName(t)}
         /\ t \in held => d.tenants[t] = OldName(t) /\ Home(d, t) = storedPostgresIdentifier(OldName(t))
<1>1. d.tenants[t] = IF t \in registered THEN OldName(t) ELSE NoTenantName
  BY DEF PastOf, PastDb
<1>2. held \subseteq registered
  BY DEF PastOf
<1> QED BY <1>1, <1>2, NamesOf DEF Home

LEMMA PastIsOK ==
  ASSUME Slugged, NEW d, NEW l, NEW ids, NEW global, NEW registered, NEW held,
         PastOf(d, l, ids, global, registered, held)
  PROVE  DbOK(d)
<1>1. held \subseteq MgTenants
  BY DEF PastOf
<1>2. \A n \in Names : /\ d.schema[n] \in SchemaContents /\ d.schema[n].bound /\ d.schema[n].fk = d.schema[n].ids
                       /\ PastSchema(d, l, held, n) /\ d.version[n] \in Nat
  BY PastSchemas, PastVersions
<1>3. d \in Databases
  <2>1. /\ d = [tenants |-> d.tenants, schema |-> d.schema, version |-> d.version]
        /\ d.tenants = [t \in MgTenants |-> d.tenants[t]]
        /\ d.schema = [n \in Names |-> d.schema[n]] /\ d.version = [n \in Names |-> d.version[n]]
    <3> DEFINE p == PastDb(l, ids, global, registered, held)
    <3>1. p = [tenants |-> p.tenants, schema |-> p.schema, version |-> p.version]
      BY DEF PastDb
    <3>2. p.tenants = [t \in MgTenants |-> p.tenants[t]]
      BY DEF PastDb
    <3>3. p.schema = [n \in Names |-> p.schema[n]]
      BY DEF PastDb
    <3>4. p.version = [n \in Names |-> p.version[n]]
      BY DEF PastDb
    <3>5. d = p
      BY DEF PastOf
    <3> HIDE DEF p
    <3> QED BY <3>1, <3>2, <3>3, <3>4, <3>5
  <2>2. \A t \in MgTenants : d.tenants[t] \in Names \cup {NoTenantName}
    BY PastTenants
  <2>3. d.tenants \in [MgTenants -> Names \cup {NoTenantName}] /\ d.schema \in [Names -> SchemaContents]
        /\ d.version \in [Names -> Nat]
    BY <1>2, <2>1, <2>2
  <2> QED BY <2>1, <2>3 DEF Databases
<1>4. DbTyped(d)
  <2>1. \A t \in MgTenants : d.tenants[t] \in {NoTenantName, OldName(t)}
    BY PastTenants
  <2> QED BY <1>2, <1>3, <2>1 DEF DbTyped
<1>5. DbOwned(d)
  <2>1. d.schema[Global].owner = "platform" /\ d.schema[Public].owner = "default"
    BY <1>2, FixedNames DEF PastSchema
  <2>2. ASSUME NEW n \in Names \ {Public, Global}
        PROVE  /\ d.schema[n].owner \in MgTenants \cup {"none"}
               /\ d.schema[n].owner \in MgTenants => n = Home(d, d.schema[n].owner)
               /\ d.schema[n].owner = "none" /\ n \in Stable => d.schema[n] = Absent /\ d.version[n] = 0
    <3> DEFINE u == d.schema[n].owner
    <3>1. CASE u \in held /\ storedPostgresIdentifier(OldName(u)) = n
      <4>1. u \in MgTenants /\ u # "none"
        BY <1>1, <3>1, MigrationsAssumption
      <4>2. Home(d, u) = n
        <5> HIDE DEF u
        <5> QED BY <3>1, <4>1, PastTenants
      <4> QED BY <4>1, <4>2
    <3>2. CASE d.schema[n] = Absent /\ \A t \in held : storedPostgresIdentifier(OldName(t)) # n
      <4>1. u = "none" /\ u \notin MgTenants
        BY <3>2, MigrationsAssumption DEF Absent
      <4>2. n \in Stable => \A t \in held : OldName(t) # n
        BY <3>2 DEF Stable, storedPostgresIdentifier
      <4>3. n \in Stable => d.version[n] = 0
        BY <4>2, PastVersions
      <4> QED BY <3>2, <4>1, <4>3
    <3> QED BY <1>2, <3>1, <3>2 DEF PastSchema
  <2> QED BY <2>1, <2>2 DEF DbOwned
<1>6. DbCounted(d)
  <2>1. ASSUME NEW n \in Stable
        PROVE  Applied(ListOf(n), d.schema[n], d.version[n])
    <3> DEFINE u == d.schema[n].owner
    <3>1. n \in Names /\ PastSchema(d, l, held, n) /\ (n # Global => ListOf(n) = TENANT_MIGRATIONS)
          /\ ListOf(Global) = PUBLIC_MIGRATIONS
      BY <1>2, FixedNames
    <3>2. CASE n = Global \/ n = Public
      BY <3>1, <3>2, FixedNames DEF PastSchema
    <3>3. CASE n \notin {Global, Public} /\ u \in held /\ storedPostgresIdentifier(OldName(u)) = n
               /\ PastApplies(l, d.schema[n])
      <4>1. OldName(u) = n
        <5> HIDE DEF u
        <5>1. u \in MgTenants
          BY <1>1, <3>3
        <5> QED BY <3>3, <5>1, FixedNames DEF storedPostgresIdentifier
      <4>2. d.version[n] = l.last - Cardinality(l.missing)
        <5> HIDE DEF u
        <5> QED BY <3>1, <3>3, <4>1, PastVersions
      <4> QED BY <3>1, <3>3, <4>2 DEF PastApplies
    <3>4. CASE n \notin {Global, Public} /\ d.schema[n] = Absent /\ \A t \in held : storedPostgresIdentifier(OldName(t)) # n
      <4>1. \A t \in held : OldName(t) # n
        BY <3>4 DEF Stable, storedPostgresIdentifier
      <4>2. d.version[n] = 0
        BY <3>1, <3>4, <4>1, PastVersions
      <4> QED BY <3>1, <3>4, <4>2, ContentOf
    <3> QED BY <3>1, <3>2, <3>3, <3>4 DEF PastSchema
  <2>2. ASSUME NEW t \in MgTenants, d.tenants[t] = <<"long", t>>, d.schema[Cut].owner = t
        PROVE  Applied(TENANT_MIGRATIONS, d.schema[Cut], Greater(d.version[<<"long", t>>], d.version[Cut]))
    <3>1. Cut \in Names /\ Cut \notin {Global, Public} /\ t # "none"
      BY FixedNames, MigrationsAssumption
    <3>2. t \in held /\ storedPostgresIdentifier(OldName(t)) = Cut /\ PastApplies(l, d.schema[Cut])
      <4>1. d.schema[Cut] # Absent
        BY <2>2, <3>1 DEF Absent
      <4> QED BY <1>2, <2>2, <3>1, <4>1 DEF PastSchema
    <3>3. OldName(t) = <<"long", t>> /\ <<"long", t>> \in Names \ {Global, Public}
      <4>1. OldName(t) = <<"long", t>>
        BY <2>2, <3>2, PastTenants
      <4> QED BY <4>1, NamesOf
    <3>4. d.version[<<"long", t>>] = l.last - Cardinality(l.missing)
      BY <3>2, <3>3, PastVersions
    <3>5. d.version[Cut] = 0
      <4>1. \A u \in held : OldName(u) # Cut
        BY <1>1, NamesOf
      <4> QED BY <3>1, <4>1, PastVersions
    <3>6. Greater(d.version[<<"long", t>>], d.version[Cut]) = l.last - Cardinality(l.missing)
      BY <3>2, <3>4, <3>5 DEF PastApplies, Greater
    <3> QED BY <3>2, <3>6 DEF PastApplies
  <2> QED BY <2>1, <2>2 DEF DbCounted
<1> QED BY <1>4, <1>5, <1>6 DEF DbOK

LEMMA StartsMigrated == MgInit => MgInv
<1> SUFFICES ASSUME MgInit PROVE MgInv
  OBVIOUS
<1>1. Slugged /\ mgTx = NoTx /\ mgServer = [s \in MgServers |-> At("down", NoSlug)]
  BY DEF MgInit, Slugged
<1>2. DbOK(mgDb)
  <2>1. PICK l \in PastLists, ids \in {"int", "text", "uuid"}, global \in {0, 2, 4},
             registered \in SUBSET MgTenants, held \in SUBSET MgTenants :
               held \subseteq registered /\ mgDb = PastDb(l, ids, global, registered, held)
    BY DEF MgInit
  <2>2. PastOf(mgDb, l, ids, global, registered, held)
    BY <2>1 DEF PastOf, Ids
  <2> QED BY <1>1, <2>2, PastIsOK
<1>3. ServersOK /\ ~Up
  BY <1>1 DEF ServersOK, Up, At
<1>4. TxOK
  BY <1>1 DEF TxOK
<1> QED BY <1>2, <1>3, <1>4 DEF MgInv

-----------------------------------------------------------------------------
(* The steps together.                                                     *)
LEMMA MigrationsStep == MgInv /\ [MgNext]_mgVars => MgInv'
<1> SUFFICES ASSUME MgInv, [MgNext]_mgVars PROVE MgInv'
  OBVIOUS
<1>1. CASE applyMigrations
  BY <1>1, MigrateKeeps
<1>2. CASE ListTenants
  BY <1>2, ListKeeps
<1>3. CASE RepairTenant
  BY <1>3, RepairKeeps
<1>4. CASE mirrorPlatformAdmins
  BY <1>4, MirrorKeeps
<1>5. CASE MigrationCommits
  BY <1>5, CommitKeeps
<1>6. ASSUME NEW s \in MgServers, StartUp(s) PROVE MgInv'
  BY <1>6, StartUpKeeps
<1>7. ASSUME NEW s \in MgServers, StartLock(s) PROVE MgInv'
  BY <1>7, LocksKeep
<1>8. ASSUME NEW s \in MgServers, ServerCrash(s) PROVE MgInv'
  BY <1>8, CrashKeeps
<1>9. ASSUME NEW s \in MgServers, CreateInsert(s) PROVE MgInv'
  BY <1>9, InsertKeeps
<1>10. ASSUME NEW s \in MgServers, createTenantSchema(s) PROVE MgInv'
  BY <1>10, CreateKeeps
<1>11. ASSUME NEW s \in MgServers, NEW t \in MgTenants, CreateCheck(s, t) PROVE MgInv'
  BY <1>11, CheckKeeps
<1>12. ASSUME NEW s \in MgServers, NEW t \in MgTenants, DeleteTenant(s, t) PROVE MgInv'
  BY <1>12, DeleteKeeps
<1>13. CASE UNCHANGED mgVars
  <2>1. mgDb' = mgDb /\ mgTx' = mgTx /\ mgServer' = mgServer /\ mgSlug' = mgSlug
    BY <1>13 DEF mgVars
  <2>2. ServersOK' /\ (Up' => Up)
    BY <2>1 DEF MgInv, ServersOK, Slugged, Up
  <2>3. mgTx # NoTx => mgServer'[mgTx.by].at \in {"waiting", "inserted"}
    BY <2>1, WithLock
  <2> QED BY <2>1, <2>2, <2>3, ServersMove DEF MgInv
<1> QED BY <1>1, <1>2, <1>3, <1>4, <1>5, <1>6, <1>7, <1>8, <1>9, <1>10, <1>11, <1>12, <1>13 DEF MgNext

LEMMA MigratedIsSafe == MgInv => MigrationsSafe
<1> SUFFICES ASSUME MgInv PROVE MigrationsSafe
  OBVIOUS
<1>1. Slugged /\ DbOK(mgDb) /\ DbTyped(mgDb) /\ DbOwned(mgDb)
  BY DEF MgInv, ServersOK, DbOK
<1>2. StartupSucceeds
  BY DEF MgInv, ServersOK, StartupSucceeds
<1>3. ReferencesKept
  BY <1>1 DEF DbTyped, ReferencesKept
<1>4. ASSUME Up PROVE Ready(mgDb) /\ Public \in Names
  BY <1>4, FixedNames DEF MgInv
<1>5. SchemasComplete
  <2> SUFFICES ASSUME Up PROVE SchemasComplete
    BY DEF SchemasComplete
  <2>1. Complete(mgDb, Public)
    BY <1>4 DEF Ready
  <2>2. ASSUME NEW t \in Registered(mgDb)
        PROVE  Complete(mgDb, mgDb.tenants[t]) /\ mgDb.schema[mgDb.tenants[t]].admins
    BY <1>4 DEF Ready, Housed
  <2> QED BY <2>1, <2>2 DEF SchemasComplete, Complete
<1>6. OwnSchema
  <2> SUFFICES ASSUME Up, NEW t \in Registered(mgDb)
               PROVE  {n \in Names : mgDb.schema[n].owner = t} = {mgDb.tenants[t]}
    BY DEF OwnSchema
  <2>1. t \in MgTenants /\ t \notin {"default", "platform", "none"}
    BY MigrationsAssumption DEF Registered
  <2>2. mgDb.tenants[t] = tenantSchemaName(t) /\ mgDb.schema[tenantSchemaName(t)].owner = t
        /\ Home(mgDb, t) = tenantSchemaName(t) /\ tenantSchemaName(t) \in Names
    <3>1. Housed(mgDb, t)
      BY <1>4 DEF Ready
    <3> QED BY <1>1, <2>1, <3>1, TenantNames, NamesOf DEF Housed
  <2>3. ASSUME NEW n \in Names, mgDb.schema[n].owner = t PROVE n = tenantSchemaName(t)
    <3>1. n \notin {Public, Global}
      BY <1>1, <2>1, <2>3 DEF DbOwned
    <3> QED BY <1>1, <2>1, <2>2, <2>3, <3>1 DEF DbOwned
  <2> QED BY <2>2, <2>3
<1> QED BY <1>2, <1>3, <1>5, <1>6 DEF MigrationsSafe

(* initDb and createTenantSchema: whichever past build left the database,  *)
(* and whatever start-ups, creations, deletions and crashes follow, while  *)
(* a server runs public and every registered tenant's schema holds every   *)
(* object of TENANT_MIGRATIONS and only that tenant's rows; a start-up     *)
(* gives up only over two registrations stored under one name, and columns *)
(* bound by a foreign key still name their rows.                           *)
THEOREM MigrationsStaySafe == MgSpec => []MigrationsSafe
<1>1. MgInv /\ [MgNext]_mgVars => MgInv'
  BY MigrationsStep
<1> QED BY StartsMigrated, <1>1, MigratedIsSafe, PTL DEF MgSpec
=============================================================================
