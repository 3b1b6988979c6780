---------------------- MODULE RegistryIndexing_proofs ----------------------
(***************************************************************************)
(* Proofs about the search index of the registry, for any number of tabs    *)
(* and entities, any size of a batch and any faults: what the index still   *)
(* has of an entity that is deleted.                                        *)
(***************************************************************************)
EXTENDS RegistryIndexing, RegistryEntities_proofs, FiniteSetTheorems,
        SequenceTheorems

-----------------------------------------------------------------------------
(* What a sequence has at some of its positions.                            *)

\* The rank of a position is its position among the chosen ones.
LEMMA RankFacts ==
    ASSUME NEW n \in Nat, NEW ks \in SUBSET (1..n)
    PROVE  /\ Cardinality(ks) \in Nat
           /\ \A k \in ks : Rank(ks, k) \in 1..Cardinality(ks)
           /\ \A j, k \in ks : j < k => Rank(ks, j) < Rank(ks, k)
           /\ \A m \in 1..Cardinality(ks) : \E k \in ks : Rank(ks, k) = m
<1> DEFINE upto(k) == {j \in ks : j <= k}
           size == Cardinality(ks)
<1>1. IsFiniteSet(ks) /\ size \in Nat
  <2>1. IsFiniteSet(1..n)
      BY FS_Interval
  <2>2. IsFiniteSet(ks)
      BY <2>1, FS_Subset
  <2> QED
      BY <2>2, FS_CardinalityType
<1>2. ASSUME NEW k \in ks
      PROVE  IsFiniteSet(upto(k)) /\ Cardinality(upto(k)) \in 1..size
  <2>0. upto(k) \subseteq ks /\ k \in upto(k)
      OBVIOUS
  <2> HIDE DEF upto
  <2>1. IsFiniteSet(upto(k)) /\ Cardinality(upto(k)) <= Cardinality(ks)
      BY <1>1, <2>0, FS_Subset
  <2>2. Cardinality(upto(k)) \in Nat /\ Cardinality(upto(k)) # 0
      BY <2>0, <2>1, FS_CardinalityType, FS_EmptySet
  <2> QED
      BY <1>1, <2>1, <2>2
<1>3. ASSUME NEW j \in ks, NEW k \in ks, j < k
      PROVE  Cardinality(upto(j)) < Cardinality(upto(k))
  <2>0. \A i \in ks : i \in Int
      OBVIOUS
  <2>1. upto(j) \subseteq upto(k) \ {k} /\ k \in upto(k)
    <3>1. \A i \in ks : i <= j => i <= k /\ i # k
        BY <1>3, <2>0
    <3>2. k <= k
        BY <2>0
    <3> QED
        BY <3>1, <3>2
  <2>2. IsFiniteSet(upto(k)) /\ Cardinality(upto(k)) \in Nat /\ Cardinality(upto(j)) \in Nat
      BY <1>1, <1>2
  <2> HIDE DEF upto
  <2>3. /\ IsFiniteSet(upto(k) \ {k})
        /\ Cardinality(upto(k) \ {k}) = Cardinality(upto(k)) - 1
      BY <2>1, <2>2, FS_RemoveElement
  <2>4. Cardinality(upto(j)) <= Cardinality(upto(k) \ {k})
      BY <2>1, <2>3, FS_Subset
  <2> QED
      BY <2>2, <2>3, <2>4
<1>4. ASSUME NEW m \in 1..size PROVE \E k \in ks : Cardinality(upto(k)) = m
  <2> DEFINE rank == [k \in ks |-> Cardinality(upto(k))]
  <2>1. rank \in [ks -> 1..size]
      BY <1>2
  <2>2. \A j, k \in ks : rank[j] = rank[k] => j = k
    <3> SUFFICES ASSUME NEW j \in ks, NEW k \in ks, j # k PROVE rank[j] # rank[k]
        OBVIOUS
    <3>1. j < k \/ k < j
        OBVIOUS
    <3>2. rank[j] \in Nat /\ rank[k] \in Nat
        BY <1>1, <1>2
    <3>3. rank[j] < rank[k] \/ rank[k] < rank[j]
        BY <1>3, <3>1
    <3> QED
        BY <3>2, <3>3
  <2>3. \E k \in ks : rank[k] = m
    <3> HIDE DEF rank
    <3>1. rank \in Injection(ks, 1..size)
        BY <2>1, <2>2 DEF Injection, IsInjective
    <3>2. IsFiniteSet(1..size) /\ Cardinality(1..size) = Cardinality(ks)
        BY <1>1, FS_Interval
    <3>3. rank \in Surjection(ks, 1..size)
        BY <1>1, <3>1, <3>2, FS_Injection
    <3> QED
        BY <3>3 DEF Surjection
  <2> QED
      BY <2>3
<1> QED
    BY <1>1, <1>2, <1>3, <1>4 DEF Rank

\* What is at the chosen positions, in their order, and nothing else.
LEMMA AtFacts ==
    ASSUME NEW X, NEW s \in Seq(X), NEW ks \in SUBSET DOMAIN s
    PROVE  /\ At(s, ks) \in Seq(X)
           /\ \A k \in ks : /\ Rank(ks, k) \in DOMAIN At(s, ks)
                            /\ At(s, ks)[Rank(ks, k)] = s[k]
           /\ \A m \in DOMAIN At(s, ks) : \E k \in ks : m = Rank(ks, k)
           /\ \A j, k \in ks : j < k <=> Rank(ks, j) < Rank(ks, k)
<1>1. Len(s) \in Nat /\ ks \in SUBSET (1..Len(s))
    OBVIOUS
<1>2. /\ Cardinality(ks) \in Nat
      /\ \A k \in ks : Rank(ks, k) \in 1..Cardinality(ks)
      /\ \A j, k \in ks : j < k => Rank(ks, j) < Rank(ks, k)
      /\ \A m \in 1..Cardinality(ks) : \E k \in ks : Rank(ks, k) = m
    BY <1>1, RankFacts
<1> DEFINE pick(m) == CHOOSE k \in ks : Rank(ks, k) = m
<1>3. \A m \in 1..Cardinality(ks) : pick(m) \in ks /\ Rank(ks, pick(m)) = m
    BY <1>2
<1>4. \A j, k \in ks : j < k <=> Rank(ks, j) < Rank(ks, k)
  <2> SUFFICES ASSUME NEW j \in ks, NEW k \in ks
               PROVE  j < k <=> Rank(ks, j) < Rank(ks, k)
      OBVIOUS
  <2>1. j < k \/ j = k \/ k < j
      BY <1>1
  <2>2. Rank(ks, j) \in Nat /\ Rank(ks, k) \in Nat
      BY <1>2
  <2>3. (k < j => Rank(ks, k) < Rank(ks, j)) /\ (j < k => Rank(ks, j) < Rank(ks, k))
      BY <1>2
  <2>4. ~(j < k /\ k < j) /\ ~(j < k /\ j = k)
      BY <1>1
  <2> QED
      BY <2>1, <2>2, <2>3, <2>4
<1>5. \A k \in ks : pick(Rank(ks, k)) = k
  <2> SUFFICES ASSUME NEW k \in ks PROVE pick(Rank(ks, k)) = k
      OBVIOUS
  <2>1. pick(Rank(ks, k)) \in ks /\ Rank(ks, pick(Rank(ks, k))) = Rank(ks, k)
      BY <1>2, <1>3
  <2> HIDE DEF pick
  <2>2. ~(pick(Rank(ks, k)) < k) /\ ~(k < pick(Rank(ks, k)))
      BY <1>2, <1>4, <2>1
  <2> QED
      BY <1>1, <2>1, <2>2
<1>6. At(s, ks) = [m \in 1..Cardinality(ks) |-> s[pick(m)]]
    BY DEF At
<1> HIDE DEF pick
<1>7. \A m \in 1..Cardinality(ks) : s[pick(m)] \in X
    BY <1>1, <1>3
<1> QED
    BY <1>2, <1>3, <1>4, <1>5, <1>6, <1>7

-----------------------------------------------------------------------------
(* Whether a sequence has i, and whether every i in it is followed by a j.  *)

Has(s, i) == \E k \in DOMAIN s : s[k] = i
Covered(s, i, j) ==
    \A k \in DOMAIN s : s[k] = i => \E l \in DOMAIN s : k < l /\ s[l] = j

\* Nothing comes in.
LEMMA AtHas ==
    ASSUME NEW X, NEW s \in Seq(X), NEW ks \in SUBSET DOMAIN s, NEW i
    PROVE  /\ At(s, ks) \in Seq(X)
           /\ Has(At(s, ks), i) => \E k \in ks : s[k] = i
<1>1. /\ At(s, ks) \in Seq(X)
      /\ \A k \in ks : At(s, ks)[Rank(ks, k)] = s[k]
      /\ \A m \in DOMAIN At(s, ks) : \E k \in ks : m = Rank(ks, k)
    BY AtFacts
<1> QED
    BY <1>1 DEF Has

\* Leaving out other things than j.
LEMMA AtKeeps ==
    ASSUME NEW X, NEW s \in Seq(X), NEW ks \in SUBSET DOMAIN s, NEW i, NEW j,
           \A k \in DOMAIN s : s[k] = j => k \in ks
    PROVE  /\ Has(s, j) => Has(At(s, ks), j)
           /\ Covered(s, i, j) => Covered(At(s, ks), i, j)
<1> DEFINE r == At(s, ks)
           rank(k) == Rank(ks, k)
<1>1. /\ r \in Seq(X)
      /\ \A k \in ks : rank(k) \in DOMAIN r /\ r[rank(k)] = s[k]
      /\ \A m \in DOMAIN r : \E k \in ks : m = rank(k)
      /\ \A k, l \in ks : k < l <=> rank(k) < rank(l)
    BY AtFacts
<1> HIDE DEF r, rank
<1>2. Has(s, j) => Has(r, j)
    BY <1>1 DEF Has
<1>3. ASSUME Covered(s, i, j), NEW m \in DOMAIN r, r[m] = i
      PROVE  \E l \in DOMAIN r : m < l /\ r[l] = j
  <2>1. PICK k \in ks : m = rank(k)
      BY <1>1
  <2>2. k \in DOMAIN s /\ s[k] = i
      BY <1>1, <1>3, <2>1
  <2>3. PICK l \in DOMAIN s : k < l /\ s[l] = j
      BY <1>3, <2>2 DEF Covered
  <2>4. l \in ks
      BY <2>3
  <2>5. rank(l) \in DOMAIN r /\ m < rank(l) /\ r[rank(l)] = j
      BY <1>1, <2>1, <2>3, <2>4
  <2> QED
      BY <2>5
<1> QED
    BY <1>2, <1>3 DEF r, Covered

\* One more at the end.
LEMMA AppendKeeps ==
    ASSUME NEW X, NEW s \in Seq(X), NEW x \in X, NEW i, NEW j
    PROVE  /\ Append(s, x) \in Seq(X)
           /\ Has(Append(s, x), i) <=> Has(s, i) \/ x = i
           /\ x # i /\ Covered(s, i, j) => Covered(Append(s, x), i, j)
           /\ x = j /\ i # j => Covered(Append(s, x), i, j)
<1> DEFINE r == Append(s, x)
           n == Len(s) + 1
<1>1. Len(s) \in Nat /\ DOMAIN s = 1..Len(s)
    OBVIOUS
<1>2. /\ r \in Seq(X) /\ DOMAIN r = 1..n
      /\ \A k \in DOMAIN s : r[k] = s[k]
      /\ r[n] = x
    OBVIOUS
<1>3. \A k \in DOMAIN r : k \in DOMAIN s \/ k = n
    BY <1>1, <1>2
<1>4. n \in DOMAIN r /\ \A k \in DOMAIN s : k \in DOMAIN r /\ k < n
    BY <1>1, <1>2
<1> HIDE DEF r, n
<1>5. Has(r, i) <=> Has(s, i) \/ x = i
    BY <1>2, <1>3, <1>4 DEF Has
<1>6. x # i /\ Covered(s, i, j) => Covered(r, i, j)
    BY <1>2, <1>3, <1>4 DEF Covered
<1>7. x = j /\ i # j => Covered(r, i, j)
    BY <1>2, <1>3, <1>4 DEF Covered
<1> QED
    BY <1>2, <1>5, <1>6, <1>7 DEF r

-----------------------------------------------------------------------------
(* Items.                                                                   *)

LEMMA ItemFacts ==
    /\ \A e \in Entity : Upsert(e) \in Item /\ Tombstone(e) \in Item
    /\ \A i \in Item : i.id \in Entity /\ (i = Upsert(i.id) \/ i = Tombstone(i.id))
    /\ \A i \in Item : i.kind = "upsert" <=> i = Upsert(i.id)
    /\ \A i \in Item : i.kind = "tombstone" <=> i = Tombstone(i.id)
    /\ \A e, d : Upsert(e) # Tombstone(d)
    /\ \A e, d : Upsert(e) = Upsert(d) => e = d
    /\ \A e, d : Tombstone(e) = Tombstone(d) => e = d
    /\ \A e : Upsert(e).id = e /\ Upsert(e).kind = "upsert"
    /\ \A e : Tombstone(e).id = e /\ Tombstone(e).kind = "tombstone"
<1>1. \A e : Upsert(e).id = e /\ Upsert(e).kind = "upsert"
    BY DEF Upsert
<1>2. \A e : Tombstone(e).id = e /\ Tombstone(e).kind = "tombstone"
    BY DEF Tombstone
<1>3. \A i \in Item : i.id \in Entity /\ (i.kind = "upsert" \/ i.kind = "tombstone")
    BY DEF Item
<1>4. \A i \in Item : i = [kind |-> i.kind, id |-> i.id]
    BY DEF Item
<1>5. \A i \in Item : /\ i.kind = "upsert" => i = Upsert(i.id)
                      /\ i.kind = "tombstone" => i = Tombstone(i.id)
    BY <1>4 DEF Upsert, Tombstone
<1>6. \A e \in Entity : Upsert(e) \in Item /\ Tombstone(e) \in Item
    BY DEF Item, Upsert, Tombstone
<1> QED
    BY <1>1, <1>2, <1>3, <1>5, <1>6

\* The ids of a batch's upserts and tombstones, by what the batch holds.
LEMMA IdsFacts ==
    ASSUME batch \in Seq(Change)
    PROVE  /\ \A e : e \in Ids("upsert") <=> BatchHolds(Upsert(e))
           /\ \A e : e \in Ids("tombstone") <=> BatchHolds(Tombstone(e))
           /\ Ids("upsert") \subseteq Entity /\ Ids("tombstone") \subseteq Entity
<1>1. \A k \in DOMAIN batch : batch[k] \in Change
    OBVIOUS
<1>2. \A k \in DOMAIN batch : batch[k].item \in Item
    BY <1>1 DEF Change
<1>3. ASSUME NEW e PROVE e \in Ids("upsert") <=> BatchHolds(Upsert(e))
    BY <1>2, ItemFacts DEF Ids, BatchHolds
<1>4. ASSUME NEW e PROVE e \in Ids("tombstone") <=> BatchHolds(Tombstone(e))
    BY <1>2, ItemFacts DEF Ids, BatchHolds
<1>5. Ids("upsert") \subseteq Entity /\ Ids("tombstone") \subseteq Entity
    BY <1>2, ItemFacts DEF Ids
<1> QED
    BY <1>3, <1>4, <1>5

LEMMA ReadingFacts ==
    ASSUME RegistryTypeOK
    PROVE  /\ \A i \in Item : Reading(i) \in Change /\ Reading(i).item = i
           /\ \A c \in Change : c.item \in Item /\ c.etag \in 0..MaxVersion
<1>1. \A e \in Entity : store[e].etag \in 0..MaxVersion
  <2> SUFFICES ASSUME NEW e \in Entity PROVE store[e].etag \in 0..MaxVersion
      OBVIOUS
  <2>1. store[e] \in Document \/ store[e] = Absent
      BY DEF RegistryTypeOK
  <2>2. store[e] \in Document => store[e].etag \in 0..MaxVersion
      BY VersionsAssumption DEF Document
  <2>3. Absent.etag \in 0..MaxVersion
      BY VersionsAssumption DEF Absent
  <2> QED
      BY <2>1, <2>2, <2>3
<1>2. \A i \in Item : Reading(i) \in Change /\ Reading(i).item = i
    BY <1>1, ItemFacts DEF Reading, Change
<1> QED
    BY <1>2 DEF Change

-----------------------------------------------------------------------------
(* Steps of the indexer: no document and no tab changes.                    *)

\* What such a step must do about every entity.
LEMMA IndexerFrame ==
    ASSUME IndexIInv, RegistryIInv', UNCHANGED vars,
           feed' \in Seq(Item), index' \in [Entity -> 0..MaxVersion],
           batch' \in Seq(Change), step' \in {"idle", "upsert", "delete", "done"},
           faults' \in 0..MaxFaults, spoiled' \subseteq Entity,
           BatchConsistent',
           \A e \in Entity : DeletedConsistent(e)',
           \A e \in Entity : Followed(e) \/ e \in spoiled
                                 => Followed(e)' \/ e \in spoiled'
    PROVE  IndexIInv'
<1>1. TypeOK'
    BY DEF RegistryIInv, TypeOK
<1>2. ASSUME NEW t \in Tab PROVE DeleteConsistent(t)'
  <2>1. DeleteConsistent(t) /\ RegistryTypeOK
      BY DEF IndexIInv, TypeOK
  <2>2. tab' = tab /\ last' = last /\ store' = store /\ since' = since
      BY DEF vars
  <2>3. tab[t].at \in {"checked", "tombstoned"} => tab[t].id \in Entity
      BY <2>1 DEF RegistryTypeOK, Page
  <2> QED
      BY <2>1, <2>2, <2>3 DEF DeleteConsistent, Exists, IfMatch
<1> QED
    BY <1>1, <1>2 DEF IndexIInv

LEMMA FaultType ==
    ASSUME faults \in 0..MaxFaults, NEW kind, Fault(kind)
    PROVE  faults' \in 0..MaxFaults
    BY BatchAssumption DEF Fault

\* The first items of the feed move to the batch.
LEMMA PollKeeps ==
    ASSUME IndexIInv, RegistryIInv', Poll
    PROVE  IndexIInv'
<1>1. /\ TypeOK /\ BatchConsistent /\ \A e \in Entity : DeletedConsistent(e)
      /\ RegistryTypeOK /\ feed \in Seq(Item)
    BY DEF IndexIInv, TypeOK
<1>2. batch = <<>>
    BY <1>1 DEF Poll, BatchConsistent
<1>3. PICK n \in 1..BatchSize :
          /\ n <= Len(feed)
          /\ batch' = [k \in 1..n |-> Reading(feed[k])]
          /\ feed' = SubSeq(feed, n + 1, Len(feed))
    BY DEF Poll
<1>4. /\ UNCHANGED vars /\ index' = index /\ faults' = faults /\ spoiled' = spoiled
      /\ step' = "upsert" /\ store' = store
    BY DEF Poll, vars
<1>5. n \in Nat \ {0} /\ Len(feed) \in Nat /\ DOMAIN feed = 1..Len(feed)
    BY <1>1, BatchAssumption
<1>6. /\ feed' \in Seq(Item) /\ DOMAIN feed' = 1..(Len(feed) - n)
      /\ \A k \in DOMAIN feed' : feed'[k] = feed[n + k]
    BY <1>1, <1>3, <1>5
<1>7. \A k \in DOMAIN feed : feed[k] \in Item
    BY <1>1
<1>8. /\ batch' \in Seq(Change) /\ DOMAIN batch' = 1..n
      /\ \A k \in 1..n : k \in DOMAIN feed /\ batch'[k].item = feed[k]
  <2>1. \A k \in 1..n : k \in DOMAIN feed
      BY <1>3, <1>5
  <2>2. \A k \in 1..n : Reading(feed[k]) \in Change /\ Reading(feed[k]).item = feed[k]
      BY <1>1, <1>7, <2>1, ReadingFacts
  <2> QED
      BY <1>3, <1>5, <2>1, <2>2
\* Where an item of the feed is after the step.
<1>9. \A k \in DOMAIN feed : \/ k \in 1..n
                             \/ k - n \in DOMAIN feed' /\ feed'[k - n] = feed[k]
    BY <1>5, <1>6
<1>10. ASSUME NEW e \in Entity
       PROVE  /\ FeedHolds(Upsert(e))' => FeedHolds(Upsert(e))
              /\ BatchHolds(Upsert(e))' => FeedHolds(Upsert(e))
              /\ FeedHolds(Tombstone(e)) => Dying(e)'
              /\ Dying(e) => Dying(e)'
  <2>1. FeedHolds(Upsert(e))' => FeedHolds(Upsert(e))
    <3>1. \A k \in DOMAIN feed' : n + k \in DOMAIN feed
        BY <1>5, <1>6
    <3> QED
        BY <1>6, <3>1 DEF FeedHolds
  <2>2. BatchHolds(Upsert(e))' => FeedHolds(Upsert(e))
      BY <1>8 DEF FeedHolds, BatchHolds
  <2>3. FeedHolds(Tombstone(e)) => Dying(e)'
      BY <1>8, <1>9 DEF FeedHolds, BatchHolds, Dying
  <2>4. ~BatchHolds(Tombstone(e))
      BY <1>2 DEF BatchHolds
  <2> QED
      BY <2>1, <2>2, <2>3, <2>4 DEF Dying
<1>11. ASSUME NEW e \in Entity PROVE DeletedConsistent(e)'
  <2>1. DeletedConsistent(e)
      BY <1>1
  <2> QED
      BY <1>4, <1>10, <2>1 DEF DeletedConsistent, Exists
<1>12. ASSUME NEW e \in Entity, Followed(e) PROVE Followed(e)'
  <2>1. ASSUME NEW k \in DOMAIN feed', feed'[k] = Upsert(e)
        PROVE  \E j \in DOMAIN feed' : k < j /\ feed'[j] = Tombstone(e)
    <3>1. n + k \in DOMAIN feed /\ feed[n + k] = Upsert(e) /\ k \in Nat \ {0}
        BY <1>5, <1>6, <2>1
    <3>2. PICK j \in DOMAIN feed : n + k < j /\ feed[j] = Tombstone(e)
        BY <1>12, <3>1 DEF Followed
    <3>3. ~(j \in 1..n) /\ k < j - n
        BY <1>5, <3>1, <3>2
    <3> QED
        BY <1>9, <3>2, <3>3
  <2>2. ASSUME NEW k \in DOMAIN batch', batch'[k] = Reading(Upsert(e))'
        PROVE  \/ \E j \in DOMAIN batch' : k < j /\ batch'[j].item = Tombstone(e)
               \/ FeedHolds(Tombstone(e))'
    <3>1. Reading(Upsert(e))'.item = Upsert(e)
        BY DEF Reading
    <3>2. k \in DOMAIN feed /\ feed[k] = Upsert(e)
        BY <1>8, <2>2, <3>1
    <3>3. PICK j \in DOMAIN feed : k < j /\ feed[j] = Tombstone(e)
        BY <1>12, <3>2 DEF Followed
    <3>4. CASE j \in 1..n
        BY <1>8, <3>3, <3>4
    <3>5. CASE j - n \in DOMAIN feed' /\ feed'[j - n] = feed[j]
        BY <3>3, <3>5 DEF FeedHolds
    <3> QED
        BY <1>9, <3>4, <3>5
  <2>3. index'[e] # 0 \/ BatchHolds(Upsert(e))' => Dying(e)'
    <3>1. FeedHolds(Upsert(e)) => FeedHolds(Tombstone(e))
        BY <1>12 DEF Followed, FeedHolds
    <3>2. index[e] # 0 => Dying(e)
        BY <1>12 DEF Followed
    <3> QED
        BY <1>4, <1>10, <3>1, <3>2
  <2> QED
      BY <2>1, <2>2, <2>3 DEF Followed
<1>13. BatchConsistent'
    BY <1>4 DEF BatchConsistent
<1>14. /\ index' \in [Entity -> 0..MaxVersion] /\ faults' \in 0..MaxFaults
       /\ spoiled' \subseteq Entity
    BY <1>1, <1>4 DEF TypeOK
<1> QED
    BY <1>4, <1>6, <1>8, <1>11, <1>12, <1>13, <1>14, IndexerFrame

\* The feed and the batch stay as they are, the index gets upserts of the batch
\* or loses entries, and more may be spoiled.
LEMMA SameBatchKeeps ==
    ASSUME IndexIInv, NEW e \in Entity, store' = store,
           feed' = feed, batch' = batch, spoiled \subseteq spoiled',
           index'[e] # 0 => index[e] # 0 \/ BatchHolds(Upsert(e))
    PROVE  /\ DeletedConsistent(e)'
           /\ Followed(e) \/ e \in spoiled => Followed(e)' \/ e \in spoiled'
<1>1. DeletedConsistent(e)
    BY DEF IndexIInv
<1>2. /\ \A i : FeedHolds(i)' <=> FeedHolds(i)
      /\ \A i : BatchHolds(i)' <=> BatchHolds(i)
      /\ Dying(e)' <=> Dying(e)
      /\ Exists(e)' <=> Exists(e)
    BY DEF FeedHolds, BatchHolds, Dying, Exists
<1>3. DeletedConsistent(e)'
    BY <1>1, <1>2 DEF DeletedConsistent
<1>4. Followed(e) => Followed(e)'
  <2>1. Reading(Upsert(e))' = Reading(Upsert(e))
      BY DEF Reading
  <2> QED
      BY <1>2, <2>1 DEF Followed
<1> QED
    BY <1>3, <1>4

LEMMA MergeOrUploadKeeps ==
    ASSUME IndexIInv, RegistryIInv', NEW rejected, MergeOrUpload(rejected),
           faults' \in 0..MaxFaults
    PROVE  IndexIInv'
<1>1. /\ TypeOK /\ RegistryTypeOK /\ batch \in Seq(Change) /\ feed \in Seq(Item)
      /\ index \in [Entity -> 0..MaxVersion] /\ spoiled \subseteq Entity
    BY DEF IndexIInv, TypeOK
<1>2. /\ UNCHANGED vars /\ feed' = feed /\ batch' = batch /\ store' = store
      /\ spoiled' = spoiled \cup rejected /\ step' = "delete"
      /\ rejected \subseteq Ids("upsert")
      /\ index' = [e \in Entity |-> IF e \in Ids("upsert") \ rejected
                                    THEN VersionRead(e) ELSE index[e]]
    BY DEF MergeOrUpload, vars
<1>3. \A e \in Ids("upsert") : VersionRead(e) \in 0..MaxVersion
  <2> SUFFICES ASSUME NEW e \in Ids("upsert") PROVE VersionRead(e) \in 0..MaxVersion
      OBVIOUS
  <2>1. \E k \in DOMAIN batch : batch[k].item.id = e /\ batch[k].item.kind = "upsert"
      BY DEF Ids
  <2>2. \A k \in DOMAIN batch : batch[k] \in Change /\ batch[k].etag \in 0..MaxVersion
      BY <1>1, ReadingFacts
  <2> QED
      BY <2>1, <2>2 DEF VersionRead
<1>4. index' \in [Entity -> 0..MaxVersion]
    BY <1>1, <1>2, <1>3
<1>5. spoiled' \subseteq Entity /\ spoiled \subseteq spoiled'
    BY <1>1, <1>2, IdsFacts
<1>6. \A e \in Entity : index'[e] # 0 => index[e] # 0 \/ BatchHolds(Upsert(e))
    BY <1>1, <1>2, IdsFacts
<1>7. \A e \in Entity :
          /\ DeletedConsistent(e)'
          /\ Followed(e) \/ e \in spoiled => Followed(e)' \/ e \in spoiled'
    BY <1>2, <1>5, <1>6, SameBatchKeeps
<1>8. BatchConsistent'
    BY <1>2 DEF BatchConsistent
<1> QED
    BY <1>1, <1>2, <1>4, <1>5, <1>7, <1>8, IndexerFrame

\* A document that the service does not delete is spoiled.
LEMMA DeleteDocumentsKeeps ==
    ASSUME IndexIInv, RegistryIInv', NEW rejected, DeleteDocuments(rejected),
           faults' \in 0..MaxFaults
    PROVE  IndexIInv'
<1>1. /\ TypeOK /\ batch \in Seq(Change) /\ feed \in Seq(Item)
      /\ index \in [Entity -> 0..MaxVersion] /\ spoiled \subseteq Entity
    BY DEF IndexIInv, TypeOK
<1>2. /\ UNCHANGED vars /\ feed' = feed /\ batch' = batch /\ store' = store
      /\ spoiled' = spoiled \cup Undone \cup rejected /\ step' = "done"
      /\ rejected \subseteq Ids("tombstone")
      /\ index' = [e \in Entity |-> IF e \in Ids("tombstone") \ rejected
                                    THEN 0 ELSE index[e]]
    BY DEF DeleteDocuments, vars
<1>3. index' \in [Entity -> 0..MaxVersion]
    BY <1>1, <1>2, VersionsAssumption
<1>4. spoiled' \subseteq Entity /\ spoiled \subseteq spoiled'
    BY <1>1, <1>2, IdsFacts DEF Undone
<1>5. \A e \in Entity :
          /\ DeletedConsistent(e)'
          /\ Followed(e) \/ e \in spoiled => Followed(e)' \/ e \in spoiled'
    BY <1>2, <1>4, SameBatchKeeps
<1>6. BatchConsistent'
  <2>1. Ids("tombstone")' = Ids("tombstone")
      BY <1>2 DEF Ids
  <2>2. \A e \in Ids("tombstone") : index'[e] = 0 \/ e \in spoiled'
      BY <1>1, <1>2, IdsFacts
  <2> QED
      BY <1>2, <2>1, <2>2 DEF BatchConsistent
<1> QED
    BY <1>1, <1>2, <1>3, <1>4, <1>5, <1>6, IndexerFrame

LEMMA ThrowKeeps ==
    ASSUME IndexIInv, RegistryIInv', Throw
    PROVE  IndexIInv'
<1>1. /\ TypeOK /\ batch \in Seq(Change) /\ feed \in Seq(Item)
      /\ index \in [Entity -> 0..MaxVersion] /\ spoiled \subseteq Entity
      /\ faults \in 0..MaxFaults
    BY DEF IndexIInv, TypeOK
<1>2. /\ UNCHANGED vars /\ feed' = feed /\ batch' = batch /\ store' = store
      /\ spoiled' = spoiled /\ step' = "upsert" /\ index' = index
    BY DEF Throw, Rethrown, vars
<1>3. faults' \in 0..MaxFaults
    BY <1>1, FaultType DEF Throw
<1>4. \A e \in Entity :
          /\ DeletedConsistent(e)'
          /\ Followed(e) \/ e \in spoiled => Followed(e)' \/ e \in spoiled'
    BY <1>2, SameBatchKeeps
<1>5. BatchConsistent'
    BY <1>2 DEF BatchConsistent
<1> QED
    BY <1>1, <1>2, <1>3, <1>4, <1>5, IndexerFrame

\* What the host gives up is spoiled.
LEMMA GiveUpKeeps ==
    ASSUME IndexIInv, RegistryIInv', GiveUp
    PROVE  IndexIInv'
<1>1. /\ TypeOK /\ batch \in Seq(Change) /\ feed \in Seq(Item)
      /\ index \in [Entity -> 0..MaxVersion] /\ spoiled \subseteq Entity
      /\ faults \in 0..MaxFaults
    BY DEF IndexIInv, TypeOK
<1>2. /\ UNCHANGED vars /\ feed' = feed /\ batch' = batch /\ store' = store
      /\ step' = "done" /\ index' = index
      /\ spoiled' = spoiled \cup Ids("tombstone")
                        \cup (IF step = "upsert" THEN Ids("upsert") ELSE {})
    BY DEF GiveUp, vars
<1>3. faults' \in 0..MaxFaults
    BY <1>1, FaultType DEF GiveUp
<1>4. spoiled' \subseteq Entity /\ spoiled \subseteq spoiled'
    BY <1>1, <1>2, IdsFacts
<1>5. \A e \in Entity :
          /\ DeletedConsistent(e)'
          /\ Followed(e) \/ e \in spoiled => Followed(e)' \/ e \in spoiled'
    BY <1>2, <1>4, SameBatchKeeps
<1>6. BatchConsistent'
  <2>1. Ids("tombstone")' = Ids("tombstone")
      BY <1>2 DEF Ids
  <2> QED
      BY <1>2, <2>1 DEF BatchConsistent
<1> QED
    BY <1>1, <1>2, <1>3, <1>4, <1>5, <1>6, IndexerFrame

\* A finished batch leaves no entity in the index for which it had a tombstone.
LEMMA CheckpointKeeps ==
    ASSUME IndexIInv, RegistryIInv', Checkpoint
    PROVE  IndexIInv'
<1>1. /\ TypeOK /\ BatchConsistent /\ batch \in Seq(Change) /\ feed \in Seq(Item)
      /\ index \in [Entity -> 0..MaxVersion] /\ spoiled \subseteq Entity
      /\ faults \in 0..MaxFaults
    BY DEF IndexIInv, TypeOK
<1>2. /\ UNCHANGED vars /\ feed' = feed /\ batch' = <<>> /\ store' = store
      /\ spoiled' = spoiled /\ step = "done" /\ step' = "idle" /\ index' = index
      /\ faults' = faults
    BY DEF Checkpoint, vars
<1>3. ASSUME NEW e \in Entity
      PROVE  /\ BatchHolds(Tombstone(e)) => index[e] = 0 \/ e \in spoiled
             /\ ~BatchHolds(Upsert(e))'
             /\ \A i : FeedHolds(i)' <=> FeedHolds(i)
  <2>1. BatchHolds(Tombstone(e)) => index[e] = 0 \/ e \in spoiled
      BY <1>1, <1>2, IdsFacts DEF BatchConsistent
  <2>2. ~BatchHolds(Upsert(e))'
      BY <1>2 DEF BatchHolds
  <2> QED
      BY <1>2, <2>1, <2>2 DEF FeedHolds
<1>4. ASSUME NEW e \in Entity PROVE DeletedConsistent(e)'
  <2>1. DeletedConsistent(e)
      BY DEF IndexIInv
  <2> QED
      BY <1>2, <1>3, <2>1 DEF DeletedConsistent, Dying, Exists
<1>5. ASSUME NEW e \in Entity, Followed(e) \/ e \in spoiled
      PROVE  Followed(e)' \/ e \in spoiled'
  <2> SUFFICES ASSUME Followed(e), e \notin spoiled PROVE Followed(e)'
      BY <1>2, <1>5
  <2>1. \A k \in DOMAIN feed' : feed'[k] = Upsert(e) =>
            \E j \in DOMAIN feed' : k < j /\ feed'[j] = Tombstone(e)
      BY <1>2 DEF Followed
  <2>2. DOMAIN batch' = {}
      BY <1>2
  <2>3. index'[e] # 0 => Dying(e)'
      BY <1>2, <1>3 DEF Followed, Dying
  <2> QED
      BY <1>3, <2>1, <2>2, <2>3 DEF Followed
<1>6. BatchConsistent' /\ batch' \in Seq(Change)
    BY <1>2 DEF BatchConsistent
<1> QED
    BY <1>1, <1>2, <1>4, <1>5, <1>6, IndexerFrame

\* A tombstone goes, and its entity is spoiled.
LEMMA TombstoneExpiresKeeps ==
    ASSUME IndexIInv, RegistryIInv', TombstoneExpires
    PROVE  IndexIInv'
<1>1. /\ TypeOK /\ BatchConsistent /\ batch \in Seq(Change) /\ feed \in Seq(Item)
      /\ index \in [Entity -> 0..MaxVersion] /\ spoiled \subseteq Entity
      /\ faults \in 0..MaxFaults /\ step \in {"idle", "upsert", "delete", "done"}
    BY DEF IndexIInv, TypeOK
<1>2. PICK x \in DOMAIN feed :
          /\ feed[x].kind = "tombstone"
          /\ feed' = At(feed, DOMAIN feed \ {x})
          /\ spoiled' = spoiled \cup {feed[x].id}
    BY DEF TombstoneExpires
<1>3. /\ UNCHANGED vars /\ batch' = batch /\ store' = store /\ step' = step
      /\ index' = index
    BY DEF TombstoneExpires, vars
<1>4. faults' \in 0..MaxFaults
    BY <1>1, FaultType DEF TombstoneExpires
<1> DEFINE d == feed[x].id
<1>5. feed[x] \in Item /\ d \in Entity /\ feed[x] = Tombstone(d)
    BY <1>1, <1>2, ItemFacts
<1>6. spoiled' \subseteq Entity /\ spoiled \subseteq spoiled' /\ d \in spoiled'
    BY <1>1, <1>2, <1>5
<1> HIDE DEF d
<1>7. ASSUME NEW e \in Entity
      PROVE  /\ feed' \in Seq(Item)
             /\ FeedHolds(Upsert(e))' => FeedHolds(Upsert(e))
             /\ e # d => /\ Dying(e) => Dying(e)'
                         /\ FeedHolds(Tombstone(e)) => FeedHolds(Tombstone(e))'
                         /\ Covered(feed, Upsert(e), Tombstone(e)) =>
                                Covered(feed', Upsert(e), Tombstone(e))
  <2>1. e # d => \A k \in DOMAIN feed : feed[k] = Tombstone(e) => k \in DOMAIN feed \ {x}
      BY <1>5, ItemFacts
  <2>2. feed' \in Seq(Item) /\ (Has(feed', Upsert(e)) => Has(feed, Upsert(e)))
    <3>1. /\ feed' \in Seq(Item)
          /\ Has(feed', Upsert(e)) => \E k \in DOMAIN feed \ {x} : feed[k] = Upsert(e)
        BY <1>1, <1>2, AtHas
    <3> QED
        BY <3>1 DEF Has
  <2>3. e # d => /\ Has(feed, Tombstone(e)) => Has(feed', Tombstone(e))
                 /\ Covered(feed, Upsert(e), Tombstone(e)) =>
                        Covered(feed', Upsert(e), Tombstone(e))
      BY <1>1, <1>2, <2>1, AtKeeps
  <2>4. BatchHolds(Tombstone(e))' <=> BatchHolds(Tombstone(e))
      BY <1>3 DEF BatchHolds
  <2> QED
      BY <2>2, <2>3, <2>4 DEF Has, FeedHolds, Dying
<1>8. ASSUME NEW e \in Entity PROVE DeletedConsistent(e)'
  <2>1. DeletedConsistent(e)
      BY DEF IndexIInv
  <2>2. BatchHolds(Upsert(e))' <=> BatchHolds(Upsert(e))
      BY <1>3 DEF BatchHolds
  <2> QED
      BY <1>3, <1>6, <1>7, <2>1, <2>2 DEF DeletedConsistent, Exists
<1>9. ASSUME NEW e \in Entity, Followed(e) \/ e \in spoiled
      PROVE  Followed(e)' \/ e \in spoiled'
  <2> SUFFICES ASSUME Followed(e), e # d PROVE Followed(e)'
      BY <1>6, <1>9
  <2>1. Covered(feed', Upsert(e), Tombstone(e))
      BY <1>7 DEF Followed, Covered
  <2>2. Reading(Upsert(e))' = Reading(Upsert(e))
      BY <1>3 DEF Reading
  <2>3. BatchHolds(Upsert(e))' <=> BatchHolds(Upsert(e))
      BY <1>3 DEF BatchHolds
  <2> QED
      BY <1>3, <1>7, <2>1, <2>2, <2>3 DEF Followed, Covered
<1>10. BatchConsistent'
  <2>1. Ids("tombstone")' = Ids("tombstone")
      BY <1>3 DEF Ids
  <2> QED
      BY <1>1, <1>3, <1>6, <2>1 DEF BatchConsistent
<1> QED
  <2>1. feed' \in Seq(Item)
      BY <1>5, <1>7
  <2> QED
      BY <1>1, <1>3, <1>4, <1>6, <1>8, <1>9, <1>10, <2>1, IndexerFrame

\* What a crashed batch gives back to the feed keeps every tombstone, and keeps
\* it behind what it was behind.
LEMMA UnreadFacts ==
    ASSUME TypeOK
    PROVE  /\ Unread \in Seq(Item)
           /\ \A e \in Entity :
                  /\ Dying(e) => Has(Unread, Tombstone(e))
                  /\ Followed(e) => Covered(Unread, Upsert(e), Tombstone(e))
<1> DEFINE cur == {k \in DOMAIN batch : Current(batch[k])}
           left == At(batch, cur)
           heads == [k \in DOMAIN left |-> left[k].item]
           n == Len(heads)
           rank(k) == Rank(cur, k)
<1>1. batch \in Seq(Change) /\ feed \in Seq(Item) /\ cur \in SUBSET DOMAIN batch
    BY DEF TypeOK
<1>2. /\ left \in Seq(Change)
      /\ \A k \in cur : rank(k) \in DOMAIN left /\ left[rank(k)] = batch[k]
      /\ \A m \in DOMAIN left : \E k \in cur : m = rank(k)
      /\ \A k, l \in cur : k < l <=> rank(k) < rank(l)
    BY <1>1, AtFacts
<1>3. \A k \in DOMAIN batch : k \in cur <=> Current(batch[k])
    OBVIOUS
<1>4. Unread = heads \o feed
    BY DEF Unread
<1> HIDE DEF cur, left, rank
<1>5. \A k \in DOMAIN left : left[k] \in Change /\ left[k].item \in Item
  <2>1. \A k \in DOMAIN left : left[k] \in Change
      BY <1>2
  <2> QED
      BY <2>1 DEF Change
<1>6. heads \in Seq(Item) /\ DOMAIN heads = DOMAIN left /\ DOMAIN heads = 1..n /\ n \in Nat
  <2>1. Len(left) \in Nat /\ DOMAIN left = 1..Len(left)
      BY <1>2
  <2> QED
      BY <1>5, <2>1
<1>7. \A k \in cur : rank(k) \in 1..n /\ heads[rank(k)] = batch[k].item
    BY <1>2, <1>6
<1>8. \A m \in 1..n : \E k \in cur : m = rank(k)
    BY <1>2, <1>6
<1> HIDE DEF heads, n
<1>9. /\ Unread \in Seq(Item) /\ DOMAIN Unread = 1..(n + Len(feed))
      /\ Len(feed) \in Nat /\ DOMAIN feed = 1..Len(feed)
      /\ \A m \in 1..n : Unread[m] = heads[m]
      /\ \A m \in DOMAIN feed : Unread[n + m] = feed[m]
    BY <1>1, <1>4, <1>6 DEF n
<1>10. /\ \A m \in 1..n : m \in DOMAIN Unread
       /\ \A m \in DOMAIN feed : n + m \in DOMAIN Unread /\ n + m > n
       /\ \A m \in DOMAIN Unread : m \in 1..n \/ m - n \in DOMAIN feed
    BY <1>6, <1>9
<1>11. ASSUME NEW e, NEW k \in DOMAIN batch, batch[k].item = Tombstone(e)
       PROVE  k \in cur
    BY <1>3, <1>11, ItemFacts DEF Current
<1>12. ASSUME NEW e \in Entity PROVE Dying(e) => Has(Unread, Tombstone(e))
  <2>1. FeedHolds(Tombstone(e)) => Has(Unread, Tombstone(e))
      BY <1>9, <1>10 DEF FeedHolds, Has
  <2>2. BatchHolds(Tombstone(e)) => Has(Unread, Tombstone(e))
      BY <1>7, <1>9, <1>10, <1>11 DEF BatchHolds, Has
  <2> QED
      BY <2>1, <2>2 DEF Dying
<1>13. ASSUME NEW e \in Entity, Followed(e), NEW m \in DOMAIN Unread, Unread[m] = Upsert(e)
       PROVE  \E l \in DOMAIN Unread : m < l /\ Unread[l] = Tombstone(e)
  <2>1. CASE m \in 1..n
    <3>1. PICK p \in cur : m = rank(p)
        BY <1>8, <2>1
    <3>2. p \in DOMAIN batch /\ Current(batch[p]) /\ batch[p].item = Upsert(e)
        BY <1>1, <1>3, <1>7, <1>9, <1>13, <2>1, <3>1
    <3>3. batch[p] = Reading(Upsert(e))
        BY <3>2, ItemFacts DEF Current
    <3>4. \/ \E j \in DOMAIN batch : p < j /\ batch[j].item = Tombstone(e)
          \/ FeedHolds(Tombstone(e))
        BY <1>13, <3>2, <3>3 DEF Followed
    <3>5. CASE \E j \in DOMAIN batch : p < j /\ batch[j].item = Tombstone(e)
      <4>1. PICK j \in DOMAIN batch : p < j /\ batch[j].item = Tombstone(e)
          BY <3>5
      <4>2. j \in cur /\ m < rank(j) /\ rank(j) \in 1..n /\ heads[rank(j)] = Tombstone(e)
          BY <1>2, <1>7, <1>11, <3>1, <4>1
      <4> QED
          BY <1>9, <1>10, <4>2
    <3>6. CASE FeedHolds(Tombstone(e))
      <4>1. PICK j \in DOMAIN feed : feed[j] = Tombstone(e)
          BY <3>6 DEF FeedHolds
      <4>2. m < n + j
          BY <1>6, <1>9, <2>1
      <4> QED
          BY <1>9, <1>10, <4>1, <4>2
    <3> QED
        BY <3>4, <3>5, <3>6
  <2>2. CASE m - n \in DOMAIN feed
    <3>1. n + (m - n) = m /\ m \in Int
        BY <1>6, <1>9
    <3>2. feed[m - n] = Upsert(e)
        BY <1>9, <1>13, <2>2, <3>1
    <3>3. PICK j \in DOMAIN feed : m - n < j /\ feed[j] = Tombstone(e)
        BY <1>13, <2>2, <3>2 DEF Followed
    <3>4. m < n + j
        BY <1>6, <1>9, <3>1, <3>3
    <3> QED
        BY <1>9, <1>10, <3>3, <3>4
  <2> QED
      BY <1>10, <2>1, <2>2
<1> QED
    BY <1>9, <1>12, <1>13 DEF Covered

LEMMA CrashKeeps ==
    ASSUME IndexIInv, RegistryIInv', Crash
    PROVE  IndexIInv'
<1>1. /\ TypeOK /\ feed \in Seq(Item) /\ index \in [Entity -> 0..MaxVersion]
      /\ spoiled \subseteq Entity /\ faults \in 0..MaxFaults
    BY DEF IndexIInv, TypeOK
<1> DEFINE kept == {k \in DOMAIN Unread :
                       Unread[k].kind = "upsert" => Exists(Unread[k].id)}
<1>2. /\ UNCHANGED vars /\ store' = store /\ spoiled' = spoiled /\ index' = index
      /\ feed' = At(Unread, kept) /\ step' = "idle" /\ batch' = <<>>
    BY DEF Crash, vars
<1>3. faults' \in 0..MaxFaults
    BY <1>1, FaultType DEF Crash
<1>4. ASSUME NEW e \in Entity
      PROVE  /\ feed' \in Seq(Item)
             /\ FeedHolds(Upsert(e))' => Exists(e)
             /\ Dying(e) => Dying(e)'
             /\ Followed(e) => Covered(feed', Upsert(e), Tombstone(e))
             /\ ~BatchHolds(Upsert(e))' /\ DOMAIN batch' = {}
  <2>1. /\ Unread \in Seq(Item)
        /\ Dying(e) => Has(Unread, Tombstone(e))
        /\ Followed(e) => Covered(Unread, Upsert(e), Tombstone(e))
      BY <1>1, UnreadFacts
  <2>2. \A k \in DOMAIN Unread : Unread[k] = Tombstone(e) => k \in kept
      BY ItemFacts
  <2>3. \A k \in kept : Unread[k] = Upsert(e) => Exists(e)
      BY ItemFacts
  <2>4. kept \in SUBSET DOMAIN Unread
      OBVIOUS
  <2> HIDE DEF kept
  <2>5. /\ feed' \in Seq(Item)
        /\ Has(feed', Upsert(e)) => \E k \in kept : Unread[k] = Upsert(e)
      BY <1>2, <2>1, <2>4, AtHas
  <2>6. /\ Has(Unread, Tombstone(e)) => Has(feed', Tombstone(e))
        /\ Covered(Unread, Upsert(e), Tombstone(e)) =>
               Covered(feed', Upsert(e), Tombstone(e))
      BY <1>2, <2>1, <2>2, <2>4, AtKeeps
  <2>7. ~BatchHolds(Upsert(e))' /\ DOMAIN batch' = {}
      BY <1>2 DEF BatchHolds
  <2>8. /\ FeedHolds(Upsert(e))' <=> Has(feed', Upsert(e))
        /\ Has(feed', Tombstone(e)) => Dying(e)'
      BY DEF FeedHolds, Dying, Has
  <2> QED
      BY <2>1, <2>3, <2>5, <2>6, <2>7, <2>8
<1> HIDE DEF kept
<1>5. ASSUME NEW e \in Entity PROVE DeletedConsistent(e)'
  <2>1. DeletedConsistent(e)
      BY DEF IndexIInv
  <2> QED
      BY <1>2, <1>4, <2>1 DEF DeletedConsistent, Exists
<1>6. ASSUME NEW e \in Entity, Followed(e) PROVE Followed(e)'
  <2>1. Covered(feed', Upsert(e), Tombstone(e)) /\ DOMAIN batch' = {}
      BY <1>4, <1>6
  <2>2. index'[e] # 0 \/ BatchHolds(Upsert(e))' => Dying(e)'
      BY <1>2, <1>4, <1>6 DEF Followed
  <2> QED
      BY <2>1, <2>2 DEF Followed, Covered
<1>7. BatchConsistent' /\ batch' \in Seq(Change)
    BY <1>2 DEF BatchConsistent
<1>8. feed' \in Seq(Item)
  <2>1. Unread \in Seq(Item) /\ kept \in SUBSET DOMAIN Unread
      BY <1>1, UnreadFacts DEF kept
  <2> QED
      BY <1>2, <2>1, AtFacts
<1> QED
    BY <1>1, <1>2, <1>3, <1>5, <1>6, <1>7, <1>8, IndexerFrame

-----------------------------------------------------------------------------
(* Steps of the registry: which of them concern the index.                  *)

\* No document changes, and t comes no further with a delete than to its checks.
Quiet(t) ==
    /\ store' = store /\ last' = last
    /\ \A u \in Tab \ {t} : tab'[u] = tab[u] /\ since[u] \subseteq since'[u]
    /\ tab'[t].at # "tombstoned"
    /\ tab'[t].at = "checked" /\ tab'[t].op = "delete" =>
           tab[t].at = "sent" /\ tab'[t].id = tab[t].id /\ tab'[t].etag = tab[t].etag

LEMMA QuietPage ==
    ASSUME RegistryIInv, NEW t \in Tab, NEW p, tab' = [tab EXCEPT ![t] = p],
           UNCHANGED <<store, last>>, p.at \notin {"checked", "tombstoned"},
           since' \in {since, [since EXCEPT ![t] = {}]}
    PROVE  Quiet(t)
<1>1. tab \in [Tab -> Page] /\ since \in [Tab -> SUBSET Entity]
    BY DEF RegistryIInv, RegistryTypeOK
<1>2. /\ tab'[t] = p
      /\ \A u \in Tab \ {t} : tab'[u] = tab[u] /\ since[u] \subseteq since'[u]
    BY <1>1
<1> QED
    BY <1>2 DEF Quiet

LEMMA LeaveQuiet ==
    ASSUME RegistryIInv, NEW t \in Tab, Leave(t), UNCHANGED <<store, last>>,
           since' \in {since, [since EXCEPT ![t] = {}]}
    PROVE  Quiet(t)
    BY QuietPage, AwayType DEF Leave

LEMMA BackInFormQuiet ==
    ASSUME RegistryIInv, NEW t \in Tab, tab' = [tab EXCEPT ![t] = BackInForm(t)],
           UNCHANGED <<store, last>>, since' \in {since, [since EXCEPT ![t] = {}]}
    PROVE  Quiet(t)
<1>1. BackInForm(t).at = "form"
    BY DEF BackInForm, Away
<1> QED
    BY <1>1, QuietPage

LEMMA RefuseQuiet ==
    ASSUME RegistryIInv, NEW t \in Tab, Refuse(t)
    PROVE  Quiet(t)
    BY BackInFormQuiet, LeaveQuiet DEF Refuse

LEMMA SubmitQuiet ==
    ASSUME RegistryIInv, NEW t \in Tab, NEW force, NEW name, NEW parent,
           Submit(t, force, name, parent)
    PROVE  Quiet(t)
<1>1. tab \in [Tab -> Page]
    BY DEF RegistryIInv, RegistryTypeOK
<1>2. tab' = [tab EXCEPT ![t].at = "sent", ![t].force = force,
                         ![t].etag = PersistedEtag(t, tab[t].id),
                         ![t].name = name, ![t].parent = parent]
      /\ store' = store /\ last' = last /\ since' = since
    BY DEF Submit
<1>3. tab'[t].at = "sent" /\ \A u \in Tab \ {t} : tab'[u] = tab[u]
    BY <1>1, <1>2 DEF Page
<1> QED
    BY <1>2, <1>3 DEF Quiet

LEMMA BrowseQuiet ==
    ASSUME RegistryIInv, NEW t \in Tab, Browse(t)
    PROVE  Quiet(t)
<1>1. ASSUME NEW e \in Entity, Fetch(t, e) PROVE Quiet(t)
  <2>1. CASE Leave(t)
      BY <1>1, <2>1, LeaveQuiet DEF Fetch
  <2>2. CASE UNCHANGED tab
      BY <1>1, <2>2, TabFacts DEF Fetch, InFlight, Handling, Quiet
  <2> QED
      BY <1>1, <2>1, <2>2 DEF Fetch
<1>2. ASSUME NEW e \in Entity, OpenEdit(t, e) PROVE Quiet(t)
  <2> DEFINE p == [Away EXCEPT !.at = "form", !.op = "update",
                               !.id = e, !.shown = cache[t].etag]
  <2>1. p.at = "form"
      BY DEF Away
  <2> QED
      BY <1>2, <2>1, QuietPage DEF OpenEdit
<1>3. ASSUME NEW e \in Entity, OpenCreate(t, e) PROVE Quiet(t)
  <2> DEFINE p == [Away EXCEPT !.at = "form", !.op = "create", !.id = e]
  <2>1. p.at = "form"
      BY DEF Away
  <2> QED
      BY <1>3, <2>1, QuietPage DEF OpenCreate
<1>4. ASSUME NEW e \in Entity, NEW op \in {"status", "delete"}, Request(t, e, op)
      PROVE  Quiet(t)
  <2> DEFINE p == [Away EXCEPT !.at = "sent", !.op = op,
                               !.id = e, !.etag = PersistedEtag(t, e)]
  <2>1. p.at = "sent"
      BY DEF Away
  <2> QED
      BY <1>4, <2>1, QuietPage DEF Request
<1>5. ASSUME NEW e \in Entity, NEW op \in Wildcards, RequestAny(t, e, op)
      PROVE  Quiet(t)
  <2>1. PICK body \in Bodies(op, e) :
            tab' = [tab EXCEPT ![t] = [Away EXCEPT
                        !.at = "sent", !.op = op, !.id = e, !.etag = AnyVersion,
                        !.force = body.force, !.name = body.name,
                        !.parent = body.parent]]
      BY <1>5 DEF RequestAny
  <2> DEFINE p == [Away EXCEPT !.at = "sent", !.op = op, !.id = e, !.etag = AnyVersion,
                               !.force = body.force, !.name = body.name,
                               !.parent = body.parent]
  <2>2. p.at = "sent"
      BY DEF Away
  <2>3. UNCHANGED <<store, last, since>>
      BY <1>5 DEF RequestAny
  <2> QED
      BY <2>1, <2>2, <2>3, QuietPage
<1>6. CASE SubmitForm(t) \/ ForceOverwrite(t)
    BY <1>6, SubmitQuiet DEF SubmitForm, ForceOverwrite
<1>7. CASE CloseModal(t)
    BY <1>7, BackInFormQuiet DEF CloseModal
<1>8. CASE LeaveForm(t)
    BY <1>8, LeaveQuiet DEF LeaveForm
<1> QED
    BY <1>1, <1>2, <1>3, <1>4, <1>5, <1>6, <1>7, <1>8 DEF Browse

LEMMA ProceedQuiet ==
    ASSUME RegistryIInv, NEW t \in Tab, NEW name, NEW parent,
           tab[t].at = "sent", Proceed(t, name, parent)
    PROVE  Quiet(t)
<1>1. tab \in [Tab -> Page]
    BY DEF RegistryIInv, RegistryTypeOK
<1>2. tab' = [tab EXCEPT ![t].at = "checked", ![t].name = name, ![t].parent = parent,
                         ![t].read = store[tab[t].id].etag]
      /\ store' = store /\ last' = last /\ since' = since
    BY DEF Proceed
<1>3. /\ tab'[t].at = "checked" /\ tab'[t].id = tab[t].id /\ tab'[t].etag = tab[t].etag
      /\ \A u \in Tab \ {t} : tab'[u] = tab[u]
    BY <1>1, <1>2 DEF Page
<1> QED
    BY <1>2, <1>3 DEF Quiet

\* The steps of a request that the index has to do with.
LEMMA ServeCases ==
    ASSUME RegistryIInv, NEW t \in Tab, Serve(t)
    PROVE  \/ Quiet(t) /\ ~Asks(t, "delete", "checked")
           \/ WriteTombstone(t)
           \/ tab[t].at = "checked" /\ Commit(t) /\ ~Asks(t, "delete", "checked")
           \/ /\ Asks(t, "delete", "tombstoned") /\ DeleteItem(t)
              /\ Exists(tab[t].id) /\ IfMatch(t)
<1>1. CASE CreateCheck(t) \/ UpdateCheck(t) \/ StatusCheck(t) \/ DeleteCheck(t)
    BY <1>1, ProceedQuiet, RefuseQuiet
    DEF CreateCheck, UpdateCheck, StatusCheck, DeleteCheck, Asks
<1>2. CASE CreateItem(t)
    BY <1>2, RefuseQuiet DEF CreateItem, Asks
<1>3. CASE ReplaceItem(t)
  <2>1. tab[t].at = "checked" /\ ~Asks(t, "delete", "checked")
      BY <1>3 DEF ReplaceItem, Asks, Updates, StatusChanges
  <2>2. CASE Commit(t)
      BY <2>1, <2>2
  <2>3. CASE Refuse(t)
      BY <2>1, <2>3, RefuseQuiet
  <2>4. CASE /\ tab' = [tab EXCEPT ![t].at = "conflict", ![t].read = 0,
                                   ![t].etag = 0, ![t].force = FALSE]
             /\ since' = [since EXCEPT ![t] = {}] /\ UNCHANGED <<store, last>>
    <3>1. tab \in [Tab -> Page] /\ since \in [Tab -> SUBSET Entity]
        BY DEF RegistryIInv, RegistryTypeOK
    <3>2. /\ tab'[t].at = "conflict"
          /\ \A u \in Tab \ {t} : tab'[u] = tab[u] /\ since[u] \subseteq since'[u]
        BY <2>4, <3>1 DEF Page
    <3> QED
        BY <2>1, <2>4, <3>2 DEF Quiet
  <2> QED
      BY <1>3, <2>2, <2>3, <2>4 DEF ReplaceItem
<1>4. CASE DeleteItem(t)
  <2>1. Asks(t, "delete", "tombstoned") /\ ~Asks(t, "delete", "checked")
      BY <1>4 DEF DeleteItem, Asks
  <2>2. CASE ~Exists(tab[t].id)
    <3>1. tab \in [Tab -> Page] /\ store \in [Entity -> Document \cup {Absent}]
        BY DEF RegistryIInv, RegistryTypeOK
    <3>2. /\ store' = [store EXCEPT ![tab[t].id] = Absent]
          /\ tab' = [tab EXCEPT ![t].at = "committed"] /\ last' = last
          /\ Missed(t, tab[t].id)
        BY <1>4, <2>2 DEF DeleteItem
    <3>3. store' = store
        BY <2>2, <3>1, <3>2 DEF Exists
    <3>4. /\ tab'[t].at = "committed"
          /\ \A u \in Tab \ {t} : tab'[u] = tab[u] /\ since[u] \subseteq since'[u]
        BY <2>1, <3>1, <3>2, TabFacts, MissedSince DEF Asks, Page
    <3> QED
        BY <2>1, <3>2, <3>3, <3>4 DEF Quiet
  <2>3. CASE Exists(tab[t].id) /\ IfMatch(t)
      BY <1>4, <2>1, <2>3
  <2>4. CASE Exists(tab[t].id) /\ ~IfMatch(t)
      BY <1>4, <2>1, <2>4, RefuseQuiet DEF DeleteItem
  <2> QED
      BY <2>2, <2>3, <2>4
<1>5. CASE Finish(t)
    BY <1>5, LeaveQuiet DEF Finish, Asks
<1> QED
    BY <1>1, <1>2, <1>3, <1>4, <1>5 DEF Serve

-----------------------------------------------------------------------------
(* Steps of the registry, with what they do to the feed.                    *)

\* An entity is no longer spoiled only after a write behind every tombstone.
LEMMA SpoiledFacts ==
    ASSUME RegistryIInv, RegistryIInv', spoiled \subseteq Entity,
           spoiled' = (spoiled \cup DeleteAbandoned \cup DeletedUnread) \ Rewritten
    PROVE  /\ spoiled' \subseteq Entity
           /\ store' = store => spoiled \subseteq spoiled'
           /\ \A e \in spoiled : \/ e \in spoiled'
                                 \/ ~Dying(e) /\ store'[e].etag > store[e].etag
           /\ \A e \in DeletedUnread : e \in spoiled' \/ store'[e].etag > store[e].etag
<1>1. \A t \in Tab : tab[t].at = "tombstoned" => tab[t].id \in Entity
    BY TabFacts
<1>2. DeleteAbandoned \subseteq Entity /\ DeletedUnread \subseteq Entity
    BY <1>1 DEF DeleteAbandoned, DeletedUnread, Asks
<1>3. \A e \in Entity : ~(store[e].etag > store[e].etag)
    BY VersionFacts
<1>4. store' = store => Rewritten = {}
    BY <1>3 DEF Rewritten
<1> QED
    BY <1>2, <1>4 DEF Rewritten

\* An entity whose document stays as it is.
LEMMA EntityKeeps ==
    ASSUME IndexIInv, NEW e \in Entity, store'[e] = store[e],
           index' = index, batch' = batch,
           Has(feed', Upsert(e)) => Has(feed, Upsert(e)),
           Has(feed, Tombstone(e)) => Has(feed', Tombstone(e)),
           Covered(feed, Upsert(e), Tombstone(e)) =>
               Covered(feed', Upsert(e), Tombstone(e)),
           e \in spoiled => e \in spoiled'
    PROVE  /\ DeletedConsistent(e)'
           /\ Followed(e) \/ e \in spoiled => Followed(e)' \/ e \in spoiled'
<1>1. DeletedConsistent(e)
    BY DEF IndexIInv
<1>2. /\ FeedHolds(Upsert(e))' => FeedHolds(Upsert(e))
      /\ FeedHolds(Tombstone(e)) => FeedHolds(Tombstone(e))'
      /\ BatchHolds(Upsert(e))' <=> BatchHolds(Upsert(e))
      /\ BatchHolds(Tombstone(e))' <=> BatchHolds(Tombstone(e))
      /\ Exists(e)' <=> Exists(e)
    BY DEF FeedHolds, BatchHolds, Has, Exists
<1>3. Dying(e) => Dying(e)'
    BY <1>2 DEF Dying
<1>4. DeletedConsistent(e)'
    BY <1>1, <1>2, <1>3 DEF DeletedConsistent
<1>5. ASSUME Followed(e) PROVE Followed(e)'
  <2>1. Covered(feed', Upsert(e), Tombstone(e))
      BY <1>5 DEF Followed, Covered
  <2>2. Reading(Upsert(e))' = Reading(Upsert(e))
    <3>1. Upsert(e).id = e
        BY ItemFacts
    <3> QED
        BY <3>1 DEF Reading
  <2>3. \A k \in DOMAIN batch' : batch'[k] = Reading(Upsert(e))' =>
            \/ \E j \in DOMAIN batch' : k < j /\ batch'[j].item = Tombstone(e)
            \/ FeedHolds(Tombstone(e))'
      BY <1>2, <1>5, <2>2 DEF Followed
  <2>4. index'[e] # 0 \/ BatchHolds(Upsert(e))' => Dying(e)'
      BY <1>2, <1>3, <1>5 DEF Followed
  <2> QED
      BY <2>1, <2>3, <2>4 DEF Followed, Covered
<1> QED
    BY <1>4, <1>5

\* A tab that does not take the step: a delete's ETag stays behind new versions.
LEMMA OtherTabKeeps ==
    ASSUME IndexIInv, RegistryIInv, RegistryIInv', NEW t \in Tab, tab'[t] = tab[t],
           since[t] \subseteq since'[t],
           \A e \in Entity :
               /\ last[e] <= last'[e]
               /\ \/ /\ store'[e] = store[e]
                     /\ Followed(e) \/ e \in spoiled => Followed(e)' \/ e \in spoiled'
                  \/ store'[e] = Absent
                  \/ /\ store'[e].etag > last[e]
                     /\ tab[t].at = "tombstoned" => e \in since'[t]
    PROVE  DeleteConsistent(t)'
<1> DEFINE e == tab[t].id
<1> SUFFICES ASSUME tab[t].op = "delete", tab[t].at \in {"checked", "tombstoned"}
             PROVE  /\ tab[t].etag # AnyVersion => tab[t].etag <= last'[e]
                    /\ /\ tab[t].at = "tombstoned" /\ store'[e] # Absent
                       /\ tab[t].etag \in {AnyVersion, store'[e].etag}
                       => \/ Followed(e)' \/ e \in spoiled'
                          \/ tab[t].etag = AnyVersion /\ e \in since'[t]
  <2> QED
      BY DEF DeleteConsistent, Exists, IfMatch
<1>1. DeleteConsistent(t)
    BY DEF IndexIInv
<1>2. e \in Entity /\ tab[t].etag \in Nat
    BY TabFacts, AnyFacts DEF Page
<1>3. last[e] \in Nat /\ last'[e] \in Nat /\ last[e] <= last'[e]
    BY <1>2, VersionFacts DEF RegistryIInv, RegistryTypeOK
<1>4. tab[t].etag # AnyVersion => tab[t].etag <= last[e]
    BY <1>1 DEF DeleteConsistent
<1>5. tab[t].etag # AnyVersion => tab[t].etag <= last'[e]
    BY <1>2, <1>3, <1>4
<1>6. ASSUME tab[t].at = "tombstoned", store'[e] # Absent,
             tab[t].etag \in {AnyVersion, store'[e].etag}
      PROVE  \/ Followed(e)' \/ e \in spoiled'
             \/ tab[t].etag = AnyVersion /\ e \in since'[t]
  <2>1. CASE store'[e].etag > last[e] /\ e \in since'[t]
      BY <1>2, <1>3, <1>4, <1>6, <2>1
  <2>2. CASE /\ store'[e] = store[e]
             /\ Followed(e) \/ e \in spoiled => Followed(e)' \/ e \in spoiled'
    <3>1. Followed(e) \/ e \in spoiled \/ (tab[t].etag = AnyVersion /\ e \in since[t])
        BY <1>1, <1>6, <2>2 DEF DeleteConsistent, Exists, IfMatch
    <3> QED
        BY <2>2, <3>1
  <2> QED
      BY <1>2, <1>6, <2>1, <2>2
<1> QED
    BY <1>5, <1>6

\* No document changes, nor does the feed.
LEMMA QuietKeeps ==
    ASSUME IndexIInv, RegistryIInv, RegistryIInv', NEW t \in Tab, Quiet(t),
           spoiled' = (spoiled \cup DeleteAbandoned \cup DeletedUnread) \ Rewritten,
           UNCHANGED <<feed, index, batch, step>>, faults' \in 0..MaxFaults
    PROVE  IndexIInv'
<1>1. TypeOK /\ BatchConsistent /\ spoiled \subseteq Entity
    BY DEF IndexIInv, TypeOK
<1>2. /\ store' = store /\ last' = last
      /\ \A u \in Tab \ {t} : tab'[u] = tab[u] /\ since[u] \subseteq since'[u]
    BY DEF Quiet
<1>3. spoiled' \subseteq Entity /\ spoiled \subseteq spoiled'
    BY <1>1, <1>2, SpoiledFacts
<1>4. \A e \in Entity :
          /\ DeletedConsistent(e)'
          /\ Followed(e) \/ e \in spoiled => Followed(e)' \/ e \in spoiled'
    BY <1>2, <1>3, SameBatchKeeps
<1>5. BatchConsistent'
  <2>1. Ids("tombstone")' = Ids("tombstone")
      BY DEF Ids
  <2> QED
      BY <1>1, <1>3, <2>1 DEF BatchConsistent
<1>6. TypeOK'
    BY <1>1, <1>3 DEF TypeOK, RegistryIInv
<1>7. \A e \in Entity : last[e] <= last'[e]
    BY <1>2, VersionFacts
<1>8. \A u \in Tab \ {t} : DeleteConsistent(u)'
    BY <1>2, <1>4, <1>7, OtherTabKeeps
<1>9. DeleteConsistent(t)'
  <2>1. tab'[t].at = "checked" /\ tab'[t].op = "delete" =>
            /\ tab'[t].id = tab[t].id /\ tab'[t].etag = tab[t].etag
            /\ tab[t].etag # AnyVersion => tab[t].etag <= last[tab[t].id]
      BY TabFacts DEF Quiet, TabConsistent, FormConsistent
  <2>2. tab'[t].at # "tombstoned"
      BY DEF Quiet
  <2> QED
      BY <1>2, <2>1, <2>2 DEF DeleteConsistent
<1> QED
    BY <1>4, <1>5, <1>6, <1>8, <1>9 DEF IndexIInv

\* The tombstone of a delete comes behind everything the feed and the batch have.
LEMMA WriteTombstoneIndexed ==
    ASSUME IndexIInv, RegistryIInv, RegistryIInv', NEW t \in Tab, WriteTombstone(t),
           feed' = Append(feed, Tombstone(tab[t].id)),
           spoiled' = (spoiled \cup DeleteAbandoned \cup DeletedUnread) \ Rewritten,
           UNCHANGED <<index, batch, step, faults>>
    PROVE  IndexIInv'
<1> DEFINE d == tab[t].id
<1>1. TypeOK /\ BatchConsistent /\ spoiled \subseteq Entity /\ feed \in Seq(Item)
    BY DEF IndexIInv, TypeOK
<1>2. /\ store' = store /\ last' = last /\ since' = since /\ tab \in [Tab -> Page]
      /\ tab' = [tab EXCEPT ![t].at = "tombstoned"]
      /\ tab[t].op = "delete" /\ tab[t].at = "checked"
    BY DEF WriteTombstone, Asks, RegistryIInv, RegistryTypeOK
<1>3. /\ tab'[t].at = "tombstoned" /\ tab'[t].id = d
      /\ tab'[t].etag = tab[t].etag
      /\ \A u \in Tab \ {t} : tab'[u] = tab[u]
    BY <1>2 DEF Page
<1>4. d \in Entity
    BY <1>2, TabFacts
<1>5. spoiled' \subseteq Entity /\ spoiled \subseteq spoiled'
    BY <1>1, <1>2, SpoiledFacts
<1> HIDE DEF d
<1>6. ASSUME NEW e \in Entity
      PROVE  /\ feed' \in Seq(Item)
             /\ Has(feed', Upsert(e)) => Has(feed, Upsert(e))
             /\ Has(feed, Tombstone(e)) => Has(feed', Tombstone(e))
             /\ Covered(feed, Upsert(e), Tombstone(e)) =>
                    Covered(feed', Upsert(e), Tombstone(e))
             /\ e = d => /\ Has(feed', Tombstone(e))
                         /\ Covered(feed', Upsert(e), Tombstone(e))
  <2>1. Tombstone(d) \in Item /\ Tombstone(d) # Upsert(e) /\ feed' = Append(feed, Tombstone(d))
      BY <1>4, ItemFacts DEF d
  <2>2. /\ feed' \in Seq(Item)
        /\ Has(feed', Upsert(e)) <=> Has(feed, Upsert(e)) \/ Tombstone(d) = Upsert(e)
        /\ Has(feed', Tombstone(e)) <=> Has(feed, Tombstone(e)) \/ Tombstone(d) = Tombstone(e)
        /\ Covered(feed, Upsert(e), Tombstone(e)) =>
               Covered(feed', Upsert(e), Tombstone(e))
        /\ e = d => Covered(feed', Upsert(e), Tombstone(e))
      BY <1>1, <2>1, AppendKeeps
  <2> QED
      BY <2>1, <2>2
<1>7. \A e \in Entity :
          /\ DeletedConsistent(e)'
          /\ Followed(e) \/ e \in spoiled => Followed(e)' \/ e \in spoiled'
    BY <1>2, <1>5, <1>6, EntityKeeps
<1>8. BatchConsistent'
  <2>1. Ids("tombstone")' = Ids("tombstone")
      BY DEF Ids
  <2> QED
      BY <1>1, <1>5, <2>1 DEF BatchConsistent
<1>9. feed' \in Seq(Item)
    BY <1>4, <1>6
<1>10. TypeOK'
    BY <1>1, <1>5, <1>9 DEF TypeOK, RegistryIInv
<1>11. \A e \in Entity : last[e] <= last'[e]
    BY <1>2, VersionFacts
<1>12. \A u \in Tab \ {t} : DeleteConsistent(u)'
    BY <1>2, <1>3, <1>7, <1>11, OtherTabKeeps
<1>13. ASSUME NEW e \in Entity, e = d PROVE Followed(e)'
  <2>1. Covered(feed', Upsert(e), Tombstone(e)) /\ Has(feed', Tombstone(e))
      BY <1>6, <1>13
  <2>2. FeedHolds(Tombstone(e))' /\ Dying(e)'
      BY <2>1 DEF FeedHolds, Dying, Has
  <2> QED
      BY <2>1, <2>2 DEF Followed, Covered
<1>14. DeleteConsistent(t)'
  <2>1. PICK e \in Entity : e = d /\ e = tab'[t].id
      BY <1>3, <1>4
  <2>2. tab[t].etag # AnyVersion => tab[t].etag <= last[e]
      BY <1>2, <2>1 DEF IndexIInv, DeleteConsistent, d
  <2>3. Followed(e)'
      BY <1>13, <2>1
  <2> QED
      BY <1>2, <1>3, <2>1, <2>2, <2>3 DEF DeleteConsistent
<1> QED
    BY <1>7, <1>8, <1>10, <1>12, <1>14 DEF IndexIInv

\* What is left of the feed when a document leaves its place in it.
LEMMA WithoutFacts ==
    ASSUME feed \in Seq(Item), NEW d \in Entity
    PROVE  /\ Without(d) \in Seq(Item)
           /\ ~Has(Without(d), Upsert(d))
           /\ \A e : /\ Has(Without(d), Upsert(e)) => Has(feed, Upsert(e))
                     /\ Has(feed, Tombstone(e)) => Has(Without(d), Tombstone(e))
                     /\ Covered(feed, Upsert(e), Tombstone(e)) =>
                            Covered(Without(d), Upsert(e), Tombstone(e))
<1> DEFINE kept == {k \in DOMAIN feed : feed[k] # Upsert(d)}
<1>1. kept \in SUBSET DOMAIN feed /\ Without(d) = At(feed, kept)
    BY DEF Without
<1>2. \A k \in kept : feed[k] # Upsert(d)
    OBVIOUS
<1>3. \A e : \A k \in DOMAIN feed : feed[k] = Tombstone(e) => k \in kept
    BY ItemFacts
<1> HIDE DEF kept
<1>4. /\ Without(d) \in Seq(Item)
      /\ Has(Without(d), Upsert(d)) => \E k \in kept : feed[k] = Upsert(d)
    BY <1>1, AtHas
<1>5. ASSUME NEW e
      PROVE  /\ Has(Without(d), Upsert(e)) => Has(feed, Upsert(e))
             /\ Has(feed, Tombstone(e)) => Has(Without(d), Tombstone(e))
             /\ Covered(feed, Upsert(e), Tombstone(e)) =>
                    Covered(Without(d), Upsert(e), Tombstone(e))
  <2>1. Has(Without(d), Upsert(e)) => \E k \in kept : feed[k] = Upsert(e)
      BY <1>1, AtHas
  <2>2. Has(Without(d), Upsert(e)) => Has(feed, Upsert(e))
      BY <1>1, <2>1 DEF Has
  <2> QED
      BY <1>1, <1>3, <2>2, AtKeeps
<1> QED
    BY <1>2, <1>4, <1>5

\* A document is written: it goes to the end of the feed, and whoever deletes it
\* has an older ETag.
LEMMA CommitIndexed ==
    ASSUME IndexIInv, RegistryIInv, RegistryIInv', NEW t \in Tab,
           tab[t].at = "checked", Commit(t), FeedFollows,
           spoiled' = (spoiled \cup DeleteAbandoned \cup DeletedUnread) \ Rewritten,
           UNCHANGED <<index, batch, step, faults>>
    PROVE  IndexIInv'
<1> DEFINE d == tab[t].id
           new == [etag |-> last'[d], name |-> tab[t].name, parent |-> tab[t].parent]
<1>1. TypeOK /\ BatchConsistent /\ spoiled \subseteq Entity /\ feed \in Seq(Item)
    BY DEF IndexIInv, TypeOK
<1>2. /\ d \in Entity /\ last \in [Entity -> 0..MaxVersion]
      /\ store \in [Entity -> Document \cup {Absent}] /\ tab \in [Tab -> Page]
    BY TabFacts DEF RegistryIInv, RegistryTypeOK
<1>3. /\ last' = [last EXCEPT ![d] = @ + 1]
      /\ store' = [store EXCEPT ![d] = new]
      /\ tab' = [tab EXCEPT ![t].at = "committed", ![t].etag = last'[d]]
    BY DEF Commit
<1>4. /\ last'[d] = last[d] + 1 /\ last[d] \in Nat
      /\ \A e \in Entity : last[e] <= last'[e]
  <2>1. \A e \in Entity : last[e] \in Nat
      BY VersionFacts
  <2> QED
      BY <1>2, <1>3, <2>1
<1>5. tab'[t].at = "committed" /\ \A u \in Tab \ {t} : tab'[u] = tab[u]
    BY <1>2, <1>3 DEF Page
<1>6. store'[d] = new /\ \A e \in Entity \ {d} : store'[e] = store[e]
    BY <1>2, <1>3
<1>7. new.etag = last[d] + 1 /\ store'[d].etag > last[d] /\ store'[d] # Absent
    BY <1>4, <1>6 DEF Absent
<1>8. store[d].etag <= last[d] /\ store[d].etag \in Nat
    BY <1>2, <1>4, VersionFacts
<1>9. store'[d] # store[d] /\ store' # store
    BY <1>4, <1>7, <1>8
<1> HIDE DEF d, new
<1>10. feed' = Append(Without(d), Upsert(d))
    BY <1>6, <1>7, <1>9 DEF FeedFollows
<1>11. ASSUME NEW e \in Entity
       PROVE  /\ feed' \in Seq(Item)
              /\ Has(feed, Tombstone(e)) => Has(feed', Tombstone(e))
              /\ e # d => /\ Has(feed', Upsert(e)) => Has(feed, Upsert(e))
                          /\ Covered(feed, Upsert(e), Tombstone(e)) =>
                                 Covered(feed', Upsert(e), Tombstone(e))
  <2>1. /\ Without(d) \in Seq(Item)
        /\ Has(Without(d), Upsert(e)) => Has(feed, Upsert(e))
        /\ Has(feed, Tombstone(e)) => Has(Without(d), Tombstone(e))
        /\ Covered(feed, Upsert(e), Tombstone(e)) =>
               Covered(Without(d), Upsert(e), Tombstone(e))
      BY <1>1, <1>2, WithoutFacts
  <2>2. Upsert(d) \in Item /\ (e # d => Upsert(d) # Upsert(e))
      BY <1>2, ItemFacts
  <2>3. /\ feed' \in Seq(Item)
        /\ Has(feed', Tombstone(e)) <=> Has(Without(d), Tombstone(e)) \/ Upsert(d) = Tombstone(e)
        /\ Has(feed', Upsert(e)) <=> Has(Without(d), Upsert(e)) \/ Upsert(d) = Upsert(e)
        /\ Upsert(d) # Upsert(e) /\ Covered(Without(d), Upsert(e), Tombstone(e)) =>
               Covered(feed', Upsert(e), Tombstone(e))
      BY <1>10, <2>1, <2>2, AppendKeeps
  <2> QED
      BY <2>1, <2>2, <2>3
<1>12. /\ spoiled' \subseteq Entity
       /\ \A e \in spoiled : \/ e \in spoiled'
                             \/ ~Dying(e) /\ store'[e].etag > store[e].etag
    BY <1>1, SpoiledFacts
<1>13. \A e \in Entity \ {d} : e \in spoiled => e \in spoiled'
  <2>1. \A e \in Entity : ~(store[e].etag > store[e].etag)
      BY VersionFacts
  <2> QED
      BY <1>6, <1>12, <2>1
<1>14. \A e \in Entity \ {d} :
           /\ DeletedConsistent(e)'
           /\ Followed(e) \/ e \in spoiled => Followed(e)' \/ e \in spoiled'
    BY <1>6, <1>11, <1>13, EntityKeeps
<1>15. ASSUME NEW e \in Entity, e = d PROVE DeletedConsistent(e)'
    BY <1>7, <1>15 DEF DeletedConsistent, Exists
<1>16. BatchConsistent'
  <2>1. Ids("tombstone")' = Ids("tombstone")
      BY DEF Ids
  <2>2. \A e \in Ids("tombstone") : Dying(e)
      BY <1>1, IdsFacts DEF Dying, TypeOK
  <2> QED
      BY <1>1, <1>12, <2>1, <2>2 DEF BatchConsistent
<1>17. TypeOK'
  <2>1. feed' \in Seq(Item)
      BY <1>2, <1>11
  <2> QED
      BY <1>1, <1>12, <2>1 DEF TypeOK, RegistryIInv
<1>18. \A u \in Tab \ {t} :
           /\ since[u] \subseteq since'[u]
           /\ tab[u].at = "tombstoned" => d \in since'[u]
    BY <1>2, MissedSince DEF Commit, d
<1>19. ASSUME NEW u \in Tab \ {t} PROVE DeleteConsistent(u)'
  <2>1. u \in Tab /\ u # t /\ tab'[u] = tab[u] /\ since[u] \subseteq since'[u]
      BY <1>5, <1>18, <1>19
  <2>2. ASSUME NEW e \in Entity, e = d
        PROVE  /\ store'[e].etag > last[e]
               /\ tab[u].at = "tombstoned" => e \in since'[u]
      BY <1>7, <1>18, <2>1, <2>2
  <2> QED
      BY <1>4, <1>6, <1>14, <2>1, <2>2, OtherTabKeeps
<1>20. DeleteConsistent(t)'
    BY <1>5 DEF DeleteConsistent
<1> QED
    BY <1>14, <1>15, <1>16, <1>17, <1>19, <1>20 DEF IndexIInv

\* A document is deleted: its tombstone is behind everything that could put it
\* back into the index.
LEMMA DeleteIndexed ==
    ASSUME IndexIInv, RegistryIInv, RegistryIInv', NEW t \in Tab,
           Asks(t, "delete", "tombstoned"), DeleteItem(t),
           Exists(tab[t].id), IfMatch(t), FeedFollows,
           spoiled' = (spoiled \cup DeleteAbandoned \cup DeletedUnread) \ Rewritten,
           UNCHANGED <<index, batch, step, faults>>
    PROVE  IndexIInv'
<1> DEFINE d == tab[t].id
<1>1. TypeOK /\ BatchConsistent /\ spoiled \subseteq Entity /\ feed \in Seq(Item)
    BY DEF IndexIInv, TypeOK
<1>2. /\ d \in Entity /\ last' = last /\ tab \in [Tab -> Page]
      /\ store \in [Entity -> Document \cup {Absent}]
      /\ tab[t].op = "delete" /\ tab[t].at = "tombstoned"
    BY TabFacts DEF DeleteItem, Asks, RegistryIInv, RegistryTypeOK
<1>3. /\ store' = [store EXCEPT ![d] = Absent]
      /\ tab' = [tab EXCEPT ![t].at = "committed"]
    BY DEF DeleteItem
<1>4. Followed(d) \/ d \in spoiled \/ d \in DeletedUnread
  <2>1. tab'[t].at = "committed"
      BY <1>2, <1>3 DEF Page
  <2> QED
      BY <1>2, <2>1 DEF IndexIInv, DeleteConsistent, DeletedUnread
<1>5. tab'[t].at = "committed" /\ \A u \in Tab \ {t} : tab'[u] = tab[u]
    BY <1>2, <1>3 DEF Page
<1>6. /\ store'[d] = Absent /\ store'[d] # store[d] /\ store' # store
      /\ \A e \in Entity \ {d} : store'[e] = store[e]
    BY <1>2, <1>3 DEF Exists
<1> HIDE DEF d
<1>7. feed' = Without(d)
    BY <1>6 DEF FeedFollows
<1>8. ASSUME NEW e \in Entity
      PROVE  /\ feed' \in Seq(Item)
             /\ Has(feed', Upsert(e)) => Has(feed, Upsert(e))
             /\ Has(feed, Tombstone(e)) => Has(feed', Tombstone(e))
             /\ Covered(feed, Upsert(e), Tombstone(e)) =>
                    Covered(feed', Upsert(e), Tombstone(e))
             /\ e = d => ~Has(feed', Upsert(e))
    BY <1>1, <1>2, <1>7, WithoutFacts
<1>9. /\ spoiled' \subseteq Entity /\ spoiled \subseteq spoiled'
      /\ d \in DeletedUnread => d \in spoiled'
  <2>1. \A e \in Entity : ~(store'[e].etag > store[e].etag)
      BY <1>6, VersionFacts DEF Absent
  <2> QED
      BY <1>1, <1>2, <2>1, SpoiledFacts
<1>10. \A e \in Entity \ {d} :
           /\ DeletedConsistent(e)'
           /\ Followed(e) \/ e \in spoiled => Followed(e)' \/ e \in spoiled'
    BY <1>6, <1>8, <1>9, EntityKeeps
<1>11. ASSUME NEW e \in Entity, e = d PROVE DeletedConsistent(e)'
  <2>1. ~FeedHolds(Upsert(e))'
      BY <1>8, <1>11 DEF FeedHolds, Has
  <2>2. index[e] # 0 \/ BatchHolds(Upsert(e)) => Dying(e) \/ e \in spoiled'
      BY <1>4, <1>9, <1>11 DEF Followed
  <2>3. Dying(e) => Dying(e)'
      BY <1>8 DEF Dying, FeedHolds, BatchHolds, Has
  <2>4. BatchHolds(Upsert(e))' <=> BatchHolds(Upsert(e))
      BY DEF BatchHolds
  <2> QED
      BY <1>9, <2>1, <2>2, <2>3, <2>4 DEF DeletedConsistent
<1>12. BatchConsistent'
  <2>1. Ids("tombstone")' = Ids("tombstone")
      BY DEF Ids
  <2> QED
      BY <1>1, <1>9, <2>1 DEF BatchConsistent
<1>13. TypeOK'
  <2>1. feed' \in Seq(Item)
      BY <1>2, <1>8
  <2> QED
      BY <1>1, <1>9, <2>1 DEF TypeOK, RegistryIInv
<1>14. \A u \in Tab \ {t} : since[u] \subseteq since'[u]
    BY <1>2, MissedSince DEF DeleteItem, d
<1>15. ASSUME NEW u \in Tab \ {t} PROVE DeleteConsistent(u)'
  <2>1. \A e \in Entity : last[e] <= last'[e]
      BY <1>2, VersionFacts
  <2>2. \A e \in Entity : e = d => store'[e] = Absent
      BY <1>6
  <2> QED
      BY <1>5, <1>6, <1>10, <1>14, <2>1, <2>2, OtherTabKeeps
<1>16. DeleteConsistent(t)'
    BY <1>5 DEF DeleteConsistent
<1> QED
    BY <1>10, <1>11, <1>12, <1>13, <1>15, <1>16 DEF IndexIInv

-----------------------------------------------------------------------------
(* The index.                                                               *)

LEMMA InitIndexInvariant == InitIndex => RegistryIInv /\ IndexIInv
<1> SUFFICES ASSUME InitIndex PROVE RegistryIInv /\ IndexIInv
    OBVIOUS
<1>1. RegistryIInv /\ tab = [t \in Tab |-> Away]
    BY InitInvariant DEF InitIndex, Init
<1>2. /\ feed = <<>> /\ index = [e \in Entity |-> 0] /\ batch = <<>> /\ step = "idle"
      /\ faults = 0 /\ spoiled = {}
    BY DEF InitIndex
<1>3. TypeOK
    BY <1>1, <1>2, BatchAssumption, VersionsAssumption DEF TypeOK, RegistryIInv
<1>4. BatchConsistent
    BY <1>2 DEF BatchConsistent
<1>5. \A e \in Entity : DeletedConsistent(e)
    BY <1>2 DEF DeletedConsistent, FeedHolds, BatchHolds
<1>6. \A t \in Tab : DeleteConsistent(t)
    BY <1>1, AwayType DEF DeleteConsistent
<1> QED
    BY <1>1, <1>3, <1>4, <1>5, <1>6 DEF IndexIInv

\* Every step of the index is one of the registry, or changes nothing of it.
LEMMA RegistrySteps == [Next]_allVars => [RegistryNext]_vars
<1>1. ASSUME NEW t \in Tab,
             \/ ServeIndexed(t) \/ RegistryStep(Browse(t)) \/ RegistryStep(Die(t))
      PROVE  RegistryNext
    BY <1>1 DEF ServeIndexed, RegistryStep, RegistryNext
<1>2. ASSUME Indexer \/ UploadDrops \/ DeleteDrops \/ Throw \/ GiveUp \/ Crash \/ TombstoneExpires
      PROVE  UNCHANGED vars
    BY <1>2 DEF Indexer, Poll, Upload, MergeOrUpload, Delete, DeleteDocuments,
                Checkpoint, UploadDrops, DeleteDrops, Throw, GiveUp, Crash, TombstoneExpires
<1> QED
    BY <1>1, <1>2 DEF Next, allVars

LEMMA ServeIndexedKeeps ==
    ASSUME IndexIInv, RegistryIInv, RegistryIInv', NEW t \in Tab, ServeIndexed(t)
    PROVE  IndexIInv'
<1>1. /\ Serve(t) /\ UNCHANGED <<index, batch, step>> /\ faults' = faults
      /\ spoiled' = (spoiled \cup DeleteAbandoned \cup DeletedUnread) \ Rewritten
      /\ faults' \in 0..MaxFaults
    BY DEF ServeIndexed, RegistryStep, IndexIInv, TypeOK
<1>2. CASE Asks(t, "delete", "checked")
  <2>1. feed' = Append(feed, Tombstone(tab[t].id))
      BY <1>2 DEF ServeIndexed
  <2>2. WriteTombstone(t)
      BY <1>1, <1>2, ServeCases DEF Asks
  <2> QED
      BY <1>1, <2>1, <2>2, WriteTombstoneIndexed
<1>3. CASE ~Asks(t, "delete", "checked")
  <2>1. FeedFollows
      BY <1>3 DEF ServeIndexed
  <2>2. CASE Quiet(t)
    <3>1. store' = store
        BY <2>2 DEF Quiet
    <3>2. feed' = feed
        BY <2>1, <3>1 DEF FeedFollows
    <3> QED
        BY <1>1, <2>2, <3>2, QuietKeeps
  <2>3. CASE tab[t].at = "checked" /\ Commit(t)
      BY <1>1, <2>1, <2>3, CommitIndexed
  <2>4. CASE /\ Asks(t, "delete", "tombstoned") /\ DeleteItem(t)
             /\ Exists(tab[t].id) /\ IfMatch(t)
      BY <1>1, <2>1, <2>4, DeleteIndexed
  <2>5. ~WriteTombstone(t)
      BY <1>3 DEF WriteTombstone
  <2> QED
      BY <1>1, <2>2, <2>3, <2>4, <2>5, ServeCases
<1> QED
    BY <1>2, <1>3

LEMMA NextIndexInvariant ==
    RegistryIInv /\ IndexIInv /\ [Next]_allVars => RegistryIInv' /\ IndexIInv'
<1> SUFFICES ASSUME RegistryIInv, IndexIInv, [Next]_allVars
             PROVE  RegistryIInv' /\ IndexIInv'
    OBVIOUS
<1>1. RegistryIInv'
    BY RegistrySteps, NextInvariant
<1>2. faults \in 0..MaxFaults
    BY DEF IndexIInv, TypeOK
<1>3. CASE UNCHANGED allVars
  <2>1. /\ UNCHANGED vars /\ feed' = feed /\ index' = index /\ batch' = batch
        /\ step' = step /\ faults' = faults /\ spoiled' = spoiled /\ store' = store
      BY <1>3 DEF allVars, indexVars, vars
  <2>2. \A e \in Entity :
            /\ DeletedConsistent(e)'
            /\ Followed(e) \/ e \in spoiled => Followed(e)' \/ e \in spoiled'
      BY <2>1, SameBatchKeeps
  <2>3. BatchConsistent'
    <3>1. Ids("tombstone")' = Ids("tombstone") /\ BatchConsistent
        BY <2>1 DEF Ids, IndexIInv
    <3> QED
        BY <2>1, <3>1 DEF BatchConsistent
  <2>4. /\ feed \in Seq(Item) /\ index \in [Entity -> 0..MaxVersion]
        /\ batch \in Seq(Change) /\ step \in {"idle", "upsert", "delete", "done"}
        /\ spoiled \subseteq Entity
      BY DEF IndexIInv, TypeOK
  <2> QED
      BY <1>1, <1>2, <2>1, <2>2, <2>3, <2>4, IndexerFrame
<1>4. ASSUME NEW t \in Tab, ServeIndexed(t) PROVE IndexIInv'
    BY <1>1, <1>4, ServeIndexedKeeps
<1>5. ASSUME NEW t \in Tab, RegistryStep(Browse(t)) /\ UNCHANGED <<feed, faults>>
      PROVE  IndexIInv'
  <2>1. Quiet(t)
      BY <1>5, BrowseQuiet DEF RegistryStep
  <2> QED
      BY <1>1, <1>2, <1>5, <2>1, QuietKeeps DEF RegistryStep
<1>6. ASSUME NEW t \in Tab, RegistryStep(Die(t)) /\ UNCHANGED feed /\ Fault("die")
      PROVE  IndexIInv'
  <2>1. Quiet(t)
      BY <1>6, RefuseQuiet DEF RegistryStep, Die
  <2>2. faults' \in 0..MaxFaults
      BY <1>2, <1>6, FaultType
  <2> QED
      BY <1>1, <1>6, <2>1, <2>2, QuietKeeps DEF RegistryStep
<1>7. CASE Poll
    BY <1>1, <1>7, PollKeeps
<1>8. CASE Upload \/ UploadDrops
    BY <1>1, <1>2, <1>8, MergeOrUploadKeeps, FaultType DEF Upload, UploadDrops
<1>9. CASE Delete \/ DeleteDrops \/ Checkpoint
    BY <1>1, <1>2, <1>9, DeleteDocumentsKeeps, FaultType, CheckpointKeeps
    DEF Delete, DeleteDrops
<1>10. CASE Throw \/ GiveUp
    BY <1>1, <1>10, ThrowKeeps, GiveUpKeeps
<1>11. CASE Crash \/ TombstoneExpires
    BY <1>1, <1>11, CrashKeeps, TombstoneExpiresKeeps
<1> QED
    BY <1>1, <1>3, <1>4, <1>5, <1>6, <1>7, <1>8, <1>9, <1>10, <1>11 DEF Next, Indexer

\* While a delete that can still succeed stands between its tombstone and its
\* write, a tombstone is behind everything that could bring the entity back.
THEOREM IndexInvariant == Spec => [](RegistryIInv /\ IndexIInv)
<1>1. InitIndex => RegistryIInv /\ IndexIInv
    BY InitIndexInvariant
<1>2. (RegistryIInv /\ IndexIInv) /\ [Next]_allVars => (RegistryIInv /\ IndexIInv)'
    BY NextIndexInvariant
<1> QED
    BY <1>1, <1>2, PTL DEF Spec

\* The types of the feed, the index and the batch.
THEOREM IndexTypeCorrect == Spec => []TypeOK
<1>1. IndexIInv => TypeOK
    BY DEF IndexIInv
<1> QED
    BY <1>1, IndexInvariant, PTL

\* RegistryEntityIndexer applies upserts before deletes and a batch again after a
\* failure: what is deleted and still in the index has its tombstone to come, or a
\* fault took that, or the service has rejected the delete, or it was deleted
\* unread.
THEOREM DeletedLeavesIndex == Spec => []DeletedIsLeavingIndex
<1>1. IndexIInv => DeletedIsLeavingIndex
    BY DEF IndexIInv, DeletedConsistent, DeletedIsLeavingIndex
<1> QED
    BY <1>1, IndexInvariant, PTL

\* With its index the registry is still the registry: every theorem about it holds.
THEOREM IndexedRegistry == Spec => RegistrySpec
<1>1. InitIndex => Init
    BY DEF InitIndex
<1>2. [Next]_allVars => [RegistryNext]_vars
    BY RegistrySteps
<1> QED
    BY <1>1, <1>2, PTL DEF Spec, RegistrySpec
=============================================================================
