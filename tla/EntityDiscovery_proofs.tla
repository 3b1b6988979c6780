----------------------- MODULE EntityDiscovery_proofs -----------------------
(***************************************************************************)
(* Proofs about the catalog of a namespace under discovery, for any number  *)
(* of executions, clients and entities and for any capacity of the channel, *)
(* of the pool and of a page: what a discovery may take away, and what the  *)
(* catalog is when one has succeeded.                                       *)
(***************************************************************************)
EXTENDS EntityDiscovery, FiniteSetTheorems, TLAPS

-----------------------------------------------------------------------------
(* Types and bounds.                                                        *)
Types ==
    /\ azure \in [Entity -> 0..MaxVersion]
    /\ doc \in [Entity -> Document]
    /\ holders \in [Entity -> SUBSET (Run \cup Curator)]
    /\ now \in Nat
    /\ started \in [Run -> 0..now]
    /\ phase \in [Run -> Phases]
    /\ scope \in [Run -> Scopes]
    /\ item \in [Run -> [Entity -> Item]]
    /\ drainers \in [Run -> 0..Parallelism]
    /\ page \in [Run -> SUBSET Entity]
    /\ wanted \in [Curator -> Requests]
    /\ overlapped \in SUBSET Run
    /\ skipped \in [Run -> SUBSET Entity]
Bounds(x) ==
    /\ Cardinality(InStage(x, {"queued"})) <= Capacity
    /\ Cardinality(InStage(x, Writing)) <= drainers[x]
    /\ Cardinality(page[x]) <= PageSize

LEMMA TypesAndBounds == TypeOK <=> Types /\ \A x \in Run : Bounds(x)
    BY DEF TypeOK, Types, Bounds

LEMMA BoundsAreNatural ==
    MaxVersion \in Nat /\ Capacity \in Nat /\ Parallelism \in Nat /\ PageSize \in Nat
    BY BoundsAssumption

LEMMA DocumentFields ==
    ASSUME NEW d \in Document
    PROVE  /\ d.status \in Statuses /\ d.hash \in 0..MaxVersion /\ d.lastSeen \in Nat
           /\ d.firstSeen \in Nat /\ d.curated \in Curator \cup {Nobody}
    BY DEF Document

LEMMA ItemFields ==
    ASSUME NEW i \in Item
    PROVE  i.stage \in Stages /\ i.version \in 0..MaxVersion
    BY DEF Item

LEMMA NoDocumentType == NoDocument \in Document /\ NoDocument.hash = 0
                        /\ NoDocument.lastSeen = 0
<1>1. 0 \in 0..MaxVersion /\ 0 \in Nat
    BY BoundsAreNatural
<1> QED
    BY <1>1 DEF NoDocument, Document, Statuses

LEMMA UnlistedType == Unlisted \in Item /\ Unlisted.stage = "unlisted"
<1>1. 0 \in 0..MaxVersion
    BY BoundsAreNatural
<1> QED
    BY <1>1 DEF Unlisted, Item, Stages, Writing

LEMMA EntitiesAreInScopes == Entity = InScope(1) \cup InScope(2) \cup InScope(3)
    BY DEF Entity, InScope

-----------------------------------------------------------------------------
(* The sizes of sets of entities.                                           *)
LEMMA StagesAreFinite ==
    ASSUME NEW S \in SUBSET Entity
    PROVE  IsFiniteSet(S) /\ Cardinality(S) \in Nat
    BY ScopesAssumption, FS_Subset, FS_CardinalityType

LEMMA OneMore ==
    ASSUME NEW S \in SUBSET Entity, NEW e \in Entity, NEW n \in Nat, Cardinality(S) < n
    PROVE  Cardinality(S \cup {e}) <= n
    BY StagesAreFinite, FS_AddElement

LEMMA OneLess ==
    ASSUME NEW S \in SUBSET Entity, NEW e \in S
    PROVE  Cardinality(S \ {e}) = Cardinality(S) - 1
    BY StagesAreFinite, FS_RemoveElement

LEMMA NoMore ==
    ASSUME NEW S \in SUBSET Entity, NEW T \in SUBSET S
    PROVE  Cardinality(T) <= Cardinality(S)
    BY StagesAreFinite, FS_Subset

(* The stage of one item changes.                                           *)
LEMMA StageSets ==
    ASSUME Types, NEW x \in Run, NEW e \in Entity, NEW i,
           item' = [item EXCEPT ![x][e] = i]
    PROVE  /\ InStage(x, {"queued"})' = IF i.stage = "queued"
                                        THEN InStage(x, {"queued"}) \cup {e}
                                        ELSE InStage(x, {"queued"}) \ {e}
           /\ InStage(x, Writing)' = IF i.stage \in Writing
                                     THEN InStage(x, Writing) \cup {e}
                                     ELSE InStage(x, Writing) \ {e}
<1>1. /\ item'[x][e] = i
      /\ \A f \in Entity : f # e => item'[x][f] = item[x][f]
    BY DEF Types
<1>2. /\ InStage(x, {"queued"})' = {f \in Entity : item'[x][f].stage \in {"queued"}}
      /\ InStage(x, Writing)' = {f \in Entity : item'[x][f].stage \in Writing}
    BY DEF InStage, Writing
<1>3. ASSUME NEW S
      PROVE  {f \in Entity : item'[x][f].stage \in S} = IF i.stage \in S
                                                      THEN InStage(x, S) \cup {e}
                                                      ELSE InStage(x, S) \ {e}
  <2>1. CASE i.stage \in S
      BY <1>1, <2>1 DEF InStage
  <2>2. CASE i.stage \notin S
      BY <1>1, <2>2 DEF InStage
  <2> QED
      BY <2>1, <2>2
<1>4. {f \in Entity : item'[x][f].stage \in {"queued"}} =
          IF i.stage = "queued" THEN InStage(x, {"queued"}) \cup {e}
                                ELSE InStage(x, {"queued"}) \ {e}
    BY <1>3
<1> QED
    BY <1>2, <1>3, <1>4

-----------------------------------------------------------------------------
LEMMA InitInvariant == Init => DiscoveryIInv
<1> SUFFICES ASSUME Init PROVE DiscoveryIInv
    OBVIOUS
<1>1. \A x \in Run : phase[x] = "idle" /\ scope[x] = 1 /\ page[x] = {}
                     /\ drainers[x] = Parallelism
    BY DEF Init
<1>2. \A x \in Run, e \in Entity : item[x][e] = Unlisted /\ item[x][e].stage = "unlisted"
    BY UnlistedType DEF Init
<1>3. \A e \in Entity : doc[e] \in Document /\ doc[e].lastSeen = 0
                        /\ (~Exists(e) => doc[e].hash = 0)
  <2> SUFFICES ASSUME NEW e \in Entity
               PROVE  /\ doc[e] \in Document /\ doc[e].lastSeen = 0
                      /\ ~Exists(e) => doc[e].hash = 0
      OBVIOUS
  <2>1. doc[e] \in {NoDocument} \cup Earlier
      BY DEF Init
  <2>2. CASE doc[e] = NoDocument
      BY <2>2, NoDocumentType
  <2>3. CASE doc[e] \in Earlier
    <3>1. doc[e] \in Document
        BY <2>3, BoundsAreNatural DEF Earlier, Document
    <3>2. doc[e].status # "none" /\ doc[e].lastSeen = 0
        BY <2>3 DEF Earlier
    <3> QED
        BY <3>1, <3>2 DEF Exists
  <2> QED
      BY <2>1, <2>2, <2>3
<1>4. Types
  <2>1. doc \in [Entity -> Document]
      BY <1>3 DEF Init
  <2>2. item \in [Run -> [Entity -> Item]]
      BY UnlistedType DEF Init
  <2>3. /\ drainers \in [Run -> 0..Parallelism] /\ now \in Nat /\ started \in [Run -> 0..now]
        /\ scope \in [Run -> Scopes] /\ wanted \in [Curator -> Requests]
      BY BoundsAreNatural DEF Init, Scopes, Requests
  <2> QED
      BY <2>1, <2>2, <2>3 DEF Types, Init, Phases
<1>5. ASSUME NEW x \in Run PROVE Bounds(x)
  <2>1. InStage(x, {"queued"}) = {} /\ InStage(x, Writing) = {}
      BY <1>2 DEF InStage, Writing
  <2> QED
      BY <1>1, <2>1, BoundsAreNatural, FS_EmptySet DEF Bounds
<1>6. TypeOK
    BY <1>4, <1>5, TypesAndBounds
<1>7. SuccessMeansCatalog
    BY <1>1 DEF SuccessMeansCatalog
<1>8. \A e \in Entity : DocumentConsistent(e)
    BY <1>3 DEF DocumentConsistent, Init
<1>9. \A x \in Run : ExecutionConsistent(x)
    BY <1>1 DEF ExecutionConsistent, Running, Draining, Alone, Scopes
<1>10. \A x \in Run, e \in Entity : ItemConsistent(x, e)
    BY <1>1, <1>2 DEF ItemConsistent, Alone
<1> QED
    BY <1>6, <1>7, <1>8, <1>9, <1>10 DEF DiscoveryIInv

-----------------------------------------------------------------------------
(* What holds of an execution that is alone.                                *)
LEMMA InvariantFacts ==
    ASSUME DiscoveryIInv
    PROVE  /\ Types /\ SuccessMeansCatalog /\ \A x \in Run : Bounds(x)
           /\ \A e \in Entity : DocumentConsistent(e)
           /\ \A x \in Run : ExecutionConsistent(x)
           /\ \A x \in Run, e \in Entity : ItemConsistent(x, e)
    BY TypesAndBounds DEF DiscoveryIInv

LEMMA AloneWhileRunning ==
    ASSUME DiscoveryIInv, NEW x \in Run, Running(x)
    PROVE  \A y \in Run : y # x => ~Alone(y)
    BY InvariantFacts DEF ExecutionConsistent

(* Documents change, or who holds them, and no item does: what a client      *)
(* does, and a sweep.                                                       *)
LEMMA DocumentStep ==
    ASSUME DiscoveryIInv,
           UNCHANGED <<now, started, phase, scope, item, drainers, overlapped>>,
           azure' \in [Entity -> 0..MaxVersion], wanted' \in [Curator -> Requests],
           doc' \in [Entity -> Document], holders' \in [Entity -> SUBSET (Run \cup Curator)],
           page' \in [Run -> SUBSET Entity], skipped' \in [Run -> SUBSET Entity],
           \A x \in Run : skipped[x] \subseteq skipped'[x],
           \A x \in Run : Cardinality(page'[x]) <= PageSize,
           \A e \in Entity : /\ doc'[e].hash = doc[e].hash
                             /\ doc'[e].lastSeen = doc[e].lastSeen
                             /\ Exists(e) => doc'[e].status # "none"
                             /\ doc'[e].status = "Active" => doc[e].status = "Active",
           \A x \in Run : \A e \in page'[x] :
               /\ e \in page[x] \/ phase[x] = "sweep"
               /\ x \in holders'[e] => \/ e \in Stale(x)'
                                       \/ e \in page[x] /\ x \in holders[e] /\ doc'[e] = doc[e]
    PROVE  DiscoveryIInv'
<1>1. /\ Types /\ SuccessMeansCatalog /\ \A x \in Run : Bounds(x)
      /\ \A e \in Entity : DocumentConsistent(e)
      /\ \A x \in Run : ExecutionConsistent(x)
      /\ \A x \in Run, e \in Entity : ItemConsistent(x, e)
    BY InvariantFacts
<1>2. TypeOK'
  <2>1. Types'
      BY <1>1 DEF Types
  <2>2. \A x \in Run : Bounds(x)'
      BY <1>1 DEF Bounds, InStage
  <2> QED
      BY <2>1, <2>2 DEF TypeOK, Types, Bounds
<1>3. \A x \in Run : /\ Alone(x)' <=> Alone(x)
                     /\ Running(x)' <=> Running(x)
    BY DEF Alone, Running, Draining
<1>4. \A e \in Entity : Exists(e) => Exists(e)'
    BY DEF Exists
<1>5. SuccessMeansCatalog'
    BY <1>1, <1>4 DEF SuccessMeansCatalog
<1>6. \A e \in Entity : DocumentConsistent(e)'
    BY <1>1, <1>4 DEF DocumentConsistent
<1>7. \A x \in Run : ExecutionConsistent(x)'
    BY <1>1, <1>3 DEF ExecutionConsistent, InStage
<1>8. ASSUME NEW x \in Run, NEW e \in Entity PROVE ItemConsistent(x, e)'
  <2>1. ItemConsistent(x, e)
      BY <1>1
  <2>2. e \in page[x] => phase[x] = "sweep" /\ (x \in holders[e] => e \in Stale(x))
      BY <2>1 DEF ItemConsistent
  <2>3. doc'[e] = doc[e] /\ e \in Stale(x) => e \in Stale(x)'
      BY DEF Stale
  <2>4. e \in page'[x] => phase'[x] = "sweep" /\ (x \in holders'[e] => e \in Stale(x)')
      BY <2>2, <2>3
  <2> QED
      BY <1>3, <1>4, <2>1, <2>4 DEF ItemConsistent
<1> QED
    BY <1>2, <1>5, <1>6, <1>7, <1>8 DEF DiscoveryIInv

(* An execution that drains changes one of its items, and no document.       *)
LEMMA ItemStep ==
    ASSUME DiscoveryIInv, NEW x \in Run, NEW e \in Entity, NEW i \in Item, Draining(x),
           item' = [item EXCEPT ![x][e] = i],
           UNCHANGED <<azure, doc, holders, now, started, phase, scope, page,
                       overlapped, skipped, wanted>>,
           drainers' \in [Run -> 0..Parallelism],
           \A y \in Run : y # x => drainers'[y] = drainers[y],
           Cardinality(InStage(x, {"queued"})') <= Capacity,
           Cardinality(InStage(x, Writing)') <= drainers'[x],
           i.stage \notin {"unlisted", "written"}, item[x][e].stage # "written",
           i.stage \in {"Updated", "Unchanged", "raced"} => Exists(e),
           i.stage = "Unchanged" => doc[e].hash = i.version
    PROVE  DiscoveryIInv'
<1>1. /\ Types /\ SuccessMeansCatalog /\ \A y \in Run : Bounds(y)
      /\ \A f \in Entity : DocumentConsistent(f)
      /\ \A y \in Run : ExecutionConsistent(y)
      /\ \A y \in Run, f \in Entity : ItemConsistent(y, f)
    BY InvariantFacts
<1>2. /\ item' \in [Run -> [Entity -> Item]] /\ item'[x][e] = i
      /\ \A f \in Entity : f # e => item'[x][f] = item[x][f]
      /\ \A y \in Run : y # x => item'[y] = item[y]
    BY <1>1 DEF Types
<1>3. \A y \in Run, S \in {{"queued"}, Writing} : y # x => InStage(y, S)' = InStage(y, S)
    BY <1>2 DEF InStage
<1>4. TypeOK'
  <2>1. Types'
      BY <1>1, <1>2 DEF Types
  <2>2. ASSUME NEW y \in Run PROVE Bounds(y)'
      BY <1>1, <1>3 DEF Bounds
  <2> QED
      BY <2>1, <2>2 DEF TypeOK, Types, Bounds
<1>5. /\ \A y \in Run : (Alone(y)' <=> Alone(y)) /\ (Running(y)' <=> Running(y))
      /\ \A f \in Entity : Exists(f)' <=> Exists(f)
      /\ \A y \in Run : Stale(y)' = Stale(y)
    BY DEF Alone, Running, Draining, Exists, Stale
<1>6. SuccessMeansCatalog'
  <2>1. phase[x] # "succeeded"
      BY DEF Draining
  <2> QED
      BY <1>1, <1>2, <1>5, <2>1 DEF SuccessMeansCatalog
<1>7. \A f \in Entity : DocumentConsistent(f)'
    BY <1>1, <1>5 DEF DocumentConsistent
<1>8. ASSUME NEW y \in Run PROVE ExecutionConsistent(y)'
  <2>1. InStage(y, {"unlisted"})' \subseteq InStage(y, {"unlisted"})
      BY <1>2 DEF InStage
  <2>2. \A k \in Scopes : k < scope[y] =>
            InScope(k) \cap InStage(y, {"unlisted"})' = {}
      BY <1>1, <2>1 DEF ExecutionConsistent
  <2> QED
      BY <1>1, <1>5, <2>2 DEF ExecutionConsistent
<1>9. ASSUME NEW y \in Run, NEW f \in Entity PROVE ItemConsistent(y, f)'
  <2>1. CASE y = x /\ f = e
    <3>1. ItemConsistent(x, e) /\ phase[x] \notin {"idle", "sweep", "succeeded"}
        BY <1>1 DEF Draining
    <3> QED
        BY <1>2, <1>5, <2>1, <3>1 DEF ItemConsistent
  <2>2. CASE y # x \/ f # e
    <3>1. ItemConsistent(y, f) /\ item'[y][f] = item[y][f]
        BY <1>1, <1>2, <2>2
    <3> QED
        BY <1>5, <3>1 DEF ItemConsistent
  <2> QED
      BY <2>1, <2>2
<1> QED
    BY <1>4, <1>6, <1>7, <1>8, <1>9 DEF DiscoveryIInv

(* An execution that drains ends an item with a write of its document.       *)
LEMMA UpsertKeeps ==
    ASSUME DiscoveryIInv, NEW x \in Run, NEW e \in Entity, NEW stage \in Writing,
           NEW d \in Document, Upsert(x, e, stage, d),
           d.status # "none", d.lastSeen = started[x],
           Alone(x) => d.hash = item[x][e].version
    PROVE  DiscoveryIInv'
<1>1. /\ Types /\ SuccessMeansCatalog /\ \A y \in Run : Bounds(y)
      /\ \A f \in Entity : DocumentConsistent(f)
      /\ \A y \in Run : ExecutionConsistent(y)
      /\ \A y \in Run, f \in Entity : ItemConsistent(y, f)
    BY InvariantFacts
<1> DEFINE i == [item[x][e] EXCEPT !.stage = "written"]
<1>2. /\ Draining(x) /\ item[x][e].stage = stage
      /\ doc' = [doc EXCEPT ![e] = d] /\ holders' = [holders EXCEPT ![e] = {}]
      /\ item' = [item EXCEPT ![x][e] = i]
      /\ UNCHANGED <<azure, now, started, phase, scope, drainers, page, overlapped,
                     skipped, wanted>>
    BY DEF Upsert, Write, SetStage
<1>3. i \in Item /\ i.stage = "written" /\ i.version = item[x][e].version
  <2>1. item[x][e] \in Item
      BY <1>1 DEF Types
  <2> QED
      BY <2>1 DEF Item, Stages
<1> HIDE DEF i
<1>4. /\ item' \in [Run -> [Entity -> Item]] /\ item'[x][e] = i
      /\ \A f \in Entity : f # e => item'[x][f] = item[x][f]
      /\ \A y \in Run : y # x => item'[y] = item[y]
    BY <1>1, <1>2, <1>3 DEF Types
<1>5. /\ doc' \in [Entity -> Document] /\ doc'[e] = d
      /\ holders' \in [Entity -> SUBSET (Run \cup Curator)] /\ holders'[e] = {}
      /\ \A f \in Entity : f # e => doc'[f] = doc[f] /\ holders'[f] = holders[f]
    BY <1>1, <1>2 DEF Types
<1>6. TypeOK'
  <2>1. Types'
      BY <1>1, <1>2, <1>4, <1>5 DEF Types
  <2>2. ASSUME NEW y \in Run, NEW S \in {{"queued"}, Writing}
        PROVE  Cardinality(InStage(y, S)') <= Cardinality(InStage(y, S))
    <3>1. InStage(y, S)' \subseteq InStage(y, S)
        BY <1>3, <1>4 DEF InStage, Writing
    <3>2. InStage(y, S) \subseteq Entity
        BY DEF InStage
    <3> QED
        BY <3>1, <3>2, NoMore
  <2>3. ASSUME NEW y \in Run PROVE Bounds(y)'
    <3>1. /\ InStage(y, {"queued"}) \in SUBSET Entity /\ InStage(y, Writing) \in SUBSET Entity
          /\ InStage(y, {"queued"})' \in SUBSET Entity /\ InStage(y, Writing)' \in SUBSET Entity
        BY DEF InStage
    <3>2. /\ Cardinality(InStage(y, {"queued"})) \in Nat
          /\ Cardinality(InStage(y, Writing)) \in Nat
          /\ Cardinality(InStage(y, {"queued"})') \in Nat
          /\ Cardinality(InStage(y, Writing)') \in Nat
          /\ drainers[y] \in Nat /\ Capacity \in Nat
        BY <1>1, <3>1, StagesAreFinite, BoundsAreNatural DEF Types
    <3>3. /\ Cardinality(InStage(y, {"queued"})') <= Cardinality(InStage(y, {"queued"}))
          /\ Cardinality(InStage(y, Writing)') <= Cardinality(InStage(y, Writing))
        BY <2>2
    <3> QED
        BY <1>1, <1>2, <3>2, <3>3 DEF Bounds
  <2> QED
      BY <2>1, <2>3 DEF TypeOK, Types, Bounds
<1>7. /\ \A y \in Run : (Alone(y)' <=> Alone(y)) /\ (Running(y)' <=> Running(y))
      /\ \A f \in Entity : Exists(f) => Exists(f)'
      /\ Exists(e)'
      /\ \A y \in Run, f \in Entity : f # e /\ f \in Stale(y) => f \in Stale(y)'
    BY <1>2, <1>5 DEF Alone, Running, Draining, Exists, Stale
<1>8. \A y \in Run : y # x => ~Alone(y)
    BY <1>2, AloneWhileRunning DEF Running
<1>9. SuccessMeansCatalog'
  <2>1. phase[x] # "succeeded"
      BY <1>2 DEF Draining
  <2>2. \A y \in Run : y # x /\ phase[y] = "succeeded" =>
            y \in overlapped \/ started[y] # now
      BY <1>8 DEF Alone
  <2> QED
      BY <1>2, <2>1, <2>2 DEF SuccessMeansCatalog
<1>10. ASSUME NEW f \in Entity PROVE DocumentConsistent(f)'
  <2>1. started[x] <= now /\ started[x] \in Nat
      BY <1>1 DEF Types
  <2> QED
      BY <1>1, <1>2, <1>5, <1>7, <2>1 DEF DocumentConsistent
<1>11. ASSUME NEW y \in Run PROVE ExecutionConsistent(y)'
  <2>1. InStage(y, {"unlisted"})' \subseteq InStage(y, {"unlisted"})
      BY <1>3, <1>4 DEF InStage
  <2>2. \A k \in Scopes : k < scope[y] =>
            InScope(k) \cap InStage(y, {"unlisted"})' = {}
      BY <1>1, <2>1 DEF ExecutionConsistent
  <2> QED
      BY <1>1, <1>2, <1>7, <2>2 DEF ExecutionConsistent
<1>12. ASSUME NEW y \in Run, NEW f \in Entity PROVE ItemConsistent(y, f)'
  <2>1. ItemConsistent(y, f)
      BY <1>1
  <2>2. CASE y = x /\ f = e
      BY <1>2, <1>3, <1>4, <1>5, <1>7, <2>1, <2>2 DEF ItemConsistent, Draining
  <2>3. CASE f # e
      BY <1>2, <1>4, <1>5, <1>7, <2>1, <2>3 DEF ItemConsistent
  <2>4. CASE y # x /\ f = e
    <3>1. ~Alone(y) /\ ~Alone(y)' /\ item'[y][f] = item[y][f] /\ holders'[f] = {}
        BY <1>4, <1>5, <1>7, <1>8, <2>4
    <3> QED
        BY <1>2, <1>7, <2>1, <2>4, <3>1 DEF ItemConsistent
  <2> QED
      BY <2>2, <2>3, <2>4
<1> QED
    BY <1>6, <1>9, <1>10, <1>11, <1>12 DEF DiscoveryIInv

(* An execution goes to another phase; what waited in the channel may be    *)
(* dropped.                                                                 *)
LEMMA PhaseStep ==
    ASSUME DiscoveryIInv, NEW x \in Run, NEW p \in Phases, p # "idle", Running(x), Goto(x, p),
           UNCHANGED <<azure, doc, holders, now, started, drainers, overlapped, skipped,
                       wanted>>,
           item' \in [Run -> [Entity -> Item]], page' \in [Run -> SUBSET Entity],
           scope' \in [Run -> Scopes],
           \A y \in Run : y # x => item'[y] = item[y] /\ page'[y] = page[y] /\ scope'[y] = scope[y],
           \A f \in Entity : \/ item'[x][f] = item[x][f]
                             \/ item[x][f].stage = "queued" /\ item'[x][f].stage = "lost",
           page'[x] \subseteq page[x], page'[x] # {} => p = "sweep",
           \A k \in Scopes : k < scope'[x] => InScope(k) \cap InStage(x, {"unlisted"}) = {},
           p \in {"close", "sweep", "succeeded"} =>
               \A f \in Entity : item'[x][f].stage # "unlisted",
           p \in {"sweep", "succeeded"} =>
               \A f \in Entity : item'[x][f].stage \in {"absent", "written", "lost"},
           p = "succeeded" /\ x \notin overlapped => Stale(x) \subseteq skipped[x]
    PROVE  DiscoveryIInv'
<1>1. /\ Types /\ SuccessMeansCatalog /\ \A y \in Run : Bounds(y)
      /\ \A f \in Entity : DocumentConsistent(f)
      /\ \A y \in Run : ExecutionConsistent(y)
      /\ \A y \in Run, f \in Entity : ItemConsistent(y, f)
    BY InvariantFacts
<1>2. /\ phase' \in [Run -> Phases] /\ phase'[x] = p
      /\ \A y \in Run : y # x => phase'[y] = phase[y]
    BY <1>1 DEF Types, Goto
<1>3. TypeOK'
  <2>1. Types'
      BY <1>1, <1>2 DEF Types
  <2>2. ASSUME NEW y \in Run PROVE Bounds(y)'
    <3>1. /\ InStage(y, {"queued"})' \subseteq InStage(y, {"queued"})
          /\ InStage(y, Writing)' \subseteq InStage(y, Writing)
          /\ page'[y] \subseteq page[y]
        BY DEF InStage, Writing
    <3>2. /\ InStage(y, {"queued"}) \in SUBSET Entity /\ InStage(y, Writing) \in SUBSET Entity
          /\ page[y] \in SUBSET Entity
        BY <1>1 DEF InStage, Types
    <3>3. /\ InStage(y, {"queued"})' \in SUBSET Entity /\ InStage(y, Writing)' \in SUBSET Entity
          /\ page'[y] \in SUBSET Entity
        BY <3>1, <3>2
    <3>4. /\ Cardinality(InStage(y, {"queued"})') <= Cardinality(InStage(y, {"queued"}))
          /\ Cardinality(InStage(y, Writing)') <= Cardinality(InStage(y, Writing))
          /\ Cardinality(page'[y]) <= Cardinality(page[y])
        BY <3>1, <3>2, NoMore
    <3>5. /\ Cardinality(InStage(y, {"queued"})) \in Nat /\ Cardinality(page[y]) \in Nat
          /\ Cardinality(InStage(y, Writing)) \in Nat /\ Cardinality(page'[y]) \in Nat
          /\ Cardinality(InStage(y, {"queued"})') \in Nat
          /\ Cardinality(InStage(y, Writing)') \in Nat
        BY <3>2, <3>3, StagesAreFinite
    <3>6. drainers[y] \in Nat /\ drainers'[y] = drainers[y]
        BY <1>1 DEF Types
    <3> QED
        BY <1>1, <3>4, <3>5, <3>6, BoundsAreNatural DEF Bounds
  <2> QED
      BY <2>1, <2>2 DEF TypeOK, Types, Bounds
<1>4. /\ \A y \in Run : (Alone(y)' <=> Alone(y)) /\ (Running(y)' => Running(y))
      /\ \A f \in Entity : Exists(f)' <=> Exists(f)
      /\ \A y \in Run : Stale(y)' = Stale(y)
  <2>1. phase[x] # "idle" /\ phase'[x] # "idle"
      BY <1>2 DEF Running, Draining
  <2> QED
      BY <1>2, <2>1 DEF Alone, Running, Draining, Exists, Stale
<1>5. SuccessMeansCatalog'
  <2> SUFFICES ASSUME NEW y \in Run, phase'[y] = "succeeded", y \notin overlapped,
                      started[y] = now, NEW e \in Entity
               PROVE  /\ item'[y][e].stage \in {"absent", "written", "lost"}
                      /\ item'[y][e].stage = "written" =>
                             Exists(e)' /\ doc'[e].hash = item'[y][e].version
                      /\ item'[y][e].stage = "absent" /\ doc'[e].status = "Active" =>
                             e \in skipped'[y]
      BY DEF SuccessMeansCatalog
  <2>1. CASE y # x
      BY <1>1, <1>2, <1>4, <2>1 DEF SuccessMeansCatalog
  <2>2. CASE y = x
    <3>1. Alone(x) /\ ItemConsistent(x, e)
        BY <1>1, <2>2 DEF Alone, Running, Draining
    <3>2. CASE item'[x][e].stage = "written"
      <4>1. item'[x][e] = item[x][e]
          BY <3>2
      <4> QED
          BY <1>4, <2>2, <3>1, <3>2, <4>1 DEF ItemConsistent
    <3>3. CASE item'[x][e].stage = "absent"
      <4>1. item'[x][e] = item[x][e] /\ Stale(x) \subseteq skipped[x]
          BY <1>2, <2>2, <3>3
      <4>2. doc[e].lastSeen < started[x]
          BY <3>1, <3>3, <4>1 DEF ItemConsistent
      <4>3. doc[e].status = "Active" => e \in skipped[x]
          BY <4>1, <4>2 DEF Stale
      <4> QED
          BY <2>2, <3>3, <4>3
    <3>4. item'[x][e].stage \in {"absent", "written", "lost"}
        BY <1>2, <2>2
    <3> QED
        BY <2>2, <3>2, <3>3, <3>4
  <2> QED
      BY <2>1, <2>2
<1>6. \A f \in Entity : DocumentConsistent(f)'
    BY <1>1, <1>4 DEF DocumentConsistent
<1>7. ASSUME NEW y \in Run PROVE ExecutionConsistent(y)'
  <2>1. InStage(y, {"unlisted"})' \subseteq InStage(y, {"unlisted"})
      BY DEF InStage
  <2>2. \A k \in Scopes : k < scope'[y] =>
            InScope(k) \cap InStage(y, {"unlisted"})' = {}
      BY <1>1, <2>1 DEF ExecutionConsistent
  <2> QED
      BY <1>1, <1>4, <2>2 DEF ExecutionConsistent
<1>8. ASSUME NEW y \in Run, NEW f \in Entity PROVE ItemConsistent(y, f)'
  <2>1. ItemConsistent(y, f)
      BY <1>1
  <2>2. CASE y # x
      BY <1>2, <1>4, <2>1, <2>2 DEF ItemConsistent
  <2>3. CASE y = x
    <3>1. f \in page'[x] => phase'[x] = "sweep" /\ (x \in holders'[f] => f \in Stale(x)')
        BY <1>2, <1>4, <2>1, <2>3 DEF ItemConsistent
    <3>2. CASE item'[x][f] = item[x][f]
        BY <1>2, <1>4, <2>1, <2>3, <3>1, <3>2 DEF ItemConsistent
    <3>3. CASE item[x][f].stage = "queued" /\ item'[x][f].stage = "lost"
        BY <1>2, <1>4, <2>1, <2>3, <3>1, <3>3 DEF ItemConsistent
    <3> QED
        BY <3>2, <3>3
  <2> QED
      BY <2>2, <2>3
<1> QED
    BY <1>3, <1>5, <1>6, <1>7, <1>8 DEF DiscoveryIInv

-----------------------------------------------------------------------------
(* One lemma per action: the execution.                                     *)
LEMMA StartKeeps ==
    ASSUME DiscoveryIInv, NEW x \in Run, Start(x)
    PROVE  DiscoveryIInv'
<1>1. /\ Types /\ SuccessMeansCatalog /\ \A y \in Run : Bounds(y)
      /\ \A f \in Entity : DocumentConsistent(f)
      /\ \A y \in Run : ExecutionConsistent(y)
      /\ \A y \in Run, f \in Entity : ItemConsistent(y, f)
    BY InvariantFacts
<1> DEFINE others == {y \in Run : Running(y)}
           met == IF others = {} THEN {} ELSE others \cup {x}
<1>2. /\ phase[x] = "idle" /\ now' = now + 1 /\ started' = [started EXCEPT ![x] = now + 1]
      /\ phase' = [phase EXCEPT ![x] = "stream"]
      /\ overlapped' = overlapped \cup met
      /\ UNCHANGED <<azure, doc, holders, scope, item, drainers, page, skipped, wanted>>
    BY DEF Start, Goto
<1>3. /\ phase' \in [Run -> Phases] /\ phase'[x] = "stream"
      /\ started'[x] = now' /\ now \in Nat /\ now' \in Nat /\ now < now'
      /\ \A y \in Run : y # x => phase'[y] = phase[y] /\ started'[y] = started[y]
      /\ \A y \in Run : started[y] \in 0..now /\ started[y] < now'
    BY <1>1, <1>2 DEF Types, Phases
<1>4. started' \in [Run -> 0..now']
    BY <1>1, <1>2, <1>3 DEF Types
<1>5. TypeOK'
  <2>1. Types'
      BY <1>1, <1>2, <1>3, <1>4 DEF Types
  <2>2. \A y \in Run : Bounds(y)'
      BY <1>1, <1>2 DEF Bounds, InStage
  <2> QED
      BY <2>1, <2>2 DEF TypeOK, Types, Bounds
<1>6. /\ \A y \in Run : y # x => ~Alone(y)'
      /\ Alone(x)' => others = {}
      /\ \A y \in Run : Running(y)' => y = x \/ y \in others
      /\ \A f \in Entity : Exists(f)' <=> Exists(f)
  <2>1. \A y \in Run : y # x => ~Alone(y)'
      BY <1>3 DEF Alone
  <2>2. Alone(x)' => others = {}
      BY <1>2 DEF Alone
  <2>3. \A y \in Run : Running(y)' => y = x \/ y \in others
      BY <1>3 DEF Running, Draining
  <2> QED
      BY <1>2, <2>1, <2>2, <2>3 DEF Exists
<1>7. SuccessMeansCatalog'
  <2>1. \A y \in Run : phase'[y] = "succeeded" => started'[y] # now'
      BY <1>3
  <2> QED
      BY <2>1 DEF SuccessMeansCatalog
<1>8. ASSUME NEW f \in Entity PROVE DocumentConsistent(f)'
  <2>1. doc[f].lastSeen \in Nat /\ doc[f].lastSeen <= now
      BY <1>1, DocumentFields DEF Types, DocumentConsistent
  <2> QED
      BY <1>1, <1>2, <1>3, <1>6, <2>1 DEF DocumentConsistent
<1>9. ASSUME NEW y \in Run PROVE ExecutionConsistent(y)'
  <2>1. \A k \in Scopes : k < scope'[y] => InScope(k) \cap InStage(y, {"unlisted"})' = {}
      BY <1>1, <1>2 DEF ExecutionConsistent, InStage
  <2>2. Running(y)' => y \in overlapped' \/ started'[y] = now'
      BY <1>2, <1>3, <1>6
  <2>3. Alone(y)' => \A z \in Run \ {y} : ~Running(z)'
      BY <1>6
  <2> QED
      BY <2>1, <2>2, <2>3 DEF ExecutionConsistent
<1>10. ASSUME NEW y \in Run, NEW f \in Entity PROVE ItemConsistent(y, f)'
  <2>1. ItemConsistent(y, f) /\ item'[y][f] = item[y][f]
      BY <1>1, <1>2
  <2>2. CASE y # x
    <3>1. f \in page[y] => phase[y] = "sweep" /\ (y \in holders[f] => f \in Stale(y))
        BY <2>1 DEF ItemConsistent
    <3>2. f \in Stale(y) => f \in Stale(y)'
        BY <1>2, <1>3, <2>2 DEF Stale
    <3> QED
        BY <1>2, <1>3, <1>6, <2>1, <2>2, <3>1, <3>2 DEF ItemConsistent
  <2>3. CASE y = x
    <3>1. item[x][f].stage = "unlisted" /\ f \notin page[x]
        BY <1>2, <2>1, <2>3 DEF ItemConsistent
    <3>2. doc[f].lastSeen < now'
      <4>1. doc[f].lastSeen \in Nat /\ doc[f].lastSeen <= now
          BY <1>1, DocumentFields DEF Types, DocumentConsistent
      <4> QED
          BY <1>3, <4>1
    <3> QED
        BY <1>2, <1>3, <2>1, <2>3, <3>1, <3>2 DEF ItemConsistent
  <2> QED
      BY <2>2, <2>3
<1> QED
    BY <1>5, <1>7, <1>8, <1>9, <1>10 DEF DiscoveryIInv

LEMMA ListEntityKeeps ==
    ASSUME DiscoveryIInv, NEW x \in Run, NEW e \in Entity, ListEntity(x, e)
    PROVE  DiscoveryIInv'
<1>1. Types /\ Bounds(x)
    BY InvariantFacts
<1>2. /\ phase[x] = "stream" /\ item[x][e].stage = "unlisted" /\ Draining(x)
      /\ UNCHANGED <<azure, doc, holders, now, started, phase, scope, drainers, page,
                     overlapped, skipped, wanted>>
    BY DEF ListEntity, Draining
<1>3. PICK i : /\ item' = [item EXCEPT ![x][e] = i] /\ i \in Item
               /\ i.stage \in {"absent", "queued"}
               /\ i.stage = "queued" => ChannelHasRoom(x)
  <2>1. item[x][e] \in Item /\ azure[e] \in 0..MaxVersion
      BY <1>1 DEF Types
  <2> DEFINE absent == [item[x][e] EXCEPT !.stage = "absent"]
             queued == [stage |-> "queued", version |-> azure[e]]
  <2>2. absent \in Item /\ absent.stage = "absent"
      BY <2>1 DEF Item, Stages
  <2>3. queued \in Item /\ queued.stage = "queued"
      BY <2>1 DEF Item, Stages
  <2>4. \/ item' = [item EXCEPT ![x][e] = absent]
        \/ item' = [item EXCEPT ![x][e] = queued] /\ ChannelHasRoom(x)
      BY DEF ListEntity, SetStage
  <2> HIDE DEF absent, queued
  <2>5. CASE item' = [item EXCEPT ![x][e] = absent]
      BY <2>2, <2>5
  <2>6. CASE item' = [item EXCEPT ![x][e] = queued] /\ ChannelHasRoom(x)
      BY <2>3, <2>6
  <2> QED
      BY <2>4, <2>5, <2>6
<1>4. Cardinality(InStage(x, {"queued"})') <= Capacity
  <2>1. InStage(x, {"queued"}) \in SUBSET Entity
      BY DEF InStage
  <2>2. CASE i.stage = "absent"
    <3>1. InStage(x, {"queued"})' = InStage(x, {"queued"}) \ {e}
        BY <1>1, <1>3, <2>2, StageSets
    <3>2. e \notin InStage(x, {"queued"})
        BY <1>2 DEF InStage
    <3> QED
        BY <1>1, <3>1, <3>2 DEF Bounds
  <2>3. CASE i.stage = "queued"
    <3>1. InStage(x, {"queued"})' = InStage(x, {"queued"}) \cup {e}
        BY <1>1, <1>3, <2>3, StageSets
    <3> QED
        BY <1>3, <2>1, <2>3, <3>1, OneMore, BoundsAreNatural DEF ChannelHasRoom
  <2> QED
      BY <1>3, <2>2, <2>3
<1>5. Cardinality(InStage(x, Writing)') <= drainers'[x]
  <2>1. InStage(x, Writing)' = InStage(x, Writing) \ {e}
      BY <1>1, <1>3, StageSets DEF Writing
  <2>2. e \notin InStage(x, Writing)
      BY <1>2 DEF InStage, Writing
  <2> QED
      BY <1>1, <1>2, <2>1, <2>2 DEF Bounds
<1>6. drainers' \in [Run -> 0..Parallelism]
    BY <1>1, <1>2 DEF Types
<1> QED
    BY <1>2, <1>3, <1>4, <1>5, <1>6, ItemStep

LEMMA TakeAndReadKeeps ==
    ASSUME DiscoveryIInv, NEW x \in Run, NEW e \in Entity, TakeAndRead(x, e)
    PROVE  DiscoveryIInv'
<1>1. Types /\ Bounds(x) /\ DocumentConsistent(e)
    BY InvariantFacts
<1> DEFINE stage == Classify(doc[e].hash, item[x][e].version)
           i == [item[x][e] EXCEPT !.stage = stage]
<1>2. /\ Draining(x) /\ item[x][e].stage = "queued"
      /\ Cardinality(InStage(x, Writing)) < drainers[x]
      /\ item' = [item EXCEPT ![x][e] = i]
      /\ UNCHANGED <<azure, doc, holders, now, started, phase, scope, drainers, page,
                     overlapped, skipped, wanted>>
    BY DEF TakeAndRead, SetStage
<1>3. /\ stage \in {"New", "Unchanged", "Updated"}
      /\ stage \in {"Unchanged", "Updated"} => Exists(e)
      /\ stage = "Unchanged" => doc[e].hash = item[x][e].version
    BY <1>1 DEF Classify, DocumentConsistent
<1> HIDE DEF stage
<1>4. i \in Item /\ i.stage = stage /\ i.version = item[x][e].version
  <2>1. item[x][e] \in Item
      BY <1>1 DEF Types
  <2> QED
      BY <1>3, <2>1 DEF Item, Stages, Writing
<1> HIDE DEF i
<1>5. Cardinality(InStage(x, {"queued"})') <= Capacity
  <2>1. InStage(x, {"queued"})' = InStage(x, {"queued"}) \ {e}
      BY <1>1, <1>2, <1>3, <1>4, StageSets
  <2>2. InStage(x, {"queued"}) \in SUBSET Entity /\ e \in InStage(x, {"queued"})
      BY <1>2 DEF InStage
  <2>3. Cardinality(InStage(x, {"queued"})') = Cardinality(InStage(x, {"queued"})) - 1
      BY <2>1, <2>2, OneLess
  <2> QED
      BY <1>1, <2>2, <2>3, StagesAreFinite, BoundsAreNatural DEF Bounds
<1>6. Cardinality(InStage(x, Writing)') <= drainers'[x]
  <2>1. InStage(x, Writing)' = InStage(x, Writing) \cup {e}
      BY <1>1, <1>2, <1>3, <1>4, StageSets DEF Writing
  <2>2. InStage(x, Writing) \in SUBSET Entity /\ drainers[x] \in Nat
      BY <1>1 DEF InStage, Types
  <2> QED
      BY <1>2, <2>1, <2>2, OneMore
<1>7. drainers' \in [Run -> 0..Parallelism]
    BY <1>1, <1>2 DEF Types
<1> QED
    BY <1>2, <1>3, <1>4, <1>5, <1>6, <1>7, ItemStep

LEMMA TouchKeeps ==
    ASSUME DiscoveryIInv, NEW x \in Run, NEW e \in Entity, Touch(x, e)
    PROVE  DiscoveryIInv'
<1>1. Types /\ ItemConsistent(x, e)
    BY InvariantFacts
<1> DEFINE d == [doc[e] EXCEPT !.lastSeen = started[x]]
<1>2. Upsert(x, e, "Unchanged", d) /\ item[x][e].stage = "Unchanged"
    BY DEF Touch, Upsert
<1>3. doc[e] \in Document /\ started[x] \in Nat
    BY <1>1 DEF Types
<1>4. /\ d \in Document /\ d.status = doc[e].status /\ d.lastSeen = started[x]
      /\ d.hash = doc[e].hash
    BY <1>3 DEF Document
<1> HIDE DEF d
<1>5. d.status # "none" /\ (Alone(x) => d.hash = item[x][e].version)
    BY <1>1, <1>2, <1>4 DEF ItemConsistent, Exists
<1> QED
    BY <1>2, <1>4, <1>5, UpsertKeeps DEF Writing

LEMMA UpdateKeeps ==
    ASSUME DiscoveryIInv, NEW x \in Run, NEW e \in Entity, Update(x, e)
    PROVE  DiscoveryIInv'
<1>1. Types
    BY InvariantFacts
<1> DEFINE d == [doc[e] EXCEPT !.hash = item[x][e].version, !.lastSeen = started[x],
                               !.status = "Active"]
<1>2. Upsert(x, e, "Updated", d)
    BY DEF Update
<1>3. doc[e] \in Document /\ started[x] \in Nat /\ item[x][e] \in Item
    BY <1>1 DEF Types
<1>4. /\ d \in Document /\ d.status = "Active" /\ d.lastSeen = started[x]
      /\ d.hash = item[x][e].version
    BY <1>3, ItemFields DEF Document, Statuses
<1> HIDE DEF d
<1> QED
    BY <1>2, <1>4, UpsertKeeps DEF Writing

LEMMA PatchRacedKeeps ==
    ASSUME DiscoveryIInv, NEW x \in Run, NEW e \in Entity, PatchRaced(x, e)
    PROVE  DiscoveryIInv'
<1>1. Types /\ ItemConsistent(x, e)
    BY InvariantFacts
<1> DEFINE d == [doc[e] EXCEPT !.hash = item[x][e].version, !.lastSeen = started[x]]
<1>2. Upsert(x, e, "raced", d) /\ item[x][e].stage = "raced"
    BY DEF PatchRaced, Upsert
<1>3. doc[e] \in Document /\ started[x] \in Nat /\ item[x][e] \in Item
    BY <1>1 DEF Types
<1>4. /\ d \in Document /\ d.status = doc[e].status /\ d.lastSeen = started[x]
      /\ d.hash = item[x][e].version
    BY <1>3, ItemFields DEF Document
<1> HIDE DEF d
<1>5. d.status # "none"
    BY <1>1, <1>2, <1>4 DEF ItemConsistent, Exists
<1> QED
    BY <1>2, <1>4, <1>5, UpsertKeeps DEF Writing

LEMMA CreateKeeps ==
    ASSUME DiscoveryIInv, NEW x \in Run, NEW e \in Entity, Create(x, e)
    PROVE  DiscoveryIInv'
<1>1. Types /\ Bounds(x)
    BY InvariantFacts
<1>2. CASE ~Exists(e) /\ Upsert(x, e, "New", Created(x, e))
  <2>1. started[x] \in Nat /\ item[x][e] \in Item
      BY <1>1 DEF Types
  <2>2. /\ Created(x, e) \in Document /\ Created(x, e).status = "Active"
        /\ Created(x, e).lastSeen = started[x]
        /\ Created(x, e).hash = item[x][e].version
      BY <2>1, ItemFields DEF Created, Document, Statuses
  <2> QED
      BY <1>2, <2>2, UpsertKeeps DEF Writing
<1>3. CASE /\ Draining(x) /\ item[x][e].stage = "New" /\ Exists(e) /\ SetStage(x, e, "raced")
           /\ UNCHANGED <<azure, doc, holders, now, started, phase, scope, drainers, page,
                          overlapped, skipped, wanted>>
  <2> DEFINE i == [item[x][e] EXCEPT !.stage = "raced"]
  <2>1. item' = [item EXCEPT ![x][e] = i]
      BY <1>3 DEF SetStage
  <2>2. i \in Item /\ i.stage = "raced"
    <3>1. item[x][e] \in Item
        BY <1>1 DEF Types
    <3> QED
        BY <3>1 DEF Item, Stages, Writing
  <2> HIDE DEF i
  <2>3. Cardinality(InStage(x, {"queued"})') <= Capacity
    <3>1. InStage(x, {"queued"})' = InStage(x, {"queued"}) \ {e}
        BY <1>1, <2>1, <2>2, StageSets
    <3>2. e \notin InStage(x, {"queued"})
        BY <1>3 DEF InStage
    <3> QED
        BY <1>1, <3>1, <3>2 DEF Bounds
  <2>4. Cardinality(InStage(x, Writing)') <= drainers'[x]
    <3>1. InStage(x, Writing)' = InStage(x, Writing) \cup {e}
        BY <1>1, <2>1, <2>2, StageSets DEF Writing
    <3>2. e \in InStage(x, Writing)
        BY <1>3 DEF InStage, Writing
    <3> QED
        BY <1>1, <1>3, <3>1, <3>2 DEF Bounds
  <2>5. drainers' \in [Run -> 0..Parallelism]
      BY <1>1, <1>3 DEF Types
  <2> QED
      BY <1>3, <2>1, <2>2, <2>3, <2>4, <2>5, ItemStep
<1> QED
    BY <1>2, <1>3 DEF Create

LEMMA WriteLostKeeps ==
    ASSUME DiscoveryIInv, NEW x \in Run, NEW e \in Entity,
           WriteFails(x, e) \/ WriteCancelled(x, e)
    PROVE  DiscoveryIInv'
<1>1. Types /\ Bounds(x)
    BY InvariantFacts
<1> DEFINE i == [item[x][e] EXCEPT !.stage = "lost"]
<1>2. /\ Draining(x) /\ item[x][e].stage \in Writing /\ item' = [item EXCEPT ![x][e] = i]
      /\ drainers' \in {drainers, [drainers EXCEPT ![x] = @ - 1]}
      /\ UNCHANGED <<azure, doc, holders, now, started, phase, scope, page,
                     overlapped, skipped, wanted>>
    BY DEF WriteFails, WriteCancelled, SetStage
<1>3. i \in Item /\ i.stage = "lost"
  <2>1. item[x][e] \in Item
      BY <1>1 DEF Types
  <2> QED
      BY <2>1 DEF Item, Stages
<1> HIDE DEF i
<1>4. Cardinality(InStage(x, {"queued"})') <= Capacity
  <2>1. InStage(x, {"queued"})' = InStage(x, {"queued"}) \ {e}
      BY <1>1, <1>2, <1>3, StageSets
  <2>2. e \notin InStage(x, {"queued"})
      BY <1>2 DEF InStage, Writing
  <2> QED
      BY <1>1, <2>1, <2>2 DEF Bounds
<1>5. /\ Cardinality(InStage(x, Writing)') = Cardinality(InStage(x, Writing)) - 1
      /\ Cardinality(InStage(x, Writing)') \in Nat /\ Cardinality(InStage(x, Writing)) \in Nat
  <2>1. InStage(x, Writing)' = InStage(x, Writing) \ {e}
      BY <1>1, <1>2, <1>3, StageSets DEF Writing
  <2>2. InStage(x, Writing) \in SUBSET Entity /\ e \in InStage(x, Writing)
      BY <1>2 DEF InStage
  <2>3. InStage(x, Writing)' \in SUBSET Entity
      BY <2>1, <2>2
  <2> QED
      BY <2>1, <2>2, <2>3, OneLess, StagesAreFinite
<1>6. /\ drainers' \in [Run -> 0..Parallelism] /\ drainers[x] \in 0..Parallelism
      /\ drainers'[x] \in {drainers[x], drainers[x] - 1}
      /\ \A y \in Run : y # x => drainers'[y] = drainers[y]
  <2>1. drainers[x] \in 0..Parallelism /\ drainers[x] - 1 \in 0..Parallelism
      BY <1>1, <1>5, BoundsAreNatural DEF Bounds, Types
  <2> QED
      BY <1>1, <1>2, <2>1 DEF Types
<1>7. Cardinality(InStage(x, Writing)') <= drainers'[x]
    BY <1>1, <1>5, <1>6, BoundsAreNatural DEF Bounds
<1> QED
    BY <1>2, <1>3, <1>4, <1>6, <1>7, ItemStep DEF Writing

LEMMA ScopeCompletedKeeps ==
    ASSUME DiscoveryIInv, NEW x \in Run, ScopeCompleted(x)
    PROVE  DiscoveryIInv'
<1>1. Types /\ ExecutionConsistent(x) /\ \A f \in Entity : ItemConsistent(x, f)
    BY InvariantFacts
<1>2. /\ phase[x] = "stream" /\ Running(x)
      /\ InScope(scope[x]) \cap InStage(x, {"unlisted"}) = {}
      /\ UNCHANGED <<azure, doc, holders, now, started, item, drainers, page,
                     overlapped, skipped, wanted>>
    BY DEF ScopeCompleted, Running, Draining
<1>3. scope[x] \in 1..3 /\ page[x] = {} /\ phase \in [Run -> Phases]
  <2>1. \A f \in Entity : f \notin page[x]
      BY <1>1, <1>2 DEF ItemConsistent
  <2> QED
      BY <1>1, <2>1 DEF Types, Scopes
<1>4. \A k \in Scopes : k < scope[x] + 1 => InScope(k) \cap InStage(x, {"unlisted"}) = {}
  <2>1. \A k \in Scopes : k < scope[x] + 1 => k < scope[x] \/ k = scope[x]
      BY <1>3 DEF Scopes
  <2> QED
      BY <1>1, <1>2, <2>1 DEF ExecutionConsistent
<1>5. CASE scope[x] + 1 \in Scopes
  <2>1. scope' = [scope EXCEPT ![x] = scope[x] + 1] /\ phase' = phase
      BY <1>5 DEF ScopeCompleted
  <2>2. /\ scope' \in [Run -> Scopes] /\ scope'[x] = scope[x] + 1
        /\ \A y \in Run : y # x => scope'[y] = scope[y]
      BY <1>1, <1>5, <2>1 DEF Types
  <2>3. Goto(x, "stream") /\ "stream" \in Phases
      BY <1>2, <1>3, <2>1 DEF Goto, Phases
  <2>4. /\ item' \in [Run -> [Entity -> Item]] /\ page' \in [Run -> SUBSET Entity]
        /\ item' = item /\ page' = page
      BY <1>1, <1>2 DEF Types
  <2> QED
      BY <1>2, <1>3, <1>4, <2>2, <2>3, <2>4, PhaseStep
<1>6. CASE scope[x] + 1 \notin Scopes
  <2>1. Goto(x, "close") /\ "close" \in Phases /\ scope' = scope
      BY <1>6 DEF ScopeCompleted, Phases
  <2>2. \A k \in Scopes : InScope(k) \cap InStage(x, {"unlisted"}) = {}
      BY <1>3, <1>4, <1>6 DEF Scopes
  <2>3. \A f \in Entity : item'[x][f].stage # "unlisted"
    <3>1. /\ InScope(1) \cap InStage(x, {"unlisted"}) = {}
          /\ InScope(2) \cap InStage(x, {"unlisted"}) = {}
          /\ InScope(3) \cap InStage(x, {"unlisted"}) = {}
        BY <2>2 DEF Scopes
    <3>2. InStage(x, {"unlisted"}) \subseteq Entity
        BY DEF InStage
    <3>3. InStage(x, {"unlisted"}) = {}
        BY <3>1, <3>2, EntitiesAreInScopes
    <3> QED
        BY <1>2, <3>3 DEF InStage
  <2>4. /\ item' \in [Run -> [Entity -> Item]] /\ page' \in [Run -> SUBSET Entity]
        /\ scope' \in [Run -> Scopes] /\ item' = item /\ page' = page
      BY <1>1, <1>2, <2>1 DEF Types
  <2>5. \A k \in Scopes : k < scope'[x] => InScope(k) \cap InStage(x, {"unlisted"}) = {}
      BY <2>2
  <2> QED
      BY <1>2, <1>3, <2>1, <2>3, <2>4, <2>5, PhaseStep
<1> QED
    BY <1>5, <1>6

LEMMA CompleteAsyncKeeps ==
    ASSUME DiscoveryIInv, NEW x \in Run, CompleteAsync(x)
    PROVE  DiscoveryIInv'
<1>1. Types /\ ExecutionConsistent(x) /\ \A f \in Entity : ItemConsistent(x, f)
    BY InvariantFacts
<1> DEFINE after(i) == IF i.stage = "queued" THEN [i EXCEPT !.stage = "lost"] ELSE i
           p == IF phase[x] = "close" THEN "sweep" ELSE "failed"
<1>2. /\ phase[x] \in {"close", "abort"} /\ Running(x) /\ Goto(x, p)
      /\ InStage(x, Writing) = {}
      /\ item' = [item EXCEPT ![x] = [f \in Entity |-> after(item[x][f])]]
      /\ UNCHANGED <<azure, doc, holders, now, started, scope, drainers, page,
                     overlapped, skipped, wanted>>
    BY DEF CompleteAsync, AfterBatch, Dropped, Running, Draining
<1>3. p \in Phases /\ p \in {"sweep", "failed"} /\ (p = "sweep" => phase[x] = "close")
    BY DEF Phases
<1> HIDE DEF p
<1>4. ASSUME NEW i \in Item
      PROVE  /\ after(i) \in Item
             /\ after(i) = i \/ (i.stage = "queued" /\ after(i).stage = "lost")
             /\ after(i).stage # "queued"
    BY <1>4 DEF Item, Stages
<1> HIDE DEF after
<1>5. /\ item' \in [Run -> [Entity -> Item]]
      /\ \A f \in Entity : item[x][f] \in Item /\ item'[x][f] = after(item[x][f])
      /\ \A y \in Run : y # x => item'[y] = item[y]
  <2>1. \A f \in Entity : item[x][f] \in Item /\ after(item[x][f]) \in Item
      BY <1>1, <1>4 DEF Types
  <2>2. [f \in Entity |-> after(item[x][f])] \in [Entity -> Item]
      BY <2>1
  <2> QED
      BY <1>1, <1>2, <2>1, <2>2 DEF Types
<1>6. \A f \in Entity : \/ item'[x][f] = item[x][f]
                        \/ item[x][f].stage = "queued" /\ item'[x][f].stage = "lost"
    BY <1>4, <1>5
<1>7. ASSUME p = "sweep"
      PROVE  \A f \in Entity : item'[x][f].stage \in {"absent", "written", "lost"}
  <2> SUFFICES ASSUME NEW f \in Entity
               PROVE  item'[x][f].stage \in {"absent", "written", "lost"}
      OBVIOUS
  <2>1. item[x][f].stage # "unlisted"
      BY <1>1, <1>3, <1>7 DEF ItemConsistent
  <2>2. item[x][f].stage \notin Writing /\ item[x][f].stage \in Stages
      BY <1>2, <1>5, ItemFields DEF InStage
  <2>3. item'[x][f].stage # "queued"
      BY <1>4, <1>5
  <2> QED
      BY <1>6, <2>1, <2>2, <2>3 DEF Stages
<1>8. page[x] = {}
  <2>1. \A f \in Entity : f \notin page[x]
      BY <1>1, <1>2 DEF ItemConsistent
  <2> QED
      BY <1>1, <2>1 DEF Types
<1>9. /\ page' \in [Run -> SUBSET Entity] /\ scope' \in [Run -> Scopes]
      /\ page' = page /\ scope' = scope
      /\ \A k \in Scopes : k < scope'[x] => InScope(k) \cap InStage(x, {"unlisted"}) = {}
    BY <1>1, <1>2 DEF Types, ExecutionConsistent
<1> QED
    BY <1>2, <1>3, <1>5, <1>6, <1>7, <1>8, <1>9, PhaseStep

(* The execution ends, or dies: its page goes with it.                      *)
LEMMA EndKeeps ==
    ASSUME DiscoveryIInv, NEW x \in Run,
           \/ ScopeFails(x)
           \/ SweepFails(x)
           \/ Die(x)
           \/ SweepEnds(x)
    PROVE  DiscoveryIInv'
<1>1. Types /\ ExecutionConsistent(x) /\ \A f \in Entity : ItemConsistent(x, f)
    BY InvariantFacts
<1>2. ASSUME NEW p \in {"abort", "failed", "dead", "succeeded"}, Goto(x, p), Running(x),
             UNCHANGED <<azure, doc, holders, now, started, scope, item, drainers,
                         overlapped, skipped, wanted>>,
             page' \in {page, [page EXCEPT ![x] = {}]},
             page'[x] = {},
             p = "succeeded" => /\ phase[x] = "sweep"
                                /\ Candidates(x) = {} \/ x \in overlapped
      PROVE  DiscoveryIInv'
  <2>1. /\ page' \in [Run -> SUBSET Entity] /\ scope' \in [Run -> Scopes]
        /\ item' \in [Run -> [Entity -> Item]]
        /\ \A y \in Run : y # x => page'[y] = page[y]
      BY <1>1, <1>2 DEF Types
  <2>2. p \in Phases /\ p # "idle" /\ p \notin {"close", "sweep"}
      BY DEF Phases
  <2>3. \A k \in Scopes : k < scope'[x] => InScope(k) \cap InStage(x, {"unlisted"}) = {}
      BY <1>1, <1>2 DEF ExecutionConsistent
  <2>4. p = "succeeded" => \A f \in Entity : item'[x][f].stage \in {"absent", "written", "lost"}
      BY <1>1, <1>2 DEF ItemConsistent
  <2>5. p = "succeeded" /\ x \notin overlapped => Stale(x) \subseteq skipped[x]
      BY <1>2 DEF Candidates
  <2> QED
      BY <1>2, <2>1, <2>2, <2>3, <2>4, <2>5, PhaseStep
<1>3. CASE ScopeFails(x)
  <2>1. \A f \in Entity : f \notin page[x]
      BY <1>1, <1>3 DEF ItemConsistent, ScopeFails
  <2>2. page[x] = {}
      BY <1>1, <2>1 DEF Types
  <2> QED
      BY <1>2, <1>3, <2>2 DEF ScopeFails, Running, Draining
<1>4. CASE SweepFails(x)
  <2>1. page' = [page EXCEPT ![x] = {}] /\ page'[x] = {}
      BY <1>1, <1>4 DEF SweepFails, Types
  <2> QED
      BY <1>2, <1>4, <2>1 DEF SweepFails, Running
<1>5. CASE Die(x)
  <2>1. page' = [page EXCEPT ![x] = {}] /\ page'[x] = {}
      BY <1>1, <1>5 DEF Die, Types
  <2> QED
      BY <1>2, <1>5, <2>1 DEF Die
<1>6. CASE SweepEnds(x)
    BY <1>2, <1>6 DEF SweepEnds, Running
<1> QED
    BY <1>3, <1>4, <1>5, <1>6

LEMMA ListMissingCandidatesKeeps ==
    ASSUME DiscoveryIInv, NEW x \in Run, ListMissingCandidates(x)
    PROVE  DiscoveryIInv'
<1>1. Types /\ \A y \in Run : Bounds(y)
    BY InvariantFacts
<1>2. PICK p \in SUBSET Candidates(x) :
          /\ Cardinality(p) \in 1..PageSize
          /\ page' = [page EXCEPT ![x] = p]
          /\ holders' = [e \in Entity |-> IF e \in p THEN holders[e] \cup {x} ELSE holders[e]]
    BY DEF ListMissingCandidates
<1>3. /\ phase[x] = "sweep"
      /\ UNCHANGED <<azure, doc, now, started, phase, scope, item, drainers, overlapped,
                     skipped, wanted>>
    BY DEF ListMissingCandidates
<1>4. p \subseteq Stale(x) /\ p \subseteq Entity /\ Stale(x)' = Stale(x)
    BY <1>3 DEF Candidates, Stale
<1>5. /\ page' \in [Run -> SUBSET Entity] /\ page'[x] = p
      /\ \A y \in Run : y # x => page'[y] = page[y]
    BY <1>1, <1>2, <1>4 DEF Types
<1>6. holders' \in [Entity -> SUBSET (Run \cup Curator)]
    BY <1>1, <1>2 DEF Types
<1>7. \A y \in Run : Cardinality(page'[y]) <= PageSize
    BY <1>1, <1>2, <1>5, BoundsAreNatural DEF Bounds
<1>8. \A y \in Run : \A e \in page'[y] :
          /\ e \in page[y] \/ phase[y] = "sweep"
          /\ y \in holders'[e] => \/ e \in Stale(y)'
                                  \/ e \in page[y] /\ y \in holders[e] /\ doc'[e] = doc[e]
  <2> SUFFICES ASSUME NEW y \in Run, NEW e \in page'[y]
               PROVE  /\ e \in page[y] \/ phase[y] = "sweep"
                      /\ y \in holders'[e] => \/ e \in Stale(y)'
                                              \/ /\ e \in page[y] /\ y \in holders[e]
                                                 /\ doc'[e] = doc[e]
      OBVIOUS
  <2>1. CASE y = x
      BY <1>3, <1>4, <1>5, <2>1
  <2>2. CASE y # x
    <3>1. e \in page[y] /\ e \in Entity
        BY <1>1, <1>5, <2>2 DEF Types
    <3>2. y \in holders'[e] => y \in holders[e]
        BY <1>2, <2>2, <3>1
    <3> QED
        BY <1>3, <3>1, <3>2
  <2> QED
      BY <2>1, <2>2
<1>9. /\ azure' \in [Entity -> 0..MaxVersion] /\ wanted' \in [Curator -> Requests]
      /\ doc' \in [Entity -> Document] /\ skipped' \in [Run -> SUBSET Entity]
    BY <1>1, <1>3 DEF Types
<1>10. /\ \A y \in Run : skipped[y] \subseteq skipped'[y]
       /\ \A e \in Entity : /\ doc'[e].hash = doc[e].hash
                            /\ doc'[e].lastSeen = doc[e].lastSeen
                            /\ Exists(e) => doc'[e].status # "none"
                            /\ doc'[e].status = "Active" => doc[e].status = "Active"
    BY <1>3 DEF Exists
<1> QED
    BY <1>3, <1>5, <1>6, <1>7, <1>8, <1>9, <1>10, DocumentStep

(* A client, or a sweep, writes one document: who held it holds an old one.  *)
LEMMA WriteKeeps ==
    ASSUME DiscoveryIInv, NEW e \in Entity, NEW d \in Document, Write(e, d),
           d.hash = doc[e].hash, d.lastSeen = doc[e].lastSeen,
           Exists(e) => d.status # "none",
           d.status = "Active" => doc[e].status = "Active",
           UNCHANGED <<azure, now, started, phase, scope, item, drainers, overlapped, skipped>>,
           wanted' \in [Curator -> Requests], page' \in [Run -> SUBSET Entity],
           \A x \in Run : page'[x] \subseteq page[x]
    PROVE  DiscoveryIInv'
<1>1. Types /\ \A y \in Run : Bounds(y)
    BY InvariantFacts
<1>2. /\ doc' \in [Entity -> Document] /\ doc'[e] = d
      /\ holders' \in [Entity -> SUBSET (Run \cup Curator)] /\ holders'[e] = {}
      /\ \A f \in Entity : f # e => doc'[f] = doc[f] /\ holders'[f] = holders[f]
    BY <1>1 DEF Write, Types
<1>3. ASSUME NEW x \in Run PROVE Cardinality(page'[x]) <= PageSize
  <2>1. page[x] \in SUBSET Entity /\ page'[x] \in SUBSET page[x]
      BY <1>1 DEF Types
  <2>2. Cardinality(page'[x]) <= Cardinality(page[x])
      BY <2>1, NoMore
  <2>3. Cardinality(page[x]) \in Nat /\ Cardinality(page'[x]) \in Nat
      BY <2>1, StagesAreFinite
  <2> QED
      BY <1>1, <2>2, <2>3, BoundsAreNatural DEF Bounds
<1>4. \A f \in Entity : /\ doc'[f].hash = doc[f].hash
                        /\ doc'[f].lastSeen = doc[f].lastSeen
                        /\ Exists(f) => doc'[f].status # "none"
                        /\ doc'[f].status = "Active" => doc[f].status = "Active"
    BY <1>2 DEF Exists
<1>5. \A x \in Run : \A f \in page'[x] :
          /\ f \in page[x] \/ phase[x] = "sweep"
          /\ x \in holders'[f] => \/ f \in Stale(x)'
                                  \/ f \in page[x] /\ x \in holders[f] /\ doc'[f] = doc[f]
    BY <1>1, <1>2 DEF Types
<1>6. azure' \in [Entity -> 0..MaxVersion] /\ skipped' \in [Run -> SUBSET Entity]
    BY <1>1 DEF Types
<1> QED
    BY <1>2, <1>3, <1>4, <1>5, <1>6, DocumentStep

(* Nothing is written: Azure changes, a client reads, a write meets a 412.   *)
LEMMA NothingWritten ==
    ASSUME DiscoveryIInv,
           UNCHANGED <<doc, now, started, phase, scope, item, drainers, overlapped>>,
           azure' \in [Entity -> 0..MaxVersion], wanted' \in [Curator -> Requests],
           holders' \in [Entity -> SUBSET (Run \cup Curator)],
           page' \in [Run -> SUBSET Entity], skipped' \in [Run -> SUBSET Entity],
           \A x \in Run : skipped[x] \subseteq skipped'[x] /\ page'[x] \subseteq page[x],
           \A x \in Run, e \in Entity : x \in holders'[e] => x \in holders[e]
    PROVE  DiscoveryIInv'
<1>1. Types /\ \A y \in Run : Bounds(y)
    BY InvariantFacts
<1>2. doc' \in [Entity -> Document]
    BY <1>1 DEF Types
<1>3. ASSUME NEW x \in Run PROVE Cardinality(page'[x]) <= PageSize
  <2>1. page[x] \in SUBSET Entity /\ page'[x] \in SUBSET page[x]
      BY <1>1 DEF Types
  <2>2. Cardinality(page'[x]) <= Cardinality(page[x])
      BY <2>1, NoMore
  <2>3. Cardinality(page[x]) \in Nat /\ Cardinality(page'[x]) \in Nat
      BY <2>1, StagesAreFinite
  <2> QED
      BY <1>1, <2>2, <2>3, BoundsAreNatural DEF Bounds
<1>4. \A x \in Run : \A e \in page'[x] :
          /\ e \in page[x] \/ phase[x] = "sweep"
          /\ x \in holders'[e] => \/ e \in Stale(x)'
                                  \/ e \in page[x] /\ x \in holders[e] /\ doc'[e] = doc[e]
    BY <1>1 DEF Types
<1> QED
    BY <1>2, <1>3, <1>4, DocumentStep DEF Exists

LEMMA TransitionToMissingKeeps ==
    ASSUME DiscoveryIInv, NEW x \in Run, NEW e \in Entity, TransitionToMissing(x, e)
    PROVE  DiscoveryIInv'
<1>1. Types /\ ItemConsistent(x, e)
    BY InvariantFacts
<1>2. /\ phase[x] = "sweep" /\ e \in page[x] /\ page' = [page EXCEPT ![x] = page[x] \ {e}]
      /\ UNCHANGED <<azure, now, started, phase, scope, item, drainers, overlapped, wanted>>
    BY DEF TransitionToMissing
<1>3. page' \in [Run -> SUBSET Entity] /\ \A y \in Run : page'[y] \subseteq page[y]
    BY <1>1, <1>2 DEF Types
<1>4. azure' \in [Entity -> 0..MaxVersion] /\ wanted' \in [Curator -> Requests]
    BY <1>1, <1>2 DEF Types
<1> DEFINE d == [doc[e] EXCEPT !.status = "Missing"]
<1>5. CASE Write(e, d) /\ UNCHANGED skipped
  <2>1. /\ d \in Document /\ d.status = "Missing" /\ d.hash = doc[e].hash
        /\ d.lastSeen = doc[e].lastSeen
    <3>1. doc[e] \in Document
        BY <1>1 DEF Types
    <3> QED
        BY <3>1 DEF Document, Statuses
  <2> HIDE DEF d
  <2> QED
      BY <1>2, <1>3, <1>4, <1>5, <2>1, WriteKeeps
<1>6. CASE skipped' = [skipped EXCEPT ![x] = skipped[x] \cup {e}] /\ UNCHANGED <<doc, holders>>
  <2>1. /\ skipped' \in [Run -> SUBSET Entity] /\ \A y \in Run : skipped[y] \subseteq skipped'[y]
        /\ holders' \in [Entity -> SUBSET (Run \cup Curator)]
      BY <1>1, <1>6 DEF Types
  <2> QED
      BY <1>2, <1>3, <1>4, <1>6, <2>1, NothingWritten
<1> QED
    BY <1>5, <1>6 DEF TransitionToMissing

-----------------------------------------------------------------------------
(* One lemma per action: the clients and Azure.                             *)
LEMMA AzureChangesKeeps ==
    ASSUME DiscoveryIInv, NEW e \in Entity, AzureChanges(e)
    PROVE  DiscoveryIInv'
<1>1. Types
    BY InvariantFacts
<1>2. UNCHANGED <<doc, holders, runVars, wanted>>
    BY DEF AzureChanges
<1>3. /\ azure' \in [Entity -> 0..MaxVersion] /\ wanted' \in [Curator -> Requests]
      /\ holders' \in [Entity -> SUBSET (Run \cup Curator)]
      /\ page' \in [Run -> SUBSET Entity] /\ skipped' \in [Run -> SUBSET Entity]
    BY <1>1, <1>2 DEF AzureChanges, Types, runVars
<1> QED
    BY <1>2, <1>3, NothingWritten DEF runVars

LEMMA GetEntityDetailKeeps ==
    ASSUME DiscoveryIInv, NEW c \in Curator, NEW e \in Entity, GetEntityDetail(c, e)
    PROVE  DiscoveryIInv'
<1>1. Types
    BY InvariantFacts
<1>2. /\ UNCHANGED <<azure, doc, runVars>>
      /\ holders' = [holders EXCEPT ![e] = holders[e] \cup {c}]
    BY DEF GetEntityDetail
<1>3. PICK kind \in {"archive", "edit"} :
          wanted' = [wanted EXCEPT ![c] = [request |-> kind, entity |-> e]]
    BY DEF GetEntityDetail
<1>4. /\ azure' \in [Entity -> 0..MaxVersion] /\ wanted' \in [Curator -> Requests]
      /\ page' \in [Run -> SUBSET Entity] /\ skipped' \in [Run -> SUBSET Entity]
    BY <1>1, <1>2, <1>3 DEF Types, runVars, Requests
<1>5. /\ holders' \in [Entity -> SUBSET (Run \cup Curator)]
      /\ \A x \in Run, f \in Entity : x \in holders'[f] => x \in holders[f]
    BY <1>1, <1>2, ActorsAssumption DEF Types
<1> QED
    BY <1>2, <1>4, <1>5, NothingWritten DEF runVars

LEMMA ExecutePatchKeeps ==
    ASSUME DiscoveryIInv, NEW c \in Curator, ExecutePatch(c)
    PROVE  DiscoveryIInv'
<1>1. Types
    BY InvariantFacts
<1> DEFINE e == wanted[c].entity
<1>2. /\ UNCHANGED <<azure, runVars>> /\ wanted[c] # NoRequest
      /\ wanted' = [wanted EXCEPT ![c] = NoRequest]
      /\ Write(e, Curated(c, doc[e])) \/ UNCHANGED <<doc, holders>>
    BY DEF ExecutePatch
<1>3. e \in Entity
    BY <1>1, <1>2 DEF Types, Requests, NoRequest
<1> HIDE DEF e
<1>4. /\ azure' \in [Entity -> 0..MaxVersion] /\ wanted' \in [Curator -> Requests]
      /\ page' \in [Run -> SUBSET Entity] /\ skipped' \in [Run -> SUBSET Entity]
    BY <1>1, <1>2 DEF Types, runVars, Requests
<1>5. CASE Write(e, Curated(c, doc[e]))
  <2>1. doc[e] \in Document
      BY <1>1, <1>3 DEF Types
  <2>2. /\ Curated(c, doc[e]) \in Document /\ Curated(c, doc[e]).hash = doc[e].hash
        /\ Curated(c, doc[e]).lastSeen = doc[e].lastSeen
        /\ Curated(c, doc[e]).status \in {"Archived", doc[e].status}
      BY <2>1 DEF Curated, Document, Statuses
  <2>3. Exists(e) => Curated(c, doc[e]).status # "none"
      BY <2>2 DEF Exists
  <2>4. Curated(c, doc[e]).status = "Active" => doc[e].status = "Active"
      BY <2>2
  <2> QED
      BY <1>2, <1>3, <1>4, <1>5, <2>2, <2>3, <2>4, WriteKeeps DEF runVars
<1>6. CASE UNCHANGED <<doc, holders>>
  <2>1. holders' \in [Entity -> SUBSET (Run \cup Curator)]
      BY <1>1, <1>6 DEF Types
  <2> QED
      BY <1>2, <1>4, <1>6, <2>1, NothingWritten DEF runVars
<1> QED
    BY <1>2, <1>5, <1>6

-----------------------------------------------------------------------------
LEMMA StepInvariant == DiscoveryIInv /\ [Next]_vars => DiscoveryIInv'
<1> SUFFICES ASSUME DiscoveryIInv, [Next]_vars PROVE DiscoveryIInv'
    OBVIOUS
<1>1. ASSUME NEW x \in Run, Start(x) PROVE DiscoveryIInv'
    BY <1>1, StartKeeps
<1>2. ASSUME NEW x \in Run, RunStep(x) PROVE DiscoveryIInv'
    BY <1>2, ListEntityKeeps, TakeAndReadKeeps, TouchKeeps, UpdateKeeps, CreateKeeps,
       PatchRacedKeeps, TransitionToMissingKeeps, ScopeCompletedKeeps, CompleteAsyncKeeps,
       ListMissingCandidatesKeeps, EndKeeps DEF RunStep
<1>3. ASSUME NEW x \in Run, RunFault(x) PROVE DiscoveryIInv'
    BY <1>3, EndKeeps, WriteLostKeeps DEF RunFault
<1>4. ASSUME NEW c \in Curator, NEW e \in Entity, GetEntityDetail(c, e) PROVE DiscoveryIInv'
    BY <1>4, GetEntityDetailKeeps
<1>5. ASSUME NEW c \in Curator, ExecutePatch(c) PROVE DiscoveryIInv'
    BY <1>5, ExecutePatchKeeps
<1>6. ASSUME NEW e \in Entity, AzureChanges(e) PROVE DiscoveryIInv'
    BY <1>6, AzureChangesKeeps
<1>7. CASE UNCHANGED vars
  <2>1. UNCHANGED <<doc, now, started, phase, scope, item, drainers, overlapped, azure,
                    wanted, holders, page, skipped>>
      BY <1>7 DEF vars, runVars
  <2>2. Types
      BY InvariantFacts
  <2>3. /\ azure' \in [Entity -> 0..MaxVersion] /\ wanted' \in [Curator -> Requests]
        /\ holders' \in [Entity -> SUBSET (Run \cup Curator)]
        /\ page' \in [Run -> SUBSET Entity] /\ skipped' \in [Run -> SUBSET Entity]
      BY <2>1, <2>2 DEF Types
  <2> QED
      BY <2>1, <2>3, NothingWritten
<1> QED
    BY <1>1, <1>2, <1>3, <1>4, <1>5, <1>6, <1>7 DEF Next

(* DiscoveryIInv holds in every reachable state: an execution that nobody     *)
(* overlapped is alone with the clients, its writes are still there, and      *)
(* what it has not written is older than itself.                             *)
THEOREM DiscoveryInvariant == Spec => []DiscoveryIInv
<1>1. Init => DiscoveryIInv
    BY InitInvariant
<1>2. DiscoveryIInv /\ [Next]_vars => DiscoveryIInv'
    BY StepInvariant
<1> QED
    BY <1>1, <1>2, PTL DEF Spec

(* The channel of DiscoveryWriteBatcher never holds more than its capacity,   *)
(* no more items are being written than drain workers are left, and a page of *)
(* the missing-sweep is never larger than asked for.                          *)
THEOREM DiscoveryTypeCorrect == Spec => []TypeOK
<1>1. DiscoveryIInv => TypeOK
    BY DEF DiscoveryIInv
<1> QED
    BY <1>1, DiscoveryInvariant, PTL

(* When an execution that nobody overlapped has succeeded, the catalog is     *)
(* what it listed, failed writes and entities skipped by a 412 apart.         *)
THEOREM CatalogAfterSuccess == Spec => []SuccessMeansCatalog
<1>1. DiscoveryIInv => SuccessMeansCatalog
    BY DEF DiscoveryIInv
<1> QED
    BY <1>1, DiscoveryInvariant, PTL

-----------------------------------------------------------------------------
(* What a step does to one document.                                         *)
WrittenBy(x, e) == \/ Touch(x, e)
                   \/ Update(x, e)
                   \/ ~Exists(e) /\ Upsert(x, e, "New", Created(x, e))
                   \/ PatchRaced(x, e)
TransitionedBy(x, e) == /\ TransitionToMissing(x, e) /\ IfMatch(x, e)
                        /\ Write(e, [doc[e] EXCEPT !.status = "Missing"])
PatchedBy(c, e) == IfMatch(c, e) /\ Write(e, Curated(c, doc[e]))

LEMMA WhoWrites ==
    ASSUME Types, [Next]_vars, NEW e \in Entity, doc'[e] # doc[e]
    PROVE  \/ \E x \in Run : WrittenBy(x, e) \/ TransitionedBy(x, e)
           \/ \E c \in Curator : PatchedBy(c, e)
<1>1. ASSUME NEW x \in Run, NEW f \in Entity,
             \/ Touch(x, f)
             \/ Update(x, f)
             \/ Create(x, f)
             \/ PatchRaced(x, f)
      PROVE  WrittenBy(x, e)
  <2>1. WrittenBy(x, f)
      BY <1>1 DEF WrittenBy, Create
  <2>2. PICK d : doc' = [doc EXCEPT ![f] = d]
      BY <2>1 DEF WrittenBy, Touch, Update, PatchRaced, Upsert, Write
  <2>3. f = e
      BY <2>2 DEF Types
  <2> QED
      BY <2>1, <2>3
<1>2. ASSUME NEW x \in Run, NEW f \in Entity, TransitionToMissing(x, f)
      PROVE  TransitionedBy(x, e)
  <2>1. IfMatch(x, f) /\ Write(f, [doc[f] EXCEPT !.status = "Missing"])
      BY <1>2 DEF TransitionToMissing
  <2>2. f = e
      BY <2>1 DEF Types, Write
  <2> QED
      BY <1>2, <2>1, <2>2 DEF TransitionedBy
<1>3. ASSUME NEW c \in Curator, ExecutePatch(c) PROVE PatchedBy(c, e)
  <2> DEFINE f == wanted[c].entity
  <2>1. IfMatch(c, f) /\ Write(f, Curated(c, doc[f]))
      BY <1>3 DEF ExecutePatch
  <2> HIDE DEF f
  <2>2. f = e
      BY <2>1 DEF Types, Write
  <2> QED
      BY <2>1, <2>2 DEF PatchedBy
<1>4. ASSUME NEW x \in Run, Start(x) \/ RunFault(x) PROVE FALSE
    BY <1>4 DEF Start, RunFault, ScopeFails, WriteFails, WriteCancelled, SweepFails, Die
<1>5. ASSUME NEW x \in Run, RunStep(x)
      PROVE  WrittenBy(x, e) \/ TransitionedBy(x, e)
  <2>1. ASSUME NEW f \in Entity, ListEntity(x, f) \/ TakeAndRead(x, f) PROVE FALSE
      BY <2>1 DEF ListEntity, TakeAndRead
  <2>2. ~ScopeCompleted(x) /\ ~CompleteAsync(x) /\ ~ListMissingCandidates(x) /\ ~SweepEnds(x)
      BY DEF ScopeCompleted, CompleteAsync, ListMissingCandidates, SweepEnds
  <2> QED
      BY <1>1, <1>2, <1>5, <2>1, <2>2 DEF RunStep
<1>6. ASSUME NEW c \in Curator, NEW f \in Entity, GetEntityDetail(c, f) PROVE FALSE
    BY <1>6 DEF GetEntityDetail
<1>7. ASSUME NEW f \in Entity, AzureChanges(f) PROVE FALSE
    BY <1>7 DEF AzureChanges
<1>8. CASE UNCHANGED vars
    BY <1>8 DEF vars
<1> QED
    BY <1>3, <1>4, <1>5, <1>6, <1>7, <1>8 DEF Next

(* What the write leaves in the document.                                    *)
LEMMA WrittenDocument ==
    ASSUME Types, NEW x \in Run, NEW e \in Entity, WrittenBy(x, e)
    PROVE  /\ doc'[e].status \in {doc[e].status, "Active"}
           /\ Exists(e) => /\ doc'[e].firstSeen = doc[e].firstSeen
                           /\ doc'[e].curated = doc[e].curated
           /\ Exists(e) /\ doc'[e].status # doc[e].status =>
                  item[x][e].stage = "Updated" /\ item'[x][e].stage = "written"
<1>1. doc[e] \in Document /\ item[x][e] \in Item
    BY DEF Types
<1>2. CASE Touch(x, e) \/ PatchRaced(x, e)
  <2>1. \/ doc'[e] = [doc[e] EXCEPT !.lastSeen = started[x]]
        \/ doc'[e] = [doc[e] EXCEPT !.hash = item[x][e].version, !.lastSeen = started[x]]
      BY <1>2 DEF Types, Touch, PatchRaced, Upsert, Write
  <2>2. /\ doc'[e].status = doc[e].status /\ doc'[e].firstSeen = doc[e].firstSeen
        /\ doc'[e].curated = doc[e].curated
      BY <1>1, <2>1 DEF Document
  <2> QED
      BY <2>2
<1>3. CASE Update(x, e)
  <2>1. item' = [item EXCEPT ![x][e].stage = "written"] /\ item[x][e].stage = "Updated"
      BY <1>3 DEF Update, Upsert, SetStage
  <2>2. item'[x][e].stage = "written"
      BY <1>1, <2>1 DEF Types, Item
  <2> QED
      BY <1>1, <1>3, <2>1, <2>2 DEF Types, Document, Update, Upsert, Write
<1>4. CASE ~Exists(e) /\ Upsert(x, e, "New", Created(x, e))
    BY <1>4 DEF Types, Upsert, Write, Created
<1> QED
    BY <1>2, <1>3, <1>4 DEF WrittenBy

LEMMA TransitionedDocument ==
    ASSUME Types, NEW x \in Run, NEW e \in Entity, TransitionedBy(x, e)
    PROVE  /\ doc'[e].status = "Missing" /\ doc'[e].firstSeen = doc[e].firstSeen
           /\ doc'[e].curated = doc[e].curated
<1>1. doc[e] \in Document
    BY DEF Types
<1> QED
    BY <1>1 DEF TransitionedBy, Write, Types, Document

LEMMA PatchedDocument ==
    ASSUME Types, NEW c \in Curator, NEW e \in Entity, PatchedBy(c, e)
    PROVE  /\ doc'[e].status \in {doc[e].status, "Archived"}
           /\ doc'[e].firstSeen = doc[e].firstSeen
           /\ doc'[e].curated \in {doc[e].curated, c} /\ c \in holders[e]
<1>1. doc[e] \in Document
    BY DEF Types
<1> QED
    BY <1>1 DEF PatchedBy, Write, Curated, Types, Document, IfMatch

(* A candidate of the sweep that the conditional write still finds unchanged  *)
(* is Active and was not seen.                                               *)
LEMMA SweptCandidate ==
    ASSUME DiscoveryIInv, NEW x \in Run, NEW e \in Entity, TransitionedBy(x, e)
    PROVE  /\ doc[e].status = "Active" /\ SweptBy(x, e)
           /\ item[x][e].stage \in {"absent", "lost"} \/ x \in overlapped
<1>1. Types /\ ItemConsistent(x, e) /\ ExecutionConsistent(x)
    BY InvariantFacts
<1>2. /\ phase[x] = "sweep" /\ e \in page[x] /\ page' = [page EXCEPT ![x] = page[x] \ {e}]
      /\ x \in holders[e]
    BY DEF TransitionedBy, TransitionToMissing, IfMatch
<1>3. SweptBy(x, e)
    BY <1>1, <1>2 DEF SweptBy, Types
<1>4. doc[e].status = "Active" /\ doc[e].lastSeen < started[x]
    BY <1>1, <1>2 DEF ItemConsistent, Stale
<1>5. item[x][e].stage \in {"absent", "written", "lost"}
    BY <1>1, <1>2 DEF ItemConsistent
<1>6. ASSUME x \notin overlapped, item[x][e].stage = "written" PROVE FALSE
  <2>1. Alone(x)
      BY <1>1, <1>2, <1>6 DEF Alone, ExecutionConsistent, Running
  <2>2. doc[e].lastSeen = started[x] /\ started[x] \in Nat
      BY <1>1, <1>6, <2>1 DEF ItemConsistent, Types
  <2> QED
      BY <1>4, <2>2
<1> QED
    BY <1>3, <1>4, <1>5, <1>6

(* An entity is marked Missing only by an execution whose complete listing    *)
(* did not contain it, lost upserts and overlapping executions apart.         *)
THEOREM SweepsTakeTheUnseen == Spec => SweptWereUnseen
<1>1. ASSUME DiscoveryIInv, [Next]_vars, NEW e \in Entity,
             doc[e].status # "Missing", doc'[e].status = "Missing"
      PROVE  \E x \in Run :
                 /\ SweptBy(x, e)
                 /\ \/ item[x][e].stage \in {"absent", "lost"}
                    \/ x \in overlapped
  <2>1. Types
      BY <1>1, InvariantFacts
  <2>2. \/ \E x \in Run : WrittenBy(x, e) \/ TransitionedBy(x, e)
        \/ \E c \in Curator : PatchedBy(c, e)
      BY <1>1, <2>1, WhoWrites
  <2>3. \A x \in Run : ~WrittenBy(x, e)
      BY <1>1, <2>1, WrittenDocument
  <2>4. \A c \in Curator : ~PatchedBy(c, e)
      BY <1>1, <2>1, PatchedDocument
  <2> QED
      BY <1>1, <2>2, <2>3, <2>4, SweptCandidate
<1>2. DiscoveryIInv /\ [Next]_vars =>
          [\A e \in Entity :
             doc[e].status # "Missing" /\ doc'[e].status = "Missing" =>
                 \E x \in Run :
                     /\ SweptBy(x, e)
                     /\ \/ item[x][e].stage \in {"absent", "lost"}
                        \/ x \in overlapped]_doc
    BY <1>1
<1> QED
    BY <1>2, DiscoveryInvariant, PTL DEF Spec, SweptWereUnseen

(* An archived entity loses its status only to an upsert that had read        *)
(* another configuration than Azure has, and is Active then.                  *)
THEOREM ArchivesEndByUpdate == Spec => ArchivedEndsByUpdate
<1>1. ASSUME DiscoveryIInv, [Next]_vars, NEW e \in Entity,
             doc[e].status = "Archived", doc'[e].status # "Archived"
      PROVE  /\ doc'[e].status = "Active"
             /\ \E x \in Run : /\ item[x][e].stage = "Updated"
                               /\ item'[x][e].stage = "written"
  <2>1. Types /\ Exists(e)
      BY <1>1, InvariantFacts DEF Exists
  <2>2. \/ \E x \in Run : WrittenBy(x, e) \/ TransitionedBy(x, e)
        \/ \E c \in Curator : PatchedBy(c, e)
      BY <1>1, <2>1, WhoWrites
  <2>3. \A x \in Run : ~TransitionedBy(x, e)
      BY <1>1, SweptCandidate
  <2>4. \A c \in Curator : ~PatchedBy(c, e)
      BY <1>1, <2>1, PatchedDocument
  <2>5. PICK x \in Run : WrittenBy(x, e)
      BY <2>2, <2>3, <2>4
  <2> QED
      BY <1>1, <2>1, <2>5, WrittenDocument
<1>2. DiscoveryIInv /\ [Next]_vars =>
          [\A e \in Entity :
             doc[e].status = "Archived" /\ doc'[e].status # "Archived" =>
                 /\ doc'[e].status = "Active"
                 /\ \E x \in Run : /\ item[x][e].stage = "Updated"
                                   /\ item'[x][e].stage = "written"]_doc
    BY <1>1
<1> QED
    BY <1>2, DiscoveryInvariant, PTL DEF Spec, ArchivedEndsByUpdate

(* Curated metadata changes only by a client that held the current ETag, and  *)
(* the first-discovered time never does.                                     *)
THEOREM CuratedIsKept == Spec => CuratedSurvives
<1>1. ASSUME DiscoveryIInv, [Next]_vars, NEW e \in Entity, Exists(e)
      PROVE  /\ doc'[e].firstSeen = doc[e].firstSeen
             /\ doc'[e].curated # doc[e].curated =>
                    \E c \in Curator : c \in holders[e] /\ doc'[e].curated = c
  <2>1. Types
      BY <1>1, InvariantFacts
  <2>2. \/ doc'[e] = doc[e]
        \/ \E x \in Run : WrittenBy(x, e) \/ TransitionedBy(x, e)
        \/ \E c \in Curator : PatchedBy(c, e)
      BY <1>1, <2>1, WhoWrites
  <2>3. CASE \E x \in Run : WrittenBy(x, e) \/ TransitionedBy(x, e)
      BY <1>1, <2>1, <2>3, WrittenDocument, TransitionedDocument
  <2>4. CASE \E c \in Curator : PatchedBy(c, e)
      BY <2>1, <2>4, PatchedDocument
  <2> QED
      BY <2>2, <2>3, <2>4
<1>2. DiscoveryIInv /\ [Next]_vars =>
          [\A e \in Entity : Exists(e) =>
             /\ doc'[e].firstSeen = doc[e].firstSeen
             /\ doc'[e].curated # doc[e].curated =>
                    \E c \in Curator : c \in holders[e] /\ doc'[e].curated = c]_doc
    BY <1>1
<1> QED
    BY <1>2, DiscoveryInvariant, PTL DEF Spec, CuratedSurvives
=============================================================================
