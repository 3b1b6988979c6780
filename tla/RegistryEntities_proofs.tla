---------------------- MODULE RegistryEntities_proofs ----------------------
(***************************************************************************)
(* Proofs about the registry, for any number of tabs, entities, names and   *)
(* versions.  A request finds out about the hierarchy and the present       *)
(* version in one step and writes in another; the ETag of its write was     *)
(* given out before either, and since records what was written in between.  *)
(***************************************************************************)
EXTENDS RegistryEntities, TLAPS

\* Two sets of strings, expanded everywhere.
USE DEF Updates, StatusChanges

-----------------------------------------------------------------------------
(* What the invariant says of one tab, and of the records in it.            *)

LEMMA TabFacts ==
    ASSUME RegistryIInv, NEW t \in Tab
    PROVE  /\ tab[t] \in Page /\ cache[t] \in Query /\ TabConsistent(t)
           /\ tab[t].at = "tombstoned" => tab[t].op = "delete"
           /\ tab[t].at # "away" => tab[t].id # None /\ tab[t].id \in Entity
           /\ \A p : [tab EXCEPT ![t] = p][t] = p
           /\ \A p : [cache EXCEPT ![t] = p][t] = p
           /\ \A p : [since EXCEPT ![t] = p][t] = p
    BY DEF RegistryIInv, RegistryTypeOK, Page

LEMMA VersionFacts ==
    ASSUME RegistryIInv, NEW e \in Entity
    PROVE  /\ last[e] \in 0..MaxVersion /\ last[e] \in Nat /\ MaxVersion \in Nat \ {0}
           /\ store[e] \in Document \cup {Absent}
           /\ Exists(e) => /\ store[e] \in Document /\ store[e].etag = last[e]
                           /\ store[e].etag \in 1..MaxVersion
                           /\ store[e].name \in Name
                           /\ store[e].parent \in Namespace \cup {None}
           /\ ~Exists(e) => store[e] = Absent /\ store[e].etag = 0
           /\ store[e].etag \in 0..MaxVersion
    BY VersionsAssumption DEF RegistryIInv, RegistryTypeOK, Document, Absent, Exists

\* The ETag * is no version.
LEMMA AnyFacts ==
    /\ AnyVersion \in Nat /\ AnyVersion \notin 0..MaxVersion /\ 0..MaxVersion \subseteq 0..AnyVersion
    /\ 0 \in 0..MaxVersion /\ MaxVersion < AnyVersion
    BY VersionsAssumption DEF AnyVersion

LEMMA AwayType ==
    /\ Away \in Page /\ Away.at = "away" /\ Away.op = "none" /\ Away.etag # AnyVersion
    /\ NoData \in Query
    BY AnyFacts DEF Away, Page, Places, Operations, NoData, Query

\* The data that a query brings is of a version that was given out.
LEMMA DataFacts ==
    ASSUME RegistryIInv, NEW e \in Entity
    PROVE  /\ Data(e) \in Query
           /\ Data(e).id # None => Data(e).id = e /\ Data(e).etag = last[e]
           /\ Exists(e) => Data(e) = [id |-> e, etag |-> store[e].etag]
    BY VersionFacts, AwayType, VersionsAssumption DEF Data, NoData, Query

LEMMA AwayConsistent ==
    ASSUME RegistryIInv, NEW t \in Tab, tab'[t] = Away, CacheConsistent(t)'
    PROVE  TabConsistent(t)'
    BY AwayType DEF TabConsistent, FormConsistent, ReplaceConsistent, InFlight,
                    Handling, CommittedConsistent, HierarchyConsistent

-----------------------------------------------------------------------------
(* A step of one tab that writes no document.                               *)

LEMMA PageStep ==
    ASSUME RegistryIInv, NEW t \in Tab, NEW p \in Page,
           tab' = [tab EXCEPT ![t] = p], UNCHANGED <<store, last>>,
           born' \subseteq Entity, cache' \in [Tab -> Query],
           since' \in [Tab -> SUBSET Entity], renewed' \subseteq Tab,
           \A u \in Tab \ {t} : /\ cache'[u] = cache[u] /\ since'[u] = since[u]
                                /\ u \in renewed' <=> u \in renewed,
           p.at = "tombstoned" => p.op = "delete",
           p.at # "away" => p.id # None,
           TabConsistent(t)'
    PROVE  RegistryIInv'
<1>1. RegistryTypeOK /\ \A u \in Tab : TabConsistent(u)
    BY DEF RegistryIInv
<1>2. tab' \in [Tab -> Page] /\ tab'[t] = p /\ \A u \in Tab : u # t => tab'[u] = tab[u]
    BY <1>1 DEF RegistryTypeOK
<1>3. ASSUME NEW u \in Tab, u # t PROVE TabConsistent(u)'
  <2>1. /\ tab'[u] = tab[u] /\ cache'[u] = cache[u] /\ since'[u] = since[u]
        /\ u \in renewed' <=> u \in renewed
      BY <1>2, <1>3
  <2> QED
      BY <1>1, <1>3, <2>1
      DEF TabConsistent, CacheConsistent, FormConsistent, ReplaceConsistent,
          CommittedConsistent, HierarchyConsistent, InFlight, Siblings, Children,
          Exists, ParentFound, Moves
<1>4. RegistryTypeOK'
  <2>1. \A u \in Tab : /\ tab'[u].at = "tombstoned" => tab'[u].op = "delete"
                       /\ tab'[u].at # "away" => tab'[u].id # None
      BY <1>1, <1>2 DEF RegistryTypeOK
  <2> QED
      BY <1>1, <1>2, <2>1 DEF RegistryTypeOK, Exists
<1> QED
    BY <1>3, <1>4 DEF RegistryIInv

-----------------------------------------------------------------------------
(* A step of one tab that writes document e.                                *)

LEMMA MissedSince ==
    ASSUME RegistryIInv, NEW t \in Tab, NEW e \in Entity, Missed(t, e)
    PROVE  /\ since' \in [Tab -> SUBSET Entity]
           /\ \A u \in Tab \ {t} :
                 /\ since[u] \subseteq since'[u]
                 /\ tab[u].at \in {"checked", "tombstoned"} => e \in since'[u]
    BY DEF Missed, RegistryIInv, RegistryTypeOK

\* The relations that the checks look at gain nothing but e.
LEMMA HierarchyStep ==
    ASSUME NEW e \in Entity, \A d \in Entity \ {e} : store'[d] = store[d]
    PROVE  /\ \A d : Children(d)' \subseteq Children(d) \cup {e}
           /\ \A d, name, parent : Siblings(d, name, parent)'
                                     \subseteq Siblings(d, name, parent) \cup {e}
           /\ \A parent \in Namespace \cup {None} :
                 ParentFound(parent) => ParentFound(parent)' \/ parent = e
    BY DEF Children, Siblings, ParentFound, Exists, Entity

LEMMA WriteStep ==
    ASSUME RegistryIInv, NEW t \in Tab, NEW p \in Page, NEW e \in Entity,
           tab' = [tab EXCEPT ![t] = p],
           store' \in [Entity -> Document \cup {Absent}],
           last' \in [Entity -> 0..MaxVersion],
           \A d \in Entity \ {e} : store'[d] = store[d] /\ last'[d] = last[d],
           \/ store'[e] = Absent /\ last'[e] = last[e]
           \/ store'[e].etag = last[e] + 1 /\ last'[e] = last[e] + 1,
           Missed(t, e), UNCHANGED <<born, cache, renewed>>,
           p.at = "committed", p.id # None, TabConsistent(t)'
    PROVE  RegistryIInv'
<1>1. RegistryTypeOK /\ \A u \in Tab : TabConsistent(u)
    BY DEF RegistryIInv
<1>2. tab' \in [Tab -> Page] /\ tab'[t] = p /\ \A u \in Tab : u # t => tab'[u] = tab[u]
    BY <1>1 DEF RegistryTypeOK
<1>3. last[e] \in Nat /\ store'[e].etag \in {0, last[e] + 1}
    BY VersionFacts DEF Absent
<1>4. \A d \in Entity : last[d] \in Nat /\ last'[d] \in Nat /\ last[d] <= last'[d]
    BY <1>3, VersionFacts
<1>5. ASSUME NEW u \in Tab, u # t PROVE TabConsistent(u)'
  <2>1. tab'[u] = tab[u] /\ cache'[u] = cache[u] /\ (u \in renewed' <=> u \in renewed)
      BY <1>2, <1>5
  <2>2. tab[u] \in Page /\ cache[u] \in Query /\ TabConsistent(u)
        /\ (tab[u].at # "away" => tab[u].id # None /\ tab[u].id \in Entity)
      BY TabFacts
  <2>3. /\ since[u] \subseteq since'[u]
        /\ tab[u].at \in {"checked", "tombstoned"} => e \in since'[u]
      BY <1>5, MissedSince
  <2>4. CacheConsistent(u)'
    <3>1. cache[u].id # None => cache[u].id \in Entity
        BY <2>2 DEF Query
    <3>2. cache[u].etag \in Nat
        BY <2>2 DEF Query
    <3> QED
        BY <1>4, <2>1, <2>2, <3>1, <3>2 DEF TabConsistent, CacheConsistent
  <2>5. FormConsistent(u)'
    <3>1. tab[u].at = "sent" /\ tab[u].etag # AnyVersion => tab[u].etag <= last'[tab[u].id]
        BY <1>4, <2>2 DEF TabConsistent, FormConsistent, Page
    <3> QED
        BY <2>1, <2>2, <3>1 DEF TabConsistent, FormConsistent, InFlight
  <2>6. ReplaceConsistent(u)'
    <3>1. tab[u].at = "checked" /\ tab[u].op \in Updates \cup StatusChanges =>
              tab[u].read <= last'[tab[u].id]
        BY <1>4, <2>2 DEF TabConsistent, ReplaceConsistent, Page
    <3>2. tab[u].at = "checked" /\ tab[u].op \in Updates \cup StatusChanges =>
              store'[tab[u].id].etag = tab[u].read \/ tab[u].id \in since'[u]
        BY <2>2, <2>3 DEF TabConsistent, ReplaceConsistent
    <3> QED
        BY <2>1, <2>2, <3>1, <3>2 DEF TabConsistent, ReplaceConsistent
  <2>7. CommittedConsistent(u)'
      BY <2>1, <2>2, <2>3 DEF TabConsistent, CommittedConsistent
  <2>8. HierarchyConsistent(u)'
    <3>1. HierarchyConsistent(u)
        BY <2>2 DEF TabConsistent
    <3>2. tab[u].parent \in Namespace \cup {None}
        BY <2>2 DEF Page
    <3>3. ASSUME tab[u].at = "checked", tab[u].op \in Updates \cup StatusChanges,
                 store'[tab[u].id].etag = tab[u].read
          PROVE  store'[tab[u].id] = store[tab[u].id]
      <4>1. 1 <= tab[u].read /\ tab[u].read <= last[tab[u].id] /\ tab[u].id \in Entity
            /\ tab[u].read \in Nat
          BY <2>2, <3>3 DEF TabConsistent, ReplaceConsistent, Page
      <4>2. tab[u].id # e
          BY <1>3, <3>3, <4>1
      <4> QED
          BY <4>1, <4>2
    <3>4. tab[u].at \in {"checked", "tombstoned"} /\ tab[u].op = "delete" =>
              Children(tab[u].id)' \subseteq since'[u]
        BY <2>1, <2>3, <3>1, HierarchyStep DEF HierarchyConsistent
    <3>5. tab[u].at = "checked" /\ tab[u].op \in {"create"} \cup Updates =>
              ParentFound(tab[u].parent)' \/ tab[u].parent \in since'[u]
        BY <2>1, <2>3, <3>1, <3>2, HierarchyStep DEF HierarchyConsistent
    <3>6. tab[u].at = "checked"
          /\ Siblings(tab[u].id, tab[u].name, tab[u].parent) \subseteq since[u] =>
              Siblings(tab[u].id, tab[u].name, tab[u].parent)' \subseteq since'[u]
        BY <2>1, <2>3, HierarchyStep
    <3>7. tab[u].at = "checked" /\ tab[u].op \in Updates \cup StatusChanges
          /\ store'[tab[u].id].etag = tab[u].read /\ ~Moves(u) => ~Moves(u)'
        BY <2>1, <3>3 DEF Moves
    <3> QED
        BY <2>1, <3>1, <3>3, <3>4, <3>5, <3>6, <3>7 DEF HierarchyConsistent
  <2> QED
      BY <2>4, <2>5, <2>6, <2>7, <2>8 DEF TabConsistent
<1>6. RegistryTypeOK'
  <2>1. \A u \in Tab : /\ tab'[u].at = "tombstoned" => tab'[u].op = "delete"
                       /\ tab'[u].at # "away" => tab'[u].id # None
      BY <1>1, <1>2 DEF RegistryTypeOK
  <2>2. ASSUME NEW d \in Entity, Exists(d)' PROVE store'[d].etag = last'[d]
    <3>1. CASE d = e
        BY <2>2, <3>1 DEF Exists
    <3>2. CASE d # e
        BY <1>1, <2>2, <3>2 DEF Exists, RegistryTypeOK
    <3> QED
        BY <3>1, <3>2
  <2> QED
      BY <1>1, <1>2, <2>1, <2>2, MissedSince DEF RegistryTypeOK
<1> QED
    BY <1>5, <1>6 DEF RegistryIInv

-----------------------------------------------------------------------------
(* The web client.                                                          *)

\* A tab that is left.
LEMMA LeaveStep ==
    ASSUME RegistryIInv, NEW t \in Tab, Leave(t), UNCHANGED <<store, last, born>>,
           cache' \in [Tab -> Query], since' \in [Tab -> SUBSET Entity],
           \A u \in Tab \ {t} : cache'[u] = cache[u] /\ since'[u] = since[u],
           CacheConsistent(t)'
    PROVE  RegistryIInv'
<1>1. tab' = [tab EXCEPT ![t] = Away] /\ renewed' = renewed \ {t}
    BY DEF Leave
<1>2. tab'[t] = Away
    BY <1>1, TabFacts
<1>3. born' \subseteq Entity /\ renewed' \subseteq Tab
    BY <1>1 DEF RegistryIInv, RegistryTypeOK
<1> QED
    BY <1>1, <1>2, <1>3, AwayType, AwayConsistent, PageStep

LEMMA FetchKeeps ==
    ASSUME RegistryIInv, NEW t \in Tab, NEW e \in Entity, Fetch(t, e)
    PROVE  RegistryIInv'
<1>1. /\ cache' = [cache EXCEPT ![t] = Data(e)] /\ UNCHANGED <<store, last, born, since>>
      /\ tab[t] = Away \/ (tab[t].op = "update" /\ tab[t].id = e)
      /\ ~InFlight(t)
    BY DEF Fetch
<1>2. RegistryTypeOK /\ TabConsistent(t) /\ tab[t] \in Page
    BY TabFacts DEF RegistryIInv
<1>3. /\ cache' \in [Tab -> Query] /\ cache'[t] = Data(e)
      /\ \A u \in Tab \ {t} : cache'[u] = cache[u]
    BY <1>1, <1>2, DataFacts DEF RegistryTypeOK
<1>4. CacheConsistent(t)'
  <2>1. cache'[t].id # None => cache'[t].id = e /\ cache'[t].etag = last'[e]
      BY <1>1, <1>3, DataFacts
  <2>2. last'[e] <= last'[e]
      BY <1>1, VersionFacts
  <2> QED
      BY <2>1, <2>2 DEF CacheConsistent
<1>5. since' \in [Tab -> SUBSET Entity] /\ born' \subseteq Entity
    BY <1>1, <1>2 DEF RegistryTypeOK
<1>6. CASE Leave(t)
    BY <1>1, <1>3, <1>4, <1>5, <1>6, LeaveStep
<1>7. CASE UNCHANGED <<tab, renewed>> /\ tab[t] = Away
  <2>1. tab' = [tab EXCEPT ![t] = Away] /\ tab'[t] = Away
      BY <1>2, <1>7 DEF RegistryTypeOK
  <2>2. TabConsistent(t)' /\ renewed' \subseteq Tab
      BY <1>2, <1>4, <1>7, <2>1, AwayConsistent DEF RegistryTypeOK
  <2> QED
      BY <1>1, <1>3, <1>5, <1>7, <2>1, <2>2, AwayType, PageStep
<1>8. CASE renewed' = renewed \cup {t} /\ UNCHANGED tab
  <2>1. tab' = [tab EXCEPT ![t] = tab[t]] /\ tab'[t] = tab[t]
      BY <1>2, <1>8 DEF RegistryTypeOK
  <2>2. /\ renewed' \subseteq Tab /\ t \in renewed'
        /\ \A u \in Tab \ {t} : u \in renewed' <=> u \in renewed
      BY <1>2, <1>8 DEF RegistryTypeOK
  <2>3. TabConsistent(t)'
      BY <1>1, <1>2, <1>4, <2>1, <2>2
      DEF TabConsistent, FormConsistent, ReplaceConsistent, InFlight, Handling,
          CommittedConsistent, HierarchyConsistent
  <2>4. /\ tab[t].at = "tombstoned" => tab[t].op = "delete"
        /\ tab[t].at # "away" => tab[t].id # None
      BY TabFacts
  <2> QED
      BY <1>1, <1>2, <1>3, <1>5, <2>1, <2>2, <2>3, <2>4, PageStep
<1> QED
    BY <1>6, <1>7, <1>8 DEF Fetch

\* A step that changes nothing but the tab.
LEMMA TabStep ==
    ASSUME RegistryIInv, NEW t \in Tab, NEW p \in Page,
           tab' = [tab EXCEPT ![t] = p],
           UNCHANGED <<store, last, cache, since, renewed>>, born' \subseteq Entity,
           p.at = "tombstoned" => p.op = "delete",
           p.at # "away" => p.id # None, TabConsistent(t)'
    PROVE  RegistryIInv'
    BY PageStep DEF RegistryIInv, RegistryTypeOK

LEMMA OpenEditKeeps ==
    ASSUME RegistryIInv, NEW t \in Tab, NEW e \in Entity, OpenEdit(t, e)
    PROVE  RegistryIInv'
<1> DEFINE p == [Away EXCEPT !.at = "form", !.op = "update",
                             !.id = e, !.shown = cache[t].etag]
<1>1. /\ tab' = [tab EXCEPT ![t] = p] /\ tab[t] = Away /\ cache[t].id = e
      /\ UNCHANGED <<store, last, born, cache, since, renewed>>
    BY DEF OpenEdit
<1>2. cache[t] \in Query /\ TabConsistent(t)
    BY TabFacts
<1>3. /\ p \in Page /\ p.at = "form" /\ p.op = "update" /\ p.id = e
      /\ p.shown = cache[t].etag /\ p.etag # AnyVersion
  <2>1. cache[t].etag \in 0..MaxVersion
      BY <1>2 DEF Query
  <2> QED
      BY <2>1, AwayType DEF Page, Places, Operations
<1> HIDE DEF p
<1>4. tab'[t] = p
    BY <1>1, TabFacts
<1>5. cache[t] = [id |-> e, etag |-> p.shown]
    BY <1>1, <1>2, <1>3 DEF Query
<1>6. TabConsistent(t)'
    BY <1>1, <1>2, <1>3, <1>4, <1>5
    DEF TabConsistent, CacheConsistent, FormConsistent, ReplaceConsistent, InFlight,
        Handling, CommittedConsistent, HierarchyConsistent
<1>7. p.id # None /\ born' \subseteq Entity
    BY <1>1, <1>3, IdsAssumption DEF Entity, RegistryIInv, RegistryTypeOK
<1> QED
    BY <1>1, <1>3, <1>6, <1>7, TabStep

LEMMA OpenCreateKeeps ==
    ASSUME RegistryIInv, NEW t \in Tab, NEW e \in Entity, OpenCreate(t, e)
    PROVE  RegistryIInv'
<1> DEFINE p == [Away EXCEPT !.at = "form", !.op = "create", !.id = e]
<1>1. /\ tab' = [tab EXCEPT ![t] = p] /\ born' = born \cup {e}
      /\ UNCHANGED <<store, last, cache, since, renewed>>
    BY DEF OpenCreate
<1>2. TabConsistent(t)
    BY TabFacts
<1>3. p \in Page /\ p.at = "form" /\ p.op = "create" /\ p.id = e /\ p.etag # AnyVersion
    BY AwayType DEF Page, Places, Operations
<1> HIDE DEF p
<1>4. tab'[t] = p
    BY <1>1, TabFacts
<1>5. TabConsistent(t)'
    BY <1>1, <1>2, <1>3, <1>4
    DEF TabConsistent, CacheConsistent, FormConsistent, ReplaceConsistent, InFlight,
        Handling, CommittedConsistent, HierarchyConsistent
<1>6. p.id # None /\ born' \subseteq Entity
    BY <1>1, <1>3, IdsAssumption DEF Entity, RegistryIInv, RegistryTypeOK
<1> QED
    BY <1>1, <1>3, <1>5, <1>6, TabStep

\* The ETag of a request was given out, and is the one the form shows unless
\* its query was fetched again.
LEMMA EtagFacts ==
    ASSUME RegistryIInv, NEW t \in Tab, NEW e \in Entity
    PROVE  /\ PersistedEtag(t, e) \in 0..MaxVersion
           /\ PersistedEtag(t, e) \in 0..AnyVersion /\ PersistedEtag(t, e) # AnyVersion
           /\ PersistedEtag(t, e) <= last[e]
<1>1. cache[t] \in Query /\ CacheConsistent(t) /\ last[e] \in Nat /\ MaxVersion \in Nat
      /\ e # None
    BY TabFacts, VersionFacts, IdsAssumption DEF TabConsistent, Entity
<1> QED
    BY <1>1, AnyFacts DEF PersistedEtag, CacheConsistent, Query

LEMMA SubmitKeeps ==
    ASSUME RegistryIInv, NEW t \in Tab, SubmitForm(t) \/ ForceOverwrite(t)
    PROVE  RegistryIInv'
<1>1. PICK force \in BOOLEAN, name \in Name, parent \in Namespace \cup {None} :
          /\ Submit(t, force, name, parent)
          /\ tab[t].at \in {"form", "conflict"} /\ (force => tab[t].at = "conflict")
  <2>1. CASE SubmitForm(t)
      BY <2>1 DEF SubmitForm, ParentsOf
  <2>2. CASE ForceOverwrite(t)
    <3>1. tab[t].at = "conflict" /\ Submit(t, TRUE, tab[t].name, tab[t].parent)
        BY <2>2 DEF ForceOverwrite
    <3>2. tab[t].name \in Name /\ tab[t].parent \in Namespace \cup {None}
        BY <3>1, TabFacts DEF TabConsistent, FormConsistent, Page
    <3> QED
        BY <3>1, <3>2
  <2> QED
      BY <2>1, <2>2
<1>2. tab[t] \in Page /\ TabConsistent(t) /\ tab[t].id \in Entity /\ tab[t].id # None
    BY <1>1, TabFacts
<1> DEFINE etag == PersistedEtag(t, tab[t].id)
           p == [tab[t] EXCEPT !.at = "sent", !.force = force, !.etag = etag,
                               !.name = name, !.parent = parent]
<1>3. tab' = [tab EXCEPT ![t] = p] /\ UNCHANGED <<store, last, born, cache, since, renewed>>
    BY <1>1 DEF Submit
<1>4. etag \in 0..AnyVersion /\ etag # AnyVersion /\ etag <= last[tab[t].id]
    BY <1>2, EtagFacts
<1>5. tab[t].op \in {"create", "update"} /\ (force => tab[t].op = "update")
    BY <1>1, <1>2 DEF TabConsistent, FormConsistent
<1>6. tab[t].op = "update" /\ t \notin renewed => etag = tab[t].shown
    BY <1>2 DEF TabConsistent, FormConsistent, PersistedEtag
<1> HIDE DEF etag
<1>7. /\ p \in Page /\ p.at = "sent" /\ p.op = tab[t].op /\ p.id = tab[t].id
      /\ p.shown = tab[t].shown /\ p.etag = etag /\ p.force = force
      /\ p.name = name /\ p.parent = parent
    BY <1>1, <1>2, <1>4 DEF Page, Places, Handling
<1> HIDE DEF p
<1>8. tab'[t] = p
    BY <1>3, TabFacts
<1>9. TabConsistent(t)'
    BY <1>2, <1>3, <1>4, <1>5, <1>6, <1>7, <1>8
    DEF TabConsistent, CacheConsistent, FormConsistent, ReplaceConsistent, InFlight,
        Handling, CommittedConsistent, HierarchyConsistent
<1>10. born' \subseteq Entity
    BY <1>3 DEF RegistryIInv, RegistryTypeOK
<1> QED
    BY <1>2, <1>3, <1>7, <1>9, <1>10, TabStep

\* The form after an answer.
LEMMA BackInFormType ==
    ASSUME RegistryIInv, NEW t \in Tab
    PROVE  /\ BackInForm(t) \in Page /\ BackInForm(t).at = "form" /\ BackInForm(t).etag # AnyVersion
           /\ BackInForm(t).op = tab[t].op /\ BackInForm(t).id = tab[t].id
           /\ BackInForm(t).shown = tab[t].shown
<1>1. /\ tab[t].op \in Operations /\ tab[t].id \in Entity \cup {None}
      /\ tab[t].shown \in 0..MaxVersion
    BY TabFacts DEF Page
<1> QED
    BY <1>1, AwayType DEF BackInForm, Page, Places

LEMMA BackInFormConsistent ==
    ASSUME RegistryIInv, NEW t \in Tab, tab[t].op \in {"create", "update"},
           tab' = [tab EXCEPT ![t] = BackInForm(t)], UNCHANGED <<last, cache, renewed>>
    PROVE  TabConsistent(t)'
<1>1. TabConsistent(t) /\ tab'[t] = BackInForm(t)
    BY TabFacts
<1> QED
    BY <1>1, BackInFormType
    DEF TabConsistent, CacheConsistent, FormConsistent, ReplaceConsistent, InFlight,
        Handling, CommittedConsistent, HierarchyConsistent

LEMMA CloseModalKeeps ==
    ASSUME RegistryIInv, NEW t \in Tab, CloseModal(t)
    PROVE  RegistryIInv'
<1>1. /\ tab[t].at = "conflict" /\ tab' = [tab EXCEPT ![t] = BackInForm(t)]
      /\ UNCHANGED <<store, last, born, cache, since, renewed>>
    BY DEF CloseModal
<1>2. tab[t] \in Page /\ TabConsistent(t) /\ tab[t].id \in Entity /\ tab[t].id # None
    BY <1>1, TabFacts
<1>3. tab[t].op = "update"
    BY <1>1, <1>2 DEF TabConsistent, FormConsistent
<1>4. born' \subseteq Entity
    BY <1>1 DEF RegistryIInv, RegistryTypeOK
<1> QED
    BY <1>1, <1>2, <1>3, <1>4, BackInFormType, BackInFormConsistent, TabStep

LEMMA LeaveFormKeeps ==
    ASSUME RegistryIInv, NEW t \in Tab, LeaveForm(t)
    PROVE  RegistryIInv'
<1>1. Leave(t) /\ UNCHANGED <<store, last, born, cache, since>>
    BY DEF LeaveForm
<1>2. CacheConsistent(t)'
    BY <1>1, TabFacts DEF TabConsistent, CacheConsistent
<1> QED
    BY <1>1, <1>2, LeaveStep DEF RegistryIInv, RegistryTypeOK

LEMMA RequestKeeps ==
    ASSUME RegistryIInv, NEW t \in Tab, NEW e \in Entity,
           NEW op \in {"status", "delete"}, Request(t, e, op)
    PROVE  RegistryIInv'
<1> DEFINE etag == PersistedEtag(t, e)
           p == [Away EXCEPT !.at = "sent", !.op = op, !.id = e, !.etag = etag]
<1>1. tab' = [tab EXCEPT ![t] = p] /\ UNCHANGED <<store, last, born, cache, since, renewed>>
    BY DEF Request
<1>2. etag \in 0..AnyVersion /\ etag # AnyVersion /\ etag <= last[e] /\ TabConsistent(t)
    BY EtagFacts, TabFacts
<1> HIDE DEF etag
<1>3. /\ p \in Page /\ p.at = "sent" /\ p.op = op /\ p.id = e /\ p.etag = etag
    BY <1>2, AwayType DEF Page, Places, Handling, Operations
<1> HIDE DEF p
<1>4. tab'[t] = p
    BY <1>1, TabFacts
<1>5. TabConsistent(t)'
    BY <1>1, <1>2, <1>3, <1>4
    DEF TabConsistent, CacheConsistent, FormConsistent, ReplaceConsistent, InFlight,
        Handling, CommittedConsistent, HierarchyConsistent
<1>6. p.id # None /\ born' \subseteq Entity
    BY <1>1, <1>3, IdsAssumption DEF Entity, RegistryIInv, RegistryTypeOK
<1> QED
    BY <1>1, <1>3, <1>5, <1>6, TabStep

LEMMA RequestAnyKeeps ==
    ASSUME RegistryIInv, NEW t \in Tab, NEW e \in Entity, NEW op \in Wildcards,
           RequestAny(t, e, op)
    PROVE  RegistryIInv'
<1>1. PICK force \in BOOLEAN, name \in Name \cup {None}, parent \in Namespace \cup {None} :
          /\ tab' = [tab EXCEPT ![t] = [Away EXCEPT
                        !.at = "sent", !.op = op, !.id = e, !.etag = AnyVersion,
                        !.force = force, !.name = name, !.parent = parent]]
          /\ op = "put" => name \in Name
  <2>1. PICK body \in Bodies(op, e) :
            tab' = [tab EXCEPT ![t] = [Away EXCEPT
                        !.at = "sent", !.op = op, !.id = e, !.etag = AnyVersion,
                        !.force = body.force, !.name = body.name,
                        !.parent = body.parent]]
      BY DEF RequestAny
  <2>2. CASE op = "put"
    <3>1. body \in [force : {TRUE}, name : Name, parent : ParentsOf(e)]
        BY <2>2 DEF Bodies
    <3>2. body.force = TRUE /\ body.name \in Name /\ body.parent \in Namespace \cup {None}
        BY <3>1 DEF ParentsOf
    <3> QED
        BY <2>1, <3>2
  <2>3. CASE op # "put"
    <3>1. body = [force |-> FALSE, name |-> None, parent |-> None]
        BY <2>3 DEF Bodies
    <3>2. body.force = FALSE /\ body.name = None /\ body.parent = None
        BY <3>1
    <3> QED
        BY <2>1, <2>3, <3>2
  <2> QED
      BY <2>2, <2>3
<1> DEFINE p == [Away EXCEPT !.at = "sent", !.op = op, !.id = e, !.etag = AnyVersion,
                             !.force = force, !.name = name, !.parent = parent]
<1>2. /\ op \in {"put", "patch", "delete"}
      /\ UNCHANGED <<store, last, born, cache, since, renewed>>
    BY WildcardsAssumption DEF RequestAny
<1>3. TabConsistent(t)
    BY TabFacts
<1>4. /\ p \in Page /\ p.at = "sent" /\ p.op = op /\ p.id = e /\ p.etag = AnyVersion
      /\ p.name = name
  <2>1. AnyVersion \in 0..AnyVersion
      BY AnyFacts
  <2> QED
      BY <1>1, <1>2, <2>1, AwayType DEF Page, Places, Handling, Operations
<1> HIDE DEF p
<1>5. tab' = [tab EXCEPT ![t] = p] /\ tab'[t] = p
    BY <1>1, TabFacts DEF p
<1>6. TabConsistent(t)'
    BY <1>1, <1>2, <1>3, <1>4, <1>5
    DEF TabConsistent, CacheConsistent, FormConsistent, ReplaceConsistent, InFlight,
        Handling, CommittedConsistent, HierarchyConsistent
<1>7. p.id # None /\ born' \subseteq Entity
    BY <1>2, <1>4, IdsAssumption DEF Entity, RegistryIInv, RegistryTypeOK
<1> QED
    BY <1>2, <1>4, <1>5, <1>6, <1>7, TabStep

-----------------------------------------------------------------------------
(* The endpoints' answers and checks.                                       *)

LEMMA RefuseKeeps ==
    ASSUME RegistryIInv, NEW t \in Tab, InFlight(t), Refuse(t)
    PROVE  RegistryIInv'
<1>1. /\ since' = [since EXCEPT ![t] = {}] /\ UNCHANGED <<store, last, born, cache>>
    BY DEF Refuse
<1>2. tab[t] \in Page /\ TabConsistent(t) /\ tab[t].id \in Entity /\ tab[t].id # None
    BY TabFacts DEF InFlight, Handling
<1>3. RegistryTypeOK
    BY DEF RegistryIInv
<1>4. /\ since' \in [Tab -> SUBSET Entity] /\ born' \subseteq Entity
      /\ cache' \in [Tab -> Query]
      /\ \A u \in Tab \ {t} : cache'[u] = cache[u] /\ since'[u] = since[u]
    BY <1>1, <1>3 DEF RegistryTypeOK
<1>5. CASE tab[t].op \in {"create", "update"}
  <2>1. tab' = [tab EXCEPT ![t] = BackInForm(t)] /\ UNCHANGED renewed
      BY <1>5 DEF Refuse
  <2>2. TabConsistent(t)'
      BY <1>1, <1>5, <2>1, BackInFormConsistent
  <2>3. renewed' \subseteq Tab
      BY <1>3, <2>1 DEF RegistryTypeOK
  <2> QED
      BY <1>1, <1>2, <1>4, <1>5, <2>1, <2>2, <2>3, BackInFormType, PageStep
<1>6. CASE tab[t].op \notin {"create", "update"}
  <2>1. Leave(t)
      BY <1>6 DEF Refuse
  <2>2. CacheConsistent(t)'
      BY <1>1, <1>2 DEF TabConsistent, CacheConsistent
  <2> QED
      BY <1>1, <1>4, <2>1, <2>2, LeaveStep
<1> QED
    BY <1>5, <1>6

\* The entity has this name and this parent already.
Same(e, name, parent) == <<store[e].name, store[e].parent>> = <<name, parent>>

\* A request whose checks have passed.
LEMMA ProceedKeeps ==
    ASSUME RegistryIInv, NEW t \in Tab, tab[t].at = "sent",
           NEW name \in Name \cup {None}, NEW parent \in Namespace \cup {None},
           Proceed(t, name, parent),
           tab[t].op \in {"create"} \cup Updates \cup StatusChanges => name \in Name,
           tab[t].op \in Updates \cup StatusChanges => Exists(tab[t].id),
           tab[t].op = "delete" => Children(tab[t].id) = {},
           tab[t].op \in {"create"} \cup Updates =>
               /\ ParentFound(parent)
               /\ \/ Siblings(tab[t].id, name, parent) = {}
                  \/ tab[t].op \in Updates /\ Same(tab[t].id, name, parent),
           tab[t].op \in StatusChanges => Same(tab[t].id, name, parent)
    PROVE  RegistryIInv'
<1> DEFINE read == store[tab[t].id].etag
           p == [tab[t] EXCEPT !.at = "checked", !.name = name, !.parent = parent,
                               !.read = read]
<1>1. tab' = [tab EXCEPT ![t] = p] /\ UNCHANGED <<store, last, born, cache, since, renewed>>
    BY DEF Proceed
<1>2. tab[t] \in Page /\ TabConsistent(t) /\ tab[t].id \in Entity /\ tab[t].id # None
    BY TabFacts
<1>3. /\ read \in 0..MaxVersion /\ last[tab[t].id] \in Nat
      /\ Exists(tab[t].id) => read = last[tab[t].id] /\ 1 <= read
    BY <1>2, VersionFacts
<1> HIDE DEF read
<1>4. /\ p \in Page /\ p.at = "checked" /\ p.op = tab[t].op /\ p.id = tab[t].id
      /\ p.shown = tab[t].shown /\ p.etag = tab[t].etag
      /\ p.name = name /\ p.parent = parent /\ p.read = read
    BY <1>2, <1>3 DEF Page, Places, Handling
<1> HIDE DEF p
<1>5. tab'[t] = p
    BY <1>1, TabFacts
<1>6. (tab[t].etag # AnyVersion => tab[t].etag <= last[tab[t].id]) /\ tab[t].op # "none"
    BY <1>2 DEF TabConsistent, FormConsistent, InFlight, Handling
<1>7. CacheConsistent(t)' /\ FormConsistent(t)' /\ CommittedConsistent(t)'
    BY <1>1, <1>2, <1>4, <1>5
    DEF TabConsistent, CacheConsistent, FormConsistent, CommittedConsistent, InFlight,
        Handling
<1>8. ReplaceConsistent(t)'
    BY <1>1, <1>3, <1>4, <1>5, <1>6 DEF ReplaceConsistent, read
<1>9. HierarchyConsistent(t)'
  <2>1. /\ \A d : Children(d)' = Children(d)
        /\ \A d, n, q : Siblings(d, n, q)' = Siblings(d, n, q)
        /\ \A q : ParentFound(q)' = ParentFound(q)
      BY <1>1 DEF Children, Siblings, ParentFound, Exists
  <2>2. Moves(t)' <=> ~Same(tab[t].id, name, parent)
      BY <1>1, <1>4, <1>5 DEF Moves, Same
  <2> QED
      BY <1>1, <1>4, <1>5, <2>1, <2>2 DEF HierarchyConsistent
<1>10. TabConsistent(t)'
    BY <1>7, <1>8, <1>9 DEF TabConsistent
<1>11. born' \subseteq Entity
    BY <1>1 DEF RegistryIInv, RegistryTypeOK
<1> QED
    BY <1>1, <1>2, <1>4, <1>10, <1>11, TabStep

LEMMA ChecksKeep ==
    ASSUME RegistryIInv, NEW t \in Tab,
           CreateCheck(t) \/ UpdateCheck(t) \/ StatusCheck(t) \/ DeleteCheck(t)
    PROVE  RegistryIInv'
<1> DEFINE e == tab[t].id
<1>1. tab[t].at = "sent" /\ InFlight(t)
    BY DEF CreateCheck, UpdateCheck, StatusCheck, DeleteCheck, Asks, InFlight, Handling
<1>2. /\ tab[t] \in Page /\ TabConsistent(t) /\ e \in Entity
      /\ tab[t].name \in Name \cup {None} /\ tab[t].parent \in Namespace \cup {None}
    BY <1>1, TabFacts DEF Page
<1>3. tab[t].op \in {"create"} \cup Updates => tab[t].name \in Name
    BY <1>1, <1>2 DEF TabConsistent, FormConsistent
<1>4. Exists(e) => store[e].name \in Name /\ store[e].parent \in Namespace \cup {None}
    BY <1>2, VersionFacts
<1>5. CASE Refuse(t)
    BY <1>1, <1>5, RefuseKeeps
<1>6. CASE CreateCheck(t) /\ ~Refuse(t)
  <2>1. /\ tab[t].op = "create" /\ Proceed(t, tab[t].name, tab[t].parent)
        /\ ParentFound(tab[t].parent) /\ Siblings(e, tab[t].name, tab[t].parent) = {}
      BY <1>6 DEF CreateCheck, Asks, NameIsFree
  <2> QED
      BY <1>1, <1>2, <1>3, <2>1, ProceedKeeps
<1>7. CASE UpdateCheck(t) /\ ~Refuse(t)
  <2>1. /\ tab[t].op \in Updates /\ Proceed(t, tab[t].name, tab[t].parent)
        /\ Exists(e) /\ ParentFound(tab[t].parent)
        /\ Moves(t) => Siblings(e, tab[t].name, tab[t].parent) = {}
      BY <1>7 DEF UpdateCheck, NameIsFree
  <2>2. \/ Siblings(e, tab[t].name, tab[t].parent) = {}
        \/ Same(e, tab[t].name, tab[t].parent)
      BY <2>1 DEF Moves, Same
  <2> QED
      BY <1>1, <1>2, <1>3, <2>1, <2>2, ProceedKeeps
<1>8. CASE StatusCheck(t) /\ ~Refuse(t)
  <2>1. /\ tab[t].op \in StatusChanges /\ Exists(e)
        /\ Proceed(t, store[e].name, store[e].parent)
      BY <1>8 DEF StatusCheck
  <2>2. Same(e, store[e].name, store[e].parent)
      BY DEF Same
  <2> QED
      BY <1>1, <1>2, <1>4, <2>1, <2>2, ProceedKeeps
<1>9. CASE DeleteCheck(t) /\ ~Refuse(t)
  <2>1. tab[t].op = "delete" /\ Children(e) = {} /\ Proceed(t, None, None)
      BY <1>9 DEF DeleteCheck, Asks
  <2> QED
      BY <1>1, <2>1, ProceedKeeps
<1> QED
    BY <1>5, <1>6, <1>7, <1>8, <1>9

-----------------------------------------------------------------------------
(* The endpoints' writes.                                                   *)

\* A replacing write that the container accepts meets the version that the
\* checks have read, or with * perhaps a later one, written since.
LEMMA AcceptedIsRead ==
    ASSUME RegistryIInv, NEW t \in Tab, tab[t].at = "checked",
           tab[t].op \in Updates \cup StatusChanges, Exists(tab[t].id), IfMatch(t)
    PROVE  \/ tab[t].read = store[tab[t].id].etag /\ tab[t].read = last[tab[t].id]
           \/ /\ tab[t].etag = AnyVersion /\ tab[t].id \in since[t]
              /\ tab[t].read <= last[tab[t].id]
              /\ tab[t].op \in {"put", "patch"}
<1>1. /\ tab[t] \in Page /\ ReplaceConsistent(t) /\ FormConsistent(t)
      /\ tab[t].id \in Entity
    BY TabFacts DEF TabConsistent
<1>2. store[tab[t].id].etag = last[tab[t].id] /\ last[tab[t].id] \in Nat
    BY <1>1, VersionFacts
<1>3. tab[t].etag \in Nat /\ tab[t].read \in Nat
    BY <1>1, AnyFacts DEF Page
<1>4. /\ tab[t].etag # AnyVersion => tab[t].etag <= tab[t].read
      /\ tab[t].read <= last[tab[t].id]
      /\ store[tab[t].id].etag = tab[t].read \/ tab[t].id \in since[t]
    BY <1>1 DEF ReplaceConsistent
<1>5. CASE tab[t].etag = AnyVersion
    BY <1>1, <1>2, <1>4, <1>5 DEF FormConsistent
<1>6. CASE tab[t].etag # AnyVersion
  <2>1. tab[t].etag = last[tab[t].id]
      BY <1>2, <1>6 DEF IfMatch
  <2> QED
      BY <1>2, <1>3, <1>4, <1>6, <2>1
<1> QED
    BY <1>5, <1>6

LEMMA CommitKeeps ==
    ASSUME RegistryIInv, NEW t \in Tab, tab[t].at = "checked", Commit(t),
           tab[t].op \in {"create"} \cup Updates \cup StatusChanges,
           tab[t].op # "create" => Exists(tab[t].id) /\ IfMatch(t)
    PROVE  RegistryIInv'
<1> DEFINE e == tab[t].id
           d == [etag |-> last[e] + 1, name |-> tab[t].name, parent |-> tab[t].parent]
           p == [tab[t] EXCEPT !.at = "committed", !.etag = last[e] + 1]
<1>1. /\ tab[t] \in Page /\ TabConsistent(t) /\ e \in Entity /\ e # None
      /\ RegistryTypeOK /\ last[e] \in Nat
    BY TabFacts, VersionFacts DEF RegistryIInv
<1>2. last' = [last EXCEPT ![e] = @ + 1] /\ last'[e] = last[e] + 1 /\ last[e] < MaxVersion
    BY <1>1 DEF Commit, HasRoom, RegistryTypeOK
<1>3. /\ store' = [store EXCEPT ![e] = d] /\ tab' = [tab EXCEPT ![t] = p]
      /\ Missed(t, e) /\ UNCHANGED <<born, cache, renewed>>
    BY <1>2 DEF Commit
<1>4. /\ last[e] + 1 \in 1..MaxVersion /\ last[e] + 1 \in 0..MaxVersion
      /\ last[e] + 1 \in 0..AnyVersion /\ last[e] + 1 # AnyVersion
    BY <1>1, <1>2, AnyFacts, VersionsAssumption
<1>5. tab[t].name \in Name
    BY <1>1 DEF TabConsistent, FormConsistent, ReplaceConsistent
<1>6. d \in Document /\ d.etag = last[e] + 1
    BY <1>1, <1>4, <1>5 DEF Page, Document
<1> HIDE DEF d
<1>7. /\ p \in Page /\ p.at = "committed" /\ p.op = tab[t].op /\ p.id = e
      /\ p.shown = tab[t].shown /\ p.etag = last[e] + 1
      /\ p.name = tab[t].name /\ p.parent = tab[t].parent /\ p.read = tab[t].read
    BY <1>1, <1>4 DEF Page, Places, Handling
<1> HIDE DEF p
<1>8. tab'[t] = p
    BY <1>3, TabFacts
<1>9. /\ store' \in [Entity -> Document \cup {Absent}]
      /\ last' \in [Entity -> 0..MaxVersion] /\ store'[e].etag = last[e] + 1
      /\ \A c \in Entity \ {e} : store'[c] = store[c] /\ last'[c] = last[c]
    BY <1>1, <1>2, <1>3, <1>4, <1>6 DEF RegistryTypeOK
<1>10. CacheConsistent(t)'
  <2>1. cache'[t] = cache[t] /\ cache[t] \in Query
      BY <1>3, TabFacts
  <2>2. cache[t].id # None => cache[t].id \in Entity /\ cache[t].etag \in Nat
                              /\ cache[t].etag <= last[cache[t].id]
      BY <1>1, <2>1 DEF Query, TabConsistent, CacheConsistent
  <2>3. \A c \in Entity : last[c] \in Nat /\ last'[c] \in Nat /\ last[c] <= last'[c]
      BY <1>1, <1>2, <1>9, VersionFacts
  <2> QED
      BY <2>1, <2>2, <2>3 DEF CacheConsistent
<1>11. FormConsistent(t)' /\ ReplaceConsistent(t)' /\ HierarchyConsistent(t)'
    BY <1>1, <1>3, <1>4, <1>5, <1>7, <1>8
    DEF TabConsistent, FormConsistent, ReplaceConsistent, HierarchyConsistent, InFlight,
        Handling
<1>12. CommittedConsistent(t)'
  <2>1. CASE tab[t].op = "create"
      BY <1>7, <1>8, <2>1 DEF CommittedConsistent
  <2>2. CASE tab[t].op \in Updates \cup StatusChanges
    <3>1. Exists(e) /\ IfMatch(t) /\ since'[t] = since[t] /\ tab[t].read \in Nat
        BY <1>1, <1>3, <2>2 DEF Missed, RegistryTypeOK, Page
    <3> QED
        BY <1>1, <1>7, <1>8, <2>2, <3>1, AcceptedIsRead DEF CommittedConsistent
  <2> QED
      BY <2>1, <2>2
<1>13. TabConsistent(t)'
    BY <1>10, <1>11, <1>12 DEF TabConsistent
<1> QED
    BY <1>1, <1>2, <1>3, <1>7, <1>9, <1>13, WriteStep

LEMMA CreateItemKeeps ==
    ASSUME RegistryIInv, NEW t \in Tab, CreateItem(t)
    PROVE  RegistryIInv'
<1>1. tab[t].at = "checked" /\ tab[t].op = "create" /\ (Refuse(t) \/ Commit(t))
    BY DEF CreateItem, Asks
<1>2. InFlight(t)
    BY <1>1 DEF InFlight, Handling
<1> QED
    BY <1>1, <1>2, RefuseKeeps, CommitKeeps

LEMMA ReplaceItemKeeps ==
    ASSUME RegistryIInv, NEW t \in Tab, ReplaceItem(t)
    PROVE  RegistryIInv'
<1> DEFINE e == tab[t].id
           p == [tab[t] EXCEPT !.at = "conflict", !.read = 0, !.etag = 0, !.force = FALSE]
<1>1. /\ tab[t].at = "checked" /\ tab[t].op \in Updates \cup StatusChanges
    BY DEF ReplaceItem
<1>2. \/ Exists(e) /\ IfMatch(t) /\ Commit(t)
      \/ Refuse(t)
      \/ /\ tab[t].op = "update" /\ tab' = [tab EXCEPT ![t] = p]
         /\ since' = [since EXCEPT ![t] = {}]
         /\ UNCHANGED <<store, last, born, cache, renewed>>
    BY DEF ReplaceItem
<1>3. InFlight(t)
    BY <1>1 DEF InFlight, Handling
<1>4. CASE /\ tab[t].op = "update" /\ tab' = [tab EXCEPT ![t] = p]
           /\ since' = [since EXCEPT ![t] = {}]
           /\ UNCHANGED <<store, last, born, cache, renewed>>
  <2>1. /\ tab[t] \in Page /\ TabConsistent(t) /\ e # None /\ tab[t].name \in Name
        /\ RegistryTypeOK
      BY <1>1, TabFacts DEF RegistryIInv, TabConsistent, ReplaceConsistent
  <2>2. /\ p \in Page /\ p.at = "conflict" /\ p.op = "update" /\ p.id = e
        /\ p.shown = tab[t].shown /\ p.etag # AnyVersion /\ p.name = tab[t].name
    <3>1. 0 \in 0..MaxVersion /\ 0 \in 0..AnyVersion /\ 0 # AnyVersion
        BY AnyFacts
    <3> QED
        BY <1>4, <2>1, <3>1 DEF Page, Places
  <2> HIDE DEF p
  <2>3. tab'[t] = p
      BY <1>4, TabFacts
  <2>4. TabConsistent(t)'
      BY <1>4, <2>1, <2>2, <2>3
      DEF TabConsistent, CacheConsistent, FormConsistent, ReplaceConsistent, InFlight,
          Handling, CommittedConsistent, HierarchyConsistent
  <2>5. /\ since' \in [Tab -> SUBSET Entity] /\ born' \subseteq Entity
        /\ cache' \in [Tab -> Query] /\ renewed' \subseteq Tab
        /\ \A u \in Tab \ {t} : cache'[u] = cache[u] /\ since'[u] = since[u]
      BY <1>4, <2>1 DEF RegistryTypeOK
  <2> QED
      BY <1>4, <2>1, <2>2, <2>4, <2>5, PageStep
<1> QED
    BY <1>1, <1>2, <1>3, <1>4, RefuseKeeps, CommitKeeps

LEMMA WriteTombstoneKeeps ==
    ASSUME RegistryIInv, NEW t \in Tab, WriteTombstone(t)
    PROVE  RegistryIInv'
<1> DEFINE p == [tab[t] EXCEPT !.at = "tombstoned"]
<1>1. /\ tab[t].at = "checked" /\ tab[t].op = "delete" /\ tab' = [tab EXCEPT ![t] = p]
      /\ UNCHANGED <<store, last, born, cache, since, renewed>>
    BY DEF WriteTombstone, Asks
<1>2. tab[t] \in Page /\ TabConsistent(t) /\ tab[t].id # None
    BY <1>1, TabFacts
<1>3. /\ p \in Page /\ p.at = "tombstoned" /\ p.op = "delete" /\ p.id = tab[t].id
    BY <1>1, <1>2 DEF Page, Places, Handling
<1> HIDE DEF p
<1>4. tab'[t] = p
    BY <1>1, TabFacts
<1>5. \A e : Children(e)' = Children(e)
    BY <1>1 DEF Children
<1>6. TabConsistent(t)'
    BY <1>1, <1>2, <1>3, <1>4, <1>5
    DEF TabConsistent, CacheConsistent, FormConsistent, ReplaceConsistent, InFlight,
        Handling, CommittedConsistent, HierarchyConsistent
<1>7. born' \subseteq Entity
    BY <1>1 DEF RegistryIInv, RegistryTypeOK
<1> QED
    BY <1>1, <1>2, <1>3, <1>6, <1>7, TabStep

LEMMA DeleteItemKeeps ==
    ASSUME RegistryIInv, NEW t \in Tab, DeleteItem(t)
    PROVE  RegistryIInv'
<1> DEFINE e == tab[t].id
           p == [tab[t] EXCEPT !.at = "committed"]
<1>1. tab[t].at = "tombstoned" /\ tab[t].op = "delete" /\ InFlight(t)
    BY DEF DeleteItem, Asks, InFlight, Handling
<1>2. CASE Refuse(t)
    BY <1>1, <1>2, RefuseKeeps
<1>3. CASE ~Refuse(t)
  <2>1. /\ store' = [store EXCEPT ![e] = Absent] /\ tab' = [tab EXCEPT ![t] = p]
        /\ Missed(t, e) /\ UNCHANGED <<last, born, cache, renewed>>
      BY <1>3 DEF DeleteItem
  <2>2. /\ tab[t] \in Page /\ TabConsistent(t) /\ e \in Entity /\ e # None
        /\ RegistryTypeOK
      BY <1>1, TabFacts DEF RegistryIInv
  <2>3. /\ p \in Page /\ p.at = "committed" /\ p.op = "delete" /\ p.id = e
      BY <1>1, <2>2 DEF Page, Places, Handling
  <2> HIDE DEF p
  <2>4. tab'[t] = p
      BY <2>1, TabFacts
  <2>5. /\ store' \in [Entity -> Document \cup {Absent}]
        /\ last' \in [Entity -> 0..MaxVersion]
        /\ store'[e] = Absent /\ last'[e] = last[e]
        /\ \A c \in Entity \ {e} : store'[c] = store[c] /\ last'[c] = last[c]
      BY <2>1, <2>2 DEF RegistryTypeOK
  <2>6. TabConsistent(t)'
      BY <1>1, <2>1, <2>2, <2>3, <2>4
      DEF TabConsistent, CacheConsistent, FormConsistent, ReplaceConsistent, InFlight,
          Handling, CommittedConsistent, HierarchyConsistent
  <2> QED
      BY <2>1, <2>2, <2>3, <2>5, <2>6, WriteStep
<1> QED
    BY <1>2, <1>3

LEMMA FinishKeeps ==
    ASSUME RegistryIInv, NEW t \in Tab, Finish(t)
    PROVE  RegistryIInv'
<1> DEFINE e == tab[t].id
<1>1. /\ tab[t].at = "committed" /\ Leave(t) /\ UNCHANGED <<store, last, born>>
      /\ since' = [since EXCEPT ![t] = {}]
      /\ cache' \in {cache, [cache EXCEPT ![t] = Data(e)]}
    BY DEF Finish
<1>2. /\ RegistryTypeOK /\ TabConsistent(t) /\ e \in Entity
      /\ Data(e) \in Query /\ last[e] <= last[e]
      /\ Data(e).id # None => Data(e).id = e /\ Data(e).etag = last[e]
    BY <1>1, TabFacts, DataFacts, VersionFacts DEF RegistryIInv
<1>3. /\ cache' \in [Tab -> Query] /\ since' \in [Tab -> SUBSET Entity]
      /\ cache'[t] \in {cache[t], Data(e)}
      /\ \A u \in Tab \ {t} : cache'[u] = cache[u] /\ since'[u] = since[u]
    BY <1>1, <1>2 DEF RegistryTypeOK
<1>4. CacheConsistent(t)'
    BY <1>1, <1>2, <1>3 DEF TabConsistent, CacheConsistent
<1> QED
    BY <1>1, <1>3, <1>4, LeaveStep

-----------------------------------------------------------------------------
(* The invariant.                                                           *)

LEMMA InitInvariant == Init => RegistryIInv
<1> SUFFICES ASSUME Init PROVE RegistryIInv
    OBVIOUS
<1>1. /\ store = [e \in Entity |-> Absent] /\ last = [e \in Entity |-> 0] /\ born = {}
      /\ cache = [t \in Tab |-> NoData] /\ tab = [t \in Tab |-> Away]
      /\ since = [t \in Tab |-> {}] /\ renewed = {}
    BY DEF Init
<1>2. RegistryTypeOK
  <2>1. 0 \in 0..MaxVersion /\ \A e \in Entity : ~Exists(e)
      BY <1>1, VersionsAssumption DEF Exists
  <2> QED
      BY <1>1, <2>1, AwayType DEF RegistryTypeOK
<1>3. ASSUME NEW t \in Tab PROVE TabConsistent(t)
  <2>1. tab[t] = Away /\ cache[t] = NoData /\ NoData.id = None
      BY <1>1 DEF NoData
  <2> QED
      BY <2>1, AwayType
      DEF TabConsistent, CacheConsistent, FormConsistent, ReplaceConsistent, InFlight,
          Handling, CommittedConsistent, HierarchyConsistent
<1> QED
    BY <1>2, <1>3 DEF RegistryIInv

LEMMA NextInvariant == RegistryIInv /\ [RegistryNext]_vars => RegistryIInv'
<1> SUFFICES ASSUME RegistryIInv, [RegistryNext]_vars PROVE RegistryIInv'
    OBVIOUS
<1>1. CASE UNCHANGED vars
    BY <1>1 DEF vars, RegistryIInv, RegistryTypeOK, Exists, TabConsistent,
                CacheConsistent, FormConsistent, ReplaceConsistent, InFlight,
                CommittedConsistent, HierarchyConsistent, Children, Siblings,
                ParentFound, Moves
<1>2. CASE RegistryNext
  <2>1. PICK t \in Tab : Serve(t) \/ Browse(t) \/ Die(t)
      BY <1>2 DEF RegistryNext
  <2>2. CASE Serve(t)
      BY <2>2, ChecksKeep, CreateItemKeeps, ReplaceItemKeeps, WriteTombstoneKeeps,
         DeleteItemKeeps, FinishKeeps DEF Serve
  <2>3. CASE Browse(t)
    <3>1. CASE \E e \in Entity : Fetch(t, e) \/ OpenEdit(t, e) \/ OpenCreate(t, e)
        BY <3>1, FetchKeeps, OpenEditKeeps, OpenCreateKeeps
    <3>2. CASE \E e \in Entity, op \in {"status", "delete"} : Request(t, e, op)
        BY <3>2, RequestKeeps
    <3>3. CASE \E e \in Entity, op \in Wildcards : RequestAny(t, e, op)
        BY <3>3, RequestAnyKeeps
    <3>4. CASE SubmitForm(t) \/ ForceOverwrite(t) \/ CloseModal(t) \/ LeaveForm(t)
        BY <3>4, SubmitKeeps, CloseModalKeeps, LeaveFormKeeps
    <3> QED
        BY <2>3, <3>1, <3>2, <3>3, <3>4 DEF Browse
  <2>4. CASE Die(t)
      BY <2>4, RefuseKeeps DEF Die
  <2> QED
      BY <2>1, <2>2, <2>3, <2>4
<1> QED
    BY <1>1, <1>2

\* Whatever the tabs do, what a form and a request know of the registry is as
\* old as their ETags, and wrong only about entities written since.
THEOREM RegistryInvariant == RegistrySpec => []RegistryIInv
<1>1. Init => RegistryIInv
    BY InitInvariant
<1>2. RegistryIInv /\ [RegistryNext]_vars => RegistryIInv'
    BY NextInvariant
<1> QED
    BY <1>1, <1>2, PTL DEF RegistrySpec

\* The registry's types; a document is its id's last version.
THEOREM RegistryTypeCorrect == RegistrySpec => []RegistryTypeOK
<1>1. RegistryIInv => RegistryTypeOK
    BY DEF RegistryIInv
<1> QED
    BY <1>1, RegistryInvariant, PTL

-----------------------------------------------------------------------------
(* What follows from it.                                                    *)

\* The kinds of audit events, by the requests that cause them.
LEMMA EventFacts ==
    ASSUME RegistryIInv, NEW t \in Tab, tab[t].at = "committed"
    PROVE  /\ EventOf(t).id = tab[t].id /\ EventOf(t).from = tab[t].read
           /\ EventOf(t).type \in {"Updated", "StatusChanged"} =>
                  /\ tab[t].op \in Updates \cup StatusChanges
                  /\ EventOf(t).to = tab[t].etag
<1>1. tab[t].op \in {"create", "delete"} \cup Updates \cup StatusChanges
    BY TabFacts DEF TabConsistent, FormConsistent, InFlight, Handling, Page, Operations
<1>2. /\ tab[t].op = "create" => EventOf(t).type = "Created"
      /\ tab[t].op = "delete" => EventOf(t).type = "Deleted"
    BY DEF EventOf
<1> QED
    BY <1>1, <1>2 DEF EventOf

\* UpdateEndpoint computes the field changes of an audit event from a document
\* read before and one saved after: there is no version between these two, or
\* the request had If-Match: * and others wrote the entity since its read.
THEOREM AuditsDescribeChanges == RegistrySpec => []AuditDescribesChange
<1>1. RegistryIInv => AuditDescribesChange
  <2> SUFFICES ASSUME RegistryIInv, NEW t \in Tab, tab[t].at = "committed",
                      EventOf(t).type \in {"Updated", "StatusChanged"}
               PROVE  \/ EventOf(t).to = EventOf(t).from + 1
                      \/ /\ tab[t].op \in {"put", "patch"} /\ EventOf(t).id \in since[t]
                         /\ EventOf(t).to > EventOf(t).from
      BY DEF AuditDescribesChange
  <2> QED
      BY TabFacts, EventFacts DEF TabConsistent, CommittedConsistent
<1> QED
    BY <1>1, RegistryInvariant, PTL

\* A step that commits is the write of one request, after its checks.
LEMMA CommitCases ==
    ASSUME RegistryIInv, NEW t \in Tab, [RegistryNext]_vars,
           tab[t].at # "committed", tab'[t].at = "committed"
    PROVE  \/ /\ tab[t].at = "checked" /\ tab[t].op = "create"
              /\ ~Exists(tab[t].id)
           \/ /\ tab[t].at = "checked" /\ tab[t].op \in Updates \cup StatusChanges
              /\ Exists(tab[t].id) /\ IfMatch(t)
           \/ /\ tab[t].at = "tombstoned" /\ tab[t].op = "delete"
<1>1. RegistryTypeOK /\ tab' # tab
    BY DEF RegistryIInv
<1>2. PICK u \in Tab : Serve(u) \/ Browse(u) \/ Die(u)
    BY <1>1 DEF RegistryNext, vars
<1>3. ASSUME NEW p, tab' = [tab EXCEPT ![u] = p], p.at # "committed"
      PROVE  FALSE
    BY <1>1, <1>3 DEF RegistryTypeOK
<1>4. ~Leave(u)
    BY <1>3, AwayType DEF Leave
<1>5. ~Refuse(u)
    BY <1>3, <1>4, BackInFormType DEF Refuse
<1>6. ASSUME NEW name, NEW parent PROVE ~Proceed(u, name, parent)
  <2>1. [tab[u] EXCEPT !.at = "checked", !.name = name, !.parent = parent,
                       !.read = store[tab[u].id].etag].at = "checked"
      BY TabFacts DEF Page
  <2> QED
      BY <1>3, <2>1 DEF Proceed
<1>7. ~Browse(u)
  <2>1. ASSUME NEW force, NEW name, NEW parent PROVE ~Submit(u, force, name, parent)
    <3>1. [tab[u] EXCEPT !.at = "sent", !.force = force,
              !.etag = PersistedEtag(u, tab[u].id), !.name = name,
              !.parent = parent].at = "sent"
        BY TabFacts DEF Page
    <3> QED
        BY <1>3, <3>1 DEF Submit
  <2>2. ASSUME NEW e \in Entity PROVE ~OpenEdit(u, e) /\ ~OpenCreate(u, e) /\ ~Fetch(u, e)
    <3>1. /\ [Away EXCEPT !.at = "form", !.op = "update", !.id = e,
                           !.shown = cache[u].etag].at = "form"
          /\ [Away EXCEPT !.at = "form", !.op = "create", !.id = e].at = "form"
        BY DEF Away
    <3> QED
        BY <1>1, <1>3, <1>4, <3>1 DEF OpenEdit, OpenCreate, Fetch
  <2>3. ASSUME NEW e \in Entity, NEW op PROVE ~Request(u, e, op)
    <3>1. [Away EXCEPT !.at = "sent", !.op = op, !.id = e,
                       !.etag = PersistedEtag(u, e)].at = "sent"
        BY DEF Away
    <3> QED
        BY <1>3, <3>1 DEF Request
  <2>4. ASSUME NEW e \in Entity, NEW op, RequestAny(u, e, op) PROVE FALSE
    <3>1. PICK body \in Bodies(op, e) :
              tab' = [tab EXCEPT ![u] = [Away EXCEPT
                          !.at = "sent", !.op = op, !.id = e, !.etag = AnyVersion,
                          !.force = body.force, !.name = body.name,
                          !.parent = body.parent]]
        BY <2>4 DEF RequestAny
    <3>2. [Away EXCEPT !.at = "sent", !.op = op, !.id = e, !.etag = AnyVersion,
                       !.force = body.force, !.name = body.name,
                       !.parent = body.parent].at = "sent"
        BY DEF Away
    <3> QED
        BY <1>3, <3>1, <3>2
  <2> QED
      BY <1>3, <1>4, <2>1, <2>2, <2>3, <2>4, BackInFormType
      DEF Browse, SubmitForm, ForceOverwrite, CloseModal, LeaveForm
<1>8. u = t
  <2>1. \E p : tab' = [tab EXCEPT ![u] = p]
      BY <1>2, <1>4, <1>5, <1>6, <1>7
      DEF Serve, Die, CreateCheck, UpdateCheck, StatusCheck, DeleteCheck, CreateItem,
          ReplaceItem, WriteTombstone, DeleteItem, Finish, Commit
  <2> QED
      BY <1>1, <2>1 DEF RegistryTypeOK
<1>9. CreateItem(t) \/ ReplaceItem(t) \/ WriteTombstone(t) \/ DeleteItem(t)
    BY <1>2, <1>4, <1>5, <1>6, <1>7, <1>8
    DEF Serve, Die, CreateCheck, UpdateCheck, StatusCheck, DeleteCheck, Finish
<1>10. ~WriteTombstone(t)
  <2>1. [tab[t] EXCEPT !.at = "tombstoned"].at = "tombstoned"
      BY TabFacts DEF Page
  <2> QED
      BY <1>3, <1>8, <2>1 DEF WriteTombstone
<1>11. [tab[t] EXCEPT !.at = "conflict", !.read = 0, !.etag = 0, !.force = FALSE].at
           = "conflict"
    BY TabFacts DEF Page
<1> QED
    BY <1>3, <1>5, <1>8, <1>9, <1>10, <1>11 DEF CreateItem, ReplaceItem, DeleteItem, Asks

\* A save overwrites the version its form was filled from, unless the query
\* behind the form was fetched again while it was open.
THEOREM OverwritesFollowRefetch == RegistrySpec => OverwritesOnlyAfterRefetch
<1>1. ASSUME RegistryIInv, [RegistryNext]_vars, NEW t \in Tab, Saves(t)
      PROVE  tab[t].shown = store[tab[t].id].etag \/ t \in renewed
  <2>1. tab[t].op = "update" /\ tab[t].at = "checked" /\ tab'[t].at = "committed"
      BY <1>1 DEF Saves, Asks
  <2>2. IfMatch(t) /\ tab[t].etag # AnyVersion
      BY <1>1, <2>1, CommitCases, TabFacts DEF TabConsistent, FormConsistent
  <2> QED
      BY <1>1, <2>1, <2>2, TabFacts DEF TabConsistent, FormConsistent, IfMatch
<1>2. RegistryIInv /\ [RegistryNext]_vars =>
          [\A t \in Tab : Saves(t) =>
               tab[t].shown = store[tab[t].id].etag \/ t \in renewed]_vars
    BY <1>1
<1> QED
    BY <1>2, RegistryInvariant, PTL DEF RegistrySpec, OverwritesOnlyAfterRefetch

\* An orphan, or two siblings of one name, come only from an entity that was
\* written between the checks of a request and its own write.
THEOREM HierarchyBreaksByRace == RegistrySpec => HierarchyBrokenOnlyByRace
<1> DEFINE Kept(t) == LET e == tab[t].id
                          name == tab[t].name
                          parent == tab[t].parent
                          kept == Exists(e) /\ <<name, parent>> = <<store[e].name, store[e].parent>>
                          unread == tab[t].etag = AnyVersion /\ e \in since[t]
                      IN  tab[t].at # "committed" /\ tab'[t].at = "committed" =>
                            CASE tab[t].op = "delete" -> Children(e) \subseteq since[t]
                              [] tab[t].op \in {"create"} \cup Updates ->
                                   /\ ParentFound(parent) \/ parent \in since[t]
                                   /\ kept \/ unread
                                      \/ Siblings(e, name, parent) \subseteq since[t]
                              [] tab[t].op \in StatusChanges -> kept \/ unread
<1>1. ASSUME RegistryIInv, [RegistryNext]_vars, NEW t \in Tab,
             tab[t].at # "committed", tab'[t].at = "committed"
      PROVE  Kept(t)
  <2>1. HierarchyConsistent(t)
      BY <1>1, TabFacts DEF TabConsistent
  <2>2. CASE tab[t].op = "delete"
    <3>1. tab[t].at = "tombstoned"
        BY <1>1, <2>2, CommitCases
    <3> QED
        BY <2>1, <2>2, <3>1 DEF HierarchyConsistent
  <2>3. CASE tab[t].op = "create"
    <3>1. tab[t].at = "checked"
        BY <1>1, <2>3, CommitCases
    <3> QED
        BY <2>1, <2>3, <3>1 DEF HierarchyConsistent
  <2>4. CASE tab[t].op \in Updates \cup StatusChanges
    <3>1. tab[t].at = "checked" /\ Exists(tab[t].id) /\ IfMatch(t)
        BY <1>1, <2>4, CommitCases
    <3>2. CASE tab[t].read = store[tab[t].id].etag
        BY <2>1, <2>4, <3>1, <3>2 DEF HierarchyConsistent, Moves
    <3>3. CASE tab[t].etag = AnyVersion /\ tab[t].id \in since[t]
        BY <2>1, <2>4, <3>1, <3>3 DEF HierarchyConsistent
    <3> QED
        BY <1>1, <2>4, <3>1, <3>2, <3>3, AcceptedIsRead
  <2>5. tab[t].op \in {"create", "delete"} \cup Updates \cup StatusChanges
      BY <1>1, CommitCases
  <2> QED
      BY <2>2, <2>3, <2>4, <2>5
<1>2. RegistryIInv /\ [RegistryNext]_vars => [\A t \in Tab : Kept(t)]_vars
    BY <1>1
<1> QED
    BY <1>2, RegistryInvariant, PTL DEF RegistrySpec, HierarchyBrokenOnlyByRace
=============================================================================
