-------------------------- MODULE RegistryEntities --------------------------
(***************************************************************************)
(* The registry of one environment (one Cosmos partition): browser tabs    *)
(* with the edit forms of the web client, the create, update, status and   *)
(* delete endpoints behind them, and the entity container.                  *)
(*                                                                         *)
(* Documents carry their ETag as a number: the n-th version of an entity.  *)
(* Every query of a handler and every write of the container is a step;    *)
(* the queries a handler makes one after the other before its first write  *)
(* are one.                                                                *)
(***************************************************************************)
EXTENDS Naturals

CONSTANTS
    Namespace,   \* ids that namespaces may be given
    Queue,       \* ids that their children may be given
    Name,
    None,        \* no name, no parent
    Tab,         \* browser tabs, and other clients of the API
    MaxVersion,  \* versions an entity may have
    Wildcards    \* what other clients of the API ask for with If-Match: *

ASSUME IdsAssumption == Namespace \cap Queue = {} /\ None \notin Namespace \cup Queue
ASSUME VersionsAssumption == MaxVersion \in Nat \ {0}
ASSUME WildcardsAssumption == Wildcards \subseteq {"put", "patch", "delete"}

VARIABLES
    store,    \* store[e]: the document of e, or Absent
    last,     \* last[e]: the last ETag of e; no two versions share one
    born,     \* the ids that a create form has drawn
    cache,    \* cache[t]: the entity and version in t's detail query
    tab,      \* tab[t]: the form, or the request, of tab t
    since,    \* history: entities written since the checks of t's request
    renewed   \* history: tabs whose query was refetched under an open form

vars == <<store, last, born, cache, tab, since, renewed>>

-----------------------------------------------------------------------------
Entity == Namespace \cup Queue
AnyVersion == MaxVersion + 1  \* the ETag *, which the container takes for every version

Document == [etag : 1..MaxVersion, name : Name, parent : Namespace \cup {None}]
Absent == [etag |-> 0, name |-> None, parent |-> None]
Exists(e) == store[e] # Absent

\* FindByParentAndNameAsync, for a document that would be e's.
Siblings(e, name, parent) ==
    {d \in Entity \ {e} : /\ Exists(d) /\ (d \in Queue <=> e \in Queue)
                          /\ store[d].name = name /\ store[d].parent = parent}

Children(e) == {d \in Entity : store[d].parent = e}

\* A bound: entities have MaxVersion versions at most, and one entity as many.
HasRoom(e) ==
    /\ last[e] < MaxVersion
    /\ last[e] + 1 = MaxVersion => \A d \in Entity : last[d] < MaxVersion

\* ExpectedParentType, and the parent a request may name.
ParentsOf(e) == IF e \in Queue THEN Namespace ELSE {None}
ParentFound(parent) == parent # None => Exists(parent)

Away == [at |-> "away", op |-> "none", id |-> None, shown |-> 0, etag |-> 0,
         force |-> FALSE, name |-> None, parent |-> None, read |-> 0]
\* A tab's detail query: of the entity visited last, one at a time.
Query == [id : Entity \cup {None}, etag : 0..MaxVersion]
NoData == [id |-> None, etag |-> 0]
Data(e) == IF Exists(e) THEN [id |-> e, etag |-> store[e].etag] ELSE NoData

Handling == {"sent", "checked", "tombstoned", "committed"}
Places == {"away", "form", "conflict"} \cup Handling
\* The update and the status endpoint are also called by clients without a form:
\* "put" and "patch" are their requests with If-Match: *.
Updates == {"update", "put"}
StatusChanges == {"status", "patch"}
Operations == {"none", "create", "delete"} \cup Updates \cup StatusChanges
Page == [at : Places, op : Operations, id : Entity \cup {None},
         shown : 0..MaxVersion, etag : 0..AnyVersion, force : BOOLEAN,
         name : Name \cup {None}, parent : Namespace \cup {None},
         read : 0..MaxVersion]
InFlight(t) == tab[t].at \in Handling
Asks(t, op, at) == tab[t].op = op /\ tab[t].at = at

Init ==
    /\ store = [e \in Entity |-> Absent]
    /\ last = [e \in Entity |-> 0]
    /\ born = {}
    /\ cache = [t \in Tab |-> NoData]
    /\ tab = [t \in Tab |-> Away]
    /\ since = [t \in Tab |-> {}]
    /\ renewed = {}

-----------------------------------------------------------------------------
(* The web client.                                                         *)

\* A document is written: the requests that have made their checks miss it.
Missed(t, e) ==
    since' = [u \in Tab |-> IF u # t /\ tab[u].at \in {"checked", "tombstoned"}
                            THEN since[u] \cup {e} ELSE since[u]]

Leave(t) ==
    /\ tab' = [tab EXCEPT ![t] = Away]
    /\ renewed' = renewed \ {t}

\* Mutation: a form that shows an error has lost its entity.
FormReset(t) == [Away EXCEPT !.at = "form", !.op = tab[t].op]
\* The form, with what the user has entered, after an answer.
BackInForm(t) == [Away EXCEPT !.at = "form", !.op = tab[t].op,
                              !.id = tab[t].id, !.shown = tab[t].shown]

\* The detail query is fetched or refetched: on the first visit, on a visit
\* with stale data, on reconnection.  An open form keeps its values, but its
\* ETag is a property taken from the query; it closes if there is no entity.
Fetch(t, e) ==
    /\ ~InFlight(t) /\ cache[t] # Data(e)
    /\ tab[t] = Away \/ (tab[t].op = "update" /\ tab[t].id = e)
    /\ cache' = [cache EXCEPT ![t] = Data(e)]
    /\ IF tab[t] = Away THEN UNCHANGED <<tab, renewed>>
       ELSE IF Exists(e) THEN renewed' = renewed \cup {t} /\ UNCHANGED tab
       ELSE Leave(t)
    /\ UNCHANGED <<store, last, born, since>>

OpenEdit(t, e) ==
    /\ tab[t] = Away /\ cache[t].id = e
    /\ tab' = [tab EXCEPT ![t] = [Away EXCEPT !.at = "form", !.op = "update",
                                              !.id = e, !.shown = cache[t].etag]]
    /\ UNCHANGED <<store, last, born, cache, since, renewed>>

\* The create page draws the id of the entity-to-be.
OpenCreate(t, e) ==
    /\ tab[t] = Away /\ e \notin born
    /\ born' = born \cup {e}
    /\ tab' = [tab EXCEPT ![t] = [Away EXCEPT !.at = "form", !.op = "create",
                                              !.id = e]]
    /\ UNCHANGED <<store, last, cache, since, renewed>>

\* Mutation: the ETag is read anew when the form is submitted.
FreshEtag(t, e) == store[e].etag

\* The ETag that goes with a request: what the detail query holds now.
PersistedEtag(t, e) == IF cache[t].id = e THEN cache[t].etag ELSE 0

\* useEntityForm.submit, and the force-overwrite button of the conflict modal.
Submit(t, force, name, parent) ==
    LET e == tab[t].id IN
    /\ HasRoom(e)
    /\ tab' = [tab EXCEPT ![t].at = "sent", ![t].force = force,
                          ![t].etag = PersistedEtag(t, e),
                          ![t].name = name, ![t].parent = parent]
    /\ UNCHANGED <<store, last, born, cache, since, renewed>>

SubmitForm(t) ==
    /\ tab[t].at = "form"
    /\ \E name \in Name, parent \in ParentsOf(tab[t].id) :
           Submit(t, FALSE, name, parent)

ForceOverwrite(t) ==
    /\ tab[t].at = "conflict"
    /\ Submit(t, TRUE, tab[t].name, tab[t].parent)

CloseModal(t) ==
    /\ tab[t].at = "conflict"
    /\ tab' = [tab EXCEPT ![t] = BackInForm(t)]
    /\ UNCHANGED <<store, last, born, cache, since, renewed>>

\* Cancel, and "Discard my changes and refresh": on to the detail page.
LeaveForm(t) ==
    /\ tab[t].at \in {"form", "conflict"}
    /\ Leave(t)
    /\ UNCHANGED <<store, last, born, cache, since>>

\* A status change or a delete, with the ETag of the detail query.
Request(t, e, op) ==
    /\ tab[t] = Away /\ PersistedEtag(t, e) # 0
    /\ tab' = [tab EXCEPT ![t] = [Away EXCEPT !.at = "sent", !.op = op,
                                  !.id = e, !.etag = PersistedEtag(t, e)]]
    /\ UNCHANGED <<store, last, born, cache, since, renewed>>

\* What another client sends for an entity there is, with If-Match: *.  A PUT has
\* the flag of a force overwrite, which with * changes the audit event only.
Bodies(op, e) ==
    IF op = "put" THEN [force : {TRUE}, name : Name, parent : ParentsOf(e)]
                  ELSE {[force |-> FALSE, name |-> None, parent |-> None]}
RequestAny(t, e, op) ==
    /\ tab[t] = Away /\ Exists(e) /\ (op # "delete" => HasRoom(e))
    /\ \E body \in Bodies(op, e) :
           tab' = [tab EXCEPT ![t] = [Away EXCEPT
                       !.at = "sent", !.op = op, !.id = e, !.etag = AnyVersion,
                       !.force = body.force, !.name = body.name,
                       !.parent = body.parent]]
    /\ UNCHANGED <<store, last, born, cache, since, renewed>>

-----------------------------------------------------------------------------
(* The endpoints.                                                          *)

\* An error response: a form stays open on it.
Refuse(t) ==
    /\ IF tab[t].op \in {"create", "update"}
       THEN tab' = [tab EXCEPT ![t] = BackInForm(t)] /\ UNCHANGED renewed
       ELSE Leave(t)
    /\ since' = [since EXCEPT ![t] = {}]
    /\ UNCHANGED <<store, last, born, cache>>

Proceed(t, name, parent) ==
    /\ tab' = [tab EXCEPT ![t].at = "checked", ![t].name = name,
                          ![t].parent = parent,
                          ![t].read = store[tab[t].id].etag]
    /\ UNCHANGED <<store, last, born, cache, since, renewed>>

\* Mutation: names are looked up under a parent only.
RootsUnchecked(e, name, parent) == parent = None \/ Siblings(e, name, parent) = {}
NameIsFree(e, name, parent) == Siblings(e, name, parent) = {}

\* The request gives its entity another name or parent than it has.
Moves(t) == LET d == store[tab[t].id] IN
            <<d.name, d.parent>> # <<tab[t].name, tab[t].parent>>

\* The entity itself counts as a duplicate, if an earlier attempt created it.
CreateCheck(t) ==
    /\ Asks(t, "create", "sent")
    /\ IF ParentFound(tab[t].parent) /\ Moves(t)
          /\ NameIsFree(tab[t].id, tab[t].name, tab[t].parent)
       THEN Proceed(t, tab[t].name, tab[t].parent)
       ELSE Refuse(t)

\* An acknowledged overwrite must not be sent with the ETag that is current; the
\* strings are compared, so * is another one.
ForceAllowed(t) == tab[t].force => tab[t].etag # store[tab[t].id].etag

UpdateCheck(t) ==
    LET e == tab[t].id IN
    /\ tab[t].at = "sent" /\ tab[t].op \in Updates
    /\ IF Exists(e) /\ ParentFound(tab[t].parent) /\ ForceAllowed(t)
          /\ (Moves(t) => NameIsFree(e, tab[t].name, tab[t].parent))
       THEN Proceed(t, tab[t].name, tab[t].parent)
       ELSE Refuse(t)

\* Whether the requested status differs from the present one is left open.
StatusCheck(t) ==
    LET e == tab[t].id IN
    /\ tab[t].at = "sent" /\ tab[t].op \in StatusChanges
    /\ \/ Exists(e) /\ Proceed(t, store[e].name, store[e].parent)
       \/ Refuse(t)

DeleteCheck(t) ==
    LET e == tab[t].id IN
    /\ Asks(t, "delete", "sent")
    /\ IF Exists(e) /\ Children(e) = {} THEN Proceed(t, None, None)
                                        ELSE Refuse(t)

\* The container accepts a write: the entity's next version.
Commit(t) ==
    LET e == tab[t].id IN
    /\ HasRoom(e)
    /\ last' = [last EXCEPT ![e] = @ + 1]
    /\ store' = [store EXCEPT ![e] = [etag |-> last'[e], name |-> tab[t].name,
                                      parent |-> tab[t].parent]]
    /\ tab' = [tab EXCEPT ![t].at = "committed", ![t].etag = last'[e]]
    /\ Missed(t, e)
    /\ UNCHANGED <<born, cache, renewed>>

CreateItem(t) ==
    /\ Asks(t, "create", "checked")
    /\ IF Exists(tab[t].id) THEN Refuse(t) ELSE Commit(t)

\* Mutation: an older ETag will do.
EtagNotNewer(t) == tab[t].etag = AnyVersion \/ tab[t].etag <= store[tab[t].id].etag
IfMatch(t) == tab[t].etag \in {AnyVersion, store[tab[t].id].etag}

\* 412: the form shows the conflict, a status change is refused.
ReplaceItem(t) ==
    LET e == tab[t].id IN
    /\ tab[t].at = "checked" /\ tab[t].op \in Updates \cup StatusChanges
    /\ CASE Exists(e) /\ IfMatch(t) -> Commit(t)
         [] Exists(e) /\ ~IfMatch(t) /\ tab[t].op = "update" ->
                /\ tab' = [tab EXCEPT ![t].at = "conflict", ![t].read = 0,
                                      ![t].etag = 0, ![t].force = FALSE]
                /\ since' = [since EXCEPT ![t] = {}]
                /\ UNCHANGED <<store, last, born, cache, renewed>>
         [] OTHER -> Refuse(t)

WriteTombstone(t) ==
    /\ Asks(t, "delete", "checked")
    /\ tab' = [tab EXCEPT ![t].at = "tombstoned"]
    /\ UNCHANGED <<store, last, born, cache, since, renewed>>

\* A document that is already gone counts as deleted.
DeleteItem(t) ==
    LET e == tab[t].id IN
    /\ Asks(t, "delete", "tombstoned")
    /\ IF ~Exists(e) \/ IfMatch(t)
       THEN /\ store' = [store EXCEPT ![e] = Absent]
            /\ tab' = [tab EXCEPT ![t].at = "committed"]
            /\ Missed(t, e)
            /\ UNCHANGED <<last, born, cache, renewed>>
       ELSE Refuse(t)

\* The audit event of t's request.
EventOf(t) ==
    [type |-> CASE tab[t].op = "create" -> "Created"
                [] tab[t].op \in Updates -> "Updated"
                [] tab[t].op \in StatusChanges -> "StatusChanged"
                [] tab[t].op = "delete" -> "Deleted",
     id |-> tab[t].id, from |-> tab[t].read, forced |-> tab[t].force,
     to |-> IF tab[t].op = "delete" THEN 0 ELSE tab[t].etag]

\* WriteAsync of EventOf(t), which swallows its failure, then the response: the
\* client invalidates the detail query, which is fetched again, and moves on.
Finish(t) ==
    LET e == tab[t].id IN
    /\ tab[t].at = "committed"
    /\ cache' = IF tab[t].op = "update"
                THEN [cache EXCEPT ![t] = Data(e)] ELSE cache
    /\ Leave(t)
    /\ since' = [since EXCEPT ![t] = {}]
    /\ UNCHANGED <<store, last, born>>

\* The process dies, or an error leaves the handler, wherever it is.
Die(t) == InFlight(t) /\ Refuse(t)

-----------------------------------------------------------------------------
Serve(t) ==
    \/ CreateCheck(t) \/ UpdateCheck(t) \/ StatusCheck(t) \/ DeleteCheck(t)
    \/ CreateItem(t) \/ ReplaceItem(t) \/ WriteTombstone(t) \/ DeleteItem(t)
    \/ Finish(t)

Browse(t) ==
    \/ \E e \in Entity : Fetch(t, e) \/ OpenEdit(t, e) \/ OpenCreate(t, e)
    \/ \E e \in Entity, op \in {"status", "delete"} : Request(t, e, op)
    \/ \E e \in Entity, op \in Wildcards : RequestAny(t, e, op)
    \/ SubmitForm(t) \/ ForceOverwrite(t) \/ CloseModal(t) \/ LeaveForm(t)

RegistryNext == \E t \in Tab : Serve(t) \/ Browse(t) \/ Die(t)

RegistrySpec == Init /\ [][RegistryNext]_vars

-----------------------------------------------------------------------------
(* Properties.                                                             *)

\* Types, that a document is its id's last version, that every form and every
\* request is about an entity, and that only a delete comes past a tombstone.
RegistryTypeOK ==
    /\ store \in [Entity -> Document \cup {Absent}]
    /\ \A e \in Entity : Exists(e) => store[e].etag = last[e]
    /\ last \in [Entity -> 0..MaxVersion]
    /\ born \subseteq Entity
    /\ cache \in [Tab -> Query]
    /\ tab \in [Tab -> Page]
    /\ \A t \in Tab : tab[t].at = "tombstoned" => tab[t].op = "delete"
    /\ \A t \in Tab : tab[t].at # "away" => tab[t].id # None
    /\ since \in [Tab -> SUBSET Entity]
    /\ renewed \subseteq Tab

\* UpdateEndpoint computes the field changes of its audit event between the
\* document it read at the start and the one it saved at the end.  Whatever
\* happened in between, the event describes one change: from a version to the
\* next one.  Only with If-Match: * may it span the writes of others, and only
\* those made since the read.
AuditDescribesChange ==
    \A t \in Tab :
        tab[t].at = "committed" /\ EventOf(t).type \in {"Updated", "StatusChanged"}
            => \/ EventOf(t).to = EventOf(t).from + 1
               \/ /\ tab[t].op \in {"put", "patch"} /\ EventOf(t).id \in since[t]
                  /\ EventOf(t).to > EventOf(t).from

\* FR-020, data-model.md:157 and quickstart.md:165 of spec 006: a force overwrite
\* goes through.  The endpoint lets every one pass that it would let pass without
\* the flag, and the container takes it unless the entity was written since.
ForceOverwriteSucceeds ==
    [][\A t \in Tab :
        LET e == tab[t].id
            valid == /\ Exists(e) /\ ParentFound(tab[t].parent)
                     /\ Moves(t) => NameIsFree(e, tab[t].name, tab[t].parent)
        IN  tab[t].force =>
              /\ valid /\ UpdateCheck(t) => tab'[t].at = "checked"
              /\ Exists(e) /\ e \notin since[t] /\ ReplaceItem(t) =>
                     tab'[t].at = "committed"]_vars

Saves(t) == Asks(t, "update", "checked") /\ tab'[t].at = "committed"

\* A save that the container accepts replaces the version its form was filled
\* from, unless the detail query was refetched under the open form.
OverwritesOnlyAfterRefetch ==
    [][\A t \in Tab : Saves(t) =>
           tab[t].shown = store[tab[t].id].etag \/ t \in renewed]_vars

\* DeleteEndpoint counts children, and the create and update endpoints look for
\* the parent and for siblings of the name, before their writes.  A write
\* leaves a child without its parent, or two siblings with one name, only
\* through an entity that another request wrote since these checks; the entity of
\* the write itself is one only with If-Match: *.
HierarchyBrokenOnlyByRace ==
    [][\A t \in Tab :
        LET e == tab[t].id
            name == tab[t].name
            parent == tab[t].parent
            kept == Exists(e) /\ <<name, parent>> = <<store[e].name, store[e].parent>>
            unread == tab[t].etag = AnyVersion /\ e \in since[t]
        IN  tab[t].at # "committed" /\ tab'[t].at = "committed" =>
              CASE tab[t].op = "delete" -> Children(e) \subseteq since[t]
                [] tab[t].op \in {"create"} \cup Updates ->
                     /\ ParentFound(parent) \/ parent \in since[t]
                     /\ kept \/ unread \/ Siblings(e, name, parent) \subseteq since[t]
                [] tab[t].op \in StatusChanges -> kept \/ unread]_vars

\* The inductive invariant.  A tab never holds an ETag that was not given out; a
\* form that nobody refetched still has the version it shows; and what the checks
\* of a request found is still so, but for entities that were written since.
CacheConsistent(t) ==
    cache[t].id # None => cache[t].etag <= last[cache[t].id]
FormConsistent(t) ==
    /\ tab[t].at = "form" => tab[t].op \in {"create", "update"}
    /\ tab[t].at = "conflict" => tab[t].op = "update" /\ tab[t].name \in Name
    /\ InFlight(t) => tab[t].op # "none"
    /\ tab[t].op \in {"put", "patch"} => InFlight(t)
    /\ tab[t].etag = AnyVersion => tab[t].op \in {"put", "patch", "delete"}
    /\ tab[t].at \in {"sent", "checked"} /\ tab[t].op \in {"put", "patch"}
          => tab[t].etag = AnyVersion
    /\ tab[t].at \in {"sent", "checked", "committed"}
          /\ tab[t].op \in {"create"} \cup Updates => tab[t].name \in Name
    /\ tab[t].at = "sent" /\ tab[t].etag # AnyVersion => tab[t].etag <= last[tab[t].id]
    /\ tab[t].op = "update" /\ t \notin renewed =>
          /\ cache[t] = [id |-> tab[t].id, etag |-> tab[t].shown]
          /\ tab[t].at \in {"sent", "checked"} => tab[t].etag = tab[t].shown

\* A request that replaces a document, between its checks and its write.
ReplaceConsistent(t) ==
    tab[t].at = "checked" /\ tab[t].op \in Updates \cup StatusChanges =>
        /\ tab[t].name \in Name
        /\ 1 <= tab[t].read /\ tab[t].read <= last[tab[t].id]
        /\ tab[t].etag # AnyVersion => tab[t].etag <= tab[t].read
        /\ store[tab[t].id].etag = tab[t].read \/ tab[t].id \in since[t]
CommittedConsistent(t) ==
    tab[t].at = "committed" /\ tab[t].op \in Updates \cup StatusChanges =>
        \/ tab[t].etag = tab[t].read + 1
        \/ /\ tab[t].op \in {"put", "patch"} /\ tab[t].id \in since[t]
           /\ tab[t].etag > tab[t].read

\* The hierarchy as the checks of a request found it.
HierarchyConsistent(t) ==
    LET e == tab[t].id
        siblings == Siblings(e, tab[t].name, tab[t].parent) IN
    /\ tab[t].at \in {"checked", "tombstoned"} /\ tab[t].op = "delete" =>
          Children(e) \subseteq since[t]
    /\ tab[t].at = "checked" /\ tab[t].op \in {"create"} \cup Updates =>
          ParentFound(tab[t].parent) \/ tab[t].parent \in since[t]
    /\ tab[t].at = "checked" /\ tab[t].op = "create" => siblings \subseteq since[t]
    /\ /\ tab[t].at = "checked" /\ tab[t].op \in Updates \cup StatusChanges
       /\ store[e].etag = tab[t].read
       => \/ ~Moves(t)
          \/ tab[t].op \in Updates /\ siblings \subseteq since[t]

TabConsistent(t) ==
    /\ CacheConsistent(t) /\ FormConsistent(t) /\ ReplaceConsistent(t)
    /\ CommittedConsistent(t) /\ HierarchyConsistent(t)
RegistryIInv == RegistryTypeOK /\ \A t \in Tab : TabConsistent(t)
=============================================================================
