--------------------------- MODULE EntityDiscovery ---------------------------
(***************************************************************************)
(* One namespace's catalog under discovery: EntityDiscoveryOrchestrator    *)
(* walks Azure scope by scope, DiscoveryWriteBatcher upserts what it finds *)
(* through a bounded channel and a pool of drain workers, and the missing- *)
(* sweep marks what was not seen; the API's curation endpoints write the   *)
(* same documents meanwhile.                                               *)
(*                                                                         *)
(* A Run is one execution of the orchestrator: a redelivered message, or a *)
(* run whose lease was stolen, makes two of them overlap.  An ETag is not  *)
(* a number here: holders[e] is who read the version of document e that is *)
(* current, so a conditional write succeeds for its members only, and any  *)
(* write empties it.                                                       *)
(***************************************************************************)
EXTENDS Integers, FiniteSets

CONSTANTS
    Queue, Topic,   \* what may exist in Azure, by the scope that lists it
    Subscription,   \* subscriptions and rules: one stream lists both
    Run,            \* executions of EntityDiscoveryOrchestrator.RunAsync
    Curator,        \* clients of the archive and metadata endpoints
    Nobody,         \* no curated metadata yet
    MaxVersion,     \* configurations an entity may have in Azure
    Capacity,       \* DefaultChannelCapacity
    Parallelism,    \* DefaultParallelism
    PageSize,       \* MaxItemCount of the candidate query
    Faults          \* the failures the environment may produce

\* "scope"  ListAll of a scope throws         "write"  an upsert throws
\* "cancel" an upsert throws OperationCanceledException
\* "sweep"  the query or a transition throws  "die"    the process dies
FaultKinds == {"scope", "write", "cancel", "sweep", "die"}

Entity == Queue \cup Topic \cup Subscription

ASSUME ScopesAssumption ==
    /\ Queue \cap Topic = {}
    /\ Subscription \cap (Queue \cup Topic) = {}
    /\ IsFiniteSet(Entity)
ASSUME ActorsAssumption == Run \cap Curator = {} /\ Nobody \notin Curator
ASSUME BoundsAssumption ==
    {MaxVersion, Capacity, Parallelism, PageSize} \subseteq Nat \ {0}
ASSUME FaultsAssumption == Faults \subseteq FaultKinds

VARIABLES
    azure,      \* azure[e]: the configuration of e in Azure, 0 if absent
    doc,        \* doc[e]: the published-entity document
    holders,    \* holders[e]: who holds the current ETag of doc[e]
    now,        \* the number of executions started, as their time
    started,    \* started[x]: startedUtc
    phase,      \* phase[x]: where RunAsync is
    scope,      \* scope[x]: which of the three scopes is being streamed
    item,       \* item[x][e]: what became of e in this execution
    drainers,   \* drainers[x]: DrainAsync tasks that have not returned
    page,       \* page[x]: missing candidates still to be transitioned
    wanted,     \* wanted[c]: the entity and the request of a client
    overlapped, \* history: executions that ran at the same time as another
    skipped     \* history: entities whose transition met a 412

runVars == <<now, started, phase, scope, item, drainers, page, overlapped,
             skipped>>
vars == <<azure, doc, holders, runVars, wanted>>

-----------------------------------------------------------------------------
Scopes == 1..3
InScope(k) == CASE k = 1 -> Queue [] k = 2 -> Topic [] k = 3 -> Subscription

Statuses == {"none", "Active", "Missing", "Archived"}
Document == [status : Statuses, hash : 0..MaxVersion, lastSeen : Nat,
             firstSeen : Nat, curated : Curator \cup {Nobody}]
NoDocument == [status |-> "none", hash |-> 0, lastSeen |-> 0, firstSeen |-> 0,
               curated |-> Nobody]
Exists(e) == doc[e].status # "none"

\* The documents that executions before these, and clients, have left.
Earlier == [status : Statuses \ {"none"}, hash : 1..MaxVersion,
            lastSeen : {0}, firstSeen : {0}, curated : Curator \cup {Nobody}]

\* Stages of an upsert: not listed yet; listed as absent; in the channel;
\* classified, about to be written; the patch after a lost create; done.
Writing == {"New", "Updated", "Unchanged", "raced"}
Stages == {"unlisted", "absent", "queued", "written", "lost"} \cup Writing
Item == [stage : Stages, version : 0..MaxVersion]
Unlisted == [stage |-> "unlisted", version |-> 0]

\* What a client asks for, on the version of the document it has read.
NoRequest == [request |-> "none"]
Requests == {NoRequest} \cup
            [request : {"archive", "edit"}, entity : Entity]

Phases == {"idle", "stream", "close", "abort", "sweep", "succeeded", "failed",
           "dead"}
Draining(x) == phase[x] \in {"stream", "close", "abort"}
Running(x) == Draining(x) \/ phase[x] = "sweep"

Init ==
    /\ azure \in [Entity -> 0..MaxVersion]
    /\ doc \in [Entity -> {NoDocument} \cup Earlier]
    /\ holders = [e \in Entity |-> {}]
    /\ now = 0
    /\ started = [x \in Run |-> 0]
    /\ phase = [x \in Run |-> "idle"]
    /\ scope = [x \in Run |-> 1]
    /\ item = [x \in Run |-> [e \in Entity |-> Unlisted]]
    /\ drainers = [x \in Run |-> Parallelism]
    /\ page = [x \in Run |-> {}]
    /\ wanted = [c \in Curator |-> NoRequest]
    /\ overlapped = {}
    /\ skipped = [x \in Run |-> {}]

Goto(x, label) == phase' = [phase EXCEPT ![x] = label]

\* A write of document e: whoever held its ETag holds an old one now.
Write(e, d) ==
    /\ doc' = [doc EXCEPT ![e] = d]
    /\ holders' = [holders EXCEPT ![e] = {}]

\* Mutation: the ETag is not sent.
IfMatchIgnored(a, e) == TRUE
IfMatch(a, e) == a \in holders[e]

-----------------------------------------------------------------------------
(* Azure, outside the system: entities come, change and go.                *)

AzureChanges(e) ==
    /\ \E v \in (0..MaxVersion) \ {azure[e]} : azure' = [azure EXCEPT ![e] = v]
    /\ UNCHANGED <<doc, holders, runVars, wanted>>

-----------------------------------------------------------------------------
(* RunAsync: the three scopes, one after the other.                        *)

Start(x) ==
    LET others == {y \in Run : Running(y)}
    IN  /\ phase[x] = "idle"
        /\ now' = now + 1
        /\ started' = [started EXCEPT ![x] = now + 1]
        /\ Goto(x, "stream")
        /\ overlapped' = overlapped \cup
               IF others = {} THEN {} ELSE others \cup {x}
        /\ UNCHANGED <<azure, doc, holders, scope, item, drainers, page,
                       skipped, wanted>>

SetStage(x, e, stage) == item' = [item EXCEPT ![x][e].stage = stage]

InStage(x, stages) == {e \in Entity : item[x][e].stage \in stages}

\* Mutation: an unbounded channel.
UnboundedChannel(x) == TRUE

\* FullMode = Wait: EnqueueAsync completes when there is room.
ChannelHasRoom(x) == Cardinality(InStage(x, {"queued"})) < Capacity

\* The stream reaches e, wherever it comes in Azure's order.
ListEntity(x, e) ==
    /\ phase[x] = "stream" /\ e \in InScope(scope[x])
    /\ item[x][e].stage = "unlisted"
    /\ \/ azure[e] = 0 /\ SetStage(x, e, "absent")
       \/ /\ azure[e] # 0 /\ ChannelHasRoom(x)
          /\ item' = [item EXCEPT ![x][e] = [stage |-> "queued",
                                             version |-> azure[e]]]
    /\ UNCHANGED <<azure, doc, holders, now, started, phase, scope, drainers,
                   page, overlapped, skipped, wanted>>

\* The stream of a scope is at its end; after the last, CompleteAsync.
ScopeCompleted(x) ==
    /\ phase[x] = "stream"
    /\ InScope(scope[x]) \cap InStage(x, {"unlisted"}) = {}
    /\ IF scope[x] + 1 \in Scopes
       THEN scope' = [scope EXCEPT ![x] = @ + 1] /\ UNCHANGED phase
       ELSE Goto(x, "close") /\ UNCHANGED scope
    /\ UNCHANGED <<azure, doc, holders, now, started, item, drainers, page,
                   overlapped, skipped, wanted>>

\* Mutation: a failed scope is left out, the run goes on.
ScopeSkipped(x) ==
    /\ "scope" \in Faults
    /\ phase[x] = "stream"
    /\ Goto(x, "close")
    /\ UNCHANGED <<azure, doc, holders, now, started, scope, item, drainers,
                   page, overlapped, skipped, wanted>>

\* The first exception ends the run, after the batcher has been completed.
ScopeFails(x) ==
    /\ "scope" \in Faults
    /\ phase[x] = "stream"
    /\ Goto(x, "abort")
    /\ UNCHANGED <<azure, doc, holders, now, started, scope, item, drainers,
                   page, overlapped, skipped, wanted>>

-----------------------------------------------------------------------------
(* DrainAsync and UpsertAzureSourcedAsync: read, classify, write.          *)

Classify(prior, current) ==
    IF prior = 0 THEN "New" ELSE IF prior = current THEN "Unchanged"
                                                    ELSE "Updated"

TakeAndRead(x, e) ==
    /\ Draining(x) /\ item[x][e].stage = "queued"
    /\ Cardinality(InStage(x, Writing)) < drainers[x]
    /\ SetStage(x, e, Classify(doc[e].hash, item[x][e].version))
    /\ UNCHANGED <<azure, doc, holders, now, started, phase, scope, drainers,
                   page, overlapped, skipped, wanted>>

\* Every write of an upsert ends the item, but for a create that conflicts.
Upsert(x, e, stage, d) ==
    /\ Draining(x) /\ item[x][e].stage = stage
    /\ Write(e, d)
    /\ SetStage(x, e, "written")
    /\ UNCHANGED <<azure, now, started, phase, scope, drainers, page,
                   overlapped, skipped, wanted>>

\* Unchanged: only the marks of this run, the status is left as it is.
Touch(x, e) ==
    Upsert(x, e, "Unchanged", [doc[e] EXCEPT !.lastSeen = started[x]])

\* Updated: the patch sets Active without a condition on the status.
Update(x, e) ==
    Upsert(x, e, "Updated",
           [doc[e] EXCEPT !.hash = item[x][e].version,
                          !.lastSeen = started[x],
                          !.status = "Active"])

Created(x, e) ==
    [status |-> "Active", hash |-> item[x][e].version,
     lastSeen |-> started[x], firstSeen |-> started[x], curated |-> Nobody]

\* Mutation: UpsertItemAsync in place of CreateItemAsync.
CreateByUpsert(x, e) == Upsert(x, e, "New", Created(x, e))

Create(x, e) ==
    \/ ~Exists(e) /\ Upsert(x, e, "New", Created(x, e))
    \/ /\ Draining(x) /\ item[x][e].stage = "New" /\ Exists(e)
       /\ SetStage(x, e, "raced")
       /\ UNCHANGED <<azure, doc, holders, now, started, phase, scope,
                      drainers, page, overlapped, skipped, wanted>>

\* The patch after the conflict does not set the status.
PatchRaced(x, e) ==
    Upsert(x, e, "raced", [doc[e] EXCEPT !.hash = item[x][e].version,
                                         !.lastSeen = started[x]])

\* Mutation: a failed item goes back into the channel.
WriteRequeued(x, e) ==
    /\ "write" \in Faults
    /\ Draining(x) /\ item[x][e].stage \in Writing
    /\ SetStage(x, e, "queued")
    /\ UNCHANGED <<azure, doc, holders, now, started, phase, scope, drainers,
                   page, overlapped, skipped, wanted>>

\* Logged, and on to the next item.
WriteFails(x, e) ==
    /\ "write" \in Faults
    /\ Draining(x) /\ item[x][e].stage \in Writing
    /\ SetStage(x, e, "lost")
    /\ UNCHANGED <<azure, doc, holders, now, started, phase, scope, drainers,
                   page, overlapped, skipped, wanted>>

\* "Graceful shutdown": the drain worker returns for good.
WriteCancelled(x, e) ==
    /\ "cancel" \in Faults
    /\ Draining(x) /\ item[x][e].stage \in Writing
    /\ SetStage(x, e, "lost")
    /\ drainers' = [drainers EXCEPT ![x] = @ - 1]
    /\ UNCHANGED <<azure, doc, holders, now, started, phase, scope, page,
                   overlapped, skipped, wanted>>

\* The items that nobody took any more are gone with the channel.
Dropped(x) ==
    item' = [item EXCEPT ![x] = [e \in Entity |->
                 IF item[x][e].stage = "queued"
                 THEN [item[x][e] EXCEPT !.stage = "lost"] ELSE item[x][e]]]

AfterBatch(x) == Goto(x, IF phase[x] = "close" THEN "sweep" ELSE "failed")

\* Mutation: the channel is completed, its workers are not awaited.
CompleteWithoutWaiting(x) ==
    /\ phase[x] \in {"close", "abort"}
    /\ AfterBatch(x)
    /\ UNCHANGED <<azure, doc, holders, now, started, scope, item, drainers,
                   page, overlapped, skipped, wanted>>

\* CompleteAsync returns when every drain worker has.
CompleteAsync(x) ==
    /\ phase[x] \in {"close", "abort"}
    /\ InStage(x, Writing) = {}
    /\ InStage(x, {"queued"}) = {} \/ drainers[x] = 0
    /\ Dropped(x)
    /\ AfterBatch(x)
    /\ UNCHANGED <<azure, doc, holders, now, started, scope, drainers, page,
                   overlapped, skipped, wanted>>

-----------------------------------------------------------------------------
(* The missing-sweep.                                                      *)

Stale(x) ==
    {e \in Entity : doc[e].status = "Active" /\ doc[e].lastSeen < started[x]}
Candidates(x) == Stale(x) \ skipped[x]

\* One page of the query, with the ETags of its documents.
ListMissingCandidates(x) ==
    /\ phase[x] = "sweep" /\ page[x] = {}
    /\ \E p \in SUBSET Candidates(x) :
         /\ Cardinality(p) \in 1..PageSize
         /\ page' = [page EXCEPT ![x] = p]
         /\ holders' = [e \in Entity |-> IF e \in p THEN holders[e] \cup {x}
                                                    ELSE holders[e]]
    /\ UNCHANGED <<azure, doc, now, started, phase, scope, item, drainers,
                   overlapped, skipped, wanted>>

\* A 412 is swallowed: "the entity moved, leave it alone".
TransitionToMissing(x, e) ==
    /\ phase[x] = "sweep" /\ e \in page[x]
    /\ page' = [page EXCEPT ![x] = @ \ {e}]
    /\ \/ /\ IfMatch(x, e)
          /\ Write(e, [doc[e] EXCEPT !.status = "Missing"])
          /\ UNCHANGED skipped
       \/ /\ ~IfMatch(x, e)
          /\ skipped' = [skipped EXCEPT ![x] = @ \cup {e}]
          /\ UNCHANGED <<doc, holders>>
    /\ UNCHANGED <<azure, now, started, phase, scope, item, drainers,
                   overlapped, wanted>>

\* What was transitioned before the failure stays.
SweepFails(x) ==
    /\ "sweep" \in Faults
    /\ phase[x] = "sweep"
    /\ Goto(x, "failed")
    /\ page' = [page EXCEPT ![x] = {}]
    /\ UNCHANGED <<azure, doc, holders, now, started, scope, item, drainers,
                   overlapped, skipped, wanted>>

\* The last page.  A candidate that an overlapping execution has made behind
\* the cursor of the query, by setting lastSeenUtc back, may stay unlisted.
SweepEnds(x) ==
    /\ phase[x] = "sweep" /\ page[x] = {}
    /\ Candidates(x) = {} \/ x \in overlapped
    /\ Goto(x, "succeeded")
    /\ UNCHANGED <<azure, doc, holders, now, started, scope, item, drainers,
                   page, overlapped, skipped, wanted>>

Die(x) ==
    /\ "die" \in Faults
    /\ Running(x)
    /\ Goto(x, "dead")
    /\ page' = [page EXCEPT ![x] = {}]
    /\ UNCHANGED <<azure, doc, holders, now, started, scope, item, drainers,
                   overlapped, skipped, wanted>>

-----------------------------------------------------------------------------
(* ArchiveEntityEndpoint and UpdateEntityMetadataEndpoint: a client has    *)
(* read the document and sends its ETag as If-Match.                       *)

GetEntityDetail(c, e) ==
    /\ wanted[c] = NoRequest /\ Exists(e)
    /\ \E kind \in {"archive", "edit"} :
         wanted' = [wanted EXCEPT ![c] = [request |-> kind, entity |-> e]]
    /\ holders' = [holders EXCEPT ![e] = @ \cup {c}]
    /\ UNCHANGED <<azure, doc, runVars>>

Curated(c, d) ==
    IF wanted[c].request = "archive" THEN [d EXCEPT !.status = "Archived"]
                                     ELSE [d EXCEPT !.curated = c]

\* ExecutePatchAsync; a 412 is the client's answer.
ExecutePatch(c) ==
    /\ wanted[c] # NoRequest
    /\ LET e == wanted[c].entity
       IN  \/ IfMatch(c, e) /\ Write(e, Curated(c, doc[e]))
           \/ ~IfMatch(c, e) /\ UNCHANGED <<doc, holders>>
    /\ wanted' = [wanted EXCEPT ![c] = NoRequest]
    /\ UNCHANGED <<azure, runVars>>

-----------------------------------------------------------------------------
\* The steps of an execution that nothing but a failure can prevent.
RunStep(x) ==
    \/ \E e \in Entity :
         \/ ListEntity(x, e)
         \/ TakeAndRead(x, e)
         \/ Touch(x, e)
         \/ Update(x, e)
         \/ Create(x, e)
         \/ PatchRaced(x, e)
         \/ TransitionToMissing(x, e)
    \/ ScopeCompleted(x)
    \/ CompleteAsync(x)
    \/ ListMissingCandidates(x)
    \/ SweepEnds(x)

RunFault(x) ==
    \/ ScopeFails(x)
    \/ \E e \in Entity : WriteFails(x, e) \/ WriteCancelled(x, e)
    \/ SweepFails(x)
    \/ Die(x)

Next ==
    \/ \E x \in Run : Start(x) \/ RunStep(x) \/ RunFault(x)
    \/ \E c \in Curator :
         \/ \E e \in Entity : GetEntityDetail(c, e)
         \/ ExecutePatch(c)
    \/ \E e \in Entity : AzureChanges(e)

Spec == Init /\ [][Next]_vars

\* The worker process keeps running the executions it has begun.
FairSpec == Spec /\ \A x \in Run : WF_vars(RunStep(x))

-----------------------------------------------------------------------------
(* Type invariant; the channel and the pool stay within their bounds.      *)
TypeOK ==
    /\ azure \in [Entity -> 0..MaxVersion]
    /\ doc \in [Entity -> Document]
    /\ holders \in [Entity -> SUBSET (Run \cup Curator)]
    /\ now \in Nat
    /\ started \in [Run -> 0..now]
    /\ phase \in [Run -> Phases]
    /\ scope \in [Run -> Scopes]
    /\ item \in [Run -> [Entity -> Item]]
    /\ drainers \in [Run -> 0..Parallelism]
    /\ page \in [Run -> SUBSET Entity]
    /\ wanted \in [Curator -> Requests]
    /\ overlapped \in SUBSET Run
    /\ skipped \in [Run -> SUBSET Entity]
    /\ \A x \in Run :
         /\ Cardinality(InStage(x, {"queued"})) <= Capacity
         /\ Cardinality(InStage(x, Writing)) <= drainers[x]
         /\ Cardinality(page[x]) <= PageSize

\* The execution that has just taken e from its page of candidates.
SweptBy(x, e) == e \in page[x] \ page'[x]

(* An entity is marked Missing only by an execution whose complete listing *)
(* did not contain it, unless that execution lost the upsert of e to a     *)
(* failed write, or ran while another one was writing the same documents   *)
(* (FR-013, FR-021): a failed scope, an upsert still under way or a late   *)
(* candidate never costs an entity its Active status.                      *)
SweptWereUnseen ==
    [][ \A e \in Entity :
          doc[e].status # "Missing" /\ doc'[e].status = "Missing" =>
              \E x \in Run :
                  /\ SweptBy(x, e)
                  /\ \/ item[x][e].stage \in {"absent", "lost"}
                     \/ x \in overlapped ]_doc

(* When an execution that nobody overlapped has succeeded, and until the   *)
(* next one starts, the catalog is what it listed: what it saw has the     *)
(* configuration it saw, and what it did not see is not Active, except for *)
(* upserts that failed and candidates that a client changed in the sweep.  *)
SuccessMeansCatalog ==
    \A x \in Run :
        phase[x] = "succeeded" /\ x \notin overlapped /\ started[x] = now =>
            \A e \in Entity :
                /\ item[x][e].stage \in {"absent", "written", "lost"}
                /\ item[x][e].stage = "written" =>
                       /\ Exists(e)
                       /\ doc[e].hash = item[x][e].version
                /\ item[x][e].stage = "absent" /\ doc[e].status = "Active" =>
                       e \in skipped[x]

(* FR-015, as far as the code keeps it: an archived entity loses its status *)
(* only to an upsert that had read another configuration than Azure has,   *)
(* and is Active then.  No sweep with an old candidate, no touch and no    *)
(* create that another execution or a client has raced takes it away.      *)
ArchivedEndsByUpdate ==
    [][ \A e \in Entity :
          doc[e].status = "Archived" /\ doc'[e].status # "Archived" =>
              /\ doc'[e].status = "Active"
              /\ \E x \in Run : /\ item[x][e].stage = "Updated"
                                /\ item'[x][e].stage = "written" ]_doc

(* Curated metadata changes only by a client that held the current ETag,   *)
(* and the first-discovered time never changes: no discovery, and no two   *)
(* discoveries racing to create the same document, overwrite them (FR-014, *)
(* FR-016, FR-017).                                                        *)
CuratedSurvives ==
    [][ \A e \in Entity : Exists(e) =>
          /\ doc'[e].firstSeen = doc[e].firstSeen
          /\ doc'[e].curated # doc[e].curated =>
                 \E c \in Curator :
                     c \in holders[e] /\ doc'[e].curated = c ]_doc

(* The inductive invariant.  An execution that nobody overlapped, and after *)
(* which none has started, is alone with the clients: what it has written  *)
(* is still there, and what it has not written is older than itself.       *)
Alone(x) == phase[x] # "idle" /\ x \notin overlapped /\ started[x] = now
DocumentConsistent(e) ==
    /\ doc[e].lastSeen <= now
    /\ ~Exists(e) => doc[e].hash = 0
ItemConsistent(x, e) ==
    LET stage == item[x][e].stage
    IN  /\ phase[x] = "idle" => stage = "unlisted"
        /\ stage \in {"Updated", "Unchanged", "raced"} => Exists(e)
        /\ phase[x] \in {"close", "sweep", "succeeded"} => stage # "unlisted"
        /\ phase[x] \in {"sweep", "succeeded"} => stage \in {"absent", "written", "lost"}
        /\ Alone(x) /\ stage \in {"Unchanged", "written"} =>
               Exists(e) /\ doc[e].hash = item[x][e].version
        /\ Alone(x) => IF stage = "written" THEN doc[e].lastSeen = started[x]
                                            ELSE doc[e].lastSeen < started[x]
        /\ e \in page[x] => phase[x] = "sweep" /\ (x \in holders[e] => e \in Stale(x))
ExecutionConsistent(x) ==
    /\ \A k \in Scopes : k < scope[x] => InScope(k) \cap InStage(x, {"unlisted"}) = {}
    /\ Running(x) => x \in overlapped \/ started[x] = now
    /\ Alone(x) => \A y \in Run \ {x} : ~Running(y)
DiscoveryIInv ==
    /\ TypeOK /\ SuccessMeansCatalog
    /\ \A e \in Entity : DocumentConsistent(e)
    /\ \A x \in Run : ExecutionConsistent(x) /\ \A e \in Entity : ItemConsistent(x, e)

(* An execution that has begun comes to an end: neither the full channel   *)
(* nor failing writes nor a changing Azure leave it waiting for ever.      *)
RunEnds == \A x \in Run : phase[x] = "stream" ~> ~Running(x)
=============================================================================
