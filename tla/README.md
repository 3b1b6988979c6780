# BusTerminal in TLA+

This directory is a verification development of BusTerminal, the registry and
discovery platform for Azure Service Bus: TLA+ modules translated from its
source, TLC configurations that check them on small instances, and theorems
about them that TLAPS checks for every value of the constants. Paths below are
relative to `src/`; `Discovery/` stands for `api/BusTerminal.Api/Features/Discovery/`
and `Indexer/` for `api/BusTerminal.Indexer/`.

Run a model with `tlc -config <file>.cfg <module>.tla` (the module is named in
the table of runs) and a proof with `tlapm <module>.tla`. `PROJECT.json` maps
every definition to the lines it translates and lists components, hazards,
runs, mutants, findings and theorems.

## 1. The system and its parts

BusTerminal runs as two processes over shared services: the API
(`api/BusTerminal.Api`, ASP.NET, several replicas) and the indexer
(`api/BusTerminal.Indexer`, Azure Functions, scaled out). They share Cosmos DB
containers, a Service Bus queue and an Azure AI Search index. The web client
(`web/`, React) talks to the API only, and keeps documents and their ETags in
a query cache; several of the hazards below lie between that cache, an open
form and the API.

| Component | State it keeps | Operations | How it interacts |
|---|---|---|---|
| Discovery lock (`Discovery/_Shared/Persistence/DiscoveryLockStore.cs`, `tools/DiscoveryLockReset`) | one Cosmos document per namespace: ETag, `currentRunId`, `expectedReleaseByUtc` | `TryAcquireAsync` (create, re-take, coalesce, steal), `ReleaseAsync`, the operator's reset | called by the coalescer; conditional writes only |
| Discovery runs (`StartDiscoveryEndpoint`, `DiscoveryRunCoalescer`, `DiscoveryRunStore`, `DiscoveryRequestPublisher`, `Indexer/Discovery/DiscoveryRequestedFunction`, `CosmosDiscoveryRunUpdater`) | `discovery-runs` documents, the `discovery-requested` queue | start, coalesce, abandon; deliver, progress, succeed, fail | lock → run document → message → worker → run document |
| Entity discovery (`Indexer/Discovery/EntityDiscoveryOrchestrator`, `DiscoveryWriteBatcher`, `CosmosPublishedEntityWriter`) | published-entity documents; in memory a bounded channel and a pool of drain workers | list three scopes, classify, upsert, sweep what was not seen | reads Azure, writes the same documents as curation |
| Published-entity curation (`ArchiveEntityEndpoint`, `UpdateEntityMetadataEndpoint`, association endpoints, `CosmosPublishedEntityStore.Curation`) | the curated half of the published-entity documents | archive, edit metadata, add / remove an association, all with If-Match | races with discovery and with other clients |
| Discovery queries (run history, entity detail, search) | none | reads | stores and search index |
| Registry (`Features/Registry`, `CosmosRegistryEntityStore`) | registry-entity documents, audit events, tombstones | create, update, status, delete | change feed → search indexer |
| Search indexer (`Indexer/Functions/RegistryEntityIndexer`) | the search index, poison documents | apply a change-feed batch | at-least-once feed of the registry container |
| Namespace onboarding, validation, lifecycle (`Features/Namespaces`) | namespace documents (in the registry container), validation runs | pre-validate, onboard, re-validate, enable / disable / retire, edit metadata and ownership | probes Azure (ARM), writes the registry store |
| Canonical domain model (`api/BusTerminal.Api/Domain`) | none: pure functions | lifecycle transitions, relationship graph, inheritance, semantic versions, validation | used by the canonical store |
| Canonical resource store | Cosmos documents with ETags | create, update, soft delete, restore, relationships | used by the fixture loader alone |
| Web client: registry forms, onboarding wizard, namespace pages, published-entity editor (`web/components`, `web/lib`) | forms, wizard steps and session storage, cached queries with ETags, conflict dialogs | open, submit, resolve a conflict, validate, register, associate | the clients of the endpoints above; modelled with them |
| Web client: lists, search, discovery button, shell | cached lists | reads, polling of a run | API |
| Authentication, host wiring, telemetry, probes, fixture loader, infrastructure | configuration, spans | — | — |

What is hard in each, and what makes it correct:

- **Lock.** Every operation is read-then-conditional-write over the network,
  against other pods with other clocks, with no lease renewal. Correct when two
  live leases never coexist, a lease is taken over only after its end, only its
  holder or an operator who saw that holder opens it, requests coalesce onto a
  current holder, and the bounded retry loop gives up only under contention.
- **Runs.** Lock, run document, message and worker are four stores written one
  after the other, each of which may fail in between; messages are delivered
  at least once; run updates are unconditional patches. Correct when a 202 names
  a run that exists and was queued, a failed enqueue frees the lock, a run is
  declared lost only after its lease, one discovery runs at a time, and every
  accepted run ends.
- **Entity discovery.** Streaming, a bounded channel with back-pressure, a pool
  of writers that swallow errors, a sweep that trusts `lastSeenUtc`, clients and
  overlapping executions writing the same documents. Correct when only unseen
  entities become Missing, archived and curated data survive, a success means
  the catalog shows what was listed, and the run always ends.
- **Curation.** Derived arrays computed from one read and written on another
  read's ETag; authorization on associations read before the write; a form
  whose ETag the association dialog renews. Correct when nothing is changed that
  the writer had not read, and no save undoes another one's unnoticed.
- **Registry.** Children, parent and sibling checks before conditional writes,
  audit as a second write, a form whose ETag follows the query cache, a conflict
  dialog with a force overwrite. Correct when the hierarchy holds, a save
  replaces what its user saw, and the audit says what happened.
- **Indexer.** A tombstone before the delete, at-least-once batches that apply
  upserts before deletes, a feed that shows newest versions only. Correct when
  the index converges to the container and nothing deleted comes back.
- **Namespaces.** A duplicate check by query before a create, answers of
  validations that come after the wizard has moved on, a validation run that
  takes seconds between the read and the conditional write. Correct when a
  namespace carries the validation of its own resource, one resource is onboarded
  once, and a document only moves along the lifecycle table.
- **Domain model.** Graph and lattice algorithms at their boundaries.

`PROJECT.json` "hazards" lists each of these at its line, with the properties
that cover it or the reason none does yet.

## 2. Modules

| Module | What it is | Stands on |
|---|---|---|
| `DiscoveryLease` | abstract specification: a lease that passes on only when over or given back | — |
| `DiscoveryLock` | the lock document, `TryAcquireAsync`, `ReleaseAsync`, the reset tool | implements `DiscoveryLease` |
| `DiscoveryRuns` | start endpoint, coalescer, run documents, queue, worker | extends `DiscoveryLock` |
| `EntityDiscovery` | orchestrator, batcher, writer, sweep, archive and metadata edits | — |
| `EntityCuration` | the edit page of a published entity, archive, metadata and association endpoints | — |
| `RegistryEntities` | registry forms and conflict dialog, create / update / status / delete endpoints, the container | — |
| `RegistryIndexing` | the change feed, tombstones, `RegistryEntityIndexer`, the search index | extends `RegistryEntities` |
| `NamespaceOnboarding` | the wizard, validation runs, `OnboardingEndpoint` | — |
| `NamespaceLifecycle` | an onboarded namespace: edits, re-runs, lifecycle transitions | — (starts where `NamespaceOnboarding` ends) |
| `DiscoveryLock_proofs`, `DiscoveryRuns_proofs`, `EntityDiscovery_proofs`, `EntityCuration_proofs`, `RegistryEntities_proofs`, `RegistryIndexing_proofs`, `NamespaceOnboarding_proofs`, `NamespaceLifecycle_proofs` | the theorems | the modules above, TLAPS |
| `MCDiscoveryLock`, `MCDiscoveryRuns`, `MCEntityDiscovery`, `MCEntityCuration`, `MCRegistryEntities`, `MCNamespaceOnboarding`, `MCNamespaceLifecycle` | symmetry and function-valued constants for TLC | |

### DiscoveryLock

One namespace (the document's partition key; namespaces do not interact). A
request is identified with the run id it generates. `pc[r]` is the position
of the call of request `r` in `TryAcquireAsync` or `ReleaseAsync`; every Cosmos
read and every Cosmos write is a step of its own, and reading the pod's clock
happens with the decision, after the read (`Decide`). The document's ETag is a
counter, 0 for "no document". `CreateLock` is the create with its 409,
`ReplaceLock` the replace with If-Match and its 412, `Retry` the loop with its
bound. `ActiveRun` and `StolenRun` come from the document the decision was
made on, as in the code, not from the one present later. `Fail` is any other
error, or the death of the pod, at every point of a call; from `acquired` and
`stolen` it also stands for a write that took effect although its response was
lost. `Readings` is what a pod may read as the time: within `Skew` of the true
time. `grant`, `ended` and `asked` are history variables: nothing reads them
but the properties.

`DiscoveryLease` says what all this is for, without documents or ETags. The
refinement maps the holder and the end of the lease to the document's fields.

### DiscoveryRuns

Extends the lock with `api[r]` (where `StartDiscoveryEndpoint.HandleAsync` is),
the answer, the run document, the message and its delivery count, and the
workers. Each step is a step of the lock or leaves it alone, so the lock's
theorems hold of it (theorem `RunsUseTheLock`). Status writes are the
unconditional patches of `UpdateStatusAsync` and `CosmosDiscoveryRunUpdater`:
they do not look at the present status, and a missing document is a 404
without effect. `BestEffort` marks the writes whose failure the caller
swallows. A worker's message is completed, given back or dead-lettered by
delivery count; a worker that dies, or whose message lock expires, leaves it to
redelivery, and an invocation that lost its message lock goes on working. The
queue's settings are those of `iac/` (lock duration, maximum delivery count).
`Faults` selects what the environment may do. Counts, the audit list of
coalesced requests and error texts are left out; nothing here depends on them.

### EntityDiscovery

One namespace's catalog and any number of executions of `RunAsync`. Azure is
outside: entities come, change and go at any time (`AzureChanges`). A stream of
a scope reaches its entities in any order and sees each as it is at that moment.
`item[x][e]` follows entity `e` through execution `x`: listed (or found absent),
in the channel, classified by a drain worker, written or lost. The read of an
upsert and its write are separate steps. The channel has `Capacity` places, the
pool `Parallelism` workers; a worker that meets an `OperationCanceledException`
returns for good (`WriteCancelled`), any other failed write is logged and
forgotten (`WriteFails`). The sweep reads pages of candidates with their ETags
and patches them one by one, swallowing 412.

An ETag is not a number here: `holders[e]` is the set of those who read the
version of `e` that is current; a conditional write succeeds for its members
and every write empties it. That is what ETags decide, and it keeps the states
few. `now` counts executions, which is all that `lastSeenUtc < startedUtc`
tells apart. Initial states include every document that earlier executions and
clients may have left (`Earlier`). `overlapped` and `skipped` are history
variables, except that `skipped` also keeps a candidate that met a 412 out of
later pages of the same sweep (the code's query enumerates each document once),
and that a sweep in `overlapped` may end although another execution has made a
document stale behind its query's cursor. Nothing in the code deletes a published
entity, so the writer's branches for a 404 on a patch cannot be reached and are
left out.

### EntityCuration

One published entity, with the edit pages on it and the four endpoints behind
them. A page has a cached query (`seen`) and a form (`etag`, `meta`), which part
company as soon as the query is fetched again. A handler reads the document and
authorizes the user by its associations (`Authorize`); an association endpoint
reads it again for the array that its patch replaces (`ReadAssociations`); the
patch is conditional on the ETag that the client sent (`ExecutePatch`,
`Conflict`), and its answer may be lost. `Associated` is the editor handing
the form the ETag that the query holds then
(`service-association-editor.tsx:169-177`); `handed` is history.

Only Owner associations are there, the ones that authorization looks at; an
association is its service, and the metadata is the ETag that its last change
gave the document. A 404 of an association that is not there is covered by
`Reject`. `Discover` changes the ETag and no more: what discovery does to the
document is the subject of `EntityDiscovery`.

### RegistryEntities

One environment. `store[e]` is a document, its ETag the number of its version; an
id that is used again, because the answer of its create was lost, goes on
counting. The hierarchy has two levels, namespaces and children, which is all
that the parent, children and sibling checks look at. All queries that a handler makes
before its first write are one step (`CreateCheck`, `UpdateCheck`, `StatusCheck`,
`DeleteCheck`), every write is one of its own, so that any other request may come
between. `Proceed` keeps the version that was read (`read`), from which
`EventOf` makes the audit event. `Die` is an error or a dead process anywhere.

A tab has one detail query (`cache`), which may be fetched again at any time, also
under an open form (`Fetch`); the form's ETag is that of the query
(`PersistedEtag`, `use-entity-form.ts:121-126`), while what its user sees is what
the form was opened with (`shown`). `ForceOverwrite`, `CloseModal` and `LeaveForm`
are the three buttons of the conflict dialog: *Discard* leaves the form but
does not renew the query. Status changes and deletes have API clients but no
page uses them yet; here any tab may send them. The endpoints hand the If-Match of a
request to the container as it is, and `*` matches every version: `RequestAny` is a
PUT, a status change or a delete of another client that sends it (`Wildcards` says
which). Such a PUT also passes the comparison of `UpdateEndpoint.cs:153-155`, so that
it is the one request whose `_overwriteAcknowledged` takes effect. Field values and the status value
are left out, except names and parents; onboarded namespaces, whose writes
these endpoints refuse, are in the two namespace modules. The audit store swallows
a failed write, so that an event may be missing; `AuditDescribesChange` is about
the events there are. `since` and `renewed` are history.

### RegistryIndexing

Extends the registry by its change feed (`feed`: what lies past the checkpoint) and
`RegistryEntityIndexer`. The feed is in latest-version mode: a document that is
written again moves to its end, a deleted one leaves it, and a tombstone is a
document of its own which its time to live removes. A batch is read with the
versions of that moment (`Poll`), upserts come before deletes (`Upload`,
`DeleteDocuments`), and the results for single documents are not looked at: an upsert or a delete
that the service rejects inside a successful call is consumed with its batch
(`UploadDrops`, `DeleteDrops`). A call that throws leaves the batch to the host, and both outcomes
are modelled: the same batch again (`Throw`) or the next one (`GiveUp`), because no
retry policy is configured although the code's comment relies on one.
`Crash` reads the feed again from the checkpoint. There is one indexer
(`iac/modules/functions-container-app/variables.tf:101-111`). `spoiled` is
history: the entities whose copy a fault, a refused delete, an unconditional delete or
a delete applied late has spoilt and that nobody has written since. `DeletedUnread` is
the third: with If-Match `*` a delete removes a version that was written behind its
tombstone. The last is `Undone`: all upserts of a batch go before its deletes, so that
an entity which was created again after its tombstone, and is read in one batch with
it, leaves the index.

### NamespaceOnboarding

Wizards (each with the namespace id it drew), the validation runs they start, and
`OnboardingEndpoint`. Steps 1 to 3 of the wizard are one (`form`); leaving a step
makes it forget that it waits, but the answer arrives and is taken
(`Answer`); leaving the page loses the run and keeps the form (`Reopen`, the
session storage). `Canonical` is what `NamespaceArmIdParser` makes of a typed id, and
the wizard compares the two forms as they are (`ArmIdIsStale`). The validator's
query and the create are two steps (`OnboardingCheck`, `OnboardingCreate`).
Healthy and Degraded are one outcome, and the age limit of 30 minutes is covered
by `Reject`, which a request may always meet. `since` and `strayed` are history.

### NamespaceLifecycle

One onboarded namespace and the administrators' pages on it. Every endpoint reads
the document, checks it (`ReadAndValidate`, `ReadOnly`), perhaps runs a validation,
and replaces the document as it has read it, conditional on an ETag that
is the client's for edits and transitions and the handler's own for re-runs
(`Expected`). A refused write loses the run's outcome to the document (`refused`,
history). `Fail` is an error or a dead process anywhere.

## 3. Runs

Passing runs:

| Run | Configuration | Question |
|---|---|---|
| `lock` | `MCDiscoveryLock.cfg` | Do leases exclude each other, is every change of holder justified, and does the document implement the abstract lease? |
| `runs` | `MCDiscoveryRuns.cfg` | With every fault, do answers, run documents, queue and lock agree, and what does a second worker need to get in? |
| `runs_live` | `DiscoveryRunsLive.cfg` | Is every request answered, does every accepted run end? |
| `discovery` | `MCEntityDiscovery.cfg` | With overlapping executions, clients, cancelled writes and crashes, what may happen to a document? |
| `discovery_batch` | `EntityDiscoveryBatch.cfg` | Through a full channel, with failing scopes, writes and sweeps, what may be swept, and does the run always end? |
| `curation` | `MCEntityCuration.cfg` | With reads, authorization and patch apart, what may a user change, and what does a save overwrite? |
| `registry` | `MCRegistryEntities.cfg` | With PUTs that carry If-Match `*` beside the forms, what does a save overwrite, what does the audit say, how can the hierarchy break? |
| `index` | `MCRegistryIndexing.cfg` (module `RegistryIndexing`) | With two tabs that create, change and delete, does the index converge to the container, through throwing calls, crashes, rejected uploads and deletes, and expired tombstones? |
| `onboarding` | `MCNamespaceOnboarding.cfg` | Which validation is a namespace registered with, and when is a resource registered twice? |
| `lifecycle` | `MCNamespaceLifecycle.cfg` | What may a write do to a document that others change meanwhile, and whose validation does the document show? |

What they show, property by property:

- `LeaseExclusive`, and `LiveLeaseHoldsLock` as a part of `LockIInv`: no steal,
  release or reset working from an old read overwrites a live lease, so two are never
  live together. *Live* means unexpired on every pod's clock.
- `StealOnlyAfterExpiry`, `OpenedOnlyByHolderOrReset`, `GrantedOnce`: what a
  single write may do to the holder.
- `CoalescedOntoCurrentLease`: an expired holder absorbs no new request. The
  bound is the time at which the request began, because the lease may end
  between the decision and the answer.
- `ReleasedMeansFree` (a part of `LockIInv`): the 412 that `ReleaseAsync` swallows never leaves the
  caller's own lease in place.
- `ExhaustedOnlyByContention`: a request gives up only if the document was
  written as often as it tried.
- `ImplementsLease`: refinement of `DiscoveryLease`.
- `AcceptedRunIsReal`, `EnqueueFailureFreesLock` (the fix of issue #116):
  no answer names a phantom run, and none is left holding the lock.
- `WorkerLostOnlyAfterExpiry`, `WorkedRunsWereGranted`: what may be said of a
  run, and what a worker may work on.
- `OneEntitledWorker`: of two workers that are in a run at the same time, at most one
  has both what a run needs, the live lease of its run and the lock on its message.
  The code never renews a lease and a worker never looks at the lock, so two runs do
  overlap: when one outlives its lease, waits in the queue until the lease is over, loses
  its message lock (`relock`), or is abandoned although its message was accepted
  (`ambiguous`). The property says that there is no other way, under all the
  faults, and is proved for any number of workers and deliveries; the run has one
  delivery of a message, with which a lost message lock dead-letters it under its
  worker. That one discovery runs at a time if no lease ends before its run
  (`OneRunAtATime`) is proved and not checked by a run: see `OneRunWhenTimely` in
  section 4 for what it needs.
- `RequestsAreAnswered`, `AcceptedRunEnds`: liveness, with two workers, failing
  publishes, dying pods and workers and redelivered messages. `AcceptedRunEnds`
  leaves out three faults. With `store` a failure record that is itself lost leaves its
  run unfinished for ever (`EntityDiscoveryOrchestrator.cs:257`). With `relock` so does
  this sequence, which TLC finds with two workers: an invocation loses its message
  lock before it has begun, the message is delivered again, the second invocation
  records Failed and completes it, then the first one patches InProgress over that
  (`CosmosDiscoveryRunUpdater.cs:24` looks at nothing) and dies; no message is left
  to bring the run to an end. `ambiguous` only makes more requests fail whose
  message is processed, and is left out for the size of the instance.
- `SweptWereUnseen`: only an execution whose listing did not contain an entity
  marks it Missing. The two exceptions are the code's: an upsert that failed (the
  batcher logs it, the sweep then marks the entity), and executions that
  overlap (`lastSeenUtc` is written without a condition and may move back).
- `SuccessMeansCatalog`: after an undisturbed success the catalog is what was
  listed, with the same exception for lost upserts and for candidates that a
  client's edit kept out of the sweep.
- `ArchivedEndsByUpdate`: the only way out of Archived is an upsert that had found
  another configuration in Azure; no old candidate, touch or raced create is one.
- `CuratedSurvives`: overlapping runs and racing creates never cost a curated value.
- `RunEnds`: listing, full channel, failing writes, sweep and a changing Azure
  never wait for each other. It is checked without the fault `cancel`: after
  enough cancelled writes all drain workers are gone and `EnqueueAsync` waits for
  room until the host cancels it (hazard at `DiscoveryWriteBatcher.cs:108`).

- `ChangesWhatWasRead` (curation): authorization, the associations and the patch
  come from up to three versions, and still a user changes only what the replaced
  version entitles to, and no association of somebody else is undone, because
  the one ETag was read before all of them.
- `OverwritesOnlyAfterAssociating`: a save replaces the metadata its form holds. The
  exception is the code's: the association dialog hands the form a newer ETag and
  leaves its fields.
- `AuditDescribesChange`: field changes are computed from two reads of one request, and
  describe one version and the next. Only a request with If-Match `*` may have
  replaced later versions than the one it read, namely those written since.
- `OverwritesOnlyAfterRefetch`: a save overwrites a version its user did not see only if
  the detail query was fetched again under the open form.
- `HierarchyBrokenOnlyByRace`: an orphan, or two siblings of one name, comes only from
  a write between the checks and the write of another request. That write is one to
  the entity itself only if the request had If-Match `*`, with which nothing else
  guards it.
- `DeletedIsLeavingIndex`, `IndexConverges` (FR-025 of spec 006): no retry, second
  reading or reordering inside a batch brings a deleted entity back, and the index
  becomes what the container is. The exceptions are entities a fault has spoilt
  (a delete that the service rejects inside a successful call leaves a deleted entity
  in the index, and no tombstone is left to take it out), a delete that wrote its
  tombstone and was then refused, one with If-Match `*` that removed a version written
  behind its tombstone, or the tombstone of an
  earlier life read in one batch with the create that follows it (a create form that is
  sent again after somebody deleted what its first attempt had created), until their
  next write behind the tombstone.
- `ForeignRunOnlyByLateAnswer`, `NewerFailureUnseen` (FR-003 and FR-023a of spec 008):
  a namespace carries the validation of another resource, or is registered over a
  newer failed validation, only if an answer came outside its step or had not come.
- `SharedOnlyByRace` (FR-007 of spec 008): two namespaces share a resource only if
  both requests had asked before either wrote, however the id was spelled.
- `StatusMirrorsLatestRun` (FR-016 of spec 008): a newer outcome than the document's is
  being written or was refused.
- `DocumentMovesForward`: whatever happened between the read and the write, a status
  changes as the table has it, a validation is never replaced by an older one, and
  only a restoring or an edit changes an archived document.

Two runs check a statement of the repository that the code does not keep:

| Run | Statement | What the code does |
|---|---|---|
| `find_lock_not_released` | the lock is released when a run is over (`IDiscoveryLockStore.cs:19`) | nothing in the worker releases it: requests coalesce onto a finished run until the lease ends |
| `find_force_refused` | **Force overwrite** proceeds with the submitter's values (spec 006 FR-020, `spec.md:145` and `:94`), is sent with the fresh ETag (`data-model.md:157`) and answered with 200 (`quickstart.md:165-166`) | with the current ETag the endpoint answers 400, taking it for a forged flag (`UpdateEndpoint.cs:153-162`), with an older one the container's 412 is another conflict (`:184-200`); only If-Match `*`, which no form sends, passes. `AuditEventEmissionTests.cs:144-150` and `tasks.md:239` report the branch as missing |

Section 5 lists the others, each with the property that bounds it.

### Bounds, and why they are enough

| Constant | Value | Why |
|---|---|---|
| `Request` | 2 | every conflict over the document is between two writers, on a document that does not exist or was left open by earlier runs (`Reopened`), every overlap between two runs; what any number of them do to the lock is proved |
| `Operator` | 1 in `lock`, 0 elsewhere | a reset with an old read against holder and stealer |
| `Worker` | 2 | one that is late and one that overtakes it |
| `ExpirySeconds`, `Skew`, `MaxClock` | 2, 1, 4 in `lock`; 1, 0, 1 elsewhere | a lease ends, is stolen, and the stolen lease ends too; early and late clocks on both sides |
| `MaxRetries` | 2; 1 in `runs` | success after a conflict, and exhaustion |
| `MaxDeliveries` | 1 in `runs`, 2 in `runs_live` | dead-lettering at the first delivery and after a redelivery |
| `Entity` | 1 with two runs and a client; 3 in two scopes with one run | documents of different entities meet only in the channel, the pool and the pages: the first run explores one document in depth, the second their competition |
| `MaxVersion` of `EntityDiscovery` | 2, 1 in `discovery_batch` | absent, present, changed |
| `Capacity`, `Parallelism`, `PageSize` | 1; two drain workers in `discovery_batch` | the smallest channel is the one that blocks most often; two entities of one scope fill it |
| `curation`: `Tab`, `Service`, `MaxVersion` | an owner and an administrator, 2, 4 | the writer, another one between its reads and its patch, and discovery; an association added, another removed, a save over it |
| `registry`: `Namespace`, `Queue`, `Name`, `Tab`, `MaxVersion` | 2, 1, 1, 2, 3 | a parent, another one of the same name, a child that moves between them; one request between the checks and the write of another; a form's version, one that overtakes it and its own |
| `Wildcards` | `{"put"}` in `registry`, `{}` in `index` and `find_force_refused` | a PUT is the request with `*` that goes through most checks; the theorems are for every set of them. `index` with `{"delete"}` holds too, in about four minutes |
| `index`: the same and `BatchSize`, `MaxFaults`, `MaxBacklog` | 1, 0, 1, 2, 2; 2, 1, 2 | an upsert and a tombstone of one entity, in both orders, in one batch and in two; one tab's delete against the other's create or save; a fault. Entities meet in nothing but the batch: the proof is for any number of them |
| `onboarding`: `Wizard`, `ArmId`, `MaxRuns` | 2, 3 spellings of 2 resources, 2 | one resource typed in two ways, and another; an answer that overtakes another |
| `lifecycle`: `Admin`, `MaxRuns`, `MaxVersion` | 3, 3, 4 | the writer and two that come between its read and its write; two re-runs beside the first run |

The bounds in guards that the code does not have are `MaxClock` (`Tick`),
`MaxVersion` (`HasRoom` in `Submit`, `RequestAny` and `Commit`; `ExecutePatch`, `Discover`; `UpdateNamespace`;
`AzureChanges`), `MaxRuns` (`StartRun`, `ReadAndValidate`), `MaxFaults` and
`MaxBacklog` (a tombstone is written only while the feed is no more than so far
ahead); one request of a curation tab and one registration of a wizard at a time.
The proofs use of these numbers only that they are naturals. Other bounds are
finite sets: runs and requests each act once. Symmetry is declared over requests,
workers, runs, namespaces and interchangeable tabs, wizards and administrators, and
never in a run with a liveness property. `CHECK_DEADLOCK FALSE` is used throughout
because the systems stop when nobody wants anything more, or at a bound;
`RequestsAreAnswered`, `AcceptedRunEnds`, `RunEnds` and `IndexConverges` say that
they do not stop earlier.

### Fairness

- `DiscoveryRuns!FairSpec`: weak fairness of `ApiStep(r)` (ASP.NET keeps running a
  handler it has begun), of `WorkerStep(w)` (the Functions host keeps polling the
  queue and running an invocation) and of `MessageLockExpires(r)` (Service Bus
  gives back a message nobody serves). Faults are never fair and never required.
- `EntityDiscovery!FairSpec`: weak fairness of the steps of an execution that has
  begun. Starting one, Azure's changes and clients are not fair.
- `RegistryIndexing!FairSpec`: weak fairness of `ServeIndexed(t)` (a handler that has
  begun goes on) and of `Indexer` (the trigger polls its feed and the calls of an
  invocation return). Faults are at most `MaxFaults`, and no user's click is fair.

## 4. Proofs

TLAPS checks the following for every set of requests, operators and workers and
for every length of lease, number of retries, skew, number of deliveries and set
of faults, from the named assumptions in `DiscoveryLock` and `DiscoveryRuns`
(`NoRun` is not a request, the numbers are naturals, lease, retries and deliveries
not zero). The constants of `DiscoveryRuns` include those of the lock.

**`DiscoveryLock_proofs`.** The invariant the properties need is `LockIInv`.
`LiveLeaseHoldsLock` by itself is not inductive: whether a write overwrites a live
lease depends on what its author read and when. `LockIInv` adds

- `DocumentsConsistent`: every version somebody still holds (`seen`, `opSeen`) is
  a `Snapshot`: no newer than the document, equal to it if the ETags agree, and the
  run it names was granted exactly the lease it states and has no later version;
- `CallConsistent`: what a request has established at each step: at `replace` the
  version it read was over on a skewed clock, at `relClear` it named the request
  itself, before a grant `grant[r]` is 0, and the attempts are no more than the
  document's versions.

A conditional write that succeeds then wrote over the very version that was read,
so a steal overwrites a lease that is over, and a release its own. From `LockIInv`
follow `LockTypeOK`, `LiveLeaseHoldsLock`, `LeaseExclusive`,
`CoalescedOntoCurrentLease`, `ReleasedMeansFree`, `ExhaustedOnlyByContention`, the action
properties `StealOnlyAfterExpiry`, `OpenedOnlyByHolderOrReset` and `GrantedOnce`, and
`LockIsLease`: initial states map to initial states, every step to a step or a
stutter of `DiscoveryLease`.

**`DiscoveryRuns_proofs`.** `RunsUseTheLock` shows that `Spec` implies `LockSpec`, so
`LockIInv` is available without being proved again. `RunsIInv` relates the handler's
position, the answer, the run document, the message and its delivery count
(`RunConsistent`), for instance that a message exists only for a run that was
granted the lock and whose document exists. From both follow `TypeOK`,
`AcceptedRunIsReal`, `EnqueueFailureFreesLock`, `WorkerLostOnlyAfterExpiry` and
`WorkedRunsWereGranted`.

`OneWorkerIsEntitled` needs one invariant more, `DeliveriesDiffer`: deliveries are
counted, so that no two invocations have the same one. Two entitled workers have
live leases, which by `LockIInv` are of one run, and its message, which only the last
delivery has.

**`EntityCuration_proofs`**, for every set of tabs and services, every ownership
and every length of history. `CurationIInv` adds to `TypeOK` that, *as long as the
document is the version whose ETag a tab will send*, what its handler has
found out is still true: the authorization, the associations it has read, and
the metadata of the form unless the dialog handed it the ETag
(`TabConsistent`). A patch that is accepted meets exactly that version, from which
`ChangesWhatWasRead` and `OverwritesOnlyAfterAssociating` follow; neither is
inductive alone, because both speak of what was read some steps before.

**`NamespaceLifecycle_proofs`**, for every set of administrators and number of runs and
versions. `LifecycleIInv` adds that a page's version is no newer than the one its
handler has read, that one no newer than the document and equal to it if the ETags
agree (`PageConsistent`), and that every run that did not fail is the document's or
an older one, is being written, or was refused (`OutcomesKept`: the running ones
too, which is what makes it inductive). From it follow `StatusMirrorsLatestRun`
and `DocumentMovesForward`.

**One run at a time** (`OneRunWhenTimely`, in `DiscoveryRuns_proofs`). The lock alone
does not keep two runs of a namespace apart: a lease may end while its run is still
worked on. `TimelySpec` is the promise of `DiscoveryLockExpirySeconds`: no lease in
use ends. The theorem names what it needs besides (`TimelyAssumption`): more of a
fresh lease is left than two clocks may differ (`Skew + Skew < ExpirySeconds`), and
no operator resets the lock, no send succeeds and reports a failure, and no worker
loses its message lock while it works. Each of the last three does break
`OneRunAtATime`. The invariant is `TimelyIInv`: a run that may still be worked on has
a lease that runs and was not given back (`LeaseKept`), and the worker on it holds its
message; by `LockIInv` such a lease is the one in the document, of which there is one.

**`EntityDiscovery_proofs`**, for every number of executions, clients and entities and
every capacity of the channel, the pool and a page. `DiscoveryIInv` turns on `Alone(x)`: execution
`x` has begun, nobody overlapped it and none has started since. Then no other
execution writes (`ExecutionConsistent`), so what `x` has written is still there with its
`lastSeen`, and everything else is older than `x`, whatever clients do to it
(`ItemConsistent`). A page of candidates keeps only what still is stale, for those
whose ETag `x` holds. From it:

- `SuccessMeansCatalog` is a conjunct: it holds when the last page is done;
- `SweptWereUnseen`: a candidate that the conditional write finds unchanged is Active
  and older than `x`; had `x` written it, `x` would not be alone;
- `ArchivedEndsByUpdate`: the same candidate is Active, hence not archived, and among
  the upserts only an update sets a status;
- the bounds in `TypeOK`, by the finite-set lemmas at the head of the module.

`CuratedSurvives` follows from what each write leaves in a document (`WhoWrites` and
the lemmas after it).

**`RegistryEntities_proofs`**, for every set of tabs, ids and names. `RegistryIInv` adds to
the types that an ETag a tab holds was given out (`CacheConsistent`), that a form nobody
refetched sends the ETag of what it shows (`FormConsistent`), that a request past its
checks has read a version that is not newer than the document and not older than
the ETag it sends (`ReplaceConsistent`), and that what the checks found of parent,
children and siblings is still so but for the entities in `since`
(`HierarchyConsistent`). An update that the container accepts then meets
the version it has read, and the audit event spans one change; what a request with
If-Match `*` meets is the version it has read or one in `since`. `HierarchyBrokenOnlyByRace` compares the step with what the checks found.

**`NamespaceOnboarding_proofs`**, for every set of wizards and number of runs, and every
`Canonical` that is idempotent. `OnboardingIInv` says what a wizard knows of its runs in
each step, unless a late answer has strayed to it (`WizardConsistent`), and that a
post carries a run of its own namespace and resource, and who onboarded the resource
since its query (`PostConsistent`).

**`RegistryIndexing_proofs`**, for every set of tabs, ids and faults and every size of a
batch. `IndexedRegistry` shows that `Spec` implies `RegistrySpec`, so `RegistryIInv` is
available. A delete writes its tombstone before it removes the document, and in between
others may write, the indexer may read, and the feed may be read again. `IndexIInv`
says of such a delete (`DeleteConsistent`) that its ETag was given out, so that after any
write it fails; and that as long as it can succeed a tombstone is behind everything
in the feed, the batch and the index that could put the entity back (`Followed`), unless
the entity is spoilt, or the delete is unconditional and the entity was written since. Once
the document is gone, no upsert of it is in the feed (`DeletedConsistent`), and a batch
is forgotten only after its tombstones were applied, rejected or given up
(`BatchConsistent`).
`DeletedIsLeavingIndex` is a part of `DeletedConsistent`. The lemmas at the head of the
module say what a subsequence (`At`), an append and a suffix keep of the order of two
items; `UnreadFacts` says it of what a crash gives back.

Every inductive invariant was checked by TLC on the instances of its run before it was
proved.

Only model-checked: liveness (`RequestsAreAnswered`, `AcceptedRunEnds`, `RunEnds`,
`IndexConverges`), which is out of the prover's reach. Every other property of a
passing run is stated by a theorem.

## 5. Divergences

Where the code and the repository's documents disagree. The models do what the code
does; the properties named bound how far the disagreement goes.

| Document | Code | Bounded by |
|---|---|---|
| a run releases the lock when it is over (`IDiscoveryLockStore.cs:19`) | the worker never does | violated: `find_lock_not_released` |
| a request for a namespace with a run in flight is answered with that run (spec 009 `spec.md:109`) | between the lock and the run document it is answered with an error (`DiscoveryRunCoalescer.cs:135`) | `AcceptedRunIsReal` |
| a terminal run is immutable (`IDiscoveryRunStore.cs:7`) | taking over the expired lock rewrites a Succeeded run to Failed / WorkerLost (`DiscoveryRunCoalescer.cs:100`) | `WorkerLostOnlyAfterExpiry` |
| Archived is sticky (spec 009 `spec.md:134`, `ArchiveEntityEndpoint.cs:16`) | an archived entity that changed in Azure becomes Active (`CosmosPublishedEntityWriter.cs:87`) | `ArchivedEndsByUpdate` |
| an observed Missing entity becomes Active (spec 009 `spec.md:133`) | one that comes back unchanged is touched and stays Missing (`CosmosPublishedEntityWriter.cs:56`) | `SuccessMeansCatalog` |
| no silent overwrites (spec 006 `spec.md:145`, `:94`) | the registry form takes its ETag from a query that may be fetched again under it (`use-entity-form.ts:121-126`) | `OverwritesOnlyAfterRefetch` |
| a published entity's save conflicts with a newer version | after an association was added or removed the form has the newer ETag and the older fields (`service-association-editor.tsx:169-177`, `published-entity-edit-form.tsx:193`) | `OverwritesOnlyAfterAssociating` |
| **Force overwrite** is answered with 200 (spec 006 `quickstart.md:165`) | it is refused with every ETag the entity may have (`UpdateEndpoint.cs:153-162`, `:184-200`) | violated: `find_force_refused` |
| an entity with children is not deleted, names are unique (spec 006 FR-009, FR-014) | both are checked before the write and may be broken by a race | `HierarchyBrokenOnlyByRace` |
| the index is eventually consistent (spec 006 `spec.md:153`) | a delete that is refused after writing its tombstone removes a living entity from the index until its next write (`CosmosRegistryEntityStore.cs:192-211`) | `IndexConverges` |
| a recreate is delivered after the delete of the same id (spec 006 `contracts/indexer-events.md:89`, which also calls the reuse of an id disallowed) | it is delivered so, but a batch that has both applies the upsert first (`RegistryEntityIndexer.cs:91-107`) and the living entity leaves the index; the create endpoint takes any id the client sends (`CreateEndpoint.cs:85`) | `IndexConverges` |
| failed index updates are retried, and permanent failures show in the telemetry (spec 006 `spec.md:153`) | a document rejected inside a successful call is not noticed and consumed with its batch (`RegistryEntityIndexer.cs:94`, `:103`) | `DeletedIsLeavingIndex`, `IndexConverges` |
| a failing batch is retried by the host (`RegistryEntityIndexer.cs:114-116`) | no retry policy is configured; whether the host delivers the batch again is left open (`Throw`, `GiveUp`) | `IndexConverges` |
| a changed resource id is validated again (spec 008 `spec.md:116`) | a late answer for the former id that comes in step 5 replaces the result of the new one and is registered with; the server does not compare `azureResourceIdAtRun` | `ForeignRunOnlyByLateAnswer` |
| the same | the wizard compares the parser's form, whose subscription GUID is lower-case (`NamespaceArmIdParser.cs:100`), with the typed id (`step-4-validation.tsx:66-72`): with an upper-case GUID it never advances | modelled (`ArmIdIsStale`) |
| the latest validation decides about registering (spec 008 `spec.md:156`) | a run that will turn out Unhealthy may still be going on | `NewerFailureUnseen` |
| one resource is onboarded once (spec 008 FR-007) | the query for it comes before the create | `SharedOnlyByRace` |
| `validationStatus` is that of the latest run (spec 008 `spec.md:142`) | of two overlapping runs the first to write wins, and the 412 of the other is swallowed (`RunValidationEndpoint.cs:110-116`) | `StatusMirrorsLatestRun` |
| an archived namespace is read-only (spec 008 `spec.md:158`) | the metadata and ownership endpoints and the edit page do not look at the lifecycle | `DocumentMovesForward` |

## 6. Not modelled

- Discovery and namespace queries: they change no state.
- The Azure listing and ARM probes, authentication, host wiring, telemetry, the
  fixture loader, infrastructure: input and output, configuration, or stateless.
  What the models need of them is an input (`AzureChanges`, `GateBlocks`, outcomes of
  validation runs, the queue's settings, the number of indexers).
- The web client's lists, search, shell and design system, and its discovery button,
  which starts a run (a request of `DiscoveryRuns`) and polls it. The bundles under
  `web/storybook-static` are generated; they are five sixths of the repository's
  TypeScript and JavaScript by lines and hold none of its logic.
- The canonical resource store, which only the fixture loader and the tests use, one
  process at a time; its conditional writes are those of the registry.
- The domain algorithms (`api/BusTerminal.Api/Domain`): pure functions that no endpoint
  calls yet.
- If-Match `*` on the endpoints of `EntityCuration` and `NamespaceLifecycle`, whose
  pages always send an ETag; what it does to a conditional write is modelled in the
  registry, which has the same store.
- Outcome counts and per-category failures of a run, coalesced-request audit
  entries, validation of request bodies, field values: data that no property tells
  apart. Associations of other roles than Owner: nothing is decided on them.

## 7. Plan

Done: the discovery pipeline with its lock, runs and catalog; curation; the registry
and its index; onboarding and the lifecycle of namespaces; every safety property of
them proved. Left:

1. Domain algorithms as operators against reference definitions: lifecycle
   transitions, cycles in the relationship graph, inheritance, versions.
