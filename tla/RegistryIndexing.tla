-------------------------- MODULE RegistryIndexing --------------------------
(***************************************************************************)
(* The registry with its search index: RegistryEntityIndexer takes batches *)
(* from the change feed of the container and applies them to the index,    *)
(* upserts before deletes, at least once.  One instance of it runs (the    *)
(* deployment's default of one replica), so a batch is finished or given   *)
(* up before the next is taken.                                            *)
(*                                                                         *)
(* The feed delivers a document as it is when the batch is read; what was  *)
(* overwritten before that is not seen.  A tombstone is a document of its  *)
(* own, which its time to live removes.                                    *)
(***************************************************************************)
EXTENDS RegistryEntities, Sequences, FiniteSets

CONSTANTS
    BatchSize,  \* MaxItemsPerInvocation
    Faults,     \* the failures the environment may produce
    MaxFaults,  \* and how many of them in a behaviour
    MaxBacklog  \* how far the feed may be ahead when a tombstone is written

\* "throw"  a call of the search service throws; the host retries, or does not
\* "crash"  the worker dies, the feed is read again from the checkpoint
\* "drop"   the service rejects one upsert, or one delete, of a call that succeeds
\* "expire" a tombstone's time to live is over before it is read
\* "die"    an API request dies half way
FaultKinds == {"throw", "crash", "drop", "expire", "die"}
ASSUME BatchAssumption ==
    BatchSize \in Nat \ {0} /\ MaxFaults \in Nat /\ MaxBacklog \in Nat
ASSUME FaultsAssumption == Faults \subseteq FaultKinds

VARIABLES
    feed,    \* the change feed past the indexer's checkpoint
    index,   \* index[e]: the version of e in the search index, or 0
    batch,   \* the batch in work: feed items with the versions read
    step,    \* where ProcessBatchAsync is
    faults,  \* how many faults there have been
    spoiled  \* history: entities whose copy a fault, or a delete that was
             \* applied late, refused or unconditional, spoilt

indexVars == <<feed, index, batch, step, faults, spoiled>>
allVars == <<vars, indexVars>>

-----------------------------------------------------------------------------
\* What a sequence has at some of its positions, in its order.
Rank(ks, k) == Cardinality({j \in ks : j <= k})
At(s, ks) == [n \in 1..Cardinality(ks) |-> s[CHOOSE k \in ks : Rank(ks, k) = n]]

Item == [kind : {"upsert", "tombstone"}, id : Entity]
Upsert(e) == [kind |-> "upsert", id |-> e]
Tombstone(e) == [kind |-> "tombstone", id |-> e]

Reading(i) == [item |-> i, etag |-> store[i.id].etag]
Change == [item : Item, etag : 0..MaxVersion]
\* Mutation: tombstones are passed over.
DeletesSkipped(kind) ==
    {batch[k].item.id : k \in {j \in DOMAIN batch :
        kind = "upsert" /\ batch[j].item.kind = kind}}
Ids(kind) == {batch[k].item.id : k \in {j \in DOMAIN batch :
                                            batch[j].item.kind = kind}}
BatchHolds(i) == \E k \in DOMAIN batch : batch[k].item = i
FeedHolds(i) == \E k \in DOMAIN feed : feed[k] = i
Dying(e) == FeedHolds(Tombstone(e)) \/ BatchHolds(Tombstone(e))

InitIndex ==
    /\ Init
    /\ feed = <<>>
    /\ index = [e \in Entity |-> 0]
    /\ batch = <<>>
    /\ step = "idle"
    /\ faults = 0
    /\ spoiled = {}

Fault(kind) ==
    /\ kind \in Faults /\ faults < MaxFaults
    /\ faults' = faults + 1

-----------------------------------------------------------------------------
(* The registry's steps, as the index will see them.                       *)

\* A delete that wrote its tombstone did not happen after all.
DeleteAbandoned == {tab[t].id : t \in {u \in Tab :
    /\ tab[u].at = "tombstoned"
    /\ tab'[u].at \notin {"tombstoned", "committed"}}}

\* An unconditional delete took a version that was written behind its tombstone.
DeletedUnread == {tab[t].id : t \in {u \in Tab :
    /\ Asks(u, "delete", "tombstoned") /\ tab'[u].at = "committed"
    /\ tab[u].etag = AnyVersion /\ Exists(tab[u].id) /\ tab[u].id \in since[u]}}

\* A write that no tombstone can follow in the feed.
Rewritten == {e \in Entity : store'[e].etag > store[e].etag /\ ~Dying(e)}

\* A rewritten document moves to the end of the feed, a deleted one leaves it,
\* a tombstone is a new document.
Without(e) == At(feed, {k \in DOMAIN feed : feed[k] # Upsert(e)})
FeedFollows ==
    \/ store' = store /\ feed' = feed
    \/ \E e \in Entity :
        /\ store'[e] # store[e]
        /\ feed' = IF store'[e] = Absent THEN Without(e)
                                         ELSE Append(Without(e), Upsert(e))

RegistryStep(A) ==
    /\ A
    /\ spoiled' = (spoiled \cup DeleteAbandoned \cup DeletedUnread) \ Rewritten
    /\ UNCHANGED <<index, batch, step>>

\* The steps of a request, and the one among them that writes a tombstone.
ServeIndexed(t) ==
    /\ RegistryStep(Serve(t))
    /\ UNCHANGED faults
    /\ IF Asks(t, "delete", "checked")
       THEN Len(feed) < MaxBacklog /\ feed' = Append(feed, Tombstone(tab[t].id))
       ELSE FeedFollows

-----------------------------------------------------------------------------
(* RegistryEntityIndexer.                                                  *)

\* The trigger reads the next items of the feed.
Poll ==
    /\ step = "idle"
    /\ \E n \in 1..BatchSize :
        /\ n <= Len(feed)
        /\ batch' = [k \in 1..n |-> Reading(feed[k])]
        /\ feed' = SubSeq(feed, n + 1, Len(feed))
    /\ step' = "upsert"
    /\ UNCHANGED <<vars, index, faults, spoiled>>

VersionRead(e) ==
    LET k == CHOOSE k \in DOMAIN batch :
                 batch[k].item.id = e /\ batch[k].item.kind = "upsert"
    IN  batch[k].etag

\* MergeOrUploadDocumentsAsync; the results of single documents are not read.
MergeOrUpload(rejected) ==
    /\ step = "upsert"
    /\ rejected \subseteq Ids("upsert")
    /\ index' = [e \in Entity |-> IF e \in Ids("upsert") \ rejected
                                  THEN VersionRead(e) ELSE index[e]]
    /\ spoiled' = spoiled \cup rejected
    /\ step' = "delete"
    /\ UNCHANGED <<vars, feed, batch>>

Upload == MergeOrUpload({}) /\ UNCHANGED faults
UploadDrops == \E e \in Entity : MergeOrUpload({e}) /\ Fault("drop")

\* Upserts go first: the tombstone of one batch takes what came after it.
Undone == {e \in Ids("tombstone") : Exists(e) /\ \E j, k \in DOMAIN batch :
              /\ j < k
              /\ batch[j].item = Tombstone(e) /\ batch[k].item = Upsert(e)}

\* DeleteDocumentsAsync; the results of single documents are not read either.
DeleteDocuments(rejected) ==
    /\ step = "delete"
    /\ rejected \subseteq Ids("tombstone")
    /\ index' = [e \in Entity |-> IF e \in Ids("tombstone") \ rejected
                                  THEN 0 ELSE index[e]]
    /\ spoiled' = spoiled \cup Undone \cup rejected
    /\ step' = "done"
    /\ UNCHANGED <<vars, feed, batch>>

Delete == DeleteDocuments({}) /\ UNCHANGED faults
DeleteDrops == \E e \in Entity : DeleteDocuments({e}) /\ Fault("drop")

\* The invocation has returned: the trigger moves its checkpoint.
Checkpoint ==
    /\ step = "done"
    /\ step' = "idle" /\ batch' = <<>>
    /\ UNCHANGED <<vars, feed, index, faults, spoiled>>

\* Mutation: the exception is swallowed, and the trigger moves on.
RethrownNever == "done"
\* ProcessBatchAsync rethrows, and the same batch is delivered again.
Rethrown == "upsert"

\* A call throws, whether or not the service has done what it was asked to.
Throw ==
    /\ step # "idle" /\ Fault("throw")
    /\ step' = Rethrown
    /\ UNCHANGED <<vars, feed, index, batch, spoiled>>

\* The host does not retry the batch, or not again: the trigger moves on.
GiveUp ==
    /\ step \in {"upsert", "delete"} /\ Fault("throw")
    /\ spoiled' = spoiled \cup Ids("tombstone")
                      \cup (IF step = "upsert" THEN Ids("upsert") ELSE {})
    /\ step' = "done"
    /\ UNCHANGED <<vars, feed, index, batch>>

\* Read again from the checkpoint: what has been rewritten comes later.
Current(c) == c.item.kind = "upsert" => c = Reading(c.item)
Unread == LET left == At(batch, {k \in DOMAIN batch : Current(batch[k])})
          IN  [k \in DOMAIN left |-> left[k].item] \o feed

Crash ==
    /\ step # "idle" /\ Fault("crash")
    /\ feed' = At(Unread, {k \in DOMAIN Unread :
                    Unread[k].kind = "upsert" => Exists(Unread[k].id)})
    /\ step' = "idle" /\ batch' = <<>>
    /\ UNCHANGED <<vars, index, spoiled>>

\* The container's time to live removes a tombstone nobody has read.
TombstoneExpires ==
    /\ Fault("expire")
    /\ \E k \in DOMAIN feed :
        /\ feed[k].kind = "tombstone"
        /\ feed' = At(feed, DOMAIN feed \ {k})
        /\ spoiled' = spoiled \cup {feed[k].id}
    /\ UNCHANGED <<vars, index, batch, step>>

Indexer == Poll \/ Upload \/ Delete \/ Checkpoint

Next ==
    \/ \E t \in Tab :
        \/ ServeIndexed(t)
        \/ RegistryStep(Browse(t)) /\ UNCHANGED <<feed, faults>>
        \/ RegistryStep(Die(t)) /\ UNCHANGED feed /\ Fault("die")
    \/ Indexer \/ UploadDrops \/ DeleteDrops
    \/ Throw \/ GiveUp \/ Crash \/ TombstoneExpires

Spec == InitIndex /\ [][Next]_allVars

\* A request that was sent is served; the trigger is polled and its calls
\* return.  Nothing makes an operator click.
Fairness == /\ \A t \in Tab : WF_allVars(ServeIndexed(t))
            /\ WF_allVars(Indexer)
FairSpec == Spec /\ Fairness

-----------------------------------------------------------------------------
(* Properties.                                                             *)

TypeOK ==
    /\ RegistryTypeOK
    /\ feed \in Seq(Item)
    /\ index \in [Entity -> 0..MaxVersion]
    /\ batch \in Seq(Change)
    /\ step \in {"idle", "upsert", "delete", "done"}
    /\ faults \in 0..MaxFaults
    /\ spoiled \subseteq Entity

\* An entity that is deleted and still found by the search has a tombstone on
\* its way, unless that expired, the host gave it up or the service rejected the
\* delete, or the entity was deleted unread after an edit: no upsert, no retry
\* and no second reading of a batch brings it back behind its tombstone.
DeletedIsLeavingIndex ==
    \A e \in Entity : ~Exists(e) /\ index[e] # 0 => Dying(e) \/ e \in spoiled

\* The inductive invariant.  While a delete stands between its tombstone and its
\* write, and its ETag is still the current one, a tombstone comes after
\* everything that could put the entity back into the index.
Followed(e) ==
    /\ \A k \in DOMAIN feed : feed[k] = Upsert(e) =>
           \E j \in DOMAIN feed : k < j /\ feed[j] = Tombstone(e)
    /\ \A k \in DOMAIN batch : batch[k] = Reading(Upsert(e)) =>
           \/ \E j \in DOMAIN batch : k < j /\ batch[j].item = Tombstone(e)
           \/ FeedHolds(Tombstone(e))
    /\ index[e] # 0 \/ BatchHolds(Upsert(e)) => Dying(e)
DeleteConsistent(t) ==
    LET e == tab[t].id IN
    tab[t].op = "delete" /\ tab[t].at \in {"checked", "tombstoned"} =>
        /\ tab[t].etag # AnyVersion => tab[t].etag <= last[e]
        /\ tab[t].at = "tombstoned" /\ Exists(e) /\ IfMatch(t) =>
               \/ Followed(e) \/ e \in spoiled
               \/ tab[t].etag = AnyVersion /\ e \in since[t]
DeletedConsistent(e) ==
    ~Exists(e) =>
        /\ ~FeedHolds(Upsert(e))
        /\ index[e] # 0 \/ BatchHolds(Upsert(e)) => Dying(e) \/ e \in spoiled
BatchConsistent ==
    /\ step = "idle" => batch = <<>>
    /\ step = "done" => \A e \in Ids("tombstone") : index[e] = 0 \/ e \in spoiled
IndexIInv ==
    /\ TypeOK /\ BatchConsistent
    /\ \A e \in Entity : DeletedConsistent(e)
    /\ \A t \in Tab : DeleteConsistent(t)

\* FR-025: the index becomes what the container is and stays so, but for
\* entities that were spoilt and not written since.
IndexConverges ==
    \A e \in Entity : <>[](index[e] = store[e].etag \/ e \in spoiled)
=============================================================================
