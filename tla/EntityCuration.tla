-------------------------- MODULE EntityCuration ---------------------------
(***************************************************************************)
(* Curation of one published entity: browser tabs on its edit page, which   *)
(* save its metadata, archive it and associate services with it, and the    *)
(* endpoints behind them.  Discovery writes the document meanwhile; what     *)
(* its writes do to archived entities is in EntityDiscovery.                *)
(*                                                                         *)
(* Only Owner associations are modelled, they are the ones that            *)
(* authorization looks at; since a service has one of a role at most, an    *)
(* association is its service.  The metadata of a document is the ETag that  *)
(* its last change gave it.                                                *)
(***************************************************************************)
EXTENDS Naturals

CONSTANTS
    Tab,         \* edit pages, each with a user
    Service,     \* services
    Owned,       \* Owned[t]: the services that the user of t owns
    Administers, \* tabs whose users need not own a service
    MaxVersion   \* versions of the document

ASSUME UsersAssumption == Owned \in [Tab -> SUBSET Service] /\ Administers \subseteq Tab
ASSUME BoundsAssumption == MaxVersion \in Nat \ {0}

VARIABLES
    entity,  \* the document
    tab      \* tab[t]: the page, its cached query and its request to the API

vars == <<entity, tab>>

-----------------------------------------------------------------------------
None == "none"
Entity == [etag : 1..MaxVersion, meta : 1..MaxVersion, archived : BOOLEAN,
           owners : SUBSET Service]

Operations == {"save", "archive", "add", "remove"}
\* away: not on the page; open: nothing under way; sent, authorized, ready: how
\* far the handler is; associated: the answer to add or remove has come.
Stages == {"away", "open", "sent", "authorized", "ready", "associated"}

\* seen: what the detail query has cached; etag, meta: the ETag and the metadata
\* that the form holds; read: what AddAssociationAsync has read; handed: the form
\* got its ETag from a version with other metadata than it holds.
Page == [at : Stages, op : Operations \cup {None}, service : Service \cup {None},
         seen : Entity, etag : 1..MaxVersion, meta : 1..MaxVersion,
         read : SUBSET Service, handed : BOOLEAN]
Closed(d) == [at |-> "away", op |-> None, service |-> None, seen |-> d,
              etag |-> d.etag, meta |-> d.meta, read |-> {}, handed |-> FALSE]

Init ==
    \E owners \in SUBSET Service :
        /\ entity = [etag |-> 1, meta |-> 1, archived |-> FALSE, owners |-> owners]
        /\ tab = [t \in Tab |-> Closed(entity)]

Allowed(t, owners) == t \in Administers \/ Owned[t] \cap owners # {}

-----------------------------------------------------------------------------
(* The page.                                                               *)

\* The form starts from the cached document or from the one it fetches.
Open(t) ==
    /\ tab[t].at = "away"
    /\ \E d \in {entity, tab[t].seen} : tab' = [tab EXCEPT ![t] = [Closed(d) EXCEPT !.at = "open"]]
    /\ UNCHANGED entity

Leave(t) ==
    /\ tab[t].at = "open"
    /\ tab' = [tab EXCEPT ![t] = Closed(tab[t].seen)]
    /\ UNCHANGED entity

\* The query fetches again because it is stale; the form keeps what it has.
Refetch(t) ==
    /\ tab[t].at # "away" /\ tab[t].seen # entity
    /\ tab' = [tab EXCEPT ![t].seen = entity]
    /\ UNCHANGED entity

\* canEdit, and what the buttons ask of the cached document.
Offered(t, op, s) ==
    /\ Allowed(t, tab[t].seen.owners)
    /\ op = "archive" => ~tab[t].seen.archived
    /\ op = "remove" => s \in tab[t].seen.owners
    /\ s = None <=> op \in {"save", "archive"}

\* Bound: one request of a tab at a time.
Ask(t, op, s) ==
    /\ tab[t].at = "open" /\ Offered(t, op, s)
    /\ tab' = [tab EXCEPT ![t].at = "sent", ![t].op = op, ![t].service = s]
    /\ UNCHANGED entity

\* The request has ended, and the form holds version d.
Ended(t, d, at) ==
    tab' = [tab EXCEPT ![t] =
        [@ EXCEPT !.at = at, !.op = None, !.service = None, !.read = {},
                  !.etag = d.etag, !.meta = d.meta]]

\* An error response, or none: the form is as before.
Reject(t) ==
    /\ tab[t].at \in {"sent", "authorized", "ready"}
    /\ Ended(t, tab[t], "open")
    /\ UNCHANGED entity

\* The editor waits for the detail query to be fetched again, and hands the form
\* the ETag that is cached then, whether or not that was fetched; if the list of
\* associations cannot be fetched, it hands over nothing.
Handed(t, d) ==
    tab' = [tab EXCEPT ![t] =
        [@ EXCEPT !.at = "open", !.seen = d, !.etag = d.etag,
                  !.handed = d.meta # tab[t].meta]]
Associated(t) ==
    /\ tab[t].at = "associated"
    /\ \/ Handed(t, entity)
       \/ Handed(t, tab[t].seen)
       \/ tab' = [tab EXCEPT ![t].at = "open", ![t].seen = entity]
    /\ UNCHANGED entity

-----------------------------------------------------------------------------
(* The endpoints and CosmosPublishedEntityStore.                            *)

\* The handler reads the document and authorizes the user by it.
Authorize(t) ==
    /\ tab[t].at = "sent" /\ Allowed(t, entity.owners)
    /\ tab' = [tab EXCEPT ![t].at =
           IF tab[t].op \in {"save", "archive"} THEN "ready" ELSE "authorized"]
    /\ UNCHANGED entity

\* AddAssociationAsync, RemoveAssociationAsync: the document is read again, for
\* the associations that the patch replaces.
ReadAssociations(t) ==
    /\ tab[t].at = "authorized"
    /\ tab[t].op = "remove" <=> tab[t].service \in entity.owners
    /\ tab' = [tab EXCEPT ![t].at = "ready", ![t].read = entity.owners]
    /\ UNCHANGED entity

\* The patch: nothing but the fields of its operations.
Patched(t) ==
    LET d == [entity EXCEPT !.etag = @ + 1]
        op == tab[t].op IN
    CASE op = "save"    -> [d EXCEPT !.meta = d.etag]
      [] op = "archive" -> [d EXCEPT !.archived = TRUE]
      [] op = "add"     -> [d EXCEPT !.owners = tab[t].read \cup {tab[t].service}]
      [] op = "remove"  -> [d EXCEPT !.owners = tab[t].read \ {tab[t].service}]

\* Mutation: the patch is not conditional.
Unconditional(t) == TRUE
\* Mutation: the patch of the associations is conditional on the second read.
FreshEtag(t) ==
    \/ tab[t].etag = entity.etag
    \/ tab[t].op \in {"add", "remove"} /\ tab[t].read = entity.owners
IfMatch(t) == tab[t].etag = entity.etag

\* The patch and its answer, or no answer.  Bound: the answer comes at once.  A
\* save and an archiving put their answer into the cache, an archiving leaves
\* the page, and an add and a remove have the document fetched again.
ExecutePatch(t) ==
    /\ tab[t].at = "ready" /\ IfMatch(t)
    /\ entity.etag < MaxVersion
    /\ entity' = Patched(t)
    /\ \/ /\ tab[t].op = "save"
          /\ tab' = [tab EXCEPT ![t] = [Closed(entity') EXCEPT !.at = "open"]]
       \/ /\ tab[t].op = "archive"
          /\ tab' = [tab EXCEPT ![t] = Closed(entity')]
       \/ /\ tab[t].op \in {"add", "remove"}
          /\ Ended(t, tab[t], "associated")
       \/ Ended(t, tab[t], "open")

\* Mutation: a conflict gives the form the version that it met.
ConflictAdopted(t) == [etag |-> entity.etag, meta |-> tab[t].meta]
\* The form keeps what it holds, its banner asks for a refresh.
AfterConflict(t) == [etag |-> tab[t].etag, meta |-> tab[t].meta]

\* 412.
Conflict(t) ==
    /\ tab[t].at = "ready" /\ ~IfMatch(t)
    /\ Ended(t, AfterConflict(t), "open")
    /\ UNCHANGED entity

\* Upserts and sweeps of discovery, as far as they change the ETag.
Discover ==
    /\ entity.etag < MaxVersion
    /\ entity' = [entity EXCEPT !.etag = @ + 1]
    /\ UNCHANGED tab

-----------------------------------------------------------------------------
Next ==
    \/ \E t \in Tab :
        \/ Open(t) \/ Leave(t) \/ Refetch(t) \/ Reject(t) \/ Associated(t)
        \/ \E op \in Operations, s \in Service \cup {None} : Ask(t, op, s)
        \/ Authorize(t) \/ ReadAssociations(t) \/ ExecutePatch(t) \/ Conflict(t)
    \/ Discover

Spec == Init /\ [][Next]_vars

-----------------------------------------------------------------------------
(* Properties.                                                             *)

\* Types; nobody holds a version that is not there yet, and a form holds the
\* metadata of its version unless the editor handed it the ETag.
TypeOK ==
    /\ entity \in Entity /\ entity.meta <= entity.etag
    /\ tab \in [Tab -> Page]
    /\ \A t \in Tab :
          /\ tab[t].etag <= entity.etag /\ tab[t].seen.etag <= entity.etag
          /\ tab[t].etag = entity.etag /\ ~tab[t].handed =>
                 tab[t].meta = entity.meta

\* The user is authorized by one read of the document, the associations come
\* from another, and the patch is made later still, conditional on a version the
\* client has sent.  Still a user changes only what the associations of the
\* replaced version entitle to, and no association that another request has
\* added or removed is undone.
ChangesWhatWasRead ==
    [][\A t \in Tab :
         entity' # entity /\ tab'[t] # tab[t] =>
           /\ Allowed(t, entity.owners)
           /\ entity'.owners = CASE tab[t].op = "add"    -> entity.owners \cup {tab[t].service}
                                 [] tab[t].op = "remove" -> entity.owners \ {tab[t].service}
                                 [] OTHER -> entity.owners]_vars

\* A save replaces the metadata that its form holds, and not a change that
\* somebody has made since: unless an association was added or removed in the
\* dialog of the form, which took the newer ETag and left the fields.
OverwritesOnlyAfterAssociating ==
    [][\A t \in Tab :
         entity'.meta # entity.meta /\ tab'[t] # tab[t] =>
             tab[t].meta = entity.meta \/ tab[t].handed]_vars

\* The inductive invariant.  As long as the document is the version that a tab
\* sends, what its handler has found out about the document is still true.
TabConsistent(t) ==
    /\ tab[t].etag <= entity.etag /\ tab[t].seen.etag <= entity.etag
    /\ tab[t].seen.etag = entity.etag => tab[t].seen = entity
    /\ tab[t].etag = entity.etag /\ ~tab[t].handed => tab[t].meta = entity.meta
    /\ tab[t].at \in {"sent", "authorized", "ready"} =>
          /\ tab[t].op \in Operations
          /\ tab[t].op \in {"add", "remove"} => tab[t].service \in Service
    /\ tab[t].at = "authorized" => tab[t].op \in {"add", "remove"}
    /\ tab[t].at \in {"authorized", "ready"} /\ tab[t].etag = entity.etag =>
          Allowed(t, entity.owners)
    /\ /\ tab[t].at = "ready" /\ tab[t].op \in {"add", "remove"}
       /\ tab[t].etag = entity.etag
       => tab[t].read = entity.owners
CurationIInv == TypeOK /\ \A t \in Tab : TabConsistent(t)
=============================================================================
