------------------------ MODULE NamespaceLifecycle -------------------------
(***************************************************************************)
(* An onboarded namespace and the administrators' pages on it, which edit   *)
(* its metadata and ownership, validate it again and move it through its    *)
(* lifecycle.  NamespaceOnboarding creates the document, with run 1.        *)
(*                                                                         *)
(* A validation run is known by its number, in the order of ExecutedAtUtc. *)
(* Healthy, Degraded and Unhealthy are one outcome, "done": no endpoint of  *)
(* a registered namespace tells them apart.                                *)
(***************************************************************************)
EXTENDS Naturals, Sequences

CONSTANTS
    Admin,       \* browser tabs on the namespace
    MaxRuns,     \* validation runs in a behaviour
    MaxVersion   \* versions of the document

ASSUME BoundsAssumption == MaxRuns \in Nat \ {0} /\ MaxVersion \in Nat \ {0}

VARIABLES
    namespace,  \* the document
    runs,       \* runs[k]: the state of validation run k
    page,       \* page[c]: the page that c is on, and its request to the API
    refused     \* history: runs whose outcome no document took

vars == <<namespace, runs, page, refused>>

-----------------------------------------------------------------------------
None == "none"
Lifecycles == {"Active", "Disabled", "Archived"}
Namespace == [etag : 1..MaxVersion, lifecycle : Lifecycles, run : 1..MaxRuns]
Unread == [etag |-> 0, lifecycle |-> None, run |-> 0]

\* LifecycleTransitionValidator, and what each action leads to.
Transitions == {"disable", "enable", "archive", "restore"}
Operations == Transitions \cup {"edit", "validate"}
Permitted(action, status) ==
    CASE action = "disable" -> status = "Active"
      [] action = "enable"  -> status = "Disabled"
      [] action = "archive" -> status \in {"Active", "Disabled"}
      [] action = "restore" -> status = "Archived"
Target(op, status) ==
    CASE op = "enable"  -> "Active"
      [] op = "archive" -> "Archived"
      [] op \in {"disable", "restore"} -> "Disabled"
      [] OTHER -> status

\* A page: what its details query holds of the namespace (etag, lifecycle) and,
\* once it has asked for op, what the handler has read and the run it has begun.
Stages == {"away", "open", "sent", "validating", "ready"}
Page == [at : Stages, op : Operations \cup {None}, etag : 0..MaxVersion,
         lifecycle : Lifecycles \cup {None}, read : Namespace \cup {Unread},
         run : 0..MaxRuns]
Away == [at |-> "away", op |-> None, etag |-> 0, lifecycle |-> None,
         read |-> Unread, run |-> 0]
Details == [Away EXCEPT !.at = "open", !.etag = namespace.etag,
                        !.lifecycle = namespace.lifecycle]

Init ==
    /\ namespace = [etag |-> 1, lifecycle |-> "Active", run |-> 1]
    /\ runs = <<"done">>
    /\ page = [c \in Admin |-> Away]
    /\ refused = {}

-----------------------------------------------------------------------------
(* Validation runs.                                                        *)

NewRun == Len(runs) + 1

\* The five checks end, and the run is appended to the store; or an error
\* leaves the runner, and there is no run.
FinishRun(k) ==
    /\ runs[k] = "running"
    /\ \E status \in {"done", "failed"} : runs' = [runs EXCEPT ![k] = status]
    /\ UNCHANGED <<namespace, page, refused>>

-----------------------------------------------------------------------------
(* The pages.                                                              *)

\* The details query, on opening a page or again.
FetchDetails(c) ==
    /\ page[c].at \in {"away", "open"} /\ page[c] # Details
    /\ page' = [page EXCEPT ![c] = Details]
    /\ UNCHANGED <<namespace, runs, refused>>

\* The edit forms and the re-run are offered in every state, a lifecycle
\* action in the states that permit it, as far as the page knows.
Offered(c, op) == op \in Transitions => Permitted(op, page[c].lifecycle)

Ask(c, op) ==
    /\ page[c].at = "open" /\ Offered(c, op)
    /\ page' = [page EXCEPT ![c].at = "sent", ![c].op = op,
                            ![c].lifecycle = None]
    /\ UNCHANGED <<namespace, runs, refused>>

\* An error response, or the end of the process: its run, if any, is lost to
\* the document.  The page that is next open fetches its details.
Fail(c) ==
    /\ page[c].at \in {"sent", "validating", "ready"}
    /\ page' = [page EXCEPT ![c] = Away]
    /\ refused' = refused \cup ({page[c].run} \ {0})
    /\ UNCHANGED <<namespace, runs>>

-----------------------------------------------------------------------------
(* UpdateMetadata, UpdateOwnership, RunValidation and TransitionLifecycle.  *)

\* Mutation: a lifecycle action is taken for permitted, as the page did.
ReadTrusted(op, status) == op = "validate" => status # "Archived"
\* The checks that the endpoints make on the document they have read.
ReadAllows(op, status) ==
    /\ op \in Transitions => Permitted(op, status)
    /\ op = "validate" => status # "Archived"

Read(c, at, run) ==
    page' = [page EXCEPT ![c].at = at, ![c].read = namespace, ![c].run = run]

\* A re-run, or the validation that an enabling begins with.
ReadAndValidate(c) ==
    /\ page[c].at = "sent" /\ page[c].op \in {"validate", "enable"}
    /\ ReadAllows(page[c].op, namespace.lifecycle)
    /\ NewRun <= MaxRuns
    /\ runs' = Append(runs, "running")
    /\ Read(c, "validating", NewRun)
    /\ UNCHANGED <<namespace, refused>>

\* An enabling goes on without a run if the lookup of the tenant fails.
ReadOnly(c) ==
    /\ page[c].at = "sent" /\ page[c].op # "validate"
    /\ ReadAllows(page[c].op, namespace.lifecycle)
    /\ Read(c, "ready", 0)
    /\ UNCHANGED <<namespace, runs, refused>>

\* Mutation: the outcome is left out.
OutcomeForgotten(c) ==
    [page[c].read EXCEPT !.etag = namespace.etag + 1,
                         !.lifecycle = Target(page[c].op, @)]
\* What the handler makes of the document it has read.
Updated(c) ==
    [page[c].read EXCEPT !.etag = namespace.etag + 1,
                         !.lifecycle = Target(page[c].op, @),
                         !.run = IF page[c].run = 0 THEN @ ELSE page[c].run]

\* The ETag of the write: a re-run takes that of the document it read.
Expected(c) ==
    IF page[c].op = "validate" THEN page[c].read.etag ELSE page[c].etag
\* Mutation: the write is not conditional.
Unconditional(c) == TRUE
IfMatch(c) == Expected(c) = namespace.etag

\* UpdateAsync.  A refused write is a 409; of a re-run it is not an error.
UpdateNamespace(c) ==
    /\ \/ page[c].at = "ready"
       \/ page[c].at = "validating" /\ runs[page[c].run] = "done"
    /\ IF IfMatch(c)
       THEN /\ namespace.etag < MaxVersion
            /\ namespace' = Updated(c)
            /\ UNCHANGED refused
       ELSE /\ refused' = refused \cup ({page[c].run} \ {0})
            /\ UNCHANGED namespace
    /\ page' = [page EXCEPT ![c] = Away]
    /\ UNCHANGED runs

-----------------------------------------------------------------------------
Next ==
    \/ \E k \in DOMAIN runs : FinishRun(k)
    \/ \E c \in Admin :
        \/ FetchDetails(c) \/ Fail(c)
        \/ \E op \in Operations : Ask(c, op)
        \/ ReadAndValidate(c) \/ ReadOnly(c) \/ UpdateNamespace(c)

Spec == Init /\ [][Next]_vars

-----------------------------------------------------------------------------
(* Properties.                                                             *)

\* Types; what a handler is about to write is permitted in the document that it
\* has read, whatever its page had offered, and a document names a run that
\* ended.
TypeOK ==
    /\ namespace \in Namespace
    /\ namespace.run \in DOMAIN runs /\ runs[namespace.run] = "done"
    /\ runs \in Seq({"running", "done", "failed"}) /\ Len(runs) <= MaxRuns
    /\ page \in [Admin -> Page]
    /\ refused \subseteq DOMAIN runs
    /\ \A c \in Admin :
          /\ page[c].at = "validating" => page[c].run \in DOMAIN runs
          /\ page[c].at \in {"validating", "ready"} /\ page[c].op \in Transitions =>
                 Permitted(page[c].op, page[c].read.lifecycle)

\* A lifecycle action is validated on a document that was read before, and an
\* enabling waits for a whole validation before it writes.  Still the document
\* is replaced as the handler has read it, so that the audit event tells what
\* changed: its status as the table of LifecycleTransitionValidator has it, and
\* its validation never by an older one.  A validation that began before the
\* archiving does not reach an archived document: only a restoring does, and
\* an edit, which no endpoint refuses (FR-025 wants it refused).
DocumentMovesForward ==
    [][\A c \in Admin :
         namespace' # namespace /\ page'[c] # page[c] =>
           /\ page[c].read = namespace
           /\ namespace'.lifecycle # namespace.lifecycle =>
                /\ Permitted(page[c].op, namespace.lifecycle)
                /\ namespace'.lifecycle = Target(page[c].op, namespace.lifecycle)
           /\ namespace'.run >= namespace.run
           /\ namespace.lifecycle = "Archived" =>
                page[c].op \in {"restore", "edit"}]_vars

\* FR-016: validationStatus mirrors the latest run.  A run that ended and is
\* newer than that of the document is about to be written, or its write was
\* refused because the document had changed or the request had died.
StatusMirrorsLatestRun ==
    \A k \in DOMAIN runs :
        runs[k] = "done" /\ namespace.run < k =>
            k \in refused \/ \E c \in Admin : page[c].run = k

\* The inductive invariant.  A page's version is no newer than the one its handler
\* has read, that is no newer than the document, and it is the document if it has
\* the same ETag; every run that did not fail is the document's or an older one,
\* is being written, or was refused.
PageConsistent(c) ==
    /\ page[c].etag <= namespace.etag
    /\ page[c].at # "validating" => page[c].run = 0
    /\ page[c].at \in {"sent", "validating", "ready"} => page[c].op \in Operations
    /\ page[c].at = "validating" =>
          page[c].run \in DOMAIN runs /\ page[c].read.run < page[c].run
    /\ page[c].at \in {"validating", "ready"} =>
          /\ page[c].read \in Namespace
          /\ page[c].etag <= page[c].read.etag
          /\ page[c].read.etag <= namespace.etag
          /\ page[c].read.etag = namespace.etag => page[c].read = namespace
          /\ ReadAllows(page[c].op, page[c].read.lifecycle)
OutcomesKept ==
    \A k \in DOMAIN runs :
        runs[k] # "failed" /\ namespace.run < k =>
            k \in refused \/ \E c \in Admin : page[c].run = k
LifecycleIInv ==
    TypeOK /\ OutcomesKept /\ \A c \in Admin : PageConsistent(c)
=============================================================================
