------------------------ MODULE AgentToolInvocations ------------------------
(***************************************************************************)
(* The ToolInvocations of one Run: their creation by a command or by a     *)
(* decision, approval, execution by the Tool Provider of an Integration,   *)
(* reconciliation, cancellation, the Provider's result callback and the    *)
(* uninstallation of the Integration.                                      *)
(*                                                                         *)
(* A command that never awaits is one action.  The four commands that      *)
(* await (the digest of the catalogue, or an answer of the Provider) are   *)
(* records of handler; everything they write after the await is one        *)
(* action, with each point where the code throws in the middle.            *)
(***************************************************************************)
EXTENDS Integers, FiniteSets

CONSTANTS
  Invocations,         \* ToolInvocations, each with the key that creates it.
  ApprovalRequired,    \* Those whose definition requires an approval.
  OperationIds,        \* Operation ids a Provider chooses.
  Keys,                \* Idempotency keys of a command on one invocation.
  Handlers,            \* Requests in flight at the same time.
  DefinitionStatuses,  \* Status a ToolDefinition is installed with.
  DefinitionVersion,   \* tool_set_version a ToolDefinition is installed with.
  SnapshotVersion,     \* tool_set_version of the Run's snapshot.
  MaxVersion           \* Bound: catalogue snapshots.

NoId == "no operation"
Fallback == "operation:<invocation>"

ASSUME ToolAssumption ==
  /\ ApprovalRequired \subseteq Invocations
  /\ NoId \notin OperationIds /\ Fallback \notin OperationIds
  /\ DefinitionStatuses \subseteq {"active", "available"}
  /\ DefinitionVersion \in Nat /\ SnapshotVersion \in Nat
  /\ MaxVersion \in Nat

VARIABLES
  tool,        \* The rows of an invocation in the tool tables, see Tools.
  definition,  \* Status of the Integration's ToolDefinitions.
  version,     \* Highest tool_set_version of the catalogue snapshots.
  run,         \* "pending" (or running), "waiting" or "over".
  called,      \* Invocations for which InvokeTool was ever sent.
  recorded,    \* Awaiting commands whose answer is in the ledger.
  handler      \* Requests in flight.

vars == <<tool, definition, version, run, called, recorded, handler>>

-----------------------------------------------------------------------------
(* Types *)

Terminal == {"succeeded", "failed", "cancelled"}
Status == {"absent", "pending_approval", "approved", "running", "outcome_unknown"} \cup Terminal
Ids == OperationIds \cup {Fallback}

\* The invocation (status, operation it is attached to, generation), its
\* approval, the id of its provider operation, its result row and its result
\* Events.  The operation's status is not kept: the code reads it only in place
\* of one that GetOperation left out, which may be any.
Tools == [status : Status, operationId : Ids \cup {NoId}, version : Nat,
          approval : {"none", "approved", "rejected"}, operation : Ids \cup {NoId},
          result : {"none", "succeeded", "failed"}, events : Nat]

NoTool == [status |-> "absent", operationId |-> NoId, version |-> 0, approval |-> "none",
           operation |-> NoId, result |-> "none", events |-> 0]

Commands == {"execute", "reconcile", "cancel"} \X Invocations \X Keys

Free == [pc |-> "free", i |-> NoId, key |-> NoId, seen |-> "absent"]

\* seen is the status the handler read before it awaited: the definition's in
\* "create", the invocation's otherwise.
HandlerType ==
  [pc : {"create", "execute", "reconcile", "cancel"}, i : Invocations, key : Keys,
   seen : Status \cup {"available", "active", "unavailable"}] \cup {Free}

TypeOK ==
  /\ tool \in [Invocations -> Tools]
  /\ definition \in {"active", "available", "unavailable"}
  /\ version \in Nat
  /\ run \in {"pending", "waiting", "over"}
  /\ called \subseteq Invocations
  /\ recorded \subseteq Commands
  /\ handler \in [Handlers -> HandlerType]

Init ==
  /\ tool = [i \in Invocations |-> NoTool]
  /\ definition \in DefinitionStatuses
  /\ version = 0
  /\ run = "pending"
  /\ called = {}
  /\ recorded = {}
  /\ handler = [h \in Handlers |-> Free]

\* Mutant: an execution does not wait for the approval.
CanTransitionUnapproved(from, to) == from = to \/ from \notin Terminal

CanTransition(from, to) ==
  \/ from = to
  \/ from = "pending_approval" /\ to \in {"approved", "cancelled", "failed"}
  \/ from = "approved" /\ to \in {"running", "failed", "cancelled"}
  \/ from = "running" /\ to \in {"succeeded", "failed", "outcome_unknown", "cancelled"}
  \/ from = "outcome_unknown" /\ to \in {"succeeded", "failed", "cancelled"}

Await(h, pc, i, k, seen) ==
  handler' = [handler EXCEPT ![h] = [pc |-> pc, i |-> i, key |-> k, seen |-> seen]]

Return(h) == handler' = [handler EXCEPT ![h] = Free]

Command(h) == <<handler[h].pc, handler[h].i, handler[h].key>>

-----------------------------------------------------------------------------
(* Creation and approval *)

Created(t, s, v) == [t EXCEPT !.status = s, !.version = v]

\* CreateInvocation reads the definitions and awaits their digest.
ReadCatalog(h, i) ==
  /\ handler[h].pc = "free"
  /\ tool[i].status = "absent"
  /\ \E k \in Keys : Await(h, "create", i, k, definition)
  /\ UNCHANGED <<tool, definition, version, run, called, recorded>>

\* Then it persists a catalogue snapshot of the next generation, whether or not
\* the Tool was found active and the key is unused, and inserts the invocation.
CreateInvocation(h) ==
  LET i == handler[h].i
  IN  /\ handler[h].pc = "create"
      /\ version < MaxVersion
      /\ version' = version + 1
      /\ \/ /\ handler[h].seen = "active"
            /\ tool[i].status = "absent"
            /\ tool' = [tool EXCEPT ![i] =
                 Created(@, IF i \in ApprovalRequired THEN "pending_approval" ELSE "approved",
                         version + 1)]
         \/ /\ handler[h].seen # "active" \/ tool[i].status # "absent"
            /\ UNCHANGED tool
      /\ Return(h)
      /\ UNCHANGED <<definition, run, called, recorded>>

\* An invoke_tool decision of the Run.
CommitToolDecision(i) ==
  /\ run = "pending"
  /\ tool[i].status = "absent"
  /\ definition = "available"
  /\ tool' = [tool EXCEPT ![i] =
       Created(@, IF i \in ApprovalRequired THEN "pending_approval" ELSE "running",
               SnapshotVersion)]
  /\ UNCHANGED <<definition, version, run, called, recorded, handler>>

StatusAfterDecision(decision) == IF decision = "approved" THEN "approved" ELSE "cancelled"

Decided(t, decision) == [t EXCEPT !.approval = decision, !.status = StatusAfterDecision(decision)]

\* ApproveInvocation and RejectInvocation.
DecideInvocation(i, decision) ==
  /\ tool[i].status = "pending_approval"
  /\ tool' = [tool EXCEPT ![i] = Decided(@, decision)]
  /\ UNCHANGED <<definition, version, run, called, recorded, handler>>

-----------------------------------------------------------------------------
(* Results.  t is the row of an invocation, id the operation a result names. *)

BelongsTo(t) == t.operationId \in {NoId, t.operation}

SameOperation(t, id) ==
  \/ t.operation = NoId /\ id = NoId
  \/ t.operation # NoId /\ id = t.operation /\ BelongsTo(t)

CanResumeRun(t) ==
  /\ run = "waiting"
  /\ t.version = SnapshotVersion
  /\ t.version = DefinitionVersion
  /\ definition \in {"active", "available"}

Acceptable(t, s, id) == CanTransition(t.status, s) /\ SameOperation(t, id)

\* recordToolResultCore answers with the stored result, or appends the result
\* Event, makes the Run pending again and ends the invocation, or throws.
ResultReplayed(t, s, id) == Acceptable(t, s, id) /\ t.result # "none"

\* Mutant: a result is accepted again when the Run waits again.
ResultAcceptedAgain(t, s, id) == Acceptable(t, s, id) /\ CanResumeRun(t)

ResultAccepted(t, s, id) == Acceptable(t, s, id) /\ t.result = "none" /\ CanResumeRun(t)

\* Mutant: the Event is appended and its row is not inserted.
WithResultUnmarked(t, s) == [t EXCEPT !.status = s, !.events = @ + 1]

WithResult(t, s) ==
  [t EXCEPT !.status = s, !.result = s, !.events = @ + 1]

\* IntegrationIngressService.PublishToolResult.
PublishToolResult(i, s, id) ==
  /\ ResultAccepted(tool[i], s, id)
  /\ tool' = [tool EXCEPT ![i] = WithResult(@, s)]
  /\ run' = "pending"
  /\ UNCHANGED <<definition, version, called, recorded, handler>>

-----------------------------------------------------------------------------
(* ExecuteInvocation *)

\* A running invocation may be executed again.
BeginExecute(h, i, k) ==
  /\ handler[h].pc = "free"
  /\ <<"execute", i, k>> \notin recorded
  /\ CanTransition(tool[i].status, "running")
  /\ tool' = [tool EXCEPT ![i].status = "running"]
  /\ called' = called \cup {i}
  /\ Await(h, "execute", i, k, "running")
  /\ UNCHANGED <<definition, version, run, recorded>>

\* agent_provider_operations holds one row per operation id and one per
\* invocation, so a second id for an invocation throws.
CanUpsert(t, id) == t.operation \in {NoId, id}
Upsert(t, id) == [t EXCEPT !.operation = id]
Attached(t, s, id) == [t EXCEPT !.status = s, !.operationId = id]

\* Mutant: the invocation is attached although the row was not written.
FailedRowUnchecked(t) ==
  IF t.status # "running" THEN t
  ELSE Attached(t, "outcome_unknown", Fallback)

\* The catch block: the invocation ends in outcome_unknown under the fallback
\* operation, unless that row cannot be written or the invocation has moved on.
FailedRow(t) ==
  IF ~CanUpsert(t, Fallback) THEN t
  ELSE IF t.status # "running" THEN Upsert(t, Fallback)
  ELSE Attached(Upsert(t, Fallback), "outcome_unknown", Fallback)

FailureRecorded(t) == CanUpsert(t, Fallback) /\ t.status = "running"

\* From the row t that the try block left, the answer is recorded; or, when the
\* try block threw or the key was recorded meanwhile, the catch block runs.
EndExecute(h, t, ok) ==
  LET i == handler[h].i
      answered == ok /\ Command(h) \notin recorded
  IN  /\ tool' = [tool EXCEPT ![i] = IF answered THEN t ELSE FailedRow(t)]
      /\ recorded' = IF answered \/ FailureRecorded(t) THEN recorded \cup {Command(h)}
                     ELSE recorded
      /\ Return(h)
      /\ UNCHANGED <<definition, version, called>>

InvokeFails(h) ==
  /\ handler[h].pc = "execute"
  /\ EndExecute(h, tool[handler[h].i], FALSE)
  /\ UNCHANGED run

\* The Provider answers with an invocation status s and an operation, or with
\* none, which is recorded under the fallback id.
InvokeAnswersOtherOperation(h, id) ==
  /\ handler[h].pc = "execute"
  /\ ~CanUpsert(tool[handler[h].i], id)
  /\ EndExecute(h, tool[handler[h].i], FALSE)
  /\ UNCHANGED run

InvokeAnswersRunning(h, id) ==
  LET t == tool[handler[h].i]
  IN  /\ handler[h].pc = "execute"
      /\ CanUpsert(t, id)
      /\ EndExecute(h, Attached(Upsert(t, id), "running", id), TRUE)
      /\ UNCHANGED run

InvokeAnswersResult(h, s, id) ==
  LET t == Upsert(tool[handler[h].i], id)
  IN  /\ handler[h].pc = "execute"
      /\ CanUpsert(tool[handler[h].i], id)
      /\ \/ /\ ResultAccepted(t, s, id)
            /\ run' = "pending"
            /\ EndExecute(h, WithResult(t, s), TRUE)
         \/ /\ ~ResultAccepted(t, s, id)
            /\ EndExecute(h, t, ResultReplayed(t, s, id))
            /\ UNCHANGED run

-----------------------------------------------------------------------------
(* ReconcileInvocation *)

BeginReconcile(h, i, k) ==
  /\ handler[h].pc = "free"
  /\ <<"reconcile", i, k>> \notin recorded
  /\ tool[i].operation # NoId
  /\ BelongsTo(tool[i])
  /\ Await(h, "reconcile", i, k, tool[i].status)
  /\ UNCHANGED <<tool, definition, version, run, called, recorded>>

GetAnswersResult(h, s) ==
  LET i == handler[h].i
      t == tool[i]
      id == t.operation
  IN  /\ handler[h].pc = "reconcile"
      /\ \/ /\ ResultAccepted(t, s, id)
            /\ tool' = [tool EXCEPT ![i] = WithResult(t, s)]
            /\ run' = "pending"
         \/ /\ ~ResultAccepted(t, s, id)
            /\ UNCHANGED <<tool, run>>
      /\ recorded' = IF ResultAccepted(t, s, id) \/ ResultReplayed(t, s, id)
                     THEN recorded \cup {Command(h)} ELSE recorded
      /\ Return(h)
      /\ UNCHANGED <<definition, version, called>>

\* Mutant: the row is not compared with the status read before the await.
CanMoveToUncompared(h, s) == CanTransition(handler[h].seen, s)

\* The status read before the await is both checked and compared again.
CanMoveTo(h, s) ==
  /\ CanTransition(handler[h].seen, s)
  /\ tool[handler[h].i].status = handler[h].seen

GetAnswersStatus(h, s) ==
  LET i == handler[h].i
  IN  /\ handler[h].pc = "reconcile"
      /\ \/ /\ CanMoveTo(h, s)
            /\ tool' = [tool EXCEPT ![i].status = s]
            /\ recorded' = recorded \cup {Command(h)}
         \/ /\ ~CanMoveTo(h, s)
            /\ UNCHANGED <<tool, recorded>>
      /\ Return(h)
      /\ UNCHANGED <<definition, version, run, called>>

-----------------------------------------------------------------------------
(* CancelInvocation *)

Cancellable(i, k) ==
  /\ <<"cancel", i, k>> \notin recorded
  /\ CanTransition(tool[i].status, "cancelled")
  /\ tool[i].operation # NoId => BelongsTo(tool[i])

\* Without an operation the Provider can cancel, or without its client.
CancelAtOnce(i, k) ==
  /\ Cancellable(i, k)
  /\ tool' = [tool EXCEPT ![i].status = "cancelled"]
  /\ recorded' = recorded \cup {<<"cancel", i, k>>}
  /\ UNCHANGED <<definition, version, run, called, handler>>

BeginCancel(h, i, k) ==
  /\ handler[h].pc = "free"
  /\ Cancellable(i, k)
  /\ tool[i].operation # NoId
  /\ Await(h, "cancel", i, k, tool[i].status)
  /\ UNCHANGED <<tool, definition, version, run, called, recorded>>

\* The invocation is cancelled only if it has not moved.
CancelAnswers(h) ==
  LET i == handler[h].i
  IN  /\ handler[h].pc = "cancel"
      /\ \/ /\ tool[i].status = handler[h].seen
            /\ tool' = [tool EXCEPT ![i].status = "cancelled"]
            /\ recorded' = recorded \cup {Command(h)}
         \/ /\ tool[i].status # handler[h].seen
            /\ UNCHANGED <<tool, recorded>>
      /\ Return(h)
      /\ UNCHANGED <<definition, version, run, called>>

\* GetOperation or CancelOperation throws: the request ends with nothing written.
ProviderFails(h) ==
  /\ handler[h].pc \in {"reconcile", "cancel"}
  /\ Return(h)
  /\ UNCHANGED <<tool, definition, version, run, called, recorded>>

-----------------------------------------------------------------------------
(* The Integration, the Run and the Durable Object *)

CancelledByUninstall(t) ==
  IF t.status \in {"approved", "pending_approval", "running"}
  THEN [t EXCEPT !.status = "cancelled"] ELSE t

UninstallIntegration ==
  /\ definition' = "unavailable"
  /\ tool' = [i \in Invocations |-> CancelledByUninstall(tool[i])]
  /\ UNCHANGED <<version, run, called, recorded, handler>>

\* The Run is served, and waits again or ends; or it ends while it waits.
RunMoves ==
  /\ \/ run = "pending" /\ run' \in {"waiting", "over"}
     \/ run = "waiting" /\ run' = "over"
  /\ UNCHANGED <<tool, definition, version, called, recorded, handler>>

Evict ==
  /\ \E h \in Handlers : handler[h].pc # "free"
  /\ handler' = [h \in Handlers |-> Free]
  /\ UNCHANGED <<tool, definition, version, run, called, recorded>>

Answer(h) ==
  \/ InvokeFails(h)
  \/ \E id \in Ids :
       \/ InvokeAnswersOtherOperation(h, id)
       \/ InvokeAnswersRunning(h, id)
       \/ \E s \in {"succeeded", "failed"} : InvokeAnswersResult(h, s, id)
  \/ \E s \in {"succeeded", "failed"} : GetAnswersResult(h, s)
  \/ \E s \in {"running", "outcome_unknown", "cancelled"} : GetAnswersStatus(h, s)
  \/ CancelAnswers(h)
  \/ ProviderFails(h)

Request(h, i) ==
  \/ ReadCatalog(h, i)
  \/ \E k \in Keys : BeginExecute(h, i, k) \/ BeginReconcile(h, i, k) \/ BeginCancel(h, i, k)

Next ==
  \/ \E h \in Handlers : CreateInvocation(h) \/ Answer(h)
  \/ \E h \in Handlers, i \in Invocations : Request(h, i)
  \/ \E i \in Invocations :
       \/ CommitToolDecision(i)
       \/ \E d \in {"approved", "rejected"} : DecideInvocation(i, d)
       \/ \E s \in {"succeeded", "failed"}, id \in Ids \cup {NoId} : PublishToolResult(i, s, id)
       \/ \E k \in Keys : CancelAtOnce(i, k)
  \/ UninstallIntegration
  \/ RunMoves
  \/ Evict

Spec == Init /\ [][Next]_vars

-----------------------------------------------------------------------------
(* Properties *)

\* Callbacks, answers and reconciliations of one invocation, in any order,
\* append one result Event (results.ts looks for the result row first).
OneResultEvent == \A i \in Invocations : tool[i].events <= 1

\* An invocation says succeeded or failed only with the result row of that
\* status: a later answer of the Provider never contradicts the Event the Run saw.
ResultMatchesStatus ==
  \A i \in Invocations :
    tool[i].status \in {"succeeded", "failed"} => tool[i].result = tool[i].status

\* No Provider is called for a Tool that requires an approval before one is
\* recorded, nor after a rejection.
CalledAfterApproval ==
  \A i \in called \cap ApprovalRequired : tool[i].approval = "approved"

\* An invocation of unknown outcome has an operation that ReconcileInvocation
\* will accept, whichever of its writes failed on the way there.
UnknownIsReconcilable ==
  \A i \in Invocations :
    tool[i].status = "outcome_unknown" => tool[i].operation # NoId /\ BelongsTo(tool[i])

\* A step of a command that compares the status it read leaves a terminal
\* invocation alone: only a late answer of InvokeTool can reopen it.
FinalUnlessInvoked ==
  [][\A i \in Invocations :
       /\ tool[i].status \in Terminal
       /\ ~\E h \in Handlers : handler[h].pc = "execute" /\ handler[h].i = i
       => tool'[i].status = tool[i].status]_vars

-----------------------------------------------------------------------------
(* The abstract specification *)

Result == INSTANCE AgentOnce WITH
  Keys <- Invocations,
  outcome <- [i \in Invocations |-> IF tool[i].result = "none" THEN "open" ELSE "done"],
  effects <- [i \in Invocations |-> tool[i].events]

\* The callback, reconciliations and late answers of one invocation, in any
\* order, write one result row with one result Event, and no later one takes
\* the row back (results.ts looks for it first).
ResultsOnce == Result!Spec

=============================================================================
