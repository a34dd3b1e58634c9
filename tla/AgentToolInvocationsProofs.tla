--------------------- MODULE AgentToolInvocationsProofs ---------------------
(***************************************************************************)
(* Proofs about AgentToolInvocations, for every set of ToolInvocations,    *)
(* requests in flight, keys and operations, every generation the           *)
(* definitions and the snapshots carry, and every number of catalogue      *)
(* snapshots.                                                              *)
(***************************************************************************)
EXTENDS AgentToolInvocations, TLAPS

\* A row t of invocation i has its result Event when it has its result, says so in
\* its status and has none before it is executed, is attached to no operation but
\* its own, has one when its outcome is unknown, and was approved if it was ever
\* let through.
RowInv(i, t) ==
  /\ t \in Tools
  /\ t.events = IF t.result = "none" THEN 0 ELSE 1
  /\ t.status \in {"succeeded", "failed"} => t.result = t.status
  /\ BelongsTo(t)
  /\ t.status \in {"absent", "pending_approval", "approved"} => t.result = "none"
  /\ t.status = "outcome_unknown" => t.operation # NoId
  /\ i \in ApprovalRequired /\ t.status \in {"approved", "running", "outcome_unknown", "succeeded"}
       => t.approval = "approved"

\* What holds of an invocation whose Provider was called.
CalledRow(i, t) ==
  /\ t.status \notin {"absent", "pending_approval"}
  /\ i \in ApprovalRequired => t.approval = "approved"

Rows == \A i \in Invocations : RowInv(i, tool[i])

CalledRows == \A i \in called : CalledRow(i, tool[i])

\* What a request in flight has learnt remains true.
RequestsKnow ==
  \A h \in Handlers :
    /\ handler[h].pc = "execute" => handler[h].i \in called
    /\ handler[h].pc = "reconcile" => tool[handler[h].i].operation # NoId
    /\ handler[h].pc = "cancel" => CanTransition(handler[h].seen, "cancelled")

IInv == TypeOK /\ Rows /\ CalledRows /\ RequestsKnow

-----------------------------------------------------------------------------
(* What the writes do to a row *)

\* The absent invocation is a row.
LEMMA NoToolRow == \A i \in Invocations : RowInv(i, NoTool)
BY DEF NoTool, RowInv, Tools, Status, BelongsTo

\* The fields of a row whose status was written.
LEMMA StatusFields ==
  ASSUME NEW t \in Tools, NEW s \in Status, NEW u, u = [t EXCEPT !.status = s]
  PROVE  /\ u \in Tools
         /\ u.status = s
         /\ u.operationId = t.operationId /\ u.version = t.version /\ u.approval = t.approval
         /\ u.operation = t.operation /\ u.result = t.result /\ u.events = t.events
BY DEF Tools

\* The fields of a new row.
LEMMA CreatedFields ==
  ASSUME NEW t \in Tools, NEW s \in Status, NEW v \in Nat, NEW u,
         u = Created(t, s, v)
  PROVE  /\ u \in Tools
         /\ u.status = s /\ u.version = v
         /\ u.operationId = t.operationId /\ u.approval = t.approval
         /\ u.operation = t.operation /\ u.result = t.result /\ u.events = t.events
BY Zenon DEF Tools, Created

\* The fields of a row that was decided.
LEMMA DecidedFields ==
  ASSUME NEW t \in Tools, NEW d \in {"approved", "rejected"}, NEW u, u = Decided(t, d)
  PROVE  /\ u \in Tools
         /\ u.status = StatusAfterDecision(d) /\ u.approval = d
         /\ u.operationId = t.operationId /\ u.version = t.version
         /\ u.operation = t.operation /\ u.result = t.result /\ u.events = t.events
<1>1. StatusAfterDecision(d) \in Status /\ d \in {"none", "approved", "rejected"}
  BY DEF StatusAfterDecision, Status, Terminal
<1> QED BY <1>1, Zenon DEF Tools, Decided

\* The fields of a row with its operation.
LEMMA UpsertFields ==
  ASSUME NEW t \in Tools, NEW id \in Ids, NEW u, u = Upsert(t, id)
  PROVE  /\ u \in Tools
         /\ u.operation = id
         /\ u.operationId = t.operationId /\ u.version = t.version /\ u.approval = t.approval
         /\ u.status = t.status /\ u.result = t.result /\ u.events = t.events
BY DEF Tools, Upsert

\* The fields of a row that is attached to an operation.
LEMMA AttachedFields ==
  ASSUME NEW t \in Tools, NEW s \in Status, NEW id \in Ids, NEW u,
         u = Attached(t, s, id)
  PROVE  /\ u \in Tools
         /\ u.status = s /\ u.operationId = id
         /\ u.version = t.version /\ u.approval = t.approval
         /\ u.operation = t.operation /\ u.result = t.result /\ u.events = t.events
BY Zenon DEF Tools, Attached

\* The fields of a row with its result.
LEMMA ResultFields ==
  ASSUME NEW t \in Tools, NEW s \in {"succeeded", "failed"}, NEW u, u = WithResult(t, s)
  PROVE  /\ u \in Tools
         /\ u.status = s /\ u.result = s /\ u.events = t.events + 1
         /\ u.operationId = t.operationId /\ u.version = t.version /\ u.approval = t.approval
         /\ u.operation = t.operation
<1>1. s \in Status /\ t.events + 1 \in Nat
  BY DEF Tools, Status, Terminal
<1>2. u = [t EXCEPT !.status = s, !.result = s, !.events = t.events + 1]
  BY DEF WithResult
<1> QED BY ONLY <1>1, <1>2, t \in Tools, s \in {"succeeded", "failed"}, Zenon DEF Tools

\* A status other than a result may be written without touching the result.
LEMMA StatusRow ==
  ASSUME NEW i, NEW t, RowInv(i, t), NEW s \in Status, s \notin {"succeeded", "failed"},
         s \in {"absent", "pending_approval", "approved"} => t.result = "none",
         s = "outcome_unknown" => t.operation # NoId,
         i \in ApprovalRequired /\ s \in {"approved", "running", "outcome_unknown"}
           => t.approval = "approved",
         NEW u, u = [t EXCEPT !.status = s]
  PROVE  RowInv(i, u)
<1>1. t \in Tools
  BY DEF RowInv
<1> QED BY <1>1, StatusFields DEF RowInv, BelongsTo

\* The first result of an invocation and its Event are written together.
LEMMA ResultRow ==
  ASSUME NEW i, NEW t, RowInv(i, t), NEW s \in {"succeeded", "failed"},
         t.result = "none", CanTransition(t.status, s), NEW u, u = WithResult(t, s)
  PROVE  RowInv(i, u)
<1>1. t \in Tools
  BY DEF RowInv
<1>2. s = "succeeded" => t.status \in {"running", "outcome_unknown"}
  BY DEF RowInv, CanTransition
<1> QED BY <1>1, <1>2, ResultFields DEF RowInv, BelongsTo

\* The operation of an invocation keeps its id.
LEMMA UpsertRow ==
  ASSUME NEW i, NEW t, RowInv(i, t), NEW id \in Ids, CanUpsert(t, id), NEW u, u = Upsert(t, id)
  PROVE  RowInv(i, u) /\ u.operation # NoId
<1>1. t \in Tools
  BY DEF RowInv
<1>2. id # NoId
  BY ToolAssumption DEF Ids, Fallback, NoId
<1> QED BY <1>1, <1>2, UpsertFields DEF RowInv, BelongsTo, CanUpsert

\* A row that has an operation is attached to it with the status of its answer.
LEMMA AttachedRow ==
  ASSUME NEW i, NEW t, RowInv(i, t), CalledRow(i, t),
         NEW s \in {"running", "outcome_unknown"}, NEW id \in Ids, t.operation = id,
         NEW u, u = Attached(t, s, id)
  PROVE  RowInv(i, u) /\ CalledRow(i, u) /\ u.operation = t.operation
<1>1. t \in Tools
  BY DEF RowInv
<1>2. id # NoId
  BY ToolAssumption DEF Ids, Fallback, NoId
<1>3. s \in Status
  BY DEF Status
<1>4. /\ u \in Tools
      /\ u.status = s /\ u.operationId = id
      /\ u.version = t.version /\ u.approval = t.approval
      /\ u.operation = t.operation /\ u.result = t.result /\ u.events = t.events
  BY <1>1, <1>3, AttachedFields
<1> QED BY <1>2, <1>4 DEF RowInv, BelongsTo, CalledRow

\* An operation does not change what is known of the call.
LEMMA UpsertCalled ==
  ASSUME NEW i, NEW t \in Tools, CalledRow(i, t), NEW id \in Ids
  PROVE  CalledRow(i, Upsert(t, id))
BY UpsertFields DEF CalledRow

\* The catch block leaves a row, whatever the try block had written.
LEMMA FailedRowRow ==
  ASSUME NEW i, NEW t, RowInv(i, t), CalledRow(i, t), NEW u, u = FailedRow(t)
  PROVE  /\ RowInv(i, u)
         /\ CalledRow(i, u)
         /\ t.operation # NoId => u.operation # NoId
<1>1. Fallback \in Ids /\ t \in Tools
  BY DEF Ids, RowInv
<1>2. CASE ~CanUpsert(t, Fallback)
  BY <1>2 DEF FailedRow
<1>3. CASE CanUpsert(t, Fallback)
  <2> DEFINE w == Upsert(t, Fallback)
  <2>1. RowInv(i, w) /\ CalledRow(i, w) /\ w.operation = Fallback /\ Fallback # NoId
    BY <1>1, <1>3, UpsertRow, UpsertFields, UpsertCalled
  <2>2. t.status # "running" => u = w
    BY <1>3 DEF FailedRow
  <2>3. t.status = "running" => u = Attached(w, "outcome_unknown", Fallback)
    BY <1>3 DEF FailedRow
  <2> HIDE DEF w
  <2>4. CASE t.status = "running"
    <3>1. RowInv(i, u) /\ CalledRow(i, u) /\ u.operation = w.operation
      BY <1>1, <2>1, <2>3, <2>4, AttachedRow
    <3> QED BY <2>1, <3>1
  <2> QED BY <2>1, <2>2, <2>4
<1> QED BY <1>2, <1>3

\* A new row.
LEMMA CreatedRow ==
  ASSUME NEW i, NEW t, RowInv(i, t), t.status = "absent", NEW v \in Nat,
         NEW s \in {"pending_approval", "approved", "running"},
         i \in ApprovalRequired => s = "pending_approval",
         NEW u, u = Created(t, s, v)
  PROVE  RowInv(i, u) /\ u.operation = t.operation
<1>1. t \in Tools /\ s \in Status
  BY DEF RowInv, Status
<1> QED BY <1>1, CreatedFields DEF RowInv, BelongsTo

\* A row that was decided.
LEMMA DecidedRow ==
  ASSUME NEW i, NEW t, RowInv(i, t), t.status = "pending_approval", NEW d \in {"approved", "rejected"}, NEW u, u = Decided(t, d)
  PROVE  RowInv(i, u) /\ u.operation = t.operation
<1>1. t \in Tools
  BY DEF RowInv
<1> QED BY <1>1, DecidedFields DEF RowInv, BelongsTo, StatusAfterDecision

-----------------------------------------------------------------------------
(* What the actions write *)

\* One row is written, and at most its own invocation is added to called.
LEMMA RowWritten ==
  ASSUME IInv, NEW i \in Invocations, NEW u, RowInv(i, u), tool' = [tool EXCEPT ![i] = u],
         called' \subseteq called \cup {i}, i \in called' => CalledRow(i, u)
  PROVE  tool' \in [Invocations -> Tools] /\ Rows' /\ CalledRows'
<1>1. tool \in [Invocations -> Tools] /\ called \subseteq Invocations /\ Rows /\ CalledRows
  BY DEF IInv, TypeOK
<1>2. u \in Tools
  BY DEF RowInv
<1>3. tool'[i] = u /\ \A j \in Invocations \ {i} : tool'[j] = tool[j]
  BY <1>1
<1>4. tool' \in [Invocations -> Tools]
  BY <1>1, <1>2
<1>5. \A j \in Invocations : RowInv(j, tool'[j])
  BY <1>1, <1>3 DEF Rows
<1>6. \A j \in called' : CalledRow(j, tool'[j])
  BY <1>1, <1>3 DEF CalledRows
<1> QED BY <1>4, <1>5, <1>6 DEF Rows, CalledRows, RowInv, CalledRow

\* What a request knows is about an invocation.
LEMMA RequestOfInvocation ==
  ASSUME TypeOK, NEW h \in Handlers, handler[h].pc # "free"
  PROVE  /\ handler[h].i \in Invocations
         /\ handler[h].key \in Keys
         /\ handler[h].pc \in {"execute", "reconcile", "cancel"} => Command(h) \in Commands
BY DEF TypeOK, HandlerType, Free, Command, Commands

\* Operations stay, calls are not forgotten, and at most one request returns.
LEMMA KnowledgeKept ==
  ASSUME IInv, called \subseteq called',
         \A i \in Invocations : tool[i].operation # NoId => tool'[i].operation # NoId,
         handler' = handler \/ \E h \in Handlers : Return(h)
  PROVE  handler' \in [Handlers -> HandlerType] /\ RequestsKnow'
<1>1. handler \in [Handlers -> HandlerType] /\ Free \in HandlerType /\ Free.pc = "free"
  BY DEF IInv, TypeOK, HandlerType, Free
<1>2. \A h \in Handlers : handler'[h] = handler[h] \/ handler'[h] = Free
  BY <1>1 DEF Return
<1>3. handler' \in [Handlers -> HandlerType]
  BY <1>1 DEF Return
<1>4. ASSUME NEW h \in Handlers
      PROVE  /\ handler'[h].pc = "execute" => handler'[h].i \in called'
             /\ handler'[h].pc = "reconcile" => tool'[handler'[h].i].operation # NoId
             /\ handler'[h].pc = "cancel" => CanTransition(handler'[h].seen, "cancelled")
  BY <1>1, <1>2, RequestOfInvocation DEF IInv, RequestsKnow
<1> QED BY <1>3, <1>4 DEF RequestsKnow, CanTransition

\* A request starts to wait.
LEMMA KnowledgeAwaited ==
  ASSUME IInv, called \subseteq called',
         \A i \in Invocations : tool[i].operation # NoId => tool'[i].operation # NoId,
         NEW h \in Handlers, NEW i \in Invocations, NEW k \in Keys,
         NEW pc \in {"create", "execute", "reconcile", "cancel"},
         NEW seen \in Status \cup {"available", "active", "unavailable"},
         Await(h, pc, i, k, seen),
         pc = "execute" => i \in called',
         pc = "reconcile" => tool'[i].operation # NoId,
         pc = "cancel" => CanTransition(seen, "cancelled")
  PROVE  handler' \in [Handlers -> HandlerType] /\ RequestsKnow'
<1> DEFINE r == [pc |-> pc, i |-> i, key |-> k, seen |-> seen]
<1>1. handler \in [Handlers -> HandlerType]
  BY DEF IInv, TypeOK
<1>2. r \in HandlerType /\ r.pc = pc /\ r.i = i /\ r.seen = seen
  BY DEF HandlerType
<1>3. handler' = [handler EXCEPT ![h] = r]
  BY DEF Await
<1> HIDE DEF r
<1>4. handler' \in [Handlers -> HandlerType]
  BY <1>1, <1>2, <1>3
<1>5. handler'[h] = r /\ \A g \in Handlers \ {h} : handler'[g] = handler[g]
  BY <1>1, <1>3
<1>6. ASSUME NEW g \in Handlers
      PROVE  /\ handler'[g].pc = "execute" => handler'[g].i \in called'
             /\ handler'[g].pc = "reconcile" => tool'[handler'[g].i].operation # NoId
             /\ handler'[g].pc = "cancel" => CanTransition(handler'[g].seen, "cancelled")
  <2>1. CASE g = h
    BY <1>2, <1>5, <2>1
  <2>2. CASE g # h
    BY <1>5, <2>2, RequestOfInvocation DEF IInv, RequestsKnow
  <2> QED BY <2>1, <2>2
<1> QED BY <1>4, <1>6 DEF RequestsKnow, CanTransition

\* No row is written.
LEMMA RowsKept ==
  ASSUME IInv, tool' = tool, called' = called
  PROVE  tool' \in [Invocations -> Tools] /\ Rows' /\ CalledRows'
BY DEF IInv, TypeOK, Rows, CalledRows, RowInv, CalledRow

\* One row is written and the called invocations stay.
LEMMA OneRow ==
  ASSUME IInv, NEW i \in Invocations, NEW u, RowInv(i, u), tool' = [tool EXCEPT ![i] = u],
         called' = called, i \in called => CalledRow(i, u),
         tool[i].operation # NoId => u.operation # NoId
  PROVE  /\ tool' \in [Invocations -> Tools] /\ Rows' /\ CalledRows'
         /\ \A j \in Invocations : tool[j].operation # NoId => tool'[j].operation # NoId
<1>1. tool' \in [Invocations -> Tools] /\ Rows' /\ CalledRows'
  BY RowWritten
<1>2. ASSUME NEW j \in Invocations, tool[j].operation # NoId
      PROVE  tool'[j].operation # NoId
  BY <1>2 DEF IInv, TypeOK
<1> QED BY <1>1, <1>2

\* The row an invocation has.
LEMMA RowOf ==
  ASSUME IInv, NEW i \in Invocations
  PROVE  /\ tool[i] \in Tools /\ RowInv(i, tool[i])
         /\ i \in called => CalledRow(i, tool[i])
BY DEF IInv, TypeOK, Rows, CalledRows

-----------------------------------------------------------------------------
(* Each action preserves the invariant *)

LEMMA ReadCatalogStep ==
  ASSUME IInv, NEW h \in Handlers, NEW i \in Invocations, ReadCatalog(h, i)
  PROVE  IInv'
<1>1. tool' \in [Invocations -> Tools] /\ Rows' /\ CalledRows'
  BY RowsKept DEF ReadCatalog
<1>2. PICK k \in Keys : Await(h, "create", i, k, definition)
  BY DEF ReadCatalog
<1>3. handler' \in [Handlers -> HandlerType] /\ RequestsKnow'
  <2>1. definition \in Status \cup {"available", "active", "unavailable"}
    BY DEF IInv, TypeOK
  <2> QED BY <1>2, <2>1, KnowledgeAwaited DEF ReadCatalog
<1> QED BY <1>1, <1>3 DEF IInv, TypeOK, ReadCatalog

LEMMA CreateInvocationStep ==
  ASSUME IInv, NEW h \in Handlers, CreateInvocation(h)
  PROVE  IInv'
<1> DEFINE i == handler[h].i
           s == IF i \in ApprovalRequired THEN "pending_approval" ELSE "approved"
           u == Created(tool[i], s, version + 1)
<1>1. i \in Invocations /\ version + 1 \in Nat
  BY RequestOfInvocation DEF CreateInvocation, IInv, TypeOK
<1>2. /\ tool' \in [Invocations -> Tools] /\ Rows' /\ CalledRows'
      /\ \A j \in Invocations : tool[j].operation # NoId => tool'[j].operation # NoId
  <2>1. CASE tool[i].status = "absent" /\ tool' = [tool EXCEPT ![i] = u]
    <3>1. RowInv(i, u) /\ u.operation = tool[i].operation
      BY <1>1, <2>1, RowOf, CreatedRow
    <3>2. i \notin called
      BY <1>1, <2>1, RowOf DEF CalledRow
    <3> HIDE DEF u, i
    <3> QED BY <1>1, <2>1, <3>1, <3>2, OneRow DEF CreateInvocation
  <2>2. CASE tool' = tool
    BY <2>2, RowsKept DEF CreateInvocation
  <2> QED BY <2>1, <2>2 DEF CreateInvocation
<1>3. handler' \in [Handlers -> HandlerType] /\ RequestsKnow'
  BY <1>2, KnowledgeKept DEF CreateInvocation
<1> QED BY <1>1, <1>2, <1>3 DEF IInv, TypeOK, CreateInvocation

LEMMA CommitToolDecisionStep ==
  ASSUME IInv, NEW i \in Invocations, CommitToolDecision(i)
  PROVE  IInv'
<1> DEFINE s == IF i \in ApprovalRequired THEN "pending_approval" ELSE "running"
           u == Created(tool[i], s, SnapshotVersion)
<1>1. RowInv(i, u) /\ u.operation = tool[i].operation
  BY RowOf, CreatedRow, ToolAssumption DEF CommitToolDecision
<1>2. i \notin called
  BY RowOf DEF CommitToolDecision, CalledRow
<1>3. tool' = [tool EXCEPT ![i] = u] /\ called' = called /\ handler' = handler
  BY DEF CommitToolDecision
<1> HIDE DEF u
<1>4. /\ tool' \in [Invocations -> Tools] /\ Rows' /\ CalledRows'
      /\ \A j \in Invocations : tool[j].operation # NoId => tool'[j].operation # NoId
  BY <1>1, <1>2, <1>3, OneRow
<1>5. handler' \in [Handlers -> HandlerType] /\ RequestsKnow'
  BY <1>3, <1>4, KnowledgeKept
<1> QED BY <1>4, <1>5 DEF IInv, TypeOK, CommitToolDecision

LEMMA DecideInvocationStep ==
  ASSUME IInv, NEW i \in Invocations, NEW d \in {"approved", "rejected"}, DecideInvocation(i, d)
  PROVE  IInv'
<1> DEFINE u == Decided(tool[i], d)
<1>1. RowInv(i, u) /\ u.operation = tool[i].operation
  BY RowOf, DecidedRow DEF DecideInvocation
<1>2. i \notin called
  BY RowOf DEF DecideInvocation, CalledRow
<1>3. tool' = [tool EXCEPT ![i] = u] /\ called' = called /\ handler' = handler
  BY DEF DecideInvocation
<1> HIDE DEF u
<1>4. /\ tool' \in [Invocations -> Tools] /\ Rows' /\ CalledRows'
      /\ \A j \in Invocations : tool[j].operation # NoId => tool'[j].operation # NoId
  BY <1>1, <1>2, <1>3, OneRow
<1>5. handler' \in [Handlers -> HandlerType] /\ RequestsKnow'
  BY <1>3, <1>4, KnowledgeKept
<1> QED BY <1>4, <1>5 DEF IInv, TypeOK, DecideInvocation

\* An accepted result leaves a row.
LEMMA AcceptedRow ==
  ASSUME NEW i, NEW t, RowInv(i, t), NEW s \in {"succeeded", "failed"}, NEW id,
         ResultAccepted(t, s, id), NEW u, u = WithResult(t, s)
  PROVE  /\ RowInv(i, u)
         /\ u.operation = t.operation
         /\ CalledRow(i, t) => CalledRow(i, u)
<1>1. t.result = "none" /\ CanTransition(t.status, s) /\ t \in Tools
  BY DEF ResultAccepted, Acceptable, RowInv
<1>2. u.status = s /\ u.approval = t.approval /\ u.operation = t.operation
  BY <1>1, ResultFields
<1> QED BY <1>1, <1>2, ResultRow DEF CalledRow

LEMMA PublishToolResultStep ==
  ASSUME IInv, NEW i \in Invocations, NEW s \in {"succeeded", "failed"}, NEW id,
         PublishToolResult(i, s, id)
  PROVE  IInv'
<1> DEFINE u == WithResult(tool[i], s)
<1>1. RowInv(i, u) /\ u.operation = tool[i].operation /\ (i \in called => CalledRow(i, u))
  <2>1. RowInv(i, tool[i]) /\ (i \in called => CalledRow(i, tool[i]))
    BY RowOf
  <2>2. ResultAccepted(tool[i], s, id)
    BY DEF PublishToolResult
  <2> QED BY <2>1, <2>2, AcceptedRow
<1>2. tool' = [tool EXCEPT ![i] = u] /\ called' = called /\ handler' = handler
  BY DEF PublishToolResult
<1> HIDE DEF u
<1>3. /\ tool' \in [Invocations -> Tools] /\ Rows' /\ CalledRows'
      /\ \A j \in Invocations : tool[j].operation # NoId => tool'[j].operation # NoId
  BY <1>1, <1>2, OneRow
<1>4. handler' \in [Handlers -> HandlerType] /\ RequestsKnow'
  BY <1>2, <1>3, KnowledgeKept
<1> QED BY <1>3, <1>4 DEF IInv, TypeOK, PublishToolResult

LEMMA BeginExecuteStep ==
  ASSUME IInv, NEW h \in Handlers, NEW i \in Invocations, NEW k \in Keys, BeginExecute(h, i, k)
  PROVE  IInv'
<1> DEFINE u == [tool[i] EXCEPT !.status = "running"]
<1>1. tool[i] \in Tools /\ RowInv(i, tool[i]) /\ CanTransition(tool[i].status, "running")
  BY RowOf DEF BeginExecute
<1>2. "running" \in Status /\ tool[i].status \in {"approved", "running"}
  BY <1>1 DEF Status, Terminal, CanTransition
<1>3. u \in Tools /\ u.status = "running" /\ u.approval = tool[i].approval
      /\ u.operation = tool[i].operation
  BY <1>1, <1>2, StatusFields
<1>4. RowInv(i, u)
  BY <1>1, <1>2, StatusRow DEF RowInv
<1>5. CalledRow(i, u)
  BY <1>1, <1>2, <1>3 DEF RowInv, CalledRow
<1>6. tool' = [tool EXCEPT ![i] = u] /\ called' = called \cup {i}
  BY DEF BeginExecute
<1> HIDE DEF u
<1>7. tool' \in [Invocations -> Tools] /\ Rows' /\ CalledRows'
  BY <1>4, <1>5, <1>6, RowWritten
<1>8. \A j \in Invocations : tool[j].operation # NoId => tool'[j].operation # NoId
  BY <1>3, <1>6 DEF IInv, TypeOK
<1>9. handler' \in [Handlers -> HandlerType] /\ RequestsKnow'
  BY <1>2, <1>6, <1>8, KnowledgeAwaited DEF BeginExecute
<1> QED BY <1>6, <1>7, <1>9 DEF IInv, TypeOK, BeginExecute

\* What the end of an execution writes, from a row t the try block may leave.
LEMMA EndExecuteStep ==
  ASSUME IInv, NEW h \in Handlers, handler[h].pc = "execute", NEW t, NEW ok \in BOOLEAN,
         RowInv(handler[h].i, t), CalledRow(handler[h].i, t),
         tool[handler[h].i].operation # NoId => t.operation # NoId,
         run' \in {"pending", "waiting", "over"}, EndExecute(h, t, ok)
  PROVE  IInv'
<1> DEFINE i == handler[h].i
<1>1. i \in Invocations /\ Command(h) \in Commands
  BY RequestOfInvocation DEF IInv
<1>2. PICK u \in {t, FailedRow(t)} : tool' = [tool EXCEPT ![i] = u]
  BY DEF EndExecute
<1>3. RowInv(i, u) /\ CalledRow(i, u) /\ (tool[i].operation # NoId => u.operation # NoId)
  BY <1>2, FailedRowRow
<1>4. called' = called /\ Return(h) /\ recorded' \subseteq recorded \cup {Command(h)}
      /\ definition' = definition /\ version' = version
  BY DEF EndExecute
<1> HIDE DEF i
<1>5. /\ tool' \in [Invocations -> Tools] /\ Rows' /\ CalledRows'
      /\ \A j \in Invocations : tool[j].operation # NoId => tool'[j].operation # NoId
  BY <1>1, <1>2, <1>3, <1>4, OneRow
<1>6. handler' \in [Handlers -> HandlerType] /\ RequestsKnow'
  BY <1>4, <1>5, KnowledgeKept
<1> QED BY <1>1, <1>4, <1>5, <1>6 DEF IInv, TypeOK

LEMMA InvokeFailsStep ==
  ASSUME IInv, NEW h \in Handlers,
         InvokeFails(h) \/ \E id \in Ids : InvokeAnswersOtherOperation(h, id)
  PROVE  IInv'
<1>1. handler[h].pc = "execute" /\ run' = run /\ EndExecute(h, tool[handler[h].i], FALSE)
  BY DEF InvokeFails, InvokeAnswersOtherOperation
<1>2. handler[h].i \in Invocations /\ handler[h].i \in called
  BY <1>1, RequestOfInvocation DEF IInv, RequestsKnow
<1>3. RowInv(handler[h].i, tool[handler[h].i]) /\ CalledRow(handler[h].i, tool[handler[h].i])
  BY <1>2, RowOf
<1> QED BY <1>1, <1>3, EndExecuteStep DEF IInv, TypeOK

LEMMA InvokeAnswersRunningStep ==
  ASSUME IInv, NEW h \in Handlers, NEW id \in Ids, InvokeAnswersRunning(h, id)
  PROVE  IInv'
<1> DEFINE i == handler[h].i
           w == Upsert(tool[i], id)
           u == Attached(w, "running", id)
<1>1. i \in Invocations /\ i \in called /\ handler[h].pc = "execute"
  BY RequestOfInvocation DEF IInv, RequestsKnow, InvokeAnswersRunning
<1>2. tool[i] \in Tools /\ RowInv(i, tool[i]) /\ CalledRow(i, tool[i]) /\ CanUpsert(tool[i], id)
  BY <1>1, RowOf DEF InvokeAnswersRunning
<1>3. RowInv(i, w) /\ CalledRow(i, w) /\ w.operation = id /\ w.operation # NoId
  BY <1>2, UpsertRow, UpsertFields, UpsertCalled
<1>4. RowInv(i, u) /\ CalledRow(i, u) /\ u.operation # NoId
  <2> HIDE DEF w, i
  <2> QED BY <1>3, AttachedRow
<1>5. EndExecute(h, u, TRUE) /\ run' = run
  BY DEF InvokeAnswersRunning
<1> HIDE DEF u
<1> QED BY <1>1, <1>4, <1>5, EndExecuteStep DEF IInv, TypeOK

LEMMA InvokeAnswersResultStep ==
  ASSUME IInv, NEW h \in Handlers, NEW id \in Ids, NEW s \in {"succeeded", "failed"},
         InvokeAnswersResult(h, s, id)
  PROVE  IInv'
<1> DEFINE i == handler[h].i
           w == Upsert(tool[i], id)
           u == WithResult(w, s)
<1>1. i \in Invocations /\ i \in called /\ handler[h].pc = "execute"
  BY RequestOfInvocation DEF IInv, RequestsKnow, InvokeAnswersResult
<1>2. tool[i] \in Tools /\ RowInv(i, tool[i]) /\ CalledRow(i, tool[i]) /\ CanUpsert(tool[i], id)
  BY <1>1, RowOf DEF InvokeAnswersResult
<1>3. RowInv(i, w) /\ CalledRow(i, w) /\ w.operation # NoId
  BY <1>2, UpsertRow, UpsertCalled
<1>4. CASE ResultAccepted(w, s, id) /\ run' = "pending" /\ EndExecute(h, u, TRUE)
  <2>1. RowInv(i, u) /\ CalledRow(i, u) /\ u.operation # NoId
    <3> HIDE DEF w, i
    <3> QED BY <1>3, <1>4, AcceptedRow
  <2> HIDE DEF u
  <2> QED BY <1>1, <1>4, <2>1, EndExecuteStep
<1>5. CASE run' = run /\ EndExecute(h, w, ResultReplayed(w, s, id))
  <2>1. ResultReplayed(w, s, id) \in BOOLEAN
    BY DEF ResultReplayed, Acceptable
  <2> HIDE DEF w
  <2> QED BY <1>1, <1>3, <1>5, <2>1, EndExecuteStep DEF IInv, TypeOK
<1> QED BY <1>4, <1>5 DEF InvokeAnswersResult

LEMMA BeginReconcileStep ==
  ASSUME IInv, NEW h \in Handlers, NEW i \in Invocations, NEW k \in Keys, BeginReconcile(h, i, k)
  PROVE  IInv'
<1>1. tool' \in [Invocations -> Tools] /\ Rows' /\ CalledRows'
  BY RowsKept DEF BeginReconcile
<1>2. tool[i].status \in Status
  BY RowOf DEF Tools
<1>3. handler' \in [Handlers -> HandlerType] /\ RequestsKnow'
  BY <1>2, KnowledgeAwaited DEF BeginReconcile
<1> QED BY <1>1, <1>3 DEF IInv, TypeOK, BeginReconcile

LEMMA GetAnswersResultStep ==
  ASSUME IInv, NEW h \in Handlers, NEW s \in {"succeeded", "failed"}, GetAnswersResult(h, s)
  PROVE  IInv'
<1> DEFINE i == handler[h].i
           u == WithResult(tool[i], s)
<1>1. i \in Invocations /\ Command(h) \in Commands
  BY RequestOfInvocation DEF IInv, GetAnswersResult
<1>2. RowInv(i, tool[i]) /\ (i \in called => CalledRow(i, tool[i]))
  BY <1>1, RowOf
<1>3. called' = called /\ Return(h) /\ recorded' \subseteq recorded \cup {Command(h)}
      /\ definition' = definition /\ version' = version /\ run' \in {run, "pending"}
  BY DEF GetAnswersResult
<1>4. /\ tool' \in [Invocations -> Tools] /\ Rows' /\ CalledRows'
      /\ \A j \in Invocations : tool[j].operation # NoId => tool'[j].operation # NoId
  <2>1. CASE ResultAccepted(tool[i], s, tool[i].operation) /\ tool' = [tool EXCEPT ![i] = u]
    <3>1. RowInv(i, u) /\ u.operation = tool[i].operation /\ (i \in called => CalledRow(i, u))
      BY <1>2, <2>1, AcceptedRow
    <3> HIDE DEF u, i
    <3> QED BY <1>1, <1>3, <2>1, <3>1, OneRow
  <2>2. CASE tool' = tool
    BY <1>3, <2>2, RowsKept
  <2> QED BY <2>1, <2>2 DEF GetAnswersResult
<1>5. handler' \in [Handlers -> HandlerType] /\ RequestsKnow'
  BY <1>3, <1>4, KnowledgeKept
<1> QED BY <1>1, <1>3, <1>4, <1>5 DEF IInv, TypeOK

\* A status that an answer other than a result moves an invocation to.
LEMMA MovedRow ==
  ASSUME NEW i, NEW t, RowInv(i, t), i \in called => CalledRow(i, t),
         NEW s \in {"running", "outcome_unknown", "cancelled"}, CanTransition(t.status, s),
         s = "outcome_unknown" => t.operation # NoId, NEW u, u = [t EXCEPT !.status = s]
  PROVE  RowInv(i, u) /\ (i \in called => CalledRow(i, u)) /\ u.operation = t.operation
<1>1. t \in Tools /\ s \in Status /\ s \notin {"succeeded", "failed"}
  BY DEF RowInv, Status, Terminal
<1>2. u.status = s /\ u.approval = t.approval /\ u.operation = t.operation
  BY <1>1, StatusFields
<1>3. i \in ApprovalRequired /\ s \in {"running", "outcome_unknown"} => t.approval = "approved"
  BY DEF RowInv, CanTransition
<1>4. RowInv(i, u)
  BY <1>1, <1>3, StatusRow
<1> QED BY <1>2, <1>4 DEF CalledRow

LEMMA GetAnswersStatusStep ==
  ASSUME IInv, NEW h \in Handlers, NEW s \in {"running", "outcome_unknown", "cancelled"},
         GetAnswersStatus(h, s)
  PROVE  IInv'
<1> DEFINE i == handler[h].i
           u == [tool[i] EXCEPT !.status = s]
<1>1. i \in Invocations /\ Command(h) \in Commands /\ tool[i].operation # NoId
  BY RequestOfInvocation DEF IInv, GetAnswersStatus, RequestsKnow
<1>2. RowInv(i, tool[i]) /\ (i \in called => CalledRow(i, tool[i]))
  BY <1>1, RowOf
<1>3. called' = called /\ Return(h) /\ recorded' \subseteq recorded \cup {Command(h)}
      /\ definition' = definition /\ version' = version /\ run' = run
  BY DEF GetAnswersStatus
<1>4. /\ tool' \in [Invocations -> Tools] /\ Rows' /\ CalledRows'
      /\ \A j \in Invocations : tool[j].operation # NoId => tool'[j].operation # NoId
  <2>1. CASE CanMoveTo(h, s) /\ tool' = [tool EXCEPT ![i] = u]
    <3>1. CanTransition(tool[i].status, s)
      BY <2>1 DEF CanMoveTo
    <3>2. RowInv(i, u) /\ u.operation = tool[i].operation /\ (i \in called => CalledRow(i, u))
      BY <1>1, <1>2, <3>1, MovedRow
    <3> HIDE DEF u, i
    <3> QED BY <1>1, <1>3, <2>1, <3>2, OneRow
  <2>2. CASE tool' = tool
    BY <1>3, <2>2, RowsKept
  <2> QED BY <2>1, <2>2 DEF GetAnswersStatus
<1>5. handler' \in [Handlers -> HandlerType] /\ RequestsKnow'
  BY <1>3, <1>4, KnowledgeKept
<1> QED BY <1>1, <1>3, <1>4, <1>5 DEF IInv, TypeOK

LEMMA CancelAtOnceStep ==
  ASSUME IInv, NEW i \in Invocations, NEW k \in Keys, CancelAtOnce(i, k)
  PROVE  IInv'
<1> DEFINE u == [tool[i] EXCEPT !.status = "cancelled"]
<1>1. RowInv(i, tool[i]) /\ (i \in called => CalledRow(i, tool[i]))
  BY RowOf
<1>2. CanTransition(tool[i].status, "cancelled") /\ <<"cancel", i, k>> \in Commands
  BY DEF CancelAtOnce, Cancellable, Commands
<1>3. RowInv(i, u) /\ u.operation = tool[i].operation /\ (i \in called => CalledRow(i, u))
  BY <1>1, <1>2, MovedRow
<1>4. tool' = [tool EXCEPT ![i] = u] /\ called' = called /\ handler' = handler
  BY DEF CancelAtOnce
<1> HIDE DEF u
<1>5. /\ tool' \in [Invocations -> Tools] /\ Rows' /\ CalledRows'
      /\ \A j \in Invocations : tool[j].operation # NoId => tool'[j].operation # NoId
  BY <1>3, <1>4, OneRow
<1>6. handler' \in [Handlers -> HandlerType] /\ RequestsKnow'
  BY <1>4, <1>5, KnowledgeKept
<1> QED BY <1>2, <1>5, <1>6 DEF IInv, TypeOK, CancelAtOnce

LEMMA BeginCancelStep ==
  ASSUME IInv, NEW h \in Handlers, NEW i \in Invocations, NEW k \in Keys, BeginCancel(h, i, k)
  PROVE  IInv'
<1>1. tool' \in [Invocations -> Tools] /\ Rows' /\ CalledRows'
  BY RowsKept DEF BeginCancel
<1>2. tool[i].status \in Status
  BY RowOf DEF Tools
<1>3. handler' \in [Handlers -> HandlerType] /\ RequestsKnow'
  BY <1>2, KnowledgeAwaited DEF BeginCancel, Cancellable
<1> QED BY <1>1, <1>3 DEF IInv, TypeOK, BeginCancel

LEMMA CancelAnswersStep ==
  ASSUME IInv, NEW h \in Handlers, CancelAnswers(h)
  PROVE  IInv'
<1> DEFINE i == handler[h].i
           u == [tool[i] EXCEPT !.status = "cancelled"]
<1>1. i \in Invocations /\ Command(h) \in Commands /\ CanTransition(handler[h].seen, "cancelled")
  BY RequestOfInvocation DEF IInv, CancelAnswers, RequestsKnow
<1>2. RowInv(i, tool[i]) /\ (i \in called => CalledRow(i, tool[i]))
  BY <1>1, RowOf
<1>3. called' = called /\ Return(h) /\ recorded' \subseteq recorded \cup {Command(h)}
      /\ definition' = definition /\ version' = version /\ run' = run
  BY DEF CancelAnswers
<1>4. /\ tool' \in [Invocations -> Tools] /\ Rows' /\ CalledRows'
      /\ \A j \in Invocations : tool[j].operation # NoId => tool'[j].operation # NoId
  <2>1. CASE tool[i].status = handler[h].seen /\ tool' = [tool EXCEPT ![i] = u]
    <3>1. CanTransition(tool[i].status, "cancelled")
      BY <1>1, <2>1
    <3>2. RowInv(i, u) /\ u.operation = tool[i].operation /\ (i \in called => CalledRow(i, u))
      BY <1>2, <3>1, MovedRow
    <3> HIDE DEF u, i
    <3> QED BY <1>1, <1>3, <2>1, <3>2, OneRow
  <2>2. CASE tool' = tool
    BY <1>3, <2>2, RowsKept
  <2> QED BY <2>1, <2>2 DEF CancelAnswers
<1>5. handler' \in [Handlers -> HandlerType] /\ RequestsKnow'
  BY <1>3, <1>4, KnowledgeKept
<1> QED BY <1>1, <1>3, <1>4, <1>5 DEF IInv, TypeOK

LEMMA ProviderFailsStep ==
  ASSUME IInv, NEW h \in Handlers, ProviderFails(h)
  PROVE  IInv'
<1>1. tool' \in [Invocations -> Tools] /\ Rows' /\ CalledRows'
  BY RowsKept DEF ProviderFails
<1>2. handler' \in [Handlers -> HandlerType] /\ RequestsKnow'
  BY KnowledgeKept DEF ProviderFails
<1> QED BY <1>1, <1>2 DEF IInv, TypeOK, ProviderFails

LEMMA UninstallIntegrationStep ==
  ASSUME IInv, UninstallIntegration
  PROVE  IInv'
<1> DEFINE u(i) == CancelledByUninstall(tool[i])
<1>1. /\ tool \in [Invocations -> Tools] /\ called' = called /\ handler' = handler
      /\ tool' = [i \in Invocations |-> u(i)]
  BY DEF IInv, TypeOK, UninstallIntegration
<1>2. ASSUME NEW i \in Invocations
      PROVE  /\ RowInv(i, u(i)) /\ u(i) \in Tools /\ u(i).operation = tool[i].operation
             /\ i \in called => CalledRow(i, u(i))
  <2>1. tool[i] \in Tools /\ RowInv(i, tool[i]) /\ (i \in called => CalledRow(i, tool[i]))
    BY RowOf
  <2>2. CASE u(i) = tool[i]
    BY <2>1, <2>2
  <2>3. CASE /\ tool[i].status \in {"approved", "pending_approval", "running"}
             /\ u(i) = [tool[i] EXCEPT !.status = "cancelled"]
    <3>1. CanTransition(tool[i].status, "cancelled")
      BY <2>3 DEF CanTransition
    <3>2. RowInv(i, u(i)) /\ u(i).operation = tool[i].operation
          /\ (i \in called => CalledRow(i, u(i)))
      BY <2>1, <2>3, <3>1, MovedRow
    <3> QED BY <3>2 DEF RowInv
  <2> QED BY <2>2, <2>3 DEF CancelledByUninstall
<1> HIDE DEF u
<1>3. tool' \in [Invocations -> Tools] /\ \A i \in Invocations : tool'[i] = u(i)
  BY <1>1, <1>2
<1>4. \A i \in Invocations : RowInv(i, tool'[i])
  BY <1>2, <1>3
<1>5. \A i \in called' : CalledRow(i, tool'[i])
  BY <1>1, <1>2, <1>3 DEF IInv, TypeOK
<1>6. \A i \in Invocations : tool[i].operation # NoId => tool'[i].operation # NoId
  BY <1>2, <1>3
<1>7. handler' \in [Handlers -> HandlerType] /\ RequestsKnow'
  BY <1>1, <1>6, KnowledgeKept
<1>8. Rows' /\ CalledRows'
  BY <1>4, <1>5 DEF Rows, CalledRows, RowInv, CalledRow
<1> QED BY <1>3, <1>7, <1>8 DEF IInv, TypeOK, UninstallIntegration

LEMMA RunMovesStep ==
  ASSUME IInv, RunMoves
  PROVE  IInv'
<1>1. tool' \in [Invocations -> Tools] /\ Rows' /\ CalledRows'
  BY RowsKept DEF RunMoves
<1>2. handler' \in [Handlers -> HandlerType] /\ RequestsKnow'
  BY KnowledgeKept DEF RunMoves
<1> QED BY <1>1, <1>2 DEF IInv, TypeOK, RunMoves

LEMMA EvictStep ==
  ASSUME IInv, Evict
  PROVE  IInv'
<1>1. tool' \in [Invocations -> Tools] /\ Rows' /\ CalledRows'
  BY RowsKept DEF Evict
<1>2. handler' \in [Handlers -> HandlerType] /\ RequestsKnow'
  BY DEF Evict, HandlerType, Free, RequestsKnow
<1> QED BY <1>1, <1>2 DEF IInv, TypeOK, Evict

\* A step in which nothing changes.
LEMMA StutterStep ==
  ASSUME IInv, UNCHANGED vars
  PROVE  IInv'
<1>1. tool' \in [Invocations -> Tools] /\ Rows' /\ CalledRows'
  BY RowsKept DEF vars
<1>2. handler' \in [Handlers -> HandlerType] /\ RequestsKnow'
  BY KnowledgeKept DEF vars
<1> QED BY <1>1, <1>2 DEF IInv, TypeOK, vars

LEMMA InitInv == Init => IInv
<1> SUFFICES ASSUME Init PROVE IInv
  OBVIOUS
<1>1. \A i \in Invocations : tool[i] = NoTool
  BY DEF Init
<1>2. Rows /\ tool \in [Invocations -> Tools]
  <2>1. \A i \in Invocations : RowInv(i, tool[i])
    BY <1>1, NoToolRow
  <2> QED BY <2>1 DEF Init, Rows, RowInv
<1>3. CalledRows
  BY DEF Init, CalledRows
<1>4. RequestsKnow /\ handler \in [Handlers -> HandlerType]
  BY DEF Init, RequestsKnow, HandlerType, Free
<1> QED BY <1>2, <1>3, <1>4, ToolAssumption DEF Init, IInv, TypeOK

LEMMA NextInv == IInv /\ [Next]_vars => IInv'
<1> SUFFICES ASSUME IInv, [Next]_vars PROVE IInv'
  OBVIOUS
<1>1. ASSUME NEW h \in Handlers, CreateInvocation(h) \/ Answer(h) PROVE IInv'
  BY <1>1, CreateInvocationStep, InvokeFailsStep, InvokeAnswersRunningStep, InvokeAnswersResultStep,
     GetAnswersResultStep, GetAnswersStatusStep, CancelAnswersStep, ProviderFailsStep DEF Answer
<1>2. ASSUME NEW h \in Handlers, NEW i \in Invocations, Request(h, i) PROVE IInv'
  BY <1>2, ReadCatalogStep, BeginExecuteStep, BeginReconcileStep, BeginCancelStep DEF Request
<1>3. ASSUME NEW i \in Invocations, CommitToolDecision(i) PROVE IInv'
  BY <1>3, CommitToolDecisionStep
<1>4. ASSUME NEW i \in Invocations, NEW d \in {"approved", "rejected"}, DecideInvocation(i, d)
      PROVE  IInv'
  BY <1>4, DecideInvocationStep
<1>5. ASSUME NEW i \in Invocations, NEW s \in {"succeeded", "failed"}, NEW id \in Ids \cup {NoId},
             PublishToolResult(i, s, id)
      PROVE  IInv'
  BY <1>5, PublishToolResultStep
<1>6. ASSUME NEW i \in Invocations, NEW k \in Keys, CancelAtOnce(i, k) PROVE IInv'
  BY <1>6, CancelAtOnceStep
<1>7. CASE UninstallIntegration
  BY <1>7, UninstallIntegrationStep
<1>8. CASE RunMoves
  BY <1>8, RunMovesStep
<1>9. CASE Evict
  BY <1>9, EvictStep
<1>10. CASE UNCHANGED vars
  BY <1>10, StutterStep
<1> QED BY <1>1, <1>2, <1>3, <1>4, <1>5, <1>6, <1>7, <1>8, <1>9, <1>10 DEF Next

LEMMA ToolInvariant == Spec => []IInv
BY InitInv, NextInv, PTL DEF Spec

-----------------------------------------------------------------------------
(* The properties *)

\* The rows of an invocation, the ledger and the requests in flight have their
\* types (schema/tool.ts).
THEOREM ToolTypes == Spec => []TypeOK
<1>1. IInv => TypeOK
  BY DEF IInv
<1> QED BY <1>1, ToolInvariant, PTL

\* Callbacks, answers and reconciliations append one result Event per
\* invocation, whatever their number and order (results.ts).
THEOREM ResultOnce == Spec => []OneResultEvent
<1>1. IInv => OneResultEvent
  BY DEF IInv, Rows, RowInv, OneResultEvent
<1> QED BY <1>1, ToolInvariant, PTL

\* A final result is the one the Run was told (results.ts).
THEOREM ResultIsStatus == Spec => []ResultMatchesStatus
<1>1. IInv => ResultMatchesStatus
  BY DEF IInv, Rows, RowInv, ResultMatchesStatus
<1> QED BY <1>1, ToolInvariant, PTL

\* No Provider is called for an invocation that was not approved
\* (provider-operations.ts, commands.ts).
THEOREM ApprovalBeforeCall == Spec => []CalledAfterApproval
<1>1. IInv => CalledAfterApproval
  BY DEF IInv, CalledRows, CalledRow, CalledAfterApproval
<1> QED BY <1>1, ToolInvariant, PTL

\* ReconcileInvocation finds the operation of an invocation of unknown outcome
\* (operation-provider.ts).
THEOREM UnknownHasOperation == Spec => []UnknownIsReconcilable
<1>1. IInv => UnknownIsReconcilable
  BY DEF IInv, Rows, RowInv, UnknownIsReconcilable
<1> QED BY <1>1, ToolInvariant, PTL

\* What a step must show about one invocation.
Final(i) ==
  /\ tool[i].status \in Terminal
  /\ ~\E h \in Handlers : handler[h].pc = "execute" /\ handler[h].i = i
  => tool'[i].status = tool[i].status

\* A terminal status is left by no transition.
LEMMA TerminalStays ==
  ASSUME NEW from \in Terminal, NEW to, CanTransition(from, to)
  PROVE  to = from
BY DEF Terminal, CanTransition

\* A step writes the status of at most one invocation, which stays when it is
\* final.
LEMMA FinalOfWrite ==
  ASSUME IInv, NEW j \in Invocations, NEW u, tool' = [tool EXCEPT ![j] = u],
         tool[j].status \in Terminal => u.status = tool[j].status,
         NEW i \in Invocations
  PROVE  Final(i)
BY DEF IInv, TypeOK, Final

LEMMA FinalStep ==
  ASSUME IInv, Next, NEW i \in Invocations
  PROVE  Final(i)
<1>0. tool[i] \in Tools /\ tool \in [Invocations -> Tools]
  BY RowOf DEF IInv, TypeOK
<1>1. CASE tool' = tool
  BY <1>1 DEF Final
<1>2. ASSUME NEW h \in Handlers, CreateInvocation(h), tool' # tool PROVE Final(i)
  <2>1. handler[h].i \in Invocations /\ tool[handler[h].i].status \notin Terminal
    BY <1>2, RequestOfInvocation DEF CreateInvocation, IInv, Terminal
  <2> QED BY <1>2, <2>1, FinalOfWrite DEF CreateInvocation
<1>3. ASSUME NEW j \in Invocations, CommitToolDecision(j) PROVE Final(i)
  <2>1. tool[j].status \notin Terminal
    BY <1>3 DEF CommitToolDecision, Terminal
  <2> QED BY <1>3, <2>1, FinalOfWrite DEF CommitToolDecision
<1>4. ASSUME NEW j \in Invocations, NEW d, DecideInvocation(j, d) PROVE Final(i)
  <2>1. tool[j].status \notin Terminal
    BY <1>4 DEF DecideInvocation, Terminal
  <2> QED BY <1>4, <2>1, FinalOfWrite DEF DecideInvocation
<1>5. ASSUME NEW j \in Invocations, NEW s \in {"succeeded", "failed"}, NEW id,
             ResultAccepted(tool[j], s, id), tool' = [tool EXCEPT ![j] = WithResult(tool[j], s)]
      PROVE  Final(i)
  <2> DEFINE u == WithResult(tool[j], s)
  <2>1. CanTransition(tool[j].status, s) /\ tool[j] \in Tools
    BY <1>5, RowOf DEF ResultAccepted, Acceptable
  <2>2. u.status = s
    BY <2>1, ResultFields
  <2>3. tool[j].status \in Terminal => u.status = tool[j].status
    BY <2>1, <2>2, TerminalStays
  <2> HIDE DEF u
  <2> QED BY <1>5, <2>3, FinalOfWrite DEF u
<1>6. ASSUME NEW j \in Invocations, NEW s \in Status, CanTransition(tool[j].status, s),
             tool' = [tool EXCEPT ![j].status = s]
      PROVE  Final(i)
  <2> DEFINE u == [tool[j] EXCEPT !.status = s]
  <2>1. u.status = s
    BY RowOf, StatusFields
  <2>2. tool[j].status \in Terminal => u.status = tool[j].status
    BY <1>6, <2>1, TerminalStays
  <2>3. tool' = [tool EXCEPT ![j] = u]
    BY <1>6
  <2> HIDE DEF u
  <2> QED BY <2>2, <2>3, FinalOfWrite
<1>7. ASSUME NEW h \in Handlers, handler[h].pc = "execute",
             NEW u, tool' = [tool EXCEPT ![handler[h].i] = u]
      PROVE  Final(i)
  BY <1>0, <1>7 DEF Final
<1>8. CASE UninstallIntegration
  BY <1>0, <1>8 DEF UninstallIntegration, CancelledByUninstall, Final, Terminal
<1>9. ASSUME NEW h \in Handlers, Answer(h) PROVE Final(i)
  <2>1. CASE handler[h].pc = "execute"
    <3>1. PICK t, ok : EndExecute(h, t, ok)
      BY <1>9, <2>1
         DEF Answer, InvokeFails, InvokeAnswersOtherOperation, InvokeAnswersRunning,
             InvokeAnswersResult, GetAnswersResult, GetAnswersStatus, CancelAnswers, ProviderFails
    <3> QED BY <1>7, <2>1, <3>1 DEF EndExecute
  <2>2. CASE handler[h].pc = "reconcile" /\ \E s \in {"succeeded", "failed"} : GetAnswersResult(h, s)
    <3>1. handler[h].i \in Invocations
      BY <2>2, RequestOfInvocation DEF IInv
    <3> QED BY <1>1, <1>5, <2>2, <3>1 DEF GetAnswersResult
  <2>3. CASE /\ handler[h].pc = "reconcile"
             /\ \E s \in {"running", "outcome_unknown", "cancelled"} : GetAnswersStatus(h, s)
    <3>1. handler[h].i \in Invocations
      BY <2>3, RequestOfInvocation DEF IInv
    <3>2. {"running", "outcome_unknown", "cancelled"} \subseteq Status
      BY DEF Status, Terminal
    <3> QED BY <1>1, <1>6, <2>3, <3>1, <3>2 DEF GetAnswersStatus, CanMoveTo
  <2>4. CASE handler[h].pc = "cancel" /\ CancelAnswers(h)
    <3>1. handler[h].i \in Invocations /\ CanTransition(handler[h].seen, "cancelled")
      BY <2>4, RequestOfInvocation DEF IInv, RequestsKnow
    <3>2. "cancelled" \in Status
      BY DEF Status, Terminal
    <3> QED BY <1>1, <1>6, <2>4, <3>1, <3>2 DEF CancelAnswers
  <2>5. CASE ProviderFails(h)
    BY <1>1, <2>5 DEF ProviderFails
  <2> QED BY <1>9, <2>1, <2>2, <2>3, <2>4, <2>5
          DEF Answer, InvokeFails, InvokeAnswersOtherOperation, InvokeAnswersRunning,
              InvokeAnswersResult, GetAnswersResult, GetAnswersStatus, CancelAnswers
<1>10. ASSUME NEW h \in Handlers, NEW j \in Invocations, Request(h, j) PROVE Final(i)
  <2>1. CASE ReadCatalog(h, j) \/ \E k \in Keys : BeginReconcile(h, j, k) \/ BeginCancel(h, j, k)
    BY <1>1, <2>1 DEF ReadCatalog, BeginReconcile, BeginCancel
  <2>2. CASE \E k \in Keys : BeginExecute(h, j, k)
    <3>1. "running" \in Status
      BY DEF Status
    <3> QED BY <1>6, <2>2, <3>1 DEF BeginExecute
  <2> QED BY <1>10, <2>1, <2>2 DEF Request
<1>11. ASSUME NEW j \in Invocations, NEW k \in Keys, CancelAtOnce(j, k) PROVE Final(i)
  <2>1. "cancelled" \in Status
    BY DEF Status, Terminal
  <2> QED BY <1>6, <1>11, <2>1 DEF CancelAtOnce, Cancellable
<1>12. ASSUME NEW j \in Invocations, NEW s \in {"succeeded", "failed"}, NEW id,
              PublishToolResult(j, s, id)
       PROVE  Final(i)
  BY <1>5, <1>12 DEF PublishToolResult
<1>13. CASE RunMoves \/ Evict
  BY <1>1, <1>13 DEF RunMoves, Evict
<1> QED BY <1>1, <1>2, <1>3, <1>4, <1>8, <1>9, <1>10, <1>11, <1>12, <1>13 DEF Next

\* Only a late answer of InvokeTool moves a terminal invocation
\* (tool-status.ts, tools-repository.ts).
THEOREM FinalStays == Spec => FinalUnlessInvoked
<1>1. IInv /\ [Next]_vars =>
        [\A i \in Invocations :
           /\ tool[i].status \in Terminal
           /\ ~\E h \in Handlers : handler[h].pc = "execute" /\ handler[h].i = i
           => tool'[i].status = tool[i].status]_vars
  BY FinalStep DEF Final
<1> QED BY <1>1, ToolInvariant, PTL DEF Spec, FinalUnlessInvoked

-----------------------------------------------------------------------------
(* The refinement *)

ResultOutcome == [i \in Invocations |-> IF tool[i].result = "none" THEN "open" ELSE "done"]

ResultEvents == [i \in Invocations |-> tool[i].events]

\* The row u has the result of t, or the first one with its Event.
ResultKept(t, u) == u.result = t.result /\ u.events = t.events

ResultMove(t, u) ==
  \/ ResultKept(t, u)
  \/ t.result = "none" /\ u.result # "none" /\ u.events = t.events + 1

ResultStep == [Result!Next]_<<ResultOutcome, ResultEvents>>

\* No result is written.
LEMMA ResultsKept ==
  ASSUME \A i \in Invocations : ResultKept(tool[i], tool'[i])
  PROVE  ResultStep
BY DEF ResultStep, ResultKept, ResultOutcome, ResultEvents

\* At most one result is written.
LEMMA ResultOfWrite ==
  ASSUME IInv, NEW j \in Invocations, NEW u, tool' = [tool EXCEPT ![j] = u],
         ResultMove(tool[j], u)
  PROVE  ResultStep
<1>1. tool'[j] = u /\ \A i \in Invocations \ {j} : tool'[i] = tool[i]
  BY DEF IInv, TypeOK
<1>2. CASE ResultKept(tool[j], u)
  <2>1. \A i \in Invocations : ResultKept(tool[i], tool'[i])
    BY <1>1, <1>2 DEF ResultKept
  <2> QED BY <2>1, ResultsKept
<1>3. CASE tool[j].result = "none" /\ u.result # "none" /\ u.events = tool[j].events + 1
  <2>1. ResultOutcome[j] = "open" /\ ResultEvents[j] = tool[j].events
    BY <1>3 DEF ResultOutcome, ResultEvents
  <2>2. ResultOutcome' = [ResultOutcome EXCEPT ![j] = "done"]
    BY <1>1, <1>3 DEF ResultOutcome
  <2>3. ResultEvents' = [ResultEvents EXCEPT ![j] = ResultEvents[j] + 1]
    <3>1. PICK n : n = ResultEvents[j] + 1
      OBVIOUS
    <3>2. u.events = n
      BY <1>3, <2>1, <3>1
    <3>3. \A i \in Invocations : tool'[i].events = IF i = j THEN n ELSE ResultEvents[i]
      BY <1>1, <3>2 DEF ResultEvents
    <3>4. ResultEvents' = [i \in Invocations |-> IF i = j THEN n ELSE ResultEvents[i]]
      BY <3>3 DEF ResultEvents
    <3>5. DOMAIN ResultEvents = Invocations
      BY DEF ResultEvents
    <3> QED BY <3>1, <3>4, <3>5
  <2>4. \E i \in Invocations : Result!Perform(i)
    BY <2>1, <2>2, <2>3, Zenon DEF Result!Perform, ResultOutcome, ResultEvents
  <2> QED BY <2>4, Zenon DEF ResultStep, Result!Next
<1> QED BY <1>2, <1>3 DEF ResultMove

\* An accepted result is the first one.
LEMMA AcceptedMove ==
  ASSUME NEW t \in Tools, NEW w \in Tools, ResultKept(t, w), NEW s \in {"succeeded", "failed"},
         NEW id, ResultAccepted(w, s, id)
  PROVE  ResultMove(t, WithResult(w, s))
<1>1. WithResult(w, s).result = s /\ WithResult(w, s).events = w.events + 1
  BY ResultFields
<1> QED BY <1>1 DEF ResultMove, ResultKept, ResultAccepted

\* The catch block writes no result.
LEMMA FailedMove ==
  ASSUME NEW t \in Tools
  PROVE  ResultKept(t, FailedRow(t))
<1>1. Fallback \in Ids /\ "outcome_unknown" \in Status
  BY DEF Ids, Status
<1>2. Upsert(t, Fallback) \in Tools /\ ResultKept(t, Upsert(t, Fallback))
  BY <1>1, UpsertFields DEF ResultKept
<1>3. ResultKept(t, Attached(Upsert(t, Fallback), "outcome_unknown", Fallback))
  BY <1>1, <1>2, AttachedFields DEF ResultKept
<1> QED BY <1>2, <1>3 DEF FailedRow, ResultKept

\* The answer of InvokeTool writes one row: that of its try block or that of its
\* catch block.
LEMMA ExecutedMove ==
  ASSUME IInv, NEW h \in Handlers, handler[h].pc = "execute", NEW t \in Tools, NEW ok,
         EndExecute(h, t, ok), ResultMove(tool[handler[h].i], t)
  PROVE  ResultStep
<1> DEFINE i == handler[h].i
<1>1. i \in Invocations
  BY RequestOfInvocation DEF IInv
<1>2. PICK u \in {t, FailedRow(t)} : tool' = [tool EXCEPT ![i] = u]
  BY DEF EndExecute
<1>3. ResultKept(t, FailedRow(t))
  BY FailedMove
<1>4. ResultMove(tool[i], u)
  BY <1>2, <1>3 DEF ResultMove, ResultKept
<1> HIDE DEF i
<1> QED BY <1>1, <1>2, <1>4, ResultOfWrite

\* A result that is reported writes the first result of the invocation or nothing.
LEMMA ReportedMove ==
  ASSUME IInv, NEW j \in Invocations, NEW s \in {"succeeded", "failed"}, NEW id,
         ResultAccepted(tool[j], s, id), tool' = [tool EXCEPT ![j] = WithResult(tool[j], s)]
  PROVE  ResultStep
<1>1. ResultMove(tool[j], WithResult(tool[j], s))
  BY RowOf, AcceptedMove DEF ResultKept
<1> QED BY <1>1, ResultOfWrite

\* A status is written without a result.
LEMMA StatusMove ==
  ASSUME IInv, NEW j \in Invocations, NEW s \in Status, tool' = [tool EXCEPT ![j].status = s]
  PROVE  ResultStep
<1> DEFINE u == [tool[j] EXCEPT !.status = s]
<1>1. ResultMove(tool[j], u)
  BY RowOf, StatusFields DEF ResultMove, ResultKept
<1>2. tool' = [tool EXCEPT ![j] = u]
  OBVIOUS
<1> HIDE DEF u
<1> QED BY <1>1, <1>2, ResultOfWrite

\* The answers of the Provider.
LEMMA AnswerMoves ==
  ASSUME IInv, NEW h \in Handlers, Answer(h)
  PROVE  ResultStep
<1> DEFINE i == handler[h].i
<1>0. handler[h].pc # "free" => i \in Invocations /\ tool[i] \in Tools
  BY RequestOfInvocation, RowOf DEF IInv
<1>1. CASE UNCHANGED tool
  BY <1>1, ResultsKept DEF ResultKept
<1>2. CASE \/ InvokeFails(h)
           \/ \E id \in Ids : InvokeAnswersOtherOperation(h, id)
  <2>1. handler[h].pc = "execute" /\ EndExecute(h, tool[i], FALSE)
    BY <1>2 DEF InvokeFails, InvokeAnswersOtherOperation
  <2> QED BY <1>0, <2>1, ExecutedMove DEF ResultMove, ResultKept
<1>3. ASSUME NEW id \in Ids, InvokeAnswersRunning(h, id) PROVE ResultStep
  <2> DEFINE w == Upsert(tool[i], id)
             u == Attached(w, "running", id)
  <2>1. handler[h].pc = "execute" /\ EndExecute(h, u, TRUE)
    BY <1>3 DEF InvokeAnswersRunning
  <2>2. w \in Tools /\ ResultKept(tool[i], w) /\ "running" \in Status
    BY <1>0, <2>1, UpsertFields DEF ResultKept, Status
  <2> HIDE DEF w
  <2>3. u \in Tools /\ ResultKept(w, u)
    BY <2>2, AttachedFields DEF ResultKept
  <2>4. ResultMove(tool[i], u)
    BY <2>2, <2>3 DEF ResultMove, ResultKept
  <2> HIDE DEF u, i
  <2> QED BY <2>1, <2>3, <2>4, ExecutedMove DEF i
<1>4. ASSUME NEW id \in Ids, NEW s \in {"succeeded", "failed"}, InvokeAnswersResult(h, s, id)
      PROVE  ResultStep
  <2> DEFINE w == Upsert(tool[i], id)
  <2>1. /\ handler[h].pc = "execute"
        /\ \/ ResultAccepted(w, s, id) /\ EndExecute(h, WithResult(w, s), TRUE)
           \/ EndExecute(h, w, ResultReplayed(w, s, id))
    BY <1>4 DEF InvokeAnswersResult
  <2>2. w \in Tools /\ ResultKept(tool[i], w) /\ tool[i] \in Tools
    BY <1>0, <2>1, UpsertFields DEF ResultKept
  <2> HIDE DEF w
  <2>3. CASE ResultAccepted(w, s, id) /\ EndExecute(h, WithResult(w, s), TRUE)
    <3>1. WithResult(w, s) \in Tools
      BY <2>2, ResultFields
    <3>2. ResultMove(tool[i], WithResult(w, s))
      BY <2>2, <2>3, AcceptedMove
    <3> QED BY <2>1, <2>3, <3>1, <3>2, ExecutedMove
  <2>4. CASE EndExecute(h, w, ResultReplayed(w, s, id))
    BY <2>1, <2>2, <2>4, ExecutedMove DEF ResultMove
  <2> QED BY <2>1, <2>3, <2>4
<1>5. ASSUME NEW s \in {"succeeded", "failed"}, GetAnswersResult(h, s) PROVE ResultStep
  BY <1>0, <1>1, <1>5, ReportedMove DEF GetAnswersResult
<1>6. ASSUME NEW s \in {"running", "outcome_unknown", "cancelled"}, GetAnswersStatus(h, s)
      PROVE  ResultStep
  <2>1. s \in Status
    BY DEF Status, Terminal
  <2> QED BY <1>0, <1>1, <1>6, <2>1, StatusMove DEF GetAnswersStatus
<1>7. CASE CancelAnswers(h)
  <2>1. "cancelled" \in Status
    BY DEF Status, Terminal
  <2> QED BY <1>0, <1>1, <1>7, <2>1, StatusMove DEF CancelAnswers
<1>8. CASE ProviderFails(h)
  BY <1>1, <1>8 DEF ProviderFails
<1> QED BY <1>2, <1>3, <1>4, <1>5, <1>6, <1>7, <1>8 DEF Answer

LEMMA EveryResultStep ==
  ASSUME IInv, [Next]_vars
  PROVE  ResultStep
<1>1. CASE UNCHANGED tool
  BY <1>1, ResultsKept DEF ResultKept
<1>2. ASSUME NEW h \in Handlers, CreateInvocation(h), tool' # tool PROVE ResultStep
  <2> DEFINE i == handler[h].i
  <2>1. PICK s \in Status, v \in Nat : tool' = [tool EXCEPT ![i] = Created(tool[i], s, v)]
    BY <1>2 DEF CreateInvocation, Status, IInv, TypeOK
  <2>2. i \in Invocations
    BY <1>2, RequestOfInvocation DEF CreateInvocation, IInv
  <2>3. ResultMove(tool[i], Created(tool[i], s, v))
    BY <2>2, RowOf, CreatedFields DEF ResultMove, ResultKept
  <2> QED BY <2>1, <2>2, <2>3, ResultOfWrite
<1>3. ASSUME NEW j \in Invocations, CommitToolDecision(j) PROVE ResultStep
  <2>1. PICK s \in Status : tool' = [tool EXCEPT ![j] = Created(tool[j], s, SnapshotVersion)]
    BY <1>3 DEF CommitToolDecision, Status
  <2>2. ResultMove(tool[j], Created(tool[j], s, SnapshotVersion))
    BY RowOf, CreatedFields, ToolAssumption DEF ResultMove, ResultKept
  <2> QED BY <2>1, <2>2, ResultOfWrite
<1>4. ASSUME NEW j \in Invocations, NEW d \in {"approved", "rejected"}, DecideInvocation(j, d)
      PROVE  ResultStep
  <2>1. ResultMove(tool[j], Decided(tool[j], d))
    BY RowOf, DecidedFields DEF ResultMove, ResultKept
  <2> QED BY <1>4, <2>1, ResultOfWrite DEF DecideInvocation
<1>5. ASSUME NEW j \in Invocations, NEW s \in {"succeeded", "failed"}, NEW id,
             PublishToolResult(j, s, id)
      PROVE  ResultStep
  BY <1>5, ReportedMove DEF PublishToolResult
<1>6. ASSUME NEW j \in Invocations, NEW k \in Keys, CancelAtOnce(j, k) PROVE ResultStep
  <2>1. "cancelled" \in Status
    BY DEF Status, Terminal
  <2> QED BY <1>6, <2>1, StatusMove DEF CancelAtOnce
<1>7. ASSUME NEW h \in Handlers, NEW j \in Invocations, Request(h, j) PROVE ResultStep
  <2>1. CASE ReadCatalog(h, j) \/ \E k \in Keys : BeginReconcile(h, j, k) \/ BeginCancel(h, j, k)
    BY <1>1, <2>1 DEF ReadCatalog, BeginReconcile, BeginCancel
  <2>2. CASE \E k \in Keys : BeginExecute(h, j, k)
    <3>1. "running" \in Status
      BY DEF Status
    <3> QED BY <2>2, <3>1, StatusMove DEF BeginExecute
  <2> QED BY <1>7, <2>1, <2>2 DEF Request
<1>8. CASE UninstallIntegration
  <2>1. ASSUME NEW i \in Invocations PROVE ResultKept(tool[i], tool'[i])
    <3>1. tool'[i] = CancelledByUninstall(tool[i]) /\ tool[i] \in Tools /\ "cancelled" \in Status
      BY <1>8, RowOf DEF UninstallIntegration, Status, Terminal
    <3> QED BY <3>1, StatusFields DEF CancelledByUninstall, ResultKept
  <2> QED BY <2>1, ResultsKept
<1>9. CASE RunMoves \/ Evict \/ UNCHANGED vars
  BY <1>1, <1>9 DEF RunMoves, Evict, vars
<1> QED BY <1>1, <1>2, <1>3, <1>4, <1>5, <1>6, <1>7, <1>8, <1>9, AnswerMoves DEF Next

\* The ways a result comes in implement AgentOnce: an invocation has its result
\* once, with its Event, and keeps it (results.ts).
THEOREM ResultIsOnce == Spec => ResultsOnce
<1>1. Init => Result!Init
  BY DEF Init, Result!Init, NoTool
<1>2. IInv /\ [Next]_vars => [Result!Next]_<<ResultOutcome, ResultEvents>>
  BY EveryResultStep DEF ResultStep
<1> QED BY <1>1, <1>2, ToolInvariant, PTL
        DEF Spec, ResultsOnce, Result!Spec, ResultOutcome, ResultEvents

-----------------------------------------------------------------------------
(* The generations that integrations/operations-install.ts and             *)
(* runs/scheduler.ts write.                                                *)

\* A row that was told no result, of a catalogue snapshot: they count from 1.
Plain(t) ==
  /\ t.result = "none" /\ t.status \notin {"succeeded", "failed"}
  /\ t.status # "absent" => t.version >= 1

\* No Run is told a result, and no invocation ends with one.
NoResult ==
  \A i \in Invocations :
    tool[i].result = "none" /\ tool[i].status \notin {"succeeded", "failed"}

Unanswered == definition # "available" /\ \A i \in Invocations : Plain(tool[i])

\* A result is not accepted for such a row.
LEMMA NotAccepted ==
  ASSUME DefinitionVersion = 0, NEW t \in Tools, Plain(t), NEW s \in {"succeeded", "failed"}, NEW id
  PROVE  ~ResultAccepted(t, s, id)
<1>1. CASE t.status = "absent"
  BY <1>1 DEF ResultAccepted, Acceptable, CanTransition
<1>2. CASE t.version >= 1
  BY <1>2 DEF ResultAccepted, CanResumeRun, Tools
<1> QED BY <1>1, <1>2 DEF Plain

\* A status that is no result is written in such a row that is present.
LEMMA PlainStatus ==
  ASSUME NEW t \in Tools, Plain(t), t.status # "absent",
         NEW s \in {"running", "outcome_unknown", "cancelled"}, NEW u, u = [t EXCEPT !.status = s]
  PROVE  Plain(u)
<1>1. s \in Status
  BY DEF Status, Terminal
<1> QED BY <1>1, StatusFields DEF Plain

\* The operation is no part of what is said of a row.
LEMMA PlainUpsert ==
  ASSUME NEW t \in Tools, Plain(t), NEW id \in Ids, NEW u, u = Upsert(t, id)
  PROVE  Plain(u) /\ u \in Tools /\ u.status = t.status
BY UpsertFields DEF Plain

LEMMA PlainAttached ==
  ASSUME NEW t \in Tools, Plain(t), t.status # "absent", NEW s \in {"running", "outcome_unknown"},
         NEW id \in Ids, NEW u, u = Attached(t, s, id)
  PROVE  Plain(u)
<1>1. s \in Status
  BY DEF Status
<1> QED BY <1>1, AttachedFields DEF Plain

LEMMA PlainFailed ==
  ASSUME NEW t \in Tools, Plain(t), NEW u, u = FailedRow(t)
  PROVE  Plain(u)
<1>1. Fallback \in Ids
  BY DEF Ids
<1> DEFINE w == Upsert(t, Fallback)
<1>2. Plain(w) /\ w \in Tools /\ w.status = t.status
  BY <1>1, PlainUpsert
<1>3. CASE u \in {t, w}
  BY <1>2, <1>3
<1>4. CASE t.status = "running" /\ u = Attached(w, "outcome_unknown", Fallback)
  <2> HIDE DEF w
  <2> QED BY <1>1, <1>2, <1>4, PlainAttached
<1> QED BY <1>3, <1>4 DEF FailedRow

\* One row is written.
LEMMA PlainWritten ==
  ASSUME IInv, Unanswered, NEW i \in Invocations, NEW u, Plain(u), tool' = [tool EXCEPT ![i] = u],
         definition' = definition
  PROVE  Unanswered'
<1>1. tool' \in [Invocations -> {tool[j] : j \in Invocations} \cup {u}]
  BY DEF IInv, TypeOK
<1>2. tool'[i] = u /\ \A j \in Invocations \ {i} : tool'[j] = tool[j]
  BY DEF IInv, TypeOK
<1>3. \A j \in Invocations : Plain(tool'[j])
  BY <1>2 DEF Unanswered
<1> QED BY <1>3 DEF Unanswered, Plain

LEMMA PlainKept ==
  ASSUME Unanswered, tool' = tool, definition' = definition
  PROVE  Unanswered'
BY DEF Unanswered, Plain

\* An answer to a request leaves every row without a result.
LEMMA PlainAnswer ==
  ASSUME DefinitionVersion = 0, IInv, Unanswered, NEW h \in Handlers, Answer(h)
  PROVE  Unanswered'
<1> DEFINE i == handler[h].i
           t == tool[i]
<1>1. i \in Invocations /\ t \in Tools /\ Plain(t) /\ handler[h].pc # "free"
  <2>1. handler[h].pc # "free"
    BY DEF Answer, InvokeFails, InvokeAnswersOtherOperation, InvokeAnswersRunning,
           InvokeAnswersResult, GetAnswersResult, GetAnswersStatus, CancelAnswers, ProviderFails
  <2>2. i \in Invocations
    BY <2>1, RequestOfInvocation DEF IInv
  <2> QED BY <2>1, <2>2, RowOf DEF Unanswered
<1>2. definition' = definition
  BY DEF Answer, InvokeFails, InvokeAnswersOtherOperation, InvokeAnswersRunning, EndExecute,
         InvokeAnswersResult, GetAnswersResult, GetAnswersStatus, CancelAnswers, ProviderFails
<1>3. ASSUME NEW w \in Tools, Plain(w), NEW ok, EndExecute(h, w, ok)
      PROVE  Unanswered'
  <2>1. PICK u \in {w, FailedRow(w)} : tool' = [tool EXCEPT ![i] = u]
    BY <1>3 DEF EndExecute
  <2>2. Plain(u)
    BY <1>3, PlainFailed
  <2> HIDE DEF i
  <2> QED BY <1>1, <1>2, <2>1, <2>2, PlainWritten
<1>4. ASSUME handler[h].pc = "execute"
      PROVE  i \in called /\ t.status # "absent"
  BY <1>1, <1>4, RowOf DEF IInv, RequestsKnow, CalledRow
<1>5. ASSUME NEW id \in Ids
      PROVE  LET w == Upsert(t, id) IN w \in Tools /\ Plain(w) /\ w.status = t.status
  BY <1>1, PlainUpsert
<1>6. CASE InvokeFails(h) \/ \E id \in Ids : InvokeAnswersOtherOperation(h, id)
  BY <1>1, <1>3, <1>6 DEF InvokeFails, InvokeAnswersOtherOperation
<1>7. ASSUME NEW id \in Ids, InvokeAnswersRunning(h, id)
      PROVE  Unanswered'
  <2> DEFINE w == Upsert(t, id)
             u == Attached(w, "running", id)
  <2>1. w \in Tools /\ Plain(w) /\ w.status # "absent"
    BY <1>4, <1>5, <1>7 DEF InvokeAnswersRunning
  <2>2. u \in Tools /\ Plain(u)
    <3>1. "running" \in Status
      BY DEF Status
    <3> HIDE DEF w
    <3> QED BY <2>1, <3>1, PlainAttached, AttachedFields
  <2>3. EndExecute(h, u, TRUE)
    BY <1>7 DEF InvokeAnswersRunning
  <2> HIDE DEF u
  <2> QED BY <1>3, <2>2, <2>3
<1>8. ASSUME NEW id \in Ids, NEW s \in {"succeeded", "failed"}, InvokeAnswersResult(h, s, id)
      PROVE  Unanswered'
  <2> DEFINE w == Upsert(t, id)
  <2>1. w \in Tools /\ Plain(w)
    BY <1>5
  <2>2. ~ResultAccepted(w, s, id)
    <3> HIDE DEF w
    <3> QED BY <2>1, NotAccepted
  <2>3. EndExecute(h, w, ResultReplayed(w, s, id))
    BY <1>8, <2>2 DEF InvokeAnswersResult
  <2> HIDE DEF w
  <2> QED BY <1>3, <2>1, <2>3
<1>9. ASSUME NEW s \in {"succeeded", "failed"}, GetAnswersResult(h, s)
      PROVE  Unanswered'
  <2>1. ~ResultAccepted(t, s, t.operation)
    BY <1>1, NotAccepted
  <2> QED BY <1>2, <1>9, <2>1, PlainKept DEF GetAnswersResult
<1>10. ASSUME NEW s \in {"running", "outcome_unknown", "cancelled"}, CanTransition(t.status, s),
              tool' = [tool EXCEPT ![i].status = s]
       PROVE  Unanswered'
  <2> DEFINE u == [t EXCEPT !.status = s]
  <2>1. t.status # "absent"
    BY <1>10 DEF CanTransition
  <2>2. Plain(u)
    BY <1>1, <2>1, PlainStatus
  <2>3. tool' = [tool EXCEPT ![i] = u]
    BY <1>10
  <2> HIDE DEF u, i
  <2> QED BY <1>1, <1>2, <2>2, <2>3, PlainWritten
<1>11. ASSUME NEW s \in {"running", "outcome_unknown", "cancelled"}, GetAnswersStatus(h, s)
       PROVE  Unanswered'
  BY <1>2, <1>10, <1>11, PlainKept DEF GetAnswersStatus, CanMoveTo
<1>12. CASE CancelAnswers(h)
  <2>1. CanTransition(handler[h].seen, "cancelled")
    BY <1>12 DEF CancelAnswers, IInv, RequestsKnow
  <2> QED BY <1>2, <1>10, <1>12, <2>1, PlainKept DEF CancelAnswers
<1>13. CASE ProviderFails(h)
  BY <1>2, <1>13, PlainKept DEF ProviderFails
<1> QED BY <1>6, <1>7, <1>8, <1>9, <1>11, <1>12, <1>13 DEF Answer

LEMMA PlainStep ==
  ASSUME DefinitionVersion = 0, IInv, Unanswered, [Next]_vars
  PROVE  Unanswered'
<1>0. ASSUME NEW i \in Invocations
      PROVE  tool[i] \in Tools /\ Plain(tool[i])
  BY RowOf DEF Unanswered
<1>1. ASSUME NEW h \in Handlers, CreateInvocation(h) PROVE Unanswered'
  <2> DEFINE i == handler[h].i
             s == IF i \in ApprovalRequired THEN "pending_approval" ELSE "approved"
             u == Created(tool[i], s, version + 1)
  <2>1. i \in Invocations /\ version + 1 \in Nat /\ version + 1 >= 1 /\ s \in Status
    BY <1>1, RequestOfInvocation DEF CreateInvocation, IInv, TypeOK, Status
  <2>2. Plain(u)
    <3> HIDE DEF i
    <3> QED BY <1>0, <2>1, CreatedFields DEF Plain
  <2>3. (tool' = [tool EXCEPT ![i] = u] \/ tool' = tool) /\ definition' = definition
    BY <1>1 DEF CreateInvocation
  <2> HIDE DEF u, i
  <2> QED BY <2>1, <2>2, <2>3, PlainWritten, PlainKept
<1>2. ASSUME NEW h \in Handlers, Answer(h) PROVE Unanswered'
  BY <1>2, PlainAnswer
<1>3. ASSUME NEW h \in Handlers, NEW i \in Invocations, Request(h, i) PROVE Unanswered'
  <2>1. CASE ReadCatalog(h, i) \/ \E k \in Keys : BeginReconcile(h, i, k) \/ BeginCancel(h, i, k)
    BY <2>1, PlainKept DEF ReadCatalog, BeginReconcile, BeginCancel
  <2>2. ASSUME NEW k \in Keys, BeginExecute(h, i, k) PROVE Unanswered'
    <3> DEFINE u == [tool[i] EXCEPT !.status = "running"]
    <3>1. tool[i].status # "absent"
      BY <2>2 DEF BeginExecute, CanTransition
    <3>2. Plain(u)
      BY <1>0, <3>1, PlainStatus
    <3>3. tool' = [tool EXCEPT ![i] = u] /\ definition' = definition
      BY <2>2 DEF BeginExecute
    <3> HIDE DEF u
    <3> QED BY <3>2, <3>3, PlainWritten
  <2> QED BY <1>3, <2>1, <2>2 DEF Request
<1>4. ASSUME NEW i \in Invocations, CommitToolDecision(i) PROVE Unanswered'
  BY <1>4 DEF CommitToolDecision, Unanswered
<1>5. ASSUME NEW i \in Invocations, NEW d \in {"approved", "rejected"}, DecideInvocation(i, d)
      PROVE  Unanswered'
  <2> DEFINE u == Decided(tool[i], d)
  <2>1. Plain(u)
    BY <1>0, <1>5, DecidedFields DEF Plain, DecideInvocation, StatusAfterDecision
  <2>2. tool' = [tool EXCEPT ![i] = u] /\ definition' = definition
    BY <1>5 DEF DecideInvocation
  <2> HIDE DEF u
  <2> QED BY <2>1, <2>2, PlainWritten
<1>6. ASSUME NEW i \in Invocations, NEW s \in {"succeeded", "failed"}, NEW id,
             PublishToolResult(i, s, id)
      PROVE  Unanswered'
  BY <1>0, <1>6, NotAccepted DEF PublishToolResult
<1>7. ASSUME NEW i \in Invocations, NEW k \in Keys, CancelAtOnce(i, k) PROVE Unanswered'
  <2> DEFINE u == [tool[i] EXCEPT !.status = "cancelled"]
  <2>1. tool[i].status # "absent"
    BY <1>7 DEF CancelAtOnce, Cancellable, CanTransition
  <2>2. Plain(u)
    BY <1>0, <2>1, PlainStatus
  <2>3. tool' = [tool EXCEPT ![i] = u] /\ definition' = definition
    BY <1>7 DEF CancelAtOnce
  <2> HIDE DEF u
  <2> QED BY <2>2, <2>3, PlainWritten
<1>8. CASE UninstallIntegration
  <2>1. ASSUME NEW i \in Invocations
        PROVE  Plain(CancelledByUninstall(tool[i]))
    <3>1. CASE /\ tool[i].status \in {"approved", "pending_approval", "running"}
               /\ CancelledByUninstall(tool[i]) = [tool[i] EXCEPT !.status = "cancelled"]
      BY <1>0, <3>1, PlainStatus
    <3>2. CASE CancelledByUninstall(tool[i]) = tool[i]
      BY <1>0, <3>2
    <3> QED BY <3>1, <3>2 DEF CancelledByUninstall
  <2>2. \A i \in Invocations : tool'[i] = CancelledByUninstall(tool[i])
    BY <1>8 DEF UninstallIntegration
  <2> QED BY <1>8, <2>1, <2>2 DEF Unanswered, Plain, UninstallIntegration
<1>9. CASE RunMoves \/ Evict \/ UNCHANGED vars
  BY <1>9, PlainKept DEF RunMoves, Evict, vars
<1> QED BY <1>1, <1>2, <1>3, <1>4, <1>5, <1>6, <1>7, <1>8, <1>9 DEF Next

\* Definitions are installed "active" with generation 0, invocations are created
\* with generations from 1: the generations never agree, and every result that
\* any Provider sends is refused (operation-guards.ts, commands.ts).
THEOREM NoResultAsInstalled ==
  ASSUME DefinitionStatuses = {"active"}, DefinitionVersion = 0
  PROVE  Spec => []NoResult
<1>1. Init => Unanswered
  BY DEF Init, Unanswered, NoTool, Plain
<1>2. IInv /\ Unanswered /\ [Next]_vars => Unanswered'
  BY PlainStep
<1>3. Unanswered => NoResult
  BY DEF Unanswered, Plain, NoResult
<1> QED BY <1>1, <1>2, <1>3, ToolInvariant, PTL DEF Spec
=============================================================================
