# TLA+ models of the TAMAC Agent

TAMAC runs each AI agent as one Cloudflare Durable Object (`packages/agent`), managed by a
Next.js client (`packages/client`) and called through an SDK (`packages/sdk`).  These modules
model the parts of the system whose correctness depends on interleaving, failure and order.
Paths below are relative to `src/`; `agent/` abbreviates `packages/agent/src/`.

## 1. Inventory

An Agent's rows live in the SQLite storage of its Durable Object.  The object runs
JavaScript handlers one at a time, but every `await` lets another handler in: between the
check before an await and the write after it, any other operation may happen.

| Component | State | Operations | Interacts with | What is hard | What makes it correct |
|---|---|---|---|---|---|
| Event mailbox and Threads (`agent/events`, `agent/threads`) | Events per Thread with sequences, Sections, Thread last-served time | publish, foundation accept, append by Tools, Deliveries and decisions, seal, query | gives each Event a pending Run, requests a wake | coalescing while a Run runs or waits | no accepted Event is lost; sequences are dense |
| Run scheduler and execution (`agent/runs`, `durable-object/pending-runs.ts`, `scheduler-wake.ts`) | Runs, input snapshots, invocations, interrupts, one wake row, queue rows | batch, start, invoke, commit, fail, cancel, resume | calls the model, commits decisions into all other parts | two awaits, lost wakes, eviction, resume | one active Run, no lost wake, nothing stale commits |
| Commit guard and harness (`agent/harness`) | none of its own | context, budget, parse, guard | reads config, policy, lifecycle, interrupts | results that return late | commits only under the generation the Run started with |
| Model policies and AgentConfig (`agent/domain`) | policy versions, config versions | upsert, archive, update | resolved when a Run starts | replaced during a Run | a Run uses the policy its snapshot names |
| Tools (`agent/tools`) | definitions, catalog versions, invocations, approvals, Provider operations, result Events | create, approve, reject, execute, reconcile, cancel, publish result | awaits the Provider; resumes the waiting Run | status checked before and written after an await | an invocation ends once, a result is recorded once |
| Schedules (`agent/schedules`) | schedules, fires, runtime alarms | create, fire, cancel, clean up, query | fires append Events | duplicate alarms, cancel against fire, overlap | a slot fires once; cancelled schedules do not fire |
| Integrations and Connections (`agent/integrations`) | definitions, installations, connections, ingress keys, Delivery ledger | install, connect, uninstall, ingress, publish and update Deliveries | awaits Providers; Delivery results resume Runs | late, repeated, stale callbacks | a result moves its Run at most once |
| Command ledger (`agent/domain/agent-operation-utils.ts`) | idempotency rows, nonces, audit rows | check, reserve, complete, fail | every mutating command | a crash between its steps | a retried command has one effect and one answer |
| Compaction and memory (`agent/compactions`) | Compactions, history index, memory, archive | begin, transition, rebase | snapshots read the latest ready one; nothing in the program writes one (section 7) | - | - |
| Lifecycle and principals (`agent/domain/lifecycle-operations.ts`, `domain/security`) | profile, credentials, trust, config | initialize, rotate, destroy, authenticate | the client's registration saga | retried initialization | one owner, one initialization |
| Client registration (`packages/client/src/server`) | managed agents, attempts, keys, credentials in D1 | register, retry, destroy, rotate | calls the Agent over RPC | late and lost calls, D1 failing, two operators on one ID | the ledger follows the Agent; what the operator was told stays true |
| Client signing keys (`packages/client/src/server/db/signing-keys.ts`) | keys with status, default flag and ciphertext; the key an Agent names | generate, disable, delete, activate, make default, assign, sign | registration and every call to an Agent read them | each SQL statement is atomic, the server action around it is not | a deleted key never signs; what an Agent names can sign; one default |
| RPC transport, storage engine, adapters, observability, Workers AI provider, SDK, user interface, generated code, scripts | - | - | - | pure translation, I/O or build | not modelled, see PROJECT.json |

## 2. Plan

1. **Core (done)**: `AgentRunScheduler` with the abstract `AgentRunSlot`, its runs, its inductive
   invariant and the refinement proof.
2. **`AgentSchedules` (done)**: creation, alarms, firing, overlap, cancellation, with its inductive
   invariant.
3. **`AgentRegistration` (done)**: the client's saga against the Agent's lifecycle, with its inductive
   invariant.
4. **`AgentToolInvocations` (done)**: invocations against Provider operations, with its inductive invariant.
5. **`AgentDeliveries` (done)**: an Integration's Events, DeliveryContexts, Deliveries and results, with its
   inductive invariant.
6. **`ClientSigningKeys` (done)**: the Client's key ring under concurrent server actions, with its inductive
   invariant.
7. **`AgentOnce` (done)**: what the Agent promises of requests it records by a key, implemented by four components.
8. **What bounds the disagreements (done)**: for each property the code breaks, a theorem under the weakest
   assumption found, or one that says how far the break can go.

A module of the command ledger alone is not worth having: most commands never await, and in those that do the
ledger is part of the handler's own rows.  Its hard part, reservation and record around an await, is in
`AgentDeliveries` (`PublishEvent`, `PublishDeliveryResult`), `AgentToolInvocations` and `AgentSchedules`.
Compaction is left out because no code of the program starts one (section 7).

Modules share no variables.  Where one component acts on another, the module of each has the action: an
uninstallation is in Schedules, Tools and Deliveries, a Run's end in all that wait for it, and the scheduler has
the Delivery results that resume a Run.

## 3. Modules

### AgentRunScheduler

One AIAgent.  A handler that never awaits is one action; `processPendingRuns` awaits the digest of its
prompt and the model and is split there, so `worker[w].pc` is `"digest"` or `"model"` while the callback
is suspended and every other operation may run in between.

| Module | Code |
|---|---|
| `events`, `trigger`, `AppendEventToThread`, `UpsertPendingRun` | `agent/events/mailbox.ts`, `pending-runs-repository.ts` |
| `PublishEvent`, `AcceptFoundationEvent` | `events/operations-publish.ts`, `AIAgent.foundation-events.ts` |
| `wake`, `queued`, `RequestSchedulerWake`, `EnqueueSchedulerWake` | `durable-object/scheduler-wake.ts` and the queue of the agents package |
| `BatchIdle`, `BatchActiveBlocked`, `BatchStartRun`, `BatchInvalidPolicy` | `runs/scheduler.ts`, up to the first await |
| `snapshot`, `CreateSnapshot`, `ResolveModelPolicy` | `createImmutableRunSnapshot`, `resolveRunModelPolicy` |
| `StartInvocation`, `StartInvocationConflict` | `runs/execution.ts`, the invocation row and the model call |
| `FailRun`, `DiscardStaleResult`, `CommitModelOutput`, `FinishBatch` | what follows the model's answer, `harness/commit-guard.ts`, `runs/decision-commit.ts`, the end of `durable-object/pending-runs.ts` |
| `CancelRun`, `DeliveryResume`, `DeliveryTerminalFailure`, `DeliveryFollowUp`, `UpdateConfig`, `UpsertModelPolicy`, `ArchiveModelPolicy`, `DestroyAgent` | the operations that race the callback |
| `Evict` | the platform: callbacks in flight are lost, storage and queue rows stay |

What is abstracted: `maxRuns` is 1 in the only caller; every Run has priority 0; clock readings are
distinct, so `starts` is the clock; a Run has one Delivery; the wake state `running` is written
and replaced inside one synchronous step and is never observed; the decisions that write only local rows
(`update_state`, `write_memory`, `create_schedule`) are one kind; `invoke_tool` needs a definition of status
`available`, which no code writes, and belongs to the Tools module.  `PublishEvent` checks the lifecycle and the override
policy, awaits the Event's payload and appends without a second check: it is one action at the append, whose guard is
only what held at some earlier time (a policy that was written, whatever it and the lifecycle are now); its reservation
and its await are actions of `AgentDeliveries`.

External: the queue of the agents package.  Its source is not in the repository; from its use, a row is
delivered at least once, stays while its callback runs, and a callback that throws may be retried.

### AgentRunSlot

The abstract specification: each Run is `none`, `queued`, `active`, `parked` or `ended`, and at most one is
active.  A queued Run enters the free slot, an active one leaves it, a parked one is queued again; an ended Run
never comes back.  `SlotSpec` in the scheduler module is this specification under the mapping `PhaseOf`.

### AgentOnce

The abstract specification of a request that is recorded by a key: its decision is `open`, then once and for all
`done`, in the same step as its effect, or `refused`.  Deliveries, retries and evictions do not exist in it.

| Implemented by | Key | Decision | Effect |
|---|---|---|---|
| `PublishedOnce` (`AgentDeliveries`) | an Event's idempotency key | the row of the command ledger | the Events under the key |
| `AppliedOnce` (`AgentDeliveries`) | a Provider callback | what became of it | how often it changed a Delivery |
| `ResultsOnce` (`AgentToolInvocations`) | an invocation | its result row | its result Events |
| `TicksOnce` (`AgentSchedules`) | a Schedule and a tick | the fire row | the `schedule.triggered` Events |

### AgentSchedules

The Schedules of one AIAgent.  A handler that awaits the Agents SDK is a record of `handler`: `"register"` and
`"bind"` are the two halves of `createAndRegisterAgentSchedule` around its await, `"unregister"` holds the
alarms `CancelSchedule`, an Integration cleanup or a failed bind still has to cancel.  Meanwhile the alarm may
fire, the same command may be retried, and the Schedule may be cancelled.

| Module | Code |
|---|---|
| `row`, `fire`, `appended` | `agent_schedules`, `agent_schedule_fires`, the `schedule.triggered` Events |
| `ledger`, `answer` | the idempotency records of CreateSchedule and CancelSchedule |
| `CreateSchedule`, `ResumeCreate`, `ResumeBoundCreate` | `schedules/operations-create.ts`: new command, retry without a bound alarm, retry with one |
| `RegisterRuntime`, `BindRuntime`, `BindRuntimeFails`, `RuntimeFails` | `durable-object/runtime-schedule.ts` and what follows its await |
| `FireSchedule` and its branches | `schedules/firing.ts`, `schedules/overlap.ts`, `recordFire`, `updateAfterFire` |
| `CancelSchedule`, `ReplayCancelSchedule`, `CleanupSchedulesForInstallation`, `UninstallIntegration`, `CancelRuntime` | `schedules/operations-cancel.ts`, `durable-object/schedule-handlers.ts`, `integrations/operations-uninstall.ts` |
| `CommitScheduleDecision` | the `create_schedule` decision of a Run, which registers no alarm |
| `alarm`, `alarms` | the SDK's alarms, external |

What is abstracted: time is counted in intervals, so a tick is an interval and `createScheduleTick` of an interval
Schedule is the clock; parsing and authorization decide only whether a command is accepted; the Run of the last
Event is active until `EndRun`; wakes are the scheduler's.  The time that binding writes into a one-shot's
row is the SDK's and is any tick: the row's tick identity depends on it, and the properties hold whatever it is.
External, from its use: registration with the idempotent option returns the live alarm of a Schedule;
an interval's alarm stays, a one-shot's goes when its callback has returned; an eviction repeats a callback.

### AgentRegistration

One Agent ID, under which each Worker may have an Agent: the row names the Worker's origin, an edit may change it
while an attempt is unsettled, and every call reads it anew (`AgentRpcOrigin`), so `GetAgent` may ask another Worker
than `InitializeAgent` was sent to.  A server action of the Client awaits D1 and an Agent in turn; each of its awaits
ends an action
and `request[r].pc` says what it awaits or has learnt.  An attempt is a number and stands for its idempotency key
and request digest, which are drawn anew for each; a display name stands for the profile and the model policy that
`GetAgent` is compared with.

| Module | Code (`client/` abbreviates `packages/client/src/server/`) |
|---|---|
| `row`, `InsertAttempt`, `CanMarkActive`, `CanMarkReconciliation`, `CanCleanup`, `AlreadyAbsent` | `client_managed_agents` and the statements of `client/db/managed-agent-registration-attempts.ts` |
| `agent`, `InitializeInStore`, `IsNotFound`, `UpdateConfig`, `DestroyAgent` | `agent/domain/lifecycle-operations.ts` |
| `SubmitRegistration`, `CreateAttempt`, `CreateRefused`, `CreateFails` | `client/actions/managed-agents.ts`: the check, the insert |
| `SendInitialize`, `InitializeAgent`, `InitializeLost`, `GiveUpInitialize` | `initializeAndReconcileAttempt` |
| `ReconcileRegistration`, `SendGetAgent`, `GetAgent`, `MarkActive`, `Cleanup`, `KeepReconciliationRequired` and their failures | `reconcileAttempt`, `keepReconciliationRequired` |
| `AgentRpcOrigin`, `LoadClientsFails` | `loadAgentRpcClients` in `client/agent-rpc/agent-loader.ts` |
| `EditRegistration`, `RegisterManagedAgent`, `DeleteManagedAgent` | the other writers of the row in `client/db`: name and origin, whatever the state |
| `LateInitialize`, `Crash` | the network and the Workers platform, external |
| `answers`, `sentTo`, `deleted`, `overdue`, `astray`, `unrecorded` | history: what the operator was told, where InitializeAgent was sent, what an operator deleted, which calls were given up on their way, of which attempts a Worker they were not sent to said not_found, which were left `initializing` by an observation D1 refused |

What is abstracted: cleanup's DELETE and the SELECT that follows when nothing was deleted are one action.  The two
take effect at the SELECT: a row of the attempt that the DELETE left alone is active, or absent for good, as a row of
an attempt is inserted once.  The direct answer of `InitializeAgent` is compared
before `GetAgent` is asked; when it does not match, the attempt is unsettled at once, which the module has as a
`GetAgent` that could not be sent.  An error other than `not_found` is one error.  Faults come in three kinds,
switched by `Faults`: `"late"`, `"write"` (before or after D1 has written) and `"crash"`.

### AgentToolInvocations

The ToolInvocations of one Run.  `tool[i]` joins the rows of an invocation in `agent_tool_invocations`,
`agent_tool_approvals`, `agent_provider_operations` and `agent_tool_results`, and counts its result Events.  Four
commands await and are records of `handler`: `"create"` (the digest of the catalogue), `"execute"`, `"reconcile"`
and `"cancel"` (the Provider); `seen` is the status read before the await.

| Module | Code |
|---|---|
| `ReadCatalog`, `CreateInvocation`, `DecideInvocation`, `CancelAtOnce` | `agent/tools/commands.ts` and the catalogue snapshot it persists |
| `CommitToolDecision` | the `invoke_tool` decision in `runs/decision-commit.ts` |
| `BeginExecute`, `InvokeAnswers...`, `InvokeFails`, `EndExecute`, `FailedRow` | `tools/provider-operations.ts`: the call, what its try block writes, what its catch block writes; `operation-provider.ts` |
| `BeginReconcile`, `GetAnswers...`, `BeginCancel`, `CancelAnswers`, `ProviderFails` | `ReconcileInvocation` and `CancelInvocation` |
| `CanTransition`, `SameOperation`, `CanResumeRun`, `BelongsTo` | `tools/tool-status.ts`, `operation-guards.ts` |
| `PublishToolResult`, `WithResult` | `tools/results.ts`, the ingress callback |
| `UninstallIntegration` | `integrations/operations-uninstall.ts` for Tools |
| `RunMoves`, `Evict` | the Run around the invocation; the platform |

What is abstracted: a result is only `succeeded` or `failed`; the status an operation row keeps is read only in place
of one the Provider left out, which may be any; the fallback operation id is one value per invocation; queries,
the attempt counter, rows of outgoing requests and audit rows are left out.  The Run is `pending` (or
running), `waiting` or `over`.  The generations a definition and a snapshot carry are constants, because what
they are decides whether a result can ever be accepted (section 6).

### AgentDeliveries

One Installation of an Integration with its Connections, the Events it publishes, the DeliveryContexts they are
answered in, the Deliveries of the answers and the results the Provider reports.  Handlers that await are
records of `handler`: `"verify"` and `"blob"` are the two awaits of `PublishEvent`, `"callback"` that of
`PublishDeliveryResult`, `"deliver"` that of a Delivery.

| Module | Code |
|---|---|
| `InstallIntegration`, `CreateAdapterConnection`, `DeleteAdapterConnection`, `UninstallIntegration` | `agent/integrations/operations-install.ts`, `operations-connections.ts`, `operations-uninstall.ts` |
| `ReceiveEvent`, `ReserveEvent`, `ReplayEvent`, `AppendEvent`, `EventFails` | `integrations/operations-ingress.ts`, `events/operations-publish.ts`: trust key, reservation, blob, append and record |
| `ledger`, `events` | the idempotency rows of PublishEvent, the Events under each key |
| `CreatesContext`, `context` | DeliveryContexts |
| `CommitDeliveryDecision` | the `respond` decisions of a Run in `runs/decision-commit.ts` |
| `BeginDeliver`, `ProviderAnswers`, `ProviderFails` | `deliverToIntegrationProvider` in `operations-delivery.ts` |
| `ReceiveCallback`, `Bound`, `Classify`, `Resume`, `TerminalFailure`, `FollowUpEvent`, `StaleCallback` | `PublishDeliveryResult`, `requireDeliveryResultBinding`, `delivery-classification.ts` |
| `EndRun`, `Evict` | the Runs that answer; the platform |

What is abstracted: one status stands for each class `classifyDeliveryResult` tells apart; a Run that is `live` is
pending or running; a Run waits for Deliveries only; nonces, grants and signatures only refuse.  The manifest that
an installation awaits is checked again in its transaction, so an installation is one action.
The return of an async function lets nobody in before its caller goes on, so the append, the record of the command and
the new context are one action.

### ClientSigningKeys

The Client's key ring and the key each Agent of its ledger names.  Every SQL statement of D1 is atomic; a server
action is a sequence of them, and `request[r].pc` says which statement comes next.

| Module (`client/` as above) | Code |
|---|---|
| `GenerateKey`, `ReadForStatus`, `WriteStatus`, `RemoveKey`, `CanInvalidate` | `createSigningKey`, `updateSigningKeyStatus`, `deleteSigningKey`, `createInvalidatableSigningKeyCondition` in `client/db/signing-keys.ts` |
| `ReadForDefault`, `ClearDefault`, `WriteDefault` | `setDefaultSigningKey` |
| `ReadForRegistration`, `InsertAgent` | the default read by `submitRegistration`, the insert of `createRegistrationAttempt` |
| `SaveSigningKey`, `RegisterManagedAgent`, `DeleteManagedAgent` | the other writers of the row, `client/db/managed-agents.ts` |
| `ReadAgent`, `ReadKey`, `CanSign`, `LoadRegistrationClients`, `EndCall` | `client/agent-rpc/agent-loader.ts` and a call made with what it returns |
| `BreakOff` | the Worker ends, or D1 refuses the next statement |
| `revoked`, `stale`, `chosen` | history: keys ever deleted, Agents inserted with a key that was no longer active, whether a default was set and no change of it broke off |

What is abstracted: a key stands for its issuer, key ID and fingerprint; the reads before the DELETE and before the
UPDATE that assigns a key decide nothing the statement does not decide again, so each of the two is one action.
The times of last use and last verification, the export of the trust configuration and the cryptography are left
out.

## 4. Runs

| Run | Instance | What it shows |
|---|---|---|
| `sched_all` | one Thread, two callbacks at once, 2 Runs, 3 Events, two config and policy versions, every output kind, a failed `queue()`, evictions, 1,264,194 states | every safety property that needs no assumption about the queue, what becomes of every Event (in a snapshot, awaited by a pending Run, swallowed by a resumed one, or dropped with a cancelled one), and the refinement |
| `sched_wake` | two Threads, 3 Runs, 2 Events each, two policies, an override, local outputs | the wake protocol: one row, never lost, every Event in a snapshot, or awaited by a pending Run or dropped with one cancelled before it started; every pending Run is served, every active Run gives the slot back |
| `sched_terminal` | smallest instance that shows it | a sentence of the repository's specifications the code does not satisfy (section 6) |
| `schedules_all` | one Schedule of any kind and policy, 3 ticks, 2 alarms, two requests at once, evictions | a tick is decided once, one-shots, the queue, the answer and the alarm, cancellation |
| `schedules_bind` | the same with one request at a time, and binds that storage refuses | an answered creation has its alarm, although a compensation took the one before away |
| `schedules_queue` | one interval Schedule with queue-next, 4 ticks | a queued tick that is never served (section 6) |
| `registration_all` | one Agent ID, 2 Workers, 2 server actions at once, one name, 2 attempts, every fault, 2,463,218 states | ledger, Agent and operator agree, whatever is lost, late, refused or repeated |
| `registration_late` | one server action, one fault | a promise that one late call breaks (section 6) |
| `tools_all` | one invocation that needs an approval, two requests, two keys, a Provider's operation id and the fallback, evictions, 915,960 states | a result is recorded once and is the status, the Provider is not asked early, an unknown outcome can be reconciled |
| `deliveries_all` | one key with two requests, two callbacks, contexts, Runs and Deliveries, one Connection and operation, evictions, 688,905 states | an Event is published once, a callback counts once, waiting Runs can be resumed, nothing moves after the uninstallation |
| `keys_all` | two keys, two Agents, two server actions that break off anywhere, 109,072 states | assigned keys stay usable, one default, deleted keys sign nothing |
| `keys_deleted` | one key, one Agent, two server actions | a deleted key that comes back (section 6) |

Bounds.  In `sched_all` two Runs on one Thread are one that is resumed, cancelled or finished and one that is pending
beside it, three Events let a resumed Run swallow one that its own window and the other Run's miss, and two
callbacks race for the slot; `sched_wake` has three Runs, so that one is left when a second starts.  Two versions of
config and policy are enough for a stale generation; one failed `queue()` is enough to strand a wake.  The proofs hold
for any number of each.
`MaxRuns`, `MaxEvents`, `MaxConfig`, `MaxVersion` and `MaxLost` cap counters in the guards only;
deadlock checking is off because a system in which every bound is used up stops.

One Schedule is enough for `schedules_all`: Schedules share no state but the rows one cleanup writes at once, and
the proofs hold for any number.  Three ticks allow a queued tick, a repeated one and a later one; two alarms are
what a retry after a one-shot has fired needs; two requests give every race of a retry with another retry
or with a cancellation.

Two server actions give every race of two registrations, two checks, or a check with a deletion; a second attempt is
what a registration after a cleanup or a deletion is; two Workers are what an edit of the origin needs.  With one name
a rename is not seen: it only makes a comparison fail, as `GetAgentFails` does, and the proofs hold for any names.
Larger by hand: two names and one attempt, 125,295 states.  The server actions and the Workers are symmetry sets.

One invocation gives every race of `tools_all`, as invocations share only the Run and the catalogue; two requests
are two executions, or one against a reconciliation or cancellation, beside the callbacks, which never await.  The
definitions carry the generation that the test S007 of `agent-stage6-tools.test.ts` gives them, as with the
installed one no result is accepted at all (section 6).  Larger by hand: two invocations, one key and one request,
913,716 states.

One key with two requests gives `deliveries_all` every race of a retry; two Deliveries of two Runs are
what a Run with one closed and one open Delivery needs.  Larger by hand: two keys, one callback, two of everything
else, 4,440,903 states; two keys, two callbacks, one Delivery, 323,569 states.  In `keys_all` two keys are a default
and its successor; by hand, three keys gave 1,064,914 states.  All of these were explored to the
end without an error, with symmetry of the identifiers no step tells apart.  Deadlock is checked in the two runs about keys.

The type invariants of all modules but the scheduler are proved, not run, as are `OneEventPerTick`,
`LedgerMatchesEvents`, `OneEffectPerCallback` and `OneResultEvent`: what they say, the refinements of `AgentOnce` that
are run imply.

Fairness.  `FairSpec` has weak fairness of each callback and nothing else: the SDK's queue runs its rows
unasked, and the model provider (`agent/model-provider-workers-ai.ts`) turns every failure into a result and
never throws.  Publishers, Delivery providers and operators owe nothing.  In `AgentSchedules` the alarms are
delivered, time passes and Runs end; a callback that is repeated for ever is not assumed away, only one that
returns must come.  Callers never have to retry.
`AgentToolInvocations`, `AgentDeliveries`, `AgentRegistration` and `ClientSigningKeys` state no fairness: their
requests come from Providers, operators and the network, which owe nothing.

## 5. Proofs

`AgentRunSchedulerProofs` proves, for every value of the constants allowed by `SchedulerAssumption`
(any Threads, policies, outputs, workers, with and without evictions and failed `queue()` calls):

| Theorem | Statement |
|---|---|
| `TypeCorrect` | `Spec => []TypeOK` |
| `ExclusiveSlot` | `Spec => []SingleActiveRun` |
| `OneModelCall` | `Spec => []ModelCalledOnce` |
| `RunCommitsOnce` | `Spec => CommitsOnce` |
| `InterruptedCommitsNothing` | `Spec => NoCommitAfterInterrupt` |
| `CommitIsCurrent` | `Spec => CommitsCurrentGeneration` |
| `TerminalIsKept` | `Spec => TerminalUnlessCalled` |
| `OnlyCancelFreesTheSlot` | `Spec => OrphanIsCancelled` |

and `ImplementsSlot`, `Spec => SlotSpec`.

The inductive invariant is

    IInv == TypeOK /\ RunRows /\ CallbackOwnsRun /\ CallsAreRecorded
            /\ CommitFollowsCall /\ SingleActiveRun

`SingleActiveRun` alone is not inductive: `FailRun` writes `failed` over any status, so it needs that a
callback's Run exists (`CallbackOwnsRun`), and a Run that does not exist has no row (`RunRows`).
`ModelCalledOnce` needs that a call leaves an invocation row (`CallsAreRecorded`), and `CommitsOnce` that a
Run with committed decisions has been called and has no second callback at the model (`CommitFollowsCall`).
Each action preserves each conjunct in a lemma of its own.

The last two theorems of the table bound what is wrong in section 6.  `TerminalIsFinal` fails in one way only: the
Run was cancelled, its callback is at the model, and that callback may write `failed` over `interrupted`, once.
This needs `EndedWhileCalled`: a Run that ended under a callback was cancelled.  And a running Run whose call was
recorded and whose callback is gone stays so until CancelRun, since no other callback can be at the model for it.
Both follow from `EndsStep`, which says who writes a started Run and who calls the model.

`AgentRunMailboxProofs` adds the mailbox:

| Theorem | Statement |
|---|---|
| `SnapshotsAreImmutable` | `Spec => SnapshotIsImmutable` |
| `EveryEventIsAccountedFor` | `Spec => []EventsAccountedFor` |
| `NoEventIsLost` | `Spec => []EventsCovered`, if no output responds through an Adapter |

`WindowInv` says that the windows of a Thread's snapshots leave no gap up to the latest upper bound (`WindowsAbut`), and
that an Event above it has a Run that has not taken its snapshot, or was coalesced into a resumed one, which keeps its
window (`Swallows`).  That, and the cancellation of its Run before the first start (`Dropped`), are the two ways for an
Event to miss every window (section 6); where no Run is resumed only the second is left, which `NoEventIsLost` states.
Both are bounded: the Event lies above every window and not above the trigger of that Run.  `SnapshotsFollowStart` ties the rows together: a Run has a snapshot from
its first start on, and a pending Run that has one was resumed by a Delivery result.  Every step moves Runs, admits
one Event or starts one Run (`StepKinds`), so each conjunct is proved for three kinds of step.

`AgentRunWakeProofs` adds the wake, for one callback at a time, without failed `queue()` calls and evictions
(`SteadyQueue`) and without outputs that respond or emit (`QuietOutputs`), for any Threads, policies, overrides, Runs and
Events.  These are the assumptions of `sched_wake`, and each failure they exclude is in section 6.

| Theorem | Statement |
|---|---|
| `WakeIsCounted` | `Spec => []WakeInv` |
| `PendingWakeIsReal` | `Spec => []PendingWakeHasRow` |
| `WakeupIsNotLost` | `Spec => []NoLostWakeup` |

`WakeInv` says that the wake is `pending` exactly while one row is queued or the callback owes one (`WakeCounted`),
and that every pending Run has it so (`PendingHasWake`).  The count is kept because a callback that starts
a Run ends normally: its Run is its own (`RunningIsOwned`), the insertion of the invocation row does not conflict
(`CallIsFirst`) and an interrupt has ended the Run (`InterruptEnds`).

`AgentSchedulesProofs` proves, for any Schedules, owners, kinds, policies, requests and bounds
(`ScheduleAssumption`), with evictions and refused binds:

| Theorem | Statement |
|---|---|
| `ScheduleTypes` | `Spec => []TypeOK` |
| `NoDuplicateEvent` | `Spec => []OneEventPerTick` |
| `OneShotFiresOnce` | `Spec => []OneShotOnce` |
| `QueueIsSound` | `Spec => []QueuedTickNotFired` |
| `AnswerMeansBound` | `Spec => []RecordedMeansBound` |
| `AnsweredIsLive` | `Spec => []AcknowledgedHasAlarm`, if binds are never refused |
| `AnsweredIsLiveAlone` | the same with one request at a time, binds refused or not |
| `CancellationIsFinal` | `Spec => CancelIsFinal` |
| `TickIsOnce` | `Spec => TicksOnce` |

Its invariant adds that the fire rows and the Events agree (`EventsMatchFires`), that an active one-shot has no
fire row (`UnfiredOneShot`, without which a one-shot that is bound to a new time could fire again), which rows the
ledger and the requests may speak of (`RowsMatchLedger`, `HandlersMatchRows`), and that only alarms of
cancelled Schedules are ever cancelled (`AlarmsKept`, which holds only if binds are not refused).  The
five branches of a callback have their effect in common (`FireEffect`), as the cancellations do (`CancelEffect`).
`AnsweredIsLiveAlone` has an invariant of its own, `AloneInv`, in place of `AlarmsKept`: with one request in flight, a
Schedule that is being registered is bound to nothing, so the alarm its compensation cancels is no other request's.
Each of the two assumptions is needed: two requests and a refused bind break the property (section 6).

`AgentRegistrationProofs` proves, for any number of server actions and attempts, any names and Workers and any choice of faults
(`RegistrationAssumption`):

| Theorem | Statement |
|---|---|
| `RegistrationTypes` | `Spec => []TypeOK` |
| `ActiveIsInitialized` | `Spec => []ActiveMeansInitialized` |
| `RegisteredIsFinal` | `Spec => []RegisteredStays` |
| `FailedIsGone` | `Spec => []FailedLeavesNothing` |
| `AgentIsListed` | `Spec => []AgentHasRow` |
| `UnsettledCanBeChecked` | `Spec => []AnswerIsReconcilable` |
| `CheckIsPossibleWithoutWriteFaults` | `Spec => []CheckStaysPossible`, if D1 never fails |
| `NoAgentAfterFailureWithoutLateCalls` | `Spec => []NoAgentAfterFailure`, if no call is late, no Worker of the Client ends and there is one Worker to call |

Its invariant adds to the properties that only created attempts are spoken of and calls on their way are overdue
(`Issued`); that what a server action has learnt of the Agent stays true while it goes on (`RequestsKnow`), since an
initialized Agent keeps its receipt and a missing one can only be initialized by the action that created the attempt
or by a call given up; that a receipt is held at the Worker the attempt was sent to (`ReceiptWithProfile`), so that
`not_found` is wrong only when another Worker said it; and that until its call has returned an attempt belongs to its creator alone
(`StartersOwn`): its row is `initializing`, so no check can take it up and delete the row under the call.  The last
two theorems need their assumptions: one late call breaks `NoAgentAfterFailure` (`registration_late`), and so does an edit
of the origin (section 6); one refused write of a failure observation breaks `CheckStaysPossible`.

`AgentToolInvocationsProofs` proves, for any invocations, requests, keys, operations and generations
(`ToolAssumption`):

| Theorem | Statement |
|---|---|
| `ToolTypes` | `Spec => []TypeOK` |
| `ResultOnce` | `Spec => []OneResultEvent` |
| `ResultIsStatus` | `Spec => []ResultMatchesStatus` |
| `ApprovalBeforeCall` | `Spec => []CalledAfterApproval` |
| `UnknownHasOperation` | `Spec => []UnknownIsReconcilable` |
| `FinalStays` | `Spec => FinalUnlessInvoked` |
| `ResultIsOnce` | `Spec => ResultsOnce` |
| `NoResultAsInstalled` | `Spec => []NoResult`, if definitions are installed as `operations-install.ts` installs them |

Its invariant is `TypeOK /\ Rows /\ CalledRows /\ RequestsKnow`.  `Rows` ties the rows of one invocation together
(the Event to the result, the result to the status, the approval to what was let through).  `RequestsKnow` is what a
request may still believe after its await: an executed invocation was called for, a reconciled one has an operation,
and a status from which cancellation was allowed still allows it.

`AgentDeliveriesProofs` proves, for any keys, callbacks, contexts, Connections, Runs, Deliveries, operations and
requests (`DeliveryAssumption`):

| Theorem | Statement |
|---|---|
| `DeliveryTypes` | `Spec => []TypeOK` |
| `LedgerIsTrue` | `Spec => []LedgerMatchesEvents` |
| `EffectOnce` | `Spec => []OneEffectPerCallback` |
| `WaitingCanEnd` | `Spec => []WaitingRunIsOpen` |
| `FinalStays` | `Spec => FinalDeliveryStays` |
| `QuietAfterUninstall` | `Spec => UninstalledIsQuiet` |
| `PublishIsOnce` | `Spec => PublishedOnce` |
| `CallbackIsOnce` | `Spec => AppliedOnce` |

Its invariant adds `RequestsOwn` to the properties: a request past its reservation owns the recording key, so no
second request can append under it, and one that waits for the Provider owns the id of a Delivery that has
no row yet, so no callback can precede the row it writes.

`ClientSigningKeysProofs` proves, for any keys, Agents and server actions (`KeysAssumption`):

| Theorem | Statement |
|---|---|
| `KeyTypes` | `Spec => []TypeOK` |
| `AgentKeepsKey` | `Spec => []AssignedCanSign` |
| `OneDefault` | `Spec => []DefaultIsKept` |
| `DeletedIsDead` | `Spec => DeletedNeverSigns` |
| `DeletedIsFinalAlone` | `Spec => DeletedIsFinal`, with one server action at a time |
| `NoDirectActivation` | `Spec => DeletedIsNotActivated` |

Its invariant adds `RevokedIsSealed`, that a key once deleted has lost its private half whatever its status is now,
which is why `DeletedNeverSigns` holds although `DeletedIsFinal` does not; `DefaultHasRow`, without which a new key
could take the place of a default; and that requests in flight are about keys and Agents (`RequestsAreProper`).
The last two theorems say where `DeletedIsFinal` fails: it takes a second server action between the read and the
update of the first (`UpdatesAreCurrent` holds without it), and what then comes back is disabled, never active.

The refinements of `AgentOnce` (`TickIsOnce`, `ResultIsOnce`, `PublishIsOnce`, `CallbackIsOnce`) are proved step by step
from the invariants above: a step writes the decision of at most one key, an open one, together with its effect, or
maps to a stutter.

No definition updates two paths that may be the same in one `EXCEPT`: the prover reads
`[f EXCEPT ![a] = x, ![a] = y]` as two updates of the old `f`, which contradict each other, so a step that takes one
would be proved from false hypotheses.  For the same reason every leaf of the proofs was also tried with the goal
`FALSE`, and none succeeded.

Only model-checked: liveness under fairness, which is out of the prover's reach.

## 6. What the model shows about the documents

Four runs end in a violation on purpose; the line each checks is quoted in PROJECT.json.

- `sched_terminal`: a cancelled Run becomes `failed` when its late result is malformed, against `openspec/specs`;
  `TerminalIsKept` proves that no other ended Run ever changes.
- `schedules_queue`: under queue-next, a second callback during the same Run takes the queued tick as its candidate,
  finds the queue taken and rewrites the tick's fire row to `queue_next_already_pending`.  From then on the tick
  counts as recorded, every callback is a duplicate of it, and the Schedule never fires again; the test serves the
  queue after one overlapping callback only.
- `registration_late`: `not_found` is taken as proof that the Agent does not exist, but an `InitializeAgent` that was
  given up may arrive after it: the Agent then holds the receipt of a forgotten attempt, and no later attempt can
  match it.
- `keys_deleted`: a request that read a key before another one deleted it writes `disabled` over the tombstone, and the
  key may then be activated and assigned.  It signs nothing, as its ciphertext is gone, so the Agents that name it
  cannot be called.

### Seen while modelling, without a run

Runs and wakes.  A resumed Run inserts its invocation under the id of its first one and is refused
(`runs/execution.ts:79`): it keeps the slot for ever, so `SlotIsReleased` fails once an output responds (spec
agent-runtime:171, 222), and only CancelRun can take it away (`OnlyCancelFreesTheSlot`).  Events coalesced into a Run that
is resumed may be in no snapshot, so `EventsCovered` needs outputs that do not respond.  Events of a Run that is cancelled
before it starts are in none either, unless a later Event gives their Thread another Run, whose window reaches back to
them.  `EventsAccountedFor` says that no other Event is missed.  A follow-up Run of `emit_event` waits for a wake nobody sends
(`decision-commit.ts:297`).  A failed `queue()` leaves a pending wake that later requests are coalesced
into (`scheduler-wake.ts:133`).  Coalescing replaces the policy override of the Event before (spec
agent-eventing:169).  `request_human_approval` parks a Run that nothing but CancelRun can end
(`decision-commit.ts:383`).  An eviction during the model call leaves the Run `running`.  The decisions of one output
are validated and then written one after the other, without a transaction (`decision-commit.ts:66`).

Schedules.  A Schedule cancelled while its alarm is being registered keeps the alarm, as one whose Integration is
uninstalled does: its callbacks are suppressed, and `CancelIsFinal` holds, but an interval goes on for
ever (spec agent-schedule:78 wants the runtime schedule cancelled).  When a bind is refused while another
retry of the same command has been given the same alarm, the compensation cancels the alarm the other
one binds (`operations-create.ts:96`), so `AcknowledgedHasAlarm` needs one request at a time or binds that
succeed.  The Schedules a Run decides to create never get an alarm (`decision-commit.ts:224`).

Registration.  A Worker that ends between the insert of an attempt and its outcome, or D1 refusing the failure
observation, leaves a row `initializing` that the operator is sent to check and the check refuses; only a deletion settles
it (`managed-agent-registration-attempt.ts:76`).  A rename, in the ledger or in the Agent, while an attempt is unsettled
makes every later comparison fail (`managed-agents.ts:342`).  An edit of the origin while an attempt is unsettled
(`managed-agent-registration-attempts.ts:195`) makes the check ask another Worker (`agent-loader.ts:54`): it says
`not_found`, the row is deleted and the attempt reported failed, while the Agent at the first Worker holds the receipt,
without any late call.  `FailedMeansNoAgent` and `AgentHasRow` name this exception (`astray`).  An attempt that is matched
before the edit and settled after it becomes active in a row that names a Worker without the Agent.

Tools.  Definitions are installed with generation 0 (`integrations/operations-install.ts:214`) and Runs take a snapshot
with generation 0 (`runs/scheduler.ts:194`), but CreateInvocation numbers its catalogue from 1, and a result is
accepted only when all agree.  With these values no result of any Tool is ever accepted: `NoResultAsInstalled` proves it,
against the scenarios S006 and S010 of the spec agent-tool.  A late answer of InvokeTool is written without comparing the status
(`operation-provider.ts:149`) and reopens an invocation that was cancelled, against what `tools/tool-status.ts:80`
says of terminal ones; `FinalUnlessInvoked` names this one exception.  An eviction during InvokeTool leaves `running`
without an operation, which ReconcileInvocation refuses.  A Run that waits for two Tools is resumed by the first
result, and the second is refused (`results.ts:135`).

Deliveries.  An Event that was reserved before an uninstallation is appended after it and may leave an active
DeliveryContext (spec agent-integration:114, 122; `operations-ingress.ts:118`), through which nothing can be
delivered.  A replayed PublishEvent creates a second context for its Event.  An eviction while the blob is
awaited leaves the key `recording` for ever: nothing is appended twice, and the Provider needs a new key.  The
nonce of a callback is taken before its binding is checked, so a callback refused there must be signed again.  A callback
that comes before the row of its Delivery finds none, and an eviction between the Provider's answer and the row loses
the Delivery.  A Run waiting for a Delivery when its Integration is uninstalled waits until CancelRun.  Nobody sends the
Deliveries a `respond` decision writes as `waiting_provider_result`: `deliverToIntegrationProvider` is reached from
the Durable Object's facade only.  A second installation is refused by a UNIQUE constraint, and nothing ends
`pending_external_setup`.  The key of an Event is unique across principals while the ledger is per principal.  Two
follow-ups of one Delivery with the same `requestedAtMs` collide.

Signing keys.  A key that is disabled or deleted between the two writes of `setDefaultSigningKey` becomes the default
nevertheless, which registration then refuses.  A change of the default that breaks off leaves none.  A
registration may insert an Agent with a default it read before the key was disabled, as the INSERT has no
condition on it.  A signing context loaded before a deletion may still sign its call.  `markManagedAgentSigningVerified`
(`actions/agent-health.ts:138`) marks the Agent verified after the call without comparing the key, which may have been
reassigned meanwhile.

## 7. Not modelled

- **Compaction and memory.**  A library without a caller: snapshots, the context builder and thread queries read the
  latest ready Compaction, but only tests begin one, move it on or rebase memory.  Its functions are
  synchronous transactions, so a model could only restate their guards.
- **Commands that never await** (configuration, memory, state, credentials, archival) are single transactions; where
  they race a handler that awaits they are actions of that handler's module.  Audit rows and token checks are not state
  a property is about.
- **RPC transport, storage engine, adapters, observability, SDK**: translation, SQL and signing without a protocol
  state of their own.  What a storage write does is part of the action that makes it.
- **Workers AI provider, agents SDK, Durable Object host**: external; their answers, queues, alarms and evictions are
  nondeterministic choices.
- **User interface, generated code, scripts.**  Most of the repository's 154,000 lines are here: Protobuf code generated
  three times over, the tooling under `.opencode`, React components, build and governance scripts.  None of it
  has protocol behaviour, so the share of all lines that the map covers stays small however much of the protocol is modelled.
