-------------------------- MODULE AgentRunScheduler --------------------------
(***************************************************************************)
(* The AgentRun scheduler of one AIAgent Durable Object: Events that create *)
(* or coalesce pending Runs, the coalesced scheduler wake, the agent-local *)
(* queue that calls processPendingRuns, the single active Run slot, the    *)
(* immutable input snapshot, the model call, the commit guard, and the     *)
(* operations that race the model call: CancelRun, UpdateConfig, the model *)
(* policy operations, DestroyAgent, a Delivery result, an eviction.        *)
(*                                                                         *)
(* A handler that never awaits is one action.  processPendingRuns awaits   *)
(* twice, for the digest of the prompt and for the model, and is split     *)
(* there.  Two things are left out because they never vary in the code:    *)
(* maxRuns is always 1, and every Run has priority 0, since no caller of   *)
(* insertThread gives a priority and emit_event passes 0.                  *)
(***************************************************************************)
EXTENDS Integers, Sequences, FiniteSets

CONSTANTS
  Threads,        \* Thread identities.
  PolicyRefs,     \* Model policy references.
  DefaultPolicy,  \* The policy the Agent is initialized with.
  NoPolicy,       \* "no model policy": no override, or none that is active.
  Overrides,      \* Model policies an Event may request.
  Outputs,        \* Parsed model outputs, see OutputType.
  Workers,        \* Concurrent processPendingRuns callbacks.
  MaxRuns,        \* Bound: Runs ever created.
  MaxEvents,      \* Bound: Events per Thread.
  MaxConfig,      \* Bound: config generations.
  MaxVersion,     \* Bound: versions of one model policy.
  MaxLost,        \* Bound: queue() calls that fail.
  Evictions       \* Whether the Durable Object may be evicted: {} or {TRUE}.

Runs == 1 .. MaxRuns

\* What a model output does when it commits: "local" stands for the decisions
\* that write only Agent-owned rows (update_state, write_memory,
\* create_schedule), the others for the decision of that name; ends is the
\* terminal status of its stop decision, or "completed" without one.
DecisionKinds == {"local", "emit_event", "respond", "request_human_approval"}
OutputType == [does : SUBSET DecisionKinds,
               ends : {"completed", "failed", "interrupted"}]

ASSUME SchedulerAssumption ==
  /\ MaxRuns \in Nat \ {0}
  /\ MaxEvents \in Nat
  /\ MaxConfig \in Nat
  /\ MaxVersion \in Nat
  /\ MaxLost \in Nat
  /\ Threads # {}
  /\ DefaultPolicy \in PolicyRefs
  /\ NoPolicy \notin PolicyRefs
  /\ Overrides \subseteq PolicyRefs
  /\ Outputs \subseteq OutputType
  /\ Evictions \subseteq {TRUE}
  /\ IsFiniteSet(Workers)

VARIABLES
  events,      \* agent_events: per Thread, the policy each Event requests.
  created,     \* How many rows agent_runs has.
  status,      \* agent_runs.status, "absent" for a row not yet inserted.
  threadOf,    \* agent_runs.thread_id
  trigger,     \* agent_runs.trigger_event_id, as its thread sequence.
  served,      \* agent_runs.last_served_at, 0 for NULL.
  threadServed,\* agent_threads.last_served_at, 0 for NULL.
  starts,      \* The clock: how often the scheduler has started a Run.
  snapshot,    \* agent_run_inputs, NoSnapshot before the first start.
  latest,      \* Per Thread, the Run whose snapshot was created last, or 0.
  invoked,     \* agent_model_invocations: Runs with an invocation row.
  calls,       \* How often the model provider was called for a Run.
  interrupt,   \* agent_run_interrupts: Runs with an interrupt row.
  effects,     \* Decisions committed for a Run.
  delivery,    \* agent_adapter_deliveries: the Run's ledger row.
  wake,        \* agent_scheduler_wake_state.wake_status
  queued,      \* cf_agents_queues rows whose callback is not running.
  lost,        \* How many queue() calls have failed.
  worker,      \* processPendingRuns callbacks in flight.
  config,      \* Latest config: version and model policy reference.
  policy,      \* agent_model_policies: version and whether active.
  lifecycle    \* agent_profile.lifecycle_status

mailbox  == <<events, threadServed>>
runVars  == <<created, status, threadOf, trigger, served>>
inputs   == <<snapshot, latest>>
results  == <<invoked, calls, interrupt, effects, delivery>>
wakeVars == <<wake, queued, lost>>
admin    == <<config, policy, lifecycle>>
vars == <<mailbox, runVars, starts, inputs, results, wakeVars, worker, admin>>

-----------------------------------------------------------------------------
(* Types *)

Terminal == {"completed", "failed", "interrupted", "cancelled"}
RunStatus == {"pending", "running", "waiting"} \cup Terminal

NoSnapshot == [lo |-> 0, hi |-> 0, config |-> 0, policy |-> NoPolicy, version |-> 0]
Snapshots == [lo : Nat, hi : Nat, config : Nat,
              policy : PolicyRefs \cup {NoPolicy}, version : Nat]

\* The model policy an Event requests, NoPolicy without an override.
Requests == PolicyRefs \cup {NoPolicy}

Idle == [pc |-> "idle", run |-> 1, more |-> FALSE]

TypeOK ==
  /\ events \in [Threads -> Seq(Requests)]
  /\ created \in 0 .. MaxRuns
  /\ status \in [Runs -> RunStatus \cup {"absent"}]
  /\ threadOf \in [Runs -> Threads]
  /\ trigger \in [Runs -> Nat]
  /\ served \in [Runs -> Nat]
  /\ threadServed \in [Threads -> Nat]
  /\ starts \in Nat
  /\ snapshot \in [Runs -> Snapshots]
  /\ latest \in [Threads -> 0 .. MaxRuns]
  /\ invoked \in [Runs -> BOOLEAN]
  /\ calls \in [Runs -> Nat]
  /\ interrupt \in [Runs -> BOOLEAN]
  /\ effects \in [Runs -> SUBSET DecisionKinds]
  /\ delivery \in [Runs -> {"none", "open", "closed"}]
  /\ wake \in {"idle", "pending"}
  /\ queued \in Nat
  /\ lost \in Nat
  /\ worker \in [Workers -> [pc : {"idle", "digest", "model"}, run : Runs, more : BOOLEAN]]
  /\ config \in [version : Nat, policy : PolicyRefs]
  /\ policy \in [PolicyRefs -> [version : Nat, active : BOOLEAN]]
  /\ lifecycle \in {"active", "destroyed"}

Init ==
  /\ events = [t \in Threads |-> <<>>]
  /\ created = 0
  /\ status = [r \in Runs |-> "absent"]
  /\ threadOf = [r \in Runs |-> CHOOSE t \in Threads : TRUE]
  /\ trigger = [r \in Runs |-> 0]
  /\ served = [r \in Runs |-> 0]
  /\ threadServed = [t \in Threads |-> 0]
  /\ starts = 0
  /\ snapshot = [r \in Runs |-> NoSnapshot]
  /\ latest = [t \in Threads |-> 0]
  /\ invoked = [r \in Runs |-> FALSE]
  /\ calls = [r \in Runs |-> 0]
  /\ interrupt = [r \in Runs |-> FALSE]
  /\ effects = [r \in Runs |-> {}]
  /\ delivery = [r \in Runs |-> "none"]
  /\ wake = "idle"
  /\ queued = 0
  /\ lost = 0
  /\ worker = [w \in Workers |-> Idle]
  /\ config = [version |-> 1, policy |-> DefaultPolicy]
  /\ policy = [p \in PolicyRefs |-> IF p = DefaultPolicy
                                    THEN [version |-> 1, active |-> TRUE]
                                    ELSE [version |-> 0, active |-> FALSE]]
  /\ lifecycle = "active"

-----------------------------------------------------------------------------
(* Rows, as the handlers read them *)

WithStatus(s) == {r \in Runs : status[r] = s}
Pending == WithStatus("pending")
Running == WithStatus("running")
PendingOn(t) == {r \in Pending : threadOf[r] = t}

\* Rows are numbered in the order they are inserted, so the number of a Run
\* stands for its pending_since.
OldestPending(t) == CHOOSE r \in PendingOn(t) : \A q \in PendingOn(t) : r <= q

\* last_served_at ascending (NULL first), then pending_since ascending.
ServedBefore(r, q) ==
  \/ served[r] < served[q]
  \/ served[r] = served[q] /\ r <= q

SelectNextPendingRun == CHOOSE r \in Pending : \A q \in Pending : ServedBefore(r, q)

\* The upper bound of the Thread's latest snapshot.
PreviousUpper(t) == IF latest[t] = 0 THEN 0 ELSE snapshot[latest[t]].hi

\* A requested policy is never replaced by the default one.
ResolveModelPolicy(t, n) ==
  LET requested == events[t][n]
      ref == IF requested # NoPolicy THEN requested ELSE config.policy
  IN  IF policy[ref].active THEN ref ELSE NoPolicy

\* Mutant: the window starts at the Event that was coalesced last.
WindowStartAtTrigger(t, n) == n

\* The window starts after the previous one, or at the trigger if that is
\* earlier.
WindowStart(t, n) ==
  IF PreviousUpper(t) + 1 < n THEN PreviousUpper(t) + 1 ELSE n

CreateSnapshot(r) ==
  LET t == threadOf[r]
      ref == ResolveModelPolicy(t, trigger[r])
  IN  [lo |-> WindowStart(t, trigger[r]),
       hi |-> Len(events[t]),
       config |-> config.version,
       policy |-> ref,
       version |-> IF ref = NoPolicy THEN 0 ELSE policy[ref].version]

\* Mutant: a resumed Run takes a new snapshot.
RunSnapshotAnew(r) == CreateSnapshot(r)

RunSnapshot(r) == IF snapshot[r] # NoSnapshot THEN snapshot[r] ELSE CreateSnapshot(r)

\* Mutant: a policy that was replaced by another version passes.
IsCurrentGenerationByStatus(s) ==
  s.config = config.version /\ policy[s.policy].active /\ lifecycle = "active"

\* Whether the generations a snapshot was taken from are still the current
\* ones: config, model policy and lifecycle.
IsCurrentGeneration(s) ==
  /\ s.config = config.version
  /\ policy[s.policy].active
  /\ policy[s.policy].version = s.version
  /\ lifecycle = "active"

\* Mutant: the guard discards the result and leaves the Run as it is.
IsStaleUnmarked(r) == FALSE

\* A result the guard finds out of date although nobody interrupted the Run.
IsStale(r) == ~interrupt[r] /\ status[r] \notin Terminal

\* Mutant: the guard compares generations only.
CommitAllowedByGeneration(r) == IsCurrentGeneration(snapshot[r])

\* The guard of a Run result: no interrupt, not terminal, same generation.
CommitAllowed(r) ==
  /\ ~interrupt[r]
  /\ status[r] \notin Terminal
  /\ IsCurrentGeneration(snapshot[r])

-----------------------------------------------------------------------------
(* Writes the handlers share *)

\* Whether a queue() call succeeds.
QueueOutcomes == {TRUE} \cup {ok \in {FALSE} : lost < MaxLost}

\* queue('processPendingRuns'): on success one more row beside the rows left,
\* on failure the catch handler leaves the wake pending.
EnqueueSchedulerWake(ok, rows, state) ==
  /\ queued' = IF ok THEN rows + 1 ELSE rows
  /\ wake' = IF ok THEN state ELSE "pending"
  /\ lost' = IF ok THEN lost ELSE lost + 1

\* A wake requested while one is pending is coalesced into it.
RequestSchedulerWake(ok) ==
  IF wake = "idle"
  THEN EnqueueSchedulerWake(ok, queued, "pending")
  ELSE ok /\ UNCHANGED wakeVars

AppendEvent(t, request) ==
  events' = [events EXCEPT ![t] = Append(@, request)]

\* Insert a pending Run for the Event with sequence n of Thread t.
InsertPendingRun(t, n, lastServed, statuses) ==
  LET r == created + 1
  IN  /\ created < MaxRuns
      /\ created' = r
      /\ status' = [statuses EXCEPT ![r] = "pending"]
      /\ threadOf' = [threadOf EXCEPT ![r] = t]
      /\ trigger' = [trigger EXCEPT ![r] = n]
      /\ served' = [served EXCEPT ![r] = lastServed]

\* Coalesce Event n into the Thread's pending Run, or insert one.  statuses is
\* what the same handler has already written to agent_runs.
UpsertPendingRun(t, n, lastServed, statuses) ==
  \/ /\ PendingOn(t) # {}
     /\ trigger' = [trigger EXCEPT ![OldestPending(t)] = n]
     /\ status' = statuses
     /\ UNCHANGED <<created, threadOf, served>>
  \/ /\ PendingOn(t) = {}
     /\ InsertPendingRun(t, n, lastServed, statuses)

\* Append an Event to Thread t and give it a pending Run.
AppendEventToThread(t, request) ==
  /\ Len(events[t]) < MaxEvents
  /\ AppendEvent(t, request)
  /\ UpsertPendingRun(t, Len(events[t]) + 1, threadServed[t], status)
  /\ UNCHANGED threadServed

-----------------------------------------------------------------------------
(* Accepting Events *)

\* The lifecycle and the requested policy are read before the payload is awaited,
\* and not again when the Event is appended: they held at some time.
PublishEvent(t, override, ok) ==
  /\ override # NoPolicy => policy[override].version > 0
  /\ AppendEventToThread(t, override)
  /\ RequestSchedulerWake(ok)
  /\ UNCHANGED <<starts, inputs, results, worker, admin>>

\* The foundation entry point inserts a pending Run without coalescing and
\* does not look at the lifecycle.
AcceptFoundationEvent(t, ok) ==
  /\ Len(events[t]) < MaxEvents
  /\ AppendEvent(t, NoPolicy)
  /\ InsertPendingRun(t, Len(events[t]) + 1, 0, status)
  /\ RequestSchedulerWake(ok)
  /\ UNCHANGED <<threadServed, starts, inputs, results, worker, admin>>

-----------------------------------------------------------------------------
(* processPendingRuns: the batch *)

Busy == {w \in Workers : worker[w].pc # "idle"}

TakeRow(w) == queued > 0 /\ w \notin Busy

\* Mutant: the slot is free when no callback is in flight.
SlotFreeInMemory == Busy = {}

\* findActiveRun finds no running Run.
SlotFree == Running = {}

\* Mutant: only the Thread's own pending Runs count as remaining.
RemainingOnThread(r) == PendingOn(threadOf[r]) \ {r}

\* The pending Runs a batch leaves when it starts r.
Remaining(r) == Pending \ {r}

\* No pending Run.
BatchIdle(w) ==
  /\ TakeRow(w)
  /\ Pending = {}
  /\ wake' = "idle"
  /\ queued' = queued - 1
  /\ UNCHANGED <<mailbox, runVars, starts, inputs, results, lost, worker, admin>>

\* The slot is taken: the wake stays pending and, since a Run is active,
\* nothing is enqueued again.
BatchActiveBlocked(w) ==
  /\ TakeRow(w)
  /\ Pending # {}
  /\ ~SlotFree
  /\ wake' = "pending"
  /\ queued' = queued - 1
  /\ UNCHANGED <<mailbox, runVars, starts, inputs, results, lost, worker, admin>>

\* Select a Run, fix its snapshot and start it.
BatchStart(w, r) ==
  /\ TakeRow(w)
  /\ Pending # {}
  /\ SlotFree
  /\ r = SelectNextPendingRun
  /\ starts' = starts + 1
  /\ snapshot' = [snapshot EXCEPT ![r] = RunSnapshot(r)]
  /\ latest' = IF snapshot[r] = NoSnapshot THEN [latest EXCEPT ![threadOf[r]] = r]
                                          ELSE latest
  /\ served' = [served EXCEPT ![r] = starts + 1]
  /\ threadServed' = [threadServed EXCEPT ![threadOf[r]] = starts + 1]
  /\ UNCHANGED <<events, created, threadOf, trigger, results, admin>>

\* Mutant: the wake is never idle again after a batch.
WakeAfterBatchPending(r) == "pending"

\* Mutant: the state written by markRunning is not replaced.
WakeAfterBatchRunning(r) == IF Remaining(r) # {} THEN "pending" ELSE "running"

WakeAfterBatch(r) == IF Remaining(r) # {} THEN "pending" ELSE "idle"

\* The started Run has a model policy: it holds the slot while the digest of
\* its prompt is computed.
BatchStartRun(w) ==
  \E r \in Pending :
    /\ BatchStart(w, r)
    /\ RunSnapshot(r).policy # NoPolicy
    /\ status' = [status EXCEPT ![r] = "running"]
    /\ worker' = [worker EXCEPT ![w] = [pc |-> "digest", run |-> r,
                                        more |-> Remaining(r) # {}]]
    /\ wake' = WakeAfterBatch(r)
    /\ queued' = queued - 1
    /\ UNCHANGED lost

\* It has none: the Run fails in the same step, before any await.
BatchInvalidPolicy(w, ok) ==
  \E r \in Pending :
    /\ BatchStart(w, r)
    /\ RunSnapshot(r).policy = NoPolicy
    /\ status' = [status EXCEPT ![r] = "failed"]
    /\ IF Remaining(r) # {}
       THEN EnqueueSchedulerWake(ok, queued - 1, WakeAfterBatch(r))
       ELSE /\ ok
            /\ queued' = queued - 1
            /\ wake' = WakeAfterBatch(r)
            /\ UNCHANGED lost
    /\ UNCHANGED worker

-----------------------------------------------------------------------------
(* processPendingRuns: the started Run *)

\* Mutant: every start of a Run is a new attempt with an id of its own.
InvocationFreePerStart(r) == calls[r] < starts

\* No row of agent_model_invocations has the id model:<run>:1.
InvocationFree(r) == ~invoked[r]

\* The digest is there: record the invocation and call the model.
StartInvocation(w) ==
  LET r == worker[w].run
  IN  /\ worker[w].pc = "digest"
      /\ InvocationFree(r)
      /\ invoked' = [invoked EXCEPT ![r] = TRUE]
      /\ calls' = [calls EXCEPT ![r] = @ + 1]
      /\ worker' = [worker EXCEPT ![w].pc = "model"]
      /\ UNCHANGED <<mailbox, runVars, starts, inputs, interrupt, effects,
                     delivery, wakeVars, admin>>

\* The invocation id is taken: the insert throws out of
\* processPendingRuns, and the queue keeps the row to retry it or drops it.
StartInvocationConflict(w, keep) ==
  /\ worker[w].pc = "digest"
  /\ ~InvocationFree(worker[w].run)
  /\ worker' = [worker EXCEPT ![w] = Idle]
  /\ queued' = IF keep THEN queued + 1 ELSE queued
  /\ UNCHANGED <<mailbox, runVars, starts, inputs, results, wake, lost, admin>>

\* The end of the callback: when the batch left pending Runs and the slot is
\* free, enqueue the next wake.  state is the wake written before.
FinishBatch(w, ok, state) ==
  /\ worker' = [worker EXCEPT ![w] = Idle]
  /\ IF worker[w].more /\ \A r \in Runs : status'[r] # "running"
     THEN EnqueueSchedulerWake(ok, queued, state)
     ELSE /\ ok
          /\ wake' = state
          /\ UNCHANGED <<queued, lost>>

\* The model call failed, or its output cannot be parsed or recorded, or a
\* decision is refused before the first is committed: failRun writes "failed"
\* over whatever status the Run has by now.
FailRun(w, ok) ==
  LET r == worker[w].run
  IN  /\ worker[w].pc = "model"
      /\ status' = [status EXCEPT ![r] = "failed"]
      /\ FinishBatch(w, ok, wake)
      /\ UNCHANGED <<mailbox, created, threadOf, trigger, served, starts, inputs,
                     results, admin>>

\* The guard refuses an output that parses: an interrupted or terminal Run is
\* left alone, one of a stale generation is interrupted.
DiscardStaleResult(w, ok) ==
  LET r == worker[w].run
  IN  /\ worker[w].pc = "model"
      /\ ~CommitAllowed(r)
      /\ interrupt' = [interrupt EXCEPT ![r] = @ \/ IsStale(r)]
      /\ status' = [status EXCEPT ![r] = IF IsStale(r) THEN "interrupted" ELSE @]
      /\ FinishBatch(w, ok, wake)
      /\ UNCHANGED <<mailbox, created, threadOf, trigger, served, starts, inputs,
                     invoked, calls, effects, delivery, admin>>

Waits(out) == out.does \cap {"respond", "request_human_approval"} # {}

\* The guard accepts the output: commit its decisions and give the slot back.
\* emit_event marks the wake pending and enqueues nothing.
CommitModelOutput(w, out, ok) ==
  LET r == worker[w].run
      t == threadOf[r]
      next == [status EXCEPT ![r] = IF Waits(out) THEN "waiting" ELSE out.ends]
      emits == "emit_event" \in out.does
  IN  /\ worker[w].pc = "model"
      /\ CommitAllowed(r)
      /\ effects' = [effects EXCEPT ![r] = out.does]
      /\ delivery' = [delivery EXCEPT ![r] = IF "respond" \in out.does THEN "open" ELSE @]
      /\ IF emits
         THEN /\ Len(events[t]) < MaxEvents
              /\ AppendEvent(t, NoPolicy)
              /\ UpsertPendingRun(t, Len(events[t]) + 1, served[r], next)
         ELSE /\ status' = next
              /\ UNCHANGED <<events, created, threadOf, trigger, served>>
      /\ FinishBatch(w, ok, IF emits THEN "pending" ELSE wake)
      /\ UNCHANGED <<threadServed, starts, inputs, invoked, calls, interrupt, admin>>

-----------------------------------------------------------------------------
(* Operations that race the callback *)

\* A terminal Run is only audited, so it is not in the guard's set.
CancelRun(r) ==
  /\ lifecycle = "active"
  /\ status[r] \in {"pending", "running", "waiting"}
  /\ interrupt' = [interrupt EXCEPT ![r] = TRUE]
  /\ status' = [status EXCEPT ![r] = IF @ = "pending" THEN "cancelled" ELSE "interrupted"]
  /\ UNCHANGED <<mailbox, created, threadOf, trigger, served, starts, inputs, invoked,
                 calls, effects, delivery, wakeVars, worker, admin>>

\* Mutant: a result is accepted whatever the Run is doing.
AwaitsDeliveryInAnyStatus(r) == lifecycle = "active" /\ delivery[r] = "open"

\* The provider's result for the Run's open Delivery, while the Run waits.
\* One that comes for a Run that does not wait, or for a closed ledger row, is
\* a stale callback and changes nothing.
AwaitsDelivery(r) ==
  /\ lifecycle = "active"
  /\ delivery[r] = "open"
  /\ status[r] = "waiting"

\* "delivered" and "succeeded" close the ledger row, an intermediate status
\* leaves it open; both resume the Run.
DeliveryResume(r, ledger, ok) ==
  /\ AwaitsDelivery(r)
  /\ ledger \in {"open", "closed"}
  /\ delivery' = [delivery EXCEPT ![r] = ledger]
  /\ status' = [status EXCEPT ![r] = "pending"]
  /\ RequestSchedulerWake(ok)
  /\ UNCHANGED <<mailbox, created, threadOf, trigger, served, starts, inputs, invoked,
                 calls, interrupt, effects, worker, admin>>

\* A failure ends the Run; "timeout" and "timed_out" leave the row open.  No
\* wake is requested.
DeliveryTerminalFailure(r, ledger) ==
  /\ AwaitsDelivery(r)
  /\ ledger \in {"open", "closed"}
  /\ delivery' = [delivery EXCEPT ![r] = ledger]
  /\ status' = [status EXCEPT ![r] = "failed"]
  /\ UNCHANGED <<mailbox, created, threadOf, trigger, served, starts, inputs, invoked,
                 calls, interrupt, effects, wakeVars, worker, admin>>

\* A follow-up status appends an Event and leaves the Run waiting.
DeliveryFollowUp(r, ok) ==
  /\ AwaitsDelivery(r)
  /\ AppendEventToThread(threadOf[r], NoPolicy)
  /\ RequestSchedulerWake(ok)
  /\ UNCHANGED <<starts, inputs, results, worker, admin>>

UpdateConfig(p) ==
  /\ lifecycle = "active"
  /\ policy[p].active
  /\ config.version < MaxConfig
  /\ config' = [version |-> config.version + 1, policy |-> p]
  /\ UNCHANGED <<mailbox, runVars, starts, inputs, results, wakeVars, worker,
                 policy, lifecycle>>

WriteModelPolicy(p, active) ==
  /\ lifecycle = "active"
  /\ policy[p].version < MaxVersion
  /\ policy' = [policy EXCEPT ![p] = [version |-> @.version + 1, active |-> active]]
  /\ UNCHANGED <<mailbox, runVars, starts, inputs, results, wakeVars, worker,
                 config, lifecycle>>

UpsertModelPolicy(p) == WriteModelPolicy(p, TRUE)

ArchiveModelPolicy(p) == policy[p].version > 0 /\ WriteModelPolicy(p, FALSE)

\* Destroying the Agent leaves its Runs, wake and queue as they are.
DestroyAgent ==
  /\ lifecycle = "active"
  /\ lifecycle' = "destroyed"
  /\ UNCHANGED <<mailbox, runVars, starts, inputs, results, wakeVars, worker,
                 config, policy>>

\* An eviction loses the callbacks in flight; storage, with the rows they were
\* called for, stays.
Evict ==
  /\ TRUE \in Evictions
  /\ Busy # {}
  /\ worker' = [w \in Workers |-> Idle]
  /\ queued' = queued + Cardinality(Busy)
  /\ UNCHANGED <<mailbox, runVars, starts, inputs, results, wake, lost, admin>>

-----------------------------------------------------------------------------
(* Specification *)

ProcessPendingRuns(w, ok) ==
  \/ ok /\ BatchIdle(w)
  \/ ok /\ BatchActiveBlocked(w)
  \/ ok /\ BatchStartRun(w)
  \/ BatchInvalidPolicy(w, ok)
  \/ ok /\ StartInvocation(w)
  \/ StartInvocationConflict(w, ok)
  \/ FailRun(w, ok)
  \/ DiscardStaleResult(w, ok)
  \/ \E out \in Outputs : CommitModelOutput(w, out, ok)

Operation(ok) ==
  \/ \E t \in Threads : \/ \E o \in Overrides \cup {NoPolicy} : PublishEvent(t, o, ok)
                        \/ AcceptFoundationEvent(t, ok)
  \/ \E r \in Runs : \/ ok /\ CancelRun(r)
                     \/ \E ledger \in {"open", "closed"} :
                          \/ DeliveryResume(r, ledger, ok)
                          \/ ok /\ DeliveryTerminalFailure(r, ledger)
                     \/ DeliveryFollowUp(r, ok)
  \/ ok /\ \E p \in PolicyRefs : \/ UpdateConfig(p)
                                 \/ UpsertModelPolicy(p)
                                 \/ ArchiveModelPolicy(p)
  \/ ok /\ DestroyAgent
  \/ ok /\ Evict

Next ==
  \E ok \in QueueOutcomes :
    \/ \E w \in Workers : ProcessPendingRuns(w, ok)
    \/ Operation(ok)

Spec == Init /\ [][Next]_vars

\* The queue of the Agents SDK runs its rows without being asked again, and the
\* model provider turns every failure, its timeout included, into a result.
\* Callers, providers of Delivery results and operators owe nothing.
FairSpec == Spec /\ \A w \in Workers :
                      WF_vars(\E ok \in QueueOutcomes : ProcessPendingRuns(w, ok))

-----------------------------------------------------------------------------
(* Safety *)

\* "At most one active AgentRun per Agent": no two Runs are running, whatever
\* the order of batches, model results, cancellations, resumes and evictions.
SingleActiveRun ==
  \A r, q \in Runs : status[r] = "running" /\ status[q] = "running" => r = q

\* The model is called at most once for a Run, although a row can be delivered
\* again after an eviction and a Run can be resumed after it waited.
ModelCalledOnce == \A r \in Runs : calls[r] <= 1

\* Pending work is never stranded: while a Run is pending, a row is queued or
\* the callback in flight will enqueue one when it ends.
NoLostWakeup ==
  Pending # {} => queued > 0 \/ \E w \in Busy : worker[w].more

\* However many Events arrive before, during and after a batch, one wake at most
\* lies in the queue, and the one that later wakes are coalesced into is real:
\* its row is queued, or the callback in flight will enqueue it.
PendingWakeHasRow ==
  /\ queued <= 1
  /\ wake = "pending" => queued = 1 \/ \E w \in Busy : worker[w].more

Covers(r, t, n) ==
  /\ threadOf[r] = t
  /\ snapshot[r].lo <= n
  /\ n <= snapshot[r].hi

\* Event n is above every window, and not above the trigger of a Run that has
\* taken no snapshot.
Unserved(r, t, n) ==
  /\ threadOf[r] = t
  /\ snapshot[r] = NoSnapshot
  /\ PreviousUpper(t) < n
  /\ n <= trigger[r]

\* The Run is pending: its window will reach Event n when it starts.
Awaits(r, t, n) == status[r] = "pending" /\ Unserved(r, t, n)

\* The Run was cancelled before its first start.  Event n stays out of every
\* snapshot unless another Event gives the Thread another Run, whose window then
\* reaches back to it.
Dropped(r, t, n) == status[r] = "cancelled" /\ Unserved(r, t, n)

\* Event n was coalesced into a Run that a Delivery result had resumed, and that
\* keeps the snapshot it started with.
Swallows(r, t, n) ==
  /\ threadOf[r] = t
  /\ delivery[r] # "none"
  /\ snapshot[r] # NoSnapshot
  /\ snapshot[r].hi < n
  /\ n <= trigger[r]

\* No accepted Event is lost: each is in the window of some snapshot of its
\* Thread, or a pending Run will take it, unless that Run was cancelled before it
\* started.
EventsCovered ==
  \A t \in Threads : \A n \in 1 .. Len(events[t]) :
    \E r \in Runs : Covers(r, t, n) \/ Awaits(r, t, n) \/ Dropped(r, t, n)

\* Whatever the outputs do, there are two ways only for an accepted Event to miss
\* every snapshot for good: it was coalesced into a resumed Run, or into a Run that
\* was cancelled before it started.
EventsAccountedFor ==
  \A t \in Threads : \A n \in 1 .. Len(events[t]) :
    \E r \in Runs :
      Covers(r, t, n) \/ Awaits(r, t, n) \/ Dropped(r, t, n) \/ Swallows(r, t, n)

-----------------------------------------------------------------------------
(* What a step may never do *)

\* A result that comes back after the Run was cancelled or interrupted commits
\* no decision.
NoCommitAfterInterrupt ==
  [][\A r \in Runs : interrupt[r] => effects'[r] = effects[r]]_vars

\* Decisions are committed under the generation the Run was started with: the
\* config, the model policy and the lifecycle have not moved since.
CommitsCurrentGeneration ==
  [][\A r \in Runs : effects'[r] # effects[r] =>
       /\ snapshot[r].config = config.version
       /\ policy[snapshot[r].policy].version = snapshot[r].version
       /\ policy[snapshot[r].policy].active
       /\ lifecycle = "active"]_vars

\* The decisions of a Run are committed once: neither a row delivered again after
\* an eviction nor a Run resumed after its Delivery result commits a second
\* output.
CommitsOnce ==
  [][\A r \in Runs : effects[r] # {} => effects'[r] = effects[r]]_vars

\* Events that arrive while a Run is running or waiting do not change its
\* snapshot, and a resumed Run keeps the one it started with.
SnapshotIsImmutable ==
  [][\A r \in Runs : snapshot[r] # NoSnapshot => snapshot'[r] = snapshot[r]]_vars

-----------------------------------------------------------------------------
(* Liveness *)

\* Every pending Run is started or cancelled.
PendingIsServed == \A r \in Runs : status[r] = "pending" ~> status[r] # "pending"

\* Every started Run gives the slot back.
SlotIsReleased == \A r \in Runs : status[r] = "running" ~> status[r] # "running"

-----------------------------------------------------------------------------
(* The abstract specification *)

PhaseOf(s) ==
  CASE s = "absent" -> "none"
    [] s = "pending" -> "queued"
    [] s = "running" -> "active"
    [] s = "waiting" -> "parked"
    [] OTHER -> "ended"

Slot == INSTANCE AgentRunSlot WITH phase <- [r \in Runs |-> PhaseOf(status[r])]

\* The scheduler implements the life of Runs in one active slot.
SlotSpec == Slot!Spec

-----------------------------------------------------------------------------
(* What a document says, and the code does not do *)

\* openspec agent-runtime: an interrupted or cancelled Run ends in an observable
\* terminal status.
TerminalIsFinal ==
  [][\A r \in Runs : status[r] \in Terminal => status'[r] = status[r]]_vars
=============================================================================
