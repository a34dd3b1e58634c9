----------------------- MODULE AgentRunMailboxProofs -----------------------
(***************************************************************************)
(* Proofs about the input snapshots of AgentRunScheduler, for every value  *)
(* of the constants: a snapshot never changes, and the windows of a        *)
(* Thread's snapshots account for every Event.  What they do not hold      *)
(* waits for a pending Run, was given to a Run that was cancelled before   *)
(* it started, or was coalesced into a Run that a Delivery result had      *)
(* resumed, which keeps its window; where no output responds through an    *)
(* Adapter there is none of the last.                                      *)
(***************************************************************************)
EXTENDS AgentRunSchedulerProofs

\* The only write to a row of agent_run_inputs is its insertion.
LEMMA SnapshotKept ==
  ASSUME TypeOK, [Next]_vars
  PROVE  \A q \in Runs : snapshot[q] # NoSnapshot => snapshot'[q] = snapshot[q]
<1> DEFINE Kept == \A q \in Runs : snapshot[q] # NoSnapshot => snapshot'[q] = snapshot[q]
<1>1. ASSUME NEW ok \in QueueOutcomes, NEW t \in Threads, NEW o \in Overrides \cup {NoPolicy},
             PublishEvent(t, o, ok)
      PROVE  Kept
  BY <1>1 DEF PublishEvent, inputs
<1>2. ASSUME NEW ok \in QueueOutcomes, NEW t \in Threads,
             AcceptFoundationEvent(t, ok)
      PROVE  Kept
  BY <1>2 DEF AcceptFoundationEvent, inputs
<1>3. ASSUME NEW ok \in QueueOutcomes, NEW r \in Runs, CancelRun(r) PROVE Kept
  BY <1>3 DEF CancelRun, inputs
<1>4. ASSUME NEW ok \in QueueOutcomes, NEW r \in Runs, NEW d \in {"open", "closed"},
             DeliveryResume(r, d, ok)
      PROVE  Kept
  BY <1>4 DEF DeliveryResume, inputs
<1>5. ASSUME NEW ok \in QueueOutcomes, NEW r \in Runs, NEW d \in {"open", "closed"},
             DeliveryTerminalFailure(r, d)
      PROVE  Kept
  BY <1>5 DEF DeliveryTerminalFailure, inputs
<1>6. ASSUME NEW ok \in QueueOutcomes, NEW r \in Runs,
             DeliveryFollowUp(r, ok)
      PROVE  Kept
  BY <1>6 DEF DeliveryFollowUp, inputs
<1>7. ASSUME NEW ok \in QueueOutcomes, NEW p \in PolicyRefs,
             UpdateConfig(p)
      PROVE  Kept
  BY <1>7 DEF UpdateConfig, inputs
<1>8. ASSUME NEW ok \in QueueOutcomes, NEW p \in PolicyRefs,
             UpsertModelPolicy(p)
      PROVE  Kept
  BY <1>8 DEF UpsertModelPolicy, WriteModelPolicy, inputs
<1>9. ASSUME NEW ok \in QueueOutcomes, NEW p \in PolicyRefs,
             ArchiveModelPolicy(p)
      PROVE  Kept
  BY <1>9 DEF ArchiveModelPolicy, WriteModelPolicy, inputs
<1>10. ASSUME NEW ok \in QueueOutcomes, DestroyAgent PROVE Kept
  BY <1>10 DEF DestroyAgent, inputs
<1>11. ASSUME NEW ok \in QueueOutcomes, Evict PROVE Kept
  BY <1>11 DEF Evict, inputs
<1>12. ASSUME NEW ok \in QueueOutcomes, NEW w \in Workers, BatchIdle(w) PROVE Kept
  BY <1>12 DEF BatchIdle, inputs
<1>13. ASSUME NEW ok \in QueueOutcomes, NEW w \in Workers,
             BatchActiveBlocked(w)
      PROVE  Kept
  BY <1>13 DEF BatchActiveBlocked, inputs
<1>14. ASSUME NEW ok \in QueueOutcomes, NEW w \in Workers,
             BatchStartRun(w)
      PROVE  Kept
  BY <1>14 DEF BatchStartRun, BatchStart, RunSnapshot, TypeOK
<1>15. ASSUME NEW ok \in QueueOutcomes, NEW w \in Workers,
             BatchInvalidPolicy(w, ok)
      PROVE  Kept
  BY <1>15 DEF BatchInvalidPolicy, BatchStart, RunSnapshot, TypeOK
<1>16. ASSUME NEW ok \in QueueOutcomes, NEW w \in Workers,
             StartInvocation(w)
      PROVE  Kept
  BY <1>16 DEF StartInvocation, inputs
<1>17. ASSUME NEW ok \in QueueOutcomes, NEW w \in Workers,
             StartInvocationConflict(w, ok)
      PROVE  Kept
  BY <1>17 DEF StartInvocationConflict, inputs
<1>18. ASSUME NEW ok \in QueueOutcomes, NEW w \in Workers, FailRun(w, ok) PROVE Kept
  BY <1>18 DEF FailRun, inputs
<1>19. ASSUME NEW ok \in QueueOutcomes, NEW w \in Workers,
             DiscardStaleResult(w, ok)
      PROVE  Kept
  BY <1>19 DEF DiscardStaleResult, inputs
<1>20. ASSUME NEW ok \in QueueOutcomes, NEW w \in Workers, NEW out \in Outputs,
             CommitModelOutput(w, out, ok)
      PROVE  Kept
  BY <1>20 DEF CommitModelOutput, inputs
<1>21. CASE UNCHANGED vars
  BY <1>21 DEF vars, inputs
<1> QED
  BY ZenonT(60), <1>1, <1>2, <1>3, <1>4, <1>5, <1>6, <1>7, <1>8, <1>9,
     <1>10, <1>11, <1>12, <1>13, <1>14, <1>15, <1>16, <1>17, <1>18, <1>19,
     <1>20, <1>21
  DEF Next, Operation, ProcessPendingRuns

\* A resumed Run keeps the snapshot it started with, and Events that arrive while
\* it is running or waiting change nothing in it.
THEOREM SnapshotsAreImmutable == Spec => SnapshotIsImmutable
<1>1. IInv /\ [Next]_vars =>
        [\A r \in Runs : snapshot[r] # NoSnapshot => snapshot'[r] = snapshot[r]]_vars
  BY SnapshotKept DEF IInv
<1> QED BY <1>1, Inductive, PTL DEF Spec, SnapshotIsImmutable

-----------------------------------------------------------------------------
(* The windows of a Thread *)

\* No output responds through an Adapter, so no Run is resumed.
NoResponse == \A out \in Outputs : "respond" \notin out.does

NoDelivery == \A r \in Runs : delivery[r] = "none"

\* The Run has not been started.
Unstarted == {"absent", "pending", "cancelled"}

\* A Run has a row of agent_run_inputs from its first start on, with a window of
\* Events of its Thread.  A pending Run that has one was resumed by a Delivery
\* result, and only such a Run is given Events that its window does not reach.
SnapshotsFollowStart ==
  /\ config.version >= 1
  /\ \A r \in Runs : snapshot[r] = NoSnapshot =>
       status[r] \in Unstarted /\ delivery[r] = "none"
  /\ \A r \in Runs : snapshot[r] # NoSnapshot =>
       /\ status[r] # "absent"
       /\ snapshot[r].hi <= Len(events[threadOf[r]])
       /\ status[r] = "pending" => delivery[r] # "none"
       /\ snapshot[r].hi < trigger[r] => delivery[r] # "none"
  /\ \A w \in Workers : worker[w].pc # "idle" => snapshot[worker[w].run] # NoSnapshot
  /\ \A t \in Threads : latest[t] # 0 =>
       snapshot[latest[t]] # NoSnapshot /\ threadOf[latest[t]] = t

\* A Run that has not been started stands for Event n.
Stands(r, t, n) == Awaits(r, t, n) \/ Dropped(r, t, n)

\* The snapshots of a Thread leave no gap up to the upper bound of the latest,
\* and an Event above it has a Run that has not taken its snapshot yet, or went
\* to a resumed one.
WindowsAbut ==
  \A t \in Threads :
    /\ \A n \in 1 .. PreviousUpper(t) : \E r \in Runs : Covers(r, t, n)
    /\ \A n \in 1 .. Len(events[t]) : PreviousUpper(t) < n =>
         \E r \in Runs : Stands(r, t, n) \/ Swallows(r, t, n)

WindowInv == SnapshotsFollowStart /\ WindowsAbut

\* What every step but the start of a Run leaves: the snapshots, which Runs have
\* been started, and the Threads of those that exist.
StartsKept ==
  /\ UNCHANGED inputs
  /\ config'.version \in Nat /\ config'.version >= config.version
  /\ \A v \in Workers : worker'[v].pc # "idle" =>
       worker[v].pc # "idle" /\ worker'[v].run = worker[v].run
  /\ \A q \in Runs :
       /\ status[q] # "absent" => status'[q] # "absent" /\ threadOf'[q] = threadOf[q]
       /\ snapshot[q] = NoSnapshot => status'[q] \in Unstarted /\ delivery'[q] = "none"
       /\ status'[q] = "pending" /\ status[q] \notin {"absent", "pending"} =>
            delivery'[q] # "none"
       /\ delivery[q] # "none" => delivery'[q] # "none"
  /\ NoResponse /\ NoDelivery => NoDelivery'

\* An Event joins Thread t and becomes the trigger of a pending Run.
Admits(t) ==
  /\ StartsKept
  /\ \E request \in Requests : AppendEvent(t, request)
  /\ \E q \in Runs :
       /\ threadOf'[q] = t
       /\ status[q] = "absent" \/ (status[q] = "pending" /\ threadOf[q] = t)
       /\ status'[q] = "pending"
       /\ trigger' = [trigger EXCEPT ![q] = Len(events[t]) + 1]

Moves == StartsKept /\ UNCHANGED <<events, trigger>>

\* A batch starts Run r, with the snapshot it has or with a new one.
Starts(r) ==
  /\ \E w \in Workers : BatchStart(w, r)
  /\ \E s \in {"running", "failed"} : status' = [status EXCEPT ![r] = s]
  /\ \A v \in Workers : worker'[v].pc # "idle" =>
       worker'[v].run = r \/ (worker[v].pc # "idle" /\ worker'[v].run = worker[v].run)

StepKind == Moves \/ (\E t \in Threads : Admits(t)) \/ (\E r \in Pending : Starts(r))

\* A handler that admits an Event makes it the trigger of the Thread's oldest
\* pending Run, or of a new one, and starts no Run.
LEMMA AdmittedRun ==
  ASSUME TypeOK, RunRows, NEW t \in Threads, NEW n, NEW at,
         NEW rows \in [Runs -> RunStatus \cup {"absent"}],
         \A q \in Runs : /\ rows[q] = "absent" <=> status[q] = "absent"
                         /\ rows[q] = "pending" <=> status[q] = "pending",
         UpsertPendingRun(t, n, at, rows) \/ InsertPendingRun(t, n, at, rows)
  PROVE  \E q \in Runs :
           /\ threadOf' = [threadOf EXCEPT ![q] = t]
           /\ status[q] = "absent" \/ (status[q] = "pending" /\ threadOf[q] = t)
           /\ status' = [rows EXCEPT ![q] = "pending"]
           /\ trigger' = [trigger EXCEPT ![q] = n]
<1>1. CASE InsertPendingRun(t, n, at, rows)
  <2>1. created + 1 \in Runs /\ status[created + 1] = "absent"
    BY <1>1, SchedulerAssumption DEF InsertPendingRun, RunRows, TypeOK, Runs
  <2>2. PICK r \in Runs : r = created + 1 /\ status[r] = "absent"
    BY <2>1
  <2>3. /\ status' = [rows EXCEPT ![r] = "pending"]
        /\ threadOf' = [threadOf EXCEPT ![r] = t]
        /\ trigger' = [trigger EXCEPT ![r] = n]
    BY <1>1, <2>2 DEF InsertPendingRun
  <2> QED BY <2>2, <2>3
<1>2. CASE /\ PendingOn(t) # {}
           /\ trigger' = [trigger EXCEPT ![OldestPending(t)] = n]
           /\ status' = rows
           /\ UNCHANGED threadOf
  <2> DEFINE q == OldestPending(t)
  <2>1. q \in Runs /\ status[q] = "pending" /\ threadOf[q] = t
    BY <1>2, OldestPendingIsPending DEF PendingOn, Pending, WithStatus
  <2> HIDE DEF q
  <2>2. rows = [rows EXCEPT ![q] = "pending"]
    BY <2>1
  <2>3. threadOf = [threadOf EXCEPT ![q] = t]
    BY <2>1 DEF TypeOK
  <2> QED BY <1>2, <2>1, <2>2, <2>3 DEF q
<1> QED BY <1>1, <1>2 DEF UpsertPendingRun

\* The same, for the handlers that change no other Run.
LEMMA AdmittedAlone ==
  ASSUME TypeOK, RunRows, SnapshotsFollowStart, NEW t \in Threads, NEW at,
         NEW rows \in [Runs -> RunStatus \cup {"absent"}],
         \A q \in Runs : /\ rows[q] = "absent" <=> status[q] = "absent"
                         /\ rows[q] = "pending" <=> status[q] = "pending"
                         /\ snapshot[q] = NoSnapshot => rows[q] \in Unstarted,
         \/ UpsertPendingRun(t, Len(events[t]) + 1, at, rows)
         \/ InsertPendingRun(t, Len(events[t]) + 1, at, rows)
  PROVE  /\ \A q \in Runs :
              /\ status[q] # "absent" => status'[q] # "absent" /\ threadOf'[q] = threadOf[q]
              /\ snapshot[q] = NoSnapshot => status'[q] \in Unstarted
              /\ status'[q] = "pending" => status[q] \in {"absent", "pending"}
         /\ \E q \in Runs :
              /\ threadOf'[q] = t
              /\ status[q] = "absent" \/ (status[q] = "pending" /\ threadOf[q] = t)
              /\ status'[q] = "pending"
              /\ trigger' = [trigger EXCEPT ![q] = Len(events[t]) + 1]
<1> DEFINE n == Len(events[t]) + 1
<1> HIDE DEF n
<1>1. PICK q \in Runs :
         /\ threadOf' = [threadOf EXCEPT ![q] = t]
         /\ status[q] = "absent" \/ (status[q] = "pending" /\ threadOf[q] = t)
         /\ status' = [rows EXCEPT ![q] = "pending"]
         /\ trigger' = [trigger EXCEPT ![q] = n]
  BY AdmittedRun DEF n
<1>2. threadOf'[q] = t /\ status'[q] = "pending"
  BY <1>1 DEF TypeOK
<1>3. \A p \in Runs : p # q => threadOf'[p] = threadOf[p] /\ status'[p] = rows[p]
  BY <1>1 DEF TypeOK
<1>4. \A p \in Runs :
         /\ status[p] # "absent" => status'[p] # "absent" /\ threadOf'[p] = threadOf[p]
         /\ snapshot[p] = NoSnapshot => status'[p] \in Unstarted
         /\ status'[p] = "pending" => status[p] \in {"absent", "pending"}
  BY <1>1, <1>2, <1>3 DEF Unstarted
<1> QED BY <1>1, <1>2, <1>4 DEF n

\* A handler that writes neither Runs nor snapshots nor Deliveries.
LEMMA QuietStep ==
  ASSUME IInv, SnapshotsFollowStart,
         UNCHANGED <<events, threadOf, trigger, status, inputs, delivery>>,
         config'.version \in Nat /\ config'.version >= config.version,
         \A v \in Workers : worker'[v].pc # "idle" =>
           worker[v].pc # "idle" /\ worker'[v].run = worker[v].run
  PROVE  Moves
BY DEF SnapshotsFollowStart, Moves, StartsKept, NoDelivery

\* A callback that ends its batch writes the status of its own, started Run.
LEMMA OwnedStep ==
  ASSUME IInv, SnapshotsFollowStart, NEW w \in Workers, worker[w].pc = "model",
         worker' = [worker EXCEPT ![w] = Idle]
  PROVE  /\ worker[w].run \in Runs
         /\ snapshot[worker[w].run] # NoSnapshot
         /\ status[worker[w].run] \in {"running"} \cup Terminal
         /\ \A v \in Workers : worker'[v].pc # "idle" =>
              worker[v].pc # "idle" /\ worker'[v].run = worker[v].run
BY DEF IInv, TypeOK, CallbackOwnsRun, SnapshotsFollowStart, Idle

\* Every step moves Runs, admits an Event or starts a Run.
LEMMA StepKinds ==
  ASSUME IInv, SnapshotsFollowStart, [Next]_vars
  PROVE  StepKind
<1>0. /\ TypeOK /\ RunRows
      /\ config.version \in Nat /\ config.version >= config.version
      /\ status \in [Runs -> RunStatus \cup {"absent"}]
      /\ delivery \in [Runs -> {"none", "open", "closed"}]
      /\ \A v \in Workers : worker[v].pc # "idle" =>
           worker[v].pc # "idle" /\ worker[v].run = worker[v].run
  BY DEF IInv, TypeOK
<1> DEFINE Rows(rows) == \A q \in Runs : /\ rows[q] = "absent" <=> status[q] = "absent"
                                         /\ rows[q] = "pending" <=> status[q] = "pending"
                                         /\ snapshot[q] = NoSnapshot => rows[q] \in Unstarted
<1>k. Rows(status)
  BY DEF SnapshotsFollowStart
<1> HIDE DEF Rows
<1>1. ASSUME NEW ok \in QueueOutcomes, NEW t \in Threads, NEW o \in Overrides \cup {NoPolicy},
             PublishEvent(t, o, ok)
      PROVE  StepKind
  <2>1. UpsertPendingRun(t, Len(events[t]) + 1, threadServed[t], status)
    BY <1>1 DEF PublishEvent, AppendEventToThread
  <2>2. AppendEvent(t, o) /\ o \in Requests
    BY <1>1, SchedulerAssumption DEF PublishEvent, AppendEventToThread, Requests
  <2>3. UNCHANGED <<inputs, delivery, worker, config>>
    BY <1>1 DEF PublishEvent, AppendEventToThread, results, admin
  <2>4. Admits(t)
    BY <1>0, <1>k, <2>1, <2>2, <2>3, AdmittedAlone DEF Rows, Admits, StartsKept, SnapshotsFollowStart, NoDelivery
  <2> QED BY <2>4 DEF StepKind
<1>2. ASSUME NEW ok \in QueueOutcomes, NEW t \in Threads,
             AcceptFoundationEvent(t, ok)
      PROVE  StepKind
  <2>1. InsertPendingRun(t, Len(events[t]) + 1, 0, status)
    BY <1>2 DEF AcceptFoundationEvent
  <2>2. AppendEvent(t, NoPolicy) /\ NoPolicy \in Requests
    BY <1>2, SchedulerAssumption DEF AcceptFoundationEvent, Requests
  <2>3. UNCHANGED <<inputs, delivery, worker, config>>
    BY <1>2 DEF AcceptFoundationEvent, results, admin
  <2>4. Admits(t)
    BY <1>0, <1>k, <2>1, <2>2, <2>3, AdmittedAlone DEF Rows, Admits, StartsKept, SnapshotsFollowStart, NoDelivery
  <2> QED BY <2>4 DEF StepKind
<1>3. ASSUME NEW ok \in QueueOutcomes, NEW r \in Runs, CancelRun(r) PROVE StepKind
  <2>1. \A q \in Runs :
           /\ status[q] # "absent" => status'[q] # "absent"
           /\ status'[q] = "pending" => status[q] = "pending"
           /\ status[q] \in Unstarted => status'[q] \in Unstarted
    BY <1>0, <1>3 DEF CancelRun, Unstarted
  <2>2. UNCHANGED <<events, threadOf, trigger, inputs, delivery, worker, config>>
    BY <1>3 DEF CancelRun, mailbox, admin
  <2> QED BY <1>0, <2>1, <2>2 DEF StepKind, Moves, StartsKept, SnapshotsFollowStart, NoDelivery
<1>4. ASSUME NEW ok \in QueueOutcomes, NEW r \in Runs, NEW d \in {"open", "closed"},
             DeliveryResume(r, d, ok)
      PROVE  StepKind
  <2>1. /\ delivery[r] = "open" /\ status[r] = "waiting"
        /\ delivery' = [delivery EXCEPT ![r] = d]
        /\ status' = [status EXCEPT ![r] = "pending"]
    BY <1>4 DEF DeliveryResume, AwaitsDelivery
  <2>2. snapshot[r] # NoSnapshot
    BY <2>1 DEF SnapshotsFollowStart
  <2>3. UNCHANGED <<events, threadOf, trigger, inputs, worker, config>>
    BY <1>4 DEF DeliveryResume, mailbox, admin
  <2>4. \A q \in Runs : q # r => status'[q] = status[q] /\ delivery'[q] = delivery[q]
    BY <1>0, <2>1
  <2>5. status'[r] = "pending" /\ delivery'[r] # "none" /\ delivery[r] # "none"
    BY <1>0, <2>1
  <2>6. ~NoDelivery
    BY <2>1 DEF NoDelivery
  <2> QED
    BY <1>0, <2>2, <2>3, <2>4, <2>5, <2>6 DEF StepKind, Moves, StartsKept, SnapshotsFollowStart, NoDelivery
<1>5. ASSUME NEW ok \in QueueOutcomes, NEW r \in Runs, NEW d \in {"open", "closed"},
             DeliveryTerminalFailure(r, d)
      PROVE  StepKind
  <2>1. /\ delivery[r] = "open" /\ status[r] = "waiting"
        /\ delivery' = [delivery EXCEPT ![r] = d]
        /\ status' = [status EXCEPT ![r] = "failed"]
    BY <1>5 DEF DeliveryTerminalFailure, AwaitsDelivery
  <2>2. snapshot[r] # NoSnapshot
    BY <2>1 DEF SnapshotsFollowStart
  <2>3. UNCHANGED <<events, threadOf, trigger, inputs, worker, config>>
    BY <1>5 DEF DeliveryTerminalFailure, mailbox, admin
  <2>4. \A q \in Runs : q # r => status'[q] = status[q] /\ delivery'[q] = delivery[q]
    BY <1>0, <2>1
  <2>5. status'[r] = "failed" /\ delivery'[r] # "none" /\ delivery[r] # "none"
    BY <1>0, <2>1
  <2>6. ~NoDelivery
    BY <2>1 DEF NoDelivery
  <2> QED
    BY <1>0, <2>2, <2>3, <2>4, <2>5, <2>6 DEF StepKind, Moves, StartsKept, SnapshotsFollowStart, NoDelivery
<1>6. ASSUME NEW ok \in QueueOutcomes, NEW r \in Runs,
             DeliveryFollowUp(r, ok)
      PROVE  StepKind
  <2> DEFINE t == threadOf[r]
  <2>0. t \in Threads
    BY <1>0 DEF TypeOK
  <2>1. UpsertPendingRun(t, Len(events[t]) + 1, threadServed[t], status)
    BY <1>6 DEF DeliveryFollowUp, AppendEventToThread
  <2>2. AppendEvent(t, NoPolicy) /\ NoPolicy \in Requests
    BY <1>6, SchedulerAssumption DEF DeliveryFollowUp, AppendEventToThread, Requests
  <2>3. UNCHANGED <<inputs, delivery, worker, config>>
    BY <1>6 DEF DeliveryFollowUp, AppendEventToThread, results, admin
  <2>4. Admits(t)
    BY <1>0, <1>k, <2>0, <2>1, <2>2, <2>3, AdmittedAlone DEF Rows, Admits, StartsKept, SnapshotsFollowStart, NoDelivery
  <2> QED BY <2>0, <2>4 DEF StepKind
<1>7. ASSUME NEW ok \in QueueOutcomes, NEW p \in PolicyRefs,
             UpdateConfig(p)
      PROVE  StepKind
  <2>1. config'.version \in Nat /\ config'.version >= config.version
    BY <1>0, <1>7 DEF UpdateConfig
  <2>2. UNCHANGED <<events, threadOf, trigger, status, inputs, delivery, worker>>
    BY <1>7 DEF UpdateConfig, mailbox, runVars, results
  <2> QED BY <1>0, <2>1, <2>2, QuietStep DEF StepKind
<1>8. ASSUME NEW ok \in QueueOutcomes, NEW p \in PolicyRefs,
             UpsertModelPolicy(p)
      PROVE  StepKind
  <2>1. UNCHANGED <<events, threadOf, trigger, status, inputs, delivery, config, worker>>
    BY <1>8 DEF UpsertModelPolicy, WriteModelPolicy, mailbox, runVars, results, admin
  <2> QED BY <1>0, <2>1, QuietStep DEF StepKind
<1>9. ASSUME NEW ok \in QueueOutcomes, NEW p \in PolicyRefs,
             ArchiveModelPolicy(p)
      PROVE  StepKind
  <2>1. UNCHANGED <<events, threadOf, trigger, status, inputs, delivery, config, worker>>
    BY <1>9 DEF ArchiveModelPolicy, WriteModelPolicy, mailbox, runVars, results, admin
  <2> QED BY <1>0, <2>1, QuietStep DEF StepKind
<1>10. ASSUME NEW ok \in QueueOutcomes, DestroyAgent
      PROVE  StepKind
  <2>1. UNCHANGED <<events, threadOf, trigger, status, inputs, delivery, config, worker>>
    BY <1>10 DEF DestroyAgent, mailbox, runVars, results, admin
  <2> QED BY <1>0, <2>1, QuietStep DEF StepKind
<1>11. ASSUME NEW ok \in QueueOutcomes, Evict
      PROVE  StepKind
  <2>0. \A v \in Workers : worker'[v].pc # "idle" =>
           worker[v].pc # "idle" /\ worker'[v].run = worker[v].run
    BY <1>0, <1>11 DEF Evict, Idle, TypeOK
  <2>1. UNCHANGED <<events, threadOf, trigger, status, inputs, delivery, config>>
    BY <1>11 DEF Evict, mailbox, runVars, results, admin
  <2> QED BY <1>0, <2>0, <2>1, QuietStep DEF StepKind
<1>12. ASSUME NEW ok \in QueueOutcomes, NEW w \in Workers,
             BatchIdle(w)
      PROVE  StepKind
  <2>1. UNCHANGED <<events, threadOf, trigger, status, inputs, delivery, config, worker>>
    BY <1>12 DEF BatchIdle, mailbox, runVars, results, admin
  <2> QED BY <1>0, <2>1, QuietStep DEF StepKind
<1>13. ASSUME NEW ok \in QueueOutcomes, NEW w \in Workers,
             BatchActiveBlocked(w)
      PROVE  StepKind
  <2>1. UNCHANGED <<events, threadOf, trigger, status, inputs, delivery, config, worker>>
    BY <1>13 DEF BatchActiveBlocked, mailbox, runVars, results, admin
  <2> QED BY <1>0, <2>1, QuietStep DEF StepKind
<1>14. ASSUME NEW ok \in QueueOutcomes, NEW w \in Workers,
             BatchStartRun(w)
      PROVE  StepKind
  <2>1. PICK r \in Pending :
           /\ BatchStart(w, r)
           /\ status' = [status EXCEPT ![r] = "running"]
           /\ worker' = [worker EXCEPT ![w] = [pc |-> "digest", run |-> r,
                                               more |-> Remaining(r) # {}]]
    BY <1>14 DEF BatchStartRun
  <2>2. \A v \in Workers : worker'[v].pc # "idle" =>
           worker'[v].run = r \/ (worker[v].pc # "idle" /\ worker'[v].run = worker[v].run)
    BY <1>0, <2>1 DEF TypeOK
  <2>3. Starts(r)
    BY <1>14, <2>1, <2>2 DEF Starts
  <2> QED BY <2>3 DEF StepKind
<1>15. ASSUME NEW ok \in QueueOutcomes, NEW w \in Workers,
             BatchInvalidPolicy(w, ok)
      PROVE  StepKind
  <2>1. PICK r \in Pending :
           /\ BatchStart(w, r)
           /\ status' = [status EXCEPT ![r] = "failed"]
           /\ UNCHANGED worker
    BY <1>15 DEF BatchInvalidPolicy
  <2>2. Starts(r)
    BY <1>15, <2>1 DEF Starts
  <2> QED BY <2>2 DEF StepKind
<1>16. ASSUME NEW ok \in QueueOutcomes, NEW w \in Workers,
             StartInvocation(w)
      PROVE  StepKind
  <2>0. \A v \in Workers : worker'[v].pc # "idle" =>
           worker[v].pc # "idle" /\ worker'[v].run = worker[v].run
    BY <1>0, <1>16 DEF StartInvocation, TypeOK
  <2>1. UNCHANGED <<events, threadOf, trigger, status, inputs, delivery, config>>
    BY <1>16 DEF StartInvocation, mailbox, runVars, results, admin
  <2> QED BY <1>0, <2>0, <2>1, QuietStep DEF StepKind
<1>17. ASSUME NEW ok \in QueueOutcomes, NEW w \in Workers,
             StartInvocationConflict(w, ok)
      PROVE  StepKind
  <2>0. \A v \in Workers : worker'[v].pc # "idle" =>
           worker[v].pc # "idle" /\ worker'[v].run = worker[v].run
    BY <1>0, <1>17 DEF StartInvocationConflict, Idle, TypeOK
  <2>1. UNCHANGED <<events, threadOf, trigger, status, inputs, delivery, config>>
    BY <1>17 DEF StartInvocationConflict, mailbox, runVars, results, admin
  <2> QED BY <1>0, <2>0, <2>1, QuietStep DEF StepKind
<1>18. ASSUME NEW ok \in QueueOutcomes, NEW w \in Workers,
             FailRun(w, ok)
      PROVE  StepKind
  <2> DEFINE r == worker[w].run
  <2>1. /\ r \in Runs /\ snapshot[r] # NoSnapshot
        /\ status[r] \in {"running"} \cup Terminal
        /\ \A v \in Workers : worker'[v].pc # "idle" =>
             worker[v].pc # "idle" /\ worker'[v].run = worker[v].run
    BY <1>18, OwnedStep DEF FailRun, FinishBatch
  <2>2. \A q \in Runs : q # r => status'[q] = status[q]
    BY <1>0, <1>18 DEF FailRun
  <2>3. status'[r] \in Terminal \cup {"running"}
    BY <1>0, <1>18, <2>1 DEF FailRun, Terminal
  <2>4. UNCHANGED <<events, threadOf, trigger, inputs, delivery, config>>
    BY <1>18 DEF FailRun, mailbox, results, admin
  <2>5. status'[r] \notin {"absent", "pending"}
    BY <2>3 DEF Terminal
  <2> HIDE DEF r
  <2> QED
    BY <1>0, <2>1, <2>2, <2>4, <2>5 DEF StepKind, Moves, StartsKept, SnapshotsFollowStart, NoDelivery
<1>19. ASSUME NEW ok \in QueueOutcomes, NEW w \in Workers,
             DiscardStaleResult(w, ok)
      PROVE  StepKind
  <2> DEFINE r == worker[w].run
  <2>1. /\ r \in Runs /\ snapshot[r] # NoSnapshot
        /\ status[r] \in {"running"} \cup Terminal
        /\ \A v \in Workers : worker'[v].pc # "idle" =>
             worker[v].pc # "idle" /\ worker'[v].run = worker[v].run
    BY <1>19, OwnedStep DEF DiscardStaleResult, FinishBatch
  <2>2. \A q \in Runs : q # r => status'[q] = status[q]
    BY <1>0, <1>19 DEF DiscardStaleResult
  <2>3. status'[r] \in Terminal \cup {"running"}
    BY <1>0, <1>19, <2>1 DEF DiscardStaleResult, Terminal
  <2>4. UNCHANGED <<events, threadOf, trigger, inputs, delivery, config>>
    BY <1>19 DEF DiscardStaleResult, mailbox, results, admin
  <2>5. status'[r] \notin {"absent", "pending"}
    BY <2>3 DEF Terminal
  <2> HIDE DEF r
  <2> QED
    BY <1>0, <2>1, <2>2, <2>4, <2>5 DEF StepKind, Moves, StartsKept, SnapshotsFollowStart, NoDelivery
<1>20. ASSUME NEW ok \in QueueOutcomes, NEW w \in Workers, NEW out \in Outputs,
             CommitModelOutput(w, out, ok)
      PROVE  StepKind
  <2> DEFINE r == worker[w].run
             s == IF Waits(out) THEN "waiting" ELSE out.ends
             next == [status EXCEPT ![r] = s]
  <2>1. /\ r \in Runs /\ snapshot[r] # NoSnapshot
        /\ status[r] \in {"running"} \cup Terminal
        /\ \A v \in Workers : worker'[v].pc # "idle" =>
             worker[v].pc # "idle" /\ worker'[v].run = worker[v].run
    BY <1>20, OwnedStep DEF CommitModelOutput, FinishBatch
  <2>2. s \in RunStatus /\ s \notin {"absent", "pending"}
    BY SchedulerAssumption DEF OutputType, RunStatus, Terminal
  <2>3. delivery' = [delivery EXCEPT ![r] = IF "respond" \in out.does THEN "open" ELSE @]
    BY <1>20 DEF CommitModelOutput
  <2>4. /\ \A q \in Runs : q # r => delivery'[q] = delivery[q]
        /\ delivery[r] # "none" => delivery'[r] # "none"
        /\ NoResponse => delivery'[r] = delivery[r]
    BY <1>0, <2>3 DEF NoResponse
  <2>5. UNCHANGED <<inputs, config>> /\ threadOf[r] \in Threads /\ NoPolicy \in Requests
    BY <1>0, <1>20, <2>1 DEF CommitModelOutput, admin, TypeOK, Requests
  <2>6. NoResponse /\ NoDelivery => NoDelivery'
    BY <2>4 DEF NoDelivery
  <2>7. CASE "emit_event" \in out.does
    <3>1. /\ AppendEvent(threadOf[r], NoPolicy)
          /\ UpsertPendingRun(threadOf[r], Len(events[threadOf[r]]) + 1, served[r], next)
      BY <1>20, <2>7 DEF CommitModelOutput
    <3> HIDE DEF s
    <3>2. next \in [Runs -> RunStatus \cup {"absent"}]
      BY <1>0, <2>2
    <3>3. /\ \A q \in Runs : q # r => next[q] = status[q]
          /\ next[r] = s
      BY <1>0, <2>1
    <3> HIDE DEF next, r
    <3>4. Rows(next)
      BY <1>k, <2>1, <2>2, <3>3 DEF Rows, Terminal
    <3>5. /\ \A q \in Runs :
              /\ status[q] # "absent" => status'[q] # "absent" /\ threadOf'[q] = threadOf[q]
              /\ snapshot[q] = NoSnapshot => status'[q] \in Unstarted
              /\ status'[q] = "pending" => status[q] \in {"absent", "pending"}
          /\ \E q \in Runs :
              /\ threadOf'[q] = threadOf[r]
              /\ status[q] = "absent" \/ (status[q] = "pending" /\ threadOf[q] = threadOf[r])
              /\ status'[q] = "pending"
              /\ trigger' = [trigger EXCEPT ![q] = Len(events[threadOf[r]]) + 1]
      BY <1>0, <2>5, <3>1, <3>2, <3>4, AdmittedAlone DEF Rows
    <3>6. StartsKept
      BY <1>0, <2>1, <2>4, <2>5, <2>6, <3>5 DEF StartsKept, SnapshotsFollowStart
    <3>7. Admits(threadOf[r])
      BY <2>5, <3>1, <3>5, <3>6 DEF Admits
    <3> QED BY <2>5, <3>7 DEF StepKind
  <2>8. CASE "emit_event" \notin out.does
    <3>1. status' = next /\ UNCHANGED <<events, threadOf, trigger>>
      BY <1>20, <2>8 DEF CommitModelOutput
    <3>2. /\ \A q \in Runs : q # r => status'[q] = status[q]
          /\ status'[r] = s
      BY <1>0, <2>1, <3>1
    <3> HIDE DEF r, s
    <3> QED
      BY <1>0, <2>1, <2>2, <2>4, <2>5, <2>6, <3>1, <3>2
      DEF StepKind, Moves, StartsKept, SnapshotsFollowStart, NoDelivery
  <2> QED BY <2>7, <2>8
<1>21. CASE UNCHANGED vars
  <2>1. UNCHANGED <<events, threadOf, trigger, status, inputs, delivery, config, worker>>
    BY <1>21 DEF vars, mailbox, runVars, results, admin
  <2> QED BY <1>0, <2>1, QuietStep DEF StepKind
<1> QED
  BY ZenonT(60), <1>1, <1>2, <1>3, <1>4, <1>5, <1>6, <1>7, <1>8, <1>9,
     <1>10, <1>11, <1>12, <1>13, <1>14, <1>15, <1>16, <1>17, <1>18, <1>19,
     <1>20, <1>21
  DEF Next, Operation, ProcessPendingRuns

-----------------------------------------------------------------------------
(* What the kinds of steps do to the windows *)

\* The bounds of windows and mailboxes are numbers.
LEMMA UpperType ==
  ASSUME IInv, NEW t \in Threads
  PROVE  PreviousUpper(t) \in Nat /\ Len(events[t]) \in Nat
  BY DEF IInv, TypeOK, PreviousUpper, Snapshots, Runs

\* No window reaches beyond the Thread's last Event.
LEMMA UpperBound ==
  ASSUME IInv, SnapshotsFollowStart, NEW t \in Threads
  PROVE  PreviousUpper(t) <= Len(events[t])
<1>1. CASE latest[t] = 0
  BY <1>1, UpperType DEF PreviousUpper
<1>2. CASE latest[t] # 0
  BY <1>2 DEF IInv, TypeOK, Runs, SnapshotsFollowStart, PreviousUpper
<1> QED BY <1>1, <1>2

\* A first start inserts a snapshot, which names a config and so differs from "no
\* snapshot", with a window from the previous one to the Thread's last Event.
LEMMA FirstStart ==
  ASSUME IInv, SnapshotsFollowStart, NEW r \in Pending, Starts(r), snapshot[r] = NoSnapshot
  PROVE  LET new == snapshot'[r]
         IN  /\ new \in Snapshots /\ new # NoSnapshot
             /\ new.hi = Len(events[threadOf[r]])
             /\ new.lo <= PreviousUpper(threadOf[r]) + 1
             /\ snapshot' = [snapshot EXCEPT ![r] = new]
             /\ latest' = [latest EXCEPT ![threadOf[r]] = r]
<1>1. r \in Runs /\ threadOf[r] \in Threads /\ trigger[r] \in Nat
  BY DEF IInv, TypeOK, Pending, WithStatus
<1>2. RunSnapshot(r) = CreateSnapshot(r)
  BY DEF RunSnapshot
<1>3. CreateSnapshot(r) \in Snapshots
  BY <1>2, SnapshotType DEF IInv
<1>4. CreateSnapshot(r).config = config.version
  BY DEF CreateSnapshot
<1>5. CreateSnapshot(r) # NoSnapshot
  BY <1>4 DEF SnapshotsFollowStart, NoSnapshot, IInv, TypeOK
<1>6. /\ CreateSnapshot(r).hi = Len(events[threadOf[r]])
      /\ CreateSnapshot(r).lo = WindowStart(threadOf[r], trigger[r])
  BY DEF CreateSnapshot
<1>7. CreateSnapshot(r).lo <= PreviousUpper(threadOf[r]) + 1
  BY <1>1, <1>6, UpperType DEF WindowStart
<1>8. snapshot' = [snapshot EXCEPT ![r] = CreateSnapshot(r)]
  BY <1>2 DEF Starts, BatchStart
<1>9. snapshot'[r] = CreateSnapshot(r)
  BY <1>1, <1>8 DEF IInv, TypeOK
<1>10. latest' = [latest EXCEPT ![threadOf[r]] = r]
  BY DEF Starts, BatchStart
<1> QED BY <1>3, <1>5, <1>6, <1>7, <1>8, <1>9, <1>10

\* A later start keeps the snapshot there is.
LEMMA LaterStart ==
  ASSUME IInv, NEW r \in Pending, Starts(r), snapshot[r] # NoSnapshot
  PROVE  UNCHANGED <<snapshot, latest>>
  BY DEF Starts, BatchStart, RunSnapshot, IInv, TypeOK

\* What a start leaves of the other rows.
LEMMA StartFrame ==
  ASSUME IInv, NEW r \in Pending, Starts(r)
  PROVE  /\ r \in Runs /\ threadOf[r] \in Threads
         /\ status[r] = "pending" /\ status'[r] \in {"running", "failed"}
         /\ trigger[r] <= Len(events[threadOf[r]])
         /\ \A q \in Runs : q # r => status'[q] = status[q]
         /\ UNCHANGED <<events, threadOf, trigger, delivery, config>>
<1>1. r \in Runs /\ threadOf[r] \in Threads /\ status[r] = "pending"
  BY DEF IInv, TypeOK, Pending, WithStatus
<1>2. trigger[r] \in 1 .. Len(events[threadOf[r]])
  BY <1>1 DEF IInv, RunRows
<1>3. UNCHANGED <<events, threadOf, trigger, delivery, config>>
  BY DEF Starts, BatchStart, results, admin
<1>4. status'[r] \in {"running", "failed"} /\ \A q \in Runs : q # r => status'[q] = status[q]
  BY <1>1 DEF Starts, IInv, TypeOK
<1> QED BY <1>1, <1>2, <1>3, <1>4, UpperType

\* An admitted Event is the last of its Thread's mailbox.
LEMMA AppendedEvent ==
  ASSUME IInv, NEW u \in Threads, Admits(u), NEW t \in Threads
  PROVE  Len(events'[t]) = IF t = u THEN Len(events[t]) + 1 ELSE Len(events[t])
  BY DEF Admits, AppendEvent, IInv, TypeOK

LEMMA SnapshotsStep ==
  ASSUME IInv, IInv', SnapshotsFollowStart, StepKind
  PROVE  SnapshotsFollowStart'
<1>1. ASSUME StartsKept,
             \A t \in Threads : Len(events[t]) <= Len(events'[t]),
             \A q \in Runs : \/ trigger'[q] = trigger[q]
                             \/ status[q] \in {"absent", "pending"}
      PROVE  SnapshotsFollowStart'
  <2>1. UNCHANGED <<snapshot, latest>>
    BY <1>1 DEF StartsKept, inputs
  <2>2. config'.version >= 1
    BY <1>1 DEF StartsKept, SnapshotsFollowStart, IInv, TypeOK
  <2>3. \A v \in Workers : worker'[v].pc # "idle" => snapshot'[worker'[v].run] # NoSnapshot
    BY <1>1, <2>1 DEF StartsKept, SnapshotsFollowStart
  <2>4. \A q \in Runs : snapshot'[q] = NoSnapshot =>
           status'[q] \in Unstarted /\ delivery'[q] = "none"
    BY <1>1, <2>1 DEF StartsKept
  <2>5. ASSUME NEW q \in Runs, snapshot'[q] # NoSnapshot
        PROVE  /\ status'[q] # "absent"
               /\ snapshot'[q].hi <= Len(events'[threadOf'[q]])
               /\ status'[q] = "pending" => delivery'[q] # "none"
               /\ snapshot'[q].hi < trigger'[q] => delivery'[q] # "none"
    <3>1. /\ snapshot[q] # NoSnapshot /\ snapshot'[q] = snapshot[q]
          /\ status[q] # "absent"
          /\ snapshot[q].hi <= Len(events[threadOf[q]])
          /\ status[q] = "pending" => delivery[q] # "none"
          /\ snapshot[q].hi < trigger[q] => delivery[q] # "none"
      BY <2>1, <2>5 DEF SnapshotsFollowStart
    <3>2. status'[q] # "absent" /\ threadOf'[q] = threadOf[q] /\ threadOf[q] \in Threads
      BY <1>1, <3>1 DEF StartsKept, IInv, TypeOK
    <3>3. Len(events[threadOf[q]]) <= Len(events'[threadOf[q]])
      BY <1>1, <3>2
    <3>4. snapshot[q].hi \in Nat /\ Len(events[threadOf[q]]) \in Nat
      BY <3>2, UpperType DEF IInv, TypeOK, Snapshots
    <3>5. Len(events'[threadOf[q]]) \in Nat
      BY <3>2 DEF IInv, TypeOK
    <3>6. snapshot'[q].hi <= Len(events'[threadOf'[q]])
      BY <3>1, <3>2, <3>3, <3>4, <3>5
    <3>7. status'[q] = "pending" => delivery'[q] # "none"
      BY <1>1, <3>1 DEF StartsKept
    <3>8. snapshot'[q].hi < trigger'[q] => delivery'[q] # "none"
      <4>1. delivery[q] # "none" => delivery'[q] # "none"
        BY <1>1 DEF StartsKept
      <4> QED BY <1>1, <3>1, <4>1
    <3> QED BY <3>2, <3>6, <3>7, <3>8
  <2>6. ASSUME NEW t \in Threads, latest'[t] # 0
        PROVE  snapshot'[latest'[t]] # NoSnapshot /\ threadOf'[latest'[t]] = t
    <3>1. latest[t] \in Runs
      BY <2>1, <2>6 DEF IInv, TypeOK, Runs
    <3>2. snapshot[latest[t]] # NoSnapshot /\ threadOf[latest[t]] = t
      BY <2>1, <2>6 DEF SnapshotsFollowStart
    <3>3. status[latest[t]] # "absent"
      BY <3>1, <3>2 DEF SnapshotsFollowStart
    <3> QED BY <1>1, <2>1, <3>1, <3>2, <3>3 DEF StartsKept
  <2> QED BY <2>2, <2>3, <2>4, <2>5, <2>6 DEF SnapshotsFollowStart
<1>2. CASE Moves
  <2>1. \A t \in Threads : Len(events[t]) <= Len(events'[t])
    BY <1>2, UpperType DEF Moves
  <2> QED BY <1>1, <1>2, <2>1 DEF Moves
<1>3. ASSUME NEW u \in Threads, Admits(u) PROVE SnapshotsFollowStart'
  <2>1. ASSUME NEW t \in Threads PROVE Len(events[t]) <= Len(events'[t])
    BY <1>3, AppendedEvent, UpperType
  <2>2. \A q \in Runs : trigger'[q] = trigger[q] \/ status[q] \in {"absent", "pending"}
    BY <1>3 DEF Admits, IInv, TypeOK
  <2> QED BY <1>1, <1>3, <2>1, <2>2 DEF Admits
<1>4. ASSUME NEW r \in Pending, Starts(r) PROVE SnapshotsFollowStart'
  <2>1. /\ r \in Runs /\ threadOf[r] \in Threads
        /\ status[r] = "pending" /\ status'[r] \in {"running", "failed"}
        /\ trigger[r] <= Len(events[threadOf[r]])
        /\ \A q \in Runs : q # r => status'[q] = status[q]
        /\ UNCHANGED <<events, threadOf, trigger, delivery, config>>
    BY <1>4, StartFrame
  <2>2. CASE snapshot[r] # NoSnapshot
    <3>1. UNCHANGED <<snapshot, latest>>
      BY <1>4, <2>2, LaterStart
    <3>2. \A v \in Workers : worker'[v].pc # "idle" => snapshot'[worker'[v].run] # NoSnapshot
      BY <1>4, <2>2, <3>1 DEF Starts, SnapshotsFollowStart
    <3> QED BY <2>1, <2>2, <3>1, <3>2 DEF SnapshotsFollowStart
  <2>3. CASE snapshot[r] = NoSnapshot
    <3> DEFINE new == snapshot'[r]
    <3>1. /\ new \in Snapshots /\ new # NoSnapshot
          /\ new.hi = Len(events[threadOf[r]])
          /\ snapshot' = [snapshot EXCEPT ![r] = new]
          /\ latest' = [latest EXCEPT ![threadOf[r]] = r]
      BY <1>4, <2>3, FirstStart
    <3>2. \A q \in Runs : q # r => snapshot'[q] = snapshot[q]
      BY <2>1, <3>1 DEF IInv, TypeOK
    <3>3. \A v \in Workers : worker'[v].pc # "idle" => snapshot'[worker'[v].run] # NoSnapshot
      <4> SUFFICES ASSUME NEW v \in Workers, worker'[v].pc # "idle"
                   PROVE  snapshot'[worker'[v].run] # NoSnapshot
        OBVIOUS
      <4>1. worker[v].run \in Runs
        BY DEF IInv, TypeOK
      <4> QED BY <1>4, <3>1, <3>2, <4>1 DEF Starts, SnapshotsFollowStart
    <3>4. ASSUME NEW t \in Threads, latest'[t] # 0
          PROVE  snapshot'[latest'[t]] # NoSnapshot /\ threadOf'[latest'[t]] = t
      <4>1. CASE t = threadOf[r]
        <5>1. latest'[t] = r
          BY <2>1, <3>1, <4>1 DEF IInv, TypeOK
        <5> QED BY <2>1, <3>1, <4>1, <5>1
      <4>2. CASE t # threadOf[r]
        <5>1. latest'[t] = latest[t]
          BY <2>1, <3>1, <4>2 DEF IInv, TypeOK
        <5>2. latest[t] \in Runs
          BY <3>4, <5>1 DEF IInv, TypeOK, Runs
        <5> QED BY <2>1, <2>3, <3>2, <3>4, <5>1, <5>2 DEF SnapshotsFollowStart
      <4> QED BY <4>1, <4>2
    <3>5. ~ (new.hi < trigger[r])
      <4>1. trigger[r] \in Nat
        BY <2>1 DEF IInv, TypeOK
      <4>2. Len(events[threadOf[r]]) \in Nat
        BY <2>1, UpperType
      <4> QED BY <2>1, <3>1, <4>1, <4>2
    <3>6. snapshot'[r].hi <= Len(events'[threadOf'[r]])
      BY <2>1, <3>1, UpperType
    <3> HIDE DEF new
    <3>7. ASSUME NEW q \in Runs, snapshot'[q] = NoSnapshot
          PROVE  status'[q] \in Unstarted /\ delivery'[q] = "none"
      BY <2>1, <3>1, <3>2, <3>7 DEF SnapshotsFollowStart, new
    <3>8. ASSUME NEW q \in Runs, snapshot'[q] # NoSnapshot
          PROVE  /\ status'[q] # "absent"
                 /\ snapshot'[q].hi <= Len(events'[threadOf'[q]])
                 /\ status'[q] = "pending" => delivery'[q] # "none"
                 /\ snapshot'[q].hi < trigger'[q] => delivery'[q] # "none"
      <4>1. CASE q = r
        BY <2>1, <3>5, <3>6, <4>1 DEF new
      <4>2. CASE q # r
        BY <2>1, <3>2, <3>8, <4>2 DEF SnapshotsFollowStart
      <4> QED BY <4>1, <4>2
    <3>9. config'.version >= 1
      BY <2>1 DEF SnapshotsFollowStart
    <3> QED BY <3>3, <3>4, <3>7, <3>8, <3>9 DEF SnapshotsFollowStart
  <2> QED BY <2>2, <2>3
<1> QED BY <1>2, <1>3, <1>4 DEF StepKind

\* A Run whose window holds an Event has a snapshot.
LEMMA CoverHasSnapshot ==
  ASSUME NEW q \in Runs, NEW t \in Threads, NEW n \in Nat \ {0}, Covers(q, t, n)
  PROVE  snapshot[q] # NoSnapshot
  BY DEF Covers, NoSnapshot

\* A step that starts no Run leaves the windows, and the Runs that stand for the
\* Events above them, unless such a Run is given a later one.
LEMMA WindowsKept ==
  ASSUME IInv, IInv', SnapshotsFollowStart, WindowsAbut, StartsKept, NEW t \in Threads,
         \A q \in Runs : status[q] # "absent" => trigger[q] <= trigger'[q]
  PROVE  /\ PreviousUpper(t)' = PreviousUpper(t)
         /\ \A n \in 1 .. PreviousUpper(t) : \E q \in Runs : Covers(q, t, n)'
         /\ \A n \in 1 .. Len(events[t]) : PreviousUpper(t) < n =>
              \E q \in Runs : Stands(q, t, n)' \/ Swallows(q, t, n)'
<1>1. UNCHANGED <<snapshot, latest>>
  BY DEF StartsKept, inputs
<1>2. PreviousUpper(t)' = PreviousUpper(t)
  BY <1>1 DEF PreviousUpper
<1>3. ASSUME NEW n \in 1 .. PreviousUpper(t)
      PROVE  \E q \in Runs : Covers(q, t, n)'
  <2>1. PICK q \in Runs : Covers(q, t, n)
    BY <1>3 DEF WindowsAbut
  <2>2. status[q] # "absent"
    BY <1>3, <2>1, UpperType, CoverHasSnapshot DEF SnapshotsFollowStart
  <2>3. threadOf'[q] = threadOf[q]
    BY <2>2 DEF StartsKept
  <2> QED BY <1>1, <2>1, <2>3 DEF Covers
<1>4. ASSUME NEW n \in 1 .. Len(events[t]), PreviousUpper(t) < n
      PROVE  \E q \in Runs : Stands(q, t, n)' \/ Swallows(q, t, n)'
  <2>1. PICK q \in Runs : Stands(q, t, n) \/ Swallows(q, t, n)
    BY <1>4 DEF WindowsAbut
  <2>2. status[q] # "absent"
    BY <2>1 DEF Stands, Awaits, Dropped, Unserved, Swallows, SnapshotsFollowStart
  <2>3. threadOf'[q] = threadOf[q] /\ status'[q] # "absent"
    BY <2>2 DEF StartsKept
  <2>4. CASE Stands(q, t, n)
    <3>0. snapshot[q] = NoSnapshot /\ threadOf[q] = t /\ n <= trigger[q]
      BY <2>4 DEF Stands, Awaits, Dropped, Unserved
    <3>1. status'[q] \in {"pending", "cancelled"}
      BY <2>3, <3>0 DEF StartsKept, Unstarted
    <3>2. trigger[q] \in Nat /\ trigger'[q] \in Nat /\ trigger[q] <= trigger'[q]
      BY <2>2 DEF IInv, TypeOK
    <3>3. n <= trigger'[q]
      BY <1>4, <3>0, <3>2, UpperType
    <3> QED
      BY <1>1, <1>2, <1>4, <2>3, <3>0, <3>1, <3>3 DEF Stands, Awaits, Dropped, Unserved
  <2>5. CASE Swallows(q, t, n)
    <3>1. trigger[q] \in Nat /\ trigger[q] <= trigger'[q] /\ n <= trigger[q]
      BY <2>2, <2>5 DEF IInv, TypeOK, Swallows
    <3>2. trigger'[q] \in Nat
      BY DEF IInv, TypeOK
    <3>3. n <= trigger'[q]
      BY <1>4, <3>1, <3>2, UpperType
    <3>4. delivery'[q] # "none"
      BY <2>5 DEF Swallows, StartsKept
    <3> QED BY <1>1, <2>3, <2>5, <3>3, <3>4 DEF Swallows
  <2> QED BY <2>1, <2>4, <2>5
<1> QED BY <1>2, <1>3, <1>4

LEMMA WindowsStep ==
  ASSUME IInv, IInv', SnapshotsFollowStart, WindowsAbut, StepKind
  PROVE  WindowsAbut'
<1> DEFINE Abut(t) ==
      /\ \A n \in 1 .. PreviousUpper(t)' : \E q \in Runs : Covers(q, t, n)'
      /\ \A n \in 1 .. Len(events'[t]) : PreviousUpper(t)' < n =>
           \E q \in Runs : Stands(q, t, n)' \/ Swallows(q, t, n)'
<1>1. CASE Moves
  <2>1. \A q \in Runs : status[q] # "absent" => trigger[q] <= trigger'[q]
    BY <1>1 DEF Moves, IInv, TypeOK
  <2>2. ASSUME NEW t \in Threads PROVE Abut(t)
    BY <1>1, <2>1, WindowsKept DEF Moves
  <2> QED BY <2>2 DEF WindowsAbut
<1>2. ASSUME NEW u \in Threads, Admits(u) PROVE WindowsAbut'
  <2>0. StartsKept /\ Len(events[u]) \in Nat
    BY <1>2, UpperType DEF Admits
  <2>m. PICK m \in Nat : m = Len(events[u]) + 1
    BY <2>0
  <2>1. PICK p \in Runs :
           /\ threadOf'[p] = u
           /\ status[p] = "absent" \/ (status[p] = "pending" /\ threadOf[p] = u)
           /\ status'[p] = "pending"
           /\ trigger' = [trigger EXCEPT ![p] = Len(events[u]) + 1]
    BY <1>2 DEF Admits
  <2>2. trigger'[p] = Len(events[u]) + 1 /\ \A q \in Runs : q # p => trigger'[q] = trigger[q]
    BY <2>1 DEF IInv, TypeOK
  <2>3. \A q \in Runs : status[q] # "absent" =>
           trigger[q] \in Nat /\ trigger[q] <= Len(events[threadOf[q]])
    <3> SUFFICES ASSUME NEW q \in Runs, status[q] # "absent"
                 PROVE  trigger[q] \in Nat /\ trigger[q] <= Len(events[threadOf[q]])
      OBVIOUS
    <3>1. threadOf[q] \in Threads /\ trigger[q] \in 1 .. Len(events[threadOf[q]])
      BY DEF IInv, RunRows, TypeOK
    <3> QED BY <3>1, UpperType
  <2>4. \A q \in Runs : status[q] # "absent" => trigger[q] <= trigger'[q]
    BY <2>0, <2>1, <2>2, <2>3
  <2>k. PreviousUpper(u)' = PreviousUpper(u) /\ PreviousUpper(u) < m
    <3>1. PreviousUpper(u)' = PreviousUpper(u)
      BY <2>0, <2>4, WindowsKept
    <3>2. PreviousUpper(u) \in Nat /\ PreviousUpper(u) <= Len(events[u])
      BY UpperType, UpperBound
    <3> QED BY <2>0, <2>m, <3>1, <3>2
  <2>5. Stands(p, u, m)' \/ Swallows(p, u, m)'
    <3>1. snapshot'[p] = snapshot[p]
      BY <2>0 DEF StartsKept, inputs
    <3>2. CASE snapshot[p] = NoSnapshot
      BY <2>1, <2>m, <2>k, <2>2, <3>1, <3>2 DEF Stands, Awaits, Unserved
    <3>3. CASE snapshot[p] # NoSnapshot
      <4>1. /\ status[p] = "pending" /\ threadOf[p] = u /\ delivery[p] # "none"
            /\ snapshot[p].hi <= Len(events[u])
        BY <2>1, <3>3 DEF SnapshotsFollowStart
      <4>2. snapshot[p].hi \in Nat
        BY DEF IInv, TypeOK, Snapshots
      <4>3. delivery'[p] # "none"
        BY <2>0, <4>1 DEF StartsKept
      <4>4. snapshot[p].hi < m /\ m <= trigger'[p]
        BY <2>0, <2>m, <2>2, <4>1, <4>2
      <4> QED BY <2>1, <3>1, <3>3, <4>3, <4>4 DEF Swallows
    <3> QED BY <3>2, <3>3
  <2>6. ASSUME NEW t \in Threads PROVE Abut(t)
    <3>1. /\ PreviousUpper(t)' = PreviousUpper(t)
          /\ \A n \in 1 .. PreviousUpper(t) : \E q \in Runs : Covers(q, t, n)'
          /\ \A n \in 1 .. Len(events[t]) : PreviousUpper(t) < n =>
               \E q \in Runs : Stands(q, t, n)' \/ Swallows(q, t, n)'
      BY <2>0, <2>4, WindowsKept
    <3>2. Len(events'[t]) = IF t = u THEN Len(events[t]) + 1 ELSE Len(events[t])
      BY <1>2, AppendedEvent
    <3>3. ASSUME NEW n \in 1 .. Len(events'[t]), PreviousUpper(t)' < n
          PROVE  \E q \in Runs : Stands(q, t, n)' \/ Swallows(q, t, n)'
      <4>1. CASE n \in 1 .. Len(events[t])
        BY <3>1, <3>3, <4>1
      <4>2. CASE n \notin 1 .. Len(events[t])
        <5>1. t = u /\ n = m
          BY <2>0, <2>m, <3>2, <3>3, <4>2, UpperType
        <5> QED BY <2>1, <2>5, <5>1
      <4> QED BY <4>1, <4>2
    <3> QED BY <3>1, <3>3
  <2> QED BY <2>6 DEF WindowsAbut
<1>3. ASSUME NEW r \in Pending, Starts(r) PROVE WindowsAbut'
  <2>1. /\ r \in Runs /\ threadOf[r] \in Threads
        /\ \A q \in Runs : q # r => status'[q] = status[q]
        /\ UNCHANGED <<events, threadOf, trigger, delivery>>
    BY <1>3, StartFrame
  <2>2. CASE snapshot[r] # NoSnapshot
    <3>1. UNCHANGED <<snapshot, latest>>
      BY <1>3, <2>2, LaterStart
    <3>2. ASSUME NEW t \in Threads PROVE Abut(t)
      <4>1. PreviousUpper(t)' = PreviousUpper(t)
        BY <3>1 DEF PreviousUpper
      <4>2. \A q \in Runs, n \in Nat : Covers(q, t, n)' = Covers(q, t, n)
        BY <2>1, <3>1 DEF Covers
      <4>3. \A q \in Runs, n \in Nat : Stands(q, t, n) => Stands(q, t, n)'
        BY <2>1, <2>2, <3>1, <4>1 DEF Stands, Awaits, Dropped, Unserved
      <4>4. \A q \in Runs, n \in Nat : Swallows(q, t, n) => Swallows(q, t, n)'
        BY <2>1, <3>1 DEF Swallows
      <4>5. ASSUME NEW n \in 1 .. PreviousUpper(t)' PROVE \E q \in Runs : Covers(q, t, n)'
        <5>1. n \in Nat /\ n \in 1 .. PreviousUpper(t)
          BY <4>1, <4>5, UpperType
        <5>2. PICK q \in Runs : Covers(q, t, n)
          BY <5>1 DEF WindowsAbut
        <5> QED BY <4>2, <5>1, <5>2
      <4>6. ASSUME NEW n \in 1 .. Len(events'[t]), PreviousUpper(t)' < n
            PROVE  \E q \in Runs : Stands(q, t, n)' \/ Swallows(q, t, n)'
        <5>1. n \in Nat /\ n \in 1 .. Len(events[t]) /\ PreviousUpper(t) < n
          BY <2>1, <4>1, <4>6, UpperType
        <5>2. PICK q \in Runs : Stands(q, t, n) \/ Swallows(q, t, n)
          BY <5>1 DEF WindowsAbut
        <5> QED BY <4>3, <4>4, <5>1, <5>2
      <4> QED BY <4>5, <4>6
    <3> QED BY <3>2 DEF WindowsAbut
  <2>3. CASE snapshot[r] = NoSnapshot
    <3> DEFINE new == snapshot'[r]
               u == threadOf[r]
    <3>1. /\ new \in Snapshots /\ new # NoSnapshot
          /\ new.hi = Len(events[u])
          /\ new.lo <= PreviousUpper(u) + 1
          /\ snapshot' = [snapshot EXCEPT ![r] = new]
          /\ latest' = [latest EXCEPT ![u] = r]
      BY <1>3, <2>3, FirstStart
    <3>2. \A q \in Runs : q # r => snapshot'[q] = snapshot[q]
      BY <2>1, <3>1 DEF IInv, TypeOK
    <3>3. ASSUME NEW t \in Threads, NEW n \in 1 .. PreviousUpper(t)
          PROVE  \E q \in Runs : Covers(q, t, n)'
      <4>1. PICK q \in Runs : Covers(q, t, n)
        BY <3>3 DEF WindowsAbut
      <4>2. q # r
        BY <2>3, <3>3, <4>1, UpperType, CoverHasSnapshot
      <4> QED BY <2>1, <3>2, <4>1, <4>2 DEF Covers
    <3>4. ASSUME NEW t \in Threads PROVE Abut(t)
      <4>1. CASE t = u
        <5>1. PreviousUpper(t)' = Len(events[t])
          <6>1. latest'[t] = r /\ r # 0
            BY <2>1, <3>1, <4>1 DEF IInv, TypeOK, Runs
          <6> QED BY <3>1, <4>1, <6>1 DEF PreviousUpper
        <5>2. ASSUME NEW n \in 1 .. Len(events[t])
              PROVE  \E q \in Runs : Covers(q, t, n)'
          <6>1. CASE n <= PreviousUpper(t)
            BY <3>3, <5>2, <6>1, UpperType
          <6>2. CASE ~ (n <= PreviousUpper(t))
            <7>1. new.lo \in Nat
              BY <3>1 DEF Snapshots
            <7>2. new.lo <= n /\ n <= new.hi
              BY <3>1, <4>1, <5>2, <6>2, <7>1, UpperType
            <7>3. Covers(r, t, n)'
              BY <2>1, <4>1, <7>2 DEF Covers
            <7> QED BY <2>1, <7>3
          <6> QED BY <6>1, <6>2
        <5>3. \A n \in 1 .. Len(events'[t]) : ~ (PreviousUpper(t)' < n)
          BY <2>1, <5>1, UpperType
        <5> QED BY <5>1, <5>2, <5>3
      <4>2. CASE t # u
        <5>1. PreviousUpper(t)' = PreviousUpper(t)
          <6>1. latest'[t] = latest[t]
            BY <2>1, <3>1, <4>2 DEF IInv, TypeOK
          <6>2. latest[t] # 0 => latest[t] \in Runs /\ latest[t] # r
            BY <2>3 DEF IInv, TypeOK, Runs, SnapshotsFollowStart
          <6> QED BY <3>2, <6>1, <6>2 DEF PreviousUpper
        <5>2. ASSUME NEW n \in 1 .. Len(events'[t]), PreviousUpper(t)' < n
              PROVE  \E q \in Runs : Stands(q, t, n)' \/ Swallows(q, t, n)'
          <6>1. PICK q \in Runs : Stands(q, t, n) \/ Swallows(q, t, n)
            BY <2>1, <5>1, <5>2 DEF WindowsAbut
          <6>2. q # r
            BY <2>3, <4>2, <6>1 DEF Stands, Awaits, Dropped, Unserved, Swallows
          <6> QED
            BY <2>1, <3>2, <5>1, <6>1, <6>2 DEF Stands, Awaits, Dropped, Unserved, Swallows
        <5> QED BY <3>3, <5>1, <5>2
      <4> QED BY <4>1, <4>2
    <3> QED BY <3>4 DEF WindowsAbut
  <2> QED BY <2>2, <2>3
<1> QED BY <1>1, <1>2, <1>3 DEF StepKind

LEMMA InitWindows == Init => WindowInv
<1> SUFFICES ASSUME Init PROVE WindowInv
  OBVIOUS
<1>1. SnapshotsFollowStart
  BY DEF Init, SnapshotsFollowStart, Unstarted, Idle
<1>2. \A t \in Threads : PreviousUpper(t) = 0 /\ Len(events[t]) = 0
  BY DEF Init, PreviousUpper
<1>3. WindowsAbut
  BY <1>2 DEF WindowsAbut
<1> QED BY <1>1, <1>3 DEF WindowInv

\* The windows leave no gap, and an Event above the last has its Run.
LEMMA WindowsAccount == IInv /\ WindowInv => EventsAccountedFor
<1> SUFFICES ASSUME IInv, WindowInv, NEW t \in Threads, NEW n \in 1 .. Len(events[t])
             PROVE  \E r \in Runs : Covers(r, t, n) \/ Stands(r, t, n) \/ Swallows(r, t, n)
  BY DEF EventsAccountedFor, Stands
<1>1. PreviousUpper(t) \in Nat /\ Len(events[t]) \in Nat
  BY UpperType
<1>2. CASE n <= PreviousUpper(t)
  BY <1>1, <1>2 DEF WindowInv, WindowsAbut
<1>3. CASE ~ (n <= PreviousUpper(t))
  <2>1. PreviousUpper(t) < n
    BY <1>1, <1>3
  <2> QED BY <2>1 DEF WindowInv, WindowsAbut
<1> QED BY <1>2, <1>3

LEMMA WindowsInductive == IInv /\ IInv' /\ WindowInv /\ [Next]_vars => WindowInv'
BY StepKinds, SnapshotsStep, WindowsStep DEF WindowInv

\* Whatever the model decides, an accepted Event is in the window of a snapshot, or
\* not above the trigger of a pending Run of its Thread or of one that was cancelled
\* before it started, or it was coalesced into a Run that a Delivery result had
\* resumed (upsertPendingRun, ensureSnapshot, CancelRun).
THEOREM EveryEventIsAccountedFor == Spec => []EventsAccountedFor
BY InitWindows, WindowsInductive, WindowsAccount, Inductive, PTL DEF Spec

\* Without Delivery decisions every accepted Event is in the window of a snapshot,
\* or will be when a pending Run of its Thread starts, or would have been had that
\* Run not been cancelled.
THEOREM NoEventIsLost == ASSUME NoResponse PROVE Spec => []EventsCovered
<1>1. Init => NoDelivery
  BY DEF Init, NoDelivery
<1>2. IInv /\ WindowInv /\ NoDelivery /\ [Next]_vars => NoDelivery'
  <2> SUFFICES ASSUME IInv, WindowInv, NoDelivery, [Next]_vars PROVE NoDelivery'
    OBVIOUS
  <2>1. StepKind
    BY StepKinds DEF WindowInv
  <2>2. CASE StartsKept
    BY <2>2 DEF StartsKept
  <2>3. CASE UNCHANGED delivery
    BY <2>3 DEF NoDelivery
  <2>4. ASSUME NEW r \in Pending, Starts(r) PROVE UNCHANGED delivery
    BY <2>4, StartFrame
  <2> QED BY <2>1, <2>2, <2>3, <2>4 DEF StepKind, Moves, Admits
<1>3. NoDelivery /\ EventsAccountedFor => EventsCovered
  BY DEF NoDelivery, EventsAccountedFor, EventsCovered, Swallows
<1> QED
  BY <1>1, <1>2, <1>3, InitWindows, WindowsInductive, Inductive,
     EveryEventIsAccountedFor, PTL DEF Spec
=============================================================================
