---------------------- MODULE AgentRunSchedulerProofs ----------------------
(***************************************************************************)
(* Proofs about AgentRunScheduler, for every set of Threads, policies and  *)
(* workers, every set of model outputs and every value of the bounds.      *)
(***************************************************************************)
EXTENDS AgentRunScheduler, WellFoundedInduction, FiniteSetTheorems, TLAPS

\* Rows of agent_runs are the numbers up to created, and a Run's trigger is an
\* Event of its Thread.
RunRows ==
  /\ \A r \in Runs : status[r] # "absent" <=> r <= created
  /\ \A r \in Runs : r <= created => trigger[r] \in 1 .. Len(events[threadOf[r]])

\* A callback in flight owns a Run that was started and has not been queued
\* again, and no two callbacks own the same.
CallbackOwnsRun ==
  /\ \A w \in Workers : worker[w].pc # "idle" =>
       status[worker[w].run] \in {"running"} \cup Terminal
  /\ \A v, w \in Workers :
       /\ worker[v].pc # "idle"
       /\ worker[w].pc # "idle"
       /\ worker[v].run = worker[w].run
       => v = w

\* The model is called when the invocation row is inserted, and only then.
CallsAreRecorded == \A r \in Runs : calls[r] = IF invoked[r] THEN 1 ELSE 0

\* Decisions are committed after the Run's only model call, so a Run whose
\* output is still awaited has committed none.
CommitFollowsCall ==
  /\ \A r \in Runs : effects[r] # {} => invoked[r]
  /\ \A w \in Workers : worker[w].pc = "model" =>
       effects[worker[w].run] = {} /\ invoked[worker[w].run]

IInv ==
  /\ TypeOK
  /\ RunRows
  /\ CallbackOwnsRun
  /\ CallsAreRecorded
  /\ CommitFollowsCall
  /\ SingleActiveRun

-----------------------------------------------------------------------------
(* Rows and snapshots *)

\* A nonempty set of row numbers has a least one, so the queries that order by
\* a number return a row.
LEMMA LeastExists ==
  ASSUME NEW T, T \subseteq Nat, T # {}
  PROVE  \E x \in T : \A y \in T : x <= y
<1> DEFINE R == {ss \in Nat \X Nat : ss[1] < ss[2]}
<1>1. IsWellFoundedOn(R, Nat)
  BY NatLessThanWellFounded DEF OpToRel
<1>2. \A x, y \in T : <<y, x>> \in R <=> y < x
  OBVIOUS
<1>3. \E x \in T : \A y \in T : <<y, x>> \notin R
  <2> HIDE DEF R
  <2> QED BY <1>1, WFMin
<1> HIDE DEF R
<1>4. PICK x \in T : \A y \in T : <<y, x>> \notin R
  BY <1>3
<1>5. \A y \in T : x <= y
  <2> TAKE y \in T
  <2>1. ~ (y < x)
    BY <1>2, <1>4
  <2> QED BY <2>1
<1> QED BY <1>5

\* findPendingRunForThread returns a pending Run of the Thread.
LEMMA OldestPendingIsPending ==
  ASSUME NEW t, PendingOn(t) # {}
  PROVE  OldestPending(t) \in PendingOn(t)
<1>1. PendingOn(t) \subseteq Nat
  BY DEF PendingOn, Pending, WithStatus, Runs
<1>2. \E x \in PendingOn(t) : \A y \in PendingOn(t) : x <= y
  BY <1>1, LeastExists
<1> QED BY <1>2 DEF OldestPending

\* The snapshot a pending Run starts with is a row of agent_run_inputs.
LEMMA SnapshotType ==
  ASSUME TypeOK, RunRows, NEW r \in Pending
  PROVE  RunSnapshot(r) \in Snapshots
<1>1. r \in Runs /\ threadOf[r] \in Threads
  BY DEF TypeOK, Pending, WithStatus
<1>2. trigger[r] \in 1 .. Len(events[threadOf[r]])
  BY <1>1 DEF RunRows, Pending, WithStatus
<1>3. events[threadOf[r]] \in Seq(Requests)
  BY <1>1 DEF TypeOK
<1>4. ResolveModelPolicy(threadOf[r], trigger[r]) \in PolicyRefs \cup {NoPolicy}
  <2>1. events[threadOf[r]][trigger[r]] \in Requests
    BY <1>2, <1>3
  <2> QED BY <2>1 DEF ResolveModelPolicy, Requests, TypeOK
<1>5. PreviousUpper(threadOf[r]) \in Nat
  BY <1>1 DEF PreviousUpper, TypeOK, Snapshots, Runs
<1>6. WindowStart(threadOf[r], trigger[r]) \in Nat
  BY <1>2, <1>5 DEF WindowStart
<1>7. CreateSnapshot(r) \in Snapshots
  BY <1>1, <1>3, <1>4, <1>6 DEF CreateSnapshot, Snapshots, TypeOK
<1> QED BY <1>1, <1>7 DEF RunSnapshot, TypeOK

-----------------------------------------------------------------------------
(* The writes the handlers share keep the types *)

RunTypes ==
  /\ created \in 0 .. MaxRuns
  /\ status \in [Runs -> RunStatus \cup {"absent"}]
  /\ threadOf \in [Runs -> Threads]
  /\ trigger \in [Runs -> Nat]
  /\ served \in [Runs -> Nat]

WakeTypes ==
  /\ wake \in {"idle", "pending"}
  /\ queued \in Nat
  /\ lost \in Nat

LEMMA EnqueueType ==
  ASSUME WakeTypes, NEW ok \in QueueOutcomes, NEW rows \in Nat,
         NEW state \in {"idle", "pending"},
         EnqueueSchedulerWake(ok, rows, state)
  PROVE  WakeTypes'
  BY DEF WakeTypes, EnqueueSchedulerWake, QueueOutcomes

LEMMA RequestWakeType ==
  ASSUME WakeTypes, NEW ok \in QueueOutcomes, RequestSchedulerWake(ok)
  PROVE  WakeTypes'
<1>1. CASE wake = "idle"
  BY <1>1, EnqueueType DEF RequestSchedulerWake, WakeTypes
<1>2. CASE wake # "idle"
  BY <1>2 DEF RequestSchedulerWake, WakeTypes, wakeVars
<1> QED BY <1>1, <1>2

LEMMA InsertType ==
  ASSUME RunTypes, NEW t \in Threads, NEW n \in Nat, NEW at \in Nat,
         NEW rows \in [Runs -> RunStatus \cup {"absent"}],
         InsertPendingRun(t, n, at, rows)
  PROVE  RunTypes'
<1>1. created + 1 \in Runs
  BY SchedulerAssumption DEF RunTypes, InsertPendingRun, Runs
<1> QED BY <1>1, SchedulerAssumption DEF RunTypes, InsertPendingRun, RunStatus, Runs

LEMMA UpsertType ==
  ASSUME RunTypes, NEW t \in Threads, NEW n \in Nat, NEW at \in Nat,
         NEW rows \in [Runs -> RunStatus \cup {"absent"}],
         UpsertPendingRun(t, n, at, rows)
  PROVE  RunTypes'
<1>1. CASE PendingOn(t) = {}
  BY <1>1, InsertType DEF UpsertPendingRun
<1>2. CASE PendingOn(t) # {}
  BY <1>2 DEF UpsertPendingRun, RunTypes
<1> QED BY <1>1, <1>2

LEMMA AppendType ==
  ASSUME TypeOK, NEW t \in Threads, NEW request \in Requests, AppendEvent(t, request)
  PROVE  events' \in [Threads -> Seq(Requests)]
  BY DEF TypeOK, AppendEvent

LEMMA AppendToThreadType ==
  ASSUME TypeOK, NEW t \in Threads, NEW request \in Requests,
         AppendEventToThread(t, request)
  PROVE  events' \in [Threads -> Seq(Requests)] /\ RunTypes'
<1>1. events' \in [Threads -> Seq(Requests)]
  BY AppendType DEF AppendEventToThread
<1>2. RunTypes /\ Len(events[t]) + 1 \in Nat /\ threadServed[t] \in Nat
  BY DEF TypeOK, RunTypes
<1> QED BY <1>1, <1>2, UpsertType DEF AppendEventToThread, RunTypes

LEMMA IdleType ==
  Idle \in [pc : {"idle", "digest", "model"}, run : Runs, more : BOOLEAN]
  BY SchedulerAssumption DEF Idle, Runs

LEMMA FinishType ==
  ASSUME TypeOK, NEW ok \in QueueOutcomes, NEW w \in Workers,
         NEW state \in {"idle", "pending"}, FinishBatch(w, ok, state)
  PROVE  /\ WakeTypes'
         /\ worker' \in [Workers -> [pc : {"idle", "digest", "model"},
                                     run : Runs, more : BOOLEAN]]
<1>1. worker' \in [Workers -> [pc : {"idle", "digest", "model"},
                                run : Runs, more : BOOLEAN]]
  BY IdleType DEF TypeOK, FinishBatch
<1>2. WakeTypes /\ queued \in Nat
  BY DEF WakeTypes, TypeOK
<1>3. WakeTypes'
  <2>1. CASE EnqueueSchedulerWake(ok, queued, state)
    BY <1>2, <2>1, EnqueueType
  <2>2. CASE wake' = state /\ UNCHANGED <<queued, lost>>
    BY <1>2, <2>2 DEF WakeTypes
  <2> QED BY <2>1, <2>2 DEF FinishBatch
<1> QED BY <1>1, <1>3

\* What a batch writes when it starts a Run.
LEMMA StartType ==
  ASSUME TypeOK, RunRows, NEW w \in Workers, NEW r \in Pending, BatchStart(w, r)
  PROVE  /\ r \in Runs
         /\ starts' \in Nat
         /\ snapshot' \in [Runs -> Snapshots]
         /\ latest' \in [Threads -> 0 .. MaxRuns]
         /\ served' \in [Runs -> Nat]
         /\ threadServed' \in [Threads -> Nat]
         /\ queued - 1 \in Nat
<1>1. r \in Runs /\ r \in 0 .. MaxRuns
  BY DEF Pending, WithStatus, Runs
<1>2. RunSnapshot(r) \in Snapshots
  BY SnapshotType
<1> QED BY <1>1, <1>2 DEF TypeOK, BatchStart, TakeRow

LEMMA WorkerStartType ==
  ASSUME TypeOK, NEW w \in Workers, NEW r \in Runs, NEW more \in BOOLEAN,
         worker' = [worker EXCEPT ![w] = [pc |-> "digest", run |-> r, more |-> more]]
  PROVE  worker' \in [Workers -> [pc : {"idle", "digest", "model"},
                                  run : Runs, more : BOOLEAN]]
  BY DEF TypeOK

LEMMA WorkerModelType ==
  ASSUME TypeOK, NEW w \in Workers,
         worker' = [worker EXCEPT ![w].pc = "model"]
  PROVE  worker' \in [Workers -> [pc : {"idle", "digest", "model"},
                                  run : Runs, more : BOOLEAN]]
<1>1. worker[w] \in [pc : {"idle", "digest", "model"}, run : Runs, more : BOOLEAN]
  BY DEF TypeOK
<1>2. [worker[w] EXCEPT !.pc = "model"]
        \in [pc : {"idle", "digest", "model"}, run : Runs, more : BOOLEAN]
  BY <1>1
<1>3. worker \in [Workers -> [pc : {"idle", "digest", "model"},
                              run : Runs, more : BOOLEAN]]
  BY DEF TypeOK
<1> QED BY <1>2, <1>3

\* Every step keeps the types of the rows.
LEMMA TypeStep ==
  ASSUME TypeOK, RunRows, [Next]_vars
  PROVE  TypeOK'
<1>1. ASSUME NEW ok \in QueueOutcomes, NEW t \in Threads, NEW o \in Overrides \cup {NoPolicy},
             PublishEvent(t, o, ok)
      PROVE  TypeOK'
  <2>1. events' \in [Threads -> Seq(Requests)] /\ RunTypes'
    <3>1. o \in Requests
      BY SchedulerAssumption DEF Requests
    <3> QED BY <1>1, <3>1, AppendToThreadType DEF PublishEvent
  <2>2. WakeTypes'
    BY <1>1, RequestWakeType DEF PublishEvent, WakeTypes, TypeOK
  <2>3. UNCHANGED threadServed
    BY <1>1 DEF PublishEvent, AppendEventToThread
  <2> QED
    BY <1>1, <2>1, <2>2, <2>3
    DEF PublishEvent, TypeOK, RunTypes, WakeTypes, inputs, results, admin
<1>2. ASSUME NEW ok \in QueueOutcomes, NEW t \in Threads,
             AcceptFoundationEvent(t, ok)
      PROVE  TypeOK'
  <2>1. events' \in [Threads -> Seq(Requests)]
    BY <1>2, AppendType DEF AcceptFoundationEvent, Requests
  <2>2. RunTypes'
    <3>1. RunTypes /\ Len(events[t]) + 1 \in Nat
      BY <1>2 DEF RunTypes, TypeOK
    <3> QED BY <1>2, <3>1, InsertType DEF AcceptFoundationEvent, RunTypes
  <2>3. WakeTypes'
    BY <1>2, RequestWakeType DEF AcceptFoundationEvent, WakeTypes, TypeOK
  <2> QED
    BY <1>2, <2>1, <2>2, <2>3
    DEF AcceptFoundationEvent, TypeOK, RunTypes, WakeTypes, inputs, results, admin
<1>3. ASSUME NEW ok \in QueueOutcomes, NEW r \in Runs, CancelRun(r) PROVE TypeOK'
  BY <1>3
  DEF CancelRun, TypeOK, RunStatus, Terminal, mailbox, runVars, inputs, results,
      wakeVars, admin
<1>4. ASSUME NEW ok \in QueueOutcomes, NEW r \in Runs, NEW d \in {"open", "closed"},
             DeliveryResume(r, d, ok)
      PROVE  TypeOK'
  <2>1. WakeTypes'
    BY <1>4, RequestWakeType DEF DeliveryResume, WakeTypes, TypeOK
  <2> QED
    BY <1>4, <2>1
    DEF DeliveryResume, TypeOK, WakeTypes, RunStatus, mailbox, inputs, admin
<1>5. ASSUME NEW ok \in QueueOutcomes, NEW r \in Runs, NEW d \in {"open", "closed"},
             DeliveryTerminalFailure(r, d)
      PROVE  TypeOK'
  BY <1>5
  DEF DeliveryTerminalFailure, TypeOK, RunStatus, Terminal, mailbox, runVars,
      inputs, results, wakeVars, admin
<1>6. ASSUME NEW ok \in QueueOutcomes, NEW r \in Runs,
             DeliveryFollowUp(r, ok)
      PROVE  TypeOK'
  <2>1. events' \in [Threads -> Seq(Requests)] /\ RunTypes'
    <3>1. threadOf[r] \in Threads /\ NoPolicy \in Requests
      BY <1>6 DEF TypeOK, Requests
    <3> QED BY <1>6, <3>1, AppendToThreadType DEF DeliveryFollowUp
  <2>2. WakeTypes'
    BY <1>6, RequestWakeType DEF DeliveryFollowUp, WakeTypes, TypeOK
  <2>3. UNCHANGED threadServed
    BY <1>6 DEF DeliveryFollowUp, AppendEventToThread
  <2> QED
    BY <1>6, <2>1, <2>2, <2>3
    DEF DeliveryFollowUp, TypeOK, RunTypes, WakeTypes, inputs, results, admin
<1>7. ASSUME NEW ok \in QueueOutcomes, NEW p \in PolicyRefs,
             UpdateConfig(p)
      PROVE  TypeOK'
  BY <1>7
  DEF UpdateConfig, TypeOK, RunStatus, Terminal, mailbox, runVars, inputs, results,
      wakeVars, admin
<1>8. ASSUME NEW ok \in QueueOutcomes, NEW p \in PolicyRefs,
             UpsertModelPolicy(p)
      PROVE  TypeOK'
  BY <1>8
  DEF UpsertModelPolicy, WriteModelPolicy, TypeOK, mailbox, runVars, inputs,
      results, wakeVars, admin
<1>9. ASSUME NEW ok \in QueueOutcomes, NEW p \in PolicyRefs,
             ArchiveModelPolicy(p)
      PROVE  TypeOK'
  BY <1>9
  DEF ArchiveModelPolicy, WriteModelPolicy, TypeOK, mailbox, runVars, inputs,
      results, wakeVars, admin
<1>10. ASSUME NEW ok \in QueueOutcomes, DestroyAgent PROVE TypeOK'
  BY <1>10
  DEF DestroyAgent, TypeOK, RunStatus, Terminal, mailbox, runVars, inputs, results,
      wakeVars, admin
<1>11. ASSUME NEW ok \in QueueOutcomes, Evict PROVE TypeOK'
  <2>1. Cardinality(Busy) \in Nat
    <3>1. IsFiniteSet(Busy)
      BY SchedulerAssumption, FS_Subset DEF Busy
    <3> QED BY <3>1, FS_CardinalityType
  <2>2. queued' \in Nat
    BY <1>11, <2>1 DEF Evict, TypeOK
  <2>3. worker' \in [Workers -> [pc : {"idle", "digest", "model"},
                                 run : Runs, more : BOOLEAN]]
    BY <1>11, IdleType DEF Evict
  <2> QED
    BY <1>11, <2>2, <2>3 DEF Evict, TypeOK, mailbox, runVars, inputs, results, admin
<1>12. ASSUME NEW ok \in QueueOutcomes, NEW w \in Workers, BatchIdle(w) PROVE TypeOK'
  <2>1. wake' \in {"idle", "pending"} /\ queued' \in Nat
    BY <1>12 DEF BatchIdle, TakeRow, TypeOK
  <2> QED
    BY <1>12, <2>1
    DEF BatchIdle, TypeOK, mailbox, runVars, inputs, results, admin
<1>13. ASSUME NEW ok \in QueueOutcomes, NEW w \in Workers,
             BatchActiveBlocked(w)
      PROVE  TypeOK'
  <2>1. wake' \in {"idle", "pending"} /\ queued' \in Nat
    BY <1>13 DEF BatchActiveBlocked, TakeRow, TypeOK
  <2> QED
    BY <1>13, <2>1
    DEF BatchActiveBlocked, TypeOK, mailbox, runVars, inputs, results, admin
<1>14. ASSUME NEW ok \in QueueOutcomes, NEW w \in Workers,
             BatchStartRun(w)
      PROVE  TypeOK'
  <2>1. PICK r \in Pending :
           /\ BatchStart(w, r)
           /\ status' = [status EXCEPT ![r] = "running"]
           /\ worker' = [worker EXCEPT ![w] = [pc |-> "digest", run |-> r,
                                               more |-> Remaining(r) # {}]]
           /\ wake' = WakeAfterBatch(r)
           /\ queued' = queued - 1
           /\ UNCHANGED lost
    BY <1>14 DEF BatchStartRun
  <2>2. worker' \in [Workers -> [pc : {"idle", "digest", "model"},
                                 run : Runs, more : BOOLEAN]]
    BY <1>14, <2>1, StartType, WorkerStartType
  <2>3. /\ status' \in [Runs -> RunStatus \cup {"absent"}]
        /\ wake' \in {"idle", "pending"}
    BY <2>1 DEF TypeOK, RunStatus, WakeAfterBatch
  <2> QED
    BY <1>14, <2>1, <2>2, <2>3, StartType DEF BatchStart, TypeOK, results, admin
<1>15. ASSUME NEW ok \in QueueOutcomes, NEW w \in Workers,
             BatchInvalidPolicy(w, ok)
      PROVE  TypeOK'
  <2>1. PICK r \in Pending :
           /\ BatchStart(w, r)
           /\ status' = [status EXCEPT ![r] = "failed"]
           /\ \/ EnqueueSchedulerWake(ok, queued - 1, WakeAfterBatch(r))
              \/ /\ queued' = queued - 1
                 /\ wake' = WakeAfterBatch(r)
                 /\ UNCHANGED lost
           /\ UNCHANGED worker
    BY <1>15 DEF BatchInvalidPolicy
  <2>2. /\ status' \in [Runs -> RunStatus \cup {"absent"}]
        /\ WakeAfterBatch(r) \in {"idle", "pending"}
    BY <2>1 DEF TypeOK, RunStatus, Terminal, WakeAfterBatch
  <2>3. WakeTypes'
    <3>1. WakeTypes /\ queued - 1 \in Nat
      BY <1>15, <2>1, StartType DEF WakeTypes, TypeOK
    <3> QED BY <1>15, <2>1, <2>2, <3>1, EnqueueType DEF WakeTypes
  <2> QED
    BY <1>15, <2>1, <2>2, <2>3, StartType
    DEF BatchStart, TypeOK, WakeTypes, results, admin
<1>16. ASSUME NEW ok \in QueueOutcomes, NEW w \in Workers,
             StartInvocation(w)
      PROVE  TypeOK'
  <2>1. worker' = [worker EXCEPT ![w].pc = "model"]
    BY <1>16 DEF StartInvocation
  <2>2. worker' \in [Workers -> [pc : {"idle", "digest", "model"},
                                 run : Runs, more : BOOLEAN]]
    BY <2>1, WorkerModelType
  <2>3. invoked' \in [Runs -> BOOLEAN] /\ calls' \in [Runs -> Nat]
    BY <1>16 DEF StartInvocation, TypeOK
  <2> QED
    BY <1>16, <2>2, <2>3
    DEF StartInvocation, TypeOK, mailbox, runVars, inputs, wakeVars, admin
<1>17. ASSUME NEW ok \in QueueOutcomes, NEW w \in Workers,
             StartInvocationConflict(w, ok)
      PROVE  TypeOK'
  <2>1. worker' \in [Workers -> [pc : {"idle", "digest", "model"},
                                 run : Runs, more : BOOLEAN]]
    BY <1>17, IdleType DEF StartInvocationConflict, TypeOK
  <2>2. queued' \in Nat
    BY <1>17 DEF StartInvocationConflict, TypeOK
  <2> QED
    BY <1>17, <2>1, <2>2
    DEF StartInvocationConflict, TypeOK, mailbox, runVars, inputs, results, admin
<1>18. ASSUME NEW ok \in QueueOutcomes, NEW w \in Workers, FailRun(w, ok) PROVE TypeOK'
  <2>1. /\ WakeTypes'
        /\ worker' \in [Workers -> [pc : {"idle", "digest", "model"},
                                    run : Runs, more : BOOLEAN]]
    <3>1. FinishBatch(w, ok, wake) /\ wake \in {"idle", "pending"}
      BY <1>18 DEF FailRun, TypeOK
    <3> QED BY <1>18, <3>1, FinishType
  <2> QED
    BY <1>18, <2>1
    DEF FailRun, TypeOK, WakeTypes, RunStatus, Terminal, mailbox, inputs, results, admin
<1>19. ASSUME NEW ok \in QueueOutcomes, NEW w \in Workers,
             DiscardStaleResult(w, ok)
      PROVE  TypeOK'
  <2>1. /\ WakeTypes'
        /\ worker' \in [Workers -> [pc : {"idle", "digest", "model"},
                                    run : Runs, more : BOOLEAN]]
    <3>1. FinishBatch(w, ok, wake) /\ wake \in {"idle", "pending"}
      BY <1>19 DEF DiscardStaleResult, TypeOK
    <3> QED BY <1>19, <3>1, FinishType
  <2> QED
    BY <1>19, <2>1
    DEF DiscardStaleResult, TypeOK, WakeTypes, RunStatus, Terminal, mailbox, inputs, results, admin
<1>20. ASSUME NEW ok \in QueueOutcomes, NEW w \in Workers, NEW out \in Outputs,
             CommitModelOutput(w, out, ok)
      PROVE  TypeOK'
  <2> DEFINE r == worker[w].run
             next == [status EXCEPT ![r] = IF Waits(out) THEN "waiting" ELSE out.ends]
  <2>1. r \in Runs /\ threadOf[r] \in Threads /\ out \in OutputType
    BY <1>20, SchedulerAssumption DEF TypeOK
  <2>2. next \in [Runs -> RunStatus \cup {"absent"}]
    BY <2>1 DEF TypeOK, RunStatus, Terminal, OutputType
  <2>3. events' \in [Threads -> Seq(Requests)] /\ RunTypes'
    <3>1. CASE "emit_event" \in out.does
      <4>1. NoPolicy \in Requests
        BY DEF Requests
      <4>2. AppendEvent(threadOf[r], NoPolicy)
        BY <1>20, <3>1 DEF CommitModelOutput
      <4>3. RunTypes /\ Len(events[threadOf[r]]) + 1 \in Nat /\ served[r] \in Nat
        BY <2>1 DEF TypeOK, RunTypes
      <4>4. UpsertPendingRun(threadOf[r], Len(events[threadOf[r]]) + 1, served[r], next)
        BY <1>20, <3>1 DEF CommitModelOutput
      <4>5. RunTypes'
        <5> HIDE DEF next
        <5> QED BY <2>1, <2>2, <4>3, <4>4, UpsertType
      <4> QED BY <2>1, <4>1, <4>2, <4>5, AppendType
    <3>2. CASE "emit_event" \notin out.does
      <4>1. status' = next /\ UNCHANGED <<events, created, threadOf, trigger, served>>
        BY <1>20, <3>2 DEF CommitModelOutput
      <4> QED BY <2>2, <4>1 DEF TypeOK, RunTypes
    <3> QED BY <3>1, <3>2
  <2>4. /\ WakeTypes'
        /\ worker' \in [Workers -> [pc : {"idle", "digest", "model"},
                                    run : Runs, more : BOOLEAN]]
    <3>1. \E state \in {"idle", "pending"} : FinishBatch(w, ok, state)
      BY <1>20 DEF CommitModelOutput, TypeOK
    <3> QED BY <1>20, <3>1, FinishType
  <2>5. /\ effects' \in [Runs -> SUBSET DecisionKinds]
        /\ delivery' \in [Runs -> {"none", "open", "closed"}]
    BY <1>20, <2>1 DEF CommitModelOutput, TypeOK, OutputType
  <2>6. UNCHANGED <<threadServed, starts, inputs, invoked, calls, interrupt, admin>>
    BY <1>20 DEF CommitModelOutput
  <2> QED
    BY <2>3, <2>4, <2>5, <2>6 DEF TypeOK, RunTypes, WakeTypes, inputs, admin
<1>21. CASE UNCHANGED vars
  BY <1>21 DEF TypeOK, vars, mailbox, runVars, inputs, results, wakeVars, admin
<1> QED
  BY ZenonT(60), <1>1, <1>2, <1>3, <1>4, <1>5, <1>6, <1>7, <1>8, <1>9,
     <1>10, <1>11, <1>12, <1>13, <1>14, <1>15, <1>16, <1>17, <1>18, <1>19,
     <1>20, <1>21
  DEF Next, Operation, ProcessPendingRuns

-----------------------------------------------------------------------------
(* The slot *)

\* What a handler that admits a Run writes to agent_runs makes no Run running.
LEMMA UpsertStartsNone ==
  ASSUME NEW t, NEW n, NEW at, NEW rows \in [Runs -> RunStatus \cup {"absent"}],
         UpsertPendingRun(t, n, at, rows)
  PROVE  \A q \in Runs : status'[q] = "running" => rows[q] = "running"
  BY DEF UpsertPendingRun, InsertPendingRun

\* Only a batch that finds no running Run makes one running.
LEMMA SlotStep ==
  ASSUME TypeOK, SingleActiveRun, [Next]_vars
  PROVE  SingleActiveRun'
<1>1. ASSUME NEW ok \in QueueOutcomes, NEW t \in Threads, NEW o \in Overrides \cup {NoPolicy},
             PublishEvent(t, o, ok)
      PROVE  SingleActiveRun'
  <2>1. UpsertPendingRun(t, Len(events[t]) + 1, threadServed[t], status)
    BY <1>1 DEF PublishEvent, AppendEventToThread
  <2>2. status \in [Runs -> RunStatus \cup {"absent"}]
    BY DEF TypeOK
  <2> QED BY <2>1, <2>2, UpsertStartsNone DEF SingleActiveRun
<1>2. ASSUME NEW ok \in QueueOutcomes, NEW t \in Threads,
             AcceptFoundationEvent(t, ok)
      PROVE  SingleActiveRun'
  BY <1>2 DEF AcceptFoundationEvent, InsertPendingRun, SingleActiveRun, TypeOK
<1>3. ASSUME NEW ok \in QueueOutcomes, NEW r \in Runs,
             CancelRun(r)
      PROVE  SingleActiveRun'
  BY <1>3 DEF CancelRun, SingleActiveRun, TypeOK, runVars
<1>4. ASSUME NEW ok \in QueueOutcomes, NEW r \in Runs, NEW d \in {"open", "closed"},
             DeliveryResume(r, d, ok)
      PROVE  SingleActiveRun'
  BY <1>4 DEF DeliveryResume, SingleActiveRun, TypeOK, runVars
<1>5. ASSUME NEW ok \in QueueOutcomes, NEW r \in Runs, NEW d \in {"open", "closed"},
             DeliveryTerminalFailure(r, d)
      PROVE  SingleActiveRun'
  BY <1>5 DEF DeliveryTerminalFailure, SingleActiveRun, TypeOK, runVars
<1>6. ASSUME NEW ok \in QueueOutcomes, NEW r \in Runs,
             DeliveryFollowUp(r, ok)
      PROVE  SingleActiveRun'
  <2>1. UpsertPendingRun(threadOf[r], Len(events[threadOf[r]]) + 1, threadServed[threadOf[r]],
                         status)
    BY <1>6 DEF DeliveryFollowUp, AppendEventToThread
  <2>2. status \in [Runs -> RunStatus \cup {"absent"}]
    BY DEF TypeOK
  <2> QED BY <2>1, <2>2, UpsertStartsNone DEF SingleActiveRun
<1>7. ASSUME NEW ok \in QueueOutcomes, NEW p \in PolicyRefs,
             UpdateConfig(p)
      PROVE  SingleActiveRun'
  BY <1>7 DEF UpdateConfig, SingleActiveRun, TypeOK, runVars
<1>8. ASSUME NEW ok \in QueueOutcomes, NEW p \in PolicyRefs,
             UpsertModelPolicy(p)
      PROVE  SingleActiveRun'
  BY <1>8 DEF UpsertModelPolicy, WriteModelPolicy, SingleActiveRun, runVars
<1>9. ASSUME NEW ok \in QueueOutcomes, NEW p \in PolicyRefs,
             ArchiveModelPolicy(p)
      PROVE  SingleActiveRun'
  BY <1>9 DEF ArchiveModelPolicy, WriteModelPolicy, SingleActiveRun, runVars
<1>10. ASSUME NEW ok \in QueueOutcomes, DestroyAgent PROVE SingleActiveRun'
  BY <1>10 DEF DestroyAgent, SingleActiveRun, TypeOK, runVars
<1>11. ASSUME NEW ok \in QueueOutcomes, Evict PROVE SingleActiveRun'
  BY <1>11 DEF Evict, SingleActiveRun, TypeOK, runVars
<1>12. ASSUME NEW ok \in QueueOutcomes, NEW w \in Workers,
             BatchIdle(w)
      PROVE  SingleActiveRun'
  BY <1>12 DEF BatchIdle, SingleActiveRun, TypeOK, runVars
<1>13. ASSUME NEW ok \in QueueOutcomes, NEW w \in Workers,
             BatchActiveBlocked(w)
      PROVE  SingleActiveRun'
  BY <1>13 DEF BatchActiveBlocked, SingleActiveRun, TypeOK, runVars
<1>14. ASSUME NEW ok \in QueueOutcomes, NEW w \in Workers,
             BatchStartRun(w)
      PROVE  SingleActiveRun'
  BY <1>14
  DEF BatchStartRun, BatchStart, SlotFree, Running, WithStatus, SingleActiveRun,
      TypeOK
<1>15. ASSUME NEW ok \in QueueOutcomes, NEW w \in Workers,
             BatchInvalidPolicy(w, ok)
      PROVE  SingleActiveRun'
  BY <1>15 DEF BatchInvalidPolicy, SingleActiveRun, TypeOK
<1>16. ASSUME NEW ok \in QueueOutcomes, NEW w \in Workers,
             StartInvocation(w)
      PROVE  SingleActiveRun'
  BY <1>16 DEF StartInvocation, SingleActiveRun, TypeOK, runVars
<1>17. ASSUME NEW ok \in QueueOutcomes, NEW w \in Workers,
             StartInvocationConflict(w, ok)
      PROVE  SingleActiveRun'
  BY <1>17 DEF StartInvocationConflict, SingleActiveRun, TypeOK, runVars
<1>18. ASSUME NEW ok \in QueueOutcomes, NEW w \in Workers,
             FailRun(w, ok)
      PROVE  SingleActiveRun'
  BY <1>18 DEF FailRun, SingleActiveRun, TypeOK, runVars
<1>19. ASSUME NEW ok \in QueueOutcomes, NEW w \in Workers,
             DiscardStaleResult(w, ok)
      PROVE  SingleActiveRun'
  BY <1>19 DEF DiscardStaleResult, SingleActiveRun, TypeOK, runVars
<1>20. ASSUME NEW ok \in QueueOutcomes, NEW w \in Workers, NEW out \in Outputs,
             CommitModelOutput(w, out, ok)
      PROVE  SingleActiveRun'
  <2> DEFINE r == worker[w].run
             next == [status EXCEPT ![r] = IF Waits(out) THEN "waiting" ELSE out.ends]
  <2>1. /\ r \in Runs
        /\ next \in [Runs -> RunStatus \cup {"absent"}]
        /\ \A q \in Runs : next[q] = "running" => status[q] = "running"
    BY <1>20, SchedulerAssumption DEF TypeOK, OutputType, RunStatus, Terminal
  <2>2. \/ status' = next
        \/ UpsertPendingRun(threadOf[r], Len(events[threadOf[r]]) + 1, served[r], next)
    BY <1>20 DEF CommitModelOutput
  <2>3. \A q \in Runs : status'[q] = "running" => next[q] = "running"
    <3> HIDE DEF next
    <3> QED BY <2>1, <2>2, UpsertStartsNone
  <2> QED BY <2>1, <2>3 DEF SingleActiveRun
<1>21. CASE UNCHANGED vars
  BY <1>21 DEF SingleActiveRun, vars, runVars
<1> QED
  BY ZenonT(60), <1>1, <1>2, <1>3, <1>4, <1>5, <1>6, <1>7, <1>8, <1>9,
     <1>10, <1>11, <1>12, <1>13, <1>14, <1>15, <1>16, <1>17, <1>18, <1>19,
     <1>20, <1>21
  DEF Next, Operation, ProcessPendingRuns

\* The invocation row and the call are written together, once.
LEMMA CallsStep ==
  ASSUME TypeOK, CallsAreRecorded, [Next]_vars
  PROVE  CallsAreRecorded'
<1>1. ASSUME NEW ok \in QueueOutcomes, NEW t \in Threads, NEW o \in Overrides \cup {NoPolicy},
             PublishEvent(t, o, ok)
      PROVE  CallsAreRecorded'
  BY <1>1 DEF PublishEvent, CallsAreRecorded, results
<1>2. ASSUME NEW ok \in QueueOutcomes, NEW t \in Threads,
             AcceptFoundationEvent(t, ok)
      PROVE  CallsAreRecorded'
  BY <1>2 DEF AcceptFoundationEvent, CallsAreRecorded, results
<1>3. ASSUME NEW ok \in QueueOutcomes, NEW r \in Runs,
             CancelRun(r)
      PROVE  CallsAreRecorded'
  BY <1>3 DEF CancelRun, CallsAreRecorded, results
<1>4. ASSUME NEW ok \in QueueOutcomes, NEW r \in Runs, NEW d \in {"open", "closed"},
             DeliveryResume(r, d, ok)
      PROVE  CallsAreRecorded'
  BY <1>4 DEF DeliveryResume, CallsAreRecorded, results
<1>5. ASSUME NEW ok \in QueueOutcomes, NEW r \in Runs, NEW d \in {"open", "closed"},
             DeliveryTerminalFailure(r, d)
      PROVE  CallsAreRecorded'
  BY <1>5 DEF DeliveryTerminalFailure, CallsAreRecorded, results
<1>6. ASSUME NEW ok \in QueueOutcomes, NEW r \in Runs,
             DeliveryFollowUp(r, ok)
      PROVE  CallsAreRecorded'
  BY <1>6 DEF DeliveryFollowUp, CallsAreRecorded, results
<1>7. ASSUME NEW ok \in QueueOutcomes, NEW p \in PolicyRefs,
             UpdateConfig(p)
      PROVE  CallsAreRecorded'
  BY <1>7 DEF UpdateConfig, CallsAreRecorded, results
<1>8. ASSUME NEW ok \in QueueOutcomes, NEW p \in PolicyRefs,
             UpsertModelPolicy(p)
      PROVE  CallsAreRecorded'
  BY <1>8 DEF UpsertModelPolicy, WriteModelPolicy, CallsAreRecorded, results
<1>9. ASSUME NEW ok \in QueueOutcomes, NEW p \in PolicyRefs,
             ArchiveModelPolicy(p)
      PROVE  CallsAreRecorded'
  BY <1>9 DEF ArchiveModelPolicy, WriteModelPolicy, CallsAreRecorded, results
<1>10. ASSUME NEW ok \in QueueOutcomes, DestroyAgent PROVE CallsAreRecorded'
  BY <1>10 DEF DestroyAgent, CallsAreRecorded, results
<1>11. ASSUME NEW ok \in QueueOutcomes, Evict PROVE CallsAreRecorded'
  BY <1>11 DEF Evict, CallsAreRecorded, results
<1>12. ASSUME NEW ok \in QueueOutcomes, NEW w \in Workers,
             BatchIdle(w)
      PROVE  CallsAreRecorded'
  BY <1>12 DEF BatchIdle, CallsAreRecorded, results
<1>13. ASSUME NEW ok \in QueueOutcomes, NEW w \in Workers,
             BatchActiveBlocked(w)
      PROVE  CallsAreRecorded'
  BY <1>13 DEF BatchActiveBlocked, CallsAreRecorded, results
<1>14. ASSUME NEW ok \in QueueOutcomes, NEW w \in Workers,
             BatchStartRun(w)
      PROVE  CallsAreRecorded'
  BY <1>14 DEF BatchStartRun, BatchStart, CallsAreRecorded, results
<1>15. ASSUME NEW ok \in QueueOutcomes, NEW w \in Workers,
             BatchInvalidPolicy(w, ok)
      PROVE  CallsAreRecorded'
  BY <1>15 DEF BatchInvalidPolicy, BatchStart, CallsAreRecorded, results
<1>16. ASSUME NEW ok \in QueueOutcomes, NEW w \in Workers,
             StartInvocation(w)
      PROVE  CallsAreRecorded'
  BY <1>16 DEF StartInvocation, InvocationFree, CallsAreRecorded, TypeOK
<1>17. ASSUME NEW ok \in QueueOutcomes, NEW w \in Workers,
             StartInvocationConflict(w, ok)
      PROVE  CallsAreRecorded'
  BY <1>17 DEF StartInvocationConflict, CallsAreRecorded, results
<1>18. ASSUME NEW ok \in QueueOutcomes, NEW w \in Workers,
             FailRun(w, ok)
      PROVE  CallsAreRecorded'
  BY <1>18 DEF FailRun, CallsAreRecorded, results
<1>19. ASSUME NEW ok \in QueueOutcomes, NEW w \in Workers,
             DiscardStaleResult(w, ok)
      PROVE  CallsAreRecorded'
  BY <1>19 DEF DiscardStaleResult, CallsAreRecorded, results
<1>20. ASSUME NEW ok \in QueueOutcomes, NEW w \in Workers, NEW out \in Outputs,
             CommitModelOutput(w, out, ok)
      PROVE  CallsAreRecorded'
  BY <1>20 DEF CommitModelOutput, CallsAreRecorded, results
<1>21. CASE UNCHANGED vars
  BY <1>21 DEF CallsAreRecorded, vars, results
<1> QED
  BY ZenonT(60), <1>1, <1>2, <1>3, <1>4, <1>5, <1>6, <1>7, <1>8, <1>9,
     <1>10, <1>11, <1>12, <1>13, <1>14, <1>15, <1>16, <1>17, <1>18, <1>19,
     <1>20, <1>21
  DEF Next, Operation, ProcessPendingRuns

-----------------------------------------------------------------------------
(* Commits *)

\* A step that commits nothing and starts no model call keeps the commits after
\* the calls.
LEMMA CommitKept ==
  ASSUME CommitFollowsCall, TypeOK, UNCHANGED effects,
         \A q \in Runs : invoked[q] => invoked'[q],
         \A v \in Workers : worker'[v].pc = "model" =>
           worker[v].pc = "model" /\ worker'[v].run = worker[v].run
  PROVE  CommitFollowsCall'
<1>1. \A v \in Workers : worker[v].run \in Runs
  BY DEF TypeOK
<1> QED BY <1>1 DEF CommitFollowsCall

\* A Run commits after its only model call.
LEMMA CommitStep ==
  ASSUME TypeOK, CallbackOwnsRun, CommitFollowsCall, [Next]_vars
  PROVE  CommitFollowsCall'
<1>1. ASSUME NEW ok \in QueueOutcomes, NEW t \in Threads, NEW o \in Overrides \cup {NoPolicy},
             PublishEvent(t, o, ok)
      PROVE  CommitFollowsCall'
  BY <1>1, CommitKept DEF PublishEvent, results
<1>2. ASSUME NEW ok \in QueueOutcomes, NEW t \in Threads,
             AcceptFoundationEvent(t, ok)
      PROVE  CommitFollowsCall'
  BY <1>2, CommitKept DEF AcceptFoundationEvent, results
<1>3. ASSUME NEW ok \in QueueOutcomes, NEW r \in Runs,
             CancelRun(r)
      PROVE  CommitFollowsCall'
  BY <1>3, CommitKept DEF CancelRun
<1>4. ASSUME NEW ok \in QueueOutcomes, NEW r \in Runs, NEW d \in {"open", "closed"},
             DeliveryResume(r, d, ok)
      PROVE  CommitFollowsCall'
  BY <1>4, CommitKept DEF DeliveryResume
<1>5. ASSUME NEW ok \in QueueOutcomes, NEW r \in Runs, NEW d \in {"open", "closed"},
             DeliveryTerminalFailure(r, d)
      PROVE  CommitFollowsCall'
  BY <1>5, CommitKept DEF DeliveryTerminalFailure
<1>6. ASSUME NEW ok \in QueueOutcomes, NEW r \in Runs,
             DeliveryFollowUp(r, ok)
      PROVE  CommitFollowsCall'
  BY <1>6, CommitKept DEF DeliveryFollowUp, results
<1>7. ASSUME NEW ok \in QueueOutcomes, NEW p \in PolicyRefs,
             UpdateConfig(p)
      PROVE  CommitFollowsCall'
  BY <1>7, CommitKept DEF UpdateConfig, results
<1>8. ASSUME NEW ok \in QueueOutcomes, NEW p \in PolicyRefs,
             UpsertModelPolicy(p)
      PROVE  CommitFollowsCall'
  BY <1>8, CommitKept DEF UpsertModelPolicy, WriteModelPolicy, results
<1>9. ASSUME NEW ok \in QueueOutcomes, NEW p \in PolicyRefs,
             ArchiveModelPolicy(p)
      PROVE  CommitFollowsCall'
  BY <1>9, CommitKept DEF ArchiveModelPolicy, WriteModelPolicy, results
<1>10. ASSUME NEW ok \in QueueOutcomes, DestroyAgent PROVE CommitFollowsCall'
  BY <1>10, CommitKept DEF DestroyAgent, results
<1>11. ASSUME NEW ok \in QueueOutcomes, Evict PROVE CommitFollowsCall'
  BY <1>11, CommitKept DEF Evict, Idle, results
<1>12. ASSUME NEW ok \in QueueOutcomes, NEW w \in Workers,
             BatchIdle(w)
      PROVE  CommitFollowsCall'
  BY <1>12, CommitKept DEF BatchIdle, results
<1>13. ASSUME NEW ok \in QueueOutcomes, NEW w \in Workers,
             BatchActiveBlocked(w)
      PROVE  CommitFollowsCall'
  BY <1>13, CommitKept DEF BatchActiveBlocked, results
<1>14. ASSUME NEW ok \in QueueOutcomes, NEW w \in Workers,
             BatchStartRun(w)
      PROVE  CommitFollowsCall'
  <2>1. PICK r \in Pending : /\ BatchStart(w, r)
                           /\ worker' = [worker EXCEPT ![w] =
                                [pc |-> "digest", run |-> r, more |-> Remaining(r) # {}]]
    BY <1>14 DEF BatchStartRun
  <2> QED BY <2>1, CommitKept DEF BatchStart, TypeOK, results
<1>15. ASSUME NEW ok \in QueueOutcomes, NEW w \in Workers,
             BatchInvalidPolicy(w, ok)
      PROVE  CommitFollowsCall'
  BY <1>15, CommitKept DEF BatchInvalidPolicy, BatchStart, results
<1>16. ASSUME NEW ok \in QueueOutcomes, NEW w \in Workers,
             StartInvocation(w)
      PROVE  CommitFollowsCall'
  <2> DEFINE r == worker[w].run
  <2>1. /\ worker' = [worker EXCEPT ![w].pc = "model"]
        /\ ~ invoked[r]
        /\ invoked' = [invoked EXCEPT ![r] = TRUE]
        /\ UNCHANGED effects
    BY <1>16 DEF StartInvocation, InvocationFree
  <2>2. r \in Runs /\ effects[r] = {} /\ \A v \in Workers : worker[v].run \in Runs
    BY <2>1 DEF CommitFollowsCall, TypeOK
  <2>3. \A v \in Workers : worker'[v].run = worker[v].run
    BY <2>1 DEF TypeOK
  <2>4. \A v \in Workers : worker'[v].pc = "model" => v = w \/ worker[v].pc = "model"
    BY <2>1 DEF TypeOK
  <2>5. \A q \in Runs : invoked'[q] = (q = r \/ invoked[q])
    BY <2>1, <2>2 DEF TypeOK
  <2> QED BY <2>1, <2>2, <2>3, <2>4, <2>5 DEF CommitFollowsCall
<1>17. ASSUME NEW ok \in QueueOutcomes, NEW w \in Workers,
             StartInvocationConflict(w, ok)
      PROVE  CommitFollowsCall'
  BY <1>17, CommitKept DEF StartInvocationConflict, Idle, TypeOK, results
<1>18. ASSUME NEW ok \in QueueOutcomes, NEW w \in Workers,
             FailRun(w, ok)
      PROVE  CommitFollowsCall'
  BY <1>18, CommitKept DEF FailRun, FinishBatch, Idle, TypeOK, results
<1>19. ASSUME NEW ok \in QueueOutcomes, NEW w \in Workers,
             DiscardStaleResult(w, ok)
      PROVE  CommitFollowsCall'
  BY <1>19, CommitKept DEF DiscardStaleResult, FinishBatch, Idle, TypeOK
<1>20. ASSUME NEW ok \in QueueOutcomes, NEW w \in Workers, NEW out \in Outputs,
             CommitModelOutput(w, out, ok)
      PROVE  CommitFollowsCall'
  <2> DEFINE r == worker[w].run
  <2>1. /\ worker[w].pc = "model"
        /\ worker' = [worker EXCEPT ![w] = Idle]
        /\ effects' = [effects EXCEPT ![r] = out.does]
        /\ UNCHANGED invoked
    BY <1>20 DEF CommitModelOutput, FinishBatch
  <2>2. r \in Runs /\ invoked[r]
    BY <2>1 DEF CommitFollowsCall, TypeOK
  <2>3. \A q \in Runs : q # r => effects'[q] = effects[q]
    BY <2>1 DEF TypeOK
  <2>4. ASSUME NEW v \in Workers, worker'[v].pc = "model"
        PROVE  /\ worker'[v] = worker[v]
               /\ worker[v].pc = "model"
               /\ worker[v].run \in Runs
               /\ worker[v].run # r
    BY <2>1, <2>4 DEF Idle, TypeOK, CallbackOwnsRun
  <2> QED BY <2>1, <2>2, <2>3, <2>4 DEF CommitFollowsCall
<1>21. CASE UNCHANGED vars
  BY <1>21, CommitKept DEF vars, results
<1> QED
  BY ZenonT(60), <1>1, <1>2, <1>3, <1>4, <1>5, <1>6, <1>7, <1>8, <1>9,
     <1>10, <1>11, <1>12, <1>13, <1>14, <1>15, <1>16, <1>17, <1>18, <1>19,
     <1>20, <1>21
  DEF Next, Operation, ProcessPendingRuns

-----------------------------------------------------------------------------
(* Rows *)

LEMMA RowsKept ==
  ASSUME RunRows, UNCHANGED <<events, created, threadOf, trigger>>,
         \A q \in Runs : status'[q] = "absent" <=> status[q] = "absent"
  PROVE  RunRows'
  BY DEF RunRows

LEMMA RowsInserted ==
  ASSUME TypeOK, RunRows, NEW t \in Threads, NEW request \in Requests, NEW at,
         NEW rows \in [Runs -> RunStatus \cup {"absent"}],
         \A q \in Runs : rows[q] = "absent" <=> status[q] = "absent",
         AppendEvent(t, request),
         InsertPendingRun(t, Len(events[t]) + 1, at, rows)
  PROVE  RunRows'
<1>1. created + 1 \in Runs /\ created \in Nat
  BY SchedulerAssumption DEF TypeOK, InsertPendingRun, Runs
<1>2. PICK r \in Runs : r = created + 1
  BY <1>1
<1>3. /\ created' = r
      /\ status' = [rows EXCEPT ![r] = "pending"]
      /\ threadOf' = [threadOf EXCEPT ![r] = t]
      /\ trigger' = [trigger EXCEPT ![r] = Len(events[t]) + 1]
  BY <1>2 DEF InsertPendingRun
<1>4. /\ \A q \in Runs : status'[q] = "absent" <=> rows[q] = "absent" /\ q # r
      /\ \A q \in Runs \ {r} : threadOf'[q] = threadOf[q] /\ trigger'[q] = trigger[q]
      /\ threadOf'[r] = t
      /\ trigger'[r] = Len(events[t]) + 1
  BY <1>3 DEF TypeOK
<1>5. \A u \in Threads : /\ Len(events[u]) \in Nat
                         /\ Len(events'[u]) = IF u = t THEN Len(events[u]) + 1
                                                       ELSE Len(events[u])
  BY DEF AppendEvent, TypeOK
<1>6. ASSUME NEW q \in Runs
      PROVE  status'[q] # "absent" <=> q <= created'
  <2>1. q \in Int /\ (status[q] # "absent" <=> q <= created)
    BY <1>6 DEF RunRows, Runs
  <2> QED BY <1>1, <1>2, <1>3, <1>4, <2>1
<1>7. ASSUME NEW q \in Runs, q <= created'
      PROVE  trigger'[q] \in 1 .. Len(events'[threadOf'[q]])
  <2>1. CASE q = r
    BY <1>4, <1>5, <2>1
  <2>2. CASE q # r
    <3>1. q <= created
      BY <1>1, <1>2, <1>3, <1>7, <2>2 DEF Runs
    <3>2. trigger[q] \in 1 .. Len(events[threadOf[q]]) /\ threadOf[q] \in Threads
      BY <1>7, <3>1 DEF RunRows, TypeOK
    <3>3. trigger'[q] = trigger[q] /\ threadOf'[q] = threadOf[q]
      BY <1>4, <1>7, <2>2
    <3> QED BY <1>5, <3>2, <3>3
  <2> QED BY <2>1, <2>2
<1> QED BY <1>6, <1>7 DEF RunRows

LEMMA RowsUpserted ==
  ASSUME TypeOK, RunRows, NEW t \in Threads, NEW request \in Requests, NEW at,
         NEW rows \in [Runs -> RunStatus \cup {"absent"}],
         \A q \in Runs : rows[q] = "absent" <=> status[q] = "absent",
         AppendEvent(t, request),
         UpsertPendingRun(t, Len(events[t]) + 1, at, rows)
  PROVE  RunRows'
<1>1. CASE PendingOn(t) = {}
  BY <1>1, RowsInserted DEF UpsertPendingRun
<1>2. CASE PendingOn(t) # {}
  <2>1. OldestPending(t) \in Runs /\ threadOf[OldestPending(t)] = t
    BY <1>2, OldestPendingIsPending DEF PendingOn, Pending, WithStatus
  <2>2. /\ trigger' = [trigger EXCEPT ![OldestPending(t)] = Len(events[t]) + 1]
        /\ status' = rows
        /\ UNCHANGED <<created, threadOf>>
    BY <1>2 DEF UpsertPendingRun
  <2>3. \A u \in Threads : /\ Len(events[u]) \in Nat
                           /\ Len(events'[u]) = IF u = t THEN Len(events[u]) + 1
                                                         ELSE Len(events[u])
    BY DEF AppendEvent, TypeOK
  <2>4. ASSUME NEW q \in Runs, q <= created'
        PROVE  trigger'[q] \in 1 .. Len(events'[threadOf'[q]])
    <3>1. trigger[q] \in 1 .. Len(events[threadOf[q]]) /\ threadOf[q] \in Threads
      BY <2>2, <2>4 DEF RunRows, TypeOK
    <3>2. CASE q = OldestPending(t)
      BY <2>1, <2>2, <2>3, <2>4, <3>2 DEF TypeOK
    <3>3. CASE q # OldestPending(t)
      <4>1. trigger'[q] = trigger[q] /\ threadOf'[q] = threadOf[q]
        BY <2>2, <2>4, <3>3 DEF TypeOK
      <4> QED BY <2>3, <3>1, <4>1
    <3> QED BY <3>2, <3>3
  <2> QED BY <2>2, <2>4 DEF RunRows
<1> QED BY <1>1, <1>2

\* Rows are inserted in order and never deleted.
LEMMA RowsStep ==
  ASSUME TypeOK, RunRows, CallbackOwnsRun, [Next]_vars
  PROVE  RunRows'
<1>1. ASSUME NEW ok \in QueueOutcomes, NEW t \in Threads, NEW o \in Overrides \cup {NoPolicy},
             PublishEvent(t, o, ok)
      PROVE  RunRows'
  <2>1. o \in Requests /\ status \in [Runs -> RunStatus \cup {"absent"}]
    BY SchedulerAssumption DEF Requests, TypeOK
  <2> QED BY <1>1, <2>1, RowsUpserted DEF PublishEvent, AppendEventToThread
<1>2. ASSUME NEW ok \in QueueOutcomes, NEW t \in Threads,
             AcceptFoundationEvent(t, ok)
      PROVE  RunRows'
  <2>1. NoPolicy \in Requests /\ status \in [Runs -> RunStatus \cup {"absent"}]
    BY DEF TypeOK, Requests
  <2> QED BY <1>2, <2>1, RowsInserted DEF AcceptFoundationEvent
<1>3. ASSUME NEW ok \in QueueOutcomes, NEW r \in Runs, CancelRun(r) PROVE RunRows'
  <2>1. \A q \in Runs : status'[q] = "absent" <=> status[q] = "absent"
    BY <1>3 DEF CancelRun, AwaitsDelivery, TypeOK
  <2> QED BY <1>3, <2>1, RowsKept DEF CancelRun, mailbox
<1>4. ASSUME NEW ok \in QueueOutcomes, NEW r \in Runs, NEW d \in {"open", "closed"},
             DeliveryResume(r, d, ok)
      PROVE  RunRows'
  <2>1. \A q \in Runs : status'[q] = "absent" <=> status[q] = "absent"
    BY <1>4 DEF DeliveryResume, AwaitsDelivery, TypeOK
  <2> QED BY <1>4, <2>1, RowsKept DEF DeliveryResume, mailbox
<1>5. ASSUME NEW ok \in QueueOutcomes, NEW r \in Runs, NEW d \in {"open", "closed"},
             DeliveryTerminalFailure(r, d)
      PROVE  RunRows'
  <2>1. \A q \in Runs : status'[q] = "absent" <=> status[q] = "absent"
    BY <1>5 DEF DeliveryTerminalFailure, AwaitsDelivery, TypeOK
  <2> QED BY <1>5, <2>1, RowsKept DEF DeliveryTerminalFailure, mailbox
<1>6. ASSUME NEW ok \in QueueOutcomes, NEW r \in Runs,
             DeliveryFollowUp(r, ok)
      PROVE  RunRows'
  <2>1. threadOf[r] \in Threads /\ NoPolicy \in Requests
    BY DEF TypeOK, Requests
  <2>2. status \in [Runs -> RunStatus \cup {"absent"}]
    BY DEF TypeOK
  <2> QED
    BY <1>6, <2>1, <2>2, RowsUpserted
    DEF DeliveryFollowUp, AppendEventToThread
<1>7. ASSUME NEW ok \in QueueOutcomes, NEW p \in PolicyRefs,
             UpdateConfig(p)
      PROVE  RunRows'
  BY <1>7, RowsKept DEF UpdateConfig, mailbox, runVars
<1>8. ASSUME NEW ok \in QueueOutcomes, NEW p \in PolicyRefs,
             UpsertModelPolicy(p)
      PROVE  RunRows'
  BY <1>8, RowsKept DEF UpsertModelPolicy, WriteModelPolicy, mailbox, runVars
<1>9. ASSUME NEW ok \in QueueOutcomes, NEW p \in PolicyRefs,
             ArchiveModelPolicy(p)
      PROVE  RunRows'
  BY <1>9, RowsKept DEF ArchiveModelPolicy, WriteModelPolicy, mailbox, runVars
<1>10. ASSUME NEW ok \in QueueOutcomes, DestroyAgent PROVE RunRows'
  BY <1>10, RowsKept DEF DestroyAgent, mailbox, runVars
<1>11. ASSUME NEW ok \in QueueOutcomes, Evict PROVE RunRows'
  BY <1>11, RowsKept DEF Evict, mailbox, runVars
<1>12. ASSUME NEW ok \in QueueOutcomes, NEW w \in Workers, BatchIdle(w) PROVE RunRows'
  BY <1>12, RowsKept DEF BatchIdle, mailbox, runVars
<1>13. ASSUME NEW ok \in QueueOutcomes, NEW w \in Workers,
             BatchActiveBlocked(w)
      PROVE  RunRows'
  BY <1>13, RowsKept DEF BatchActiveBlocked, mailbox, runVars
<1>14. ASSUME NEW ok \in QueueOutcomes, NEW w \in Workers,
             BatchStartRun(w)
      PROVE  RunRows'
  <2>1. PICK r \in Pending : /\ BatchStart(w, r)
                           /\ status' = [status EXCEPT ![r] = "running"]
    BY <1>14 DEF BatchStartRun
  <2>2. \A q \in Runs : status'[q] = "absent" <=> status[q] = "absent"
    BY <2>1 DEF TypeOK, Pending, WithStatus
  <2> QED BY <2>1, <2>2, RowsKept DEF BatchStart
<1>15. ASSUME NEW ok \in QueueOutcomes, NEW w \in Workers,
             BatchInvalidPolicy(w, ok)
      PROVE  RunRows'
  <2>1. PICK r \in Pending : /\ BatchStart(w, r)
                           /\ status' = [status EXCEPT ![r] = "failed"]
    BY <1>15 DEF BatchInvalidPolicy
  <2>2. \A q \in Runs : status'[q] = "absent" <=> status[q] = "absent"
    BY <2>1 DEF TypeOK, Pending, WithStatus
  <2> QED BY <2>1, <2>2, RowsKept DEF BatchStart
<1>16. ASSUME NEW ok \in QueueOutcomes, NEW w \in Workers,
             StartInvocation(w)
      PROVE  RunRows'
  BY <1>16, RowsKept DEF StartInvocation, mailbox, runVars
<1>17. ASSUME NEW ok \in QueueOutcomes, NEW w \in Workers,
             StartInvocationConflict(w, ok)
      PROVE  RunRows'
  BY <1>17, RowsKept DEF StartInvocationConflict, mailbox, runVars
<1>18. ASSUME NEW ok \in QueueOutcomes, NEW w \in Workers, FailRun(w, ok) PROVE RunRows'
  <2>1. status[worker[w].run] # "absent"
    BY <1>18 DEF FailRun, CallbackOwnsRun, Terminal
  <2>2. \A q \in Runs : status'[q] = "absent" <=> status[q] = "absent"
    BY <1>18, <2>1 DEF FailRun, TypeOK
  <2> QED BY <1>18, <2>2, RowsKept DEF FailRun, mailbox
<1>19. ASSUME NEW ok \in QueueOutcomes, NEW w \in Workers,
             DiscardStaleResult(w, ok)
      PROVE  RunRows'
  <2>1. status[worker[w].run] # "absent"
    BY <1>19 DEF DiscardStaleResult, CallbackOwnsRun, Terminal
  <2>2. \A q \in Runs : status'[q] = "absent" <=> status[q] = "absent"
    BY <1>19, <2>1 DEF DiscardStaleResult, TypeOK
  <2> QED BY <1>19, <2>2, RowsKept DEF DiscardStaleResult, mailbox
<1>20. ASSUME NEW ok \in QueueOutcomes, NEW w \in Workers, NEW out \in Outputs,
             CommitModelOutput(w, out, ok)
      PROVE  RunRows'
  <2> DEFINE r == worker[w].run
             next == [status EXCEPT ![r] = IF Waits(out) THEN "waiting" ELSE out.ends]
  <2>1. /\ r \in Runs /\ threadOf[r] \in Threads
        /\ next \in [Runs -> RunStatus \cup {"absent"}]
        /\ NoPolicy \in Requests
    BY <1>20, SchedulerAssumption
    DEF TypeOK, OutputType, RunStatus, Terminal, Requests
  <2>2. \A q \in Runs : next[q] = "absent" <=> status[q] = "absent"
    <3>1. status[r] # "absent"
      BY <1>20 DEF CommitModelOutput, CallbackOwnsRun, Terminal
    <3> QED BY <2>1, <3>1, SchedulerAssumption DEF TypeOK, OutputType
  <2>3. CASE "emit_event" \in out.does
    <3>1. /\ AppendEvent(threadOf[r], NoPolicy)
          /\ UpsertPendingRun(threadOf[r], Len(events[threadOf[r]]) + 1, served[r], next)
      BY <1>20, <2>3 DEF CommitModelOutput
    <3> HIDE DEF next
    <3> QED BY <2>1, <2>2, <3>1, RowsUpserted
  <2>4. CASE "emit_event" \notin out.does
    BY <1>20, <2>2, <2>4, RowsKept DEF CommitModelOutput
  <2> QED BY <2>3, <2>4
<1>21. CASE UNCHANGED vars
  BY <1>21, RowsKept DEF vars, mailbox, runVars
<1> QED
  BY ZenonT(60), <1>1, <1>2, <1>3, <1>4, <1>5, <1>6, <1>7, <1>8, <1>9,
     <1>10, <1>11, <1>12, <1>13, <1>14, <1>15, <1>16, <1>17, <1>18, <1>19,
     <1>20, <1>21
  DEF Next, Operation, ProcessPendingRuns

-----------------------------------------------------------------------------
(* Callbacks in flight *)

Started == {"running"} \cup Terminal

\* No started Run is queued again, and no callback gets a Run it did not have.
LEMMA OwnersKept ==
  ASSUME CallbackOwnsRun, TypeOK,
         \A q \in Runs : status[q] \in Started => status'[q] \in Started,
         \A v \in Workers : worker'[v].pc # "idle" =>
           worker[v].pc # "idle" /\ worker'[v].run = worker[v].run
  PROVE  CallbackOwnsRun'
<1>1. \A v \in Workers : worker[v].run \in Runs
  BY DEF TypeOK
<1> QED BY <1>1 DEF CallbackOwnsRun, Started, Terminal

LEMMA UpsertKeepsStarted ==
  ASSUME TypeOK, RunRows, NEW t, NEW n, NEW at,
         NEW rows \in [Runs -> RunStatus \cup {"absent"}],
         \A q \in Runs : status[q] = "absent" <=> rows[q] = "absent",
         UpsertPendingRun(t, n, at, rows) \/ InsertPendingRun(t, n, at, rows)
  PROVE  \A q \in Runs : rows[q] \in Started => status'[q] \in Started
<1>1. CASE status' = rows
  BY <1>1
<1>2. CASE InsertPendingRun(t, n, at, rows)
  <2>1. created + 1 \in Runs /\ status[created + 1] = "absent"
    BY <1>2, SchedulerAssumption DEF InsertPendingRun, RunRows, TypeOK, Runs
  <2>2. \A q \in Runs : rows[q] \in Started => q # created + 1
    BY <2>1 DEF Started, Terminal
  <2> QED BY <1>2, <2>2 DEF InsertPendingRun
<1> QED BY <1>1, <1>2 DEF UpsertPendingRun

\* A callback that takes a row owns the pending Run it starts.
LEMMA OwnerAdded ==
  ASSUME CallbackOwnsRun, TypeOK, NEW w \in Workers, NEW r \in Pending, NEW more,
         status' = [status EXCEPT ![r] = "running"],
         worker' = [worker EXCEPT ![w] = [pc |-> "digest", run |-> r, more |-> more]]
  PROVE  CallbackOwnsRun'
<1>1. r \in Runs /\ status[r] = "pending"
  BY DEF Pending, WithStatus
<1>2. \A v \in Workers : worker[v].pc # "idle" => worker[v].run # r
  BY <1>1 DEF CallbackOwnsRun, Terminal
<1>3. \A v \in Workers : v # w => worker'[v] = worker[v]
  BY DEF TypeOK
<1>4. worker'[w].run = r /\ status'[r] = "running"
  BY <1>1 DEF TypeOK
<1>5. \A q \in Runs : q # r => status'[q] = status[q]
  BY DEF TypeOK
<1>6. \A v \in Workers : worker[v].run \in Runs
  BY DEF TypeOK
<1> QED BY <1>2, <1>3, <1>4, <1>5, <1>6 DEF CallbackOwnsRun

\* A Run whose callback is in flight is not queued again.
LEMMA CallbackStep ==
  ASSUME TypeOK, RunRows, CallbackOwnsRun, [Next]_vars
  PROVE  CallbackOwnsRun'
<1>1. ASSUME NEW ok \in QueueOutcomes, NEW t \in Threads, NEW o \in Overrides \cup {NoPolicy},
             PublishEvent(t, o, ok)
      PROVE  CallbackOwnsRun'
  <2>1. UpsertPendingRun(t, Len(events[t]) + 1, threadServed[t], status)
    BY <1>1 DEF PublishEvent, AppendEventToThread
  <2>2. status \in [Runs -> RunStatus \cup {"absent"}]
    BY DEF TypeOK
  <2>3. \A q \in Runs : status[q] \in Started => status'[q] \in Started
    BY <2>1, <2>2, UpsertKeepsStarted
  <2> QED BY <1>1, <2>3, OwnersKept DEF PublishEvent
<1>2. ASSUME NEW ok \in QueueOutcomes, NEW t \in Threads,
             AcceptFoundationEvent(t, ok)
      PROVE  CallbackOwnsRun'
  <2>1. InsertPendingRun(t, Len(events[t]) + 1, 0, status)
    BY <1>2 DEF AcceptFoundationEvent
  <2>2. status \in [Runs -> RunStatus \cup {"absent"}]
    BY DEF TypeOK
  <2>3. \A q \in Runs : status[q] \in Started => status'[q] \in Started
    BY <2>1, <2>2, UpsertKeepsStarted
  <2> QED BY <1>2, <2>3, OwnersKept DEF AcceptFoundationEvent
<1>3. ASSUME NEW ok \in QueueOutcomes, NEW r \in Runs,
             CancelRun(r)
      PROVE  CallbackOwnsRun'
  <2>1. \A q \in Runs : status[q] \in Started => status'[q] \in Started
    BY <1>3 DEF CancelRun, AwaitsDelivery, TypeOK, Started, Terminal
  <2> QED BY <1>3, <2>1, OwnersKept DEF CancelRun
<1>4. ASSUME NEW ok \in QueueOutcomes, NEW r \in Runs, NEW d \in {"open", "closed"},
             DeliveryResume(r, d, ok)
      PROVE  CallbackOwnsRun'
  <2>1. \A q \in Runs : status[q] \in Started => status'[q] \in Started
    BY <1>4 DEF DeliveryResume, AwaitsDelivery, TypeOK, Started, Terminal
  <2> QED BY <1>4, <2>1, OwnersKept DEF DeliveryResume
<1>5. ASSUME NEW ok \in QueueOutcomes, NEW r \in Runs, NEW d \in {"open", "closed"},
             DeliveryTerminalFailure(r, d)
      PROVE  CallbackOwnsRun'
  <2>1. \A q \in Runs : status[q] \in Started => status'[q] \in Started
    BY <1>5 DEF DeliveryTerminalFailure, AwaitsDelivery, TypeOK, Started, Terminal
  <2> QED BY <1>5, <2>1, OwnersKept DEF DeliveryTerminalFailure
<1>6. ASSUME NEW ok \in QueueOutcomes, NEW r \in Runs,
             DeliveryFollowUp(r, ok)
      PROVE  CallbackOwnsRun'
  <2>1. UpsertPendingRun(threadOf[r], Len(events[threadOf[r]]) + 1, threadServed[threadOf[r]],
                         status)
    BY <1>6 DEF DeliveryFollowUp, AppendEventToThread
  <2>2. status \in [Runs -> RunStatus \cup {"absent"}]
    BY DEF TypeOK
  <2>3. \A q \in Runs : status[q] \in Started => status'[q] \in Started
    BY <2>1, <2>2, UpsertKeepsStarted
  <2> QED BY <1>6, <2>3, OwnersKept DEF DeliveryFollowUp
<1>7. ASSUME NEW ok \in QueueOutcomes, NEW p \in PolicyRefs,
             UpdateConfig(p)
      PROVE  CallbackOwnsRun'
  BY <1>7, OwnersKept DEF UpdateConfig, runVars
<1>8. ASSUME NEW ok \in QueueOutcomes, NEW p \in PolicyRefs,
             UpsertModelPolicy(p)
      PROVE  CallbackOwnsRun'
  BY <1>8, OwnersKept DEF UpsertModelPolicy, WriteModelPolicy, runVars
<1>9. ASSUME NEW ok \in QueueOutcomes, NEW p \in PolicyRefs,
             ArchiveModelPolicy(p)
      PROVE  CallbackOwnsRun'
  BY <1>9, OwnersKept DEF ArchiveModelPolicy, WriteModelPolicy, runVars
<1>10. ASSUME NEW ok \in QueueOutcomes, DestroyAgent PROVE CallbackOwnsRun'
  BY <1>10, OwnersKept DEF DestroyAgent, runVars
<1>11. ASSUME NEW ok \in QueueOutcomes, Evict PROVE CallbackOwnsRun'
  BY <1>11, OwnersKept DEF Evict, Idle, runVars
<1>12. ASSUME NEW ok \in QueueOutcomes, NEW w \in Workers,
             BatchIdle(w)
      PROVE  CallbackOwnsRun'
  BY <1>12, OwnersKept DEF BatchIdle, runVars
<1>13. ASSUME NEW ok \in QueueOutcomes, NEW w \in Workers,
             BatchActiveBlocked(w)
      PROVE  CallbackOwnsRun'
  BY <1>13, OwnersKept DEF BatchActiveBlocked, runVars
<1>14. ASSUME NEW ok \in QueueOutcomes, NEW w \in Workers,
             BatchStartRun(w)
      PROVE  CallbackOwnsRun'
  BY <1>14, OwnerAdded DEF BatchStartRun
<1>15. ASSUME NEW ok \in QueueOutcomes, NEW w \in Workers,
             BatchInvalidPolicy(w, ok)
      PROVE  CallbackOwnsRun'
  <2>1. \A q \in Runs : status[q] \in Started => status'[q] \in Started
    BY <1>15 DEF BatchInvalidPolicy, TypeOK, Started, Terminal
  <2> QED BY <1>15, <2>1, OwnersKept DEF BatchInvalidPolicy
<1>16. ASSUME NEW ok \in QueueOutcomes, NEW w \in Workers,
             StartInvocation(w)
      PROVE  CallbackOwnsRun'
  BY <1>16, OwnersKept DEF StartInvocation, TypeOK, runVars
<1>17. ASSUME NEW ok \in QueueOutcomes, NEW w \in Workers,
             StartInvocationConflict(w, ok)
      PROVE  CallbackOwnsRun'
  BY <1>17, OwnersKept DEF StartInvocationConflict, Idle, TypeOK, runVars
<1>18. ASSUME NEW ok \in QueueOutcomes, NEW w \in Workers,
             FailRun(w, ok)
      PROVE  CallbackOwnsRun'
  <2>1. \A q \in Runs : status[q] \in Started => status'[q] \in Started
    BY <1>18 DEF FailRun, TypeOK, Started, Terminal
  <2>2. worker' = [worker EXCEPT ![w] = Idle]
    BY <1>18 DEF FailRun, FinishBatch
  <2> QED BY <2>1, <2>2, OwnersKept DEF Idle, TypeOK
<1>19. ASSUME NEW ok \in QueueOutcomes, NEW w \in Workers,
             DiscardStaleResult(w, ok)
      PROVE  CallbackOwnsRun'
  <2>1. \A q \in Runs : status[q] \in Started => status'[q] \in Started
    BY <1>19 DEF DiscardStaleResult, TypeOK, Started, Terminal
  <2>2. worker' = [worker EXCEPT ![w] = Idle]
    BY <1>19 DEF DiscardStaleResult, FinishBatch
  <2> QED BY <2>1, <2>2, OwnersKept DEF Idle, TypeOK
<1>20. ASSUME NEW ok \in QueueOutcomes, NEW w \in Workers, NEW out \in Outputs,
             CommitModelOutput(w, out, ok)
      PROVE  CallbackOwnsRun'
  <2> DEFINE r == worker[w].run
             next == [status EXCEPT ![r] = IF Waits(out) THEN "waiting" ELSE out.ends]
  <2>1. /\ r \in Runs
        /\ next \in [Runs -> RunStatus \cup {"absent"}]
        /\ \A q \in Runs : q # r => next[q] = status[q]
    BY <1>20, SchedulerAssumption DEF TypeOK, OutputType, RunStatus, Terminal
  <2>2. worker' = [worker EXCEPT ![w] = Idle] /\ worker[w].pc # "idle"
    BY <1>20 DEF CommitModelOutput, FinishBatch
  <2>3. status[r] # "absent" /\ next[r] # "absent"
    <3>1. status[r] # "absent"
      BY <2>2 DEF CallbackOwnsRun, Terminal
    <3>2. out.ends # "absent"
      BY SchedulerAssumption DEF OutputType
    <3> QED BY <2>1, <3>1, <3>2 DEF TypeOK
  <2>4. \A q \in Runs : next[q] \in Started => status'[q] \in Started
    <3>1. \/ status' = next
          \/ UpsertPendingRun(threadOf[r], Len(events[threadOf[r]]) + 1, served[r], next)
      BY <1>20 DEF CommitModelOutput
    <3>2. \A q \in Runs : status[q] = "absent" <=> next[q] = "absent"
      BY <2>1, <2>3
    <3> HIDE DEF next
    <3> QED BY <2>1, <3>1, <3>2, UpsertKeepsStarted
  <2>5. ASSUME NEW v \in Workers, worker'[v].pc # "idle"
        PROVE  /\ v # w
               /\ worker'[v] = worker[v]
               /\ worker[v].run \in Runs
               /\ worker[v].run # r
    BY <2>2, <2>5 DEF Idle, TypeOK, CallbackOwnsRun
  <2>6. ASSUME NEW v \in Workers, worker'[v].pc # "idle"
        PROVE  status'[worker'[v].run] \in Started
    <3>1. status[worker[v].run] \in Started
      BY <2>5, <2>6 DEF CallbackOwnsRun, Started
    <3> HIDE DEF next
    <3> QED BY <2>1, <2>4, <2>5, <2>6, <3>1
  <2> QED BY <2>5, <2>6 DEF CallbackOwnsRun, Started
<1>21. CASE UNCHANGED vars
  BY <1>21, OwnersKept DEF vars, runVars
<1> QED
  BY ZenonT(60), <1>1, <1>2, <1>3, <1>4, <1>5, <1>6, <1>7, <1>8, <1>9,
     <1>10, <1>11, <1>12, <1>13, <1>14, <1>15, <1>16, <1>17, <1>18, <1>19,
     <1>20, <1>21
  DEF Next, Operation, ProcessPendingRuns

-----------------------------------------------------------------------------
(* The inductive invariant *)

LEMMA InitIInv == Init => IInv
<1> SUFFICES ASSUME Init PROVE IInv
  OBVIOUS
<1>1. (CHOOSE t \in Threads : TRUE) \in Threads
  BY SchedulerAssumption
<1>2. /\ created \in 0 .. MaxRuns
      /\ status \in [Runs -> RunStatus \cup {"absent"}]
      /\ threadOf \in [Runs -> Threads]
      /\ trigger \in [Runs -> Nat]
      /\ served \in [Runs -> Nat]
  BY <1>1, SchedulerAssumption DEF Init
<1>3. /\ events \in [Threads -> Seq(Requests)]
      /\ threadServed \in [Threads -> Nat]
      /\ latest \in [Threads -> 0 .. MaxRuns]
  BY SchedulerAssumption DEF Init
<1>4. snapshot \in [Runs -> Snapshots]
  BY DEF Init, NoSnapshot, Snapshots
<1>5. /\ invoked \in [Runs -> BOOLEAN]
      /\ calls \in [Runs -> Nat]
      /\ interrupt \in [Runs -> BOOLEAN]
      /\ effects \in [Runs -> SUBSET DecisionKinds]
      /\ delivery \in [Runs -> {"none", "open", "closed"}]
  BY DEF Init
<1>6. worker \in [Workers -> [pc : {"idle", "digest", "model"},
                         run : Runs, more : BOOLEAN]]
  BY IdleType DEF Init
<1>7. policy \in [PolicyRefs -> [version : Nat, active : BOOLEAN]]
  BY DEF Init
<1>8. /\ config \in [version : Nat, policy : PolicyRefs]
      /\ starts \in Nat
      /\ wake \in {"idle", "pending"} /\ queued \in Nat /\ lost \in Nat
      /\ lifecycle \in {"active", "destroyed"}
  BY SchedulerAssumption DEF Init
<1>9. TypeOK
  BY <1>2, <1>3, <1>4, <1>5, <1>6, <1>7, <1>8 DEF TypeOK
<1>10. RunRows
  BY DEF Init, RunRows, Runs
<1>11. /\ CallbackOwnsRun /\ CallsAreRecorded
       /\ CommitFollowsCall /\ SingleActiveRun
  BY DEF Init, CallbackOwnsRun, CallsAreRecorded, CommitFollowsCall,
         SingleActiveRun, Idle
<1> QED BY <1>9, <1>10, <1>11 DEF IInv

\* IInv is inductive: it holds in every state of every execution.
THEOREM Inductive == Spec => []IInv
<1>1. Init => IInv
  BY InitIInv
<1>2. IInv /\ [Next]_vars => IInv'
  BY TypeStep, RowsStep, CallbackStep, CallsStep, CommitStep, SlotStep
  DEF IInv
<1> QED BY <1>1, <1>2, PTL DEF Spec

\* Every row the scheduler, the queue and the racing operations write has the
\* type the schema gives it.
THEOREM TypeCorrect == Spec => []TypeOK
<1>1. IInv => TypeOK
  BY DEF IInv
<1> QED BY <1>1, Inductive, PTL

\* At most one AgentRun of an Agent is running, however many callbacks the
\* queue runs at once and wherever an eviction falls.
THEOREM ExclusiveSlot == Spec => []SingleActiveRun
<1>1. IInv => SingleActiveRun
  BY DEF IInv
<1> QED BY <1>1, Inductive, PTL

\* The unique invocation id keeps the model from being called twice for a Run.
THEOREM OneModelCall == Spec => []ModelCalledOnce
<1>1. IInv => ModelCalledOnce
  BY DEF IInv, CallsAreRecorded, ModelCalledOnce
<1> QED BY <1>1, Inductive, PTL

CommitsAreGuarded ==
  \A r \in Runs : effects'[r] # effects[r] =>
    /\ CommitAllowed(r)
    /\ \E w \in Workers : worker[w].pc = "model" /\ worker[w].run = r

\* Decisions are committed only by a callback that awaits the Run's output, and
\* only if the guard accepts it.
LEMMA OnlyCommitsWrite ==
  ASSUME TypeOK, [Next]_vars
  PROVE  CommitsAreGuarded
<1>1. ASSUME NEW ok \in QueueOutcomes, NEW t \in Threads, NEW o \in Overrides \cup {NoPolicy},
             PublishEvent(t, o, ok)
      PROVE  CommitsAreGuarded
  BY <1>1 DEF CommitsAreGuarded, PublishEvent, results
<1>2. ASSUME NEW ok \in QueueOutcomes, NEW t \in Threads,
             AcceptFoundationEvent(t, ok)
      PROVE  CommitsAreGuarded
  BY <1>2 DEF CommitsAreGuarded, AcceptFoundationEvent, results
<1>3. ASSUME NEW ok \in QueueOutcomes, NEW r \in Runs,
             CancelRun(r)
      PROVE  CommitsAreGuarded
  BY <1>3 DEF CommitsAreGuarded, CancelRun, results
<1>4. ASSUME NEW ok \in QueueOutcomes, NEW r \in Runs, NEW d \in {"open", "closed"},
             DeliveryResume(r, d, ok)
      PROVE  CommitsAreGuarded
  BY <1>4 DEF CommitsAreGuarded, DeliveryResume, results
<1>5. ASSUME NEW ok \in QueueOutcomes, NEW r \in Runs, NEW d \in {"open", "closed"},
             DeliveryTerminalFailure(r, d)
      PROVE  CommitsAreGuarded
  BY <1>5 DEF CommitsAreGuarded, DeliveryTerminalFailure, results
<1>6. ASSUME NEW ok \in QueueOutcomes, NEW r \in Runs,
             DeliveryFollowUp(r, ok)
      PROVE  CommitsAreGuarded
  BY <1>6 DEF CommitsAreGuarded, DeliveryFollowUp, results
<1>7. ASSUME NEW ok \in QueueOutcomes, NEW p \in PolicyRefs,
             UpdateConfig(p)
      PROVE  CommitsAreGuarded
  BY <1>7 DEF CommitsAreGuarded, UpdateConfig, results
<1>8. ASSUME NEW ok \in QueueOutcomes, NEW p \in PolicyRefs,
             UpsertModelPolicy(p)
      PROVE  CommitsAreGuarded
  BY <1>8 DEF CommitsAreGuarded, UpsertModelPolicy, WriteModelPolicy, results
<1>9. ASSUME NEW ok \in QueueOutcomes, NEW p \in PolicyRefs,
             ArchiveModelPolicy(p)
      PROVE  CommitsAreGuarded
  BY <1>9 DEF CommitsAreGuarded, ArchiveModelPolicy, WriteModelPolicy, results
<1>10. ASSUME NEW ok \in QueueOutcomes,
             DestroyAgent
      PROVE  CommitsAreGuarded
  BY <1>10 DEF CommitsAreGuarded, DestroyAgent, results
<1>11. ASSUME NEW ok \in QueueOutcomes,
             Evict
      PROVE  CommitsAreGuarded
  BY <1>11 DEF CommitsAreGuarded, Evict, results
<1>12. ASSUME NEW ok \in QueueOutcomes, NEW w \in Workers,
             BatchIdle(w)
      PROVE  CommitsAreGuarded
  BY <1>12 DEF CommitsAreGuarded, BatchIdle, results
<1>13. ASSUME NEW ok \in QueueOutcomes, NEW w \in Workers,
             BatchActiveBlocked(w)
      PROVE  CommitsAreGuarded
  BY <1>13 DEF CommitsAreGuarded, BatchActiveBlocked, results
<1>14. ASSUME NEW ok \in QueueOutcomes, NEW w \in Workers,
             BatchStartRun(w)
      PROVE  CommitsAreGuarded
  BY <1>14 DEF CommitsAreGuarded, BatchStartRun, BatchStart, results
<1>15. ASSUME NEW ok \in QueueOutcomes, NEW w \in Workers,
             BatchInvalidPolicy(w, ok)
      PROVE  CommitsAreGuarded
  BY <1>15 DEF CommitsAreGuarded, BatchInvalidPolicy, BatchStart, results
<1>16. ASSUME NEW ok \in QueueOutcomes, NEW w \in Workers,
             StartInvocation(w)
      PROVE  CommitsAreGuarded
  BY <1>16 DEF CommitsAreGuarded, StartInvocation, results
<1>17. ASSUME NEW ok \in QueueOutcomes, NEW w \in Workers,
             StartInvocationConflict(w, ok)
      PROVE  CommitsAreGuarded
  BY <1>17 DEF CommitsAreGuarded, StartInvocationConflict, results
<1>18. ASSUME NEW ok \in QueueOutcomes, NEW w \in Workers,
             FailRun(w, ok)
      PROVE  CommitsAreGuarded
  BY <1>18 DEF CommitsAreGuarded, FailRun, results
<1>19. ASSUME NEW ok \in QueueOutcomes, NEW w \in Workers,
             DiscardStaleResult(w, ok)
      PROVE  CommitsAreGuarded
  BY <1>19 DEF CommitsAreGuarded, DiscardStaleResult, results
<1>20. ASSUME NEW ok \in QueueOutcomes, NEW w \in Workers, NEW out \in Outputs,
             CommitModelOutput(w, out, ok)
      PROVE  CommitsAreGuarded
  BY <1>20 DEF CommitsAreGuarded, CommitModelOutput, TypeOK
<1>21. CASE UNCHANGED vars
  BY <1>21 DEF CommitsAreGuarded, vars, results
<1> QED
  BY ZenonT(60), <1>1, <1>2, <1>3, <1>4, <1>5, <1>6, <1>7, <1>8, <1>9,
     <1>10, <1>11, <1>12, <1>13, <1>14, <1>15, <1>16, <1>17, <1>18, <1>19,
     <1>20, <1>21
  DEF Next, Operation, ProcessPendingRuns

\* A result that comes back after CancelRun or an interrupt commits nothing.
THEOREM InterruptedCommitsNothing == Spec => NoCommitAfterInterrupt
<1>1. IInv /\ [Next]_vars =>
        [\A r \in Runs : interrupt[r] => effects'[r] = effects[r]]_vars
  BY OnlyCommitsWrite DEF IInv, CommitAllowed, CommitsAreGuarded
<1> QED BY <1>1, Inductive, PTL DEF Spec, NoCommitAfterInterrupt

\* Decisions are committed only while the config, the model policy and the
\* lifecycle the Run started under are still the current ones.
THEOREM CommitIsCurrent == Spec => CommitsCurrentGeneration
<1>1. IInv /\ [Next]_vars =>
        [\A r \in Runs : effects'[r] # effects[r] =>
           /\ snapshot[r].config = config.version
           /\ policy[snapshot[r].policy].version = snapshot[r].version
           /\ policy[snapshot[r].policy].active
           /\ lifecycle = "active"]_vars
  BY OnlyCommitsWrite
  DEF IInv, CommitAllowed, IsCurrentGeneration, CommitsAreGuarded
<1> QED BY <1>1, Inductive, PTL DEF Spec, CommitsCurrentGeneration

\* A Run commits the decisions of one model output, although its row may be
\* delivered again and the Run may be resumed.
THEOREM RunCommitsOnce == Spec => CommitsOnce
<1>1. IInv /\ [Next]_vars =>
        [\A r \in Runs : effects[r] # {} => effects'[r] = effects[r]]_vars
  BY OnlyCommitsWrite DEF IInv, CommitFollowsCall, CommitsAreGuarded
<1> QED BY <1>1, Inductive, PTL DEF Spec, CommitsOnce

-----------------------------------------------------------------------------
(* What becomes of a Run that has ended *)

\* A Run that ends while its callback is in flight was cancelled.
EndedWhileCalled ==
  \A w \in Workers :
    worker[w].pc # "idle" /\ status[worker[w].run] \in Terminal =>
      status[worker[w].run] = "interrupted" /\ interrupt[worker[w].run]

Calls(w, r) == worker[w].pc = "model" /\ worker[w].run = r

\* The status of a started Run is written by CancelRun and by its own callback.
StatusWritten(r) ==
  \/ status'[r] = status[r]
  \/ status[r] = "running" /\ status'[r] = "interrupted" /\ interrupt'[r]
  \/ \E w \in Workers : /\ Calls(w, r)
                        /\ worker'[w] = Idle
                        /\ status[r] \in Terminal => status'[r] = "failed"

\* A callback ends, has made a Run running, or calls the model for its Run, which
\* was not called before.
OwnerWritten(w) ==
  \/ worker'[w] = Idle
  \/ /\ worker'[w].pc = "digest"
     /\ worker'[w].run \in Runs /\ status'[worker'[w].run] = "running"
  \/ /\ worker[w].pc = "digest" /\ worker'[w].pc = "model"
     /\ worker'[w].run = worker[w].run /\ ~invoked[worker[w].run]

EndsWritten ==
  /\ \A r \in Runs : interrupt[r] => interrupt'[r]
  /\ \A r \in Runs : invoked[r] => invoked'[r]
  /\ \A r \in Runs : status[r] \in Started => StatusWritten(r)
  /\ \A w \in Workers : worker[w] # worker'[w] => OwnerWritten(w)

LEMMA UpsertKeepsRows ==
  ASSUME TypeOK, RunRows, NEW t, NEW n, NEW at,
         NEW rows \in [Runs -> RunStatus \cup {"absent"}],
         \A q \in Runs : status[q] = "absent" <=> rows[q] = "absent",
         UpsertPendingRun(t, n, at, rows) \/ InsertPendingRun(t, n, at, rows)
  PROVE  \A q \in Runs : rows[q] # "absent" => status'[q] = rows[q]
<1>1. CASE status' = rows
  BY <1>1
<1>2. CASE InsertPendingRun(t, n, at, rows)
  <2>1. created + 1 \in Runs /\ status[created + 1] = "absent"
    BY <1>2, SchedulerAssumption DEF InsertPendingRun, RunRows, TypeOK, Runs
  <2> QED BY <1>2, <2>1 DEF InsertPendingRun
<1> QED BY <1>1, <1>2 DEF UpsertPendingRun

\* A step that appends an Event writes no Run that was started.
LEMMA UpsertWritesNone ==
  ASSUME TypeOK, RunRows, NEW t, NEW n, NEW at, UNCHANGED <<interrupt, invoked, worker>>,
         UpsertPendingRun(t, n, at, status) \/ InsertPendingRun(t, n, at, status)
  PROVE  EndsWritten
<1>1. status \in [Runs -> RunStatus \cup {"absent"}]
  BY DEF TypeOK
<1>2. \A q \in Runs : status[q] \in Started => status'[q] = status[q]
  BY <1>1, UpsertKeepsRows DEF Started, Terminal
<1> QED BY <1>2 DEF EndsWritten, StatusWritten

\* A callback that ends its Run, and its call.
LEMMA CallbackWrites ==
  ASSUME TypeOK, NEW w \in Workers, worker[w].pc = "model", worker' = [worker EXCEPT ![w] = Idle],
         \A q \in Runs : interrupt[q] => interrupt'[q], UNCHANGED invoked,
         \A q \in Runs : q # worker[w].run /\ status[q] \in Started => status'[q] = status[q],
         LET r == worker[w].run
         IN  status[r] \in Terminal => status'[r] \in {status[r], "failed"}
  PROVE  EndsWritten
<1> DEFINE r == worker[w].run
<1>1. worker'[w] = Idle /\ \A v \in Workers : v # w => worker'[v] = worker[v]
  BY DEF TypeOK
<1>2. status[r] \in Terminal => status'[r] \in {status[r], "failed"}
  OBVIOUS
<1>3. Calls(w, r)
  BY DEF Calls
<1>4. ASSUME status[r] \in Started PROVE StatusWritten(r)
  BY <1>1, <1>2, <1>3 DEF StatusWritten
<1>5. \A q \in Runs : status[q] \in Started => StatusWritten(q)
  BY <1>4 DEF StatusWritten
<1> QED BY <1>1, <1>5 DEF EndsWritten, OwnerWritten

LEMMA EndsStep ==
  ASSUME IInv, [Next]_vars
  PROVE  EndsWritten
<1>t. TypeOK /\ RunRows
  BY DEF IInv
<1>1. ASSUME NEW ok \in QueueOutcomes, NEW t \in Threads, NEW o \in Overrides \cup {NoPolicy},
             PublishEvent(t, o, ok)
      PROVE  EndsWritten
  BY <1>1, <1>t, UpsertWritesNone DEF PublishEvent, AppendEventToThread, results
<1>2. ASSUME NEW ok \in QueueOutcomes, NEW t \in Threads,
             AcceptFoundationEvent(t, ok)
      PROVE  EndsWritten
  BY <1>2, <1>t, UpsertWritesNone DEF AcceptFoundationEvent, results
<1>3. ASSUME NEW ok \in QueueOutcomes, NEW r \in Runs,
             CancelRun(r)
      PROVE  EndsWritten
  <2>1. /\ interrupt' = [interrupt EXCEPT ![r] = TRUE]
        /\ status' = [status EXCEPT ![r] = IF @ = "pending" THEN "cancelled" ELSE "interrupted"]
        /\ status[r] \in {"pending", "running", "waiting"}
        /\ UNCHANGED <<worker, invoked>>
    BY <1>3 DEF CancelRun
  <2>2. ASSUME NEW q \in Runs, status[q] \in Started PROVE StatusWritten(q)
    BY <1>t, <2>1, <2>2 DEF StatusWritten, Started, Terminal, TypeOK
  <2>3. \A q \in Runs : interrupt[q] => interrupt'[q]
    BY <1>t, <2>1 DEF TypeOK
  <2> QED BY <2>1, <2>2, <2>3 DEF EndsWritten
<1>4. ASSUME NEW ok \in QueueOutcomes, NEW r \in Runs, NEW d \in {"open", "closed"},
             DeliveryResume(r, d, ok)
      PROVE  EndsWritten
  BY <1>4, <1>t
  DEF DeliveryResume, AwaitsDelivery, EndsWritten, StatusWritten, OwnerWritten, Started, Terminal, TypeOK
<1>5. ASSUME NEW ok \in QueueOutcomes, NEW r \in Runs, NEW d \in {"open", "closed"},
             DeliveryTerminalFailure(r, d)
      PROVE  EndsWritten
  BY <1>5, <1>t
  DEF DeliveryTerminalFailure, AwaitsDelivery, EndsWritten, StatusWritten, OwnerWritten, Started, Terminal, TypeOK
<1>6. ASSUME NEW ok \in QueueOutcomes, NEW r \in Runs,
             DeliveryFollowUp(r, ok)
      PROVE  EndsWritten
  BY <1>6, <1>t, UpsertWritesNone DEF DeliveryFollowUp, AppendEventToThread, results
<1>7. ASSUME NEW ok \in QueueOutcomes, NEW p \in PolicyRefs,
             UpdateConfig(p)
      PROVE  EndsWritten
  BY <1>7 DEF UpdateConfig, EndsWritten, StatusWritten, OwnerWritten, results, runVars
<1>8. ASSUME NEW ok \in QueueOutcomes, NEW p \in PolicyRefs,
             UpsertModelPolicy(p)
      PROVE  EndsWritten
  BY <1>8 DEF UpsertModelPolicy, WriteModelPolicy, EndsWritten, StatusWritten, OwnerWritten, results, runVars
<1>9. ASSUME NEW ok \in QueueOutcomes, NEW p \in PolicyRefs,
             ArchiveModelPolicy(p)
      PROVE  EndsWritten
  BY <1>9 DEF ArchiveModelPolicy, WriteModelPolicy, EndsWritten, StatusWritten, OwnerWritten, results, runVars
<1>10. ASSUME NEW ok \in QueueOutcomes, DestroyAgent PROVE EndsWritten
  BY <1>10 DEF DestroyAgent, EndsWritten, StatusWritten, OwnerWritten, results, runVars
<1>11. ASSUME NEW ok \in QueueOutcomes, Evict PROVE EndsWritten
  BY <1>11 DEF Evict, EndsWritten, StatusWritten, OwnerWritten, results, runVars
<1>12. ASSUME NEW ok \in QueueOutcomes, NEW w \in Workers,
             BatchIdle(w)
      PROVE  EndsWritten
  BY <1>12 DEF BatchIdle, EndsWritten, StatusWritten, OwnerWritten, results, runVars
<1>13. ASSUME NEW ok \in QueueOutcomes, NEW w \in Workers,
             BatchActiveBlocked(w)
      PROVE  EndsWritten
  BY <1>13 DEF BatchActiveBlocked, EndsWritten, StatusWritten, OwnerWritten, results, runVars
<1>14. ASSUME NEW ok \in QueueOutcomes, NEW w \in Workers,
             BatchStartRun(w)
      PROVE  EndsWritten
  <2>1. PICK r \in Pending : /\ status' = [status EXCEPT ![r] = "running"]
                             /\ worker' = [worker EXCEPT ![w] = [pc |-> "digest", run |-> r,
                                                                 more |-> Remaining(r) # {}]]
                             /\ UNCHANGED <<interrupt, invoked>>
    BY <1>14 DEF BatchStartRun, BatchStart, results
  <2>2. r \in Runs /\ status[r] = "pending" /\ status'[r] = "running"
    BY <1>t, <2>1 DEF Pending, WithStatus, TypeOK
  <2>3. \A q \in Runs : status[q] \in Started => StatusWritten(q)
    BY <1>t, <2>1, <2>2 DEF StatusWritten, Started, Terminal, TypeOK
  <2>4. \A v \in Workers : worker[v] # worker'[v] => OwnerWritten(v)
    BY <1>t, <2>1, <2>2 DEF OwnerWritten, TypeOK
  <2> QED BY <2>1, <2>3, <2>4 DEF EndsWritten
<1>15. ASSUME NEW ok \in QueueOutcomes, NEW w \in Workers,
             BatchInvalidPolicy(w, ok)
      PROVE  EndsWritten
  <2>1. PICK r \in Pending : status' = [status EXCEPT ![r] = "failed"]
    BY <1>15 DEF BatchInvalidPolicy
  <2>2. r \in Runs /\ status[r] = "pending"
    BY <2>1 DEF Pending, WithStatus
  <2>3. UNCHANGED <<interrupt, invoked, worker>>
    BY <1>15 DEF BatchInvalidPolicy, BatchStart, results
  <2>4. \A q \in Runs : status[q] \in Started => StatusWritten(q)
    BY <1>t, <2>1, <2>2 DEF StatusWritten, Started, Terminal, TypeOK
  <2> QED BY <2>3, <2>4 DEF EndsWritten
<1>16. ASSUME NEW ok \in QueueOutcomes, NEW w \in Workers,
             StartInvocation(w)
      PROVE  EndsWritten
  BY <1>16, <1>t DEF StartInvocation, InvocationFree, EndsWritten, StatusWritten, OwnerWritten, TypeOK, runVars
<1>17. ASSUME NEW ok \in QueueOutcomes, NEW w \in Workers,
             StartInvocationConflict(w, ok)
      PROVE  EndsWritten
  BY <1>17, <1>t DEF StartInvocationConflict, EndsWritten, StatusWritten, OwnerWritten, TypeOK, runVars, results
<1>18. ASSUME NEW ok \in QueueOutcomes, NEW w \in Workers,
             FailRun(w, ok)
      PROVE  EndsWritten
  <2>1. /\ worker[w].pc = "model" /\ worker' = [worker EXCEPT ![w] = Idle]
        /\ status' = [status EXCEPT ![worker[w].run] = "failed"]
        /\ UNCHANGED <<interrupt, invoked>>
    BY <1>18 DEF FailRun, FinishBatch, results
  <2> QED BY <1>t, <2>1, CallbackWrites DEF TypeOK
<1>19. ASSUME NEW ok \in QueueOutcomes, NEW w \in Workers,
             DiscardStaleResult(w, ok)
      PROVE  EndsWritten
  <2> DEFINE r == worker[w].run
  <2>1. /\ worker[w].pc = "model" /\ worker' = [worker EXCEPT ![w] = Idle]
        /\ status' = [status EXCEPT ![r] = IF IsStale(r) THEN "interrupted" ELSE @]
        /\ interrupt' = [interrupt EXCEPT ![r] = @ \/ IsStale(r)]
        /\ UNCHANGED invoked
    BY <1>19 DEF DiscardStaleResult, FinishBatch
  <2>2. r \in Runs
    BY <1>t DEF TypeOK
  <2>3. \A q \in Runs : interrupt[q] => interrupt'[q]
    BY <1>t, <2>1, <2>2, Zenon DEF TypeOK
  <2>4. status[r] \in Terminal => status'[r] = status[r]
    BY <1>t, <2>1, <2>2 DEF IsStale, TypeOK
  <2>5. \A q \in Runs : q # r => status'[q] = status[q]
    BY <1>t, <2>1, <2>2 DEF TypeOK
  <2> QED BY <1>t, <2>1, <2>3, <2>4, <2>5, CallbackWrites
<1>20. ASSUME NEW ok \in QueueOutcomes, NEW w \in Workers, NEW out \in Outputs,
             CommitModelOutput(w, out, ok)
      PROVE  EndsWritten
  <2> DEFINE r == worker[w].run
             next == [status EXCEPT ![r] = IF Waits(out) THEN "waiting" ELSE out.ends]
  <2>1. /\ r \in Runs
        /\ next \in [Runs -> RunStatus \cup {"absent"}]
        /\ \A q \in Runs : q # r => next[q] = status[q]
        /\ next[r] # "absent"
    BY <1>20, <1>t, SchedulerAssumption DEF TypeOK, OutputType, RunStatus, Terminal
  <2>2. /\ worker' = [worker EXCEPT ![w] = Idle] /\ worker[w].pc = "model"
        /\ status[r] \notin Terminal
        /\ UNCHANGED <<interrupt, invoked>>
    BY <1>20 DEF CommitModelOutput, FinishBatch, CommitAllowed
  <2>3. status[r] # "absent"
    BY <2>2 DEF IInv, CallbackOwnsRun, Terminal
  <2>4. \A q \in Runs : q # r /\ status[q] \in Started => status'[q] = status[q]
    <3>1. \/ status' = next
          \/ UpsertPendingRun(threadOf[r], Len(events[threadOf[r]]) + 1, served[r], next)
      BY <1>20 DEF CommitModelOutput
    <3>2. \A q \in Runs : status[q] = "absent" <=> next[q] = "absent"
      BY <2>1, <2>3
    <3> HIDE DEF next
    <3>3. \A q \in Runs : next[q] # "absent" => status'[q] = next[q]
      BY <1>t, <2>1, <3>1, <3>2, UpsertKeepsRows
    <3> QED BY <2>1, <3>3 DEF Started, Terminal
  <2> QED BY <1>t, <2>2, <2>4, CallbackWrites
<1>21. CASE UNCHANGED vars
  BY <1>21 DEF vars, EndsWritten, StatusWritten, OwnerWritten, results, runVars
<1> QED
  BY ZenonT(60), <1>1, <1>2, <1>3, <1>4, <1>5, <1>6, <1>7, <1>8, <1>9,
     <1>10, <1>11, <1>12, <1>13, <1>14, <1>15, <1>16, <1>17, <1>18, <1>19,
     <1>20, <1>21
  DEF Next, Operation, ProcessPendingRuns

LEMMA EndedStep ==
  ASSUME IInv, IInv', EndedWhileCalled, EndsWritten
  PROVE  EndedWhileCalled'
<1> SUFFICES ASSUME NEW w \in Workers, worker'[w].pc # "idle",
                    status'[worker'[w].run] \in Terminal
             PROVE  status'[worker'[w].run] = "interrupted" /\ interrupt'[worker'[w].run]
  BY DEF EndedWhileCalled
<1> DEFINE r == worker'[w].run
<1>1. worker[w].pc # "idle" /\ worker[w].run = r
  BY DEF EndsWritten, OwnerWritten, Idle, Terminal
<1>2. r \in Runs /\ status[r] \in Started
  BY <1>1 DEF IInv, TypeOK, CallbackOwnsRun, Started
<1>3. ASSUME NEW v \in Workers, Calls(v, r), worker'[v] = Idle PROVE FALSE
  <2>1. v = w
    BY <1>1, <1>3 DEF Calls, IInv, CallbackOwnsRun
  <2> QED BY <1>3, <2>1 DEF Idle
<1>4. status'[r] = status[r] \/ (status'[r] = "interrupted" /\ interrupt'[r])
  BY <1>2, <1>3 DEF EndsWritten, StatusWritten
<1>5. status'[r] = status[r] => status[r] = "interrupted" /\ interrupt[r]
  BY <1>1 DEF EndedWhileCalled
<1> QED BY <1>2, <1>4, <1>5 DEF EndsWritten

\* A Run that ended keeps its status, but for one that was cancelled while its
\* callback called the model: the callback may still write it as failed, once.
TerminalUnlessCalled ==
  [][\A r \in Runs : status[r] \in Terminal =>
       \/ status'[r] = status[r]
       \/ /\ status[r] = "interrupted" /\ interrupt[r]
          /\ status'[r] = "failed"
          /\ \E w \in Workers : Calls(w, r)]_vars

THEOREM TerminalIsKept == Spec => TerminalUnlessCalled
<1>1. Init => EndedWhileCalled
  BY DEF Init, Idle, EndedWhileCalled
<1>2. IInv /\ IInv' /\ EndedWhileCalled /\ [Next]_vars => EndedWhileCalled'
  BY EndsStep, EndedStep
<1>3. IInv /\ EndedWhileCalled /\ [Next]_vars =>
        [\A r \in Runs : status[r] \in Terminal =>
           \/ status'[r] = status[r]
           \/ /\ status[r] = "interrupted" /\ interrupt[r]
              /\ status'[r] = "failed"
              /\ \E w \in Workers : Calls(w, r)]_vars
  <2> SUFFICES ASSUME IInv, EndedWhileCalled, [Next]_vars, NEW r \in Runs, status[r] \in Terminal,
                      status'[r] # status[r]
               PROVE  /\ status[r] = "interrupted" /\ interrupt[r]
                      /\ status'[r] = "failed"
                      /\ \E w \in Workers : Calls(w, r)
    OBVIOUS
  <2>1. PICK w \in Workers : Calls(w, r) /\ status'[r] = "failed"
    BY EndsStep DEF EndsWritten, StatusWritten, Started, Terminal
  <2> QED BY <2>1 DEF Calls, EndedWhileCalled
<1> QED BY <1>1, <1>2, <1>3, Inductive, PTL DEF Spec, TerminalUnlessCalled

\* The model was called for the Run, and the callback that called it is gone: it
\* was evicted, or the Run was resumed after its Delivery result and its second
\* start finds the invocation id taken.
Orphaned(r) ==
  status[r] = "running" /\ invoked[r] /\ \A w \in Workers : ~Calls(w, r)

\* Such a Run keeps the slot until CancelRun: no callback calls the model for it again,
\* and nothing else ends it.
OrphanIsCancelled ==
  [][\A r \in Runs : Orphaned(r) =>
       Orphaned(r)' \/ (status'[r] = "interrupted" /\ interrupt'[r])]_vars

THEOREM OnlyCancelFreesTheSlot == Spec => OrphanIsCancelled
<1>1. IInv /\ IInv' /\ [Next]_vars =>
        [\A r \in Runs : Orphaned(r) =>
           Orphaned(r)' \/ (status'[r] = "interrupted" /\ interrupt'[r])]_vars
  <2> SUFFICES ASSUME IInv, IInv', [Next]_vars, NEW r \in Runs, Orphaned(r),
                      ~ (status'[r] = "interrupted" /\ interrupt'[r])
               PROVE  Orphaned(r)'
    OBVIOUS
  <2>1. status'[r] = "running" /\ invoked'[r]
    BY EndsStep DEF EndsWritten, StatusWritten, Orphaned, Started
  <2>2. ASSUME NEW w \in Workers, worker'[w].pc = "model", worker'[w].run = r PROVE FALSE
    <3>1. worker[w] # worker'[w]
      BY <2>2 DEF Orphaned, Calls
    <3> QED BY <2>2, <3>1, EndsStep DEF EndsWritten, OwnerWritten, Orphaned, Idle
  <2> QED BY <2>1, <2>2 DEF Orphaned, Calls
<1> QED BY <1>1, Inductive, PTL DEF Spec, OrphanIsCancelled

-----------------------------------------------------------------------------
(* The scheduler implements AgentRunSlot *)

\* The abstract state: where each Run is, as AgentRunSlot sees it.
Phase == [r \in Runs |-> PhaseOf(status[r])]

LEMMA PhaseWritten ==
  ASSUME TypeOK, NEW r \in Runs, NEW s, status' = [status EXCEPT ![r] = s]
  PROVE  Phase' = [Phase EXCEPT ![r] = PhaseOf(s)]
  BY DEF TypeOK, Phase

LEMMA Phases ==
  /\ PhaseOf("absent") = "none"
  /\ PhaseOf("pending") = "queued"
  /\ PhaseOf("running") = "active"
  /\ PhaseOf("waiting") = "parked"
  /\ \A s \in Terminal : PhaseOf(s) = "ended"
  BY DEF PhaseOf, Terminal

\* A handler that writes no status is a stutter of the slot.
LEMMA StatusKept ==
  ASSUME UNCHANGED status
  PROVE  [Slot!Next]_Phase
  BY DEF Phase

LEMMA AdmitRefines ==
  ASSUME TypeOK, RunRows, NEW t, NEW n, NEW at,
         InsertPendingRun(t, n, at, status)
  PROVE  Slot!Next
<1>1. PICK r \in Runs : r = created + 1 /\ status[r] = "absent"
  BY SchedulerAssumption DEF InsertPendingRun, RunRows, TypeOK, Runs
<1>2. status' = [status EXCEPT ![r] = "pending"]
  BY <1>1 DEF InsertPendingRun
<1>3. Phase' = [Phase EXCEPT ![r] = PhaseOf("pending")]
  BY <1>2, PhaseWritten
<1>4. Phase[r] = "none"
  BY <1>1, Phases DEF Phase
<1>5. Slot!Admit(r)
  BY <1>3, <1>4, Phases DEF Slot!Admit, Phase
<1> QED BY <1>5 DEF Slot!Next

LEMMA UpsertRefines ==
  ASSUME TypeOK, RunRows, NEW t, NEW n, NEW at,
         UpsertPendingRun(t, n, at, status)
  PROVE  [Slot!Next]_Phase
<1>1. CASE UNCHANGED status
  BY <1>1, StatusKept
<1>2. CASE InsertPendingRun(t, n, at, status)
  BY <1>2, AdmitRefines
<1> QED BY <1>1, <1>2 DEF UpsertPendingRun

\* A Run that holds the slot gives it back.
LEMMA ReleaseRefines ==
  ASSUME TypeOK, NEW r \in Runs, NEW s \in {"waiting"} \cup Terminal,
         status[r] = "running", status' = [status EXCEPT ![r] = s]
  PROVE  Slot!Next
<1>1. Phase[r] = "active" /\ Phase' = [Phase EXCEPT ![r] = PhaseOf(s)]
  BY PhaseWritten, Phases DEF Phase
<1>2. PhaseOf(s) \in {"parked", "ended"}
  BY Phases
<1>3. Slot!Release(r)
  BY <1>1, <1>2 DEF Slot!Release, Phase
<1> QED BY <1>3 DEF Slot!Next

\* A Run that does not hold the slot ends.
LEMMA WithdrawRefines ==
  ASSUME TypeOK, NEW r \in Runs, NEW s \in Terminal,
         status[r] \in {"pending", "waiting"}, status' = [status EXCEPT ![r] = s]
  PROVE  Slot!Next
<1>1. Phase' = [Phase EXCEPT ![r] = PhaseOf(s)]
  BY PhaseWritten
<1>2. Phase[r] \in {"queued", "parked"} /\ PhaseOf(s) = "ended"
  BY Phases DEF Phase
<1>3. Slot!Withdraw(r)
  BY <1>1, <1>2 DEF Slot!Withdraw, Phase
<1> QED BY <1>3 DEF Slot!Next

\* Every step of the scheduler is a step of the slot, or a stutter.
LEMMA SlotStepRefines ==
  ASSUME TypeOK, RunRows, CallbackOwnsRun, [Next]_vars
  PROVE  [Slot!Next]_Phase
<1>1. ASSUME NEW ok \in QueueOutcomes, NEW t \in Threads, NEW o \in Overrides \cup {NoPolicy},
             PublishEvent(t, o, ok)
      PROVE  [Slot!Next]_Phase
  BY <1>1, UpsertRefines DEF PublishEvent, AppendEventToThread
<1>2. ASSUME NEW ok \in QueueOutcomes, NEW t \in Threads,
             AcceptFoundationEvent(t, ok)
      PROVE  [Slot!Next]_Phase
  BY <1>2, AdmitRefines DEF AcceptFoundationEvent
<1>3. ASSUME NEW ok \in QueueOutcomes, NEW r \in Runs,
             CancelRun(r)
      PROVE  [Slot!Next]_Phase
  <2>1. CASE status[r] = "running"
    BY <1>3, <2>1, ReleaseRefines DEF CancelRun, Terminal
  <2>2. CASE status[r] \in {"pending", "waiting"}
    BY <1>3, <2>2, WithdrawRefines DEF CancelRun, Terminal
  <2> QED BY <1>3, <2>1, <2>2 DEF CancelRun
<1>4. ASSUME NEW ok \in QueueOutcomes, NEW r \in Runs, NEW d \in {"open", "closed"},
             DeliveryResume(r, d, ok)
      PROVE  [Slot!Next]_Phase
  <2>1. Phase' = [Phase EXCEPT ![r] = PhaseOf("pending")]
    BY <1>4, PhaseWritten DEF DeliveryResume
  <2>2. Phase[r] = "parked"
    BY <1>4, Phases DEF DeliveryResume, AwaitsDelivery, Phase
  <2>3. Slot!Resume(r)
    BY <2>1, <2>2, Phases DEF Slot!Resume, Phase
  <2> QED BY <2>3 DEF Slot!Next
<1>5. ASSUME NEW ok \in QueueOutcomes, NEW r \in Runs, NEW d \in {"open", "closed"},
             DeliveryTerminalFailure(r, d)
      PROVE  [Slot!Next]_Phase
  BY <1>5, WithdrawRefines DEF DeliveryTerminalFailure, AwaitsDelivery, Terminal
<1>6. ASSUME NEW ok \in QueueOutcomes, NEW r \in Runs,
             DeliveryFollowUp(r, ok)
      PROVE  [Slot!Next]_Phase
  BY <1>6, UpsertRefines DEF DeliveryFollowUp, AppendEventToThread
<1>7. ASSUME NEW ok \in QueueOutcomes, NEW p \in PolicyRefs,
             UpdateConfig(p)
      PROVE  [Slot!Next]_Phase
  BY <1>7, StatusKept DEF UpdateConfig, runVars
<1>8. ASSUME NEW ok \in QueueOutcomes, NEW p \in PolicyRefs,
             UpsertModelPolicy(p)
      PROVE  [Slot!Next]_Phase
  BY <1>8, StatusKept DEF UpsertModelPolicy, WriteModelPolicy, runVars
<1>9. ASSUME NEW ok \in QueueOutcomes, NEW p \in PolicyRefs,
             ArchiveModelPolicy(p)
      PROVE  [Slot!Next]_Phase
  BY <1>9, StatusKept DEF ArchiveModelPolicy, WriteModelPolicy, runVars
<1>10. ASSUME NEW ok \in QueueOutcomes, DestroyAgent PROVE [Slot!Next]_Phase
  BY <1>10, StatusKept DEF DestroyAgent, runVars
<1>11. ASSUME NEW ok \in QueueOutcomes, Evict PROVE [Slot!Next]_Phase
  BY <1>11, StatusKept DEF Evict, runVars
<1>12. ASSUME NEW ok \in QueueOutcomes, NEW w \in Workers,
             BatchIdle(w)
      PROVE  [Slot!Next]_Phase
  BY <1>12, StatusKept DEF BatchIdle, runVars
<1>13. ASSUME NEW ok \in QueueOutcomes, NEW w \in Workers,
             BatchActiveBlocked(w)
      PROVE  [Slot!Next]_Phase
  BY <1>13, StatusKept DEF BatchActiveBlocked, runVars
<1>14. ASSUME NEW ok \in QueueOutcomes, NEW w \in Workers,
             BatchStartRun(w)
      PROVE  [Slot!Next]_Phase
  <2>1. PICK r \in Pending : status' = [status EXCEPT ![r] = "running"]
    BY <1>14 DEF BatchStartRun
  <2>2. r \in Runs /\ status[r] = "pending"
    BY DEF Pending, WithStatus
  <2>3. Phase[r] = "queued" /\ Phase' = [Phase EXCEPT ![r] = "active"]
    <3>1. Phase' = [Phase EXCEPT ![r] = PhaseOf("running")]
      BY <2>1, <2>2, PhaseWritten
    <3> QED BY <2>2, <3>1, Phases DEF Phase
  <2>4. Slot!SlotFree
    <3>1. \A q \in Runs : status[q] # "running"
      BY <1>14 DEF BatchStartRun, BatchStart, SlotFree, Running, WithStatus
    <3>2. \A q \in Runs : PhaseOf(status[q]) # "active"
      BY <3>1 DEF PhaseOf
    <3> QED BY <3>2 DEF Slot!SlotFree
  <2>5. Slot!Acquire(r)
    BY <2>3, <2>4 DEF Slot!Acquire, Phase
  <2> QED BY <2>2, <2>5 DEF Slot!Next
<1>15. ASSUME NEW ok \in QueueOutcomes, NEW w \in Workers,
             BatchInvalidPolicy(w, ok)
      PROVE  [Slot!Next]_Phase
  <2>1. PICK r \in Pending : status' = [status EXCEPT ![r] = "failed"]
    BY <1>15 DEF BatchInvalidPolicy
  <2>2. r \in Runs /\ status[r] = "pending"
    BY DEF Pending, WithStatus
  <2> QED BY <2>1, <2>2, WithdrawRefines DEF Terminal
<1>16. ASSUME NEW ok \in QueueOutcomes, NEW w \in Workers,
             StartInvocation(w)
      PROVE  [Slot!Next]_Phase
  BY <1>16, StatusKept DEF StartInvocation, runVars
<1>17. ASSUME NEW ok \in QueueOutcomes, NEW w \in Workers,
             StartInvocationConflict(w, ok)
      PROVE  [Slot!Next]_Phase
  BY <1>17, StatusKept DEF StartInvocationConflict, runVars
<1>18. ASSUME NEW ok \in QueueOutcomes, NEW w \in Workers,
             FailRun(w, ok)
      PROVE  [Slot!Next]_Phase
  <2>1. worker[w].run \in Runs /\ status[worker[w].run] \in {"running"} \cup Terminal
    BY <1>18 DEF FailRun, CallbackOwnsRun, TypeOK
  <2>2. status' = [status EXCEPT ![worker[w].run] = "failed"]
    BY <1>18 DEF FailRun
  <2>3. CASE status[worker[w].run] = "running"
    BY <2>1, <2>2, <2>3, ReleaseRefines DEF Terminal
  <2>4. CASE status[worker[w].run] \in Terminal
    <3>1. Phase' = [Phase EXCEPT ![worker[w].run] = PhaseOf("failed")]
      BY <2>1, <2>2, PhaseWritten
    <3>2. Phase[worker[w].run] = "ended" /\ PhaseOf("failed") = "ended"
      BY <2>1, <2>4, Phases DEF Phase, Terminal
    <3> QED BY <3>1, <3>2 DEF Phase
  <2> QED BY <2>1, <2>3, <2>4
<1>19. ASSUME NEW ok \in QueueOutcomes, NEW w \in Workers,
             DiscardStaleResult(w, ok)
      PROVE  [Slot!Next]_Phase
  <2>1. worker[w].run \in Runs /\ status[worker[w].run] \in {"running"} \cup Terminal
    BY <1>19 DEF DiscardStaleResult, CallbackOwnsRun, TypeOK
  <2>2. CASE IsStale(worker[w].run)
    <3>1. status[worker[w].run] = "running"
      BY <2>1, <2>2 DEF IsStale
    <3>2. status' = [status EXCEPT ![worker[w].run] = "interrupted"]
      BY <1>19, <2>2 DEF DiscardStaleResult
    <3> QED BY <2>1, <3>1, <3>2, ReleaseRefines DEF Terminal
  <2>3. CASE ~ IsStale(worker[w].run)
    BY <1>19, <2>3, StatusKept DEF DiscardStaleResult, TypeOK
  <2> QED BY <2>2, <2>3
<1>20. ASSUME NEW ok \in QueueOutcomes, NEW w \in Workers, NEW out \in Outputs,
             CommitModelOutput(w, out, ok)
      PROVE  [Slot!Next]_Phase
  <2> DEFINE r == worker[w].run
             s == IF Waits(out) THEN "waiting" ELSE out.ends
  <2>1. r \in Runs /\ status[r] = "running"
    BY <1>20 DEF CommitModelOutput, CommitAllowed, CallbackOwnsRun, TypeOK
  <2>2. s \in {"waiting"} \cup Terminal
    BY SchedulerAssumption DEF OutputType, Terminal
  <2>3. \/ status' = [status EXCEPT ![r] = s]
        \/ UpsertPendingRun(threadOf[r], Len(events[threadOf[r]]) + 1, served[r],
                            [status EXCEPT ![r] = s])
    BY <1>20 DEF CommitModelOutput
  <2> HIDE DEF s
  <2>4. CASE status' = [status EXCEPT ![r] = s]
    BY <2>1, <2>2, <2>4, ReleaseRefines
  <2>5. CASE InsertPendingRun(threadOf[r], Len(events[threadOf[r]]) + 1, served[r],
                              [status EXCEPT ![r] = s])
    <3>1. PICK q \in Runs : q = created + 1 /\ status[q] = "absent"
      BY <2>5, SchedulerAssumption DEF InsertPendingRun, RunRows, TypeOK, Runs
    <3>2. status' = [[status EXCEPT ![r] = s] EXCEPT ![q] = "pending"]
      BY <2>5, <3>1 DEF InsertPendingRun
    <3>3. q # r
      BY <2>1, <3>1
    <3>4. status' = [status EXCEPT ![r] = s, ![q] = "pending"]
      BY <3>2
    <3>5. PhaseOf(s) \in {"parked", "ended"}
      BY <2>2, Phases
    <3>6. Phase' = [Phase EXCEPT ![r] = PhaseOf(s), ![q] = "queued"]
      <4>1. Phase' = [x \in Runs |-> PhaseOf(status'[x])]
        BY DEF Phase
      <4>2. \A x \in Runs : status'[x] = IF x = q THEN "pending"
                                         ELSE IF x = r THEN s ELSE status[x]
        BY <3>4 DEF TypeOK
      <4>3. \A x \in Runs : PhaseOf(status'[x]) =
              IF x = q THEN "queued"
              ELSE IF x = r THEN PhaseOf(s) ELSE PhaseOf(status[x])
        BY <4>2, Phases
      <4> QED BY <2>1, <3>3, <4>1, <4>3 DEF Phase
    <3>7. Slot!ReleaseAndAdmit(r, q)
      BY <2>1, <3>1, <3>5, <3>6, Phases DEF Slot!ReleaseAndAdmit, Phase
    <3> QED BY <2>1, <3>1, <3>7 DEF Slot!Next
  <2> QED BY <2>3, <2>4, <2>5 DEF UpsertPendingRun
<1>21. CASE UNCHANGED vars
  BY <1>21, StatusKept DEF vars, runVars
<1> QED
  BY ZenonT(60), <1>1, <1>2, <1>3, <1>4, <1>5, <1>6, <1>7, <1>8, <1>9,
     <1>10, <1>11, <1>12, <1>13, <1>14, <1>15, <1>16, <1>17, <1>18, <1>19,
     <1>20, <1>21
  DEF Next, Operation, ProcessPendingRuns

\* The scheduler implements AgentRunSlot: with Runs that wait, resume, emit, fail
\* and are cancelled, each Run goes through the one slot and an ended Run never
\* comes back.
THEOREM ImplementsSlot == Spec => SlotSpec
<1>1. Init => Slot!Init
  BY Phases DEF Init, Slot!Init
<1>2. IInv /\ [Next]_vars => [Slot!Next]_Phase
  BY SlotStepRefines DEF IInv
<1> QED BY <1>1, <1>2, Inductive, PTL DEF Spec, SlotSpec, Slot!Spec, Phase
=============================================================================
