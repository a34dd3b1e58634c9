------------------------ MODULE AgentRunWakeProofs ------------------------
(***************************************************************************)
(* Proofs about the scheduler wake of AgentRunScheduler: while no queue()  *)
(* fails, nothing is evicted, and no output responds or emits, the wake    *)
(* state counts the rows of the queue exactly.  A follow-up Run of an      *)
(* emitted Event waits for a wake that no row stands for, and the callback *)
(* of a resumed Run throws: with either the counts are lost.               *)
(***************************************************************************)
EXTENDS AgentRunMailboxProofs

\* One callback at a time, every queue() call succeeds, and no eviction.
SteadyQueue ==
  /\ \A v, w \in Workers : v = w
  /\ MaxLost = 0
  /\ Evictions = {}

QuietOutputs == \A out \in Outputs : out.does \cap {"respond", "emit_event"} = {}

\* The callback in flight will enqueue a wake when it ends.
WakeOwed == \E w \in Workers : worker[w].pc # "idle" /\ worker[w].more

\* The wake state counts the wakes: one, queued or owed, while it is "pending"
\* and none while it is "idle".
WakeCounted ==
  \/ wake = "pending" /\ queued = 1 /\ ~WakeOwed
  \/ wake = "pending" /\ queued = 0 /\ WakeOwed
  \/ wake = "idle" /\ queued = 0 /\ ~WakeOwed

PendingHasWake == \A r \in Runs : status[r] = "pending" => wake = "pending"

\* A Run holds the slot only while its callback is in flight.
RunningIsOwned ==
  \A r \in Runs : status[r] = "running" =>
    \E w \in Workers : worker[w].pc # "idle" /\ worker[w].run = r

\* The invocation row of a Run is inserted once, after the Run has been started.
CallIsFirst ==
  /\ \A r \in Runs : invoked[r] => status[r] \notin {"absent", "pending"}
  /\ \A w \in Workers : worker[w].pc = "digest" => ~invoked[worker[w].run]

InterruptEnds == \A r \in Runs : interrupt[r] => status[r] \in Terminal

WakeInv ==
  /\ NoDelivery
  /\ WakeCounted
  /\ PendingHasWake
  /\ RunningIsOwned
  /\ CallIsFirst
  /\ InterruptEnds

-----------------------------------------------------------------------------
(* What the handlers do to the wake *)

LEMMA QueueSucceeds ==
  ASSUME SteadyQueue, IInv, NEW ok \in QueueOutcomes
  PROVE  ok = TRUE
<1>1. ~ (lost < MaxLost)
  BY DEF SteadyQueue, IInv, TypeOK
<1> QED BY Zenon, <1>1 DEF QueueOutcomes

\* The wake that is owed is that of the only callback.
LEMMA OwedByOnlyOne ==
  ASSUME SteadyQueue, NEW w \in Workers
  PROVE  /\ WakeOwed <=> worker[w].pc # "idle" /\ worker[w].more
         /\ WakeOwed' <=> worker'[w].pc # "idle" /\ worker'[w].more
  BY DEF SteadyQueue, WakeOwed

\* A step that changes neither Runs nor wakes.
LEMMA StillKeeps ==
  ASSUME WakeInv,
         UNCHANGED <<status, wake, queued, worker, invoked, interrupt, delivery>>
  PROVE  WakeInv'
<1>1. WakeOwed' <=> WakeOwed
  BY DEF WakeOwed
<1> QED
  BY <1>1
  DEF WakeInv, NoDelivery, WakeCounted, PendingHasWake, RunningIsOwned, CallIsFirst,
      InterruptEnds

\* A handler that admits an Event requests a wake, which is coalesced into the
\* one that is pending.
LEMMA AdmitKeeps ==
  ASSUME SteadyQueue, IInv, WakeInv, NEW ok \in QueueOutcomes, NEW t, NEW n, NEW at,
         UpsertPendingRun(t, n, at, status) \/ InsertPendingRun(t, n, at, status),
         RequestSchedulerWake(ok),
         UNCHANGED <<worker, invoked, interrupt, delivery>>
  PROVE  WakeInv'
<1>1. \A q \in Runs : \/ status'[q] = status[q]
                      \/ status[q] = "absent" /\ status'[q] = "pending"
  <2>1. CASE InsertPendingRun(t, n, at, status)
    <3>1. created + 1 \in Runs /\ status[created + 1] = "absent"
      BY <2>1, SchedulerAssumption DEF InsertPendingRun, RunRows, IInv, TypeOK, Runs
    <3>2. PICK r \in Runs : r = created + 1 /\ status[r] = "absent"
      BY <3>1
    <3>3. status' = [status EXCEPT ![r] = "pending"]
      BY <2>1, <3>2 DEF InsertPendingRun
    <3> QED BY <3>2, <3>3 DEF IInv, TypeOK
  <2>2. CASE status' = status
    BY <2>2
  <2> QED BY <2>1, <2>2 DEF UpsertPendingRun
<1>2. WakeOwed' <=> WakeOwed
  BY DEF WakeOwed
<1>3. wake' = "pending" /\ WakeCounted'
  <2>1. ok = TRUE
    BY QueueSucceeds
  <2>2. CASE wake = "idle"
    <3>1. queued' = queued + 1 /\ wake' = "pending"
      BY <2>1, <2>2 DEF RequestSchedulerWake, EnqueueSchedulerWake
    <3> QED BY <1>2, <2>2, <3>1 DEF WakeInv, WakeCounted
  <2>3. CASE wake # "idle"
    <3>1. UNCHANGED <<queued, wake>>
      BY <2>3 DEF RequestSchedulerWake, wakeVars
    <3> QED BY <1>2, <2>3, <3>1 DEF WakeInv, WakeCounted
  <2> QED BY <2>2, <2>3
<1>4. PendingHasWake'
  BY <1>3 DEF PendingHasWake
<1>5. RunningIsOwned'
  BY <1>1 DEF WakeInv, RunningIsOwned
<1>6. CallIsFirst'
  BY <1>1 DEF WakeInv, CallIsFirst
<1>7. InterruptEnds'
  BY <1>1 DEF WakeInv, InterruptEnds, Terminal
<1> QED BY <1>3, <1>4, <1>5, <1>6, <1>7 DEF WakeInv, NoDelivery

\* A cancelled Run leaves its wake behind.
LEMMA CancelKeeps ==
  ASSUME IInv, WakeInv, NEW r \in Runs, CancelRun(r)
  PROVE  WakeInv'
<1>1. /\ UNCHANGED <<wake, queued, worker, invoked, delivery>>
      /\ interrupt' = [interrupt EXCEPT ![r] = TRUE]
  BY DEF CancelRun, wakeVars
<1>2. /\ status'[r] \in {"cancelled", "interrupted"}
      /\ \A q \in Runs : q # r => status'[q] = status[q]
      /\ \A q \in Runs : q # r => interrupt'[q] = interrupt[q]
  BY <1>1 DEF CancelRun, IInv, TypeOK
<1>3. WakeOwed' <=> WakeOwed
  BY <1>1 DEF WakeOwed
<1>4. WakeCounted'
  BY <1>1, <1>3 DEF WakeInv, WakeCounted
<1>5. PendingHasWake'
  BY <1>1, <1>2 DEF WakeInv, PendingHasWake
<1>6. RunningIsOwned'
  BY <1>1, <1>2 DEF WakeInv, RunningIsOwned
<1>7. CallIsFirst'
  BY <1>1, <1>2 DEF WakeInv, CallIsFirst
<1>8. InterruptEnds'
  BY <1>2 DEF WakeInv, InterruptEnds, Terminal
<1> QED BY <1>1, <1>4, <1>5, <1>6, <1>7, <1>8 DEF WakeInv, NoDelivery

\* A callback that takes a row finds its wake pending, no other wake, no other
\* callback and, since no callback is in flight, no running Run.
LEMMA BatchFindsFreeSlot ==
  ASSUME SteadyQueue, IInv, WakeInv, NEW w \in Workers, TakeRow(w)
  PROVE  /\ queued = 1 /\ ~WakeOwed
         /\ worker[w].pc = "idle"
         /\ SlotFree
<1>1. queued > 0 /\ worker[w].pc = "idle"
  BY DEF TakeRow, Busy
<1>2. queued = 1 /\ ~WakeOwed
  BY <1>1 DEF WakeInv, WakeCounted
<1>3. SlotFree
  BY <1>1 DEF SteadyQueue, WakeInv, RunningIsOwned, SlotFree, Running, WithStatus
<1> QED BY <1>1, <1>2, <1>3

LEMMA BatchIdleKeeps ==
  ASSUME SteadyQueue, IInv, WakeInv, NEW w \in Workers, BatchIdle(w)
  PROVE  WakeInv'
<1>1. queued = 1 /\ ~WakeOwed
  BY BatchFindsFreeSlot DEF BatchIdle
<1>2. /\ wake' = "idle" /\ queued' = queued - 1
      /\ UNCHANGED <<worker, status, invoked, interrupt, delivery>>
      /\ \A r \in Runs : status[r] # "pending"
  BY DEF BatchIdle, Pending, WithStatus, runVars, results
<1>3. WakeOwed' <=> WakeOwed
  BY <1>2 DEF WakeOwed
<1> QED
  BY <1>1, <1>2, <1>3
  DEF WakeInv, NoDelivery, WakeCounted, PendingHasWake, RunningIsOwned, CallIsFirst,
      InterruptEnds

\* The started Run owes the wake of the Runs the batch leaves.
LEMMA BatchStartKeeps ==
  ASSUME SteadyQueue, IInv, WakeInv, NEW w \in Workers, BatchStartRun(w)
  PROVE  WakeInv'
<1>1. PICK r \in Pending :
         /\ BatchStart(w, r)
         /\ status' = [status EXCEPT ![r] = "running"]
         /\ worker' = [worker EXCEPT ![w] = [pc |-> "digest", run |-> r,
                                             more |-> Remaining(r) # {}]]
         /\ wake' = WakeAfterBatch(r)
         /\ queued' = queued - 1
  BY DEF BatchStartRun
<1>2. r \in Runs /\ status[r] = "pending"
  BY DEF Pending, WithStatus
<1>3. queued = 1
  BY <1>1, BatchFindsFreeSlot DEF BatchStart
<1>4. \A q \in Runs : status'[q] = IF q = r THEN "running" ELSE status[q]
  BY <1>1 DEF IInv, TypeOK
<1>5. worker'[w] = [pc |-> "digest", run |-> r, more |-> Remaining(r) # {}]
  BY <1>1 DEF IInv, TypeOK
<1>6. UNCHANGED <<invoked, interrupt, delivery>>
  BY <1>1 DEF BatchStart, results
<1>7. WakeOwed' <=> Remaining(r) # {}
  <2> DEFINE more == Remaining(r) # {}
  <2>1. worker'[w] = [pc |-> "digest", run |-> r, more |-> more]
    BY <1>5
  <2> HIDE DEF more
  <2>2. worker'[w].pc # "idle" /\ worker'[w].more = more
    BY <2>1
  <2>3. WakeOwed' <=> more
    BY Zenon, <2>2, OwedByOnlyOne
  <2> QED BY <2>3 DEF more
<1>8. WakeCounted'
  BY <1>1, <1>3, <1>7 DEF WakeCounted, WakeAfterBatch
<1>9. PendingHasWake'
  <2>1. \A q \in Runs : status'[q] = "pending" => q \in Remaining(r)
    BY <1>4 DEF Remaining, Pending, WithStatus
  <2> QED BY <1>1, <2>1 DEF PendingHasWake, WakeAfterBatch
<1>10. RunningIsOwned'
  <2>1. \A q \in Runs : status[q] # "running"
    BY <1>1, BatchFindsFreeSlot DEF BatchStart, SlotFree, Running, WithStatus
  <2> QED BY <1>4, <1>5, <2>1 DEF RunningIsOwned
<1>11. CallIsFirst'
  <2>1. \A v \in Workers : worker'[v].run = r
    BY <1>5 DEF SteadyQueue
  <2>2. ~invoked[r]
    BY <1>2 DEF WakeInv, CallIsFirst
  <2> QED BY <1>4, <1>6, <2>1, <2>2 DEF WakeInv, CallIsFirst
<1>12. InterruptEnds'
  BY <1>2, <1>4, <1>6 DEF WakeInv, InterruptEnds, Terminal
<1> QED BY <1>6, <1>8, <1>9, <1>10, <1>11, <1>12 DEF WakeInv, NoDelivery

\* A Run without a model policy fails in the batch, which enqueues the next wake
\* itself.
LEMMA InvalidPolicyKeeps ==
  ASSUME SteadyQueue, IInv, WakeInv, NEW w \in Workers, NEW ok \in QueueOutcomes,
         BatchInvalidPolicy(w, ok)
  PROVE  WakeInv'
<1>1. PICK r \in Pending :
         /\ BatchStart(w, r)
         /\ status' = [status EXCEPT ![r] = "failed"]
         /\ IF Remaining(r) # {}
            THEN EnqueueSchedulerWake(ok, queued - 1, WakeAfterBatch(r))
            ELSE /\ ok
                 /\ queued' = queued - 1
                 /\ wake' = WakeAfterBatch(r)
                 /\ UNCHANGED lost
         /\ UNCHANGED worker
  BY DEF BatchInvalidPolicy
<1>2. r \in Runs /\ status[r] = "pending"
  BY DEF Pending, WithStatus
<1>3. queued = 1 /\ ~WakeOwed
  BY <1>1, BatchFindsFreeSlot DEF BatchStart
<1>4. \A q \in Runs : status'[q] = IF q = r THEN "failed" ELSE status[q]
  BY <1>1 DEF IInv, TypeOK
<1>5. UNCHANGED <<invoked, interrupt, delivery, worker>>
  BY <1>1 DEF BatchStart, results
<1>6. ~WakeOwed'
  BY <1>3, <1>5 DEF WakeOwed
<1>7. /\ wake' = IF Remaining(r) # {} THEN "pending" ELSE "idle"
      /\ queued' = IF Remaining(r) # {} THEN 1 ELSE 0
  <2>1. ok = TRUE
    BY QueueSucceeds
  <2> QED BY <1>1, <1>3, <2>1 DEF EnqueueSchedulerWake, WakeAfterBatch
<1>8. WakeCounted'
  BY <1>6, <1>7 DEF WakeCounted
<1>9. PendingHasWake'
  <2>1. \A q \in Runs : status'[q] = "pending" => q \in Remaining(r)
    BY <1>4 DEF Remaining, Pending, WithStatus
  <2> QED BY <1>7, <2>1 DEF PendingHasWake
<1>10. RunningIsOwned'
  BY <1>4, <1>5 DEF WakeInv, RunningIsOwned
<1>11. CallIsFirst'
  BY <1>4, <1>5 DEF WakeInv, CallIsFirst
<1>12. InterruptEnds'
  BY <1>4, <1>5 DEF WakeInv, InterruptEnds, Terminal
<1> QED BY <1>5, <1>8, <1>9, <1>10, <1>11, <1>12 DEF WakeInv, NoDelivery

\* The model is called for the Run that was started, whose row is new.
LEMMA InvocationKeeps ==
  ASSUME SteadyQueue, IInv, WakeInv, NEW w \in Workers, StartInvocation(w)
  PROVE  WakeInv'
<1> DEFINE r == worker[w].run
<1>1. /\ worker[w].pc = "digest"
      /\ invoked' = [invoked EXCEPT ![r] = TRUE]
      /\ worker' = [worker EXCEPT ![w].pc = "model"]
      /\ UNCHANGED <<status, wake, queued, interrupt, delivery>>
  BY DEF StartInvocation, runVars, wakeVars
<1>2. r \in Runs /\ status[r] \notin {"absent", "pending"}
  BY <1>1 DEF IInv, TypeOK, CallbackOwnsRun, Terminal
<1>3. \A q \in Runs : invoked'[q] => q = r \/ invoked[q]
  BY <1>1 DEF IInv, TypeOK
<1>4. worker'[w].pc = "model" /\ worker'[w].run = r /\ worker'[w].more = worker[w].more
  BY <1>1 DEF IInv, TypeOK
<1>5. WakeOwed' <=> WakeOwed
  BY <1>1, <1>4, OwedByOnlyOne
<1>6. WakeCounted' /\ PendingHasWake'
  BY <1>1, <1>5 DEF WakeInv, WakeCounted, PendingHasWake
<1>7. RunningIsOwned'
  BY <1>1, <1>4 DEF WakeInv, RunningIsOwned, SteadyQueue
<1>8. CallIsFirst'
  <2>1. \A v \in Workers : worker'[v].pc # "digest"
    BY <1>4 DEF SteadyQueue
  <2> QED BY <1>1, <1>2, <1>3, <2>1 DEF WakeInv, CallIsFirst
<1>9. InterruptEnds' /\ NoDelivery'
  BY <1>1 DEF WakeInv, InterruptEnds, NoDelivery
<1> QED BY <1>6, <1>7, <1>8, <1>9 DEF WakeInv

\* The callback ends: its Run leaves the slot, and the wake it owed is enqueued.
LEMMA FinishKeeps ==
  ASSUME SteadyQueue, IInv, WakeInv, NEW w \in Workers, NEW ok \in QueueOutcomes,
         NEW s \in Terminal \cup {"waiting"},
         worker[w].pc # "idle",
         FinishBatch(w, ok, wake),
         status' = [status EXCEPT ![worker[w].run] = s],
         UNCHANGED <<invoked, delivery>>,
         \A q \in Runs : interrupt'[q] => q = worker[w].run \/ interrupt[q],
         interrupt'[worker[w].run] => s \in Terminal
  PROVE  WakeInv'
<1> DEFINE r == worker[w].run
<1>1. r \in Runs /\ status[r] \in {"running"} \cup Terminal
  BY DEF IInv, TypeOK, CallbackOwnsRun
<1>2. \A q \in Runs : status'[q] = IF q = r THEN s ELSE status[q]
  BY DEF IInv, TypeOK
<1>3. s \notin {"absent", "pending", "running"}
  BY DEF Terminal
<1>4. worker' = [worker EXCEPT ![w] = Idle]
  BY DEF FinishBatch
<1>5. worker'[w].pc = "idle" /\ ~WakeOwed'
  <2>1. worker'[w].pc = "idle"
    BY <1>4 DEF Idle, IInv, TypeOK
  <2> QED BY <2>1, OwedByOnlyOne
<1>6. \A q \in Runs : status'[q] # "running"
  <2>1. \A q \in Runs : status[q] = "running" => q = r
    BY DEF WakeInv, RunningIsOwned, SteadyQueue
  <2> QED BY <1>2, <1>3, <2>1
<1>7. wake' = wake /\ WakeCounted'
  <2>1. ok = TRUE
    BY QueueSucceeds
  <2>2. CASE worker[w].more
    <3>1. wake = "pending" /\ queued = 0
      BY <2>2, OwedByOnlyOne DEF WakeInv, WakeCounted
    <3>2. EnqueueSchedulerWake(ok, queued, wake)
      BY <1>6, <2>2 DEF FinishBatch
    <3> QED BY <1>5, <2>1, <3>1, <3>2 DEF EnqueueSchedulerWake, WakeCounted
  <2>3. CASE ~worker[w].more
    <3>1. ~WakeOwed
      BY <2>3, OwedByOnlyOne
    <3>2. wake' = wake /\ queued' = queued
      BY <2>3 DEF FinishBatch
    <3> QED BY <1>5, <3>1, <3>2 DEF WakeInv, WakeCounted
  <2> QED BY <2>2, <2>3
<1>8. PendingHasWake'
  BY <1>2, <1>3, <1>7 DEF WakeInv, PendingHasWake
<1>9. RunningIsOwned'
  BY <1>6 DEF RunningIsOwned
<1>10. CallIsFirst'
  <2>1. \A v \in Workers : worker'[v].pc # "digest"
    BY <1>5 DEF SteadyQueue
  <2> QED BY <1>2, <1>3, <2>1 DEF WakeInv, CallIsFirst
<1>11. InterruptEnds'
  BY <1>1, <1>2 DEF WakeInv, InterruptEnds
<1> QED BY <1>7, <1>8, <1>9, <1>10, <1>11 DEF WakeInv, NoDelivery

\* Every step keeps the count.
LEMMA WakeStep ==
  ASSUME SteadyQueue, QuietOutputs, IInv, WakeInv, [Next]_vars
  PROVE  WakeInv'
<1>1. ASSUME NEW ok \in QueueOutcomes, NEW t \in Threads, NEW o \in Overrides \cup {NoPolicy},
             PublishEvent(t, o, ok)
      PROVE  WakeInv'
  <2>1. UpsertPendingRun(t, Len(events[t]) + 1, threadServed[t], status)
    BY <1>1 DEF PublishEvent, AppendEventToThread
  <2> QED BY <1>1, <2>1, AdmitKeeps DEF PublishEvent, results
<1>2. ASSUME NEW ok \in QueueOutcomes, NEW t \in Threads,
             AcceptFoundationEvent(t, ok)
      PROVE  WakeInv'
  <2>1. InsertPendingRun(t, Len(events[t]) + 1, 0, status)
    BY <1>2 DEF AcceptFoundationEvent
  <2> QED BY <1>2, <2>1, AdmitKeeps DEF AcceptFoundationEvent, results
<1>3. ASSUME NEW ok \in QueueOutcomes, NEW r \in Runs, CancelRun(r) PROVE WakeInv'
  BY <1>3, CancelKeeps
<1>4. ASSUME NEW ok \in QueueOutcomes, NEW r \in Runs, NEW d \in {"open", "closed"},
             DeliveryResume(r, d, ok)
      PROVE  WakeInv'
  BY <1>4 DEF DeliveryResume, AwaitsDelivery, WakeInv, NoDelivery
<1>5. ASSUME NEW ok \in QueueOutcomes, NEW r \in Runs, NEW d \in {"open", "closed"},
             DeliveryTerminalFailure(r, d)
      PROVE  WakeInv'
  BY <1>5 DEF DeliveryTerminalFailure, AwaitsDelivery, WakeInv, NoDelivery
<1>6. ASSUME NEW ok \in QueueOutcomes, NEW r \in Runs,
             DeliveryFollowUp(r, ok)
      PROVE  WakeInv'
  BY <1>6 DEF DeliveryFollowUp, AwaitsDelivery, WakeInv, NoDelivery
<1>7. ASSUME NEW ok \in QueueOutcomes, NEW p \in PolicyRefs,
             UpdateConfig(p)
      PROVE  WakeInv'
  BY <1>7, StillKeeps DEF UpdateConfig, runVars, results, wakeVars
<1>8. ASSUME NEW ok \in QueueOutcomes, NEW p \in PolicyRefs,
             UpsertModelPolicy(p)
      PROVE  WakeInv'
  BY <1>8, StillKeeps DEF UpsertModelPolicy, WriteModelPolicy, runVars, results, wakeVars
<1>9. ASSUME NEW ok \in QueueOutcomes, NEW p \in PolicyRefs,
             ArchiveModelPolicy(p)
      PROVE  WakeInv'
  BY <1>9, StillKeeps DEF ArchiveModelPolicy, WriteModelPolicy, runVars, results, wakeVars
<1>10. ASSUME NEW ok \in QueueOutcomes, DestroyAgent PROVE WakeInv'
  BY <1>10, StillKeeps DEF DestroyAgent, runVars, results, wakeVars
<1>11. ASSUME NEW ok \in QueueOutcomes, Evict PROVE WakeInv'
  BY <1>11 DEF Evict, SteadyQueue
<1>12. ASSUME NEW ok \in QueueOutcomes, NEW w \in Workers,
             BatchIdle(w)
      PROVE  WakeInv'
  BY <1>12, BatchIdleKeeps
<1>13. ASSUME NEW ok \in QueueOutcomes, NEW w \in Workers,
             BatchActiveBlocked(w)
      PROVE  WakeInv'
  BY <1>13, BatchFindsFreeSlot DEF BatchActiveBlocked
<1>14. ASSUME NEW ok \in QueueOutcomes, NEW w \in Workers,
             BatchStartRun(w)
      PROVE  WakeInv'
  BY <1>14, BatchStartKeeps
<1>15. ASSUME NEW ok \in QueueOutcomes, NEW w \in Workers,
             BatchInvalidPolicy(w, ok)
      PROVE  WakeInv'
  BY <1>15, InvalidPolicyKeeps
<1>16. ASSUME NEW ok \in QueueOutcomes, NEW w \in Workers,
             StartInvocation(w)
      PROVE  WakeInv'
  BY <1>16, InvocationKeeps
<1>17. ASSUME NEW ok \in QueueOutcomes, NEW w \in Workers,
             StartInvocationConflict(w, ok)
      PROVE  WakeInv'
  BY <1>17 DEF StartInvocationConflict, InvocationFree, WakeInv, CallIsFirst
<1>18. ASSUME NEW ok \in QueueOutcomes, NEW w \in Workers,
             FailRun(w, ok)
      PROVE  WakeInv'
  <2>1. worker[w].pc # "idle" /\ FinishBatch(w, ok, wake)
    BY <1>18 DEF FailRun
  <2>2. "failed" \in Terminal
    BY DEF Terminal
  <2> QED BY <1>18, <2>1, <2>2, FinishKeeps DEF FailRun, results
<1>19. ASSUME NEW ok \in QueueOutcomes, NEW w \in Workers,
             DiscardStaleResult(w, ok)
      PROVE  WakeInv'
  <2> DEFINE r == worker[w].run
             s == IF IsStale(r) THEN "interrupted" ELSE status[r]
  <2>1. /\ worker[w].pc # "idle" /\ FinishBatch(w, ok, wake)
        /\ UNCHANGED <<invoked, delivery>>
        /\ interrupt' = [interrupt EXCEPT ![r] = @ \/ IsStale(r)]
        /\ status' = [status EXCEPT ![r] = s]
    BY <1>19 DEF DiscardStaleResult
  <2>2. r \in Runs
    BY DEF IInv, TypeOK
  <2>3. s \in Terminal
    <3>1. IsStale(r) \/ interrupt[r] \/ status[r] \in Terminal
      BY DEF IsStale
    <3>2. "interrupted" \in Terminal
      BY DEF Terminal
    <3> QED BY <2>2, <3>1, <3>2 DEF WakeInv, InterruptEnds
  <2>4. \A q \in Runs : interrupt'[q] => q = r \/ interrupt[q]
    BY <2>1 DEF IInv, TypeOK
  <2> HIDE DEF s
  <2> QED BY <2>1, <2>3, <2>4, FinishKeeps
<1>20. ASSUME NEW ok \in QueueOutcomes, NEW w \in Workers, NEW out \in Outputs,
             CommitModelOutput(w, out, ok)
      PROVE  WakeInv'
  <2> DEFINE r == worker[w].run
             s == IF Waits(out) THEN "waiting" ELSE out.ends
  <2>1. out \in OutputType /\ "respond" \notin out.does /\ "emit_event" \notin out.does
    BY SchedulerAssumption DEF QuietOutputs
  <2>2. /\ worker[w].pc # "idle" /\ FinishBatch(w, ok, wake)
        /\ UNCHANGED <<invoked, interrupt>>
        /\ status' = [status EXCEPT ![r] = s]
        /\ CommitAllowed(r)
    BY <1>20, <2>1 DEF CommitModelOutput
  <2>3. delivery' = delivery
    BY <1>20, <2>1 DEF CommitModelOutput, IInv, TypeOK
  <2>4. s \in Terminal \cup {"waiting"}
    BY <2>1 DEF OutputType, Terminal
  <2>5. ~interrupt[r]
    BY <2>2 DEF CommitAllowed
  <2> HIDE DEF s
  <2> QED BY <2>2, <2>3, <2>4, <2>5, FinishKeeps
<1>21. CASE UNCHANGED vars
  BY <1>21, StillKeeps DEF vars, runVars, results, wakeVars
<1> QED
  BY ZenonT(60), <1>1, <1>2, <1>3, <1>4, <1>5, <1>6, <1>7, <1>8, <1>9,
     <1>10, <1>11, <1>12, <1>13, <1>14, <1>15, <1>16, <1>17, <1>18, <1>19,
     <1>20, <1>21
  DEF Next, Operation, ProcessPendingRuns

LEMMA InitWake == Init => WakeInv
<1> SUFFICES ASSUME Init PROVE WakeInv
  OBVIOUS
<1>1. NoDelivery /\ RunningIsOwned /\ InterruptEnds
  BY DEF Init, NoDelivery, RunningIsOwned, InterruptEnds
<1>2. CallIsFirst /\ PendingHasWake
  BY DEF Init, CallIsFirst, PendingHasWake, Idle
<1>3. WakeCounted
  BY DEF Init, WakeCounted, WakeOwed, Idle
<1> QED BY <1>1, <1>2, <1>3 DEF WakeInv

THEOREM WakeIsCounted == ASSUME SteadyQueue, QuietOutputs PROVE Spec => []WakeInv
<1>1. Init => WakeInv
  BY InitWake
<1>2. IInv /\ WakeInv /\ [Next]_vars => WakeInv'
  BY WakeStep
<1> QED BY <1>1, <1>2, Inductive, PTL DEF Spec

LEMMA OwedIsBusy == WakeOwed => \E w \in Busy : worker[w].more
  BY DEF WakeOwed, Busy

\* Requests never put a second wake into the queue, and a wake that others are
\* coalesced into is queued, or the callback in flight will enqueue it.
THEOREM PendingWakeIsReal ==
  ASSUME SteadyQueue, QuietOutputs PROVE Spec => []PendingWakeHasRow
<1>1. WakeInv => PendingWakeHasRow
  BY OwedIsBusy DEF WakeInv, WakeCounted, PendingWakeHasRow
<1> QED BY <1>1, WakeIsCounted, PTL

\* While a Run is pending, a wake is queued or owed, so pending work is never
\* stranded.
THEOREM WakeupIsNotLost == ASSUME SteadyQueue, QuietOutputs PROVE Spec => []NoLostWakeup
<1>1. WakeInv => NoLostWakeup
  BY OwedIsBusy
  DEF WakeInv, WakeCounted, PendingHasWake, NoLostWakeup, Pending, WithStatus
<1> QED BY <1>1, WakeIsCounted, PTL
=============================================================================
