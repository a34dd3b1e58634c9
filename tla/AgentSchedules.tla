--------------------------- MODULE AgentSchedules ---------------------------
(***************************************************************************)
(* The Schedules of one AIAgent Durable Object: creation, which writes the *)
(* row, awaits the runtime of the Agents SDK and binds its alarm; retries  *)
(* of a creation that was interrupted; the alarm's callback, which appends *)
(* an Event or applies the overlap policy; cancellation and Integration    *)
(* cleanup, which write the row and then await the runtime; evictions.     *)
(*                                                                         *)
(* A handler that never awaits is one action.  A handler that awaits the   *)
(* runtime is a record of handler, and other operations run meanwhile.     *)
(***************************************************************************)
EXTENDS Integers, FiniteSets

CONSTANTS
  Schedules,   \* Schedule identities, each with its own idempotency key.
  Owned,       \* Schedules created by the Integration Installation.
  Kinds,       \* schedule_kind values an RPC may create.
  Overlaps,    \* overlap_policy values an RPC may create.
  Handlers,    \* Requests in flight at the same time.
  MaxTick,     \* Bound: the clock, counted in intervals.
  MaxAlarms,   \* Bound: alarms the runtime ever creates for a Schedule.
  Faults       \* "evict": the Durable Object may be evicted.
               \* "bind": storage may refuse to bind an alarm.

ASSUME ScheduleAssumption ==
  /\ Owned \subseteq Schedules
  /\ Kinds \subseteq {"one_shot", "interval"}
  /\ Overlaps \subseteq {"skip", "coalesce", "queue-next"}
  /\ Schedules # {}
  /\ MaxTick \in Nat \ {0}
  /\ MaxAlarms \in Nat
  /\ Faults \subseteq {"evict", "bind"}

VARIABLES
  now,        \* The clock, in intervals.
  row,        \* agent_schedules, see Rows.
  fire,       \* agent_schedule_fires.status per tick, "none" without a row.
  appended,   \* How many schedule.triggered Events were appended for a tick.
  run,        \* Whether the Run of last_run_id is active, has ended or is none.
  ledger,     \* The idempotency record of CreateSchedule.
  answer,     \* The alarm the recorded answer of CancelSchedule names, or 0.
  alarm,      \* The runtime's live alarm, or 0.
  alarms,     \* How many alarms the runtime has created.
  handler     \* Requests in flight.

vars == <<now, row, fire, appended, run, ledger, answer, alarm, alarms, handler>>

-----------------------------------------------------------------------------
(* Types *)

Ticks == 1 .. MaxTick
NoTick == 0

Cancelled == {"cancelled", "disabled"}
Status == {"absent", "active", "completed"} \cup Cancelled

FireStatus == {"none", "event_appended", "suppressed_inactive", "skipped_overlap",
               "coalesced_overlap", "queued_next_overlap", "queue_next_already_pending"}

Rows == [status : Status, kind : {"one_shot", "interval", "run_decision"},
         overlap : {"skip", "coalesce", "queue-next"}, runtimeId : Nat,
         nextFire : Ticks \cup {NoTick}, lastTick : Ticks \cup {NoTick}, queued : Nat]

NoRow == [status |-> "absent", kind |-> "one_shot", overlap |-> "skip", runtimeId |-> 0,
          nextFire |-> NoTick, lastTick |-> NoTick, queued |-> 0]

\* A handler registers or binds the alarm of a Schedule, or cancels the alarms
\* of todo, a set of pairs of a Schedule and the alarm it was bound to.
HandlerType == [pc : {"free", "register", "bind", "unregister"}, s : Schedules,
                id : Nat, todo : SUBSET (Schedules \X Nat)]

Free == [pc |-> "free", s |-> CHOOSE s \in Schedules : TRUE, id |-> 0, todo |-> {}]

TypeOK ==
  /\ now \in Ticks
  /\ row \in [Schedules -> Rows]
  /\ fire \in [Schedules -> [Ticks -> FireStatus]]
  /\ appended \in [Schedules -> [Ticks -> Nat]]
  /\ run \in [Schedules -> {"none", "active", "ended"}]
  /\ ledger \in [Schedules -> {"none", "recording", "recorded"}]
  /\ answer \in [Schedules -> Nat]
  /\ alarm \in [Schedules -> Nat]
  /\ alarms \in [Schedules -> Nat]
  /\ handler \in [Handlers -> HandlerType]

Init ==
  /\ now = 1
  /\ row = [s \in Schedules |-> NoRow]
  /\ fire = [s \in Schedules |-> [t \in Ticks |-> "none"]]
  /\ appended = [s \in Schedules |-> [t \in Ticks |-> 0]]
  /\ run = [s \in Schedules |-> "none"]
  /\ ledger = [s \in Schedules |-> "none"]
  /\ answer = [s \in Schedules |-> 0]
  /\ alarm = [s \in Schedules |-> 0]
  /\ alarms = [s \in Schedules |-> 0]
  /\ handler = [h \in Handlers |-> Free]

-----------------------------------------------------------------------------
(* CreateSchedule *)

Await(h, pc, s, id, todo) ==
  handler' = [handler EXCEPT ![h] = [pc |-> pc, s |-> s, id |-> id, todo |-> todo]]

\* Insert an active row due at due.
InsertSchedule(s, kind, overlap, due) ==
  /\ row[s].status = "absent"
  /\ row' = [row EXCEPT ![s] = [NoRow EXCEPT !.status = "active", !.kind = kind,
                                             !.overlap = overlap, !.nextFire = due]]

\* A new command: nonce, idempotency record and row in one transaction, then
\* await the runtime.
CreateSchedule(h, s, kind, overlap) ==
  /\ handler[h].pc = "free"
  /\ ledger[s] = "none"
  /\ \E due \in Ticks :
       /\ due > now
       /\ kind = "interval" => due = now + 1
       /\ InsertSchedule(s, kind, overlap, due)
  /\ ledger' = [ledger EXCEPT ![s] = "recording"]
  /\ Await(h, "register", s, 0, {})
  /\ UNCHANGED <<now, fire, appended, run, answer, alarm, alarms>>

\* A retry of a command that has no recorded answer.  It registers the alarm
\* again unless the row is bound; then only the answer is missing.
ResumeCreate(h, s) ==
  /\ handler[h].pc = "free"
  /\ ledger[s] = "recording"
  /\ row[s].runtimeId = 0
  /\ Await(h, "register", s, 0, {})
  /\ UNCHANGED <<now, row, fire, appended, run, ledger, answer, alarm, alarms>>

ResumeBoundCreate(s) ==
  /\ ledger[s] = "recording"
  /\ row[s].runtimeId # 0
  /\ ledger' = [ledger EXCEPT ![s] = "recorded"]
  /\ UNCHANGED <<now, row, fire, appended, run, answer, alarm, alarms, handler>>

\* The runtime keeps one alarm for a callback and payload: registering it
\* again returns the live one.
RegisterRuntime(h) ==
  LET s == handler[h].s
      id == IF alarm[s] # 0 THEN alarm[s] ELSE alarms[s] + 1
  IN  /\ handler[h].pc = "register"
      /\ id <= MaxAlarms
      /\ alarm' = [alarm EXCEPT ![s] = id]
      /\ alarms' = [alarms EXCEPT ![s] = IF id > @ THEN id ELSE @]
      /\ Await(h, "bind", s, id, {})
      /\ UNCHANGED <<now, row, fire, appended, run, ledger, answer>>

\* The runtime refuses a call: the request fails with what it has done so far.
RuntimeFails(h) ==
  /\ handler[h].pc \in {"register", "unregister"}
  /\ handler' = [handler EXCEPT ![h] = Free]
  /\ UNCHANGED <<now, row, fire, appended, run, ledger, answer, alarm, alarms>>

\* Mutant: the answer is recorded although the alarm is not bound.
BoundRowUnbound(s, id, due) == row[s]

\* Mutant: binding an alarm makes the Schedule active.
BoundRowActive(s, id, due) ==
  [row[s] EXCEPT !.runtimeId = id, !.nextFire = due, !.status = "active"]

\* The row with its alarm and the time the runtime reports.  Its status is not
\* looked at.
BoundRow(s, id, due) == [row[s] EXCEPT !.runtimeId = id, !.nextFire = due]

\* The time the runtime reports for an alarm: any, where it names a tick.
ReportedTimes(s) == IF row[s].kind = "interval" THEN {now} ELSE Ticks

\* Bind the alarm and record the answer; writing the answer may fail.
BindRuntime(h, recorded) ==
  LET s == handler[h].s
  IN  /\ handler[h].pc = "bind"
      /\ \E due \in ReportedTimes(s) :
           row' = [row EXCEPT ![s] = BoundRow(s, handler[h].id, due)]
      /\ ledger' = [ledger EXCEPT ![s] = IF recorded THEN "recorded" ELSE @]
      /\ handler' = [handler EXCEPT ![h] = Free]
      /\ UNCHANGED <<now, fire, appended, run, answer, alarm, alarms>>

\* Storage refuses the alarm: unregister it again.
BindRuntimeFails(h) ==
  /\ "bind" \in Faults
  /\ handler[h].pc = "bind"
  /\ Await(h, "unregister", handler[h].s, 0, {<<handler[h].s, handler[h].id>>})
  /\ UNCHANGED <<now, row, fire, appended, run, ledger, answer, alarm, alarms>>

\* A create_schedule decision of a Run writes a row and registers no alarm.
CommitScheduleDecision(s) ==
  /\ ledger[s] = "none"
  /\ InsertSchedule(s, "run_decision", "coalesce", now)
  /\ UNCHANGED <<now, fire, appended, run, ledger, answer, alarm, alarms, handler>>

-----------------------------------------------------------------------------
(* The alarm's callback *)

\* The tick of a callback: the interval the clock is in, or the time of a
\* one-shot.
RuntimeTick(s) ==
  IF row[s].kind = "interval" \/ row[s].nextFire = NoTick THEN now ELSE row[s].nextFire

\* A queued tick goes first.
FireCandidate(s) ==
  IF row[s].queued > 0 /\ row[s].lastTick # NoTick THEN row[s].lastTick ELSE RuntimeTick(s)

\* Mutant: only a suppressed tick is recorded.
TickSuppressed(s, t) == fire[s][t] \notin {"none", "queued_next_overlap", "event_appended"}

\* The tick has a row, other than one that queues it.
TickRecorded(s, t) == fire[s][t] \notin {"none", "queued_next_overlap"}

\* Mutant: a Schedule that is bound is active.
IsActiveIfBound(s) == row[s].runtimeId # 0

IsActive(s) == row[s].status = "active"

RunIsActive(s) == run[s] = "active"

RecordFire(s, t, status) == fire' = [fire EXCEPT ![s][t] = status]

\* Mutant: a one-shot stays active.
StatusAfterFireActive(s) == "active"

StatusAfterFire(s) == IF row[s].kind = "one_shot" THEN "completed" ELSE "active"

\* Mutant: the queue is left as it is.
QueuedAfterFireKept(s) == row[s].queued

QueuedAfterFire(s) == IF row[s].queued > 0 THEN row[s].queued - 1 ELSE 0

\* The time after the tick the clock is in, for an interval within the bound.
NextFire(s) == IF row[s].kind = "interval" /\ now < MaxTick THEN now + 1 ELSE NoTick

\* The row after tick t was appended.
FiredRow(s, t) == [row[s] EXCEPT !.lastTick = t, !.nextFire = NextFire(s),
                                 !.queued = QueuedAfterFire(s),
                                 !.status = StatusAfterFire(s)]

AppendTriggeredEvent(s, t) ==
  /\ ~TickRecorded(s, t)
  /\ IsActive(s)
  /\ ~RunIsActive(s)
  /\ appended' = [appended EXCEPT ![s][t] = @ + 1]
  /\ RecordFire(s, t, "event_appended")
  /\ run' = [run EXCEPT ![s] = "active"]
  /\ row' = [row EXCEPT ![s] = FiredRow(s, t)]

SuppressedRow(s, t, queued) == [row[s] EXCEPT !.lastTick = t, !.queued = queued]

\* A suppressed tick, with how many ticks are queued after it.
Suppress(s, t, status, queued) ==
  /\ ~TickRecorded(s, t)
  /\ RecordFire(s, t, status)
  /\ row' = [row EXCEPT ![s] = SuppressedRow(s, t, queued)]
  /\ UNCHANGED <<appended, run>>

SuppressOverlap(s, t) ==
  /\ IsActive(s)
  /\ RunIsActive(s)
  /\ \/ /\ row[s].overlap = "skip"
        /\ Suppress(s, t, "skipped_overlap", row[s].queued)
     \/ /\ row[s].overlap = "coalesce"
        /\ Suppress(s, t, "coalesced_overlap", row[s].queued)
     \/ /\ row[s].overlap = "queue-next"
        /\ row[s].queued = 0
        /\ Suppress(s, t, "queued_next_overlap", row[s].queued + 1)

\* A tick is queued already: only its row in agent_schedule_fires is rewritten.
QueueNextDuplicate(s, t) ==
  /\ ~TickRecorded(s, t)
  /\ IsActive(s)
  /\ RunIsActive(s)
  /\ row[s].overlap = "queue-next"
  /\ row[s].queued > 0
  /\ RecordFire(s, t, "queue_next_already_pending")
  /\ UNCHANGED <<row, appended, run>>

\* The runtime calls handleAgentScheduleCallback.  The alarm of an interval
\* stays; that of a one-shot goes, unless an eviction comes first and it is
\* delivered again.
FireSchedule(s, again) ==
  LET t == FireCandidate(s)
  IN  /\ alarm[s] # 0
      /\ \/ TickRecorded(s, t) /\ UNCHANGED <<row, fire, appended, run>>
         \/ ~IsActive(s) /\ Suppress(s, t, "suppressed_inactive", row[s].queued)
         \/ AppendTriggeredEvent(s, t)
         \/ SuppressOverlap(s, t)
         \/ QueueNextDuplicate(s, t)
      /\ alarm' = [alarm EXCEPT ![s] = IF again \/ row[s].kind = "interval" THEN @ ELSE 0]
      /\ UNCHANGED <<now, ledger, answer, alarms, handler>>

-----------------------------------------------------------------------------
(* Cancellation *)

\* Await the runtime for the alarms of todo, if there are any.
AwaitUnregister(h, todo) ==
  /\ handler[h].pc = "free"
  /\ IF todo = {} THEN UNCHANGED handler
                  ELSE Await(h, "unregister", handler[h].s, 0, todo)

BoundAlarm(s) == {<<s, row[s].runtimeId>> : i \in {j \in {row[s].runtimeId} : j # 0}}

CancelRow(s, status) == [row[s] EXCEPT !.status = status, !.nextFire = NoTick]

CancelSchedule(h, s) ==
  /\ row[s].status # "absent"
  /\ row' = [row EXCEPT ![s] = IF @.status \in Cancelled THEN @
                               ELSE CancelRow(s, "cancelled")]
  /\ answer' = [answer EXCEPT ![s] = row[s].runtimeId]
  /\ AwaitUnregister(h, BoundAlarm(s))
  /\ UNCHANGED <<now, fire, appended, run, ledger, alarm, alarms>>

\* A retry of a CancelSchedule command unregisters the alarm it answered with.
ReplayCancelSchedule(h, s) ==
  /\ answer[s] # 0
  /\ AwaitUnregister(h, {<<s, answer[s]>>})
  /\ UNCHANGED <<now, row, fire, appended, run, ledger, answer, alarm, alarms>>

ActiveOwned == {s \in Owned : IsActive(s)}

CancelSchedulesByInstallation(status) ==
  row' = [s \in Schedules |-> IF s \in ActiveOwned THEN CancelRow(s, status) ELSE row[s]]

CleanupSchedulesForInstallation(h, status) ==
  /\ ActiveOwned # {}
  /\ CancelSchedulesByInstallation(status)
  /\ AwaitUnregister(h, UNION {BoundAlarm(s) : s \in ActiveOwned})
  /\ UNCHANGED <<now, fire, appended, run, ledger, answer, alarm, alarms>>

\* UninstallIntegration writes the rows and leaves the alarms.
UninstallIntegration ==
  /\ ActiveOwned # {}
  /\ CancelSchedulesByInstallation("cancelled")
  /\ UNCHANGED <<now, fire, appended, run, ledger, answer, alarm, alarms, handler>>

\* The runtime cancels alarm id of s.
AlarmAfterCancel(s, id) == IF alarm[s] = id THEN 0 ELSE alarm[s]

CancelRuntime(h) ==
  /\ handler[h].pc = "unregister"
  /\ \E p \in handler[h].todo :
       /\ alarm' = [alarm EXCEPT ![p[1]] = AlarmAfterCancel(p[1], p[2])]
       /\ handler' = [handler EXCEPT ![h] =
                        IF @.todo = {p} THEN Free
                        ELSE [handler[h] EXCEPT !.todo = handler[h].todo \ {p}]]
  /\ UNCHANGED <<now, row, fire, appended, run, ledger, answer, alarms>>

-----------------------------------------------------------------------------
(* The environment *)

\* The scheduler ends the Run of the last Event.
EndRun(s) ==
  /\ run[s] = "active"
  /\ run' = [run EXCEPT ![s] = "ended"]
  /\ UNCHANGED <<now, row, fire, appended, ledger, answer, alarm, alarms, handler>>

Advance ==
  /\ now < MaxTick
  /\ now' = now + 1
  /\ UNCHANGED <<row, fire, appended, run, ledger, answer, alarm, alarms, handler>>

\* An eviction loses the requests in flight; their callers may retry.
Evict ==
  /\ "evict" \in Faults
  /\ \E h \in Handlers : handler[h].pc # "free"
  /\ handler' = [h \in Handlers |-> Free]
  /\ UNCHANGED <<now, row, fire, appended, run, ledger, answer, alarm, alarms>>

-----------------------------------------------------------------------------
(* Specification *)

\* What the Durable Object goes on with unasked.
Continue(h) ==
  \/ RegisterRuntime(h)
  \/ \E recorded \in BOOLEAN : BindRuntime(h, recorded)
  \/ CancelRuntime(h)

Request(h) ==
  \/ \E s \in Schedules :
       \/ \E kind \in Kinds, overlap \in Overlaps : CreateSchedule(h, s, kind, overlap)
       \/ ResumeCreate(h, s)
       \/ CancelSchedule(h, s)
       \/ ReplayCancelSchedule(h, s)
  \/ \E status \in Cancelled : CleanupSchedulesForInstallation(h, status)

Next ==
  \/ \E h \in Handlers : \/ Request(h)
                         \/ Continue(h)
                         \/ RuntimeFails(h)
                         \/ BindRuntimeFails(h)
  \/ \E s \in Schedules : \/ ResumeBoundCreate(s)
                          \/ CommitScheduleDecision(s)
                          \/ \E again \in BOOLEAN : FireSchedule(s, again)
                          \/ EndRun(s)
  \/ UninstallIntegration
  \/ Advance
  \/ Evict

Spec == Init /\ [][Next]_vars

\* The runtime delivers its alarms unasked and does not lose them, time passes,
\* and the scheduler ends the Runs of the Schedules.  Callers owe nothing.
FairSpec ==
  /\ Spec
  /\ WF_vars(Advance)
  /\ \A s \in Schedules : WF_vars(FireSchedule(s, FALSE)) /\ WF_vars(EndRun(s))

-----------------------------------------------------------------------------
(* Safety *)

\* "Duplicate schedule.triggered Events for the same tick MUST NOT be created":
\* a tick has one Event, however often its callback is delivered, whether it
\* was queued before, and whatever the Run of the last one does.
OneEventPerTick == \A s \in Schedules : \A t \in Ticks : appended[s][t] <= 1

\* A one-shot fires once, although a retry of its creation may register a second
\* alarm and binding it gives the row a new time after it has fired.
OneShotOnce ==
  \A s \in Schedules : row[s].kind = "one_shot" =>
    \A t, u \in Ticks : appended[s][t] > 0 /\ appended[s][u] > 0 => t = u

\* A Schedule queues at most one tick, and a queued tick is one that has not
\* fired.
QueuedTickNotFired ==
  \A s \in Schedules :
    /\ row[s].queued <= 1
    /\ row[s].queued = 1 => row[s].lastTick # NoTick /\ appended[s][row[s].lastTick] = 0

\* A CreateSchedule that was answered with success is bound to an alarm,
\* although registering, binding and answering can each fail or be retried by
\* two requests at once.
RecordedMeansBound == \A s \in Schedules : ledger[s] = "recorded" => row[s].runtimeId # 0

\* A Schedule that was answered with success and is still active has a live
\* alarm: no race of retries, callbacks and cancellations leaves it silent.
AcknowledgedHasAlarm ==
  \A s \in Schedules : ledger[s] = "recorded" /\ IsActive(s) => alarm[s] # 0

-----------------------------------------------------------------------------
(* What a step may never do *)

\* "CancelSchedule prevents the future schedule.triggered Events": after it, or
\* after its Integration is cleaned up, no Event is appended and nothing brings
\* the Schedule back, not even the alarm that a creation binds afterwards.
CancelIsFinal ==
  [][\A s \in Schedules : row[s].status \in Cancelled =>
       row'[s].status = row[s].status /\ appended'[s] = appended[s]]_vars

-----------------------------------------------------------------------------
(* Liveness *)

\* A one-shot that was answered with success fires, or is cancelled.
OneShotFires ==
  \A s \in Schedules :
    ledger[s] = "recorded" /\ row[s].kind = "one_shot" /\ IsActive(s)
      ~> row[s].status # "active"

-----------------------------------------------------------------------------
(* The abstract specification *)

TickOutcome(status) ==
  IF status \in {"none", "queued_next_overlap"} THEN "open"
  ELSE IF status = "event_appended" THEN "done" ELSE "refused"

Fired == INSTANCE AgentOnce WITH
  Keys <- Schedules \X Ticks,
  outcome <- [k \in Schedules \X Ticks |-> TickOutcome(fire[k[1]][k[2]])],
  effects <- [k \in Schedules \X Ticks |-> appended[k[1]][k[2]]]

\* "Duplicate schedule.triggered Events for the same tick MUST NOT be created":
\* a tick is decided once, however often its callback is delivered, whether it
\* was queued before, and whatever the Run of the last one does; one recorded as
\* skipped, coalesced or suppressed never has an Event.
TicksOnce == Fired!Spec

-----------------------------------------------------------------------------
(* What a test says, and the code does not do *)

\* agent-stage5-schedules.test.ts: a tick that was queued behind an active Run
\* is appended by a callback after that Run has ended.
QueuedTickIsServed ==
  \A s \in Schedules : row[s].queued > 0 ~> row[s].queued = 0 \/ ~IsActive(s)
=============================================================================
