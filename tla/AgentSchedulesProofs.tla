------------------------ MODULE AgentSchedulesProofs ------------------------
(***************************************************************************)
(* Proofs about AgentSchedules, for every set of Schedules, owners, kinds, *)
(* overlap policies and handlers and every value of the bounds.            *)
(***************************************************************************)
EXTENDS AgentSchedules, TLAPS

\* An Event was appended for a tick exactly when its fire row says so.
EventsMatchFires ==
  \A s \in Schedules : \A t \in Ticks :
    appended[s][t] = IF fire[s][t] = "event_appended" THEN 1 ELSE 0

\* A one-shot that is active, or not there yet, has no fire row.
UnfiredOneShot ==
  \A s \in Schedules :
    row[s].kind = "one_shot" /\ row[s].status \in {"absent", "active"} =>
      /\ run[s] # "active"
      /\ \A t \in Ticks : fire[s][t] = "none"

\* Which rows the ledger, the answers and the alarms may speak of.
RowsMatchLedger ==
  \A s \in Schedules :
    /\ row[s].status = "absent" => row[s] = NoRow /\ ledger[s] = "none" /\ alarm[s] = 0
    /\ row[s].kind = "run_decision" => ledger[s] = "none"
    /\ answer[s] # 0 => row[s].status \in Cancelled

\* A handler registers or binds the alarm of a Schedule that a command created.
HandlersMatchRows ==
  \A h \in Handlers :
    /\ handler[h].pc \in {"register", "bind"} => ledger[handler[h].s] # "none"
    /\ handler[h].pc = "bind" => handler[h].id # 0

\* An alarm that is bound, or being bound, is live unless its Schedule has ended,
\* and only the alarms of cancelled Schedules are cancelled.
AlarmsKept ==
  /\ \A s \in Schedules :
       ledger[s] # "none" /\ row[s].runtimeId # 0 /\ IsActive(s) => alarm[s] # 0
  /\ \A h \in Handlers :
       /\ handler[h].pc = "bind" /\ IsActive(handler[h].s) => alarm[handler[h].s] # 0
       /\ \A p \in handler[h].todo : row[p[1]].status \in Cancelled

IInv ==
  /\ TypeOK
  /\ EventsMatchFires
  /\ UnfiredOneShot
  /\ RowsMatchLedger
  /\ HandlersMatchRows
  /\ OneShotOnce
  /\ QueuedTickNotFired
  /\ RecordedMeansBound
  /\ "bind" \notin Faults => AlarmsKept

-----------------------------------------------------------------------------
(* Types of what the actions write *)

\* The absent row is a row.
LEMMA NoRowType == NoRow \in Rows
BY DEF NoRow, Rows, Status, Cancelled, NoTick

\* A free handler has nothing to cancel.
LEMMA FreeType == Free \in HandlerType /\ Free.pc = "free" /\ Free.todo = {}
<1>1. (CHOOSE s \in Schedules : TRUE) \in Schedules
  BY ScheduleAssumption
<1> QED
  BY <1>1 DEF Free, HandlerType

\* The tick of a callback is a tick.
LEMMA CandidateIsTick ==
  ASSUME TypeOK, NEW s \in Schedules
  PROVE  FireCandidate(s) \in Ticks
<1>1. row[s] \in Rows /\ now \in Ticks
  BY DEF TypeOK
<1> QED
  BY <1>1 DEF FireCandidate, RuntimeTick, Rows

\* Row a has the values of row b in every field but those of F.
SameBut(a, b, F) ==
  /\ "status" \notin F => a.status = b.status
  /\ "kind" \notin F => a.kind = b.kind
  /\ "runtimeId" \notin F => a.runtimeId = b.runtimeId
  /\ "lastTick" \notin F => a.lastTick = b.lastTick
  /\ "queued" \notin F => a.queued = b.queued

\* Binding an alarm changes the alarm and the time.
LEMMA BoundRowType ==
  ASSUME NEW s, row[s] \in Rows, NEW id \in Nat, NEW due \in Ticks
  PROVE  /\ BoundRow(s, id, due) \in Rows
         /\ SameBut(BoundRow(s, id, due), row[s], {"runtimeId", "nextFire"})
         /\ BoundRow(s, id, due).runtimeId = id
BY DEF BoundRow, Rows, SameBut

\* Cancelling changes the status and the time.
LEMMA CancelRowType ==
  ASSUME NEW s, row[s] \in Rows, NEW status \in Cancelled
  PROVE  /\ CancelRow(s, status) \in Rows
         /\ SameBut(CancelRow(s, status), row[s], {"status", "nextFire"})
         /\ CancelRow(s, status).status = status
BY DEF CancelRow, Rows, SameBut, Status

\* A suppressed tick changes the last tick and the queue.
LEMMA SuppressedRowType ==
  ASSUME NEW s, row[s] \in Rows, NEW t \in Ticks, NEW queued \in Nat
  PROVE  /\ SuppressedRow(s, t, queued) \in Rows
         /\ SameBut(SuppressedRow(s, t, queued), row[s], {"lastTick", "queued"})
         /\ SuppressedRow(s, t, queued).lastTick = t
         /\ SuppressedRow(s, t, queued).queued = queued
BY DEF SuppressedRow, Rows, SameBut

\* An appended tick changes the last tick, the queue, the status and the time.
LEMMA FiredRowType ==
  ASSUME NEW s, row[s] \in Rows, NEW t \in Ticks, now \in Ticks
  PROVE  /\ FiredRow(s, t) \in Rows
         /\ SameBut(FiredRow(s, t), row[s], {"lastTick", "queued", "status"})
         /\ FiredRow(s, t).lastTick = t
         /\ FiredRow(s, t).queued = QueuedAfterFire(s)
         /\ FiredRow(s, t).status = StatusAfterFire(s)
<1>1. NextFire(s) \in Ticks \cup {NoTick}
  BY ScheduleAssumption DEF NextFire, Ticks, NoTick
<1>2. QueuedAfterFire(s) \in Nat
  BY DEF QueuedAfterFire, Rows
<1>3. StatusAfterFire(s) \in Status
  BY DEF StatusAfterFire, Status
<1> QED
  BY <1>1, <1>2, <1>3 DEF FiredRow, Rows, SameBut

\* A Schedule that is created.
NewRow(kind, overlap, due) ==
  [NoRow EXCEPT !.status = "active", !.kind = kind, !.overlap = overlap, !.nextFire = due]

\* A created row is active and bound to nothing.
LEMMA NewRowType ==
  ASSUME NEW kind \in {"one_shot", "interval", "run_decision"},
         NEW overlap \in {"skip", "coalesce", "queue-next"}, NEW due \in Ticks
  PROVE  LET r == NewRow(kind, overlap, due)
         IN  /\ r \in Rows
             /\ r.status = "active" /\ r.kind = kind /\ r.runtimeId = 0
             /\ r.lastTick = NoTick /\ r.queued = 0
BY NoRowType DEF NewRow, NoRow, Rows, Status

-----------------------------------------------------------------------------
(* Every action preserves the invariant *)

\* The end of a Run.
LEMMA EndRunPreserves ==
  ASSUME IInv, NEW s \in Schedules, EndRun(s)
  PROVE  IInv'
<1>1. TypeOK'
  BY DEF IInv, TypeOK, EndRun
<1>2. EventsMatchFires'
  BY DEF IInv, TypeOK, EventsMatchFires, EndRun
<1>3. UnfiredOneShot'
  BY DEF IInv, TypeOK, UnfiredOneShot, EndRun
<1>4. RowsMatchLedger'
  BY DEF IInv, TypeOK, RowsMatchLedger, EndRun
<1>5. HandlersMatchRows'
  BY DEF IInv, TypeOK, HandlersMatchRows, EndRun
<1>6. OneShotOnce'
  BY DEF IInv, TypeOK, OneShotOnce, EventsMatchFires, UnfiredOneShot, EndRun
<1>7. QueuedTickNotFired'
  BY DEF IInv, TypeOK, QueuedTickNotFired, EventsMatchFires, EndRun
<1>8. RecordedMeansBound'
  BY DEF IInv, TypeOK, RecordedMeansBound, EndRun
<1>9. ("bind" \notin Faults => AlarmsKept)'
  BY DEF IInv, TypeOK, AlarmsKept, IsActive, UnfiredOneShot, RowsMatchLedger, HandlersMatchRows, EndRun
<1> QED
  BY <1>1, <1>2, <1>3, <1>4, <1>5, <1>6, <1>7, <1>8, <1>9 DEF IInv

\* Time passes.
LEMMA AdvancePreserves ==
  ASSUME IInv, Advance
  PROVE  IInv'
<1>1. TypeOK'
  <2>1. now' \in Ticks
    BY ScheduleAssumption DEF IInv, TypeOK, Advance, Ticks
  <2> QED
    BY <2>1 DEF IInv, TypeOK, Advance
<1>2. EventsMatchFires'
  BY DEF IInv, TypeOK, EventsMatchFires, Advance
<1>3. UnfiredOneShot'
  BY DEF IInv, TypeOK, UnfiredOneShot, Advance
<1>4. RowsMatchLedger'
  BY DEF IInv, TypeOK, RowsMatchLedger, Advance
<1>5. HandlersMatchRows'
  BY DEF IInv, TypeOK, HandlersMatchRows, Advance
<1>6. OneShotOnce'
  BY DEF IInv, TypeOK, OneShotOnce, EventsMatchFires, UnfiredOneShot, Advance
<1>7. QueuedTickNotFired'
  BY DEF IInv, TypeOK, QueuedTickNotFired, EventsMatchFires, Advance
<1>8. RecordedMeansBound'
  BY DEF IInv, TypeOK, RecordedMeansBound, Advance
<1>9. ("bind" \notin Faults => AlarmsKept)'
  BY DEF IInv, TypeOK, AlarmsKept, IsActive, UnfiredOneShot, RowsMatchLedger, HandlersMatchRows, Advance
<1> QED
  BY <1>1, <1>2, <1>3, <1>4, <1>5, <1>6, <1>7, <1>8, <1>9 DEF IInv

\* An eviction frees every handler.
LEMMA EvictPreserves ==
  ASSUME IInv, Evict
  PROVE  IInv'
<1>1. TypeOK'
  BY FreeType DEF IInv, TypeOK, Evict
<1>2. EventsMatchFires'
  BY FreeType DEF IInv, TypeOK, EventsMatchFires, Evict
<1>3. UnfiredOneShot'
  BY FreeType DEF IInv, TypeOK, UnfiredOneShot, Evict
<1>4. RowsMatchLedger'
  BY FreeType DEF IInv, TypeOK, RowsMatchLedger, Evict
<1>5. HandlersMatchRows'
  BY FreeType DEF IInv, TypeOK, HandlersMatchRows, Evict
<1>6. OneShotOnce'
  BY FreeType DEF IInv, TypeOK, OneShotOnce, EventsMatchFires, UnfiredOneShot, Evict
<1>7. QueuedTickNotFired'
  BY FreeType DEF IInv, TypeOK, QueuedTickNotFired, EventsMatchFires, Evict
<1>8. RecordedMeansBound'
  BY FreeType DEF IInv, TypeOK, RecordedMeansBound, Evict
<1>9. ("bind" \notin Faults => AlarmsKept)'
  BY FreeType DEF IInv, TypeOK, AlarmsKept, IsActive, UnfiredOneShot, RowsMatchLedger, HandlersMatchRows, Evict
<1> QED
  BY <1>1, <1>2, <1>3, <1>4, <1>5, <1>6, <1>7, <1>8, <1>9 DEF IInv

\* A call the runtime refuses frees the handler.
LEMMA RuntimeFailsPreserves ==
  ASSUME IInv, NEW h \in Handlers, RuntimeFails(h)
  PROVE  IInv'
<1>1. TypeOK'
  BY FreeType DEF IInv, TypeOK, RuntimeFails
<1>2. EventsMatchFires'
  BY FreeType DEF IInv, TypeOK, EventsMatchFires, RuntimeFails
<1>3. UnfiredOneShot'
  BY FreeType DEF IInv, TypeOK, UnfiredOneShot, RuntimeFails
<1>4. RowsMatchLedger'
  BY FreeType DEF IInv, TypeOK, RowsMatchLedger, RuntimeFails
<1>5. HandlersMatchRows'
  BY FreeType DEF IInv, TypeOK, HandlersMatchRows, RuntimeFails
<1>6. OneShotOnce'
  BY FreeType DEF IInv, TypeOK, OneShotOnce, EventsMatchFires, UnfiredOneShot, RuntimeFails
<1>7. QueuedTickNotFired'
  BY FreeType DEF IInv, TypeOK, QueuedTickNotFired, EventsMatchFires, RuntimeFails
<1>8. RecordedMeansBound'
  BY FreeType DEF IInv, TypeOK, RecordedMeansBound, RuntimeFails
<1>9. ("bind" \notin Faults => AlarmsKept)'
  BY FreeType DEF IInv, TypeOK, AlarmsKept, IsActive, UnfiredOneShot, RowsMatchLedger, HandlersMatchRows, RuntimeFails
<1> QED
  BY <1>1, <1>2, <1>3, <1>4, <1>5, <1>6, <1>7, <1>8, <1>9 DEF IInv

\* The answer of a bound Schedule.
LEMMA ResumeBoundPreserves ==
  ASSUME IInv, NEW s \in Schedules, ResumeBoundCreate(s)
  PROVE  IInv'
<1>1. TypeOK'
  BY DEF IInv, TypeOK, ResumeBoundCreate
<1>2. EventsMatchFires'
  BY DEF IInv, TypeOK, EventsMatchFires, ResumeBoundCreate
<1>3. UnfiredOneShot'
  BY DEF IInv, TypeOK, UnfiredOneShot, ResumeBoundCreate
<1>4. RowsMatchLedger'
  BY DEF IInv, TypeOK, RowsMatchLedger, ResumeBoundCreate
<1>5. HandlersMatchRows'
  BY DEF IInv, TypeOK, HandlersMatchRows, ResumeBoundCreate
<1>6. OneShotOnce'
  BY DEF IInv, TypeOK, OneShotOnce, EventsMatchFires, UnfiredOneShot, ResumeBoundCreate
<1>7. QueuedTickNotFired'
  BY DEF IInv, TypeOK, QueuedTickNotFired, EventsMatchFires, ResumeBoundCreate
<1>8. RecordedMeansBound'
  BY DEF IInv, TypeOK, RecordedMeansBound, ResumeBoundCreate
<1>9. ("bind" \notin Faults => AlarmsKept)'
  BY DEF IInv, TypeOK, AlarmsKept, IsActive, UnfiredOneShot, RowsMatchLedger, HandlersMatchRows, ResumeBoundCreate
<1> QED
  BY <1>1, <1>2, <1>3, <1>4, <1>5, <1>6, <1>7, <1>8, <1>9 DEF IInv

\* A retry registers again.
LEMMA ResumePreserves ==
  ASSUME IInv, NEW h \in Handlers, NEW s \in Schedules, ResumeCreate(h, s)
  PROVE  IInv'
<1>1. TypeOK'
  BY DEF IInv, TypeOK, ResumeCreate, Await, HandlerType
<1>2. EventsMatchFires'
  BY DEF IInv, TypeOK, EventsMatchFires, ResumeCreate, Await, HandlerType
<1>3. UnfiredOneShot'
  BY DEF IInv, TypeOK, UnfiredOneShot, ResumeCreate, Await, HandlerType
<1>4. RowsMatchLedger'
  BY DEF IInv, TypeOK, RowsMatchLedger, ResumeCreate, Await, HandlerType
<1>5. HandlersMatchRows'
  BY DEF IInv, TypeOK, HandlersMatchRows, ResumeCreate, Await, HandlerType
<1>6. OneShotOnce'
  BY DEF IInv, TypeOK, OneShotOnce, EventsMatchFires, UnfiredOneShot, ResumeCreate, Await, HandlerType
<1>7. QueuedTickNotFired'
  BY DEF IInv, TypeOK, QueuedTickNotFired, EventsMatchFires, ResumeCreate, Await, HandlerType
<1>8. RecordedMeansBound'
  BY DEF IInv, TypeOK, RecordedMeansBound, ResumeCreate, Await, HandlerType
<1>9. ("bind" \notin Faults => AlarmsKept)'
  BY DEF IInv, TypeOK, AlarmsKept, IsActive, UnfiredOneShot, RowsMatchLedger, HandlersMatchRows, ResumeCreate, Await, HandlerType
<1> QED
  BY <1>1, <1>2, <1>3, <1>4, <1>5, <1>6, <1>7, <1>8, <1>9 DEF IInv

\* The runtime registers an alarm.
LEMMA RegisterPreserves ==
  ASSUME IInv, NEW h \in Handlers, RegisterRuntime(h)
  PROVE  IInv'
<1>1. TypeOK'
  <2> DEFINE s == handler[h].s
             id == IF alarm[s] # 0 THEN alarm[s] ELSE alarms[s] + 1
  <2>1. s \in Schedules /\ id \in Nat
    BY DEF IInv, TypeOK, HandlerType
  <2>2. /\ alarm' = [alarm EXCEPT ![s] = id]
        /\ alarms' = [alarms EXCEPT ![s] = IF id > @ THEN id ELSE @]
        /\ handler' = [handler EXCEPT ![h] = [pc |-> "bind", s |-> s, id |-> id, todo |-> {}]]
    BY DEF RegisterRuntime, Await
  <2> HIDE DEF s, id
  <2>3. [pc |-> "bind", s |-> s, id |-> id, todo |-> {}] \in HandlerType
    BY <2>1 DEF HandlerType
  <2>4. alarm' \in [Schedules -> Nat] /\ alarms' \in [Schedules -> Nat]
    BY <2>1, <2>2 DEF IInv, TypeOK
  <2>5. handler' \in [Handlers -> HandlerType]
    BY <2>2, <2>3 DEF IInv, TypeOK
  <2> QED
    BY <2>4, <2>5 DEF IInv, TypeOK, RegisterRuntime
<1>2. EventsMatchFires'
  BY DEF IInv, TypeOK, EventsMatchFires, RegisterRuntime, Await, HandlerType
<1>3. UnfiredOneShot'
  BY DEF IInv, TypeOK, UnfiredOneShot, RegisterRuntime, Await, HandlerType
<1>4. RowsMatchLedger'
  <2> DEFINE s == handler[h].s
  <2>1. s \in Schedules /\ ledger[s] # "none"
    BY DEF IInv, TypeOK, HandlerType, HandlersMatchRows, RegisterRuntime
  <2>2. \A u \in Schedules : u # s => alarm'[u] = alarm[u]
    BY DEF IInv, TypeOK, RegisterRuntime
  <2>3. UNCHANGED <<row, ledger, answer>>
    BY DEF RegisterRuntime
  <2> HIDE DEF s
  <2> QED
    BY <2>1, <2>2, <2>3 DEF IInv, RowsMatchLedger
<1>5. HandlersMatchRows'
  BY DEF IInv, TypeOK, HandlersMatchRows, RegisterRuntime, Await, HandlerType
<1>6. OneShotOnce'
  BY DEF IInv, TypeOK, OneShotOnce, EventsMatchFires, UnfiredOneShot, RegisterRuntime, Await, HandlerType
<1>7. QueuedTickNotFired'
  BY DEF IInv, TypeOK, QueuedTickNotFired, EventsMatchFires, RegisterRuntime, Await, HandlerType
<1>8. RecordedMeansBound'
  BY DEF IInv, TypeOK, RecordedMeansBound, RegisterRuntime, Await, HandlerType
<1>9. ("bind" \notin Faults => AlarmsKept)'
  BY DEF IInv, TypeOK, AlarmsKept, IsActive, UnfiredOneShot, RowsMatchLedger, HandlersMatchRows, RegisterRuntime, Await, HandlerType
<1> QED
  BY <1>1, <1>2, <1>3, <1>4, <1>5, <1>6, <1>7, <1>8, <1>9 DEF IInv

\* An alarm that storage refuses is unregistered.
LEMMA BindFailsPreserves ==
  ASSUME IInv, NEW h \in Handlers, BindRuntimeFails(h)
  PROVE  IInv'
<1>1. TypeOK'
  BY DEF IInv, TypeOK, BindRuntimeFails, Await, HandlerType
<1>2. EventsMatchFires'
  BY DEF IInv, TypeOK, EventsMatchFires, BindRuntimeFails, Await, HandlerType
<1>3. UnfiredOneShot'
  BY DEF IInv, TypeOK, UnfiredOneShot, BindRuntimeFails, Await, HandlerType
<1>4. RowsMatchLedger'
  BY DEF IInv, TypeOK, RowsMatchLedger, BindRuntimeFails, Await, HandlerType
<1>5. HandlersMatchRows'
  BY DEF IInv, TypeOK, HandlersMatchRows, BindRuntimeFails, Await, HandlerType
<1>6. OneShotOnce'
  BY DEF IInv, TypeOK, OneShotOnce, EventsMatchFires, UnfiredOneShot, BindRuntimeFails, Await, HandlerType
<1>7. QueuedTickNotFired'
  BY DEF IInv, TypeOK, QueuedTickNotFired, EventsMatchFires, BindRuntimeFails, Await, HandlerType
<1>8. RecordedMeansBound'
  BY DEF IInv, TypeOK, RecordedMeansBound, BindRuntimeFails, Await, HandlerType
<1>9. ("bind" \notin Faults => AlarmsKept)'
  BY DEF IInv, TypeOK, AlarmsKept, IsActive, UnfiredOneShot, RowsMatchLedger, HandlersMatchRows, BindRuntimeFails, Await, HandlerType
<1> QED
  BY <1>1, <1>2, <1>3, <1>4, <1>5, <1>6, <1>7, <1>8, <1>9 DEF IInv

\* The runtime cancels an alarm.
LEMMA CancelRuntimePreserves ==
  ASSUME IInv, NEW h \in Handlers, CancelRuntime(h)
  PROVE  IInv'
<1>. PICK p \in handler[h].todo :
       /\ alarm' = [alarm EXCEPT ![p[1]] = AlarmAfterCancel(p[1], p[2])]
       /\ handler' = [handler EXCEPT ![h] = IF handler[h].todo = {p} THEN Free
                                          ELSE [handler[h] EXCEPT !.todo = handler[h].todo \ {p}]]
  BY DEF CancelRuntime
<1>a. handler[h] \in HandlerType
  BY DEF IInv, TypeOK
<1>b. p \in Schedules \X Nat
  BY <1>a DEF HandlerType
<1>c. p[1] \in Schedules /\ AlarmAfterCancel(p[1], p[2]) \in Nat
  BY <1>b DEF IInv, TypeOK, AlarmAfterCancel
<1>d. alarm' \in [Schedules -> Nat]
  BY <1>c DEF IInv, TypeOK
<1> DEFINE left == IF handler[h].todo = {p} THEN Free ELSE [handler[h] EXCEPT !.todo = handler[h].todo \ {p}]
<1>e. /\ left \in HandlerType
      /\ left.todo \subseteq handler[h].todo
      /\ left.pc \notin {"register", "bind"}
  BY <1>a, FreeType DEF HandlerType, CancelRuntime
<1>f. handler' = [handler EXCEPT ![h] = left]
  BY DEF IInv, TypeOK
<1> HIDE DEF left
<1>g. handler' \in [Handlers -> HandlerType]
  BY <1>e, <1>f DEF IInv, TypeOK
<1>i. UNCHANGED <<now, row, fire, appended, run, ledger, answer, alarms>>
  BY DEF CancelRuntime
<1>1. TypeOK'
  BY <1>d, <1>g, <1>i DEF IInv, TypeOK
<1>2. EventsMatchFires'
  BY <1>c, <1>i DEF IInv, TypeOK, EventsMatchFires, AlarmAfterCancel
<1>3. UnfiredOneShot'
  BY <1>c, <1>i DEF IInv, TypeOK, UnfiredOneShot, AlarmAfterCancel
<1>4. RowsMatchLedger'
  BY <1>c, <1>i DEF IInv, TypeOK, RowsMatchLedger, AlarmAfterCancel
<1>5. HandlersMatchRows'
  BY <1>e, <1>f, <1>i DEF IInv, TypeOK, HandlersMatchRows
<1>6. OneShotOnce'
  BY <1>c, <1>i DEF IInv, TypeOK, OneShotOnce, EventsMatchFires, UnfiredOneShot, AlarmAfterCancel
<1>7. QueuedTickNotFired'
  BY <1>c, <1>i DEF IInv, TypeOK, QueuedTickNotFired, EventsMatchFires, AlarmAfterCancel
<1>8. RecordedMeansBound'
  BY <1>c, <1>i DEF IInv, TypeOK, RecordedMeansBound, AlarmAfterCancel
<1>9. ("bind" \notin Faults => AlarmsKept)'
  <2> SUFFICES ASSUME "bind" \notin Faults
               PROVE  AlarmsKept'
    OBVIOUS
  <2>1. row[p[1]].status \in Cancelled
    BY DEF IInv, AlarmsKept
  <2>2. ~IsActive(p[1])
    BY <2>1 DEF IsActive, Cancelled
  <2>3. \A s \in Schedules : IsActive(s) => alarm'[s] = alarm[s]
    BY <2>2 DEF IInv, TypeOK
  <2>4. \A g \in Handlers : handler'[g] = IF g = h THEN left ELSE handler[g]
    BY <1>f DEF IInv, TypeOK
  <2>5. \A g \in Handlers : handler[g].s \in Schedules
    BY DEF IInv, TypeOK, HandlerType
  <2>6. \A s \in Schedules : IsActive(s)' = IsActive(s)
    BY <1>i DEF IsActive
  <2>7. \A s \in Schedules :
          (ledger[s] # "none" /\ row[s].runtimeId # 0 /\ IsActive(s) => alarm[s] # 0)'
    BY <1>i, <2>3, <2>6 DEF IInv, AlarmsKept
  <2>8. \A g \in Handlers :
          (handler[g].pc = "bind" /\ IsActive(handler[g].s) => alarm[handler[g].s] # 0)'
    <3> SUFFICES ASSUME NEW g \in Handlers, handler'[g].pc = "bind", IsActive(handler[g].s)'
                 PROVE  alarm'[handler'[g].s] # 0
      OBVIOUS
    <3>1. handler'[g] = handler[g]
      BY <1>e, <2>4
    <3>2. IsActive(handler[g].s)
      BY <1>i, <3>1 DEF IsActive
    <3> QED
      BY <2>3, <2>5, <3>1, <3>2 DEF IInv, AlarmsKept
  <2>9. \A g \in Handlers : \A q \in handler'[g].todo : row'[q[1]].status \in Cancelled
    BY <1>e, <1>i, <2>4 DEF IInv, AlarmsKept
  <2> QED
    BY <2>7, <2>8, <2>9 DEF AlarmsKept
<1> QED
  BY <1>1, <1>2, <1>3, <1>4, <1>5, <1>6, <1>7, <1>8, <1>9 DEF IInv

\* A retried cancellation unregisters the alarm it answered with.
LEMMA ReplayPreserves ==
  ASSUME IInv, NEW h \in Handlers, NEW s \in Schedules, ReplayCancelSchedule(h, s)
  PROVE  IInv'
<1>a. handler' = [handler EXCEPT ![h] =
                     [pc |-> "unregister", s |-> handler[h].s, id |-> 0, todo |-> {<<s, answer[s]>>}]]
  BY DEF ReplayCancelSchedule, AwaitUnregister, Await
<1>b. [pc |-> "unregister", s |-> handler[h].s, id |-> 0, todo |-> {<<s, answer[s]>>}] \in HandlerType
  BY DEF IInv, TypeOK, HandlerType
<1>1. TypeOK'
  BY <1>a, <1>b DEF IInv, TypeOK, ReplayCancelSchedule
<1>2. EventsMatchFires'
  BY <1>a, <1>b DEF IInv, TypeOK, EventsMatchFires, ReplayCancelSchedule
<1>3. UnfiredOneShot'
  BY <1>a, <1>b DEF IInv, TypeOK, UnfiredOneShot, ReplayCancelSchedule
<1>4. RowsMatchLedger'
  BY <1>a, <1>b DEF IInv, TypeOK, RowsMatchLedger, ReplayCancelSchedule
<1>5. HandlersMatchRows'
  BY <1>a, <1>b DEF IInv, TypeOK, HandlersMatchRows, ReplayCancelSchedule
<1>6. OneShotOnce'
  BY <1>a, <1>b DEF IInv, TypeOK, OneShotOnce, EventsMatchFires, UnfiredOneShot, ReplayCancelSchedule
<1>7. QueuedTickNotFired'
  BY <1>a, <1>b DEF IInv, TypeOK, QueuedTickNotFired, EventsMatchFires, ReplayCancelSchedule
<1>8. RecordedMeansBound'
  BY <1>a, <1>b DEF IInv, TypeOK, RecordedMeansBound, ReplayCancelSchedule
<1>9. ("bind" \notin Faults => AlarmsKept)'
  BY <1>a, <1>b DEF IInv, TypeOK, AlarmsKept, IsActive, UnfiredOneShot, RowsMatchLedger, HandlersMatchRows, ReplayCancelSchedule
<1> QED
  BY <1>1, <1>2, <1>3, <1>4, <1>5, <1>6, <1>7, <1>8, <1>9 DEF IInv

\* An alarm is bound.
LEMMA BindPreserves ==
  ASSUME IInv, NEW h \in Handlers, NEW recorded \in BOOLEAN, BindRuntime(h, recorded)
  PROVE  IInv'
<1> DEFINE s == handler[h].s
<1> PICK due \in ReportedTimes(s) : row' = [row EXCEPT ![s] = BoundRow(s, handler[h].id, due)]
  BY DEF BindRuntime
<1>a. s \in Schedules /\ handler[h].id \in Nat /\ due \in Ticks /\ row[s] \in Rows
  BY DEF IInv, TypeOK, HandlerType, ReportedTimes
<1>b. handler[h].id # 0 /\ ledger[s] # "none" /\ handler[h].pc = "bind"
  BY DEF BindRuntime, IInv, HandlersMatchRows
<1>c. /\ BoundRow(s, handler[h].id, due) \in Rows
      /\ SameBut(BoundRow(s, handler[h].id, due), row[s], {"runtimeId", "nextFire"})
      /\ BoundRow(s, handler[h].id, due).runtimeId = handler[h].id
  BY <1>a, BoundRowType
<1>d. row' \in [Schedules -> Rows]
  BY <1>a, <1>c DEF IInv, TypeOK
<1>e. \A u \in Schedules :
        /\ row'[u].status = row[u].status
        /\ row'[u].kind = row[u].kind
        /\ row'[u].lastTick = row[u].lastTick
        /\ row'[u].queued = row[u].queued
        /\ row'[u].runtimeId = IF u = s THEN handler[h].id ELSE row[u].runtimeId
        /\ u # s => row'[u] = row[u]
  BY <1>a, <1>c DEF IInv, TypeOK, SameBut
<1>f. /\ ledger' = [ledger EXCEPT ![s] = IF recorded THEN "recorded" ELSE @]
      /\ handler' = [handler EXCEPT ![h] = Free]
      /\ UNCHANGED <<now, fire, appended, run, answer, alarm, alarms>>
  BY DEF BindRuntime
<1>g. /\ \A u \in Schedules : ledger'[u] = "none" <=> ledger[u] = "none"
      /\ \A u \in Schedules : u # s => ledger'[u] = ledger[u]
  BY <1>a, <1>b, <1>f DEF IInv, TypeOK
<1>i. row[s].status # "absent"
  BY <1>a, <1>b DEF IInv, RowsMatchLedger
<1>j. handler' \in [Handlers -> HandlerType] /\ ledger' \in [Schedules -> {"none", "recording", "recorded"}]
  BY <1>a, <1>f, FreeType DEF IInv, TypeOK
<1>k. \A g \in Handlers : handler'[g] = IF g = h THEN Free ELSE handler[g]
  BY <1>f DEF IInv, TypeOK
<1>l. \A g \in Handlers : handler[g].s \in Schedules
  BY DEF IInv, TypeOK, HandlerType
<1> HIDE DEF s
<1>1. TypeOK'
  BY <1>d, <1>f, <1>j DEF IInv, TypeOK
<1>2. EventsMatchFires'
  BY <1>f DEF IInv, EventsMatchFires
<1>3. UnfiredOneShot'
  BY <1>e, <1>f DEF IInv, UnfiredOneShot
<1>4. RowsMatchLedger'
  BY <1>e, <1>f, <1>g, <1>i DEF IInv, RowsMatchLedger
<1>5. HandlersMatchRows'
  BY <1>g, <1>k, <1>l, FreeType DEF IInv, HandlersMatchRows
<1>6. OneShotOnce'
  BY <1>e, <1>f DEF IInv, OneShotOnce
<1>7. QueuedTickNotFired'
  BY <1>e, <1>f DEF IInv, QueuedTickNotFired
<1>8. RecordedMeansBound'
  BY <1>b, <1>e, <1>g DEF IInv, RecordedMeansBound
<1>9. ("bind" \notin Faults => AlarmsKept)'
  <2> SUFFICES ASSUME "bind" \notin Faults
               PROVE  AlarmsKept'
    OBVIOUS
  <2>1. \A u \in Schedules : row'[u].status = "active" <=> row[u].status = "active"
    BY <1>e
  <2>2. row[s].status = "active" => alarm[s] # 0
    BY <1>b DEF IInv, AlarmsKept, IsActive, s
  <2>3. \A u \in Schedules :
          ledger'[u] # "none" /\ row'[u].runtimeId # 0 /\ row'[u].status = "active" => alarm'[u] # 0
    BY <1>a, <1>e, <1>f, <1>g, <2>1, <2>2 DEF IInv, AlarmsKept, IsActive
  <2>4. \A g \in Handlers :
          handler'[g].pc = "bind" /\ row'[handler'[g].s].status = "active" => alarm'[handler'[g].s] # 0
    BY <1>f, <1>k, <1>l, <2>1, FreeType DEF IInv, AlarmsKept, IsActive
  <2>5. \A g \in Handlers : \A p \in handler'[g].todo : row'[p[1]].status \in Cancelled
    <3> SUFFICES ASSUME NEW g \in Handlers, NEW p \in handler'[g].todo
                 PROVE  row'[p[1]].status \in Cancelled
      OBVIOUS
    <3>1. p \in handler[g].todo
      BY <1>k, FreeType
    <3>2. p[1] \in Schedules
      BY <3>1 DEF IInv, TypeOK, HandlerType
    <3> QED
      BY <1>e, <3>1, <3>2 DEF IInv, AlarmsKept
  <2> QED
    BY <2>3, <2>4, <2>5 DEF AlarmsKept, IsActive
<1> QED
  BY <1>1, <1>2, <1>3, <1>4, <1>5, <1>6, <1>7, <1>8, <1>9 DEF IInv

\* A command inserts a row.
LEMMA CreatePreserves ==
  ASSUME IInv, NEW h \in Handlers, NEW s \in Schedules, NEW kind \in Kinds, NEW overlap \in Overlaps, CreateSchedule(h, s, kind, overlap)
  PROVE  IInv'
<1> PICK due \in Ticks :
       /\ due > now
       /\ kind = "interval" => due = now + 1
       /\ InsertSchedule(s, kind, overlap, due)
  BY DEF CreateSchedule
<1>a. /\ kind \in {"one_shot", "interval", "run_decision"}
      /\ overlap \in {"skip", "coalesce", "queue-next"}
      /\ due \in Ticks
  BY ScheduleAssumption DEF IInv, TypeOK
<1> DEFINE new == NewRow(kind, overlap, due)
<1>b. /\ row[s] = NoRow
      /\ ledger[s] = "none"
      /\ alarm[s] = 0
      /\ row' = [row EXCEPT ![s] = new]
  BY DEF CreateSchedule, InsertSchedule, NewRow, IInv, RowsMatchLedger
<1>c. /\ new \in Rows
      /\ new.status = "active" /\ new.kind = kind /\ new.runtimeId = 0
      /\ new.lastTick = NoTick /\ new.queued = 0
  BY <1>a, NewRowType
<1> HIDE DEF new
<1>d. /\ row' \in [Schedules -> Rows]
      /\ row'[s] = new
      /\ \A u \in Schedules : u # s => row'[u] = row[u]
  BY <1>b, <1>c DEF IInv, TypeOK
<1>e. /\ run[s] # "active"
      /\ \A t \in Ticks : fire[s][t] = "none" /\ appended[s][t] = 0
  BY <1>b DEF IInv, UnfiredOneShot, EventsMatchFires, NoRow
<1>f. answer[s] = 0
  BY <1>b DEF IInv, RowsMatchLedger, NoRow, Cancelled
<1>g. /\ /\ ledger' = [ledger EXCEPT ![s] = "recording"]
      /\ handler' = [handler EXCEPT ![h] = [pc |-> "register", s |-> s, id |-> 0, todo |-> {}]]
      /\ UNCHANGED <<now, fire, appended, run, answer, alarm, alarms>>
  BY DEF CreateSchedule, Await
<1>i. /\ ledger' \in [Schedules -> {"none", "recording", "recorded"}]
      /\ handler' \in [Handlers -> HandlerType]
      /\ \A u \in Schedules : u # s => ledger'[u] = ledger[u]
      /\ ledger'[s] = "recording"
  BY <1>b, <1>g DEF IInv, TypeOK, HandlerType
<1>j. /\ \A g \in Handlers : handler[g].s \in Schedules
      /\ \A g \in Handlers : \A p \in handler[g].todo : p[1] \in Schedules
  BY DEF IInv, TypeOK, HandlerType
<1>k. \A g \in Handlers :
        /\ handler'[g].pc = IF g = h THEN "register" ELSE handler[g].pc
        /\ handler'[g].s = IF g = h THEN s ELSE handler[g].s
        /\ handler'[g].id = IF g = h THEN 0 ELSE handler[g].id
        /\ handler'[g].todo = IF g = h THEN {} ELSE handler[g].todo
  BY <1>g DEF IInv, TypeOK
<1>1. TypeOK'
  BY <1>d, <1>g, <1>i DEF IInv, TypeOK
<1>2. EventsMatchFires'
  BY <1>g DEF IInv, EventsMatchFires
<1>3. UnfiredOneShot'
  BY <1>d, <1>e, <1>g DEF IInv, UnfiredOneShot
<1>4. RowsMatchLedger'
  BY <1>c, <1>d, <1>f, <1>g, <1>i, ScheduleAssumption DEF IInv, RowsMatchLedger
<1>5. HandlersMatchRows'
  <2>1. \A u \in Schedules : ledger[u] # "none" => ledger'[u] # "none"
    BY <1>b, <1>i
  <2> QED
    BY <1>i, <1>j, <1>k, <2>1 DEF IInv, HandlersMatchRows
<1>6. OneShotOnce'
  BY <1>d, <1>e, <1>g DEF IInv, OneShotOnce
<1>7. QueuedTickNotFired'
  BY <1>c, <1>d, <1>g DEF IInv, QueuedTickNotFired
<1>8. RecordedMeansBound'
  BY <1>c, <1>d, <1>g, <1>i DEF IInv, RecordedMeansBound
<1>9. ("bind" \notin Faults => AlarmsKept)'
  <2> SUFFICES ASSUME "bind" \notin Faults
               PROVE  AlarmsKept'
    OBVIOUS
  <2>1. \A g \in Handlers : handler[g].pc = "bind" => handler[g].s # s
    BY <1>b DEF IInv, HandlersMatchRows
  <2>2. \A g \in Handlers : \A p \in handler[g].todo : p[1] # s
    <3> SUFFICES ASSUME NEW g \in Handlers, NEW p \in handler[g].todo
                 PROVE  row[p[1]].status # row[s].status
      OBVIOUS
    <3>1. row[p[1]].status \in Cancelled /\ row[s].status = "absent"
      BY <1>b DEF IInv, AlarmsKept, NoRow
    <3> QED
      BY <3>1 DEF Cancelled
  <2>3. \A u \in Schedules :
          ledger'[u] # "none" /\ row'[u].runtimeId # 0 /\ row'[u].status = "active" => alarm'[u] # 0
    BY <1>c, <1>d, <1>g, <1>i DEF IInv, AlarmsKept, IsActive
  <2>4. \A g \in Handlers :
          handler'[g].pc = "bind" /\ row'[handler'[g].s].status = "active" => alarm'[handler'[g].s] # 0
    BY <1>d, <1>g, <1>j, <1>k, <2>1 DEF IInv, AlarmsKept, IsActive
  <2>5. \A g \in Handlers : \A p \in handler'[g].todo : row'[p[1]].status \in Cancelled
    BY <1>d, <1>g, <1>j, <1>k, <2>2 DEF IInv, AlarmsKept
  <2> QED
    BY <2>3, <2>4, <2>5 DEF AlarmsKept, IsActive
<1> QED
  BY <1>1, <1>2, <1>3, <1>4, <1>5, <1>6, <1>7, <1>8, <1>9 DEF IInv

\* A Run's decision inserts a row.
LEMMA DecisionPreserves ==
  ASSUME IInv, NEW s \in Schedules, CommitScheduleDecision(s)
  PROVE  IInv'
<1>a. /\ "run_decision" \in {"one_shot", "interval", "run_decision"}
      /\ "coalesce" \in {"skip", "coalesce", "queue-next"}
      /\ now \in Ticks
  BY ScheduleAssumption DEF IInv, TypeOK
<1> DEFINE new == NewRow("run_decision", "coalesce", now)
<1>b. /\ row[s] = NoRow
      /\ ledger[s] = "none"
      /\ alarm[s] = 0
      /\ row' = [row EXCEPT ![s] = new]
  BY DEF CommitScheduleDecision, InsertSchedule, NewRow, IInv, RowsMatchLedger
<1>c. /\ new \in Rows
      /\ new.status = "active" /\ new.kind = "run_decision" /\ new.runtimeId = 0
      /\ new.lastTick = NoTick /\ new.queued = 0
  BY <1>a, NewRowType
<1> HIDE DEF new
<1>d. /\ row' \in [Schedules -> Rows]
      /\ row'[s] = new
      /\ \A u \in Schedules : u # s => row'[u] = row[u]
  BY <1>b, <1>c DEF IInv, TypeOK
<1>e. /\ run[s] # "active"
      /\ \A t \in Ticks : fire[s][t] = "none" /\ appended[s][t] = 0
  BY <1>b DEF IInv, UnfiredOneShot, EventsMatchFires, NoRow
<1>f. answer[s] = 0
  BY <1>b DEF IInv, RowsMatchLedger, NoRow, Cancelled
<1>g. /\ ledger' = ledger /\ handler' = handler
      /\ UNCHANGED <<now, fire, appended, run, answer, alarm, alarms>>
  BY DEF CommitScheduleDecision, Await
<1>i. /\ ledger' \in [Schedules -> {"none", "recording", "recorded"}]
      /\ handler' \in [Handlers -> HandlerType]
      /\ \A u \in Schedules : u # s => ledger'[u] = ledger[u]
      /\ ledger'[s] = "none"
  BY <1>b, <1>g DEF IInv, TypeOK
<1>j. /\ \A g \in Handlers : handler[g].s \in Schedules
      /\ \A g \in Handlers : \A p \in handler[g].todo : p[1] \in Schedules
  BY DEF IInv, TypeOK, HandlerType
<1>1. TypeOK'
  BY <1>d, <1>g, <1>i DEF IInv, TypeOK
<1>2. EventsMatchFires'
  BY <1>g DEF IInv, EventsMatchFires
<1>3. UnfiredOneShot'
  BY <1>d, <1>e, <1>g DEF IInv, UnfiredOneShot
<1>4. RowsMatchLedger'
  BY <1>c, <1>d, <1>f, <1>g, <1>i DEF IInv, RowsMatchLedger
<1>5. HandlersMatchRows'
  <2>1. \A u \in Schedules : ledger[u] # "none" => ledger'[u] # "none"
    BY <1>b, <1>i
  <2> QED
    BY <1>i, <1>j, <1>g, <2>1 DEF IInv, HandlersMatchRows
<1>6. OneShotOnce'
  BY <1>d, <1>e, <1>g DEF IInv, OneShotOnce
<1>7. QueuedTickNotFired'
  BY <1>c, <1>d, <1>g DEF IInv, QueuedTickNotFired
<1>8. RecordedMeansBound'
  BY <1>c, <1>d, <1>g, <1>i DEF IInv, RecordedMeansBound
<1>9. ("bind" \notin Faults => AlarmsKept)'
  <2> SUFFICES ASSUME "bind" \notin Faults
               PROVE  AlarmsKept'
    OBVIOUS
  <2>1. \A g \in Handlers : handler[g].pc = "bind" => handler[g].s # s
    BY <1>b DEF IInv, HandlersMatchRows
  <2>2. \A g \in Handlers : \A p \in handler[g].todo : p[1] # s
    <3> SUFFICES ASSUME NEW g \in Handlers, NEW p \in handler[g].todo
                 PROVE  row[p[1]].status # row[s].status
      OBVIOUS
    <3>1. row[p[1]].status \in Cancelled /\ row[s].status = "absent"
      BY <1>b DEF IInv, AlarmsKept, NoRow
    <3> QED
      BY <3>1 DEF Cancelled
  <2>3. \A u \in Schedules :
          ledger'[u] # "none" /\ row'[u].runtimeId # 0 /\ row'[u].status = "active" => alarm'[u] # 0
    BY <1>c, <1>d, <1>g, <1>i DEF IInv, AlarmsKept, IsActive
  <2>4. \A g \in Handlers :
          handler'[g].pc = "bind" /\ row'[handler'[g].s].status = "active" => alarm'[handler'[g].s] # 0
    BY <1>d, <1>g, <1>j, <1>g, <2>1 DEF IInv, AlarmsKept, IsActive
  <2>5. \A g \in Handlers : \A p \in handler'[g].todo : row'[p[1]].status \in Cancelled
    BY <1>d, <1>g, <1>j, <1>g, <2>2 DEF IInv, AlarmsKept
  <2> QED
    BY <2>3, <2>4, <2>5 DEF AlarmsKept, IsActive
<1> QED
  BY <1>1, <1>2, <1>3, <1>4, <1>5, <1>6, <1>7, <1>8, <1>9 DEF IInv

-----------------------------------------------------------------------------
(* The callback: what its branches have in common *)

\* The effect of a callback of s on the row, the fire rows, the Events and the Run.
FireEffect(s) ==
  /\ row' \in [Schedules -> Rows]
  /\ fire' \in [Schedules -> [Ticks -> FireStatus]]
  /\ appended' \in [Schedules -> [Ticks -> Nat]]
  /\ run' \in [Schedules -> {"none", "active", "ended"}]
  /\ \A u \in Schedules : u # s => /\ row'[u] = row[u]
                                   /\ fire'[u] = fire[u]
                                   /\ appended'[u] = appended[u]
                                   /\ run'[u] = run[u]
  /\ row'[s].kind = row[s].kind
  /\ row'[s].runtimeId = row[s].runtimeId
  /\ row'[s].status = IF row[s].kind = "one_shot" /\ row[s].status = "active"
                      THEN "completed" ELSE row[s].status
  /\ \A t \in Ticks : appended'[s][t] = IF fire'[s][t] = "event_appended" THEN 1 ELSE 0
  /\ row[s].kind = "one_shot" =>
       \A t, u \in Ticks : appended'[s][t] > 0 /\ appended'[s][u] > 0 => t = u
  /\ row'[s].queued <= 1
  /\ row'[s].queued = 1 => row'[s].lastTick # NoTick /\ appended'[s][row'[s].lastTick] = 0

\* What a callback may rely on.
LEMMA BeforeFire ==
  ASSUME IInv, NEW s \in Schedules
  PROVE  /\ row[s] \in Rows
         /\ now \in Ticks
         /\ FireCandidate(s) \in Ticks
         /\ \A t \in Ticks : fire[s][t] \in FireStatus /\ appended[s][t] \in Nat
         /\ \A t \in Ticks : ~TickRecorded(s, t) => appended[s][t] = 0
         /\ row[s].queued \in {0, 1}
         /\ row[s].lastTick \in Ticks \cup {NoTick}
<1>1. row[s] \in Rows /\ now \in Ticks /\ \A t \in Ticks : fire[s][t] \in FireStatus /\ appended[s][t] \in Nat
  BY DEF IInv, TypeOK
<1>2. FireCandidate(s) \in Ticks
  BY CandidateIsTick DEF IInv
<1>3. \A t \in Ticks : ~TickRecorded(s, t) => appended[s][t] = 0
  BY DEF IInv, EventsMatchFires, TickRecorded
<1>4. row[s].queued \in {0, 1} /\ row[s].lastTick \in Ticks \cup {NoTick}
  BY <1>1 DEF IInv, QueuedTickNotFired, Rows
<1> QED
  BY <1>1, <1>2, <1>3, <1>4

\* A one-shot that is active has fired no tick, and its Run does not stand in the way.
LEMMA ActiveOneShot ==
  ASSUME IInv, NEW s \in Schedules, row[s].kind = "one_shot", row[s].status = "active"
  PROVE  /\ run[s] # "active"
         /\ \A t \in Ticks : ~TickRecorded(s, t) /\ appended[s][t] = 0
BY DEF IInv, UnfiredOneShot, EventsMatchFires, TickRecorded

\* A recorded tick changes nothing.
LEMMA RecordedEffect ==
  ASSUME IInv, NEW s \in Schedules, TickRecorded(s, FireCandidate(s)),
         UNCHANGED <<row, fire, appended, run>>
  PROVE  FireEffect(s)
<1>1. ~(row[s].kind = "one_shot" /\ row[s].status = "active")
  BY BeforeFire, ActiveOneShot
<1> QED
  BY <1>1 DEF FireEffect, IInv, TypeOK, EventsMatchFires, OneShotOnce, QueuedTickNotFired

\* A suppressed tick is one that has not fired, so it may be queued.
LEMMA SuppressEffect ==
  ASSUME IInv, NEW s \in Schedules, NEW t \in Ticks, NEW status \in FireStatus, NEW queued \in {0, 1},
         status # "event_appended", Suppress(s, t, status, queued),
         ~(row[s].kind = "one_shot" /\ row[s].status = "active")
  PROVE  FireEffect(s)
<1>1. /\ row' = [row EXCEPT ![s] = SuppressedRow(s, t, queued)]
      /\ fire' = [fire EXCEPT ![s][t] = status]
      /\ UNCHANGED <<appended, run>>
      /\ appended[s][t] = 0
  BY BeforeFire DEF Suppress, RecordFire
<1>2. /\ SuppressedRow(s, t, queued) \in Rows
      /\ SameBut(SuppressedRow(s, t, queued), row[s], {"lastTick", "queued"})
      /\ SuppressedRow(s, t, queued).lastTick = t
      /\ SuppressedRow(s, t, queued).queued = queued
  BY BeforeFire, SuppressedRowType
<1>3. /\ row' \in [Schedules -> Rows]
      /\ row'[s] = SuppressedRow(s, t, queued)
      /\ \A u \in Schedules : u # s => row'[u] = row[u]
  BY <1>1, <1>2 DEF IInv, TypeOK
<1>4. /\ fire' \in [Schedules -> [Ticks -> FireStatus]]
      /\ \A u \in Schedules : u # s => fire'[u] = fire[u]
      /\ \A x \in Ticks : fire'[s][x] = IF x = t THEN status ELSE fire[s][x]
  BY <1>1 DEF IInv, TypeOK
<1>5. \A x \in Ticks : appended'[s][x] = IF fire'[s][x] = "event_appended" THEN 1 ELSE 0
  BY <1>1, <1>4 DEF IInv, EventsMatchFires
<1>6. /\ row'[s].kind = row[s].kind
      /\ row'[s].runtimeId = row[s].runtimeId
      /\ row'[s].status = row[s].status
      /\ row'[s].queued <= 1
      /\ row'[s].lastTick = t /\ t # NoTick
  BY <1>2, <1>3 DEF SameBut, Ticks, NoTick
<1>7. appended'[s][row'[s].lastTick] = 0
  BY <1>1, <1>6
<1>8. row[s].kind = "one_shot" =>
        \A x, u \in Ticks : appended'[s][x] > 0 /\ appended'[s][u] > 0 => x = u
  BY <1>1 DEF IInv, OneShotOnce
<1>9. /\ appended' \in [Schedules -> [Ticks -> Nat]]
      /\ run' \in [Schedules -> {"none", "active", "ended"}]
      /\ appended' = appended /\ run' = run
  BY <1>1 DEF IInv, TypeOK
<1> QED
  BY <1>3, <1>4, <1>5, <1>6, <1>7, <1>8, <1>9 DEF FireEffect

\* A tick that finds the queue taken only rewrites its fire row.
LEMMA DuplicateEffect ==
  ASSUME IInv, NEW s \in Schedules, NEW t \in Ticks, QueueNextDuplicate(s, t)
  PROVE  FireEffect(s)
<1>1. /\ fire' = [fire EXCEPT ![s][t] = "queue_next_already_pending"]
      /\ UNCHANGED <<row, appended, run>>
      /\ appended[s][t] = 0
  BY BeforeFire DEF QueueNextDuplicate, RecordFire
<1>2. ~(row[s].kind = "one_shot" /\ row[s].status = "active")
  BY ActiveOneShot DEF QueueNextDuplicate, RunIsActive
<1>3. /\ fire' \in [Schedules -> [Ticks -> FireStatus]]
      /\ \A u \in Schedules : u # s => fire'[u] = fire[u]
      /\ \A x \in Ticks : fire'[s][x] = IF x = t THEN "queue_next_already_pending" ELSE fire[s][x]
  BY <1>1 DEF IInv, TypeOK, FireStatus
<1>4. \A x \in Ticks : appended'[s][x] = IF fire'[s][x] = "event_appended" THEN 1 ELSE 0
  BY <1>1, <1>3 DEF IInv, EventsMatchFires
<1> QED
  BY <1>1, <1>2, <1>3, <1>4 DEF FireEffect, IInv, TypeOK, OneShotOnce, QueuedTickNotFired

\* A tick that is appended had no Event, and empties the queue.
LEMMA AppendEffect ==
  ASSUME IInv, NEW s \in Schedules, NEW t \in Ticks, AppendTriggeredEvent(s, t)
  PROVE  FireEffect(s)
<1>1. /\ row' = [row EXCEPT ![s] = FiredRow(s, t)]
      /\ fire' = [fire EXCEPT ![s][t] = "event_appended"]
      /\ appended' = [appended EXCEPT ![s][t] = @ + 1]
      /\ run' = [run EXCEPT ![s] = "active"]
      /\ row[s].status = "active"
      /\ appended[s][t] = 0
  BY BeforeFire DEF AppendTriggeredEvent, RecordFire, IsActive
<1>2. /\ FiredRow(s, t) \in Rows
      /\ SameBut(FiredRow(s, t), row[s], {"lastTick", "queued", "status"})
      /\ FiredRow(s, t).queued = QueuedAfterFire(s)
      /\ FiredRow(s, t).status = StatusAfterFire(s)
  BY BeforeFire, FiredRowType
<1>3. /\ row' \in [Schedules -> Rows]
      /\ row'[s] = FiredRow(s, t)
      /\ \A u \in Schedules : u # s => row'[u] = row[u]
  BY <1>1, <1>2 DEF IInv, TypeOK
<1>4. /\ fire' \in [Schedules -> [Ticks -> FireStatus]]
      /\ \A u \in Schedules : u # s => fire'[u] = fire[u]
      /\ \A x \in Ticks : fire'[s][x] = IF x = t THEN "event_appended" ELSE fire[s][x]
  BY <1>1 DEF IInv, TypeOK, FireStatus
<1>5. /\ appended' \in [Schedules -> [Ticks -> Nat]]
      /\ \A u \in Schedules : u # s => appended'[u] = appended[u]
      /\ \A x \in Ticks : appended'[s][x] = IF x = t THEN 1 ELSE appended[s][x]
  BY <1>1 DEF IInv, TypeOK
<1>6. /\ run' \in [Schedules -> {"none", "active", "ended"}]
      /\ \A u \in Schedules : u # s => run'[u] = run[u]
  BY <1>1 DEF IInv, TypeOK
<1>7. \A x \in Ticks : appended'[s][x] = IF fire'[s][x] = "event_appended" THEN 1 ELSE 0
  BY <1>4, <1>5 DEF IInv, EventsMatchFires
<1>8. /\ row'[s].kind = row[s].kind
      /\ row'[s].runtimeId = row[s].runtimeId
      /\ row'[s].status = IF row[s].kind = "one_shot" THEN "completed" ELSE "active"
  BY <1>2, <1>3 DEF SameBut, StatusAfterFire
<1>9. row'[s].queued = 0
  BY <1>2, <1>3, BeforeFire DEF QueuedAfterFire
<1>10. row[s].kind = "one_shot" =>
         \A x, u \in Ticks : appended'[s][x] > 0 /\ appended'[s][u] > 0 => x = u
  BY <1>1, <1>5, ActiveOneShot
<1> QED
  BY <1>1, <1>3, <1>4, <1>5, <1>6, <1>7, <1>8, <1>9, <1>10 DEF FireEffect

\* Every branch has the effect.
LEMMA EveryFireEffect ==
  ASSUME IInv, NEW s \in Schedules, NEW again \in BOOLEAN, FireSchedule(s, again)
  PROVE  FireEffect(s)
<1> DEFINE t == FireCandidate(s)
<1>1. t \in Ticks /\ row[s].queued \in {0, 1}
  BY BeforeFire
<1>2. CASE TickRecorded(s, t) /\ UNCHANGED <<row, fire, appended, run>>
  BY <1>2, RecordedEffect
<1>3. CASE ~IsActive(s) /\ Suppress(s, t, "suppressed_inactive", row[s].queued)
  <2>1. "suppressed_inactive" \in FireStatus /\ row[s].status # "active"
    BY <1>3 DEF FireStatus, IsActive
  <2> HIDE DEF t
  <2> QED
    BY <1>1, <1>3, <2>1, SuppressEffect
<1>4. CASE AppendTriggeredEvent(s, t)
  <2> HIDE DEF t
  <2> QED
    BY <1>1, <1>4, AppendEffect
<1>5. CASE SuppressOverlap(s, t)
  <2>1. ~(row[s].kind = "one_shot" /\ row[s].status = "active")
    BY <1>5, ActiveOneShot DEF SuppressOverlap, RunIsActive
  <2>2. {"skipped_overlap", "coalesced_overlap", "queued_next_overlap"} \subseteq FireStatus
    BY DEF FireStatus
  <2>3. PICK status \in {"skipped_overlap", "coalesced_overlap", "queued_next_overlap"},
             queued \in {0, 1} : Suppress(s, t, status, queued)
    <3> HIDE DEF t
    <3>1. row[s].queued = 0 => row[s].queued + 1 = 1
      OBVIOUS
    <3> QED
      BY <1>1, <1>5, <3>1 DEF SuppressOverlap
  <2> HIDE DEF t
  <2> QED
    BY <1>1, <2>1, <2>2, <2>3, SuppressEffect
<1>6. CASE QueueNextDuplicate(s, t)
  <2> HIDE DEF t
  <2> QED
    BY <1>1, <1>6, DuplicateEffect
<1> QED
  BY <1>2, <1>3, <1>4, <1>5, <1>6 DEF FireSchedule

\* The alarm's callback.
LEMMA FirePreserves ==
  ASSUME IInv, NEW s \in Schedules, NEW again \in BOOLEAN, FireSchedule(s, again)
  PROVE  IInv'
<1>a. FireEffect(s)
  BY EveryFireEffect
<1>b. /\ alarm[s] # 0
      /\ alarm' = [alarm EXCEPT ![s] = IF again \/ row[s].kind = "interval" THEN @ ELSE 0]
      /\ UNCHANGED <<now, ledger, answer, alarms, handler>>
  BY DEF FireSchedule
<1>c. /\ alarm' \in [Schedules -> Nat]
      /\ \A u \in Schedules : u # s => alarm'[u] = alarm[u]
      /\ row[s].kind = "interval" => alarm'[s] = alarm[s]
  BY <1>b DEF IInv, TypeOK
<1>d. row[s].status # "absent" /\ row[s].kind \in {"one_shot", "interval", "run_decision"}
  BY <1>b DEF IInv, TypeOK, Rows, RowsMatchLedger
<1>e. \A u \in Schedules :
        /\ row'[u].kind = row[u].kind
        /\ row'[u].runtimeId = row[u].runtimeId
        /\ row[u].status \in Cancelled => row'[u].status \in Cancelled
        /\ row'[u].status = "active" => row[u].status = "active"
        /\ row'[u].status = "absent" => row'[u] = row[u]
  BY <1>a, <1>d DEF FireEffect, Cancelled
<1>1. TypeOK'
  BY <1>a, <1>b, <1>c DEF IInv, TypeOK, FireEffect
<1>2. EventsMatchFires'
  BY <1>a DEF IInv, EventsMatchFires, FireEffect
<1>3. UnfiredOneShot'
  BY <1>a, <1>d DEF IInv, UnfiredOneShot, FireEffect
<1>4. RowsMatchLedger'
  <2>1. row'[s].status # "absent"
    BY <1>a, <1>d DEF FireEffect
  <2> QED
    BY <1>b, <1>c, <1>e, <2>1 DEF IInv, RowsMatchLedger
<1>5. HandlersMatchRows'
  BY <1>b DEF IInv, HandlersMatchRows
<1>6. OneShotOnce'
  BY <1>a DEF IInv, OneShotOnce, FireEffect
<1>7. QueuedTickNotFired'
  BY <1>a DEF IInv, QueuedTickNotFired, FireEffect
<1>8. RecordedMeansBound'
  BY <1>b, <1>e DEF IInv, RecordedMeansBound
<1>9. ("bind" \notin Faults => AlarmsKept)'
  <2> SUFFICES ASSUME "bind" \notin Faults
               PROVE  AlarmsKept'
    OBVIOUS
  <2>1. ledger[s] # "none" /\ row'[s].status = "active" => row[s].kind = "interval"
    BY <1>a, <1>d DEF IInv, RowsMatchLedger, FireEffect
  <2>2. \A u \in Schedules : ledger[u] # "none" /\ row'[u].status = "active" => alarm'[u] = alarm[u]
    BY <1>c, <2>1
  <2>3. \A u \in Schedules :
          ledger'[u] # "none" /\ row'[u].runtimeId # 0 /\ row'[u].status = "active" => alarm'[u] # 0
    BY <1>b, <1>e, <2>2 DEF IInv, AlarmsKept, IsActive
  <2>4. \A g \in Handlers : handler[g].s \in Schedules /\ \A p \in handler[g].todo : p[1] \in Schedules
    BY DEF IInv, TypeOK, HandlerType
  <2>5. \A g \in Handlers :
          handler'[g].pc = "bind" /\ row'[handler'[g].s].status = "active" => alarm'[handler'[g].s] # 0
    BY <1>b, <1>e, <2>2, <2>4 DEF IInv, AlarmsKept, IsActive, HandlersMatchRows
  <2>6. \A g \in Handlers : \A p \in handler'[g].todo : row'[p[1]].status \in Cancelled
    BY <1>b, <1>e, <2>4 DEF IInv, AlarmsKept
  <2> QED
    BY <2>3, <2>5, <2>6 DEF AlarmsKept, IsActive
<1> QED
  BY <1>1, <1>2, <1>3, <1>4, <1>5, <1>6, <1>7, <1>8, <1>9 DEF IInv

-----------------------------------------------------------------------------
(* Cancellations: what they have in common *)

\* Rows are cancelled or left, handlers are left or await the cancellation of
\* the alarms of cancelled rows.
CancelEffect ==
  /\ row' \in [Schedules -> Rows]
  /\ answer' \in [Schedules -> Nat]
  /\ handler' \in [Handlers -> HandlerType]
  /\ \A u \in Schedules :
       \/ row'[u] = row[u]
       \/ /\ SameBut(row'[u], row[u], {"status", "nextFire"})
          /\ row'[u].status \in Cancelled
          /\ row[u].status # "absent"
  /\ \A u \in Schedules : row[u].status \in Cancelled => row'[u].status \in Cancelled
  /\ \A u \in Schedules : answer'[u] # 0 => row'[u].status \in Cancelled
  /\ \A g \in Handlers :
       \/ handler'[g] = handler[g]
       \/ /\ handler'[g].pc = "unregister"
          /\ \A p \in handler'[g].todo : row'[p[1]].status \in Cancelled
  /\ UNCHANGED <<now, fire, appended, run, ledger, alarm, alarms>>

\* A cancellation disturbs nothing else.
LEMMA CancelEffectPreserves ==
  ASSUME IInv, CancelEffect
  PROVE  IInv'
<1>a. \A u \in Schedules :
        /\ row'[u].kind = row[u].kind
        /\ row'[u].runtimeId = row[u].runtimeId
        /\ row'[u].lastTick = row[u].lastTick
        /\ row'[u].queued = row[u].queued
        /\ row'[u].status \in {"absent", "active"} => row'[u] = row[u]
  BY DEF CancelEffect, SameBut, Cancelled
<1>b. UNCHANGED <<now, fire, appended, run, ledger, alarm, alarms>>
  BY DEF CancelEffect
<1>c. \A g \in Handlers : handler[g].s \in Schedules /\ \A p \in handler[g].todo : p[1] \in Schedules
  BY DEF IInv, TypeOK, HandlerType
<1>d. \A g \in Handlers : handler'[g].pc \in {"register", "bind"} => handler'[g] = handler[g]
  BY DEF CancelEffect
<1>1. TypeOK'
  BY <1>b DEF IInv, TypeOK, CancelEffect
<1>2. EventsMatchFires'
  BY <1>b DEF IInv, EventsMatchFires
<1>3. UnfiredOneShot'
  BY <1>a, <1>b DEF IInv, UnfiredOneShot
<1>4. RowsMatchLedger'
  BY <1>a, <1>b DEF IInv, RowsMatchLedger, CancelEffect
<1>5. HandlersMatchRows'
  BY <1>b, <1>d DEF IInv, HandlersMatchRows
<1>6. OneShotOnce'
  BY <1>a, <1>b DEF IInv, OneShotOnce
<1>7. QueuedTickNotFired'
  BY <1>a, <1>b DEF IInv, QueuedTickNotFired
<1>8. RecordedMeansBound'
  BY <1>a, <1>b DEF IInv, RecordedMeansBound
<1>9. ("bind" \notin Faults => AlarmsKept)'
  <2> SUFFICES ASSUME "bind" \notin Faults
               PROVE  AlarmsKept'
    OBVIOUS
  <2>1. \A u \in Schedules :
          ledger'[u] # "none" /\ row'[u].runtimeId # 0 /\ row'[u].status = "active" => alarm'[u] # 0
    BY <1>a, <1>b DEF IInv, AlarmsKept, IsActive
  <2>2. \A g \in Handlers :
          handler'[g].pc = "bind" /\ row'[handler'[g].s].status = "active" => alarm'[handler'[g].s] # 0
    BY <1>a, <1>b, <1>c, <1>d DEF IInv, AlarmsKept, IsActive
  <2>3. \A g \in Handlers : \A p \in handler'[g].todo : row'[p[1]].status \in Cancelled
    BY <1>c DEF IInv, AlarmsKept, CancelEffect
  <2> QED
    BY <2>1, <2>2, <2>3 DEF AlarmsKept, IsActive
<1> QED
  BY <1>1, <1>2, <1>3, <1>4, <1>5, <1>6, <1>7, <1>8, <1>9 DEF IInv

\* The handler that awaits the cancellation of alarms.
LEMMA AwaitUnregisterEffect ==
  ASSUME IInv, NEW h \in Handlers, NEW todo \in SUBSET (Schedules \X Nat), AwaitUnregister(h, todo)
  PROVE  /\ handler' \in [Handlers -> HandlerType]
         /\ \A g \in Handlers : \/ handler'[g] = handler[g]
                                \/ handler'[g].pc = "unregister" /\ handler'[g].todo = todo
<1> DEFINE new == [pc |-> "unregister", s |-> handler[h].s, id |-> 0, todo |-> todo]
<1>1. new \in HandlerType /\ new.pc = "unregister" /\ new.todo = todo
  BY DEF IInv, TypeOK, HandlerType
<1>2. handler' = handler \/ handler' = [handler EXCEPT ![h] = new]
  BY DEF AwaitUnregister, Await
<1> HIDE DEF new
<1> QED
  BY <1>1, <1>2 DEF IInv, TypeOK

\* The alarm a row is bound to.
LEMMA BoundAlarmType ==
  ASSUME IInv, NEW s \in Schedules
  PROVE  BoundAlarm(s) \in SUBSET (Schedules \X Nat) /\ \A p \in BoundAlarm(s) : p[1] = s
<1>1. row[s].runtimeId \in Nat
  BY DEF IInv, TypeOK, Rows
<1> QED
  BY <1>1 DEF BoundAlarm

\* CancelSchedule.
LEMMA CancelCancels ==
  ASSUME IInv, NEW h \in Handlers, NEW s \in Schedules, CancelSchedule(h, s)
  PROVE  CancelEffect
<1> DEFINE new == IF row[s].status \in Cancelled THEN row[s] ELSE CancelRow(s, "cancelled")
<1>1. row[s] \in Rows /\ row[s].runtimeId \in Nat /\ row[s].status # "absent"
  BY DEF IInv, TypeOK, Rows, CancelSchedule
<1>2. /\ new \in Rows
      /\ new.status \in Cancelled
      /\ new = row[s] \/ SameBut(new, row[s], {"status", "nextFire"})
  BY <1>1, CancelRowType DEF Cancelled
<1>3. row' = [row EXCEPT ![s] = new] /\ answer' = [answer EXCEPT ![s] = row[s].runtimeId]
  BY DEF CancelSchedule
<1> HIDE DEF new
<1>4. /\ row' \in [Schedules -> Rows]
      /\ answer' \in [Schedules -> Nat]
      /\ row'[s] = new
      /\ \A u \in Schedules : u # s => row'[u] = row[u] /\ answer'[u] = answer[u]
  BY <1>1, <1>2, <1>3 DEF IInv, TypeOK
<1>5. /\ handler' \in [Handlers -> HandlerType]
      /\ \A g \in Handlers : \/ handler'[g] = handler[g]
                             \/ handler'[g].pc = "unregister" /\ handler'[g].todo = BoundAlarm(s)
  BY BoundAlarmType, AwaitUnregisterEffect DEF CancelSchedule
<1>6. \A p \in BoundAlarm(s) : row'[p[1]].status \in Cancelled
  BY <1>2, <1>4, BoundAlarmType
<1>7. \A u \in Schedules : answer'[u] # 0 => row'[u].status \in Cancelled
  BY <1>2, <1>4 DEF IInv, RowsMatchLedger
<1>8. UNCHANGED <<now, fire, appended, run, ledger, alarm, alarms>>
  BY DEF CancelSchedule
<1> QED
  BY <1>1, <1>2, <1>4, <1>5, <1>6, <1>7, <1>8 DEF CancelEffect

LEMMA CancelPreserves ==
  ASSUME IInv, NEW h \in Handlers, NEW s \in Schedules, CancelSchedule(h, s)
  PROVE  IInv'
  BY CancelCancels, CancelEffectPreserves

\* The rows of an Installation after their cleanup.
LEMMA CleanupRows ==
  ASSUME IInv, NEW status \in Cancelled, CancelSchedulesByInstallation(status), UNCHANGED answer
  PROVE  /\ row' \in [Schedules -> Rows]
         /\ \A u \in Schedules :
              \/ row'[u] = row[u]
              \/ /\ SameBut(row'[u], row[u], {"status", "nextFire"})
                 /\ row'[u].status \in Cancelled
                 /\ row[u].status # "absent"
         /\ \A u \in Schedules : row[u].status \in Cancelled => row'[u].status \in Cancelled
         /\ \A u \in Schedules : answer'[u] # 0 => row'[u].status \in Cancelled
         /\ \A u \in ActiveOwned : u \in Schedules /\ row'[u].status \in Cancelled
<1>1. \A u \in Schedules : row[u] \in Rows
  BY DEF IInv, TypeOK
<1>2. \A u \in Schedules : /\ CancelRow(u, status) \in Rows
                           /\ SameBut(CancelRow(u, status), row[u], {"status", "nextFire"})
                           /\ CancelRow(u, status).status = status
  BY <1>1, CancelRowType
<1>3. row' = [u \in Schedules |-> IF u \in ActiveOwned THEN CancelRow(u, status) ELSE row[u]]
  BY DEF CancelSchedulesByInstallation
<1>4. \A u \in ActiveOwned : u \in Schedules /\ row[u].status = "active"
  BY ScheduleAssumption DEF ActiveOwned, IsActive
<1>5. row' \in [Schedules -> Rows]
  BY <1>1, <1>2, <1>3
<1>6. \A u \in Schedules : IF u \in ActiveOwned THEN row'[u] = CancelRow(u, status) ELSE row'[u] = row[u]
  BY <1>3
<1>7. \A u \in Schedules : answer[u] # 0 => row[u].status \in Cancelled
  BY DEF IInv, RowsMatchLedger
<1> QED
  BY <1>2, <1>4, <1>5, <1>6, <1>7

\* Cleanup by the Integration, and its uninstallation.
LEMMA CleanupCancels ==
  ASSUME IInv, NEW h \in Handlers, NEW status \in Cancelled,
         CleanupSchedulesForInstallation(h, status)
  PROVE  CancelEffect
<1> DEFINE todo == UNION {BoundAlarm(s) : s \in ActiveOwned}
<1>1. /\ CancelSchedulesByInstallation(status)
      /\ AwaitUnregister(h, todo)
      /\ UNCHANGED <<now, fire, appended, run, ledger, answer, alarm, alarms>>
  BY DEF CleanupSchedulesForInstallation
<1>2. ActiveOwned \subseteq Schedules
  BY ScheduleAssumption DEF ActiveOwned
<1>3. todo \in SUBSET (Schedules \X Nat) /\ \A p \in todo : p[1] \in ActiveOwned
  BY <1>2, BoundAlarmType
<1> HIDE DEF todo
<1>4. /\ handler' \in [Handlers -> HandlerType]
      /\ \A g \in Handlers : \/ handler'[g] = handler[g]
                             \/ handler'[g].pc = "unregister" /\ handler'[g].todo = todo
  BY <1>1, <1>3, AwaitUnregisterEffect
<1>5. answer' \in [Schedules -> Nat]
  BY <1>1 DEF IInv, TypeOK
<1> QED
  BY <1>1, <1>3, <1>4, <1>5, CleanupRows DEF CancelEffect

LEMMA CleanupPreserves ==
  ASSUME IInv, NEW h \in Handlers, NEW status \in Cancelled,
         CleanupSchedulesForInstallation(h, status)
  PROVE  IInv'
  BY CleanupCancels, CancelEffectPreserves

\* Uninstallation writes the rows alone.
LEMMA UninstallCancels ==
  ASSUME IInv, UninstallIntegration
  PROVE  CancelEffect
<1>1. /\ CancelSchedulesByInstallation("cancelled") /\ "cancelled" \in Cancelled
      /\ UNCHANGED <<now, fire, appended, run, ledger, answer, alarm, alarms, handler>>
  BY DEF UninstallIntegration, Cancelled
<1>2. answer' \in [Schedules -> Nat] /\ handler' \in [Handlers -> HandlerType]
  BY <1>1 DEF IInv, TypeOK
<1> QED
  BY <1>1, <1>2, CleanupRows DEF CancelEffect

LEMMA UninstallPreserves ==
  ASSUME IInv, UninstallIntegration
  PROVE  IInv'
  BY UninstallCancels, CancelEffectPreserves

-----------------------------------------------------------------------------
(* The theorems *)

\* The invariant holds initially.
LEMMA InitIInv == Init => IInv
<1> SUFFICES ASSUME Init PROVE IInv
  OBVIOUS
<1>1. TypeOK
  BY NoRowType, FreeType, ScheduleAssumption DEF Init, TypeOK, Ticks, FireStatus
<1>2. EventsMatchFires /\ UnfiredOneShot
  BY DEF Init, EventsMatchFires, UnfiredOneShot, NoRow
<1>3. RowsMatchLedger
  BY DEF Init, RowsMatchLedger, NoRow
<1>4. HandlersMatchRows
  BY FreeType DEF Init, HandlersMatchRows
<1>5. OneShotOnce /\ QueuedTickNotFired /\ RecordedMeansBound
  BY DEF Init, OneShotOnce, QueuedTickNotFired, RecordedMeansBound, NoRow
<1>6. AlarmsKept
  BY FreeType DEF Init, AlarmsKept
<1> QED
  BY <1>1, <1>2, <1>3, <1>4, <1>5, <1>6 DEF IInv

\* Every step preserves the invariant.
LEMMA StepIInv == IInv /\ [Next]_vars => IInv'
<1> SUFFICES ASSUME IInv, [Next]_vars PROVE IInv'
  OBVIOUS
<1>1. ASSUME NEW h \in Handlers, Request(h) PROVE IInv'
  <2>1. ASSUME NEW s \in Schedules, NEW kind \in Kinds, NEW overlap \in Overlaps,
               CreateSchedule(h, s, kind, overlap)
        PROVE  IInv'
    BY <2>1, CreatePreserves
  <2>2. ASSUME NEW s \in Schedules, ResumeCreate(h, s) PROVE IInv'
    BY <2>2, ResumePreserves
  <2>3. ASSUME NEW s \in Schedules, CancelSchedule(h, s) PROVE IInv'
    BY <2>3, CancelPreserves
  <2>4. ASSUME NEW s \in Schedules, ReplayCancelSchedule(h, s) PROVE IInv'
    BY <2>4, ReplayPreserves
  <2>5. ASSUME NEW status \in Cancelled, CleanupSchedulesForInstallation(h, status) PROVE IInv'
    BY <2>5, CleanupPreserves
  <2> QED
    BY <1>1, <2>1, <2>2, <2>3, <2>4, <2>5 DEF Request
<1>2. ASSUME NEW h \in Handlers, Continue(h) PROVE IInv'
  BY <1>2, RegisterPreserves, BindPreserves, CancelRuntimePreserves DEF Continue
<1>3. ASSUME NEW h \in Handlers, RuntimeFails(h) \/ BindRuntimeFails(h) PROVE IInv'
  BY <1>3, RuntimeFailsPreserves, BindFailsPreserves
<1>4. ASSUME NEW s \in Schedules, ResumeBoundCreate(s) \/ CommitScheduleDecision(s) \/ EndRun(s)
      PROVE  IInv'
  BY <1>4, ResumeBoundPreserves, DecisionPreserves, EndRunPreserves
<1>5. ASSUME NEW s \in Schedules, NEW again \in BOOLEAN, FireSchedule(s, again) PROVE IInv'
  BY <1>5, FirePreserves
<1>6. CASE UninstallIntegration \/ Advance \/ Evict
  BY <1>6, UninstallPreserves, AdvancePreserves, EvictPreserves
<1>7. CASE UNCHANGED vars
  BY <1>7 DEF vars, IInv, TypeOK, EventsMatchFires, UnfiredOneShot, RowsMatchLedger, HandlersMatchRows,
              OneShotOnce, QueuedTickNotFired, RecordedMeansBound, AlarmsKept, IsActive
<1> QED
  BY <1>1, <1>2, <1>3, <1>4, <1>5, <1>6, <1>7 DEF Next

\* The invariant the theorems below follow from.
THEOREM Invariant == Spec => []IInv
BY InitIInv, StepIInv, PTL DEF Spec

\* Every row, fire row, alarm and request in flight has its type.
THEOREM ScheduleTypes == Spec => []TypeOK
<1>1. IInv => TypeOK
  BY DEF IInv
<1> QED
  BY <1>1, Invariant, PTL

\* A tick has one schedule.triggered Event at most, whatever the deliveries of
\* its callback and whatever the overlap policy made of it before.
THEOREM NoDuplicateEvent == Spec => []OneEventPerTick
<1>1. IInv => OneEventPerTick
  BY DEF IInv, EventsMatchFires, OneEventPerTick
<1> QED
  BY <1>1, Invariant, PTL

\* A one-shot fires for one tick at most, although its alarm may be registered
\* and bound again after it has fired.
THEOREM OneShotFiresOnce == Spec => []OneShotOnce
<1>1. IInv => OneShotOnce
  BY DEF IInv
<1> QED
  BY <1>1, Invariant, PTL

\* The queue holds one tick at most, and never one that has fired.
THEOREM QueueIsSound == Spec => []QueuedTickNotFired
<1>1. IInv => QueuedTickNotFired
  BY DEF IInv
<1> QED
  BY <1>1, Invariant, PTL

\* The creation that was answered has bound its alarm.
THEOREM AnswerMeansBound == Spec => []RecordedMeansBound
<1>1. IInv => RecordedMeansBound
  BY DEF IInv
<1> QED
  BY <1>1, Invariant, PTL

\* An active Schedule whose creation was answered has a live alarm, as long as
\* storage never refuses to bind one.
THEOREM AnsweredIsLive ==
  ASSUME "bind" \notin Faults
  PROVE  Spec => []AcknowledgedHasAlarm
<1>1. IInv => AcknowledgedHasAlarm
  BY DEF IInv, AlarmsKept, RecordedMeansBound, AcknowledgedHasAlarm
<1> QED
  BY <1>1, Invariant, PTL

\* A cancelled Schedule appends no Event any more and stays cancelled.
THEOREM CancellationIsFinal == Spec => CancelIsFinal
<1>1. ASSUME IInv, [Next]_vars, NEW s \in Schedules, row[s].status \in Cancelled
      PROVE  row'[s].status = row[s].status /\ appended'[s] = appended[s]
  <2>1. row[s].status \notin {"absent", "active", "completed"}
    BY <1>1 DEF Cancelled
  <2>2. ASSUME NEW u \in Schedules, NEW again \in BOOLEAN, FireSchedule(u, again)
        PROVE  row'[s].status = row[s].status /\ appended'[s] = appended[s]
    <3>1. CASE u # s
      <4>1. FireEffect(u)
        BY <1>1, <2>2, EveryFireEffect
      <4> QED
        BY <3>1, <4>1 DEF FireEffect
    <3>2. CASE u = s
      <4>1. FireEffect(s)
        BY <1>1, <2>2, <3>2, EveryFireEffect
      <4>2. appended' = appended
        BY <2>1, <2>2, <3>2 DEF FireSchedule, AppendTriggeredEvent, Suppress, SuppressOverlap,
                                QueueNextDuplicate, IsActive
      <4> QED
        BY <2>1, <4>1, <4>2 DEF FireEffect
    <3> QED
      BY <3>1, <3>2
  <2>3. ASSUME NEW u \in Schedules, NEW new \in Rows, u # s \/ new.status = row[s].status,
               row' = [row EXCEPT ![u] = new]
        PROVE  row'[s].status = row[s].status
    BY <1>1, <2>3 DEF IInv, TypeOK
  <2>4. ASSUME NEW u \in Schedules, NEW kind, NEW overlap, NEW due, InsertSchedule(u, kind, overlap, due)
        PROVE  row'[s].status = row[s].status
    BY <1>1, <2>1, <2>4 DEF InsertSchedule, IInv, TypeOK
  <2>5. ASSUME NEW h \in Handlers, NEW recorded \in BOOLEAN, BindRuntime(h, recorded)
        PROVE  row'[s].status = row[s].status
    <3>1. handler[h].s \in Schedules /\ handler[h].id \in Nat /\ row[handler[h].s] \in Rows
      BY <1>1 DEF IInv, TypeOK, HandlerType
    <3>2. PICK due \in ReportedTimes(handler[h].s) :
            row' = [row EXCEPT ![handler[h].s] = BoundRow(handler[h].s, handler[h].id, due)]
      BY <2>5 DEF BindRuntime
    <3>3. due \in Ticks
      BY <1>1 DEF ReportedTimes, IInv, TypeOK
    <3>4. /\ BoundRow(handler[h].s, handler[h].id, due) \in Rows
          /\ BoundRow(handler[h].s, handler[h].id, due).status = row[handler[h].s].status
      BY <3>1, <3>3, BoundRowType DEF SameBut
    <3> QED
      BY <2>3, <3>1, <3>2, <3>4
  <2>6. ASSUME NEW h \in Handlers, NEW u \in Schedules, CancelSchedule(h, u)
        PROVE  row'[s].status = row[s].status
    BY <1>1, <2>6 DEF CancelSchedule, IInv, TypeOK
  <2>7. ASSUME NEW status \in Cancelled, CancelSchedulesByInstallation(status)
        PROVE  row'[s].status = row[s].status
    BY <1>1, <2>1, <2>7 DEF CancelSchedulesByInstallation, ActiveOwned, IsActive
  <2>8. CASE \E h \in Handlers : Request(h)
    <3>1. appended' = appended
      BY <2>8 DEF Request, CreateSchedule, ResumeCreate, CancelSchedule, ReplayCancelSchedule,
                  CleanupSchedulesForInstallation
    <3> QED
      BY <2>4, <2>6, <2>7, <2>8, <3>1 DEF Request, CreateSchedule, ResumeCreate, ReplayCancelSchedule,
                  CleanupSchedulesForInstallation
  <2>9. CASE \E h \in Handlers : Continue(h) \/ RuntimeFails(h) \/ BindRuntimeFails(h)
    <3>1. appended' = appended
      BY <2>9 DEF Continue, RegisterRuntime, BindRuntime, CancelRuntime, RuntimeFails, BindRuntimeFails
    <3>2. row' = row \/ \E h \in Handlers, recorded \in BOOLEAN : BindRuntime(h, recorded)
      BY <2>9 DEF Continue, RegisterRuntime, CancelRuntime, RuntimeFails, BindRuntimeFails
    <3> QED
      BY <2>5, <3>1, <3>2
  <2>10. CASE \E u \in Schedules : ResumeBoundCreate(u) \/ CommitScheduleDecision(u) \/ EndRun(u)
    <3>1. appended' = appended
      BY <2>10 DEF ResumeBoundCreate, CommitScheduleDecision, EndRun
    <3> QED
      BY <2>4, <2>10, <3>1 DEF ResumeBoundCreate, CommitScheduleDecision, EndRun
  <2>11. CASE UninstallIntegration \/ Advance \/ Evict \/ UNCHANGED vars
    BY <2>7, <2>11 DEF UninstallIntegration, Cancelled, Advance, Evict, vars
  <2> QED
    BY <1>1, <2>2, <2>8, <2>9, <2>10, <2>11 DEF Next
<1>2. IInv /\ [Next]_vars =>
        \A s \in Schedules : row[s].status \in Cancelled =>
          row'[s].status = row[s].status /\ appended'[s] = appended[s]
  BY <1>1
<1> QED
  BY <1>2, Invariant, PTL DEF Spec, CancelIsFinal

-----------------------------------------------------------------------------
(* The refinement *)

FiredOutcome == [k \in Schedules \X Ticks |-> TickOutcome(fire[k[1]][k[2]])]

FiredEvents == [k \in Schedules \X Ticks |-> appended[k[1]][k[2]]]

FiredStep == [Fired!Next]_<<FiredOutcome, FiredEvents>>

\* The fire row of one tick that is not recorded is written, with its Event if
\* the row says so.
TickWritten(s, t, status) ==
  /\ ~TickRecorded(s, t)
  /\ status \in FireStatus \ {"none"}
  /\ fire' = [fire EXCEPT ![s][t] = status]
  /\ \/ /\ status = "event_appended"
        /\ appended' = [appended EXCEPT ![s][t] = appended[s][t] + 1]
     \/ status # "event_appended" /\ UNCHANGED appended

\* What a callback does to the fire rows and the Events.
LEMMA CallbackWrites ==
  ASSUME IInv, NEW s \in Schedules, NEW again \in BOOLEAN, FireSchedule(s, again)
  PROVE  \/ UNCHANGED <<fire, appended>>
         \/ \E t \in Ticks, status \in FireStatus : TickWritten(s, t, status)
<1> DEFINE t == FireCandidate(s)
<1>1. t \in Ticks
  BY BeforeFire
<1> HIDE DEF t
<1>2. ASSUME NEW status \in FireStatus \ {"none", "event_appended"}, NEW queued,
             Suppress(s, t, status, queued)
      PROVE  TickWritten(s, t, status)
  BY <1>2 DEF Suppress, RecordFire, TickWritten
<1>3. CASE AppendTriggeredEvent(s, t)
  BY <1>1, <1>3 DEF AppendTriggeredEvent, RecordFire, TickWritten, FireStatus
<1>4. CASE ~IsActive(s) /\ Suppress(s, t, "suppressed_inactive", row[s].queued)
  <2>1. "suppressed_inactive" \in FireStatus \ {"none", "event_appended"}
    BY DEF FireStatus
  <2> QED BY <1>1, <1>2, <1>4, <2>1
<1>5. CASE SuppressOverlap(s, t)
  <2>1. {"skipped_overlap", "coalesced_overlap", "queued_next_overlap"}
          \subseteq FireStatus \ {"none", "event_appended"}
    BY DEF FireStatus
  <2> QED BY <1>1, <1>2, <1>5, <2>1 DEF SuppressOverlap
<1>6. CASE QueueNextDuplicate(s, t)
  BY <1>1, <1>6 DEF QueueNextDuplicate, RecordFire, TickWritten, FireStatus
<1> QED BY <1>3, <1>4, <1>5, <1>6 DEF FireSchedule, t

\* Nothing else writes them.
LEMMA OthersWriteNone ==
  ASSUME [Next]_vars
  PROVE  \/ \E s \in Schedules, again \in BOOLEAN : FireSchedule(s, again)
         \/ UNCHANGED <<fire, appended>>
<1>1. ASSUME NEW h \in Handlers, Request(h) PROVE UNCHANGED <<fire, appended>>
  BY <1>1 DEF Request, CreateSchedule, ResumeCreate, CancelSchedule, ReplayCancelSchedule,
              CleanupSchedulesForInstallation
<1>2. ASSUME NEW h \in Handlers, Continue(h) \/ RuntimeFails(h) \/ BindRuntimeFails(h)
      PROVE  UNCHANGED <<fire, appended>>
  BY <1>2 DEF Continue, RegisterRuntime, BindRuntime, CancelRuntime, RuntimeFails, BindRuntimeFails
<1>3. ASSUME NEW s \in Schedules, ResumeBoundCreate(s) \/ CommitScheduleDecision(s) \/ EndRun(s)
      PROVE  UNCHANGED <<fire, appended>>
  BY <1>3 DEF ResumeBoundCreate, CommitScheduleDecision, EndRun
<1>4. CASE UninstallIntegration \/ Advance \/ Evict \/ UNCHANGED vars
  BY <1>4 DEF UninstallIntegration, Advance, Evict, vars
<1> QED BY <1>1, <1>2, <1>3, <1>4 DEF Next

\* A tick that is written is performed, refused or left open.
LEMMA WrittenRefines ==
  ASSUME IInv, NEW s \in Schedules, NEW t \in Ticks, NEW status \in FireStatus,
         TickWritten(s, t, status)
  PROVE  FiredStep
<1> DEFINE k == <<s, t>>
<1>1. k \in Schedules \X Ticks
  OBVIOUS
<1>2. /\ FiredOutcome[k] = "open"
      /\ FiredEvents[k] = appended[s][t]
  BY DEF FiredOutcome, FiredEvents, TickOutcome, TickWritten, TickRecorded
<1>3. \A x \in Schedules \X Ticks :
        fire'[x[1]][x[2]] = IF x = k THEN status ELSE fire[x[1]][x[2]]
  BY DEF TickWritten, IInv, TypeOK
<1>4. FiredOutcome' = [FiredOutcome EXCEPT ![k] = TickOutcome(status)]
  <2>1. \A x \in Schedules \X Ticks :
          TickOutcome(fire'[x[1]][x[2]]) = IF x = k THEN TickOutcome(status) ELSE FiredOutcome[x]
    BY <1>3 DEF FiredOutcome
  <2>2. FiredOutcome' =
          [x \in Schedules \X Ticks |-> IF x = k THEN TickOutcome(status) ELSE FiredOutcome[x]]
    BY <2>1 DEF FiredOutcome
  <2>3. DOMAIN FiredOutcome = Schedules \X Ticks
    BY DEF FiredOutcome
  <2> QED BY <2>2, <2>3
<1>5. CASE status = "event_appended"
  <2>1. PICK n : n = FiredEvents[k] + 1
    OBVIOUS
  <2>2. appended' = [appended EXCEPT ![s][t] = n]
    BY <1>2, <1>5, <2>1 DEF TickWritten
  <2>3. \A x \in Schedules \X Ticks :
          appended'[x[1]][x[2]] = IF x = k THEN n ELSE FiredEvents[x]
    BY <2>2 DEF FiredEvents, IInv, TypeOK
  <2>4. FiredEvents' = [x \in Schedules \X Ticks |-> IF x = k THEN n ELSE FiredEvents[x]]
    BY <2>3 DEF FiredEvents
  <2>5. DOMAIN FiredEvents = Schedules \X Ticks
    BY DEF FiredEvents
  <2>6. FiredEvents' = [FiredEvents EXCEPT ![k] = FiredEvents[k] + 1]
    BY <2>1, <2>4, <2>5
  <2>7. TickOutcome(status) = "done"
    BY <1>5 DEF TickOutcome
  <2> HIDE DEF k
  <2>8. Fired!Perform(k)
    BY <1>2, <1>4, <2>6, <2>7, Zenon DEF Fired!Perform, FiredOutcome, FiredEvents
  <2> QED BY <1>1, <2>8, Zenon DEF FiredStep, Fired!Next
<1>6. CASE status # "event_appended"
  <2>1. UNCHANGED FiredEvents
    BY <1>6 DEF TickWritten, FiredEvents
  <2>2. CASE status = "queued_next_overlap"
    <3>1. TickOutcome(status) = "open"
      BY <2>2 DEF TickOutcome
    <3>2. FiredOutcome' = FiredOutcome
      BY <1>2, <1>4, <3>1 DEF FiredOutcome
    <3> QED BY <2>1, <3>2 DEF FiredStep
  <2>3. CASE status # "queued_next_overlap"
    <3>1. TickOutcome(status) = "refused"
      BY <1>6, <2>3 DEF TickOutcome, TickWritten
    <3> HIDE DEF k
    <3>2. Fired!Refuse(k)
      BY <1>2, <1>4, <2>1, <3>1, Zenon DEF Fired!Refuse, FiredOutcome, FiredEvents
    <3> QED BY <1>1, <3>2, Zenon DEF FiredStep, Fired!Next
  <2> QED BY <2>2, <2>3
<1> QED BY <1>5, <1>6

\* The callbacks of a Schedule implement AgentOnce: each tick has its Event or is
\* passed over, once and for good (firing.ts).
THEOREM TickIsOnce == Spec => TicksOnce
<1>1. Init => Fired!Init
  BY DEF Init, Fired!Init, TickOutcome
<1>2. IInv /\ [Next]_vars => FiredStep
  <2> SUFFICES ASSUME IInv, [Next]_vars PROVE FiredStep
    OBVIOUS
  <2>1. CASE UNCHANGED <<fire, appended>>
    BY <2>1 DEF FiredStep, FiredOutcome, FiredEvents
  <2> QED BY <2>1, OthersWriteNone, CallbackWrites, WrittenRefines
<1> QED BY <1>1, <1>2, Invariant, PTL
        DEF Spec, TicksOnce, Fired!Spec, FiredStep, FiredOutcome, FiredEvents

-----------------------------------------------------------------------------
(* One request at a time *)

\* Storage may refuse to bind an alarm, whose request then unregisters it.  With
\* one request in flight a Schedule that is being registered is bound to nothing,
\* and an alarm that is unregistered belongs to a cancelled row or to an unbound one.
AloneInv ==
  /\ \A s \in Schedules :
       ledger[s] # "none" /\ row[s].runtimeId # 0 /\ IsActive(s) => alarm[s] # 0
  /\ \A h \in Handlers :
       /\ handler[h].pc = "bind" /\ IsActive(handler[h].s) => alarm[handler[h].s] # 0
       /\ handler[h].pc \in {"register", "bind"} =>
            row[handler[h].s].runtimeId = 0 /\ handler[h].todo = {}
       /\ \A p \in handler[h].todo :
            row[p[1]].status \in Cancelled \/ row[p[1]].runtimeId = 0

Alone == \A g, h \in Handlers : g = h

\* A step that binds no alarm and cancels none of an active row.
LEMMA AloneKept ==
  ASSUME IInv, IInv', AloneInv,
         \A u \in Schedules :
           /\ row'[u].runtimeId = row[u].runtimeId
           /\ row'[u].status = "active" => row[u].status \in {"absent", "active"}
           /\ row[u].status \in Cancelled => row'[u].status \in Cancelled
           /\ row[u].status = "active" /\ row'[u].status = "active" /\ alarm[u] # 0 =>
                alarm'[u] # 0
           /\ row[u].status # "absent" /\ ledger'[u] # "none" => ledger[u] # "none",
         \A g \in Handlers :
           \/ handler'[g] = handler[g]
           \/ /\ handler'[g].pc \notin {"register", "bind"}
              /\ \A p \in handler'[g].todo :
                   row'[p[1]].status \in Cancelled \/ row'[p[1]].runtimeId = 0
           \/ /\ handler'[g].todo = {}
              /\ row[handler'[g].s].runtimeId = 0
              /\ handler'[g].pc = "bind" => alarm'[handler'[g].s] # 0
  PROVE  AloneInv'
<1>1. \A u \in Schedules : row[u].status = "absent" => row[u].runtimeId = 0 /\ ledger[u] = "none"
  BY DEF IInv, RowsMatchLedger, NoRow
<1>2. \A g \in Handlers : /\ handler[g].s \in Schedules /\ handler'[g].s \in Schedules
                          /\ \A p \in handler[g].todo : p[1] \in Schedules
  BY DEF IInv, TypeOK, HandlerType
<1>3. \A u \in Schedules :
         ledger'[u] # "none" /\ row'[u].runtimeId # 0 /\ row'[u].status = "active" => alarm'[u] # 0
  BY <1>1 DEF AloneInv, IsActive
<1>4. ASSUME NEW g \in Handlers
      PROVE  /\ handler'[g].pc = "bind" /\ row'[handler'[g].s].status = "active" =>
                  alarm'[handler'[g].s] # 0
             /\ handler'[g].pc \in {"register", "bind"} =>
                  row'[handler'[g].s].runtimeId = 0 /\ handler'[g].todo = {}
             /\ \A p \in handler'[g].todo :
                  row'[p[1]].status \in Cancelled \/ row'[p[1]].runtimeId = 0
  <2>1. CASE handler'[g] = handler[g]
    <3>1. handler[g].pc = "bind" => row[handler[g].s].status # "absent"
      BY <1>1, <1>2 DEF IInv, HandlersMatchRows
    <3> QED BY <1>2, <2>1, <3>1 DEF AloneInv, IsActive
  <2>2. CASE handler'[g] # handler[g]
    BY <1>2, <2>2
  <2> QED BY <2>1, <2>2
<1> QED BY <1>3, <1>4 DEF AloneInv, IsActive

\* The same where no request goes on but to its end.
LEMMA AloneQuiet ==
  ASSUME IInv, IInv', AloneInv,
         UNCHANGED <<row, ledger, alarm>>,
         \A g \in Handlers : handler'[g] = handler[g] \/ handler'[g] = Free
  PROVE  AloneInv'
<1>1. Free.pc \notin {"register", "bind"} /\ Free.todo = {}
  BY FreeType
<1> QED BY <1>1, AloneKept DEF Cancelled

\* A cancellation disturbs none of it.
LEMMA AloneCancelled ==
  ASSUME IInv, IInv', AloneInv, CancelEffect
  PROVE  AloneInv'
<1>1. \A u \in Schedules :
         /\ row'[u].runtimeId = row[u].runtimeId
         /\ row'[u].status = "active" => row[u].status = "active"
         /\ row[u].status \in Cancelled => row'[u].status \in Cancelled
  BY DEF CancelEffect, SameBut, Cancelled
<1>2. UNCHANGED <<alarm, ledger>>
  BY DEF CancelEffect
<1>3. \A g \in Handlers :
         \/ handler'[g] = handler[g]
         \/ /\ handler'[g].pc \notin {"register", "bind"}
            /\ \A p \in handler'[g].todo : row'[p[1]].status \in Cancelled
  BY DEF CancelEffect
<1> QED BY <1>1, <1>2, <1>3, AloneKept

\* A row that is inserted is bound to nothing.
LEMMA AloneInserted ==
  ASSUME IInv, IInv', AloneInv, NEW s \in Schedules,
         NEW kind \in {"one_shot", "interval", "run_decision"},
         NEW overlap \in {"skip", "coalesce", "queue-next"}, NEW due \in Ticks,
         InsertSchedule(s, kind, overlap, due),
         alarm' = alarm, \A u \in Schedules : u # s => ledger'[u] = ledger[u],
         \A g \in Handlers :
           \/ handler'[g] = handler[g]
           \/ /\ handler'[g].todo = {} /\ handler'[g].pc # "bind"
              /\ handler'[g].s = s
  PROVE  AloneInv'
<1> DEFINE new == NewRow(kind, overlap, due)
<1>1. new.status = "active" /\ new.runtimeId = 0
  BY NewRowType
<1>2. row[s].status = "absent" /\ row' = [row EXCEPT ![s] = new]
  BY DEF InsertSchedule, NewRow
<1>3. row[s].runtimeId = 0
  BY <1>2 DEF IInv, RowsMatchLedger, NoRow
<1> HIDE DEF new
<1>4. /\ row'[s] = new
      /\ \A u \in Schedules : u # s => row'[u] = row[u]
  BY <1>2 DEF IInv, TypeOK
<1>5. \A u \in Schedules :
         /\ row'[u].runtimeId = row[u].runtimeId
         /\ row'[u].status = "active" => row[u].status \in {"absent", "active"}
         /\ row[u].status \in Cancelled => row'[u].status \in Cancelled
         /\ row[u].status # "absent" /\ ledger'[u] # "none" => ledger[u] # "none"
  BY <1>1, <1>2, <1>3, <1>4 DEF Cancelled
<1> QED BY <1>3, <1>5, AloneKept

\* With one request in flight every step preserves it.
LEMMA AloneStep ==
  ASSUME Alone, IInv, IInv', AloneInv, [Next]_vars
  PROVE  AloneInv'
<1>t. /\ \A g \in Handlers : /\ handler[g] \in HandlerType
                             /\ handler[g].s \in Schedules
      /\ handler \in [Handlers -> HandlerType]
  BY DEF IInv, TypeOK, HandlerType
<1>1. ASSUME NEW h \in Handlers, NEW s \in Schedules, NEW kind \in Kinds, NEW overlap \in Overlaps,
             CreateSchedule(h, s, kind, overlap)
      PROVE  AloneInv'
  <2>1. PICK due \in Ticks : InsertSchedule(s, kind, overlap, due)
    BY <1>1 DEF CreateSchedule
  <2>2. /\ kind \in {"one_shot", "interval", "run_decision"}
        /\ overlap \in {"skip", "coalesce", "queue-next"}
    BY ScheduleAssumption
  <2>3. /\ alarm' = alarm
        /\ \A u \in Schedules : u # s => ledger'[u] = ledger[u]
        /\ handler' = [handler EXCEPT ![h] =
                         [pc |-> "register", s |-> s, id |-> 0, todo |-> {}]]
    BY <1>1 DEF CreateSchedule, Await, IInv, TypeOK
  <2>4. \A g \in Handlers : \/ handler'[g] = handler[g]
                            \/ /\ handler'[g].todo = {} /\ handler'[g].pc # "bind"
                               /\ handler'[g].s = s
    BY <1>t, <2>3
  <2> QED BY <2>1, <2>2, <2>3, <2>4, AloneInserted
<1>2. ASSUME NEW h \in Handlers, NEW s \in Schedules, ResumeCreate(h, s) PROVE AloneInv'
  <2>1. /\ row[s].runtimeId = 0
        /\ UNCHANGED <<row, ledger, alarm>>
        /\ handler' = [handler EXCEPT ![h] =
                         [pc |-> "register", s |-> s, id |-> 0, todo |-> {}]]
    BY <1>2 DEF ResumeCreate, Await
  <2>2. \A g \in Handlers :
           \/ handler'[g] = handler[g]
           \/ /\ handler'[g].todo = {}
              /\ row[handler'[g].s].runtimeId = 0
              /\ handler'[g].pc # "bind"
    BY <1>t, <2>1
  <2> QED BY <2>1, <2>2, AloneKept DEF Cancelled
<1>3. ASSUME NEW h \in Handlers, NEW s \in Schedules, CancelSchedule(h, s) PROVE AloneInv'
  BY <1>3, CancelCancels, AloneCancelled
<1>4. ASSUME NEW h \in Handlers, NEW s \in Schedules, ReplayCancelSchedule(h, s) PROVE AloneInv'
  <2>1. /\ row[s].status \in Cancelled
        /\ UNCHANGED <<row, ledger, alarm>>
        /\ handler' = [handler EXCEPT ![h] =
              [pc |-> "unregister", s |-> handler[h].s, id |-> 0, todo |-> {<<s, answer[s]>>}]]
    BY <1>4 DEF ReplayCancelSchedule, AwaitUnregister, Await, IInv, RowsMatchLedger
  <2>2. \A g \in Handlers :
           \/ handler'[g] = handler[g]
           \/ /\ handler'[g].pc \notin {"register", "bind"}
              /\ \A p \in handler'[g].todo : row'[p[1]].status \in Cancelled
    BY <1>t, <2>1
  <2> QED BY <2>1, <2>2, AloneKept DEF Cancelled
<1>5. ASSUME NEW h \in Handlers, NEW status \in Cancelled,
             CleanupSchedulesForInstallation(h, status)
      PROVE  AloneInv'
  BY <1>5, CleanupCancels, AloneCancelled
<1>6. ASSUME NEW h \in Handlers, RegisterRuntime(h) PROVE AloneInv'
  <2> DEFINE s == handler[h].s
             id == IF alarm[s] # 0 THEN alarm[s] ELSE alarms[s] + 1
  <2>1. /\ handler[h].pc = "register"
        /\ alarm' = [alarm EXCEPT ![s] = id]
        /\ handler' = [handler EXCEPT ![h] = [pc |-> "bind", s |-> s, id |-> id, todo |-> {}]]
        /\ UNCHANGED <<row, ledger>>
    BY <1>6 DEF RegisterRuntime, Await
  <2>2. s \in Schedules /\ id # 0 /\ row[s].runtimeId = 0
    BY <1>t, <2>1 DEF IInv, TypeOK, AloneInv
  <2> HIDE DEF s, id
  <2>3. alarm'[s] # 0 /\ \A u \in Schedules : u # s => alarm'[u] = alarm[u]
    BY <2>1, <2>2 DEF IInv, TypeOK
  <2>4. \A g \in Handlers :
           \/ handler'[g] = handler[g]
           \/ /\ handler'[g].todo = {}
              /\ row[handler'[g].s].runtimeId = 0
              /\ alarm'[handler'[g].s] # 0
    BY <1>t, <2>1, <2>2, <2>3
  <2> QED BY <2>1, <2>3, <2>4, AloneKept DEF Cancelled
<1>7. ASSUME NEW h \in Handlers, NEW recorded \in BOOLEAN, BindRuntime(h, recorded)
      PROVE  AloneInv'
  <2> DEFINE s == handler[h].s
  <2>1. PICK due \in ReportedTimes(s) : row' = [row EXCEPT ![s] = BoundRow(s, handler[h].id, due)]
    BY <1>7 DEF BindRuntime
  <2>2. s \in Schedules /\ handler[h].id \in Nat /\ due \in Ticks /\ row[s] \in Rows
    BY <1>t DEF IInv, TypeOK, HandlerType, ReportedTimes
  <2>3. BoundRow(s, handler[h].id, due).status = row[s].status
    BY <2>2, BoundRowType DEF SameBut
  <2>4. /\ \A u \in Schedules : row'[u].status = row[u].status
        /\ \A u \in Schedules : u # s => row'[u] = row[u]
    BY <2>1, <2>2, <2>3 DEF IInv, TypeOK
  <2>5. /\ handler[h].pc = "bind" /\ ledger[s] # "none" /\ alarm' = alarm
        /\ \A u \in Schedules : u # s => ledger'[u] = ledger[u]
        /\ handler' = [handler EXCEPT ![h] = Free]
    BY <1>7 DEF BindRuntime, IInv, TypeOK, HandlersMatchRows
  <2>6. row[s].status = "active" => alarm[s] # 0
    BY <2>5 DEF AloneInv, IsActive
  <2>7. \A g \in Handlers : handler'[g] = Free
    BY <1>t, <2>5 DEF Alone
  <2>8. \A u \in Schedules :
           ledger'[u] # "none" /\ row'[u].runtimeId # 0 /\ row'[u].status = "active" => alarm'[u] # 0
    BY <2>4, <2>5, <2>6 DEF AloneInv, IsActive
  <2> QED BY <2>7, <2>8, FreeType DEF AloneInv, IsActive
<1>8. ASSUME NEW h \in Handlers, CancelRuntime(h) PROVE AloneInv'
  <2>1. PICK p \in handler[h].todo :
          /\ alarm' = [alarm EXCEPT ![p[1]] = AlarmAfterCancel(p[1], p[2])]
          /\ handler' = [handler EXCEPT ![h] =
                           IF handler[h].todo = {p} THEN Free
                           ELSE [handler[h] EXCEPT !.todo = handler[h].todo \ {p}]]
    BY <1>8 DEF CancelRuntime
  <2> DEFINE left == IF handler[h].todo = {p} THEN Free
                     ELSE [handler[h] EXCEPT !.todo = handler[h].todo \ {p}]
  <2>2. left.pc \notin {"register", "bind"} /\ left.todo \subseteq handler[h].todo
    BY <1>8, <1>t, FreeType DEF HandlerType, CancelRuntime
  <2>3. handler' = [handler EXCEPT ![h] = left]
    BY <2>1
  <2> HIDE DEF left
  <2>4. \A g \in Handlers : handler'[g] = left /\ g = h
    BY <1>t, <2>3 DEF Alone
  <2>5. /\ p[1] \in Schedules
        /\ row[p[1]].status \in Cancelled \/ row[p[1]].runtimeId = 0
    BY <1>t DEF HandlerType, AloneInv
  <2>6. \A u \in Schedules : u # p[1] => alarm'[u] = alarm[u]
    BY <2>1 DEF IInv, TypeOK
  <2>7. UNCHANGED <<row, ledger>>
    BY <1>8 DEF CancelRuntime
  <2>8. \A u \in Schedules :
           ledger'[u] # "none" /\ row'[u].runtimeId # 0 /\ row'[u].status = "active" => alarm'[u] # 0
    BY <2>5, <2>6, <2>7 DEF AloneInv, IsActive, Cancelled
  <2>9. \A g \in Handlers : \A q \in handler'[g].todo :
           row'[q[1]].status \in Cancelled \/ row'[q[1]].runtimeId = 0
    BY <2>2, <2>4, <2>7 DEF AloneInv
  <2> QED BY <2>2, <2>4, <2>8, <2>9 DEF AloneInv, IsActive
<1>9. ASSUME NEW h \in Handlers, BindRuntimeFails(h) PROVE AloneInv'
  <2> DEFINE s == handler[h].s
  <2>1. /\ handler[h].pc = "bind"
        /\ UNCHANGED <<row, ledger, alarm>>
        /\ handler' = [handler EXCEPT ![h] =
              [pc |-> "unregister", s |-> s, id |-> 0, todo |-> {<<s, handler[h].id>>}]]
    BY <1>9 DEF BindRuntimeFails, Await
  <2>2. row[s].runtimeId = 0
    BY <2>1 DEF AloneInv
  <2> HIDE DEF s
  <2>3. \A g \in Handlers :
           \/ handler'[g] = handler[g]
           \/ /\ handler'[g].pc \notin {"register", "bind"}
              /\ \A p \in handler'[g].todo : row'[p[1]].runtimeId = 0
    BY <1>t, <2>1, <2>2
  <2> QED BY <2>1, <2>3, AloneKept DEF Cancelled
<1>10. ASSUME NEW h \in Handlers, RuntimeFails(h) PROVE AloneInv'
  <2>1. UNCHANGED <<row, ledger, alarm>> /\ handler' = [handler EXCEPT ![h] = Free]
    BY <1>10 DEF RuntimeFails
  <2>2. \A g \in Handlers : handler'[g] = handler[g] \/ handler'[g] = Free
    BY <1>t, <2>1
  <2> QED BY <2>1, <2>2, AloneQuiet
<1>11. ASSUME NEW s \in Schedules, ResumeBoundCreate(s) PROVE AloneInv'
  <2>1. /\ \A u \in Schedules : ledger'[u] # "none" => ledger[u] # "none"
        /\ UNCHANGED <<row, alarm, handler>>
    BY <1>11 DEF ResumeBoundCreate, IInv, TypeOK
  <2> QED BY <2>1, AloneKept DEF Cancelled
<1>12. ASSUME NEW s \in Schedules, CommitScheduleDecision(s) PROVE AloneInv'
  <2>1. InsertSchedule(s, "run_decision", "coalesce", now) /\ UNCHANGED <<alarm, ledger, handler>>
    BY <1>12 DEF CommitScheduleDecision
  <2>2. now \in Ticks
    BY DEF IInv, TypeOK
  <2> QED BY <2>1, <2>2, AloneInserted
<1>13. ASSUME NEW s \in Schedules, NEW again \in BOOLEAN, FireSchedule(s, again) PROVE AloneInv'
  <2>1. FireEffect(s)
    BY <1>13, EveryFireEffect
  <2>2. \A u \in Schedules :
           /\ row'[u].runtimeId = row[u].runtimeId
           /\ row'[u].status = "active" => row[u].status = "active"
           /\ row[u].status \in Cancelled => row'[u].status \in Cancelled
    BY <2>1 DEF FireEffect, Cancelled
  <2>3. /\ alarm' = [alarm EXCEPT ![s] = IF again \/ row[s].kind = "interval" THEN @ ELSE 0]
        /\ UNCHANGED <<ledger, handler>>
    BY <1>13 DEF FireSchedule
  <2>4. ASSUME NEW u \in Schedules, row'[u].status = "active", row[u].status = "active",
               ledger[u] # "none", alarm[u] # 0
        PROVE  alarm'[u] # 0
    <3>1. CASE u # s
      BY <2>3, <2>4, <3>1 DEF IInv, TypeOK
    <3>2. CASE u = s
      <4>1. row[s].kind = "interval"
        BY <2>1, <2>4, <3>2 DEF FireEffect, IInv, TypeOK, Rows, RowsMatchLedger
      <4> QED BY <2>3, <2>4, <3>2, <4>1 DEF IInv, TypeOK
    <3> QED BY <3>1, <3>2
  <2>5. \A u \in Schedules :
           ledger'[u] # "none" /\ row'[u].runtimeId # 0 /\ row'[u].status = "active" => alarm'[u] # 0
    BY <2>2, <2>3, <2>4 DEF AloneInv, IsActive
  <2>6. \A g \in Handlers :
           handler'[g].pc = "bind" /\ row'[handler'[g].s].status = "active" => alarm'[handler'[g].s] # 0
    BY <1>t, <2>2, <2>3, <2>4 DEF AloneInv, IsActive, IInv, HandlersMatchRows
  <2>7. \A g \in Handlers : \A p \in handler'[g].todo :
           row'[p[1]].status \in Cancelled \/ row'[p[1]].runtimeId = 0
    BY <1>t, <2>2, <2>3 DEF AloneInv, HandlerType
  <2> QED BY <1>t, <2>2, <2>3, <2>5, <2>6, <2>7 DEF AloneInv, IsActive
<1>14. ASSUME NEW s \in Schedules, EndRun(s) PROVE AloneInv'
  BY <1>14, AloneQuiet DEF EndRun
<1>15. CASE UninstallIntegration
  BY <1>15, UninstallCancels, AloneCancelled
<1>16. CASE Advance
  BY <1>16, AloneQuiet DEF Advance
<1>17. CASE Evict
  BY <1>17, AloneQuiet DEF Evict
<1>18. CASE UNCHANGED vars
  BY <1>18, AloneQuiet DEF vars
<1> QED
  BY ZenonT(60), <1>1, <1>2, <1>3, <1>4, <1>5, <1>6, <1>7, <1>8, <1>9, <1>10, <1>11, <1>12,
     <1>13, <1>14, <1>15, <1>16, <1>17, <1>18
  DEF Next, Request, Continue

\* With one request in flight an active Schedule whose creation was answered has a
\* live alarm even if storage refuses to bind alarms: the compensation that takes
\* one away leaves a row that a retry registers again.
THEOREM AnsweredIsLiveAlone ==
  ASSUME \A g, h \in Handlers : g = h
  PROVE  Spec => []AcknowledgedHasAlarm
<1>1. Alone
  BY DEF Alone
<1>2. Init => AloneInv
  BY FreeType DEF Init, AloneInv
<1>3. IInv /\ IInv' /\ AloneInv /\ [Next]_vars => AloneInv'
  BY <1>1, AloneStep
<1>4. IInv /\ AloneInv => AcknowledgedHasAlarm
  BY DEF IInv, AloneInv, RecordedMeansBound, AcknowledgedHasAlarm
<1> QED BY <1>2, <1>3, <1>4, Invariant, PTL DEF Spec
=============================================================================
