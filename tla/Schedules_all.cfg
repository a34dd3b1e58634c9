SPECIFICATION FairSpec
CONSTANTS
  Schedules = {s1}
  Owned = {s1}
  Kinds = {"one_shot", "interval"}
  Overlaps = {"skip", "coalesce", "queue-next"}
  Handlers = {h1, h2}
  MaxTick = 3
  MaxAlarms = 2
  Faults = {"evict"}
PROPERTY TicksOnce
INVARIANT OneShotOnce
INVARIANT QueuedTickNotFired
INVARIANT RecordedMeansBound
INVARIANT AcknowledgedHasAlarm
PROPERTY CancelIsFinal
PROPERTY OneShotFires
CHECK_DEADLOCK FALSE
