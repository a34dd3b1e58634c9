SPECIFICATION FairSpec
CONSTANTS
  Schedules = {s1}
  Owned = {}
  Kinds = {"one_shot", "interval"}
  Overlaps = {"skip", "coalesce", "queue-next"}
  Handlers = {h1}
  MaxTick = 3
  MaxAlarms = 2
  Faults = {"evict", "bind"}
INVARIANT AcknowledgedHasAlarm
CHECK_DEADLOCK FALSE
