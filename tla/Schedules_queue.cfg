SPECIFICATION FairSpec
CONSTANTS
  Schedules = {s1}
  Owned = {}
  Kinds = {"interval"}
  Overlaps = {"queue-next"}
  Handlers = {h1}
  MaxTick = 4
  MaxAlarms = 1
  Faults = {}
PROPERTY QueuedTickIsServed
CHECK_DEADLOCK FALSE
