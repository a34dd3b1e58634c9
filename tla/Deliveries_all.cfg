SPECIFICATION Spec
CONSTANTS
  Keys = {k1}
  Callbacks = {c1, c2}
  Contexts = {x1, x2}
  Connections = {n1}
  Runs = {r1, r2}
  Deliveries = {d1, d2}
  Operations = {o1}
  Handlers = {h1, h2}
PROPERTY PublishedOnce
PROPERTY AppliedOnce
INVARIANT WaitingRunIsOpen
PROPERTY FinalDeliveryStays
PROPERTY UninstalledIsQuiet
SYMMETRY Symmetry
CHECK_DEADLOCK FALSE
