SPECIFICATION Spec
CONSTANTS
  Keys = {k1, k2}
  Agents = {a1, a2}
  Requests = {r1, r2}
  NoKey = NoKey
  NoAgent = NoAgent
INVARIANT AssignedCanSign
INVARIANT DefaultIsKept
PROPERTY DeletedNeverSigns
SYMMETRY Symmetry
