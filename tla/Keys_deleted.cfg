SPECIFICATION Spec
CONSTANTS
  Keys = {k1}
  Agents = {a1}
  Requests = {r1, r2}
  NoKey = NoKey
  NoAgent = NoAgent
PROPERTY DeletedIsFinal
