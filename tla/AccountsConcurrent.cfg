SPECIFICATION Spec
CONSTANTS
  legacy = legacy
  None = None
  Handlers = {h1, h2}
  Faults = {"abort", "resend", "undelivered"}
  Ids = {i1, i2}
  Fields = {name}
  MaxVisits = 3
  Tokens = {legacy, t1, t2}
  Legacy = {legacy}
  Codes = {c1, c2}
  MaxCalls = 4
SYMMETRY Symmetry
INVARIANTS
  LinkUsedOnce
  EditsKept
  EndedStaysEnded
PROPERTIES
  SentLinkKept
