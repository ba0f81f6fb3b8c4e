SPECIFICATION Spec
CONSTANTS
  a = a
  b = b
  u = u
  r1 = r1
  r2 = r2
  k = k
  None = None
  Scored = {a, b}
  Unscored = {u}
  Score <- MCScore
  Brief <- MCBrief
  Revisions = {r1, r2}
  Contexts = {k}
  HistoryLimit = 2
  Handlers = {h1, h2}
  Saves <- MCSaves
  MaxRetries = 1
  MaxRequests = 3
  Faults = {}
SYMMETRY Symmetry
INVARIANTS
  StoredReadable
