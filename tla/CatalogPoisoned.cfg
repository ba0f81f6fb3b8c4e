SPECIFICATION CacheSpec
CONSTANTS
  None = None
  Handlers = {h1}
  Faults = {"abort"}
  MaxEditions = 1
  MaxReads = 2
  MaxOutages = 1
  MaxPolls = 1
INVARIANTS
  CachedFromTable
