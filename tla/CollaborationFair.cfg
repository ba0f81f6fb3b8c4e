SPECIFICATION FairSpec
CONSTANTS
  MaxConnections = 2
  Users = {a, b}
  None = None
  MaxUpdates = 2
  Faults = {"restart"}
INVARIANTS
  ListedServed
  MissesExplained
  UnlistedExplained
PROPERTIES
  SavesNewest
  SaveSettles
  GoneAreUnlisted
