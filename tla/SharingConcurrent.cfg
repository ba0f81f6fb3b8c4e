SPECIFICATION Spec
CONSTANTS
  Users = {u1, u2, u3}
  Permissions = {read, edit}
  Edit = edit
  None = None
  Handlers = {h1, h2}
  MaxCollaborators = 1
  MaxTries = 3
  MaxRequests = 4
  Faults = {"stop", "blind"}
SYMMETRY Symmetry
INVARIANTS
  ListedHaveRows
  RowsAccounted
  ExcessExplained
PROPERTIES
  ImplementsList
