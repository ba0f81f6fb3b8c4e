SPECIFICATION Spec
CONSTANTS
  Users = {u1}
  Permissions = {read, edit}
  Edit = edit
  None = None
  Handlers = {h1}
  MaxCollaborators = 1
  MaxTries = 1
  MaxRequests = 2
  Faults = {}
INVARIANTS
  MembersAreListed
