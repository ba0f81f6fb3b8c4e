SPECIFICATION Spec
CONSTANTS
  None = None
  Handlers = {h1, h2}
  Faults = {"abort", "resend"}
  Snaps = {s1, s2}
  Contents = {x, y}
  MaxTasks = 3
  Last = 2
  MaxEdits = 1
  MaxRuns = 3
  Texts = {t, q}
  Qualities = {q}
  NoScope = NoScope
  MaxRows = 2
  MaxChanges = 3
  p1 = p1
  p2 = p2
  Problems = {p1, p2}
  Titles = {"a", "A", "-"}
  Slugs = {"a", "b"}
  SlugOf <- SlugOfTitle
  Attempts = {a1}
  Scores = {60, 90}
  Designs = {d1}
  People = {u1}
  Rights = {"read", "edit"}
  MaxStarts = 2
  MaxWrites = 1
  Owned = {1, 2, 3}
  Shared = {4, 5}
  Limits = {1, 2}
  MaxMutations = 2
SYMMETRY Symmetry
INVARIANTS
  
  
  WrittenIsJournaled
  EditsStay
  RollbackComplete
  RefusalsExplained
  IndexesTrue
  ListComplete
PROPERTIES
  
  SpecificationGrows
