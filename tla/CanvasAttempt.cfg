SPECIFICATION Spec
CONSTANTS
  Handlers = {h1, h2}
  Parent = "attempt"
  CanvasIds = {main, c1}
  LegacyId = main
  Names = {Main, n1, n2}
  LegacyName = Main
  Asked = {n1}
  Graphs = {empty, g0}
  EmptyGraph = empty
  LegacyGraph = g0
  MaxCanvases = 2
  MaxRequests = 3
  Faults = {"stale", "abort"}
SYMMETRY Symmetry
PROPERTIES
  ImplementsStore
