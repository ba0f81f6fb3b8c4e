SPECIFICATION Spec
CONSTANTS
  Handlers = {h1}
  Parent = "design"
  CanvasIds = {main, c1, c2}
  LegacyId = main
  Names = {Main, n1, n2, n3}
  LegacyName = Main
  Asked = {Main, n1}
  Graphs = {empty, g0, g1}
  EmptyGraph = empty
  LegacyGraph = g0
  MaxCanvases = 2
  MaxRequests = 4
  Faults = {}
SYMMETRY Symmetry
INVARIANTS
  TabsDistinct
  CountsCurrent
