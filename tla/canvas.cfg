CONSTANTS
  b1 = b1
  b2 = b2
  b3 = b3
  b4 = b4
  Resources <- MCResources
  Ids <- MCIds
  Configurations <- MCConfigurations
  Opened <- MCOpened
  MaxBindings = 3
SPECIFICATION Spec
INVARIANTS CanvasShowsBindings EveryEdgeIsABinding
PROPERTIES DoubleClickRemovesOne DoubleClickRemovesConnection
