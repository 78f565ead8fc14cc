CONSTANTS
  Places <- MCPlaces
  Nodes <- MCNodes
  Starts <- MCStarts
  Configs <- MCConfigs
  DepthCap = 64
  MaxChanges = 2
SPECIFICATION Spec
INVARIANTS TypeOK StableAnswer AdditionsNeverHide PriorityRespected
