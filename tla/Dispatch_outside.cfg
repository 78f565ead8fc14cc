CONSTANTS
  Places <- MCPlaces
  Nodes <- MCNodes
  Starts <- MCStarts
  Configs <- SingleConfigs
  DepthCap = 64
  MaxChanges = 0
SPECIFICATION Spec
INVARIANTS NothingFromOutside
