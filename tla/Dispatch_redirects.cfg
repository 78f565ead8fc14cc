CONSTANTS
  Places <- NoPlaces
  Nodes <- NoNodes
  Starts <- AllStarts
  Configs <- MCConfigs
  DepthCap = 64
  MaxChanges = 0
SPECIFICATION FairSpec
INVARIANT NoCircles
PROPERTIES Lands
