SPECIFICATION Spec
CONSTANTS
  Configs <- MCConfigs
  Requests <- MCRequests
  Roots <- MCRoots
  DepthCap = 2
INVARIANTS
  TypeOK
  SegmentsAsMinimatch
  HeadersWithinRoutes
  ScopesAsHeaders
  NeverAboveRoot
  SkippingCostsNothing
  ChainsComplete
  DestinationsFilled
