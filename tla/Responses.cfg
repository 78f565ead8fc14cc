SPECIFICATION Spec
CONSTANTS
  MaxInt = 6
  Threshold = 2
  Names = {1, 2, 3}
  Unlisted = {3}
  Configs <- MCConfigs
  Requests <- MCRequests
  Disks <- MCDisks
  Sizes <- MCSizes
  PageSize = 2
  MaxChanges = 2
INVARIANTS
  TypeOK
  ListingFaithful
  SingleWasAlone
  RulesPerBranch
  CorsAlways
  SelfDescribed
  CacheSafe
  RangeHonoured
  AnswersForCause
