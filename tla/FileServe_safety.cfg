CONSTANTS
  Conns = {c1}
  short = short
  empty = empty
  Contents = {v1, v2}
  Absent = Absent
  Spliced = Spliced
  Times = {0, 1, 2}
  PinnedDate = 1
  MaxFaults = 2
  v2 = v2
  Size <- MCSize
  Configs <- RuleConfigs
SPECIFICATION Spec
INVARIANTS TypeOK FreshAnswer NoSplice
