CONSTANTS
  Conns = {c1}
  short = short
  empty = empty
  Contents = {v1, v2}
  Absent = Absent
  Spliced = Spliced
  Times = {0, 1}
  PinnedDate = 1
  MaxFaults = 0
  Size <- MCSize
  Configs <- SingleDateConfigs
SPECIFICATION Spec
INVARIANTS FreshAnswer
