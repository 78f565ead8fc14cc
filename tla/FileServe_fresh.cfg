CONSTANTS
  Conns = {c1, c2}
  short = short
  empty = empty
  Contents = {v1, v2}
  Absent = Absent
  Spliced = Spliced
  Times = {1}
  PinnedDate = 1
  MaxFaults = 1
  Size <- MCSize
  Configs <- TagConfigs
SPECIFICATION Spec
PROPERTIES FreshReads
