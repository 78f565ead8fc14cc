CONSTANTS
  Conns = {c1}
  short = short
  empty = empty
  Contents = {v1, short, empty}
  Absent = Absent
  Spliced = Spliced
  Times = {0, 1}
  PinnedDate = 1
  MaxFaults = 1
  Size <- MCSize
  Configs <- DateConfigs
SPECIFICATION FairSpec
PROPERTIES Converges
