CONSTANTS
  Procs = {p1}
  Conns = {}
  AnyPort = AnyPort
  BadHost = BadHost
  Nobody = Nobody
  Other = Other
  p1 = p1
  p2 = p2
  low = low
  a = a
  b = b
  Ports <- OnePort
  Ephemeral <- OnePort
  Privileged <- NonePriv
  Cli <- OneLine
  Disks <- MCDisks
  Editable <- Anything
  MaxChanges = 3
SPECIFICATION Spec
INVARIANTS TypeOK ConfigPriority
