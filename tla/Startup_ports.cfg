CONSTANTS
  Procs = {p1, p2}
  Conns = {c1}
  AnyPort = AnyPort
  BadHost = BadHost
  Nobody = Nobody
  Other = Other
  p1 = p1
  p2 = p2
  low = low
  a = a
  b = b
  Ports <- TwoPorts
  Ephemeral <- BothFree
  Privileged <- LowPriv
  Cli <- TwoLines
  Disks <- NoDisk
  Editable <- Nothing
  MaxChanges = 1
SPECIFICATION FairSpec
INVARIANTS AllOrNothing SwitchedForCause
PROPERTIES Settles Handled
