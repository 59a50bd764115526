\* Three pieces of any shape, read at any time, the calls failing or not.
CONSTANTS
  m1 = m1
  m2 = m2
  ip1 = ip1
  ip2 = ip2
  Macs = {m1, m2}
  Ips = {ip1, ip2}
  NoIp = NoIp
  Bad = Bad
  Never = Never
  NoLease = NoLease
  Pieces <- AllPieces
  Active = TRUE
  MaxPieces = 3
  MaxTime = 2
SPECIFICATION FairSpec
INVARIANTS
  TypeOK
  NothingLostInQueue
  LookupIsCurrent
PROPERTIES
  TakesUpLiveLeases
  KeepsBook
  CatchesUp
\* The clock and the file stop, and the poller may be cleaned up.
CHECK_DEADLOCK FALSE
