SPECIFICATION FairSpec

CONSTANTS
  s1 = s1
  s2 = s2
  c1 = c1
  f1 = f1
  f2 = f2
  Servers = {s1, s2}
  Clients = {c1}
  Fds = {f1, f2}
  NoSocket = NoSocket
  MaxConnects = 2

INVARIANTS
  TypeOK
  OneTaskAtATime
  QuietAfterWait
  NotDeaf
PROPERTIES
  ConnectionsAccepted
  StopReturns
CHECK_DEADLOCK FALSE
