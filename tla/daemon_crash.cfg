SPECIFICATION CrashSpec
CONSTANTS
  Daemons = {d1, d2}
  Clients = {c1, c2}
  Inodes = {i1}
  RetryLimit = 4
  NoFile = NoFile
  Nobody = Nobody
  Gone = Gone
INVARIANTS LockInv OneInstance RunningIsReachable
PROPERTY StartupConnects
