SPECIFICATION ShutdownSpec
CONSTANTS
  Daemons = {d1, d2, d3}
  Clients = {c1}
  Inodes = {i1, i2, i3}
  RetryLimit = 4
  NoFile = NoFile
  Nobody = Nobody
  Gone = Gone
SYMMETRY Symmetry
INVARIANT OneInstance
