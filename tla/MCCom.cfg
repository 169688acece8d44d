SPECIFICATION Spec
CONSTANTS
  w = w
  r1 = r1
  r2 = r2
  r3 = r3
  p1 = p1
  p2 = p2
  Backends = {"LinuxShm", "Iox2", "MwCom"}
  Writer = w
  Readers = {r1, r2, r3}
  Before = {r1}
  ProcessOf <- MCProcessOf
  MaxCycles = 3
INVARIANTS
  ReadsLatestSent
  EmptyOnlyIfSeen
  NoAccessConflict
CHECK_DEADLOCK FALSE
