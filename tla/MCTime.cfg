SPECIFICATION Spec
CONSTANTS
  p1 = p1
  p2 = p2
  p3 = p3
  s1 = s1
  s2 = s2
  primary = primary
  secondary = secondary
  Processes = {primary, secondary}
  Primary = primary
  Threads = {p1, p2, p3, s1, s2}
  ProcessOf <- MCProcessOf
  BootTime <- MCBootTime
  Setters = {p1}
  Timed = {p1, p2}
  Starters = {p3, s1, s2}
  ThreadSets = {{p1, p2}, {p3, s1, s2}}
  Factors <- MCFactors
  MAX_TRIES = 2
  Jumps <- MCJumps
  MaxTime = 4
INVARIANTS
  SystemTimePanics
  StartupAgreed
PROPERTIES
  InstantsNeverGoBack
CHECK_DEADLOCK FALSE
