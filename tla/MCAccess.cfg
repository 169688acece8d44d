CONSTANTS
  g1 = g1
  g2 = g2
  g3 = g3
  g4 = g4
  Guards <- MCGuards
  U16Max = 3
SPECIFICATION Spec
SYMMETRY GuardSymmetry
INVARIANT LockInv
INVARIANT UnlockNeverFails
PROPERTY ReadsStable
PROPERTY UnsentStaysLocked
CHECK_DEADLOCK FALSE
