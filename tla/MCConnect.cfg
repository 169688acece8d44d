SPECIFICATION FairSpec
CONSTANTS
  w1 = w1
  w2 = w2
  Workers = {w1, w2}
  Activities = {1, 2, 3}
  ActivitiesOf <- MCActivitiesOf
  MaxConnections = 3
  MaxSends = 1
  Deaths = TRUE
INVARIANTS
  RoutedToHost
PROPERTIES
  NoFalseSilence
  ConnectCompletes
CHECK_DEADLOCK FALSE
