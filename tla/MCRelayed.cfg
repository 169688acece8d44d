SPECIFICATION FairSpec
CONSTANTS
  Activities = {11, 12, 13}
  Workers = {1, 2, 3}
  Agents = {100, 101}
  PrimaryAgent = 100
  WorkerOf <- MCWorkerOf
  AgentOf <- MCAgentOf
  MaxSignals = 2
  Faults = {"timeout", "crash", "kill"}
INVARIANTS
  ClockBeforeWork
PROPERTIES
  ImplementsPipe
  TerminateEndsAll
  OrphansEnd

CHECK_DEADLOCK FALSE
