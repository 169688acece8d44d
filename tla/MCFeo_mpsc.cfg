SPECIFICATION FairSpec
CONSTANTS
  w1 = w1
  w2 = w2
  Activities = {1, 2, 3}
  Workers = {w1, w2}
  Agents = {100}
  PrimaryAgent = 100
  WorkerOf <- MCWorkerOf
  AgentOf <- MCLocal
  Depends <- MCFork
  Transport = "mpsc"
  ChannelBound = 7
  Faults = {"activity", "timeout"}
INVARIANTS
  SendsNeverBlock
PROPERTIES
  ShutdownCompletes
