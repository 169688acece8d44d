SPECIFICATION FairSpec
CONSTANTS
  w1 = w1
  w2 = w2
  Activities = {1, 2, 3}
  Workers = {w1, w2}
  Agents = {100, 101}
  PrimaryAgent = 100
  WorkerOf <- MCWorkerOf
  AgentOf <- MCRemote
  Depends <- MCFork
  Transport = "sockets"
  ChannelBound = 128
  Faults = {"kill", "timeout"}
PROPERTIES
  JoinCompletes
