SPECIFICATION FairSpec
CONSTANTS
  primary = primary
  s1 = s1
  s2 = s2
  t1 = t1
  t2 = t2
  Agents = {primary, s1, s2}
  Primary = primary
  Activities = {1, 2, 3, 4, 5, 6}
  AgentOf <- MCAgentOf
  Topics = {t1, t2}
  Peers <- MCPeers
  SpecsOf <- MCSpecsOf
  MaxAdditional = 0
  MaxDeaths = 2
INVARIANTS
  RightsMatch
  ServiceOutlastsRequests
PROPERTIES
  ConnectedGetRunning
CHECK_DEADLOCK FALSE
