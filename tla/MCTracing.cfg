SPECIFICATION FairSpec
CONSTANTS
  t1 = t1
  t2 = t2
  t3 = t3
  proc1 = proc1
  proc2 = proc2
  Processes = {proc1, proc2}
  Threads = {t1, t2, t3}
  ProcessOf <- MCProcessOf
  Script <- MCScript
  MPSC_CHANNEL_BOUND = 1
  BufferBound = 1
  SocketBound = 1
  MESSAGE_CHANNEL_SIZE = 1
  Mortal = {proc2}
  DaemonMayEnd = TRUE
INVARIANTS
  SpanIdsUnique
  TraceWellFormed
PROPERTIES
  SendReturns
CHECK_DEADLOCK FALSE
