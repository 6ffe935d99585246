SPECIFICATION FairSpec
CONSTANTS
  k1 = k1  k2 = k2
  Task = {k1, k2}
  Worker = {highCore, worker}
  HighCore = highCore
  Client = {client1, client2}
  QueueCap = 2
  Priority <- MCPriority
  Children <- MCChildren
INVARIANTS WaitAllSound StopDrains IInv
PROPERTIES EveryTaskRuns WaitersReturn
CHECK_DEADLOCK FALSE
