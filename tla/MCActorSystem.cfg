SPECIFICATION FairSpec
CONSTANTS
  front = front  back = back  m1 = m1  m2 = m2  m3 = m3  m4 = m4  m5 = m5
  Actor = {front, back}
  Message = {m1, m2, m3, m4, m5}
  Target <- PingTarget
  Replies <- PingReplies
  Client = {client}
  Worker = {worker1, worker2}
  MailboxCap = 2
INVARIANTS NoLostWakeup WaitAllSound
PROPERTIES EveryMessageHandled WaitReturns
CHECK_DEADLOCK FALSE
