SPECIFICATION FairSpec
CONSTANTS
  t1 = t1
  t2 = t2
  NoTask = NoTask
PROPERTIES CallsReturn KeepsContract SocketsReportOwnLoss LossNoticed QueuedServed ExecutionsEnd LossesHandled
CHECK_DEADLOCK FALSE
