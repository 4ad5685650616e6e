SPECIFICATION Spec
CONSTANTS
  t1 = t1
  t2 = t2
  NoTask = NoTask
  g1 = g1
  NoGuest = NoGuest
  NoContent = NoContent
INVARIANTS OneExecution NoShutdownFailure OneSubprocess SuccessMeansSettled NoDirLeft GoneHoldsNothing LogsComplete LogsReadable HandedOutFifo OneFreshPerKey PartsFollowConfig LastSaveApplied
PROPERTIES DisconnectOnce
CHECK_DEADLOCK FALSE
