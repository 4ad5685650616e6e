SPECIFICATION ProtocolSpec
CONSTANTS
  g1 = g1
  g2 = g2
  NoGuest = NoGuest
  Guest = {g1, g2}
  MaxTasks = 2
  Priority <- MCPriority
  DedupKey <- MCNoDedupKey
  Serves <- MCServes
  Limits = {0, 1}
  AssignTimeout = 0
  TaskSilenceTimeout = 0
  SilenceTimeout = 0
  MaxAge = 2
  StoreFaults = FALSE
  GuestsUnregister = FALSE
  MaxFaults = 0
  Blips = FALSE
  LatePending = FALSE
  Beats = {}
  Cancels = FALSE
  NoPersona = {}
  Screens = FALSE
INVARIANTS ExecutesOwnTask OneTaskPerGuest
CHECK_DEADLOCK FALSE
