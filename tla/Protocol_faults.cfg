SPECIFICATION FairProtocolSpec
CONSTANTS
  g1 = g1
  g2 = g2
  NoGuest = NoGuest
  Guest = {g1}
  MaxTasks = 1
  Priority <- MCPriority
  DedupKey <- MCNoDedupKey
  Serves <- MCServesAll
  Limits = {0}
  AssignTimeout = 1
  TaskSilenceTimeout = 0
  SilenceTimeout = 0
  MaxAge = 2
  StoreFaults = FALSE
  GuestsUnregister = FALSE
  MaxFaults = 1
  Blips = FALSE
  LatePending = FALSE
  Beats = {"running"}
  Cancels = FALSE
  NoPersona = {}
  Screens = FALSE
INVARIANTS RunningNotLost
PROPERTIES TasksEnd
CHECK_DEADLOCK FALSE
