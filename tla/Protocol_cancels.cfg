CONSTANTS
  g1 = g1
  g2 = g2
  NoGuest = NoGuest
  Priority <- MCPriority
  DedupKey <- MCNoDedupKey
  Limits = {0}
  TaskSilenceTimeout = 0
  SilenceTimeout = 0
  MaxAge = 2
  StoreFaults = FALSE
  GuestsUnregister = FALSE
  LatePending = FALSE
  Screens = FALSE
CHECK_DEADLOCK FALSE
SPECIFICATION PatientSpec
CONSTANTS Guest = {g1} MaxTasks = 1 Serves <- MCServesAll AssignTimeout=0 MaxFaults=1 Blips=TRUE Beats={} Cancels=TRUE NoPersona={}
PROPERTIES CancelsEnd
