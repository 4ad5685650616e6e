SPECIFICATION FairSpec
CONSTANTS
  g1 = g1
  g2 = g2
  NoGuest = NoGuest
  Guest = {g1}
  MaxTasks = 2
  Priority <- MCPriority
  DedupKey <- MCNoDedupKey
  Serves <- MCServesAll
  Limits = {0}
  AssignTimeout = 1
  TaskSilenceTimeout = 1
  SilenceTimeout = 1
  MaxAge = 2
  StoreFaults = TRUE
  GuestsUnregister = FALSE
PROPERTIES LostAssignmentsReturn
