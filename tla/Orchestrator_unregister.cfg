SPECIFICATION Spec
CONSTANTS
  g1 = g1
  g2 = g2
  NoGuest = NoGuest
  Guest = {g1, g2}
  MaxTasks = 2
  Priority <- MCPriority
  DedupKey <- MCDedupKey
  Serves <- MCServes
  Limits = {0, 1}
  AssignTimeout = 1
  TaskSilenceTimeout = 0
  SilenceTimeout = 1
  MaxAge = 2
  StoreFaults = FALSE
  GuestsUnregister = TRUE
INVARIANTS Consistent StoreMirrorsTable
