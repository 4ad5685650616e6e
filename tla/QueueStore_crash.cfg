SPECIFICATION Spec
CONSTANTS
  t1 = t1
  t2 = t2
  Task <- MCTask
  NoTask = NoTask
  Faults = FALSE
SYMMETRY Symmetry
INVARIANTS AcceptedTasksSurvive AnnouncedTasksStayEnded DirectoriesMirrorTable
PROPERTIES KeepsDurableStore
