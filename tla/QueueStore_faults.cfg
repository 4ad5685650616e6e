SPECIFICATION Spec
CONSTANTS
  t1 = t1
  t2 = t2
  Task <- MCTask
  NoTask = NoTask
  Faults = TRUE
SYMMETRY Symmetry
PROPERTIES OnlyEndedTasksVanish
