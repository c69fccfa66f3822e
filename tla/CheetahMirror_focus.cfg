\* The subtask in focus may be dropped.
SPECIFICATION Spec
CONSTANTS
  Nodes = {1, 2, 3}
  Mission = 1
  Related <- MCRelated
  Foci = {2}
  Changing = {}
  Droppable = {2}
  MaxVersion = 1
  MaxFaults = 1
  MaxRestarts = 1
INVARIANTS StopsOnlyWhenMissing
CHECK_DEADLOCK FALSE
