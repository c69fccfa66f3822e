\* The nodes of MCCheetahMirror, one of which is dropped, faults and a restart.
SPECIFICATION FairSpec
CONSTANTS
  Nodes = {1, 2, 3}
  Mission = 1
  Related <- MCRelated
  Foci = {2}
  Changing = {2, 3}
  Droppable = {3}
  MaxVersion = 2
  MaxFaults = 2
  MaxRestarts = 1
INVARIANTS TypeOK RecallSeesGraph OnlyFaultsFail
PROPERTIES JobShrinks MirrorRecovers
CHECK_DEADLOCK FALSE
