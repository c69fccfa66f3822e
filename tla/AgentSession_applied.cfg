\* A rejected or failed edit, proposed again, is said to be applied.
SPECIFICATION Spec
CONSTANTS
  Path = {p}
  Content = {t1}
  NoFile = NoFile
  Torn = Torn
  Workspace = Workspace
  Query = {q}
  HasValidator = FALSE
  NeedResearch = FALSE
  Kinds = {"write_file"}
  Interrupts = {}
  MaxTurns = 2
  MaxActions = 2
  MaxOps = 0
  MaxSnippets = 0
  MaxResearch = 1
  MaxReforms = 0
  MaxContextOnly = 0
  MaxGraces = 1
  MaxExternal = 0
INVARIANTS AppliedMeansApplied
CHECK_DEADLOCK FALSE
