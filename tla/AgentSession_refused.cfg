\* The report of an edit that did not succeed outlives the write that does.
SPECIFICATION Spec
CONSTANTS
  Path = {p}
  Content = {t1, t2}
  NoFile = NoFile
  Torn = Torn
  Workspace = Workspace
  Query = {q}
  HasValidator = FALSE
  NeedResearch = FALSE
  Kinds = {"read_file", "write_file"}
  Interrupts = {}
  MaxTurns = 2
  MaxActions = 2
  MaxOps = 0
  MaxSnippets = 0
  MaxResearch = 1
  MaxReforms = 0
  MaxContextOnly = 0
  MaxGraces = 1
  MaxExternal = 0
INVARIANTS SupersededIsRetired
CHECK_DEADLOCK FALSE
