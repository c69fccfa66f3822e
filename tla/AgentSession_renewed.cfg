\* A file changed by a command, or found changed by the guard, is read again; a
\* search is repeated after a write.
SPECIFICATION Spec
CONSTANTS
  Path = {p}
  Content = {t1, t2}
  NoFile = NoFile
  Torn = Torn
  Workspace = Workspace
  Query = {q}
  HasValidator = FALSE
  NeedResearch = FALSE
  Kinds = {"read_file", "search_text", "write_file", "run_cmd"}
  Interrupts = {}
  MaxTurns = 2
  MaxActions = 3
  MaxOps = 0
  MaxSnippets = 0
  MaxResearch = 1
  MaxReforms = 0
  MaxContextOnly = 0
  MaxGraces = 1
  MaxExternal = 1
INVARIANTS EvidenceCanBeRenewed
CHECK_DEADLOCK FALSE
