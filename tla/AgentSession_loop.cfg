\* The loop: three turns of one action, with a validator, required research,
\* commands, reforms, one change by the operator and corrections.
SPECIFICATION Spec
CONSTANTS
  Path = {p}
  Content = {t1}
  NoFile = NoFile
  Torn = Torn
  Workspace = Workspace
  Query = {q}
  HasValidator = TRUE
  NeedResearch = TRUE
  Kinds = {"write_file", "edit_file", "run_cmd", "web_research", "refused", "truncated",
           "knowledge_lookup"}
  Interrupts = {}
  MaxTurns = 3
  MaxActions = 1
  MaxOps = 0
  MaxSnippets = 0
  MaxResearch = 1
  MaxReforms = 1
  MaxContextOnly = 0
  MaxGraces = 1
  MaxExternal = 1
INVARIANTS CompletedIsValidated StallsAreBounded
PROPERTIES SessionEnds
CHECK_DEADLOCK FALSE
