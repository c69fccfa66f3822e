\* The files and the evidence of them: one file, two turns of two actions, with
\* snippets, pinned files, context operations, cancel and deadline.
SPECIFICATION Spec
CONSTANTS
  Path = {p}
  Content = {t1, t2}
  NoFile = NoFile
  Torn = Torn
  Workspace = Workspace
  Query = {q}
  HasValidator = FALSE
  NeedResearch = FALSE
  Kinds = {"read_file", "write_file", "snippet", "context_op"}
  Interrupts = {"cancel", "deadline"}
  MaxTurns = 2
  MaxActions = 2
  MaxOps = 1
  MaxSnippets = 1
  MaxResearch = 1
  MaxReforms = 0
  MaxContextOnly = 1
  MaxGraces = 1
  MaxExternal = 0
INVARIANTS TypeOK EvidenceIsCurrent
PROPERTIES SessionShrinks
SYMMETRY Texts
CHECK_DEADLOCK FALSE
