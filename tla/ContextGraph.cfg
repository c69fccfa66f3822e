\* Two uses of the graph: corrections, rules and evidence under both caps, with
\* pins; and subtasks opened, closed and returned to, with notes, edges and
\* reforms, under a cap of three nodes that evicts open subtasks.
SPECIFICATION Spec
CONSTANTS
  RetainedCap = 2
  MaxNodes = 3
  Profiles = {
    {"evidence", "correction", "rule", "issues", "retire", "decay", "pin", "unpin", "drop"},
    {"note", "expand", "collapse", "link", "reform", "open_subtask", "close_subtask",
     "focus"}}
  Ttl = {1}
  NoteLayer = {"scratch"}
  MaxId = 5
  MaxEdges = 1
  MaxTurn = 2
INVARIANTS TypeOK EdgesAttached StackIsPath RetainedIsBounded GraphIsBounded
PROPERTIES PinnedSurvives
CHECK_DEADLOCK FALSE
