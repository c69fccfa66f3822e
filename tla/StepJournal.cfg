\* Two runs, either of which may be the pruner, and two sessions.
SPECIFICATION Spec
CONSTANTS
  Runs = {r1, r2}
  Sessions = {s1, s2}
  None = None
  IndexCap = 2
  Keep = 1
  MaxSteps = 2
  MaxAppends = 3
  MaxCrashes = 1
SYMMETRY JournalSymmetry
INVARIANTS TypeOK AckedStepsKept CountedAreWritten IndexNeverLeads
