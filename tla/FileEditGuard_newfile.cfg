\* A file that appears after the preview of a new file is replaced.
SPECIFICATION Spec
CONSTANTS
  Content = {t1, t2, t3}
  NoFile = NoFile
  Torn = Torn
  HasRollbackDir = TRUE
  MaxOps = 1
  MaxExternal = 1
  MaxFaults = 0
INVARIANTS NothingUnseenIsReplaced
CHECK_DEADLOCK FALSE
