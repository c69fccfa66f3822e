SPECIFICATION Spec
CONSTANTS
  Content = {t1, t2, t3}
  NoFile = NoFile
  Torn = Torn
  HasRollbackDir = TRUE
  MaxOps = 2
  MaxExternal = 2
  MaxFaults = 3
INVARIANTS
  TypeOK
  StatusIsTruthful
  FailedNeedsTwoFaults
  ReplacedIsRecoverable
  OnlyPreviewedIsReplaced
PROPERTIES
  EveryMutationEnds
  ImplementsGuardedUpdate
CHECK_DEADLOCK FALSE
