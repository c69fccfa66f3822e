\* Four calls, with and without a schema and in isolation, over both transports.
SPECIFICATION FairSpec
CONSTANTS
  HasRest = TRUE
  MaxSchemaRetries = 1
  MaxHangRetries = 1
  Schemas = {"none", "known", "missing"}
  MaxCalls = 4
INVARIANTS TypeOK HistoryIsConversation HangTurns DisabledStaysOff
PROPERTIES ImplementsConversation CallShrinks CallEnds
CHECK_DEADLOCK FALSE
