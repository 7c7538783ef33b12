SPECIFICATION Spec
CONSTANTS
  Quotes = {"EUR"}
  Window = 2
  Cap = 5
  MaxAttempts = 1
  BadDays <- FarDays
  None = None
  MaxDay = 4
  MaxPayments = 2
INVARIANTS
  TypeOK
PROPERTIES
  BuildsFromWhatWasPublished
  RatesSettle
  OnlyFarDatesStopRuns
CHECK_DEADLOCK FALSE
