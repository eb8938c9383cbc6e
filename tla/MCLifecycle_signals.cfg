CONSTANTS
  Reviews = {r1, r2, r3}
  TelemetryAddress = TRUE
SPECIFICATION FairSpec
INVARIANTS TypeOK KilledBeforeServing GracefulShutdown
PROPERTIES SignalEnds
CHECK_DEADLOCK FALSE
