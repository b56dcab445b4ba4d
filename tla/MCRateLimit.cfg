SPECIFICATION Spec
CONSTANTS
  Handler = {h1, h2}
  MaxAttempts = 2
  Window = 2
  MaxTime = 6
  Spares = TRUE
INVARIANTS  RefusalEarned
CHECK_DEADLOCK FALSE
