\* Three callers racing for up to five ids; they may stop asking (no deadlock check).
SPECIFICATION FairIdSpec
CONSTANTS
  Callers = {p1, p2, p3}
  MaxId = 3
PROPERTIES DispensesFreshIds SomeGetReturns
CHECK_DEADLOCK FALSE
