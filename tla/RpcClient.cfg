\* Three calls after bind by two threads, and a thread that cancels.
SPECIFICATION Spec
CONSTANTS
  Callers = {i1, i2}
  MaxXid = 4
INVARIANTS TypeOK NeverForgotten AckedIsOver DupIsForgotten CancelledIsOver
PROPERTIES CallReturns CancelReturns
CHECK_DEADLOCK FALSE
