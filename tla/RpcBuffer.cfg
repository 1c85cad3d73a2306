\* bind and two calls, one reconnection.
SPECIFICATION Spec
CONSTANTS
  Callers = {i1, i2}
  Workers = {w1, w2}
  MaxXid = 3
  MaxConn = 2
  MaxRestarts = 0
INVARIANTS BufferLive
CHECK_DEADLOCK FALSE
