\* bind and two calls by one thread, a reconnection, a server restart.
SPECIFICATION Spec
CONSTANTS
  Callers = {i1}
  Workers = {w1, w2}
  MaxXid = 3
  MaxConn = 2
  MaxRestarts = 1
INVARIANTS TypeOK AtMostOnce SuccessIsGenuine
PROPERTIES ImplementsRpcServer
CHECK_DEADLOCK FALSE
SYMMETRY Symmetry
