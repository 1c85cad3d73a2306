\* bind and a call without deadlines, one connection failure.
SPECIFICATION PatientSpec
CONSTANTS
  Callers = {i1}
  Workers = {w1, w2}
  MaxXid = 2
  MaxConn = 2
  MaxRestarts = 0
PROPERTIES CallAnswered
CHECK_DEADLOCK FALSE
