\* Four connections on three descriptors, three requests, a queue of two.
SPECIFICATION Spec
CONSTANTS
  Workers = {w1, w2}
  Fds = {1, 2, 3}
  MaxConn = 4
  MaxReq = 3
  MaxOld = 1
  MaxClose = 2
  MaxLoad = 11
  MaxDown = 7
  QMax = 2
  Nobody = Nobody
INVARIANTS TypeOK RefsExact NoDangling FreshFd PillsAreLast WaitsAnswered
CHECK_DEADLOCK FALSE
SYMMETRY Symmetry
