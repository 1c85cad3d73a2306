\* Two locks contended at once.
SPECIFICATION Spec
CONSTANTS
  t1 = t1  t2 = t2  t3 = t3  t4 = t4
  c1 = c1  c2 = c2  c3 = c3
  Threads = {t1, t2, t3}
  Clients = {c1, c2}
  Locks = {l1, l2}
  Clt <- MixedClt
  PoolSize = 3
  NoClient = NoClient
  NoLock = NoLock
PROPERTIES WaiterProgress
CHECK_DEADLOCK FALSE
