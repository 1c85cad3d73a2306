\* The pool as rpcs builds it, and one more thread.
SPECIFICATION Spec
CONSTANTS
  t1 = t1  t2 = t2  t3 = t3  t4 = t4
  c1 = c1  c2 = c2  c3 = c3
  Threads = {t1, t2, t3, t4, t5, t6, t7}
  Clients = {c1}
  Locks = {l1}
  Clt <- SharedClt
  PoolSize = 6
  NoClient = NoClient
  NoLock = NoLock
INVARIANTS PoolNotExhausted
SYMMETRY ThreadSymmetry
