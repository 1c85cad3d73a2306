\* One lock in use, four threads, a pool thread for each.
SPECIFICATION Spec
CONSTANTS
  t1 = t1  t2 = t2  t3 = t3  t4 = t4
  c1 = c1  c2 = c2  c3 = c3
  Threads = {t1, t2, t3, t4}
  Clients = {c1, c2, c3}
  Locks = {l1}
  Clt <- MixedClt4
  PoolSize = 4
  NoClient = NoClient
  NoLock = NoLock
INVARIANTS TypeOK OwnerInv MutualExclusion HeldReleaseOK NoLostWakeup
PROPERTIES WaiterProgress ReleaseServed ImplementsAbstractLock
