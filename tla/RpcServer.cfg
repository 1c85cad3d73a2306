\* Four calls of a client, in any order and number of copies, on three threads.
SPECIFICATION Spec
CONSTANTS
  Clts = {c1}
  Workers = {w1, w2, w3}
  MaxXid = 4
INVARIANTS TypeOK AtMostOnce WindowSorted CachedUntilAcked
PROPERTIES BoundMonotone
