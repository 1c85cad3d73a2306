\* Two senders, nobody closes.
SPECIFICATION Spec
CONSTANTS
  Senders = {s1, s2}
  Closers = {}
  Size = 2
  MaxIn = 0
  Nobody = Nobody
INVARIANTS WriteCbAlive
CHECK_DEADLOCK FALSE
SYMMETRY Symmetry
