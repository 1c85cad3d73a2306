\* Two senders, a thread that may close, a peer that sends one PDU.
SPECIFICATION Spec
CONSTANTS
  Senders = {s1, s2}
  Closers = {c1}
  Size = 2
  MaxIn = 2
  Nobody = Nobody
INVARIANTS TypeOK FramesIntact TrueMeansSent DeletedIsUnreachable RemovedIsQuiet
PROPERTIES SendReturns EofNoticed
CHECK_DEADLOCK FALSE
