\* Calls of up to two arguments; clocks around a second; six calls reported up
\* to three times each.
SPECIFICATION AllSpec
CONSTANTS
  B = 4
  DEFAULT_RPC_SZ = 28
  MaxArgs = 2
  MaxXid = 6
  MaxReports = 3
  Vals <- ArgVals
  Headers <- ArgHeaders
  WrongSigs <- OtherSigs
  Rets <- HandlerRets
  Starts <- ClockStarts
  Timeouts <- ClockTimeouts
  Delays <- ClockDelays
INVARIANTS RoundTrip DeadlineKept WindowIsExact
CHECK_DEADLOCK FALSE
