------------------------------- MODULE Deadline -------------------------------
(***************************************************************************)
(* The clock of rpcc::call1: the final deadline, the waits whose length    *)
(* doubles, and the arithmetic on struct timespec under them, with the     *)
(* code's own units.  A timespec is [sec, nsec]; the call waits until its  *)
(* next deadline, and what it does between two waits takes any of Delays.  *)
(***************************************************************************)
EXTENDS Integers

CONSTANTS Starts,   \* instants at which a call starts
          Timeouts, \* to.to, in milliseconds
          Delays    \* nanoseconds that pass outside the waits

\* What a clock reads, long after the epoch; a timeout is not negative.
Second == 1000000000     \* in nanoseconds
Instants == [sec : Nat \ {0}, nsec : {n \in Nat : n < Second}]
ASSUME ClockAssumption == /\ Starts \subseteq Instants
                          /\ Timeouts \subseteq Nat
                          /\ Delays \subseteq Nat

VARIABLES at,            \* where the call is
          start, to,     \* its first reading of the clock, and its timeout
          now,           \* the clock
          nextdeadline, finaldeadline,
          curr_to        \* the length of the next wait

vars == <<at, start, to, now, nextdeadline, finaldeadline, curr_to>>

to_min == 1000
Zero == [sec |-> 0, nsec |-> 0]

cmp_timespec(a, b) ==
  CASE a.sec > b.sec -> 1
    [] a.sec < b.sec -> -1
    [] a.sec = b.sec /\ a.nsec > b.nsec -> 1
    [] a.sec = b.sec /\ a.nsec < b.nsec -> -1
    [] OTHER -> 0

\* Mutant of add_timespec: no carry into the seconds.
add_timespec_no_carry(a, b) ==
  [sec |-> a.sec + b \div 1000, nsec |-> (a.nsec + (b % 1000) * 1000000) % Second]

\* add_timespec: the loop turns at most once, for both summands are below a
\* second, and leaves a sum of exactly a second as it is.
add_timespec(a, b) ==
  LET nsec == a.nsec + (b % 1000) * 1000000
      sec == a.sec + b \div 1000
  IN  IF nsec > Second THEN [sec |-> sec + 1, nsec |-> nsec - Second]
      ELSE [sec |-> sec, nsec |-> nsec]

\* The system's clock moves on by d nanoseconds.
Later(a, d) == [sec |-> a.sec + (a.nsec + d) \div Second, nsec |-> (a.nsec + d) % Second]

Init == /\ at = "idle"
        /\ start = Zero /\ now = Zero /\ nextdeadline = Zero /\ finaldeadline = Zero
        /\ to = 0 /\ curr_to = 0

\* The call starts: the final deadline, and the first wait's length.
Start(s, t) ==
  /\ at = "idle"
  /\ at' = "transmit"
  /\ start' = s /\ now' = s /\ to' = t
  /\ finaldeadline' = add_timespec(s, t)
  /\ curr_to' = to_min
  /\ UNCHANGED nextdeadline

\* Behind the transmission: the loop ends when the final deadline has been
\* waited for, which a tv_sec of 0 says; else the next wait is set up.
Arm(d) ==
  /\ at = "transmit"
  /\ IF finaldeadline.sec = 0
     THEN at' = "over" /\ UNCHANGED <<now, nextdeadline, finaldeadline>>
     ELSE /\ at' = "wait"
          /\ now' = Later(now, d)
          /\ LET next == add_timespec(now', curr_to)
             IN  IF cmp_timespec(next, finaldeadline) > 0
                 THEN /\ nextdeadline' = finaldeadline
                      /\ finaldeadline' = [finaldeadline EXCEPT !.sec = 0]
                 ELSE nextdeadline' = next /\ UNCHANGED finaldeadline
  /\ UNCHANGED <<start, to, curr_to>>

\* pthread_cond_timedwait takes only nanoseconds below a second.
Valid(a) == a.nsec < Second

\* ETIMEDOUT, at the deadline or at once if it is past, and curr_to doubles.
TimedOut(d) ==
  /\ at = "wait" /\ Valid(nextdeadline)
  /\ at' = "transmit"
  /\ now' = LET due == IF cmp_timespec(now, nextdeadline) > 0 THEN now ELSE nextdeadline
            IN  Later(due, d)
  /\ curr_to' = 2 * curr_to
  /\ UNCHANGED <<start, to, nextdeadline, finaldeadline>>

\* The reply comes first: the loop ends.
Replied ==
  /\ at = "wait" /\ Valid(nextdeadline)
  /\ at' = "done"
  /\ UNCHANGED <<start, to, now, nextdeadline, finaldeadline, curr_to>>

\* EINVAL, which is not ETIMEDOUT: the loop asks again, with m held, for ever.
Refused ==
  /\ at = "wait" /\ ~Valid(nextdeadline)
  /\ at' = "spin"
  /\ UNCHANGED <<start, to, now, nextdeadline, finaldeadline, curr_to>>

Next == \/ \E s \in Starts, t \in Timeouts : Start(s, t)
        \/ \E d \in Delays : Arm(d) \/ TimedOut(d)
        \/ Replied \/ Refused

Spec == Init /\ [][Next]_vars

-------------------------------------------------------------------------------
(* Properties.                                                             *)

\* An instant in whole milliseconds and the nanoseconds beyond: addition of
\* milliseconds without carries, the reference for the arithmetic above.
Millis(a) == 1000 * a.sec + a.nsec \div 1000000
Rest(a) == a.nsec % 1000000
NotAfter(a, ms, ns) == Millis(a) < ms \/ (Millis(a) = ms /\ Rest(a) <= ns)

Due == Millis(start) + to

\* A call gives up at its timeout: never before, and by a wait that ends then;
\* no wait is longer than the timeout, so their number is logarithmic in it.
\* The wait is refused, and the call hangs, in one case only: the timeout is
\* not a whole number of seconds and ends exactly on one.
DeadlineKept ==
  /\ at = "wait" => /\ NotAfter(nextdeadline, Due, Rest(start))
                    /\ finaldeadline.sec # 0 => curr_to <= to
  /\ at = "over" => /\ Millis(nextdeadline) = Due /\ Rest(nextdeadline) = Rest(start)
                    /\ cmp_timespec(now, nextdeadline) >= 0
  /\ at = "spin" => /\ to % 1000 # 0
                    /\ Due % 1000 = 0 /\ Rest(start) = 0
===============================================================================
