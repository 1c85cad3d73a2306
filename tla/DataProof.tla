------------------------------ MODULE DataProof ------------------------------
(***************************************************************************)
(* The sequential parts of a call, for inputs of any size: a call gives up *)
(* at its timeout (Deadline), the client's acknowledgement is exact        *)
(* (XidRepList), what is marshalled is what is unmarshalled (CallData).    *)
(***************************************************************************)
EXTENDS CallData, Deadline, XidRepList, ReplyWindowProof, FiniteSetTheorems

-------------------------------------------------------------------------------
(* Deadline: the arithmetic on struct timespec agrees with the addition of *)
(* milliseconds without carries, and the loop of rpcc::call1 keeps its     *)
(* final deadline until it has waited for it.                              *)

\* What add_timespec can return: a sum may end on a whole second's nanoseconds.
Sums == [sec : Nat \ {0}, nsec : {n \in Nat : n <= Second}]

\* Whole milliseconds do not touch the nanoseconds beyond them.
LEMMA MillisOfSum ==
  ASSUME NEW n \in Nat, NEW k \in Nat
  PROVE  /\ (n + k * 1000000) \div 1000000 = (n \div 1000000) + k
         /\ (n + k * 1000000) % 1000000 = n % 1000000
  BY SMT

\* Division by the milliseconds of a second.
LEMMA Thousands ==
  ASSUME NEW b \in Nat
  PROVE  /\ b = 1000 * (b \div 1000) + (b % 1000)
         /\ b \div 1000 \in Nat /\ b % 1000 \in 0..999
  BY SMT

\* The order of nanoseconds is that of their milliseconds, then of the rest.
LEMMA MillisOrder ==
  ASSUME NEW a \in Nat, NEW b \in Nat, a <= b
  PROVE  \/ a \div 1000000 < b \div 1000000
         \/ a \div 1000000 = b \div 1000000 /\ a % 1000000 <= b % 1000000
  BY SMT

\* A part of a second has fewer than 1000 milliseconds, a second just 1000.
LEMMA MillisRange ==
  ASSUME NEW a \in Nat, a <= 1000000000
  PROVE  /\ (a \div 1000000) \in Nat /\ (a \div 1000000) <= 1000 /\ (a % 1000000) \in Nat /\ (a % 1000000) < 1000000
         /\ a = 1000000000 => a \div 1000000 = 1000 /\ a % 1000000 = 0
         /\ a \div 1000000 = 1000 => a = 1000000000
  BY SMT

\* add_timespec is addition of milliseconds, and returns a whole second's
\* nanoseconds only if the sum ends on one.
LEMMA AddTimespec ==
  ASSUME NEW a \in Instants, NEW b \in Nat
  PROVE  /\ add_timespec(a, b) \in Sums
         /\ Millis(add_timespec(a, b)) = Millis(a) + b
         /\ Rest(add_timespec(a, b)) = Rest(a)
         /\ b % 1000 = 0 => Valid(add_timespec(a, b))
         /\ ~Valid(add_timespec(a, b)) =>
              b % 1000 # 0 /\ (Millis(a) + b) % 1000 = 0 /\ Rest(a) = 0
<1> DEFINE k == b % 1000
           n == a.nsec + k * 1000000
           s == a.sec + b \div 1000
<1>1. /\ a.sec \in Nat /\ a.sec > 0 /\ a.nsec \in Nat /\ a.nsec < 1000000000
  BY SMT DEF Instants, Second
<1>2. b = 1000 * (b \div 1000) + k /\ b \div 1000 \in Nat /\ k \in 0..999
  BY SMT, Thousands
<1>3. n \div 1000000 = (a.nsec \div 1000000) + k /\ n % 1000000 = a.nsec % 1000000
  BY SMT, <1>1, <1>2, MillisOfSum
<1>4. n \in Nat /\ s \in Nat /\ s > 0 /\ n < 2000000000
  BY SMT, <1>1, <1>2
<1>5. (a.nsec \div 1000000) \in Nat /\ (a.nsec \div 1000000) <= 1000 /\ (a.nsec % 1000000) \in Nat /\ (a.nsec % 1000000) < 1000000
  BY SMT, <1>1, MillisRange
<1>6. CASE n > Second
  <2>1. add_timespec(a, b) = [sec |-> s + 1, nsec |-> n - 1000000000]
    BY SMT, <1>6 DEF add_timespec, Second
  <2>2. n - 1000000000 \in Nat /\ n - 1000000000 < 1000000000
    BY SMT, <1>4, <1>6 DEF Second
  <2>3. /\ (n - 1000000000) \div 1000000 = n \div 1000000 - 1000
        /\ (n - 1000000000) % 1000000 = n % 1000000
    <3> DEFINE over == n - 1000000000
    <3>1. over \in Nat
      BY SMT, <2>2
    <3>2. n = over + 1000 * 1000000
      BY SMT, <1>4
    <3>3. (over + 1000 * 1000000) \div 1000000 = (over \div 1000000) + 1000
          /\ (over + 1000 * 1000000) % 1000000 = over % 1000000
      BY SMT, <3>1, MillisOfSum
    <3>4. over \div 1000000 \in Nat
      BY SMT, <3>1
    <3> HIDE DEF over, n
    <3>5. n \div 1000000 = (over \div 1000000) + 1000 /\ n % 1000000 = over % 1000000
      BY SMT, <3>2, <3>3
    <3> QED BY SMT, <3>4, <3>5 DEF over
  <2>4. k # 0
    BY SMT, <1>1, <1>6 DEF Second
  <2>5. add_timespec(a, b) \in Sums /\ Valid(add_timespec(a, b))
    BY SMT, <2>1, <2>2, <1>4 DEF Sums, Valid, Second
  <2>6. Rest(add_timespec(a, b)) = Rest(a)
    BY SMT, <2>1, <2>3, <1>3 DEF Rest
  <2>7. Millis(add_timespec(a, b)) = 1000 * (s + 1) + (n \div 1000000 - 1000)
    BY SMT, <2>1, <2>3 DEF Millis
  <2>8. Millis(add_timespec(a, b)) = Millis(a) + b
    <3> DEFINE q == a.nsec \div 1000000
               secs == b \div 1000
    <3>1. Millis(add_timespec(a, b)) = 1000 * (a.sec + secs + 1) + (q + k - 1000)
      BY SMT, <2>7, <1>1, <1>2, <1>3, <1>5
    <3>2. q \in Nat /\ secs \in Nat /\ k \in Nat /\ b = 1000 * secs + k
      BY SMT, <1>2, <1>5
    <3>3. Millis(a) = 1000 * a.sec + q
      BY SMT DEF Millis
    <3> HIDE DEF q, secs, k
    <3> QED BY SMT, <3>1, <3>2, <3>3, <1>1
  <2> QED BY SMT, <2>4, <2>5, <2>6, <2>8
<1>7. CASE ~(n > Second)
  <2>1. add_timespec(a, b) = [sec |-> s, nsec |-> n]
    BY SMT, <1>7 DEF add_timespec
  <2>2. n \in Nat /\ n <= 1000000000
    BY SMT, <1>4, <1>7 DEF Second
  <2>3. add_timespec(a, b) \in Sums
    BY SMT, <2>1, <2>2, <1>4 DEF Sums, Second
  <2>4. Rest(add_timespec(a, b)) = Rest(a)
    BY SMT, <2>1, <1>3 DEF Rest
  <2> DEFINE q == a.nsec \div 1000000
             secs == b \div 1000
  <2>5. q \in Nat /\ secs \in Nat /\ k \in Nat /\ b = 1000 * secs + k
    BY SMT, <1>2, <1>5
  <2>6. Millis(a) = 1000 * a.sec + q
    BY SMT DEF Millis
  <2>7. Millis(add_timespec(a, b)) = 1000 * (a.sec + secs) + (q + k)
    BY SMT, <2>1, <1>3 DEF Millis
  <2>8. Millis(add_timespec(a, b)) = Millis(a) + b
    <3> HIDE DEF q, secs, k
    <3> QED BY SMT, <2>5, <2>6, <2>7, <1>1
  <2>9. ASSUME ~Valid(add_timespec(a, b))
        PROVE  b % 1000 # 0 /\ (Millis(a) + b) % 1000 = 0 /\ Rest(a) = 0
    <3>1. n = 1000000000
      BY SMT, <2>1, <2>2, <2>9 DEF Valid, Second
    <3>2. n \div 1000000 = 1000 /\ n % 1000000 = 0
      BY SMT, <3>1
    <3>3. k # 0
      BY SMT, <3>1, <1>1
    <3>4. Rest(a) = 0
      BY SMT, <3>2, <1>3 DEF Rest
    <3>5. q + k = 1000
      BY SMT, <3>2, <1>3
    <3>6. Millis(a) + b = 1000 * (a.sec + secs + 1)
      <4> HIDE DEF q, secs, k
      <4> QED BY SMT, <3>5, <2>5, <2>6, <1>1
    <3>7. (1000 * (a.sec + secs + 1)) % 1000 = 0
      <4> HIDE DEF secs
      <4> QED BY SMT, <2>5, <1>1
    <3> QED BY SMT, <3>3, <3>4, <3>6, <3>7
  <2>10. ASSUME k = 0 PROVE Valid(add_timespec(a, b))
    BY SMT, <2>10, <2>1, <1>1 DEF Valid, Second
  <2> QED BY SMT, <2>3, <2>4, <2>8, <2>9, <2>10
<1> QED BY SMT, <1>6, <1>7

\* cmp_timespec is the order of the instants.
LEMMA CmpTimespec ==
  ASSUME NEW a \in Sums, NEW b \in Sums, ~(cmp_timespec(a, b) > 0)
  PROVE  NotAfter(a, Millis(b), Rest(b))
<1>1. /\ a.sec \in Nat /\ a.nsec \in Nat /\ a.nsec <= 1000000000
      /\ b.sec \in Nat /\ b.nsec \in Nat /\ b.nsec <= 1000000000
  BY SMT DEF Sums, Second
<1>2. a.sec < b.sec \/ (a.sec = b.sec /\ a.nsec <= b.nsec)
  BY SMT, <1>1 DEF cmp_timespec
<1> DEFINE p == a.nsec \div 1000000
           q == b.nsec \div 1000000
<1>3. /\ (p) \in Nat /\ (p) <= 1000 /\ (a.nsec % 1000000) \in Nat /\ (a.nsec % 1000000) < 1000000
      /\ p = 1000 => a.nsec % 1000000 = 0
  BY SMT, <1>1, MillisRange
<1>4. (q) \in Nat /\ (q) <= 1000 /\ (b.nsec % 1000000) \in Nat /\ (b.nsec % 1000000) < 1000000
  BY SMT, <1>1, MillisRange
<1>5. Millis(a) = 1000 * a.sec + p /\ Millis(b) = 1000 * b.sec + q
  BY SMT DEF Millis
<1>6. Rest(a) = a.nsec % 1000000 /\ Rest(b) = b.nsec % 1000000
  BY SMT DEF Rest
<1>7. CASE a.sec < b.sec
  <2> HIDE DEF p, q
  <2> QED BY SMT, <1>1, <1>3, <1>4, <1>5, <1>6, <1>7 DEF NotAfter
<1>8. CASE a.sec = b.sec /\ a.nsec <= b.nsec
  <2>1. p < q \/ (p = q /\ a.nsec % 1000000 <= b.nsec % 1000000)
    BY SMT, <1>1, <1>8, MillisOrder
  <2> HIDE DEF p, q
  <2> QED BY SMT, <1>1, <1>3, <1>4, <1>5, <1>6, <1>8, <2>1 DEF NotAfter
<1> QED BY SMT, <1>2, <1>7, <1>8

\* The clock's next reading is an instant, and not an earlier one.
LEMMA LaterIsLater ==
  ASSUME NEW a \in Instants, NEW d \in Nat
  PROVE  /\ Later(a, d) \in Instants
         /\ cmp_timespec(Later(a, d), a) >= 0
         /\ ~(cmp_timespec(a, Later(a, d)) > 0)
<1>1. /\ a = [sec |-> a.sec, nsec |-> a.nsec]
      /\ a.sec \in Nat \ {0} /\ a.nsec \in Nat /\ a.nsec < 1000000000
  BY SMT DEF Instants, Second
<1> DEFINE n == a.nsec + d
           q == n \div 1000000000
           left == n % 1000000000
<1>2. q \in Nat /\ left \in Nat /\ left < 1000000000 /\ n = 1000000000 * q + left
  <2>1. n \in Nat
    BY SMT, <1>1
  <2> HIDE DEF n
  <2> QED BY SMT, <2>1
<1>3. Later(a, d) = [sec |-> a.sec + q, nsec |-> left]
  BY SMT DEF Later, Second
<1>4. q > 0 \/ (q = 0 /\ left >= a.nsec)
  <2> HIDE DEF q, left
  <2> QED BY SMT, <1>1, <1>2
<1> HIDE DEF n, q, left
<1>5. Later(a, d) \in Instants
  BY SMT, <1>1, <1>2, <1>3 DEF Instants, Second
<1> QED BY SMT, <1>1, <1>2, <1>3, <1>4, <1>5 DEF cmp_timespec

\* cmp_timespec is transitive.
LEMMA CmpTransitive ==
  ASSUME NEW a \in Sums, NEW b \in Sums, NEW c \in Sums,
         cmp_timespec(a, b) >= 0, cmp_timespec(b, c) >= 0
  PROVE  cmp_timespec(a, c) >= 0
<1>1. /\ a.sec \in Nat /\ a.nsec \in Nat /\ b.sec \in Nat /\ b.nsec \in Nat
      /\ c.sec \in Nat /\ c.nsec \in Nat
  BY SMT DEF Sums, Second
<1> QED BY SMT, <1>1 DEF cmp_timespec

-------------------------------------------------------------------------------
(* The invariant.                                                          *)

\* The deadline that call1 computes before its loop.
Target == add_timespec(start, to)

\* The clock does not run backwards, and waits are whole seconds.
ClockInv ==
  /\ at \in {"idle", "transmit", "wait", "done", "over", "spin"}
  /\ at # "idle" => /\ start \in Instants /\ now \in Instants /\ to \in Nat
                    /\ Millis(start) <= Millis(now)
                    /\ \E k \in Nat : curr_to = 1000 * k

\* The final deadline is kept until it becomes the next one, and is then marked.
FinalInv ==
  at # "idle" => \/ finaldeadline = Target
                 \/ finaldeadline.sec = 0 /\ nextdeadline = Target

\* A wait that is not the last one ends in time and is not refused.
WaitInv ==
  at = "wait" /\ finaldeadline.sec # 0 =>
    /\ nextdeadline \in Instants
    /\ NotAfter(nextdeadline, Due, Rest(start))
    /\ curr_to <= to

\* Behind the last wait the deadline has passed.
ExpiredInv ==
  /\ at \in {"transmit", "over"} /\ finaldeadline.sec = 0 => cmp_timespec(now, nextdeadline) >= 0
  /\ at = "over" => finaldeadline.sec = 0

\* The wait that is refused.
SpinInv == at = "spin" => to % 1000 # 0 /\ Due % 1000 = 0 /\ Rest(start) = 0

IInv == ClockInv /\ FinalInv /\ WaitInv /\ ExpiredInv /\ SpinInv

\* The target is a sum, so its seconds are not the mark.
LEMMA TargetFacts ==
  ASSUME start \in Instants, to \in Nat
  PROVE  /\ Target \in Sums /\ Target.sec # 0
         /\ Millis(Target) = Due /\ Rest(Target) = Rest(start)
         /\ ~Valid(Target) => to % 1000 # 0 /\ Due % 1000 = 0 /\ Rest(start) = 0
<1>1. Target \in Sums
  BY AddTimespec DEF Target
<1>2. Target.sec # 0
  BY <1>1 DEF Sums
<1> QED BY <1>1, <1>2, AddTimespec DEF Target, Due

\* An instant's milliseconds are a number.
LEMMA MillisType ==
  ASSUME NEW a \in Sums
  PROVE  Millis(a) \in Nat /\ Rest(a) \in Nat
<1>1. a.sec \in Nat /\ a.nsec \in Nat
  BY SMT DEF Sums
<1> QED BY SMT, <1>1 DEF Millis, Rest

\* An instant is a sum.
LEMMA InstantsAreSums == Instants \subseteq Sums
BY SMT DEF Instants, Sums, Second

LEMMA InitIInv == Init => IInv
BY DEF Init, IInv, ClockInv, FinalInv, WaitInv, ExpiredInv, SpinInv

LEMMA StartIInv ==
  ASSUME IInv, NEW s \in Starts, NEW t \in Timeouts, Start(s, t)
  PROVE  IInv'
<1>1. s \in Instants /\ t \in Nat
  BY ClockAssumption
<1>2. /\ at' = "transmit" /\ start' = s /\ now' = s /\ to' = t
      /\ finaldeadline' = add_timespec(s, t) /\ curr_to' = 1000 /\ nextdeadline' = nextdeadline
  BY SMT DEF Start, to_min
<1>3. finaldeadline' = Target'
  BY <1>2 DEF Target
<1>4. FinalInv'
  BY <1>3 DEF FinalInv
<1>5. finaldeadline'.sec # 0
  <2>1. add_timespec(s, t) \in Sums
    BY <1>1, AddTimespec
  <2> QED BY <1>2, <2>1 DEF Sums
<1>6. Millis(s) \in Nat
  BY <1>1, MillisType, InstantsAreSums
<1>7. ClockInv'
  <2>1. \E k \in Nat : curr_to' = 1000 * k
    BY SMT, <1>2
  <2> QED BY SMT, <1>1, <1>2, <1>6, <2>1 DEF ClockInv
<1>8. WaitInv' /\ SpinInv'
  BY <1>2 DEF WaitInv, SpinInv
<1>9. ExpiredInv'
  BY <1>2, <1>5 DEF ExpiredInv
<1> QED BY <1>4, <1>7, <1>8, <1>9 DEF IInv

LEMMA ArmIInv ==
  ASSUME IInv, NEW d \in Delays, Arm(d)
  PROVE  IInv'
<1>1. d \in Nat
  BY ClockAssumption
<1>2. /\ at = "transmit" /\ start' = start /\ to' = to /\ curr_to' = curr_to
  BY DEF Arm
<1>3. /\ start \in Instants /\ now \in Instants /\ to \in Nat
      /\ Millis(start) <= Millis(now)
      /\ \E k \in Nat : curr_to = 1000 * k
  BY <1>2 DEF IInv, ClockInv
<1>4. PICK k \in Nat : curr_to = 1000 * k
  BY <1>3
<1>5. Target' = Target /\ Due' = Due /\ Rest(start)' = Rest(start)
  BY <1>2 DEF Target, Due
<1>6. /\ Target \in Sums /\ Target.sec # 0 /\ Millis(Target) = Due /\ Rest(Target) = Rest(start)
  BY <1>3, TargetFacts
<1>8. CASE finaldeadline.sec = 0
  <2>1. at' = "over" /\ UNCHANGED <<now, nextdeadline, finaldeadline>>
    BY <1>8 DEF Arm
  <2>2. ClockInv'
    BY SMT, <1>2, <1>3, <1>4, <2>1 DEF ClockInv
  <2>3. FinalInv'
    BY <1>2, <1>5, <2>1 DEF IInv, FinalInv
  <2>4. WaitInv' /\ SpinInv'
    BY <2>1 DEF WaitInv, SpinInv
  <2>5. ExpiredInv'
    BY <1>2, <1>8, <2>1 DEF IInv, ExpiredInv
  <2> QED BY <2>2, <2>3, <2>4, <2>5 DEF IInv
<1>9. CASE finaldeadline.sec # 0
  <2> DEFINE next == add_timespec(now', curr_to)
  <2>1. at' = "wait" /\ now' = Later(now, d)
    BY <1>9 DEF Arm
  <2>2. IF cmp_timespec(next, finaldeadline) > 0
        THEN /\ nextdeadline' = finaldeadline
             /\ finaldeadline' = [finaldeadline EXCEPT !.sec = 0]
        ELSE nextdeadline' = next /\ UNCHANGED finaldeadline
    BY <1>9 DEF Arm
  <2>3. finaldeadline = Target
    BY <1>2, <1>9 DEF IInv, FinalInv
  <2>4. now' \in Instants /\ ~(cmp_timespec(now, now') > 0)
    BY <1>1, <1>3, <2>1, LaterIsLater
  <2>5. /\ Millis(start) \in Nat /\ Millis(now) \in Nat /\ Millis(now') \in Nat
        /\ Rest(start) \in Nat /\ Rest(now') \in Nat
    BY <1>3, <2>4, MillisType, InstantsAreSums
  <2>6. Millis(start) <= Millis(now')
    <3>1. NotAfter(now, Millis(now'), Rest(now'))
      BY <1>3, <2>4, CmpTimespec, InstantsAreSums
    <3>2. Millis(now) <= Millis(now')
      BY SMT, <2>5, <3>1 DEF NotAfter
    <3> QED BY SMT, <1>3, <2>5, <3>2
  <2>7. ClockInv'
    <3>1. \E j \in Nat : curr_to' = 1000 * j
      BY <1>2, <1>3
    <3>2. Millis(start)' <= Millis(now)'
      BY <1>2, <2>6 DEF Millis
    <3> QED BY <1>2, <1>3, <2>1, <2>4, <3>1, <3>2 DEF ClockInv
  <2>8. ExpiredInv' /\ SpinInv'
    BY <2>1 DEF ExpiredInv, SpinInv
  <2>9. curr_to \in Nat /\ curr_to % 1000 = 0
    BY SMT, <1>4
  <2>10. next \in Sums /\ Millis(next) = Millis(now') + curr_to /\ Rest(next) = Rest(now') /\ Valid(next)
    BY <2>4, <2>9, AddTimespec
  <2>11. CASE cmp_timespec(next, finaldeadline) > 0
    <3>1. nextdeadline' = Target /\ finaldeadline' = [finaldeadline EXCEPT !.sec = 0]
      BY <2>2, <2>3, <2>11
    <3>2. finaldeadline'.sec = 0
      BY <1>6, <2>3, <3>1 DEF Sums
    <3>3. FinalInv' /\ WaitInv'
      BY <1>5, <3>1, <3>2 DEF FinalInv, WaitInv
    <3> QED BY <2>7, <2>8, <3>3 DEF IInv
  <2>12. CASE ~(cmp_timespec(next, finaldeadline) > 0)
    <3>1. nextdeadline' = next /\ finaldeadline' = finaldeadline
      BY <2>2, <2>12
    <3>2. FinalInv'
      BY <1>5, <2>3, <3>1 DEF FinalInv
    <3>3. NotAfter(next, Due, Rest(start))
      BY <1>6, <2>3, <2>10, <2>12, CmpTimespec
    <3>4. next \in Instants
      BY SMT, <2>10 DEF Sums, Instants, Valid
    <3>5. curr_to <= to
      <4>1. Millis(next) <= Due
        BY SMT, <1>3, <2>5, <2>9, <2>10, <3>3 DEF NotAfter, Due
      <4> QED BY SMT, <1>3, <2>5, <2>6, <2>9, <2>10, <4>1 DEF Due
    <3>6. NotAfter(nextdeadline', Due', Rest(start)')
      BY <1>5, <3>1, <3>3
    <3>7. NotAfter(nextdeadline, Due, Rest(start))'
      BY <3>6 DEF NotAfter, Millis, Rest
    <3>8. WaitInv'
      BY <1>2, <3>1, <3>4, <3>5, <3>7 DEF WaitInv
    <3> QED BY <2>7, <2>8, <3>2, <3>8 DEF IInv
  <2> QED BY <2>11, <2>12
<1> QED BY <1>8, <1>9

LEMMA TimedOutIInv ==
  ASSUME IInv, NEW d \in Delays, TimedOut(d)
  PROVE  IInv'
<1> DEFINE due == IF cmp_timespec(now, nextdeadline) > 0 THEN now ELSE nextdeadline
<1>1. d \in Nat
  BY ClockAssumption
<1>2. /\ at = "wait" /\ Valid(nextdeadline) /\ at' = "transmit" /\ now' = Later(due, d)
      /\ curr_to' = 2 * curr_to
      /\ start' = start /\ to' = to /\ nextdeadline' = nextdeadline /\ finaldeadline' = finaldeadline
  BY DEF TimedOut
<1>3. /\ start \in Instants /\ now \in Instants /\ to \in Nat
      /\ Millis(start) <= Millis(now)
      /\ \E k \in Nat : curr_to = 1000 * k
  BY <1>2 DEF IInv, ClockInv
<1>4. PICK k \in Nat : curr_to = 1000 * k
  BY <1>3
<1>5. Target' = Target /\ Due' = Due
  BY <1>2 DEF Target, Due
<1>6. Target \in Sums
  BY <1>3, TargetFacts
<1>7. nextdeadline \in Instants
  <2>1. CASE finaldeadline.sec # 0
    BY <1>2, <2>1 DEF IInv, WaitInv
  <2>2. CASE finaldeadline.sec = 0
    <3>1. nextdeadline = Target
      BY <1>2, <1>3, <2>2, TargetFacts DEF IInv, FinalInv
    <3> QED BY SMT, <1>2, <1>6, <3>1 DEF Sums, Instants, Valid
  <2> QED BY <2>1, <2>2
<1>8. /\ due \in Instants /\ ~(cmp_timespec(now, due) > 0) /\ cmp_timespec(due, nextdeadline) >= 0
  <2>1. \A a \in Instants : cmp_timespec(a, a) = 0
    <3> SUFFICES ASSUME NEW a \in Instants PROVE cmp_timespec(a, a) = 0
      OBVIOUS
    <3>1. a.sec \in Nat /\ a.nsec \in Nat
      BY SMT DEF Instants
    <3> QED BY SMT, <3>1 DEF cmp_timespec
  <2>2. CASE cmp_timespec(now, nextdeadline) > 0
    <3>1. due = now
      BY <2>2
    <3> HIDE DEF due
    <3>2. cmp_timespec(now, nextdeadline) \in Int
      BY SMT DEF cmp_timespec
    <3> QED BY SMT, <1>3, <2>1, <2>2, <3>1, <3>2
  <2>3. CASE ~(cmp_timespec(now, nextdeadline) > 0)
    <3>1. due = nextdeadline
      BY <2>3
    <3> HIDE DEF due
    <3> QED BY SMT, <1>7, <2>1, <2>3, <3>1
  <2> QED BY <2>2, <2>3
<1> HIDE DEF due
<1>9. /\ now' \in Instants /\ cmp_timespec(now', due) >= 0 /\ ~(cmp_timespec(due, now') > 0)
  BY <1>1, <1>2, <1>8, LaterIsLater
<1>10. cmp_timespec(now', nextdeadline) >= 0
  BY <1>7, <1>8, <1>9, CmpTransitive, InstantsAreSums
<1>11. Millis(start) <= Millis(now')
  <2>1. /\ Millis(start) \in Nat /\ Millis(now) \in Nat /\ Millis(due) \in Nat /\ Millis(now') \in Nat
    BY <1>3, <1>8, <1>9, MillisType, InstantsAreSums
  <2>2. NotAfter(now, Millis(due), Rest(due)) /\ NotAfter(due, Millis(now'), Rest(now'))
    BY <1>3, <1>8, <1>9, CmpTimespec, InstantsAreSums
  <2>3. Millis(now) <= Millis(due) /\ Millis(due) <= Millis(now')
    BY SMT, <2>1, <2>2 DEF NotAfter
  <2> QED BY SMT, <1>3, <2>1, <2>3
<1>12. ClockInv'
  <2>1. \E j \in Nat : curr_to' = 1000 * j
    <3>1. curr_to' = 1000 * (2 * k) /\ 2 * k \in Nat
      BY SMT, <1>2, <1>4
    <3> QED BY <3>1
  <2>2. Millis(start)' <= Millis(now)'
    BY <1>2, <1>11 DEF Millis
  <2> QED BY <1>2, <1>3, <1>9, <2>1, <2>2 DEF ClockInv
<1>13. FinalInv'
  BY <1>2, <1>5 DEF IInv, FinalInv
<1>14. WaitInv' /\ SpinInv'
  BY <1>2 DEF WaitInv, SpinInv
<1>15. ExpiredInv'
  BY <1>2, <1>10 DEF ExpiredInv
<1> QED BY <1>12, <1>13, <1>14, <1>15 DEF IInv

\* A reply, or a refused wait, leaves the clock as it is.
LEMMA EndIInv ==
  ASSUME IInv, Replied \/ Refused
  PROVE  IInv'
<1>1. /\ at = "wait" /\ at' \in {"done", "spin"}
      /\ at' = "spin" => ~Valid(nextdeadline)
      /\ UNCHANGED <<start, to, now, nextdeadline, finaldeadline, curr_to>>
  BY DEF Replied, Refused
<1>2. start \in Instants /\ to \in Nat
  BY <1>1 DEF IInv, ClockInv
<1>3. Target' = Target /\ Due' = Due /\ Millis(start)' = Millis(start) /\ Millis(now)' = Millis(now)
      /\ Rest(start)' = Rest(start)
  BY <1>1 DEF Target, Due
<1>4. FinalInv' /\ WaitInv' /\ ExpiredInv'
  BY <1>1, <1>3 DEF IInv, FinalInv, WaitInv, ExpiredInv
<1>5. ClockInv'
  BY <1>1, <1>3 DEF IInv, ClockInv
<1>6. SpinInv'
  <2> SUFFICES ASSUME at' = "spin"
               PROVE  to % 1000 # 0 /\ Due % 1000 = 0 /\ Rest(start) = 0
    BY <1>1, <1>3 DEF SpinInv
  <2>1. finaldeadline.sec = 0
    <3> SUFFICES ASSUME finaldeadline.sec # 0 PROVE FALSE
      OBVIOUS
    <3>1. nextdeadline \in Instants
      BY <1>1 DEF IInv, WaitInv
    <3> QED BY SMT, <1>1, <3>1 DEF Instants, Valid
  <2>2. nextdeadline = Target
    BY <1>1, <1>2, <2>1, TargetFacts DEF IInv, FinalInv
  <2> QED BY <1>1, <1>2, <2>2, TargetFacts
<1> QED BY <1>4, <1>5, <1>6 DEF IInv

LEMMA NextIInv == IInv /\ [Next]_vars => IInv'
<1> SUFFICES ASSUME IInv, [Next]_vars PROVE IInv'
  OBVIOUS
<1>1. CASE UNCHANGED vars
  BY <1>1 DEF vars, IInv, ClockInv, FinalInv, WaitInv, ExpiredInv, SpinInv,
             Target, Due
<1> QED BY <1>1, StartIInv, ArmIInv, TimedOutIInv, EndIInv DEF Next

\* The invariant says what the property does.
LEMMA IInvKept == IInv => DeadlineKept
<1> SUFFICES ASSUME IInv PROVE DeadlineKept
  OBVIOUS
<1>1. CASE at = "idle" \/ at = "transmit" \/ at = "done"
  BY <1>1 DEF DeadlineKept
<1>2. CASE at \in {"wait", "over", "spin"}
  <2>1. start \in Instants /\ to \in Nat
    BY <1>2 DEF IInv, ClockInv
  <2>2. /\ Target \in Sums /\ Target.sec # 0
        /\ Millis(Target) = Due /\ Rest(Target) = Rest(start)
    BY <2>1, TargetFacts
  <2>3. finaldeadline.sec = 0 => nextdeadline = Target
    BY <1>2, <2>2 DEF IInv, FinalInv
  <2>4. Rest(start) \in Nat
    BY <2>1, MillisType, InstantsAreSums
  <2>5. NotAfter(Target, Due, Rest(start))
    BY SMT, <2>2, <2>4 DEF NotAfter
  <2>6. at = "wait" => /\ NotAfter(nextdeadline, Due, Rest(start))
                       /\ finaldeadline.sec # 0 => curr_to <= to
    BY <2>3, <2>5 DEF IInv, WaitInv
  <2>7. at = "over" => /\ Millis(nextdeadline) = Due /\ Rest(nextdeadline) = Rest(start)
                       /\ cmp_timespec(now, nextdeadline) >= 0
    BY <2>2, <2>3 DEF IInv, ExpiredInv
  <2>8. at = "spin" => to % 1000 # 0 /\ Due % 1000 = 0 /\ Rest(start) = 0
    BY DEF IInv, SpinInv
  <2> QED BY <2>6, <2>7, <2>8 DEF DeadlineKept
<1> QED BY <1>1, <1>2 DEF IInv, ClockInv

\* rpcc::call1 gives up at its timeout, never before and by a wait that ends then,
\* no wait but the last is longer than the timeout, and the wait is refused only
\* for a timeout that is not whole seconds and ends on one.
THEOREM DeadlineKeptHolds == Spec => []DeadlineKept
BY InitIInv, NextIInv, IInvKept, PTL DEF Spec

-------------------------------------------------------------------------------
(* Loops.                                                                  *)

\* Induction up to n: a set that holds 0 and, with a number below n, the next
\* one holds all of them.
LEMMA UpTo ==
  ASSUME NEW n \in Nat, NEW T, 0 \in T, \A k \in 0..(n - 1) : k \in T => k + 1 \in T
  PROVE  \A k \in 0..n : k \in T
<1> SUFFICES ASSUME NEW k \in 0..n, k \notin T PROVE FALSE
    OBVIOUS
<1> DEFINE Bad == {i \in 0..n : i \notin T}
<1>1. Bad \subseteq Nat /\ Bad # {}
      OBVIOUS
<1>2. PICK i \in Bad : \A j \in Bad : i <= j
      BY <1>1, LeastNatural
<1>3. i # 0 /\ i - 1 \in 0..(n - 1) /\ ~(i <= i - 1)
      BY <1>2
<1>4. i - 1 \in T
      BY <1>2, <1>3
<1>5. (i - 1) + 1 \in T /\ (i - 1) + 1 = i
      BY <1>3, <1>4
<1> QED BY <1>2, <1>5

\* f is the run from a of a loop of n turns over states in S: turn i makes
\* F[i][x] of x.
IsRun(f, S, a, n, F) == f \in [0..n -> S] /\ f[0] = a /\ \A i \in 1..n : f[i] = F[i][f[i - 1]]

\* Such a loop has a run.
LEMMA RunExists ==
  ASSUME NEW S, NEW a \in S, NEW n \in Nat, NEW F \in [1..n -> [S -> S]]
  PROVE  \E f : IsRun(f, S, a, n, F)
<1> DEFINE P(k) == \E f \in [0..k -> S] : f[0] = a /\ \A i \in 1..k : f[i] = F[i][f[i - 1]]
           T == {k \in 0..n : P(k)}
<1>1. 0 \in T
  <2> DEFINE f == [i \in 0..0 |-> a]
  <2>1. f \in [0..0 -> S] /\ f[0] = a /\ \A i \in 1..0 : f[i] = F[i][f[i - 1]]
        OBVIOUS
  <2> HIDE DEF f
  <2>2. P(0)
        BY <2>1
  <2> HIDE DEF P
  <2> QED BY <2>2
<1>2. ASSUME NEW k \in 0..(n - 1), k \in T PROVE k + 1 \in T
  <2>1. PICK f \in [0..k -> S] : f[0] = a /\ \A i \in 1..k : f[i] = F[i][f[i - 1]]
        BY <1>2
  <2> DEFINE g == [i \in 0..(k + 1) |-> IF i = k + 1 THEN F[k + 1][f[k]] ELSE f[i]]
  <2>2. F[k + 1] \in [S -> S] /\ f[k] \in S
        BY <2>1
  <2>3. g \in [0..(k + 1) -> S] /\ g[0] = a
        BY <2>1, <2>2
  <2>4. ASSUME NEW i \in 1..(k + 1) PROVE g[i] = F[i][g[i - 1]]
    <3>1. CASE i = k + 1
      <4>1. g[i] = F[k + 1][f[k]] /\ g[k] = f[k] /\ i - 1 = k
            BY <3>1
      <4> QED BY <3>1, <4>1
    <3>2. CASE i # k + 1
      <4>1. i \in 1..k /\ i - 1 \in 0..k
            BY <3>2
      <4>2. g[i] = f[i] /\ g[i - 1] = f[i - 1]
            BY <4>1
      <4> QED BY <2>1, <4>1, <4>2
    <3> QED BY <3>1, <3>2
  <2>5. P(k + 1)
        BY <2>3, <2>4
  <2>6. k + 1 \in 0..n
        OBVIOUS
  <2> HIDE DEF P
  <2> QED BY <2>5, <2>6
<1> HIDE DEF P
<1>3. \A k \in 0..n : k \in T
      BY <1>1, <1>2, UpTo
<1>4. P(n)
      BY <1>3
<1> QED BY <1>4 DEF P, IsRun

-------------------------------------------------------------------------------
(* The list under the client's window.                                     *)

\* In order, with repetitions: what an xid that is reported twice leaves.
Sorted(l) == \A i, j \in 1..Len(l) : i < j => l[i] <= l[j]

\* The first loop of update_xid_rep keeps the list in order and its front.
LEMMA InsertIs ==
  ASSUME NEW l \in Seq(Nat), NEW x \in Nat, Len(l) >= 1, Sorted(l), x > l[1]
  PROVE  /\ Insert(l, x) \in Seq(Nat) /\ Len(Insert(l, x)) >= 1
         /\ Sorted(Insert(l, x)) /\ Insert(l, x)[1] = l[1]
         /\ Elements(Insert(l, x)) = Elements(l) \union {x}
<1> DEFINE L == Len(l)
           d == Insert(l, x)
           larger == {i \in 1..Len(l) : l[i] > x}
<1>0. L \in Nat /\ L >= 1 /\ \A i \in 1..L : l[i] \in Nat
      OBVIOUS
<1>1. \E k \in 2..(L + 1) :
         /\ \A i \in 1..(k - 1) : l[i] <= x
         /\ \A i \in k..L : l[i] > x
         /\ d \in Seq(Nat) /\ Len(d) = L + 1
         /\ \A i \in 1..(k - 1) : d[i] = l[i]
         /\ d[k] = x
         /\ \A i \in k..L : d[i + 1] = l[i]
  <2>1. CASE larger = {}
    <3>1. d = Append(l, x)
          BY <2>1 DEF Insert
    <3>2. \A i \in 1..L : ~(l[i] > x)
          BY <2>1
    <3> HIDE DEF larger, d
    <3>3. d \in Seq(Nat) /\ Len(d) = L + 1 /\ d[L + 1] = x /\ \A i \in 1..L : d[i] = l[i]
          BY <3>1
    <3> WITNESS L + 1 \in 2..(L + 1)
    <3>4. (L + 1) - 1 = L
          BY <1>0
    <3>5. \A i \in 1..L : l[i] <= x
          BY <1>0, <3>2
    <3> HIDE DEF L
    <3> QED BY <1>0, <3>3, <3>4, <3>5
  <2>2. CASE larger # {}
    <3> DEFINE k == CHOOSE i \in larger : \A j \in larger : i <= j
    <3>1. larger \subseteq Nat
          OBVIOUS
    <3>2. \E i \in larger : \A j \in larger : i <= j
          BY <2>2, <3>1, LeastNatural
    <3>3. k \in larger /\ \A j \in larger : k <= j
      <4> HIDE DEF larger
      <4> QED BY <3>2
    <3>4. d = SubSeq(l, 1, k - 1) \o <<x>> \o SubSeq(l, k, Len(l))
          BY <2>2 DEF Insert
    <3> HIDE DEF d, k
    <3>5. k \in 1..L /\ l[k] > x
          BY <3>3
    <3>6. \A i \in 1..(k - 1) : ~(l[i] > x)
      <4> SUFFICES ASSUME NEW i \in 1..(k - 1), l[i] > x PROVE FALSE
          OBVIOUS
      <4>1. i \in larger /\ ~(k <= i)
            BY <1>0, <3>5
      <4> QED BY <3>3, <4>1
    <3>7. k # 1
      <4>1. ~(l[1] > x)
            BY <1>0
      <4> QED BY <3>5, <4>1
    <3> HIDE DEF larger
    <3>8. k \in 2..L
          BY <1>0, <3>5, <3>7
    <3>9. \A i \in k..L : l[i] > x
      <4> SUFFICES ASSUME NEW i \in k..L PROVE l[i] > x
          OBVIOUS
      <4>1. i = k \/ (k < i /\ i \in 1..L /\ k \in 1..L)
            BY <1>0, <3>8
      <4>2. i = k \/ l[k] <= l[i]
            BY <4>1 DEF Sorted, L
      <4> QED BY <1>0, <3>5, <4>1, <4>2
    <3>10. /\ SubSeq(l, 1, k - 1) \in Seq(Nat) /\ Len(SubSeq(l, 1, k - 1)) = k - 1
           /\ \A i \in 1..(k - 1) : SubSeq(l, 1, k - 1)[i] = l[i]
           /\ SubSeq(l, k, L) \in Seq(Nat) /\ Len(SubSeq(l, k, L)) = L - k + 1
           /\ \A i \in 1..(L - k + 1) : SubSeq(l, k, L)[i] = l[k + i - 1]
           BY <1>0, <3>8
    <3> DEFINE a == SubSeq(l, 1, k - 1)
               b == SubSeq(l, k, L)
    <3>11. d = a \o <<x>> \o b
           BY <3>4
    <3> HIDE DEF a, b
    <3>12. /\ a \in Seq(Nat) /\ Len(a) = k - 1 /\ \A i \in 1..(k - 1) : a[i] = l[i]
           /\ b \in Seq(Nat) /\ Len(b) = L - k + 1 /\ \A i \in 1..(L - k + 1) : b[i] = l[k + i - 1]
           BY <3>10 DEF a, b
    <3> HIDE DEF L
    <3>13. /\ a \o <<x>> \in Seq(Nat) /\ Len(a \o <<x>>) = k /\ (a \o <<x>>)[k] = x
           /\ \A i \in 1..(k - 1) : (a \o <<x>>)[i] = a[i]
           BY SMTT(20), <1>0, <3>8, <3>12
    <3> DEFINE c == a \o <<x>>
    <3>14. d = c \o b
           BY <3>11
    <3>15. c \in Seq(Nat) /\ Len(c) = k /\ c[k] = x /\ \A i \in 1..(k - 1) : c[i] = a[i]
           BY <3>13
    <3> HIDE DEF c
    <3>16. /\ d \in Seq(Nat) /\ Len(d) = L + 1
           /\ \A i \in 1..k : d[i] = c[i]
           /\ \A i \in (k + 1)..(L + 1) : d[i] = b[i - k]
      <4>0. c \in Seq(Nat) /\ b \in Seq(Nat)
            BY <3>12, <3>15
      <4>1. /\ c \o b \in Seq(Nat) /\ Len(c \o b) = Len(c) + Len(b)
            /\ \A i \in 1..(Len(c) + Len(b)) :
                 (c \o b)[i] = IF i <= Len(c) THEN c[i] ELSE b[i - Len(c)]
            BY <4>0, ConcatProperties, Zenon
      <4>2. Len(c) + Len(b) = L + 1 /\ k \in Nat /\ k <= L
            BY <1>0, <3>8, <3>12, <3>15
      <4>3. \A i \in 1..(L + 1) : d[i] = IF i <= k THEN c[i] ELSE b[i - k]
            BY <3>14, <3>15, <4>1, <4>2
      <4>4. d \in Seq(Nat) /\ Len(d) = L + 1
            BY <3>14, <4>1, <4>2
      <4>5. \A i \in 1..k : i \in 1..(L + 1) /\ i <= k
            BY <1>0, <4>2
      <4>6. \A i \in (k + 1)..(L + 1) : i \in 1..(L + 1) /\ ~(i <= k)
            BY <1>0, <4>2
      <4> QED BY <4>3, <4>4, <4>5, <4>6
    <3>17. \A i \in k..L : d[i + 1] = l[i]
      <4> SUFFICES ASSUME NEW i \in k..L PROVE d[i + 1] = l[i]
          OBVIOUS
      <4>1. i + 1 \in (k + 1)..(L + 1) /\ (i + 1) - k \in 1..(L - k + 1) /\ k + ((i + 1) - k) - 1 = i
            BY <1>0, <3>8
      <4> QED BY <3>12, <3>16, <4>1
    <3>18. \A i \in 1..(k - 1) : l[i] <= x
           BY <1>0, <3>6, <3>8
    <3>19. k \in 2..(L + 1) /\ d[k] = x /\ \A i \in 1..(k - 1) : d[i] = l[i]
      <4>1. k \in 2..(L + 1) /\ k \in 1..k
            BY <1>0, <3>8
      <4>2. \A i \in 1..(k - 1) : i \in 1..k
            BY <4>1
      <4> QED BY <3>12, <3>15, <3>16, <4>1, <4>2
    <3> QED BY <3>9, <3>16, <3>17, <3>18, <3>19
  <2> QED BY <2>1, <2>2
<1>2. PICK k \in 2..(L + 1) :
         /\ \A i \in 1..(k - 1) : l[i] <= x
         /\ \A i \in k..L : l[i] > x
         /\ d \in Seq(Nat) /\ Len(d) = L + 1
         /\ \A i \in 1..(k - 1) : d[i] = l[i]
         /\ d[k] = x
         /\ \A i \in k..L : d[i + 1] = l[i]
      BY <1>1
<1>3. \A i, j \in 1..L : i < j => l[i] <= l[j]
      BY DEF Sorted
<1> HIDE DEF d, L, larger
<1>4. Sorted(d)
  <2> SUFFICES ASSUME NEW i \in 1..(L + 1), NEW j \in 1..(L + 1), i < j PROVE d[i] <= d[j]
      BY <1>2 DEF Sorted
  <2>1. CASE j < k
    <3>1. i \in 1..(k - 1) /\ j \in 1..(k - 1) /\ i \in 1..L /\ j \in 1..L
          BY <1>0, <2>1
    <3> QED BY <1>2, <1>3, <3>1
  <2>2. CASE j = k
    <3>1. i \in 1..(k - 1)
          BY <1>0, <2>2
    <3> QED BY <1>2, <2>2, <3>1
  <2>3. CASE j > k
    <3>1. j - 1 \in k..L /\ (j - 1) + 1 = j
          BY <1>0, <2>3
    <3>2. d[j] = l[j - 1] /\ l[j - 1] > x
          BY <1>2, <3>1
    <3>3. CASE i < k
      <4>1. d[i] = l[i] /\ l[i] <= x /\ l[i] \in Nat /\ l[j - 1] \in Nat
            BY SMTT(20), <1>0, <1>2, <3>1, <3>3
      <4> QED BY <3>2, <4>1
    <3>4. CASE i = k
          BY <1>0, <1>2, <3>1, <3>2, <3>4
    <3>5. CASE i > k
      <4>1. i - 1 \in k..L /\ (i - 1) + 1 = i /\ i - 1 < j - 1 /\ i - 1 \in 1..L /\ j - 1 \in 1..L
            BY <1>0, <3>1, <3>5
      <4>2. d[i] = l[i - 1]
            BY <1>2, <4>1
      <4> QED BY <1>3, <3>2, <4>1, <4>2
    <3> QED BY <3>3, <3>4, <3>5
  <2> QED BY <2>1, <2>2, <2>3
<1>5. d[1] = l[1]
      BY <1>0, <1>2
<1>6. Elements(d) = Elements(l) \union {x}
  <2>1. ASSUME NEW i \in 1..(L + 1) PROVE d[i] \in Elements(l) \union {x}
    <3>1. CASE i < k
      <4>1. i \in 1..L /\ d[i] = l[i]
            BY <1>0, <1>2, <3>1
      <4> QED BY <4>1 DEF Elements, L
    <3>2. CASE i = k
          BY <1>2, <3>2
    <3>3. CASE i > k
      <4>1. i - 1 \in k..L /\ (i - 1) + 1 = i /\ i - 1 \in 1..L
            BY <1>0, <3>3
      <4>2. d[i] = l[i - 1]
            BY <1>2, <4>1
      <4> QED BY <4>1, <4>2 DEF Elements, L
    <3> QED BY <3>1, <3>2, <3>3
  <2>2. ASSUME NEW i \in 1..L PROVE l[i] \in Elements(d)
    <3>1. CASE i < k
      <4>1. i \in 1..(L + 1) /\ d[i] = l[i]
            BY <1>0, <1>2, <3>1
      <4> QED BY <1>2, <4>1 DEF Elements
    <3>2. CASE i >= k
      <4>1. i + 1 \in 1..(L + 1) /\ d[i + 1] = l[i]
            BY <1>0, <1>2, <3>2
      <4> QED BY <1>2, <4>1 DEF Elements
    <3> QED BY <3>1, <3>2
  <2>3. k \in 1..(L + 1) /\ x \in Elements(d)
    <3>1. k \in 1..(L + 1)
          BY <1>0, <1>2
    <3> QED BY <1>2, <3>1 DEF Elements
  <2>4. Elements(d) \subseteq Elements(l) \union {x}
        BY <1>2, <2>1 DEF Elements
  <2>5. Elements(l) \subseteq Elements(d)
        BY <2>2 DEF Elements, L
  <2> QED BY <2>3, <2>4, <2>5
<1>7. Len(d) >= 1
      BY <1>0, <1>2
<1> QED BY <1>2, <1>4, <1>5, <1>6, <1>7 DEF d

\* The inner while ends at the first element that is not one less than *it.
LEMMA PopFrontIs ==
  ASSUME NEW l \in Seq(Nat), NEW it \in 1..Len(l), NEW front \in 1..it
  PROVE  /\ PopFront(l, front, it) \in front..it
         /\ l[PopFront(l, front, it)] + 1 # l[it]
         /\ \A q \in front..(PopFront(l, front, it) - 1) : l[q] + 1 = l[it]
<1> DEFINE T == {p \in front..it : l[p] + 1 # l[it]}
           P(p) == l[p] + 1 # l[it] /\ \A q \in front..(p - 1) : l[q] + 1 = l[it]
<1>1. T \subseteq Nat /\ it \in T
  <2>1. l[it] \in Nat
        OBVIOUS
  <2> QED BY <2>1
<1>2. PICK p \in T : \A q \in T : p <= q
      BY <1>1, LeastNatural
<1>3. \A q \in front..(p - 1) : l[q] + 1 = l[it]
  <2> SUFFICES ASSUME NEW q \in front..(p - 1), l[q] + 1 # l[it] PROVE FALSE
      OBVIOUS
  <2>1. p \in front..it
        BY <1>2
  <2>2. q \in front..it /\ ~(p <= q)
        BY <2>1
  <2> QED BY <1>2, <2>2
<1>4. \E n \in front..it : P(n)
      BY <1>2, <1>3
<1>5. PopFront(l, front, it) = CHOOSE n \in front..it : P(n)
      BY DEF PopFront
<1> QED BY <1>4, <1>5

\* When `it` has passed element n, the front is p: behind a run of xids without
\* a gap, and none of the elements passed continues it.
Front(l, n, p) == /\ p \in 1..n
                  /\ \A y \in l[1]..l[p] : y \in Elements(l)
                  /\ \A i \in 1..n : l[i] <= l[p] \/ l[i] > l[p] + 1

\* One turn of the outer for.
LEMMA FrontMoves ==
  ASSUME NEW l \in Seq(Nat), Sorted(l), NEW n \in 1..Len(l), n < Len(l),
         NEW p, Front(l, n, p)
  PROVE  Front(l, n + 1, PopFront(l, p, n + 1))
<1> DEFINE q == PopFront(l, p, n + 1)
           L == Len(l)
<1>0. L \in Nat /\ n + 1 \in 1..L /\ p \in 1..n /\ p \in 1..(n + 1)
      BY DEF Front
<1>1. q \in p..(n + 1) /\ l[q] + 1 # l[n + 1] /\ \A k \in p..(q - 1) : l[k] + 1 = l[n + 1]
      BY <1>0, PopFrontIs
<1>2. \A i, j \in 1..L : i <= j => l[i] <= l[j]
      BY DEF Sorted
<1>3. \A i \in 1..L : l[i] \in Nat
      OBVIOUS
<1>4. \A i \in 1..n : l[i] <= l[p] \/ l[i] > l[p] + 1
      BY DEF Front
<1>5. \A y \in l[1]..l[p] : y \in Elements(l)
      BY DEF Front
<1> HIDE DEF q, L
<1>6. q \in 1..L /\ p \in 1..L /\ q \in 1..(n + 1) /\ n + 1 \in 1..L
      BY <1>0, <1>1
<1>7. CASE l[p] + 1 = l[n + 1]
  <2>1. q # p
        BY <1>1, <1>7
  <2>2. q - 1 \in p..(q - 1) /\ q - 1 \in 1..L /\ q - 1 <= q
        BY <1>0, <1>1, <1>6, <2>1
  <2>3. l[q - 1] + 1 = l[n + 1] /\ l[q - 1] <= l[q] /\ l[q] <= l[n + 1]
        BY <1>1, <1>2, <1>6, <2>2
  <2>4. l[q] = l[n + 1] /\ l[q] = l[p] + 1
    <3>1. l[q] \in Nat /\ l[q - 1] \in Nat /\ l[n + 1] \in Nat /\ l[p] \in Nat
          BY <1>3, <1>6, <2>2
    <3>2. \A a, b, c, e \in Nat : b + 1 = c /\ b <= a /\ a <= c /\ a + 1 # c /\ e + 1 = c
                                  => a = c /\ a = e + 1
          OBVIOUS
    <3> QED BY <1>1, <1>7, <2>3, <3>1, <3>2
  <2>5. \A i \in 1..(n + 1) : l[i] <= l[q]
    <3> SUFFICES ASSUME NEW i \in 1..(n + 1) PROVE l[i] <= l[n + 1]
        BY <2>4
    <3>1. i \in 1..L /\ i <= n + 1
          BY <1>0
    <3> QED BY <1>2, <1>6, <3>1
  <2>6. ASSUME NEW y \in l[1]..l[q] PROVE y \in Elements(l)
    <3>1. CASE y = l[q]
          BY <1>6, <3>1 DEF Elements, L
    <3>2. CASE y # l[q]
      <4>1. 1 \in 1..L
            BY <1>0
      <4>2. y \in l[1]..l[p]
            BY <1>3, <1>6, <2>4, <3>2, <4>1
      <4> QED BY <1>5, <4>2
    <3> QED BY <3>1, <3>2
  <2> QED BY <1>6, <2>5, <2>6 DEF Front, q
<1>8. CASE l[p] + 1 # l[n + 1]
  <2>1. q = p
    <3> SUFFICES ASSUME q # p PROVE FALSE
        OBVIOUS
    <3>1. p \in p..(q - 1)
          BY <1>0, <1>1
    <3> QED BY <1>1, <1>8, <3>1
  <2>2. l[p] <= l[n + 1]
        BY <1>0, <1>2, <1>6
  <2>3. ASSUME NEW i \in 1..(n + 1) PROVE l[i] <= l[p] \/ l[i] > l[p] + 1
    <3>1. CASE i = n + 1
      <4>1. l[p] \in Nat /\ l[n + 1] \in Nat
            BY <1>3, <1>6
      <4> QED BY <1>8, <2>2, <3>1, <4>1
    <3>2. CASE i # n + 1
      <4>1. i \in 1..n
            BY <1>0, <3>2
      <4> QED BY <1>4, <4>1
    <3> QED BY <3>1, <3>2
  <2> QED BY <1>5, <1>6, <2>1, <2>3 DEF Front, q
<1> QED BY <1>7, <1>8

\* The compression pops the run of consecutive xids at the front but its last.
LEMMA CompressIs ==
  ASSUME NEW l \in Seq(Nat), Len(l) >= 1, Sorted(l)
  PROVE  /\ Compress(l) \in Seq(Nat) /\ Len(Compress(l)) >= 1 /\ Sorted(Compress(l))
         /\ l[1] <= Compress(l)[1]
         /\ \A y \in l[1]..Compress(l)[1] : y \in Elements(l)
         /\ Compress(l)[1] + 1 \notin Elements(l)
         /\ Elements(Compress(l)) = {e \in Elements(l) : e >= Compress(l)[1]}
<1> DEFINE L == Len(l)
           S == 1..L
           F == [i \in 1..(L - 1) |-> [p \in S |-> IF p <= i + 1 THEN PopFront(l, p, i + 1) ELSE p]]
           Loop(g) == g = [it \in 1..L |-> IF it = 1 THEN 1 ELSE PopFront(l, g[it - 1], it)]
           front == CHOOSE g : Loop(g)
<1>0. L \in Nat /\ L >= 1 /\ \A i \in 1..L : l[i] \in Nat
      OBVIOUS
<1>1. Compress(l) = SubSeq(l, front[L], L)
      BY DEF Compress
<1>2. F \in [1..(L - 1) -> [S -> S]]
  <2>1. ASSUME NEW i \in 1..(L - 1), NEW p \in S, p <= i + 1 PROVE PopFront(l, p, i + 1) \in S
    <3>1. i + 1 \in 1..Len(l) /\ p \in 1..(i + 1)
          BY <1>0, <2>1
    <3>2. PopFront(l, p, i + 1) \in p..(i + 1)
          BY <3>1, PopFrontIs
    <3> QED BY <3>1, <3>2
  <2> QED BY <2>1
<1>3. 1 \in S /\ L - 1 \in Nat
      BY <1>0
<1> HIDE DEF F, S, L
<1>4. PICK f \in [0..(L - 1) -> S] : f[0] = 1 /\ \A i \in 1..(L - 1) : f[i] = F[i][f[i - 1]]
  <2>1. \E f : IsRun(f, S, 1, L - 1, F)
        BY <1>2, <1>3, RunExists
  <2> QED BY <2>1 DEF IsRun
<1> DEFINE T == {k \in 0..(L - 1) : Front(l, k + 1, f[k])}
<1>5. ASSUME NEW i \in 1..(L - 1), f[i - 1] <= i + 1 PROVE f[i] = PopFront(l, f[i - 1], i + 1)
  <2>1. f[i - 1] \in S
    <3>1. i - 1 \in 0..(L - 1)
          BY <1>0
    <3> QED BY <1>4, <3>1
  <2>2. F[i][f[i - 1]] = IF f[i - 1] <= i + 1 THEN PopFront(l, f[i - 1], i + 1) ELSE f[i - 1]
        BY <2>1 DEF F
  <2> QED BY <1>4, <1>5, <2>2
<1>6. 0 \in T
  <2>1. Front(l, 1, 1)
    <3>1. 1 \in 1..1 /\ \A y \in l[1]..l[1] : y = l[1]
          BY <1>0
    <3>2. l[1] \in Elements(l)
          BY <1>0 DEF Elements
    <3>3. \A i \in 1..1 : l[i] <= l[1]
          BY <1>0
    <3> QED BY <3>1, <3>2, <3>3 DEF Front
  <2> QED BY <1>0, <1>4, <2>1
<1>7. ASSUME NEW k \in 0..((L - 1) - 1), k \in T PROVE k + 1 \in T
  <2>1. Front(l, k + 1, f[k])
        BY <1>7
  <2>2. k + 1 \in 1..Len(l) /\ k + 1 < Len(l) /\ k + 1 \in 1..(L - 1) /\ (k + 1) - 1 = k
        BY <1>0 DEF L
  <2>3. f[k] <= (k + 1) + 1
        BY <1>0, <2>1 DEF Front
  <2>4. f[k + 1] = PopFront(l, f[k], (k + 1) + 1)
        BY <1>5, <2>2, <2>3
  <2>5. Front(l, (k + 1) + 1, f[k + 1])
        BY <2>1, <2>2, <2>4, FrontMoves
  <2> QED BY <2>2, <2>5
<1>8. \A k \in 0..(L - 1) : Front(l, k + 1, f[k])
  <2>1. \A k \in 0..(L - 1) : k \in T
    <3> HIDE DEF T
    <3> QED BY <1>3, <1>6, <1>7, UpTo
  <2> QED BY <2>1
<1> DEFINE g == [it \in 1..L |-> f[it - 1]]
<1>9. Loop(g)
  <2>1. ASSUME NEW it \in 1..L PROVE g[it] = IF it = 1 THEN 1 ELSE PopFront(l, g[it - 1], it)
    <3>1. CASE it = 1
          BY <1>4, <3>1
    <3>2. CASE it # 1
      <4>1. it - 1 \in 1..(L - 1) /\ (it - 1) - 1 \in 0..(L - 1) /\ (it - 1) + 1 = it
            /\ ((it - 1) - 1) + 1 = it - 1 /\ it - 1 \in 1..L
            BY <1>0, <3>2
      <4>2. Front(l, it - 1, f[(it - 1) - 1])
            BY <1>8, <4>1
      <4>3. f[(it - 1) - 1] <= (it - 1) + 1
            BY <4>1, <4>2 DEF Front
      <4>4. f[it - 1] = PopFront(l, f[(it - 1) - 1], (it - 1) + 1)
            BY <1>5, <4>1, <4>3
      <4>5. g[it] = f[it - 1] /\ g[it - 1] = f[(it - 1) - 1]
            BY <4>1
      <4> QED BY <3>2, <4>1, <4>4, <4>5
    <3> QED BY <3>1, <3>2
  <2> QED BY <2>1
<1>10. Loop(front)
  <2>1. \E x : Loop(x)
        BY <1>9
  <2> HIDE DEF Loop
  <2> QED BY <2>1
<1> DEFINE U == {k \in 0..(L - 1) : front[k + 1] = f[k]}
<1> HIDE DEF front
<1>11. \A k \in 0..(L - 1) : front[k + 1] = f[k]
  <2>0. 0 \in U
    <3>1. front[1] = 1
          BY <1>0, <1>10
    <3> QED BY <1>0, <1>4, <3>1
  <2>1. ASSUME NEW k \in 0..((L - 1) - 1), k \in U PROVE k + 1 \in U
    <3>1. (k + 1) + 1 \in 1..L /\ (k + 1) + 1 # 1 /\ ((k + 1) + 1) - 1 = k + 1 /\ k + 1 \in 1..(L - 1)
          /\ (k + 1) - 1 = k /\ k \in 0..(L - 1)
          BY <1>0
    <3>2. front[(k + 1) + 1] = PopFront(l, front[((k + 1) + 1) - 1], (k + 1) + 1)
          BY <1>10, <3>1
    <3>3. front[k + 1] = f[k]
          BY <2>1
    <3>4. f[k] <= (k + 1) + 1
          BY <1>8, <3>1 DEF Front
    <3>5. f[k + 1] = PopFront(l, f[k], (k + 1) + 1)
          BY <1>5, <3>1, <3>4
    <3> QED BY <3>1, <3>2, <3>3, <3>5
  <2>2. \A k \in 0..(L - 1) : k \in U
    <3> HIDE DEF U
    <3> QED BY <1>3, <2>0, <2>1, UpTo
  <2> QED BY <2>2
<1>12. Front(l, L, front[L])
  <2>1. L - 1 \in 0..(L - 1) /\ (L - 1) + 1 = L
        BY <1>0
  <2> QED BY <1>8, <1>11, <2>1
<1> DEFINE p == front[L]
           c == Compress(l)
<1>13. p \in 1..L
       BY <1>12 DEF Front
<1>14. c \in Seq(Nat) /\ Len(c) = L - p + 1 /\ \A i \in 1..(L - p + 1) : c[i] = l[p + i - 1]
  <2>1. c = SubSeq(l, p, L)
        BY <1>1
  <2> HIDE DEF c, p
  <2> QED BY <1>0, <1>13, <2>1
<1>15. /\ \A y \in l[1]..l[p] : y \in Elements(l)
       /\ \A i \in 1..L : l[i] <= l[p] \/ l[i] > l[p] + 1
       BY <1>12 DEF Front
<1>16. \A i, j \in 1..L : i <= j => l[i] <= l[j]
  <2>1. \A i, j \in 1..L : i < j => l[i] <= l[j]
        BY DEF Sorted, L
  <2> QED BY <1>0, <2>1
<1> HIDE DEF c, p
<1>17. c[1] = l[p] /\ Len(c) >= 1
  <2>1. 1 \in 1..(L - p + 1) /\ p + 1 - 1 = p
        BY <1>0, <1>13
  <2> QED BY <1>14, <2>1
<1>18. Sorted(c)
  <2> SUFFICES ASSUME NEW i \in 1..(L - p + 1), NEW j \in 1..(L - p + 1), i < j PROVE c[i] <= c[j]
      BY <1>14 DEF Sorted
  <2>1. p + i - 1 \in 1..L /\ p + j - 1 \in 1..L /\ p + i - 1 <= p + j - 1
        BY <1>0, <1>13
  <2> QED BY <1>14, <1>16, <2>1
<1>19. l[1] <= l[p] /\ l[p] \in Nat
  <2>1. 1 \in 1..L /\ 1 <= p
        BY <1>0, <1>13
  <2> QED BY <1>0, <1>13, <1>16, <2>1
<1>20. l[p] + 1 \notin Elements(l)
  <2> SUFFICES ASSUME NEW i \in 1..L, l[i] = l[p] + 1 PROVE FALSE
      BY DEF Elements, L
  <2>1. l[i] \in Nat /\ (l[i] <= l[p] \/ l[i] > l[p] + 1)
        BY <1>0, <1>15
  <2> QED BY <1>19, <2>1
<1>21. Elements(c) = {e \in Elements(l) : e >= l[p]}
  <2>1. ASSUME NEW i \in 1..(L - p + 1) PROVE c[i] \in Elements(l) /\ c[i] >= l[p]
    <3>1. p + i - 1 \in 1..L /\ p <= p + i - 1
          BY <1>0, <1>13
    <3>2. c[i] = l[p + i - 1] /\ l[p] <= l[p + i - 1]
          BY <1>13, <1>14, <1>16, <3>1
    <3>3. l[p + i - 1] \in Elements(l) /\ l[p + i - 1] \in Nat
          BY <1>0, <3>1 DEF Elements, L
    <3> QED BY <1>19, <3>2, <3>3
  <2>2. ASSUME NEW i \in 1..L, l[i] >= l[p] PROVE l[i] \in Elements(c)
    <3>1. CASE i >= p
      <4>1. i - p + 1 \in 1..(L - p + 1) /\ p + (i - p + 1) - 1 = i
            BY <1>0, <1>13, <3>1
      <4>2. c[i - p + 1] = l[i]
            BY <1>14, <4>1
      <4> QED BY <1>14, <4>1, <4>2 DEF Elements
    <3>2. CASE i < p
      <4>1. l[i] <= l[p] /\ l[i] \in Nat
            BY <1>0, <1>13, <1>16, <3>2
      <4>2. l[i] = c[1] /\ 1 \in 1..(L - p + 1)
            BY <1>0, <1>13, <1>17, <1>19, <2>2, <4>1
      <4> QED BY <1>14, <4>2 DEF Elements
    <3> QED BY <1>13, <3>1, <3>2
  <2>3. Elements(c) \subseteq {e \in Elements(l) : e >= l[p]}
        BY <1>14, <2>1 DEF Elements
  <2>4. {e \in Elements(l) : e >= l[p]} \subseteq Elements(c)
        BY <2>2 DEF Elements, L
  <2> QED BY <2>3, <2>4
<1> QED BY <1>14, <1>15, <1>17, <1>18, <1>19, <1>20, <1>21 DEF c

\* The record's update moves the front to the end of the run, wherever that is.
LEMMA RunEnd ==
  ASSUME NEW w \in XidRepType, NEW x \in Nat, x > w.front, NEW e \in Nat, w.front <= e,
         \A y \in (w.front + 1)..e : y \in w.above \union {x},
         e + 1 \notin w.above \union {x}
  PROVE  UpdateXidRep(w, x) = [front |-> e, above |-> {n \in w.above \union {x} : n > e}]
<1> DEFINE known == w.above \union {x}
           runs == {n \in known \union {w.front} : \A k \in (w.front + 1)..n : k \in known}
           end == CHOOSE n \in runs : \A k \in runs : k <= n
<1>0. w.front \in Nat /\ known \subseteq Nat
      BY DEF XidRepType
<1>1. ~(x <= w.front)
      BY <1>0
<1>2. UpdateXidRep(w, x) = [front |-> end, above |-> {n \in known : n > end}]
      BY <1>1 DEF UpdateXidRep
<1>3. e \in runs
  <2>1. e \in known \union {w.front}
    <3>1. e = w.front \/ e \in (w.front + 1)..e
          BY <1>0
    <3> QED BY <3>1
  <2> QED BY <2>1
<1>4. ASSUME NEW n \in runs PROVE n <= e
  <2>1. n \in Nat /\ \A k \in (w.front + 1)..n : k \in known
        BY <1>0
  <2> SUFFICES ASSUME e < n PROVE FALSE
      BY <2>1
  <2>2. e + 1 \in (w.front + 1)..n
        BY <1>0, <2>1
  <2> QED BY <2>1, <2>2
<1>5. runs \subseteq Nat
      BY <1>0
<1> HIDE DEF runs
<1>6. end \in runs /\ \A k \in runs : k <= end
      BY <1>3, <1>4
<1>7. end = e
  <2>1. end <= e /\ e <= end /\ end \in Nat
        BY <1>3, <1>4, <1>5, <1>6
  <2> HIDE DEF end
  <2> QED BY <2>1
<1> HIDE DEF end
<1> QED BY <1>2, <1>7

\* The list is in order, its front is followed by a gap, and it holds what has
\* been reported beyond the front; the record says the same.
XidInv ==
  LET l == xid_rep_window_
  IN  /\ l \in Seq(Nat) /\ Len(l) >= 1 /\ Sorted(l)
      /\ l[1] + 1 \notin Elements(l)
      /\ window \in XidRepType
      /\ window.front = l[1] /\ window.above = Elements(l) \ {l[1]}
      /\ reports \in [1..MaxXid -> Nat]
      /\ {y \in 1..MaxXid : reports[y] > 0} = (1..l[1]) \union window.above

LEMMA InitXidInv == XidInit => XidInv
<1> SUFFICES ASSUME XidInit PROVE XidInv
    OBVIOUS
<1> DEFINE l == xid_rep_window_
<1>1. l = <<0>> /\ window = [front |-> 0, above |-> {}] /\ reports = [y \in 1..MaxXid |-> 0]
      BY DEF XidInit, EmptyXidRep
<1>2. l \in Seq(Nat) /\ Len(l) = 1 /\ l[1] = 0
      BY <1>1
<1> HIDE DEF l
<1>3. Elements(l) = {0}
      BY <1>2 DEF Elements
<1>4. Sorted(l)
      BY <1>2 DEF Sorted
<1>5. window \in XidRepType
      BY <1>1 DEF XidRepType
<1>6. reports \in [1..MaxXid -> Nat] /\ {y \in 1..MaxXid : reports[y] > 0} = {}
      BY <1>1
<1>7. 1..l[1] = {} /\ l[1] + 1 \notin Elements(l) /\ Len(l) >= 1
      BY <1>2, <1>3
<1>8. window.front = l[1] /\ window.above = {} /\ Elements(l) \ {l[1]} = {}
      BY <1>1, <1>2, <1>3
<1> QED BY <1>2, <1>4, <1>5, <1>6, <1>7, <1>8 DEF XidInv, l

LEMMA ReportXidInv ==
  ASSUME XidInv, NEW x \in 1..MaxXid, Report(x)
  PROVE  XidInv'
<1> DEFINE l == xid_rep_window_
           w == window
           known == w.above \union {x}
<1>0. /\ l \in Seq(Nat) /\ Len(l) >= 1 /\ Sorted(l)
      /\ l[1] + 1 \notin Elements(l)
      /\ w \in XidRepType
      /\ w.front = l[1] /\ w.above = Elements(l) \ {l[1]}
      /\ reports \in [1..MaxXid -> Nat]
      /\ {y \in 1..MaxXid : reports[y] > 0} = (1..l[1]) \union w.above
      BY DEF XidInv
<1>1. /\ l' = update_xid_rep(l, x) /\ w' = UpdateXidRep(w, x)
      /\ reports' = [reports EXCEPT ![x] = @ + 1]
      BY DEF Report
<1>2. x \in Nat /\ x >= 1 /\ MaxXid \in Nat
      BY XidAssumption
<1>3. l[1] \in Nat /\ Head(l) = l[1] /\ l[1] \in Elements(l)
      BY <1>0 DEF Elements
<1>4. reports' \in [1..MaxXid -> Nat]
      BY <1>0, <1>1
<1>5. {y \in 1..MaxXid : reports'[y] > 0} = {y \in 1..MaxXid : reports[y] > 0} \union {x}
  <2>1. \A y \in 1..MaxXid : reports[y] \in Nat /\ reports'[y] = IF y = x THEN reports[y] + 1 ELSE reports[y]
        BY <1>0, <1>1
  <2> QED BY <2>1
<1> HIDE DEF l, w
<1>6. CASE x <= l[1]
  <2>1. l' = l /\ w' = w
    <3>1. l' = l
          BY <1>1, <1>3, <1>6 DEF update_xid_rep
    <3>2. w' = w
          BY <1>0, <1>1, <1>6 DEF UpdateXidRep
    <3> QED BY <3>1, <3>2
  <2>2. x \in 1..l[1]
        BY <1>2, <1>3, <1>6
  <2>3. {y \in 1..MaxXid : reports'[y] > 0} = (1..l[1]) \union w.above
        BY <1>0, <1>5, <2>2
  <2> QED BY <1>0, <1>4, <2>1, <2>3 DEF XidInv, l, w
<1>7. CASE ~(x <= l[1])
  <2> DEFINE d == Insert(l, x)
             c == Compress(d)
             e == c[1]
  <2>1. l' = c
        BY <1>1, <1>3, <1>7 DEF update_xid_rep
  <2>2. x > l[1]
        BY <1>2, <1>3, <1>7
  <2>3. /\ d \in Seq(Nat) /\ Len(d) >= 1 /\ Sorted(d) /\ d[1] = l[1]
        /\ Elements(d) = Elements(l) \union {x}
        BY <1>0, <1>2, <2>2, InsertIs
  <2> HIDE DEF d
  <2>4. /\ c \in Seq(Nat) /\ Len(c) >= 1 /\ Sorted(c)
        /\ d[1] <= c[1]
        /\ \A y \in d[1]..c[1] : y \in Elements(d)
        /\ c[1] + 1 \notin Elements(d)
        /\ Elements(c) = {n \in Elements(d) : n >= c[1]}
        BY <2>3, CompressIs
  <2>5. e \in Nat /\ l[1] <= e
        BY <2>3, <2>4
  <2> HIDE DEF c
  <2>6. /\ \A y \in l[1]..e : y \in Elements(d)
        /\ e + 1 \notin Elements(d) /\ Elements(c) = {n \in Elements(d) : n >= e}
        BY <2>3, <2>4
  <2> HIDE DEF e
  <2>7. known = Elements(d) \ {l[1]} /\ Elements(d) \subseteq Nat
    <3>1. l[1] # x
          BY <1>3, <2>2
    <3>2. Elements(d) \subseteq Nat
          BY <2>3 DEF Elements
    <3> QED BY <1>0, <2>3, <3>1, <3>2
  <2>8. \A n \in Elements(d) : n >= l[1]
    <3> SUFFICES ASSUME NEW i \in 1..Len(d) PROVE d[i] >= l[1]
        BY DEF Elements
    <3>1. i = 1 \/ (1 < i /\ 1 \in 1..Len(d))
          BY <2>3
    <3>2. i = 1 \/ d[1] <= d[i]
          BY <2>3, <3>1 DEF Sorted
    <3>3. d[i] \in Nat /\ d[1] \in Nat
          BY <2>3
    <3> QED BY <2>3, <3>2, <3>3
  <2>9. w' = [front |-> e, above |-> {n \in known : n > e}]
    <3>1. \A y \in (w.front + 1)..e : y \in w.above \union {x}
      <4> SUFFICES ASSUME NEW y \in (l[1] + 1)..e PROVE y \in known
          BY <1>0
      <4>1. y \in l[1]..e /\ y # l[1]
            BY <1>3, <2>5
      <4> QED BY <2>6, <2>7, <4>1
    <3>2. e + 1 \notin w.above \union {x}
          BY <2>6, <2>7
    <3>3. x > w.front /\ w.front <= e
          BY <1>0, <2>2, <2>5
    <3> QED BY <1>0, <1>1, <1>2, <2>5, <3>1, <3>2, <3>3, RunEnd
  <2>10. w'.front = e /\ w'.above = {n \in known : n > e}
         BY <2>9
  <2>11. {n \in known : n > e} = Elements(c) \ {e}
    <3>1. \A n \in Elements(d) : n > e <=> n >= e /\ n # e
          BY <2>5, <2>7
    <3>2. \A n \in Elements(d) : n > e => n # l[1]
          BY <1>3, <2>5, <2>7
    <3> QED BY <2>6, <2>7, <3>1, <3>2
  <2>12. w' \in XidRepType
    <3>1. {n \in known : n > e} \subseteq Nat
          BY <2>7
    <3> QED BY <2>5, <2>9, <3>1 DEF XidRepType
  <2>13. c[1] = e /\ e + 1 \notin Elements(c)
         BY <2>6 DEF e
  <2>14. {y \in 1..MaxXid : reports'[y] > 0} = (1..e) \union {n \in known : n > e}
    <3>1. {y \in 1..MaxXid : reports'[y] > 0} = (1..l[1]) \union known
          BY <1>0, <1>5
    <3>2. \A y \in known : y \in 1..e \/ y > e
      <4> SUFFICES ASSUME NEW y \in known PROVE y \in 1..e \/ y > e
          OBVIOUS
      <4>1. y \in Nat /\ y >= l[1] /\ y # l[1]
            BY <2>7, <2>8
      <4> QED BY <1>3, <2>5, <4>1
    <3>3. \A y \in 1..e : y \in 1..l[1] \/ y \in known
      <4> SUFFICES ASSUME NEW y \in 1..e, y \notin 1..l[1] PROVE y \in known
          OBVIOUS
      <4>1. y \in l[1]..e /\ y # l[1]
            BY <1>3, <2>5
      <4> QED BY <2>6, <2>7, <4>1
    <3>4. \A y \in 1..l[1] : y \in 1..e
          BY <1>3, <2>5
    <3> HIDE DEF known
    <3> QED BY <3>1, <3>2, <3>3, <3>4
  <2>15. (1..e) \union {n \in known : n > e} = (1..c[1]) \union w'.above
         BY <2>10, <2>13
  <2> HIDE DEF known
  <2>16. w'.above = Elements(c) \ {c[1]} /\ w'.front = c[1] /\ c[1] + 1 \notin Elements(c)
         BY <2>10, <2>11, <2>13
  <2>17. {y \in 1..MaxXid : reports'[y] > 0} = (1..c[1]) \union w'.above
         BY <2>14, <2>15
  <2>18. c \in Seq(Nat) /\ Len(c) >= 1 /\ Sorted(c)
         BY <2>4
  <2> QED BY <1>4, <2>1, <2>12, <2>16, <2>17, <2>18 DEF XidInv, l, w
<1> QED BY <1>6, <1>7

LEMMA NextXidInv == XidInv /\ [XidNext]_xidVars => XidInv'
<1> SUFFICES ASSUME XidInv, [XidNext]_xidVars PROVE XidInv'
    OBVIOUS
<1>1. CASE XidNext
      BY <1>1, ReportXidInv DEF XidNext
<1>2. CASE UNCHANGED xidVars
      BY <1>2 DEF XidInv, xidVars
<1> QED BY <1>1, <1>2

\* update_xid_rep, reported to in any order and any number of times, keeps at the
\* front of its list the last xid of the unbroken run of replied xids, and the
\* record that the models of the client use in its place agrees with the list.
THEOREM WindowIsExactHolds == XidSpec => []WindowIsExact
<1>1. XidInit => XidInv
      BY InitXidInv
<1>2. XidInv /\ [XidNext]_xidVars => XidInv'
      BY NextXidInv
<1>3. XidInv => WindowIsExact
  <2> SUFFICES ASSUME XidInv PROVE WindowIsExact
      OBVIOUS
  <2> DEFINE l == xid_rep_window_
             f == Head(l)
  <2>1. /\ l \in Seq(Nat) /\ Len(l) >= 1 /\ l[1] + 1 \notin Elements(l)
        /\ window.front = l[1] /\ window.above = Elements(l) \ {l[1]}
        /\ reports \in [1..MaxXid -> Nat]
        /\ {y \in 1..MaxXid : reports[y] > 0} = (1..l[1]) \union window.above
        BY DEF XidInv
  <2>2. f = l[1] /\ f \in Nat
        BY <2>1
  <2>3. window.above = {l[i] : i \in 1..Len(l)} \ {f}
        BY <2>1, <2>2 DEF Elements
  <2> HIDE DEF l, f
  <2>4. \A y \in 1..f : reports[y] > 0
        BY <2>1, <2>2
  <2>5. f < MaxXid => reports[f + 1] = 0
    <3> SUFFICES ASSUME f < MaxXid PROVE reports[f + 1] = 0
        OBVIOUS
    <3>1. f + 1 \in 1..MaxXid /\ f + 1 \notin 1..f
          BY <2>2, XidAssumption
    <3>2. ~(reports[f + 1] > 0) /\ reports[f + 1] \in Nat
          BY <2>1, <2>2, <3>1
    <3> QED BY <3>2
  <2> QED BY <2>1, <2>2, <2>3, <2>4, <2>5 DEF WindowIsExact, l, f
<1> QED BY <1>1, <1>2, <1>3, PTL DEF XidSpec

\* The acknowledgement that requests carry never moves back, whatever replies
\* come, repeated or out of order: the next request's xid_rep is not smaller.
THEOREM AckMonotone == XidSpec => [][xid_rep_window_'[1] >= xid_rep_window_[1]]_xidVars
<1>1. XidInit => XidInv
      BY InitXidInv
<1>2. XidInv /\ [XidNext]_xidVars => XidInv'
      BY NextXidInv
<1>3. XidInv /\ XidInv' /\ [XidNext]_xidVars => [xid_rep_window_'[1] >= xid_rep_window_[1]]_xidVars
  <2> SUFFICES ASSUME XidInv, XidInv', NEW x \in 1..MaxXid, Report(x)
               PROVE  xid_rep_window_'[1] >= xid_rep_window_[1]
      BY DEF XidNext
  <2> DEFINE f == xid_rep_window_[1]
             g == xid_rep_window_'[1]
  <2>1. f \in Nat /\ g \in Nat /\ g + 1 \notin Elements(xid_rep_window_')
        BY DEF XidInv
  <2>2. \A y \in 1..f : y \in 1..MaxXid /\ reports[y] > 0
        BY DEF XidInv
  <2>3. \A y \in 1..MaxXid : reports[y] > 0 => reports'[y] > 0
    <3>1. reports \in [1..MaxXid -> Nat] /\ reports' = [reports EXCEPT ![x] = reports[x] + 1]
          BY DEF Report, XidInv
    <3> SUFFICES ASSUME NEW y \in 1..MaxXid, reports[y] > 0 PROVE reports'[y] > 0
        OBVIOUS
    <3>2. reports[x] \in Nat /\ reports'[y] = IF y = x THEN reports[x] + 1 ELSE reports[y]
          BY <3>1
    <3> QED BY <3>2
  <2>4. \A y \in 1..MaxXid : reports'[y] > 0 => y \in 1..g \/ y \in Elements(xid_rep_window_')
        BY DEF XidInv
  <2> SUFFICES ASSUME g < f PROVE FALSE
      BY <2>1
  <2>5. g + 1 \in 1..f /\ g + 1 \notin 1..g
        BY <2>1
  <2> HIDE DEF f, g
  <2> QED BY <2>1, <2>2, <2>3, <2>4, <2>5
<1> QED BY <1>1, <1>2, <1>3, PTL DEF XidSpec

-------------------------------------------------------------------------------
(* Numbers in base B.                                                      *)

\* A quotient and a remainder are the only ones.
LEMMA Remainder ==
  ASSUME NEW n \in Nat, n > 0, NEW x \in Int
  PROVE  /\ x \div n \in Int /\ x % n \in 0..(n - 1) /\ x = n * (x \div n) + (x % n)
         /\ \A q \in Int, y \in 0..(n - 1) : x = n * q + y => x % n = y /\ x \div n = q
<1>1. x \div n \in Int /\ x % n \in 0..(n - 1) /\ x = n * (x \div n) + (x % n)
      OBVIOUS
<1>2. ASSUME NEW q \in Int, NEW y \in 0..(n - 1), x = n * q + y PROVE x % n = y /\ x \div n = q
      BY <1>2
<1> QED BY <1>1, <1>2

\* The upper half and the lower half make the whole.
LEMMA Digits ==
  ASSUME NEW n \in Nat, n > 0, NEW x \in Int
  PROVE  ((x \div n) % n) * n + (x % n) = x % (n * n)
<1> DEFINE q == x \div n
           p == q \div n
           y == (q % n) * n + (x % n)
<1>1. q \in Int /\ x % n \in 0..(n - 1) /\ x = n * q + (x % n)
      BY Remainder
<1> HIDE DEF q
<1>2. p \in Int /\ q % n \in 0..(n - 1) /\ q = n * p + (q % n)
      BY <1>1, Remainder
<1> HIDE DEF p
<1>3. n * n \in Nat /\ n * n > 0
      OBVIOUS
<1>4. x = (n * n) * p + y
  <2>1. n * q = (n * n) * p + (q % n) * n
    <3>1. n * q = n * (n * p + (q % n))
          BY <1>2
    <3>2. q % n \in Int
          BY <1>2
    <3> QED BY <1>2, <3>1, <3>2
  <2> QED BY <1>1, <1>2, <2>1
<1>5. y \in 0..((n * n) - 1)
  <2>1. 0 <= (q % n) * n /\ (q % n) * n <= (n - 1) * n
        BY <1>2
  <2>2. (n - 1) * n = n * n - n
        OBVIOUS
  <2>3. (q % n) * n \in Int
        BY <1>2
  <2> QED BY <1>1, <1>3, <2>1, <2>2, <2>3
<1> HIDE DEF y
<1>6. x % (n * n) = y
  <2> DEFINE k == n * n
  <2>1. k \in Nat /\ k > 0 /\ x = k * p + y /\ y \in 0..(k - 1)
        BY <1>3, <1>4, <1>5
  <2> HIDE DEF k
  <2>2. x % k = y
        BY <1>2, <2>1, Remainder
  <2> QED BY <2>2 DEF k
<1> QED BY <1>6 DEF q, y

LEMMA Sizes ==
  /\ B \in Nat /\ B >= 2 /\ H \in Nat /\ H > 0 /\ W \in Nat /\ W > 0
  /\ B % 2 = 0 /\ H % 2 = 0 /\ W % 2 = 0
  /\ H = B * B /\ W = H * H
  /\ RPC_SZ_T = 4 /\ RPC_HEADER_SZ = 24
<1>1. B \in Nat /\ B > 0 /\ B % 2 = 0
      BY SizeAssumption
<1>2. B >= 2
      BY <1>1
<1>3. ASSUME NEW n \in Nat, n > 0, n % 2 = 0 PROVE n * n \in Nat /\ n * n > 0 /\ (n * n) % 2 = 0
  <2>1. n * n \in Nat /\ n * n > 0
        BY <1>3
  <2>2. PICK k \in Int : n = 2 * k
    <3>1. n = 2 * (n \div 2) + (n % 2) /\ n \div 2 \in Int
          BY Remainder
    <3> QED BY <1>3, <3>1
  <2>3. n * n = 2 * (k * n) + 0 /\ k * n \in Int
        BY <2>2
  <2>4. (n * n) % 2 = 0
        BY <2>1, <2>3, Remainder
  <2> QED BY <2>1, <2>4
<1>4. H \in Nat /\ H > 0 /\ H % 2 = 0
      BY <1>1, <1>3 DEF H
<1>5. W \in Nat /\ W > 0 /\ W % 2 = 0
      BY <1>3, <1>4 DEF W
<1> QED BY <1>1, <1>2, <1>4, <1>5 DEF H, W, RPC_SZ_T, RPC_HEADER_SZ

\* An unsigned number comes back from its remainder, and a signed one too.
LEMMA SignedBack ==
  ASSUME NEW n \in Nat, n > 0, n % 2 = 0, NEW x \in -(n \div 2)..(n \div 2 - 1)
  PROVE  Signed(x % n, n) = x
<1>1. n \div 2 \in Nat /\ n = 2 * (n \div 2)
      OBVIOUS
<1>2. x \in Int
      BY <1>1
<1>3. CASE x >= 0
  <2>1. x = n * 0 + x /\ x \in 0..(n - 1)
        BY <1>1, <1>3
  <2>2. x % n = x
        BY <1>2, <2>1, Remainder
  <2> QED BY <1>1, <1>2, <2>2 DEF Signed
<1>4. CASE x < 0
  <2>1. x = n * (-1) + (x + n) /\ x + n \in 0..(n - 1)
        BY <1>1, <1>4
  <2>2. x % n = x + n
        BY <1>2, <2>1, Remainder
  <2>3. ~(x + n < n \div 2) /\ (x + n) - n = x
        BY <1>1, <1>2
  <2> QED BY <2>2, <2>3 DEF Signed
<1> QED BY <1>2, <1>3, <1>4

LEMMA UnsignedBack ==
  ASSUME NEW n \in Nat, n > 0, NEW x \in 0..(n - 1)
  PROVE  x % n = x
<1>1. x = n * 0 + x
      OBVIOUS
<1> QED BY <1>1, Remainder

\* A byte that went through a signed char and & 0xff.
LEMMA ByteBack ==
  ASSUME NEW c \in 0..B
  PROVE  /\ Signed(c, B) % W \in Int /\ (Signed(c, B) % W) % B \in Byte
         /\ c < B => (Signed(c, B) % W) % B = c
<1>1. B \in Nat /\ B > 0 /\ W \in Nat /\ W > 0 /\ c \in Int
      BY Sizes
<1> DEFINE s == Signed(c, B)
<1>2. s \in Int /\ (s = c \/ s = c - B)
      BY <1>1 DEF Signed
<1> HIDE DEF s
<1>3. s % W \in Int /\ s = W * (s \div W) + (s % W) /\ s \div W \in Int
      BY <1>1, <1>2, Remainder
<1>4. (s % W) % B \in Byte
      BY <1>1, <1>3, Remainder DEF Byte
<1>5. ASSUME c < B PROVE (s % W) % B = c
  <2>1. PICK j \in Int : W = B * j
    <3>1. W = B * (B * (B * B)) /\ B * (B * B) \in Int
          BY <1>1 DEF W, H
    <3> QED BY <3>1
  <2>2. PICK i \in Int : s = B * i + c
    <3>1. s = B * 0 + c \/ s = B * (-1) + c
          BY <1>1, <1>2
    <3> QED BY <3>1
  <2> DEFINE q == s \div W
  <2>3. s % W = B * i + c - (B * j) * q
    <3>1. W * (s \div W) \in Int
          BY <1>1, <1>3
    <3>2. s % W = s - W * (s \div W)
          BY <1>2, <1>3, <3>1
    <3>3. s % W = s - W * q /\ q \in Int
          BY <1>3, <3>2
    <3> HIDE DEF q
    <3> QED BY <1>1, <2>1, <2>2, <3>3
  <2>4. q \in Int
        BY <1>3
  <2> HIDE DEF q
  <2>5. B * i + c - (B * j) * q = B * (i - j * q) + c /\ i - j * q \in Int
        BY <1>1, <2>1, <2>2, <2>4
  <2>6. c \in 0..(B - 1)
        BY <1>1, <1>5
  <2>7. s % W = B * (i - j * q) + c
        BY <2>3, <2>5
  <2> DEFINE k == s % W
             o == i - j * q
  <2>8. k \in Int /\ o \in Int /\ k = B * o + c
        BY <1>3, <2>5, <2>7
  <2> HIDE DEF k, o
  <2>9. k % B = c
        BY <1>1, <2>6, <2>8, Remainder
  <2> QED BY <2>9 DEF k
<1> QED BY <1>3, <1>4, <1>5 DEF s

-------------------------------------------------------------------------------
(* Sums of sizes.                                                          *)

LEMMA TotalRun ==
  ASSUME NEW n \in Nat, NEW s \in [1..n -> Nat], NEW f \in [0..n -> Nat],
         f[0] = 0, \A i \in 1..n : f[i] = f[i - 1] + s[i]
  PROVE  Total(s) = f[n]
<1> DEFINE Loop(g) == g = [k \in 0..n |-> IF k = 0 THEN 0 ELSE g[k - 1] + s[k]]
           upto == CHOOSE g : Loop(g)
           T == {k \in 0..n : upto[k] = f[k]}
<1>1. Total(s) = upto[n]
  <2>1. Len(s) = n
        OBVIOUS
  <2> QED BY <2>1 DEF Total
<1>2. Loop(f)
      OBVIOUS
<1>3. Loop(upto)
  <2>1. \E x : Loop(x)
        BY <1>2
  <2> HIDE DEF Loop
  <2> QED BY <2>1
<1> HIDE DEF upto
<1>4. 0 \in T
      BY <1>3
<1>5. ASSUME NEW k \in 0..(n - 1), k \in T PROVE k + 1 \in T
  <2>1. k + 1 \in 1..n /\ (k + 1) - 1 = k /\ k + 1 # 0 /\ k + 1 \in 0..n
        OBVIOUS
  <2>2. upto[k + 1] = upto[k] + s[k + 1] /\ f[k + 1] = f[k] + s[k + 1]
        BY <1>3, <2>1
  <2> QED BY <1>5, <2>1, <2>2
<1>6. n \in T
  <2>1. n \in 0..n
        OBVIOUS
  <2> HIDE DEF T
  <2> QED BY <1>4, <1>5, <2>1, UpTo
<1> QED BY <1>1, <1>6

\* The sum of the first k.
Part(s, k) == Total([i \in 1..k |-> s[i]])

LEMMA PartIs ==
  ASSUME NEW n \in Nat, NEW s \in [1..n -> Nat]
  PROVE  /\ Part(s, 0) = 0 /\ Part(s, n) = Total(s)
         /\ \A k \in 0..n : Part(s, k) \in Nat
         /\ \A k \in 1..n : Part(s, k) = Part(s, k - 1) + s[k]
         /\ \A j, k \in 0..n : j <= k => Part(s, j) <= Part(s, k)
<1> DEFINE F == [i \in 1..n |-> [x \in Nat |-> x + s[i]]]
<1>1. PICK f : IsRun(f, Nat, 0, n, F)
  <2>1. F \in [1..n -> [Nat -> Nat]]
        OBVIOUS
  <2> HIDE DEF F
  <2> QED BY <2>1, RunExists
<1>2. f \in [0..n -> Nat] /\ f[0] = 0 /\ \A i \in 1..n : f[i] = f[i - 1] + s[i]
  <2>1. f \in [0..n -> Nat] /\ f[0] = 0 /\ \A i \in 1..n : f[i] = F[i][f[i - 1]]
        BY <1>1 DEF IsRun
  <2>2. \A i \in 1..n : f[i - 1] \in Nat
        BY <2>1
  <2> QED BY <2>1, <2>2
<1> HIDE DEF F
<1>3. ASSUME NEW k \in 0..n PROVE Part(s, k) = f[k]
  <2> DEFINE p == [i \in 1..k |-> s[i]]
             g == [i \in 0..k |-> f[i]]
  <2>1. p \in [1..k -> Nat] /\ g \in [0..k -> Nat] /\ g[0] = 0
        BY <1>2
  <2>2. \A i \in 1..k : g[i] = g[i - 1] + p[i]
        BY <1>2
  <2>3. g[k] = f[k] /\ k \in Nat
        OBVIOUS
  <2> HIDE DEF p, g
  <2>4. Total(p) = f[k]
        BY <2>1, <2>2, <2>3, TotalRun
  <2> QED BY <2>4 DEF p, Part
<1>4. Part(s, n) = Total(s)
  <2>1. [i \in 1..n |-> s[i]] = s
        OBVIOUS
  <2> QED BY <2>1 DEF Part
<1>5. \A k \in 1..n : Part(s, k) = Part(s, k - 1) + s[k]
      BY <1>2, <1>3
<1>6. Part(s, 0) = 0 /\ \A k \in 0..n : Part(s, k) \in Nat
      BY <1>2, <1>3
<1>7. ASSUME NEW j \in 0..n, NEW k \in 0..n, j <= k PROVE Part(s, j) <= Part(s, k)
  <2> DEFINE T == {i \in 0..(k - j) : Part(s, j) <= Part(s, j + i)}
  <2>1. 0 \in T
        BY <1>6, <1>7
  <2>2. ASSUME NEW i \in 0..((k - j) - 1), i \in T PROVE i + 1 \in T
    <3>1. j + (i + 1) \in 1..n /\ (j + (i + 1)) - 1 = j + i /\ j + i \in 0..n /\ i + 1 \in 0..(k - j)
          BY <1>7
    <3>2. Part(s, j + (i + 1)) = Part(s, j + i) + s[j + (i + 1)] /\ s[j + (i + 1)] \in Nat
          BY <1>5, <3>1
    <3>3. Part(s, j) <= Part(s, j + (i + 1))
          BY <1>6, <2>2, <3>1, <3>2
    <3> QED BY <3>1, <3>3
  <2>3. k - j \in Nat /\ k - j \in 0..(k - j) /\ j + (k - j) = k
        BY <1>7
  <2>4. k - j \in T
    <3> HIDE DEF T
    <3> QED BY <2>1, <2>2, <2>3, UpTo
  <2> QED BY <2>3, <2>4
<1> QED BY <1>4, <1>5, <1>6, <1>7

\* The sum over one more, and over sequences that begin alike.
LEMMA PartSame ==
  ASSUME NEW k \in Nat, NEW s, NEW y, \A i \in 1..k : s[i] = y[i]
  PROVE  Part(s, k) = Part(y, k)
<1>1. [i \in 1..k |-> s[i]] = [i \in 1..k |-> y[i]]
      OBVIOUS
<1> QED BY <1>1 DEF Part

-------------------------------------------------------------------------------
(* What a buffer holds: the wire format, by offset.                        *)

Is1(buf, o, x) == buf[o + 1] = x % B
Is2(buf, o, x) == Is1(buf, o, x \div B) /\ Is1(buf, o + 1, x)
Is4(buf, o, x) == Is2(buf, o, x \div H) /\ Is2(buf, o + 2, x)
Is8(buf, o, x) == Is4(buf, o, x \div W) /\ Is4(buf, o + 4, x)
IsStr(buf, o, s) == Is4(buf, o, Len(s)) /\ \A i \in 1..Len(s) : buf[(o + 4) + i] = s[i]

\* The i-th string of a vector is behind the i - 1 before it.
Strings(v) == [i \in 1..Len(v) |-> 4 + Len(v[i])]
IsVec(buf, o, v) == /\ Is4(buf, o, Len(v))
                    /\ \A i \in 1..Len(v) : IsStr(buf, (o + 4) + Part(Strings(v), i - 1), v[i])
IsPair(buf, o, k, x) == Is4(buf, o, k) /\ Is4(buf, o + 4, x)
IsMap(buf, o, d) == /\ Is4(buf, o, Len(Keys(d)))
                    /\ \A i \in 1..Len(Keys(d)) :
                         IsPair(buf, (o + 4) + 8 * (i - 1), Keys(d)[i], d[Keys(d)[i]])

Holds(buf, o, t, v) ==
  /\ t = "bool" => Is1(buf, o, IF v THEN 1 ELSE 0)
  /\ t \in {"char", "uchar"} => Is1(buf, o, v)
  /\ t \in {"short", "ushort"} => Is2(buf, o, v)
  /\ t \in {"int", "uint"} => Is4(buf, o, v)
  /\ t = "ull" => Is8(buf, o, v)
  /\ t = "string" => IsStr(buf, o, v)
  /\ t = "vector" => IsVec(buf, o, v)
  /\ t = "map" => IsMap(buf, o, v)

\* Two buffers that have n bytes from o on in common.
Same(buf, new, o, n) == \A i \in (o + 1)..(o + n) : new[i] = buf[i]

LEMMA SameInts ==
  ASSUME NEW buf, NEW new, NEW o \in Nat, NEW x
  PROVE  /\ Is1(buf, o, x) /\ Same(buf, new, o, 1) => Is1(new, o, x)
         /\ Is2(buf, o, x) /\ Same(buf, new, o, 2) => Is2(new, o, x)
         /\ Is4(buf, o, x) /\ Same(buf, new, o, 4) => Is4(new, o, x)
         /\ Is8(buf, o, x) /\ Same(buf, new, o, 8) => Is8(new, o, x)
<1>1. \A p \in Nat : \A y : Is1(buf, p, y) /\ Same(buf, new, p, 1) => Is1(new, p, y)
  <2> SUFFICES ASSUME NEW p \in Nat, NEW y, Is1(buf, p, y), Same(buf, new, p, 1) PROVE Is1(new, p, y)
      OBVIOUS
  <2>1. p + 1 \in (p + 1)..(p + 1)
        OBVIOUS
  <2> QED BY <2>1 DEF Is1, Same
<1>2. \A p \in Nat : \A y : Is2(buf, p, y) /\ Same(buf, new, p, 2) => Is2(new, p, y)
  <2> SUFFICES ASSUME NEW p \in Nat, NEW y, Is2(buf, p, y), Same(buf, new, p, 2) PROVE Is2(new, p, y)
      OBVIOUS
  <2>1. Same(buf, new, p, 1) /\ Same(buf, new, p + 1, 1) /\ p + 1 \in Nat
        BY DEF Same
  <2> QED BY <1>1, <2>1 DEF Is2
<1>3. \A p \in Nat : \A y : Is4(buf, p, y) /\ Same(buf, new, p, 4) => Is4(new, p, y)
  <2> SUFFICES ASSUME NEW p \in Nat, NEW y, Is4(buf, p, y), Same(buf, new, p, 4) PROVE Is4(new, p, y)
      OBVIOUS
  <2>1. Same(buf, new, p, 2) /\ Same(buf, new, p + 2, 2) /\ p + 2 \in Nat
        BY DEF Same
  <2> QED BY <1>2, <2>1 DEF Is4
<1>4. Is8(buf, o, x) /\ Same(buf, new, o, 8) => Is8(new, o, x)
  <2> SUFFICES ASSUME Is8(buf, o, x), Same(buf, new, o, 8) PROVE Is8(new, o, x)
      OBVIOUS
  <2>1. Same(buf, new, o, 4) /\ Same(buf, new, o + 4, 4) /\ o + 4 \in Nat
        BY DEF Same
  <2> QED BY <1>3, <2>1 DEF Is8
<1> QED BY <1>1, <1>2, <1>3, <1>4

LEMMA SameStr ==
  ASSUME NEW buf, NEW new, NEW o \in Nat, NEW s, Len(s) \in Nat, IsStr(buf, o, s),
         Same(buf, new, o, 4 + Len(s))
  PROVE  IsStr(new, o, s)
<1>1. Same(buf, new, o, 4)
      BY DEF Same
<1>2. \A i \in 1..Len(s) : new[(o + 4) + i] = buf[(o + 4) + i]
  <2>1. \A i \in 1..Len(s) : (o + 4) + i \in (o + 1)..(o + (4 + Len(s)))
        OBVIOUS
  <2> QED BY <2>1 DEF Same
<1> QED BY <1>1, <1>2, SameInts DEF IsStr

-------------------------------------------------------------------------------
(* marshall.                                                               *)

\* A marshall object: its cursor is inside its buffer.
Wf(a) == /\ a \in [buf : Seq(0..B), ind : Nat]
         /\ a.ind <= Len(a.buf) /\ Len(a.buf) >= RPC_HEADER_SZ

\* z is a with n bytes written at its cursor, and nothing else.
Wrote(a, z, n) == /\ Wf(z) /\ z.ind = a.ind + n /\ Len(z.buf) >= Len(a.buf)
                  /\ \A i \in 1..Len(a.buf) : i <= a.ind \/ i > z.ind => z.buf[i] = a.buf[i]

LEMMA WroteBoth ==
  ASSUME NEW a, NEW y, NEW z, Wf(a), NEW i \in Nat, NEW j \in Nat, Wrote(a, y, i), Wrote(y, z, j)
  PROVE  Wrote(a, z, i + j) /\ \A k \in 1..y.ind : z.buf[k] = y.buf[k]
<1>1. /\ a.ind \in Nat /\ y.ind \in Nat /\ z.ind \in Nat
      /\ Len(a.buf) \in Nat /\ Len(y.buf) \in Nat /\ Len(z.buf) \in Nat
      /\ y.ind <= Len(y.buf)
      BY DEF Wf, Wrote
<1>2. /\ y.ind = a.ind + i /\ z.ind = y.ind + j
      /\ Len(z.buf) >= Len(y.buf) /\ Len(y.buf) >= Len(a.buf)
      BY DEF Wrote
<1>6. /\ Wf(z)
      /\ \A k \in 1..Len(a.buf) : k <= a.ind \/ k > y.ind => y.buf[k] = a.buf[k]
      /\ \A k \in 1..Len(y.buf) : k <= y.ind \/ k > z.ind => z.buf[k] = y.buf[k]
      BY DEF Wrote
<1>3. ASSUME NEW k \in 1..Len(a.buf), k <= a.ind \/ k > z.ind PROVE z.buf[k] = a.buf[k]
  <2>1. k \in 1..Len(y.buf) /\ (k <= a.ind \/ k > y.ind) /\ (k <= y.ind \/ k > z.ind)
        BY <1>1, <1>2, <1>3
  <2> QED BY <1>6, <2>1
<1>4. \A k \in 1..y.ind : z.buf[k] = y.buf[k]
  <2>1. \A k \in 1..y.ind : k \in 1..Len(y.buf) /\ k <= y.ind
        BY <1>1
  <2> QED BY <1>6, <2>1
<1>5. z.ind = a.ind + (i + j) /\ Len(z.buf) >= Len(a.buf)
      BY SMTT(20), <1>1, <1>2
<1> QED BY <1>3, <1>4, <1>5, <1>6 DEF Wrote

\* A longer buffer keeps what the shorter one held.
LEMMA Grown ==
  ASSUME NEW buf \in Seq(0..B), NEW n \in Nat, n >= Len(buf)
  PROVE  /\ Realloc(buf, n) \in Seq(0..B) /\ Len(Realloc(buf, n)) = n
         /\ \A i \in 1..Len(buf) : Realloc(buf, n)[i] = buf[i]
<1>1. B \in 0..B
      BY Sizes
<1> DEFINE z == Realloc(buf, n)
<1>2. z = [i \in 1..n |-> IF i <= Len(buf) THEN buf[i] ELSE B]
      BY DEF Realloc, Junk
<1>3. \A i \in 1..n : z[i] \in 0..B
  <2>1. ASSUME NEW i \in 1..n, i <= Len(buf) PROVE buf[i] \in 0..B
    <3> DEFINE S == 0..B
    <3>1. i \in 1..Len(buf) /\ buf \in Seq(S)
          BY <2>1
    <3> HIDE DEF S
    <3>2. buf[i] \in S
          BY <3>1
    <3> QED BY <3>2 DEF S
  <2> QED BY <1>1, <1>2, <2>1
<1>4. z \in [1..n -> 0..B]
      BY <1>2, <1>3
<1>5. \A i \in 1..Len(buf) : z[i] = buf[i]
      BY <1>2
<1> HIDE DEF z
<1>6. z \in Seq(0..B) /\ Len(z) = n
  <2> DEFINE S == 0..B
  <2>1. z \in [1..n -> S]
        BY <1>4
  <2> HIDE DEF S
  <2>2. z \in Seq(S) /\ Len(z) = n
        BY <2>1
  <2> QED BY <2>2 DEF S
<1> QED BY <1>5, <1>6 DEF z

LEMMA WroteRawbyte ==
  ASSUME NEW a, Wf(a), NEW x \in Int
  PROVE  Wrote(a, Rawbyte(a, x), 1) /\ Is1(Rawbyte(a, x).buf, a.ind, x)
<1> DEFINE L == Len(a.buf)
           buf == IF a.ind >= L THEN Realloc(a.buf, 2 * L) ELSE a.buf
           new == [buf EXCEPT ![a.ind + 1] = x % B]
           z == Rawbyte(a, x)
<1>1. a.buf \in Seq(0..B) /\ L \in Nat /\ a.ind \in Nat /\ a.ind <= L /\ L >= 24
      BY Sizes DEF Wf
<1>2. /\ buf \in Seq(0..B) /\ Len(buf) >= L /\ a.ind + 1 <= Len(buf)
      /\ \A i \in 1..L : buf[i] = a.buf[i]
  <2>1. CASE a.ind >= L
    <3>1. 2 * L \in Nat /\ 2 * L >= L
          BY <1>1
    <3>2. /\ Realloc(a.buf, 2 * L) \in Seq(0..B) /\ Len(Realloc(a.buf, 2 * L)) = 2 * L
          /\ \A i \in 1..L : Realloc(a.buf, 2 * L)[i] = a.buf[i]
          BY <1>1, <3>1, Grown
    <3>3. a.ind + 1 <= 2 * L
          BY <1>1
    <3> QED BY <2>1, <3>1, <3>2, <3>3
  <2>2. CASE ~(a.ind >= L)
        BY <1>1, <2>2
  <2> QED BY <2>1, <2>2
<1>3. z = [buf |-> new, ind |-> a.ind + 1]
      BY DEF Rawbyte
<1>4. x % B \in 0..B
      BY Remainder, Sizes
<1> HIDE DEF buf
<1>5. a.ind + 1 \in 1..Len(buf)
      BY <1>1, <1>2
<1>6. /\ new \in Seq(0..B) /\ Len(new) = Len(buf) /\ new[a.ind + 1] = x % B
      /\ \A i \in 1..Len(buf) : i # a.ind + 1 => new[i] = buf[i]
      BY <1>2, <1>4, <1>5
<1> HIDE DEF new, z
<1>7. z.buf = new /\ z.ind = a.ind + 1 /\ z \in [buf : Seq(0..B), ind : Nat]
      BY <1>1, <1>3, <1>6
<1>8. Wf(z)
      BY <1>1, <1>2, <1>6, <1>7, Sizes DEF Wf
<1>9. ASSUME NEW i \in 1..L, i <= a.ind \/ i > z.ind PROVE z.buf[i] = a.buf[i]
  <2>1. i \in 1..Len(buf) /\ i # a.ind + 1
        BY <1>1, <1>2, <1>7, <1>9
  <2> QED BY <1>2, <1>6, <1>7, <2>1
<1>10. Wrote(a, z, 1)
       BY <1>2, <1>6, <1>7, <1>8, <1>9 DEF Wrote
<1> QED BY <1>6, <1>7, <1>10 DEF Is1, z

\* A further write behind o + n leaves what is there.
LEMMA StillThere ==
  ASSUME NEW a, NEW z, Wf(a), NEW j \in Nat, Wrote(a, z, j), NEW o \in Nat, NEW n \in Nat, o + n <= a.ind
  PROVE  Same(a.buf, z.buf, o, n)
<1>1. a.ind \in Nat /\ Len(a.buf) \in Nat /\ a.ind <= Len(a.buf)
      BY DEF Wf
<1>2. ASSUME NEW i \in (o + 1)..(o + n) PROVE z.buf[i] = a.buf[i]
  <2>1. i \in 1..Len(a.buf) /\ i <= a.ind
        BY <1>1
  <2> QED BY <2>1 DEF Wrote
<1> QED BY <1>2 DEF Same

LEMMA WroteShort ==
  ASSUME NEW a, Wf(a), NEW x \in Int
  PROVE  Wrote(a, PutShort(a, x), 2) /\ Is2(PutShort(a, x).buf, a.ind, x)
<1> DEFINE y == Rawbyte(a, x \div B)
           z == Rawbyte(y, x)
<1>1. a.ind \in Nat /\ x \div B \in Int /\ PutShort(a, x) = z
      BY Remainder, Sizes DEF Wf, PutShort
<1>2. Wrote(a, y, 1) /\ Is1(y.buf, a.ind, x \div B)
      BY <1>1, WroteRawbyte
<1>3. Wf(y) /\ y.ind = a.ind + 1
      BY <1>2 DEF Wrote
<1> HIDE DEF y
<1>4. Wrote(y, z, 1) /\ Is1(z.buf, y.ind, x)
      BY <1>3, WroteRawbyte
<1> HIDE DEF z
<1>5. Wrote(a, z, 2)
  <2>1. Wrote(a, z, 1 + 1)
        BY <1>2, <1>4, WroteBoth
  <2> QED BY <2>1
<1>6. Is1(z.buf, a.ind, x \div B)
  <2>1. a.ind + 1 <= y.ind
        BY <1>1, <1>3
  <2>2. Same(y.buf, z.buf, a.ind, 1)
        BY <1>1, <1>3, <1>4, <2>1, StillThere
  <2> QED BY <1>1, <1>2, <2>2, SameInts
<1> QED BY <1>1, <1>3, <1>4, <1>5, <1>6 DEF Is2

LEMMA WrotePack ==
  ASSUME NEW a, Wf(a), NEW x \in Int
  PROVE  Wrote(a, Pack(a, x), 4) /\ Is4(Pack(a, x).buf, a.ind, x)
<1> DEFINE y == PutShort(a, x \div H)
           z == PutShort(y, x)
<1>1. a.ind \in Nat /\ x \div H \in Int /\ Pack(a, x) = z
      BY Remainder, Sizes DEF Wf, Pack
<1>2. Wrote(a, y, 2) /\ Is2(y.buf, a.ind, x \div H)
      BY <1>1, WroteShort
<1>3. Wf(y) /\ y.ind = a.ind + 2
      BY <1>2 DEF Wrote
<1> HIDE DEF y
<1>4. Wrote(y, z, 2) /\ Is2(z.buf, y.ind, x)
      BY <1>3, WroteShort
<1> HIDE DEF z
<1>5. Wrote(a, z, 4)
  <2>1. Wrote(a, z, 2 + 2)
        BY <1>2, <1>4, WroteBoth
  <2> QED BY <2>1
<1>6. Is2(z.buf, a.ind, x \div H)
  <2>1. a.ind + 2 <= y.ind
        BY <1>1, <1>3
  <2>2. Same(y.buf, z.buf, a.ind, 2)
        BY <1>1, <1>3, <1>4, <2>1, StillThere
  <2> QED BY <1>1, <1>2, <2>2, SameInts
<1> QED BY <1>1, <1>3, <1>4, <1>5, <1>6 DEF Is4

\* Two ints: the halves of a long, or a pair of a map.
LEMMA WrotePair ==
  ASSUME NEW a, Wf(a), NEW k \in Int, NEW x \in Int
  PROVE  Wrote(a, PutPair(a, k, x), 8) /\ IsPair(PutPair(a, k, x).buf, a.ind, k, x)
<1> DEFINE y == Pack(a, k)
           z == Pack(y, x)
<1>1. a.ind \in Nat /\ PutPair(a, k, x) = z
      BY DEF Wf, PutPair
<1>2. Wrote(a, y, 4) /\ Is4(y.buf, a.ind, k)
      BY <1>1, WrotePack
<1>3. Wf(y) /\ y.ind = a.ind + 4
      BY <1>2 DEF Wrote
<1> HIDE DEF y
<1>4. Wrote(y, z, 4) /\ Is4(z.buf, y.ind, x)
      BY <1>3, WrotePack
<1> HIDE DEF z
<1>5. Wrote(a, z, 8)
  <2>1. Wrote(a, z, 4 + 4)
        BY <1>2, <1>4, WroteBoth
  <2> QED BY <2>1
<1>6. Is4(z.buf, a.ind, k)
  <2>1. a.ind + 4 <= y.ind
        BY <1>1, <1>3
  <2>2. Same(y.buf, z.buf, a.ind, 4)
        BY <1>1, <1>3, <1>4, <2>1, StillThere
  <2> QED BY <1>1, <1>2, <2>2, SameInts
<1> QED BY <1>1, <1>3, <1>4, <1>5, <1>6 DEF IsPair

LEMMA WroteLong ==
  ASSUME NEW a, Wf(a), NEW x \in Int
  PROVE  Wrote(a, PutLong(a, x), 8) /\ Is8(PutLong(a, x).buf, a.ind, x)
<1>1. x \div W \in Int
      BY Remainder, Sizes
<1>2. PutLong(a, x) = PutPair(a, x \div W, x)
      BY DEF PutLong, PutPair
<1>3. Wrote(a, PutPair(a, x \div W, x), 8) /\ IsPair(PutPair(a, x \div W, x).buf, a.ind, x \div W, x)
      BY <1>1, WrotePair
<1> QED BY <1>2, <1>3 DEF Is8, IsPair

LEMMA WroteRawbytes ==
  ASSUME NEW a, Wf(a), NEW p \in Seq(Byte)
  PROVE  /\ Wrote(a, Rawbytes(a, p), Len(p))
         /\ \A i \in 1..Len(p) : Rawbytes(a, p).buf[a.ind + i] = p[i]
<1> DEFINE L == Len(a.buf)
           n == Len(p)
           capa == IF L > n THEN 2 * L ELSE L + n
           buf == IF a.ind + n > L THEN Realloc(a.buf, capa) ELSE a.buf
           new == [i \in DOMAIN buf |-> IF i - a.ind \in 1..n THEN p[i - a.ind] ELSE buf[i]]
           z == Rawbytes(a, p)
<1>1. a.buf \in Seq(0..B) /\ L \in Nat /\ a.ind \in Nat /\ a.ind <= L /\ L >= 24 /\ n \in Nat
      BY Sizes DEF Wf
<1>2. /\ buf \in Seq(0..B) /\ Len(buf) >= L /\ a.ind + n <= Len(buf)
      /\ \A i \in 1..L : buf[i] = a.buf[i]
  <2>1. CASE a.ind + n > L
    <3>1. capa \in Nat /\ capa >= L /\ a.ind + n <= capa
          BY <1>1
    <3> HIDE DEF capa
    <3>2. /\ Realloc(a.buf, capa) \in Seq(0..B) /\ Len(Realloc(a.buf, capa)) = capa
          /\ \A i \in 1..L : Realloc(a.buf, capa)[i] = a.buf[i]
          BY <1>1, <3>1, Grown
    <3> QED BY <2>1, <3>1, <3>2
  <2>2. CASE ~(a.ind + n > L)
        BY <1>1, <2>2
  <2> QED BY <2>1, <2>2
<1>3. z = [buf |-> new, ind |-> a.ind + n]
      BY DEF Rawbytes
<1> HIDE DEF buf
<1> DEFINE S == 0..B
<1>4. buf \in Seq(S) /\ p \in Seq(S) /\ Len(buf) \in Nat
  <2>1. Byte \subseteq S
        BY Sizes DEF Byte
  <2>2. Len(p) \in Nat /\ \A i \in 1..Len(p) : p[i] \in Byte
        OBVIOUS
  <2> HIDE DEF S
  <2>3. \A i \in 1..Len(p) : p[i] \in S
        BY <2>1, <2>2
  <2>4. p \in Seq(S)
        BY <2>2, <2>3
  <2> QED BY <1>2, <2>4 DEF S
<1>5. z.buf = new /\ z.ind = a.ind + n
      BY <1>3
<1> HIDE DEF S, z
<1>6. new \in Seq(S) /\ Len(new) = Len(buf) /\ \A i \in 1..Len(buf) : new[i] = IF i - a.ind \in 1..n THEN p[i - a.ind] ELSE buf[i]
  <2>1. DOMAIN buf = 1..Len(buf)
        BY <1>4
  <2>2. \A i \in 1..Len(buf) : (IF i - a.ind \in 1..n THEN p[i - a.ind] ELSE buf[i]) \in S
        BY <1>4
  <2>3. new \in [1..Len(buf) -> S]
        BY <2>1, <2>2
  <2>4. \A i \in 1..Len(buf) : new[i] = IF i - a.ind \in 1..n THEN p[i - a.ind] ELSE buf[i]
        BY <2>1
  <2> HIDE DEF new
  <2> QED BY <1>4, <2>3, <2>4
<1> HIDE DEF new
<1>7. z \in [buf : Seq(0..B), ind : Nat] /\ Wf(z)
  <2>1. new \in Seq(0..B) /\ a.ind + n \in Nat
        BY <1>1, <1>6 DEF S
  <2>2. z \in [buf : Seq(0..B), ind : Nat]
        BY <1>3, <2>1
  <2> QED BY <1>1, <1>2, <1>4, <1>5, <1>6, <2>2, Sizes DEF Wf
<1>8. ASSUME NEW i \in 1..L, i <= a.ind \/ i > z.ind PROVE z.buf[i] = a.buf[i]
  <2>1. i \in 1..Len(buf) /\ i - a.ind \notin 1..n
        BY <1>1, <1>2, <1>4, <1>5, <1>8
  <2> QED BY <1>2, <1>5, <1>6, <2>1
<1>9. ASSUME NEW i \in 1..n PROVE z.buf[a.ind + i] = p[i]
  <2>1. a.ind + i \in 1..Len(buf) /\ (a.ind + i) - a.ind = i
        BY <1>1, <1>2, <1>4
  <2> QED BY <1>5, <1>6, <2>1
<1>10. Wrote(a, z, n)
       BY <1>2, <1>5, <1>6, <1>7, <1>8 DEF Wrote
<1> QED BY <1>9, <1>10 DEF z

LEMMA WroteString ==
  ASSUME NEW a, Wf(a), NEW s \in Seq(Byte)
  PROVE  Wrote(a, PutString(a, s), 4 + Len(s)) /\ IsStr(PutString(a, s).buf, a.ind, s)
<1> DEFINE y == Pack(a, Len(s))
           z == Rawbytes(y, s)
<1>1. a.ind \in Nat /\ Len(s) \in Nat /\ Len(s) \in Int /\ PutString(a, s) = z
      BY DEF Wf, PutString
<1>2. Wrote(a, y, 4) /\ Is4(y.buf, a.ind, Len(s))
      BY <1>1, WrotePack
<1>3. Wf(y) /\ y.ind = a.ind + 4
      BY <1>2 DEF Wrote
<1> HIDE DEF y
<1>4. Wrote(y, z, Len(s)) /\ \A i \in 1..Len(s) : z.buf[y.ind + i] = s[i]
      BY <1>3, WroteRawbytes
<1> HIDE DEF z
<1>5. Wrote(a, z, 4 + Len(s))
      BY <1>1, <1>2, <1>4, WroteBoth
<1>6. Is4(z.buf, a.ind, Len(s))
  <2>1. a.ind + 4 <= y.ind
        BY <1>1, <1>3
  <2>2. Same(y.buf, z.buf, a.ind, 4)
        BY <1>1, <1>3, <1>4, <2>1, StillThere
  <2> QED BY <1>1, <1>2, <2>2, SameInts
<1> QED BY <1>1, <1>3, <1>4, <1>5, <1>6 DEF IsStr

LEMMA WroteVector ==
  ASSUME NEW a, Wf(a), NEW v \in Seq(Seq(Byte))
  PROVE  /\ Strings(v) \in [1..Len(v) -> Nat]
         /\ Wrote(a, PutVector(a, v), 4 + Total(Strings(v)))
         /\ IsVec(PutVector(a, v).buf, a.ind, v)
<1> DEFINE n == Len(v)
           S == {y \in [buf : Seq(0..B), ind : Nat] : Wf(y)}
           F == [i \in 1..n |-> [y \in S |-> PutString(y, v[i])]]
           Loop(g) == g = [k \in 0..n |-> IF k = 0 THEN Pack(a, n) ELSE PutString(g[k - 1], v[k])]
           put == CHOOSE g : Loop(g)
           s == Strings(v)
           At(k) == (a.ind + 4) + Part(s, k)
           Q(k) == /\ Wrote(a, put[k], 4 + Part(s, k)) /\ Is4(put[k].buf, a.ind, n)
                   /\ \A i \in 1..k : IsStr(put[k].buf, At(i - 1), v[i])
           T == {k \in 0..n : Q(k)}
<1>1. n \in Nat /\ a.ind \in Nat /\ \A i \in 1..n : v[i] \in Seq(Byte) /\ Len(v[i]) \in Nat
      BY DEF Wf
<1>2. PutVector(a, v) = put[n]
      BY DEF PutVector
<1>3. s \in [1..n -> Nat] /\ \A i \in 1..n : s[i] = 4 + Len(v[i])
      BY <1>1 DEF Strings
<1>4. /\ Part(s, 0) = 0 /\ Part(s, n) = Total(s) /\ \A k \in 0..n : Part(s, k) \in Nat
      /\ \A k \in 1..n : Part(s, k) = Part(s, k - 1) + s[k]
      /\ \A j, k \in 0..n : j <= k => Part(s, j) <= Part(s, k)
  <2> HIDE DEF s, n
  <2> QED BY <1>1, <1>3, PartIs
<1>5. Wrote(a, Pack(a, n), 4) /\ Is4(Pack(a, n).buf, a.ind, n)
      BY <1>1, WrotePack
<1>6. \A y : Wf(y) => y \in S
      BY DEF Wf
<1>7. Loop(put)
  <2>1. F \in [1..n -> [S -> S]]
    <3>1. ASSUME NEW i \in 1..n, NEW y \in S PROVE PutString(y, v[i]) \in S
      <4>1. Wrote(y, PutString(y, v[i]), 4 + Len(v[i]))
            BY <1>1, WroteString
      <4>2. Wf(PutString(y, v[i]))
            BY <4>1 DEF Wrote
      <4> QED BY <1>6, <4>2
    <3> HIDE DEF S
    <3> QED BY <3>1
  <2>2. Pack(a, n) \in S
    <3>1. Wf(Pack(a, n))
          BY <1>5 DEF Wrote
    <3> QED BY <1>6, <3>1
  <2> HIDE DEF S
  <2>3. PICK f : IsRun(f, S, Pack(a, n), n, F)
    <3> HIDE DEF F
    <3> QED BY <1>1, <2>1, <2>2, RunExists
  <2>4. f \in [0..n -> S] /\ f[0] = Pack(a, n) /\ \A i \in 1..n : f[i] = F[i][f[i - 1]]
        BY <2>3 DEF IsRun
  <2>5. \A i \in 1..n : f[i] = PutString(f[i - 1], v[i])
    <3>1. \A i \in 1..n : i - 1 \in 0..n
          BY <1>1
    <3>2. \A i \in 1..n : f[i - 1] \in S
          BY <2>4, <3>1
    <3> QED BY <2>4, <3>2
  <2>6. Loop(f)
        BY <2>4, <2>5
  <2>7. \E x : Loop(x)
        BY <2>6
  <2> HIDE DEF Loop
  <2> QED BY <2>7
<1> HIDE DEF put, s, n
<1>8. put[0] = Pack(a, n) /\ \A k \in 1..n : put[k] = PutString(put[k - 1], v[k])
      BY <1>1, <1>7
<1>9. 0 \in T
      BY <1>1, <1>4, <1>5, <1>8
<1>10. ASSUME NEW k \in 0..(n - 1), k \in T PROVE k + 1 \in T
  <2> DEFINE y == put[k]
             z == put[k + 1]
  <2>1. Q(k) /\ k + 1 \in 1..n /\ (k + 1) - 1 = k /\ k \in 0..n /\ k \in Nat /\ k + 1 \in 0..n
        BY <1>1, <1>10
  <2>2. z = PutString(y, v[k + 1])
        BY <1>8, <2>1
  <2>3. Wf(y) /\ y.ind = At(k)
    <3>1. Part(s, k) \in Nat
          BY <1>4, <2>1
    <3>2. Wf(put[k]) /\ put[k].ind = a.ind + (4 + Part(s, k))
          BY <2>1 DEF Wrote
    <3>3. \A p, q \in Nat : p + (4 + q) = (p + 4) + q
          OBVIOUS
    <3>4. a.ind + (4 + Part(s, k)) = At(k)
          BY <1>1, <3>1, <3>3
    <3> QED BY <3>2, <3>4
  <2> HIDE DEF y, z
  <2>4. Wrote(y, z, s[k + 1]) /\ IsStr(z.buf, At(k), v[k + 1])
    <3>1. Wrote(y, PutString(y, v[k + 1]), 4 + Len(v[k + 1])) /\ IsStr(PutString(y, v[k + 1]).buf, y.ind, v[k + 1])
          BY <1>1, <2>1, <2>3, WroteString
    <3> HIDE DEF At
    <3> QED BY <1>3, <2>1, <2>2, <2>3, <3>1
  <2>5. Part(s, k + 1) = Part(s, k) + s[k + 1] /\ s[k + 1] \in Nat /\ Part(s, k) \in Nat
        BY <1>3, <1>4, <2>1
  <2>6. Wrote(a, z, 4 + Part(s, k + 1))
    <3> DEFINE i == 4 + Part(s, k)
               j == s[k + 1]
    <3>1. i \in Nat /\ j \in Nat /\ Wrote(a, y, i) /\ Wrote(y, z, j)
          BY <2>1, <2>4, <2>5 DEF y
    <3>2. i + j = 4 + Part(s, k + 1)
          BY <2>1, <2>5
    <3> HIDE DEF i, j
    <3>3. Wrote(a, z, i + j)
          BY <3>1, WroteBoth
    <3> QED BY <3>2, <3>3
  <2>7. Is4(z.buf, a.ind, n)
    <3>1. a.ind + 4 <= y.ind
          BY <1>1, <2>3, <2>5
    <3>2. Same(y.buf, z.buf, a.ind, 4)
          BY <1>1, <2>3, <2>4, <2>5, <3>1, StillThere
    <3> QED BY <1>1, <2>1, <3>2, SameInts DEF y
  <2>8. ASSUME NEW i \in 1..k PROVE IsStr(z.buf, At(i - 1), v[i])
    <3>1. i \in 1..n /\ i - 1 \in 0..n /\ i \in 0..n /\ i <= k
          BY <1>1, <2>1
    <3>2. /\ Part(s, i - 1) \in Nat /\ Part(s, i) = Part(s, i - 1) + (4 + Len(v[i]))
          /\ Part(s, i) <= Part(s, k) /\ Len(v[i]) \in Nat
          BY <1>1, <1>3, <1>4, <2>1, <3>1
    <3>3. At(i - 1) \in Nat /\ At(i - 1) + (4 + Len(v[i])) <= y.ind
      <4> DEFINE o == Part(s, i - 1)
      <4>1. o \in Nat /\ o + (4 + Len(v[i])) <= Part(s, k)
            BY <2>5, <3>2
      <4> HIDE DEF o
      <4> DEFINE p == a.ind
                 q == Part(s, k)
                 x == Len(v[i])
      <4>2. p \in Nat /\ q \in Nat /\ x \in Nat /\ y.ind = (p + 4) + q /\ o + (4 + x) <= q
            BY <1>1, <2>3, <2>5, <3>2, <4>1
      <4> HIDE DEF p, q, x
      <4>3. (p + 4) + o \in Nat /\ ((p + 4) + o) + (4 + x) <= y.ind
            BY <4>1, <4>2
      <4> QED BY <4>3 DEF o, p, x
    <3>4. IsStr(y.buf, At(i - 1), v[i])
          BY <2>1 DEF y
    <3> HIDE DEF At
    <3>5. Same(y.buf, z.buf, At(i - 1), 4 + Len(v[i]))
      <4> DEFINE o == At(i - 1)
                 x == 4 + Len(v[i])
      <4>1. o \in Nat /\ x \in Nat /\ o + x <= y.ind
            BY <3>2, <3>3
      <4> HIDE DEF o, x
      <4>2. Same(y.buf, z.buf, o, x)
            BY <2>3, <2>4, <2>5, <4>1, StillThere
      <4> QED BY <4>2 DEF o, x
    <3> QED BY <3>2, <3>3, <3>4, <3>5, SameStr
  <2>9. \A i \in 1..(k + 1) : IsStr(z.buf, At(i - 1), v[i])
    <3>1. \A i \in 1..(k + 1) : i \in 1..k \/ i = k + 1
          BY <2>1
    <3> HIDE DEF At
    <3> QED BY <2>1, <2>4, <2>8, <3>1
  <2>10. Q(k + 1)
         BY <2>6, <2>7, <2>9 DEF z
  <2> QED BY <2>1, <2>10
<1>11. Q(n)
  <2>1. n \in 0..n
        BY <1>1
  <2>2. n \in T
    <3> HIDE DEF T
    <3> QED BY <1>1, <1>9, <1>10, <2>1, UpTo
  <2> QED BY <2>2
<1>12. IsVec(put[n].buf, a.ind, v)
       BY <1>11 DEF IsVec, n, s
<1> QED BY <1>2, <1>3, <1>4, <1>11, <1>12 DEF n, s

\* A finite set of ints has an enumeration in order, and Keys is one.
Enum(k, K, n) == k \in [1..n -> K] /\ \A i, j \in 1..n : i < j => k[i] < k[j]

LEMMA Enumerable ==
  ASSUME NEW n \in Nat, NEW K \in SUBSET Int4, IsFiniteSet(K), Cardinality(K) = n
  PROVE  \E k : Enum(k, K, n)
<1> DEFINE P(i, X) == IsFiniteSet(X) /\ Cardinality(X) = i => \E k : Enum(k, X, i)
           T == {i \in 0..n : \A X \in SUBSET Int4 : P(i, X)}
<1>0. W \div 2 \in Nat /\ W \in Nat /\ W > W \div 2
      BY Sizes
<1>1. 0 \in T
  <2>1. ASSUME NEW X \in SUBSET Int4, IsFiniteSet(X), Cardinality(X) = 0 PROVE \E k : Enum(k, X, 0)
    <3> DEFINE k == [i \in 1..0 |-> CHOOSE x \in X : TRUE]
    <3>1. k \in [1..0 -> X] /\ \A i, j \in 1..0 : i < j => k[i] < k[j]
          OBVIOUS
    <3> HIDE DEF k
    <3> QED BY <3>1 DEF Enum
  <2> QED BY <2>1
<1>2. ASSUME NEW i \in 0..(n - 1), i \in T PROVE i + 1 \in T
  <2>1. ASSUME NEW X \in SUBSET Int4, IsFiniteSet(X), Cardinality(X) = i + 1
        PROVE  \E k : Enum(k, X, i + 1)
    <3>1. X # {} /\ i \in Nat
      <4>1. i \in Nat /\ i + 1 # 0
            OBVIOUS
      <4> QED BY <2>1, <4>1, FS_EmptySet
    <3>2. PICK top \in X : \A x \in X : x <= top
      <4> DEFINE D == {W - x : x \in X}
      <4>1. \A x \in X : x \in Int /\ W - x \in Nat
        <5>1. \A x \in Int4 : x \in Int /\ W - x \in Nat
              BY <1>0 DEF Int4
        <5> QED BY <5>1
      <4>2. D \subseteq Nat /\ D # {}
            BY <3>1, <4>1
      <4>3. PICK y \in D : \A z \in D : y <= z
            BY <4>2, LeastNatural
      <4>4. PICK t \in X : y = W - t
            BY <4>3
      <4>5. ASSUME NEW x \in X PROVE x <= t
        <5>1. W - t <= W - x /\ x \in Int /\ t \in Int
              BY <4>1, <4>3, <4>4
        <5> QED BY <1>0, <5>1
      <4> QED BY <4>5
    <3> DEFINE Y == X \ {top}
    <3>3. IsFiniteSet(Y) /\ Cardinality(Y) = i /\ Y \in SUBSET Int4
      <4>1. IsFiniteSet(Y) /\ Cardinality(Y) = (i + 1) - 1
            BY <2>1, <3>2, FS_RemoveElement
      <4>2. (i + 1) - 1 = i
            BY <3>1
      <4> QED BY <4>1, <4>2
    <3>4. PICK k : Enum(k, Y, i)
          BY <1>2, <3>3
    <3> DEFINE new == [j \in 1..(i + 1) |-> IF j = i + 1 THEN top ELSE k[j]]
    <3>5. k \in [1..i -> Y] /\ \A p, q \in 1..i : p < q => k[p] < k[q]
          BY <3>4 DEF Enum
    <3>6. \A j \in 1..(i + 1) : j = i + 1 \/ j \in 1..i
          BY <3>1
    <3>7. new \in [1..(i + 1) -> X]
          BY <3>2, <3>5, <3>6
    <3>8. ASSUME NEW p \in 1..(i + 1), NEW q \in 1..(i + 1), p < q PROVE new[p] < new[q]
      <4>1. p \in 1..i /\ p # i + 1
            BY <3>1, <3>8
      <4>2. CASE q = i + 1
        <5>1. new[p] = k[p] /\ new[q] = top /\ k[p] \in X /\ k[p] # top
              BY <3>5, <4>1, <4>2
        <5>2. k[p] <= top /\ k[p] \in Int /\ top \in Int
          <6>1. Int4 \subseteq Int
                BY <1>0 DEF Int4
          <6> QED BY <3>2, <5>1, <6>1
        <5>3. k[p] < top
              BY <5>1, <5>2
        <5> QED BY <5>1, <5>3
      <4>3. CASE q # i + 1
        <5>1. q \in 1..i /\ new[p] = k[p] /\ new[q] = k[q]
              BY <3>6, <4>1, <4>3
        <5> QED BY <3>5, <3>8, <4>1, <5>1
      <4> QED BY <4>2, <4>3
    <3> HIDE DEF new
    <3>9. Enum(new, X, i + 1)
          BY <3>7, <3>8 DEF Enum
    <3> QED BY <3>9
  <2>2. i + 1 \in 0..n
        OBVIOUS
  <2> QED BY <2>1, <2>2
<1>3. n \in T
  <2>1. n \in 0..n
        OBVIOUS
  <2> HIDE DEF T
  <2> QED BY <1>1, <1>2, <2>1, UpTo
<1> QED BY <1>3

LEMMA KeysIs ==
  ASSUME NEW d, IsFiniteSet(DOMAIN d), DOMAIN d \subseteq Int4
  PROVE  LET n == Cardinality(DOMAIN d)
             k == Keys(d)
         IN  /\ n \in Nat /\ k \in [1..n -> DOMAIN d] /\ Len(k) = n
             /\ \A i, j \in 1..n : k[i] = k[j] => i = j
             /\ \A x \in DOMAIN d : \E i \in 1..n : k[i] = x
<1> DEFINE K == DOMAIN d
           n == Cardinality(K)
           k == Keys(d)
<1>1. n \in Nat
      BY FS_CardinalityType
<1> HIDE DEF n
<1>2. PICK e : Enum(e, K, n)
      BY <1>1, Enumerable DEF n
<1>3. k \in [1..n -> K] /\ \A i, j \in 1..n : i < j => k[i] < k[j]
  <2>1. k = CHOOSE x \in [1..n -> K] : \A i, j \in DOMAIN x : i < j => x[i] < x[j]
        BY DEF Keys, n
  <2>2. e \in [1..n -> K] /\ \A i, j \in DOMAIN e : i < j => e[i] < e[j]
        BY <1>2 DEF Enum
  <2> HIDE DEF k
  <2>3. k \in [1..n -> K] /\ \A i, j \in DOMAIN k : i < j => k[i] < k[j]
        BY <2>1, <2>2
  <2> QED BY <2>3
<1> HIDE DEF k
<1>4. \A i, j \in 1..n : k[i] = k[j] => i = j
  <2> SUFFICES ASSUME NEW i \in 1..n, NEW j \in 1..n, k[i] = k[j], i # j PROVE FALSE
      OBVIOUS
  <2>1. k[i] \in Int
    <3>1. Int4 \subseteq Int
          BY Sizes DEF Int4
    <3>2. k[i] \in K
          BY <1>3
    <3> QED BY <3>1, <3>2
  <2>2. i < j \/ j < i
        BY <1>1
  <2>3. k[i] < k[j] \/ k[j] < k[i]
        BY <1>3, <2>2
  <2> QED BY <2>1, <2>3
<1>5. k \in Injection(1..n, K)
      BY <1>3, <1>4 DEF Injection, IsInjective
<1>6. Cardinality(1..n) = n
  <2>1. 1 \in Int /\ n \in Int /\ (IF 1 > n THEN 0 ELSE (n - 1) + 1) = n
        BY <1>1
  <2> QED BY <2>1, FS_Interval
<1>7. k \in Surjection(1..n, K)
      BY <1>5, <1>6, FS_Injection DEF n
<1>8. \A x \in K : \E i \in 1..n : k[i] = x
      BY <1>7 DEF Surjection
<1>9. Len(k) = n
      BY <1>1, <1>3
<1> QED BY <1>1, <1>3, <1>4, <1>8, <1>9 DEF n, k

LEMMA SamePair ==
  ASSUME NEW buf, NEW new, NEW o \in Nat, NEW k, NEW x, IsPair(buf, o, k, x), Same(buf, new, o, 8)
  PROVE  IsPair(new, o, k, x)
<1>1. Same(buf, new, o, 4) /\ Same(buf, new, o + 4, 4) /\ o + 4 \in Nat
      BY DEF Same
<1> QED BY <1>1, SameInts DEF IsPair

LEMMA WroteMap ==
  ASSUME NEW a, Wf(a), NEW d, IsFiniteSet(DOMAIN d), DOMAIN d \subseteq Int4, d \in [DOMAIN d -> Int4]
  PROVE  /\ Wrote(a, PutMap(a, d), 4 + 8 * Cardinality(DOMAIN d))
         /\ IsMap(PutMap(a, d).buf, a.ind, d)
<1> DEFINE K == Keys(d)
           n == Len(K)
           S == {y \in [buf : Seq(0..B), ind : Nat] : Wf(y)}
           F == [i \in 1..n |-> [y \in S |-> PutPair(y, K[i], d[K[i]])]]
           Loop(g) == g = [k \in 0..n |-> IF k = 0 THEN Pack(a, n) ELSE PutPair(g[k - 1], K[k], d[K[k]])]
           put == CHOOSE g : Loop(g)
           At(k) == (a.ind + 4) + 8 * k
           Q(k) == /\ Wrote(a, put[k], 4 + 8 * k) /\ Is4(put[k].buf, a.ind, n)
                   /\ \A i \in 1..k : IsPair(put[k].buf, At(i - 1), K[i], d[K[i]])
           T == {k \in 0..n : Q(k)}
<1>1. /\ n \in Nat /\ n = Cardinality(DOMAIN d) /\ a.ind \in Nat
      /\ \A i \in 1..n : K[i] \in Int /\ d[K[i]] \in Int
  <2>1. n = Cardinality(DOMAIN d) /\ n \in Nat /\ K \in [1..n -> DOMAIN d]
        BY KeysIs
  <2>2. Int4 \subseteq Int
        BY Sizes DEF Int4
  <2>3. a.ind \in Nat
        BY DEF Wf
  <2> HIDE DEF K, n
  <2>4. \A i \in 1..n : K[i] \in DOMAIN d
        BY <2>1
  <2> QED BY <2>1, <2>2, <2>3, <2>4
<1>2. PutMap(a, d) = put[n]
      BY DEF PutMap
<1> HIDE DEF K
<1>5. Wrote(a, Pack(a, n), 4) /\ Is4(Pack(a, n).buf, a.ind, n)
      BY <1>1, WrotePack
<1>6. \A y : Wf(y) => y \in S
      BY DEF Wf
<1>7. Loop(put)
  <2>1. F \in [1..n -> [S -> S]]
    <3>1. ASSUME NEW i \in 1..n, NEW y \in S PROVE PutPair(y, K[i], d[K[i]]) \in S
      <4>1. Wrote(y, PutPair(y, K[i], d[K[i]]), 8)
            BY <1>1, WrotePair
      <4>2. Wf(PutPair(y, K[i], d[K[i]]))
            BY <4>1 DEF Wrote
      <4> QED BY <1>6, <4>2
    <3> HIDE DEF S
    <3> QED BY <3>1
  <2>2. Pack(a, n) \in S
    <3>1. Wf(Pack(a, n))
          BY <1>5 DEF Wrote
    <3> QED BY <1>6, <3>1
  <2> HIDE DEF S
  <2>3. PICK f : IsRun(f, S, Pack(a, n), n, F)
    <3> HIDE DEF F
    <3> QED BY <1>1, <2>1, <2>2, RunExists
  <2>4. f \in [0..n -> S] /\ f[0] = Pack(a, n) /\ \A i \in 1..n : f[i] = F[i][f[i - 1]]
        BY <2>3 DEF IsRun
  <2>5. \A i \in 1..n : f[i] = PutPair(f[i - 1], K[i], d[K[i]])
    <3>1. \A i \in 1..n : i - 1 \in 0..n
          BY <1>1
    <3>2. \A i \in 1..n : f[i - 1] \in S
          BY <2>4, <3>1
    <3> QED BY <2>4, <3>2
  <2>6. Loop(f)
        BY <2>4, <2>5
  <2>7. \E x : Loop(x)
        BY <2>6
  <2> HIDE DEF Loop
  <2> QED BY <2>7
<1> HIDE DEF put, n
<1>8. put[0] = Pack(a, n) /\ \A k \in 1..n : put[k] = PutPair(put[k - 1], K[k], d[K[k]])
  <2>1. \A k \in 0..n : put[k] = IF k = 0 THEN Pack(a, n) ELSE PutPair(put[k - 1], K[k], d[K[k]])
        BY <1>7
  <2>2. 0 \in 0..n /\ \A k \in 1..n : k \in 0..n /\ k # 0
        BY <1>1
  <2> HIDE DEF Loop
  <2> QED BY <2>1, <2>2
<1>9. 0 \in T
      BY <1>1, <1>5, <1>8
<1>10. ASSUME NEW k \in 0..(n - 1), k \in T PROVE k + 1 \in T
  <2> DEFINE y == put[k]
             z == put[k + 1]
  <2>1. Q(k) /\ k + 1 \in 1..n /\ (k + 1) - 1 = k /\ k \in 0..n /\ k \in Nat /\ k + 1 \in 0..n
        BY <1>1, <1>10
  <2>2. z = PutPair(y, K[k + 1], d[K[k + 1]])
        BY <1>8, <2>1
  <2>3. Wf(y) /\ y.ind = At(k)
    <3>1. Wf(put[k]) /\ put[k].ind = a.ind + (4 + 8 * k)
          BY <2>1 DEF Wrote
    <3>2. a.ind + (4 + 8 * k) = At(k)
          BY <1>1, <2>1
    <3> QED BY <3>1, <3>2
  <2> HIDE DEF y, z
  <2>4. Wrote(y, z, 8) /\ IsPair(z.buf, At(k), K[k + 1], d[K[k + 1]])
    <3>1. K[k + 1] \in Int /\ d[K[k + 1]] \in Int
          BY <1>1, <2>1
    <3> HIDE DEF At
    <3> QED BY <2>2, <2>3, <3>1, WrotePair
  <2>6. Wrote(a, z, 4 + 8 * (k + 1))
    <3> DEFINE i == 4 + 8 * k
    <3>1. i \in Nat /\ Wrote(a, y, i) /\ i + 8 = 4 + 8 * (k + 1)
          BY <2>1 DEF y
    <3> HIDE DEF i
    <3>2. Wrote(a, z, i + 8)
          BY <2>4, <3>1, WroteBoth
    <3> QED BY <3>1, <3>2
  <2>7. Is4(z.buf, a.ind, n)
    <3>1. a.ind + 4 <= y.ind
          BY <1>1, <2>1, <2>3
    <3>2. Same(y.buf, z.buf, a.ind, 4)
          BY <1>1, <2>3, <2>4, <3>1, StillThere
    <3> QED BY <1>1, <2>1, <3>2, SameInts DEF y
  <2>8. ASSUME NEW i \in 1..k PROVE IsPair(z.buf, At(i - 1), K[i], d[K[i]])
    <3>1. At(i - 1) \in Nat /\ At(i - 1) + 8 <= y.ind
          BY <1>1, <2>1, <2>3
    <3>2. IsPair(y.buf, At(i - 1), K[i], d[K[i]])
          BY <2>1 DEF y
    <3> DEFINE o == At(i - 1)
    <3> HIDE DEF At, o
    <3>3. o \in Nat /\ o + 8 <= y.ind /\ IsPair(y.buf, o, K[i], d[K[i]])
          BY <3>1, <3>2 DEF o
    <3>4. Same(y.buf, z.buf, o, 8)
          BY <2>3, <2>4, <3>3, StillThere
    <3>5. IsPair(z.buf, o, K[i], d[K[i]])
          BY <3>3, <3>4, SamePair
    <3> QED BY <3>5 DEF o
  <2>9. \A i \in 1..(k + 1) : IsPair(z.buf, At(i - 1), K[i], d[K[i]])
    <3>1. \A i \in 1..(k + 1) : i \in 1..k \/ i = k + 1
          BY <2>1
    <3> HIDE DEF At
    <3> QED BY <2>1, <2>4, <2>8, <3>1
  <2>10. Q(k + 1)
         BY <2>6, <2>7, <2>9 DEF z
  <2> QED BY <2>1, <2>10
<1>11. Q(n)
  <2>1. n \in 0..n
        BY <1>1
  <2>2. n \in T
    <3> HIDE DEF T
    <3> QED BY <1>1, <1>9, <1>10, <2>1, UpTo
  <2> QED BY <2>2
<1>12. IsMap(put[n].buf, a.ind, d)
       BY <1>11 DEF IsMap, n, K
<1> QED BY <1>1, <1>2, <1>11, <1>12

\* The kinds of types, by what their values look like on the wire.
LEMMA Kinds ==
  ASSUME NEW t \in TypeNames, NEW v, IsValue(t, v)
  PROVE  \/ t = "bool" /\ v \in BOOLEAN
         \/ t \in {"char", "uchar"} /\ v \in Int
         \/ t \in {"short", "ushort"} /\ v \in Int
         \/ t \in {"int", "uint"} /\ v \in Int
         \/ t = "ull" /\ v \in Int
         \/ t = "string" /\ v \in Seq(Byte) /\ Len(v) \in Uint
         \/ t = "vector" /\ v \in Seq(Seq(Byte)) /\ Len(v) \in Uint /\ \A i \in 1..Len(v) : Len(v[i]) \in Uint
         \/ t = "map" /\ IsFiniteSet(DOMAIN v) /\ Cardinality(DOMAIN v) \in Uint
                      /\ DOMAIN v \subseteq Int4 /\ v \in [DOMAIN v -> Int4]
<1>1. B \in Nat /\ H \in Nat /\ W \in Nat /\ W * W \in Nat
      BY Sizes
<1>2. CASE t = "bool"
      BY <1>2 DEF IsValue
<1>3. CASE t = "char"
  <2>1. v \in -(B \div 2)..(B \div 2 - 1)
        BY <1>3 DEF IsValue
  <2> QED BY <1>1, <1>3, <2>1
<1>4. CASE t = "uchar"
  <2>1. v \in 0..(B - 1)
        BY <1>4 DEF IsValue, Byte
  <2> QED BY <1>1, <1>4, <2>1
<1>5. CASE t = "short"
  <2>1. v \in -(H \div 2)..(H \div 2 - 1)
        BY <1>5 DEF IsValue
  <2> QED BY <1>1, <1>5, <2>1
<1>6. CASE t = "ushort"
  <2>1. v \in 0..(H - 1)
        BY <1>6 DEF IsValue
  <2> QED BY <1>1, <1>6, <2>1
<1>7. CASE t = "int"
  <2>1. v \in -(W \div 2)..(W \div 2 - 1)
        BY <1>7 DEF IsValue, Int4
  <2> QED BY <1>1, <1>7, <2>1
<1>8. CASE t = "uint"
  <2>1. v \in 0..(W - 1)
        BY <1>8 DEF IsValue, Uint
  <2> QED BY <1>1, <1>8, <2>1
<1>9. CASE t = "ull"
  <2>1. v \in 0..(W * W - 1)
        BY <1>9 DEF IsValue
  <2> QED BY <1>1, <1>9, <2>1
<1>10. CASE t = "string"
       BY <1>10 DEF IsValue, IsString
<1>11. CASE t = "vector"
  <2>1. v \in Seq(Seq(Byte)) /\ Len(v) \in Uint /\ \A i \in DOMAIN v : Len(v[i]) \in Uint
        BY <1>11 DEF IsValue, IsString
  <2>2. DOMAIN v = 1..Len(v)
        BY <2>1
  <2> QED BY <1>11, <2>1, <2>2
<1>12. CASE t = "map"
       BY <1>12 DEF IsValue
<1> QED BY <1>2, <1>3, <1>4, <1>5, <1>6, <1>7, <1>8, <1>9, <1>10, <1>11, <1>12 DEF TypeNames

\* operator<< writes a value's bytes, and nothing else.
LEMMA WrotePut ==
  ASSUME NEW a, Wf(a), NEW t \in TypeNames, NEW v, IsValue(t, v)
  PROVE  /\ Size(t, v) \in Nat
         /\ Wrote(a, Put(a, t, v), Size(t, v)) /\ Holds(Put(a, t, v).buf, a.ind, t, v)
<1>1. CASE t = "bool" /\ v \in BOOLEAN
  <2>1. Put(a, t, v) = Rawbyte(a, IF v THEN 1 ELSE 0) /\ Size(t, v) = 1
        BY <1>1 DEF Put, Size
  <2>2. (IF v THEN 1 ELSE 0) \in Int
        OBVIOUS
  <2>3. Wrote(a, Put(a, t, v), 1) /\ Is1(Put(a, t, v).buf, a.ind, IF v THEN 1 ELSE 0)
        BY <2>1, <2>2, WroteRawbyte
  <2> QED BY <1>1, <2>1, <2>3 DEF Holds
<1>2. CASE t \in {"char", "uchar"} /\ v \in Int
  <2>1. Put(a, t, v) = Rawbyte(a, v) /\ Size(t, v) = 1
        BY <1>2 DEF Put, Size
  <2>2. Wrote(a, Put(a, t, v), 1) /\ Is1(Put(a, t, v).buf, a.ind, v)
        BY <1>2, <2>1, WroteRawbyte
  <2> QED BY <1>2, <2>1, <2>2 DEF Holds
<1>3. CASE t \in {"short", "ushort"} /\ v \in Int
  <2>1. Put(a, t, v) = PutShort(a, v) /\ Size(t, v) = 2
        BY <1>3 DEF Put, Size
  <2>2. Wrote(a, Put(a, t, v), 2) /\ Is2(Put(a, t, v).buf, a.ind, v)
        BY <1>3, <2>1, WroteShort
  <2> QED BY <1>3, <2>1, <2>2 DEF Holds
<1>4. CASE t \in {"int", "uint"} /\ v \in Int
  <2>1. Put(a, t, v) = Pack(a, v) /\ Size(t, v) = 4
        BY <1>4 DEF Put, Size
  <2>2. Wrote(a, Put(a, t, v), 4) /\ Is4(Put(a, t, v).buf, a.ind, v)
        BY <1>4, <2>1, WrotePack
  <2> QED BY <1>4, <2>1, <2>2 DEF Holds
<1>5. CASE t = "ull" /\ v \in Int
  <2>1. Put(a, t, v) = PutLong(a, v) /\ Size(t, v) = 8
        BY <1>5 DEF Put, Size
  <2>2. Wrote(a, Put(a, t, v), 8) /\ Is8(Put(a, t, v).buf, a.ind, v)
        BY <1>5, <2>1, WroteLong
  <2> QED BY <1>5, <2>1, <2>2 DEF Holds
<1>6. CASE t = "string" /\ v \in Seq(Byte)
  <2>1. Put(a, t, v) = PutString(a, v) /\ Size(t, v) = 4 + Len(v)
        BY <1>6 DEF Put, Size
  <2>2. Wrote(a, Put(a, t, v), Size(t, v)) /\ IsStr(Put(a, t, v).buf, a.ind, v)
        BY <1>6, <2>1, WroteString
  <2>3. Size(t, v) \in Nat
        BY <1>6, <2>1
  <2> QED BY <1>6, <2>2, <2>3 DEF Holds
<1>7. CASE t = "vector" /\ v \in Seq(Seq(Byte))
  <2>1. Put(a, t, v) = PutVector(a, v) /\ Size(t, v) = 4 + Total(Strings(v))
        BY <1>7 DEF Put, Size, Strings
  <2>2. Wrote(a, Put(a, t, v), Size(t, v)) /\ IsVec(Put(a, t, v).buf, a.ind, v)
        BY <1>7, <2>1, WroteVector
  <2>3. Size(t, v) \in Nat
    <3>1. Len(v) \in Nat /\ Len(v) \in 0..Len(v) /\ Strings(v) \in [1..Len(v) -> Nat]
          BY <1>7, WroteVector
    <3>2. Total(Strings(v)) \in Nat
          BY <3>1, PartIs
    <3> QED BY <2>1, <3>2
  <2> QED BY <1>7, <2>2, <2>3 DEF Holds
<1>8. CASE t = "map" /\ IsFiniteSet(DOMAIN v) /\ DOMAIN v \subseteq Int4 /\ v \in [DOMAIN v -> Int4]
  <2>1. Put(a, t, v) = PutMap(a, v) /\ Size(t, v) = 4 + 8 * Cardinality(DOMAIN v)
        BY <1>8 DEF Put, Size
  <2>2. Wrote(a, Put(a, t, v), Size(t, v)) /\ IsMap(Put(a, t, v).buf, a.ind, v)
        BY <1>8, <2>1, WroteMap
  <2>3. Size(t, v) \in Nat
    <3>1. Cardinality(DOMAIN v) \in Nat
          BY <1>8, FS_CardinalityType
    <3> QED BY <2>1, <3>1
  <2> QED BY <1>8, <2>2, <2>3 DEF Holds
<1> QED BY <1>1, <1>2, <1>3, <1>4, <1>5, <1>6, <1>7, <1>8, Kinds

LEMMA SameHolds ==
  ASSUME NEW buf, NEW new, NEW o \in Nat, NEW t \in TypeNames, NEW v, IsValue(t, v),
         Holds(buf, o, t, v), Same(buf, new, o, Size(t, v))
  PROVE  Holds(new, o, t, v)
<1>1. CASE t \in {"bool", "char", "uchar", "short", "ushort", "int", "uint", "ull"}
  <2>1. /\ t \in {"bool", "char", "uchar"} => Size(t, v) = 1
        /\ t \in {"short", "ushort"} => Size(t, v) = 2
        /\ t \in {"int", "uint"} => Size(t, v) = 4
        /\ t = "ull" => Size(t, v) = 8
        BY DEF Size
  <2> QED BY <1>1, <2>1, SameInts DEF Holds
<1>2. CASE t = "string" /\ v \in Seq(Byte)
  <2>1. Size(t, v) = 4 + Len(v) /\ Len(v) \in Nat
        BY <1>2 DEF Size
  <2> QED BY <1>2, <2>1, SameStr DEF Holds
<1>3. CASE t = "vector" /\ v \in Seq(Seq(Byte))
  <2> DEFINE s == Strings(v)
             n == Len(v)
  <2>1. Size(t, v) = 4 + Total(s) /\ IsVec(buf, o, v) /\ n \in Nat
        BY <1>3 DEF Size, Strings, Holds
  <2>2. s \in [1..n -> Nat] /\ \A i \in 1..n : s[i] = 4 + Len(v[i]) /\ Len(v[i]) \in Nat
    <3>1. \A i \in 1..n : Len(v[i]) \in Nat
          BY <1>3
    <3> QED BY <3>1 DEF Strings
  <2>3. IsVec(buf, o, v) <=> Is4(buf, o, n) /\ \A i \in 1..n : IsStr(buf, (o + 4) + Part(s, i - 1), v[i])
        BY DEF IsVec
  <2>4. IsVec(new, o, v) <=> Is4(new, o, n) /\ \A i \in 1..n : IsStr(new, (o + 4) + Part(s, i - 1), v[i])
        BY DEF IsVec
  <2> HIDE DEF s, n
  <2>5. /\ Part(s, n) = Total(s) /\ \A k \in 0..n : Part(s, k) \in Nat
        /\ \A k \in 1..n : Part(s, k) = Part(s, k - 1) + s[k]
        /\ \A j, k \in 0..n : j <= k => Part(s, j) <= Part(s, k)
        BY <2>1, <2>2, PartIs
  <2>6. Total(s) \in Nat
    <3>1. n \in 0..n
          BY <2>1
    <3> QED BY <2>5, <3>1
  <2>7. Is4(new, o, n)
    <3>1. Same(buf, new, o, 4)
          BY <2>1, <2>6 DEF Same
    <3> QED BY <2>1, <2>3, <3>1, SameInts
  <2>8. ASSUME NEW i \in 1..n PROVE IsStr(new, (o + 4) + Part(s, i - 1), v[i])
    <3> DEFINE p == Part(s, i - 1)
               q == (o + 4) + p
               l == Len(v[i])
    <3>1. i - 1 \in 0..n /\ i \in 0..n /\ n \in 0..n /\ i <= n
          BY <2>1
    <3>2. p \in Nat /\ l \in Nat /\ p + (4 + l) <= Total(s)
          BY <2>2, <2>5, <3>1
    <3>3. IsStr(buf, q, v[i])
          BY <2>1, <2>3
    <3> HIDE DEF p, l
    <3>4. q \in Nat /\ Same(buf, new, q, 4 + l)
          BY <2>1, <2>6, <3>2 DEF Same
    <3> HIDE DEF q
    <3>5. IsStr(new, q, v[i])
          BY <3>2, <3>3, <3>4, SameStr DEF l
    <3> QED BY <3>5 DEF p, q
  <2>9. IsVec(new, o, v)
        BY <2>4, <2>7, <2>8
  <2> QED BY <1>3, <2>9 DEF Holds
<1>4. CASE t = "map" /\ IsFiniteSet(DOMAIN v) /\ DOMAIN v \subseteq Int4
  <2> DEFINE K == Keys(v)
             n == Len(K)
  <2>1. Size(t, v) = 4 + 8 * n /\ IsMap(buf, o, v) /\ n \in Nat
    <3>1. n = Cardinality(DOMAIN v) /\ n \in Nat
          BY <1>4, KeysIs
    <3> QED BY <1>4, <3>1 DEF Size, Holds
  <2>2. Is4(buf, o, n) /\ \A i \in 1..n : IsPair(buf, (o + 4) + 8 * (i - 1), K[i], v[K[i]])
        BY <2>1 DEF IsMap
  <2> HIDE DEF K, n
  <2>3. Is4(new, o, n)
    <3>1. Same(buf, new, o, 4)
          BY <2>1 DEF Same
    <3> QED BY <2>1, <2>2, <3>1, SameInts
  <2>4. ASSUME NEW i \in 1..n PROVE IsPair(new, (o + 4) + 8 * (i - 1), K[i], v[K[i]])
    <3> DEFINE q == (o + 4) + 8 * (i - 1)
    <3>1. q \in Nat /\ Same(buf, new, q, 8)
          BY <2>1 DEF Same
    <3>2. IsPair(buf, q, K[i], v[K[i]])
          BY <2>2
    <3> HIDE DEF q
    <3>3. IsPair(new, q, K[i], v[K[i]])
          BY <3>1, <3>2, SamePair
    <3> QED BY <3>3 DEF q
  <2>5. IsMap(new, o, v)
        BY <2>3, <2>4 DEF IsMap, K, n
  <2> QED BY <1>4, <2>5 DEF Holds
<1> QED BY <1>1, <1>2, <1>3, <1>4, Kinds

-------------------------------------------------------------------------------
(* unmarshall.                                                             *)

\* An unmarshall object: its cursor is inside its buffer.
Uf(x) == /\ x \in [buf : Seq(0..B), ind : Nat, ok : BOOLEAN, past : BOOLEAN]
         /\ x.ind <= Len(x.buf)

\* y is x after n bytes have been read or found missing.
Read(x, y, n) == /\ Uf(y) /\ y.buf = x.buf /\ y.past = x.past
                 /\ y.ok => x.ok /\ y.ind = x.ind + n
                 /\ x.ok /\ x.ind + n <= Len(x.buf) => y.ok

\* x has n bytes to read.
Has(x, n) == x.ok /\ x.ind + n <= Len(x.buf)

LEMMA ReadBoth ==
  ASSUME NEW x, NEW y, NEW z, Uf(x), NEW i \in Nat, NEW j \in Nat, Read(x, y, i), Read(y, z, j)
  PROVE  Read(x, z, i + j) /\ (Has(x, i + j) => Has(x, i) /\ Has(y, j) /\ y.ind = x.ind + i)
<1>1. x.ind \in Nat /\ y.ind \in Nat /\ z.ind \in Nat /\ Len(x.buf) \in Nat
      BY DEF Uf, Read
<1>2. /\ y.buf = x.buf /\ y.past = x.past /\ z.buf = y.buf /\ z.past = y.past /\ Uf(z)
      /\ y.ok => x.ok /\ y.ind = x.ind + i
      /\ z.ok => y.ok /\ z.ind = y.ind + j
      /\ x.ok /\ x.ind + i <= Len(x.buf) => y.ok
      /\ y.ok /\ y.ind + j <= Len(y.buf) => z.ok
      BY DEF Read
<1>3. z.ok => x.ok /\ z.ind = x.ind + (i + j)
      BY <1>1, <1>2
<1>4. ASSUME x.ok, x.ind + (i + j) <= Len(x.buf)
      PROVE  x.ind + i <= Len(x.buf) /\ y.ok /\ y.ind = x.ind + i /\ y.ind + j <= Len(y.buf) /\ z.ok
  <2>1. x.ind + i <= Len(x.buf)
        BY <1>1, <1>4
  <2>2. y.ok /\ y.ind = x.ind + i
        BY <1>2, <1>4, <2>1
  <2>3. y.ind + j <= Len(y.buf)
        BY <1>1, <1>2, <1>4, <2>2
  <2> QED BY <1>2, <2>1, <2>2, <2>3
<1> QED BY <1>2, <1>3, <1>4 DEF Read, Has

LEMMA ReadRaw ==
  ASSUME NEW x, Uf(x)
  PROVE  /\ Read(x, GetRaw(x).u, 1) /\ GetRaw(x).v \in Int
         /\ Has(x, 1) => GetRaw(x).v = Signed(x.buf[x.ind + 1], B) % W
<1> DEFINE y == GetRaw(x)
<1>1. /\ x.ind \in Nat /\ Len(x.buf) \in Nat /\ x.ind <= Len(x.buf)
      /\ x \in [buf : Seq(0..B), ind : Nat, ok : BOOLEAN, past : BOOLEAN]
      BY DEF Uf
<1>2. CASE x.ind >= Len(x.buf)
  <2>1. y = [u |-> [x EXCEPT !.ok = FALSE], v |-> 0]
        BY <1>2 DEF GetRaw
  <2> DEFINE z == [x EXCEPT !.ok = FALSE]
  <2>2. z \in [buf : Seq(0..B), ind : Nat, ok : BOOLEAN, past : BOOLEAN]
        BY <1>1
  <2>3. z.buf = x.buf /\ z.ind = x.ind /\ z.ok = FALSE /\ z.past = x.past
        BY <1>1
  <2>4. y.u = z /\ y.v = 0
        BY <2>1
  <2> HIDE DEF z, y
  <2>5. Uf(z)
        BY <1>1, <2>2, <2>3 DEF Uf
  <2>6. ~Has(x, 1)
        BY <1>1, <1>2 DEF Has
  <2>7. Read(x, z, 1)
        BY <2>3, <2>5, <2>6 DEF Read, Has
  <2> QED BY <2>4, <2>6, <2>7 DEF y
<1>3. CASE ~(x.ind >= Len(x.buf))
  <2> DEFINE z == [x EXCEPT !.ind = @ + 1]
             c == x.buf[x.ind + 1]
  <2>1. y = [u |-> z, v |-> Signed(c, B) % W]
        BY <1>3 DEF GetRaw
  <2>2. z \in [buf : Seq(0..B), ind : Nat, ok : BOOLEAN, past : BOOLEAN]
        BY <1>1
  <2>3. z.buf = x.buf /\ z.ind = x.ind + 1 /\ z.ok = x.ok /\ z.past = x.past
        BY <1>1
  <2>4. y.u = z /\ y.v = Signed(c, B) % W
        BY <2>1
  <2>5. c \in 0..B
    <3>1. x.ind + 1 \in 1..Len(x.buf)
          BY <1>1, <1>3
    <3> DEFINE S == 0..B
    <3>2. x.buf \in Seq(S)
          BY <1>1
    <3> HIDE DEF S
    <3>3. c \in S
          BY <3>1, <3>2
    <3> QED BY <3>3 DEF S
  <2> HIDE DEF z, y, c
  <2>6. Uf(z)
    <3>1. z.ind <= Len(z.buf)
          BY <1>1, <1>3, <2>3
    <3> QED BY <2>2, <3>1 DEF Uf
  <2>7. Read(x, z, 1)
        BY <2>3, <2>6 DEF Read
  <2>8. Signed(c, B) % W \in Int
        BY <2>5, ByteBack
  <2> QED BY <2>4, <2>7, <2>8 DEF y, c
<1> QED BY <1>2, <1>3

LEMMA ReadUchar ==
  ASSUME NEW x, Uf(x)
  PROVE  /\ Read(x, GetUchar(x).u, 1) /\ GetUchar(x).v \in 0..(B - 1)
         /\ \A c \in Int : Has(x, 1) /\ Is1(x.buf, x.ind, c) => GetUchar(x).v = c % B
<1> DEFINE y == GetRaw(x)
<1>1. GetUchar(x).u = y.u /\ GetUchar(x).v = y.v % B
      BY DEF GetUchar, LowByte
<1>2. /\ Read(x, y.u, 1) /\ y.v \in Int
      /\ Has(x, 1) => y.v = Signed(x.buf[x.ind + 1], B) % W
      BY ReadRaw
<1> HIDE DEF y
<1>3. y.v % B \in 0..(B - 1)
      BY <1>2, Remainder, Sizes
<1>4. ASSUME NEW c \in Int, Has(x, 1), Is1(x.buf, x.ind, c) PROVE y.v % B = c % B
  <2>1. x.buf[x.ind + 1] = c % B
        BY <1>4 DEF Is1
  <2>2. c % B \in 0..B /\ c % B < B
        BY Remainder, Sizes
  <2> QED BY <1>2, <1>4, <2>1, <2>2, ByteBack
<1> QED BY <1>1, <1>2, <1>3, <1>4

\* Reading the upper half and then the lower one.
LEMMA Halves ==
  ASSUME NEW n \in Nat, n > 0, NEW p \in 0..(n - 1), NEW q \in 0..(n - 1)
  PROVE  p * n + q \in 0..(n * n - 1)
<1>1. 0 <= p * n /\ p * n <= (n - 1) * n /\ (n - 1) * n = n * n - n /\ p * n \in Int /\ n * n \in Int
      OBVIOUS
<1> QED BY <1>1

LEMMA ReadUshort ==
  ASSUME NEW x, Uf(x)
  PROVE  /\ Read(x, GetUshort(x).u, 2) /\ GetUshort(x).v \in 0..(H - 1)
         /\ \A c \in Int : Has(x, 2) /\ Is2(x.buf, x.ind, c) => GetUshort(x).v = c % H
<1> DEFINE p == GetUchar(x)
           q == GetUchar(p.u)
<1>1. GetUshort(x).u = q.u /\ GetUshort(x).v = p.v * B + q.v
      BY DEF GetUshort, Join
<1>2. /\ Read(x, p.u, 1) /\ p.v \in 0..(B - 1)
      /\ \A c \in Int : Has(x, 1) /\ Is1(x.buf, x.ind, c) => p.v = c % B
      BY ReadUchar
<1>3. Uf(p.u) /\ p.u.buf = x.buf
      BY <1>2 DEF Read
<1> HIDE DEF p
<1>4. /\ Read(p.u, q.u, 1) /\ q.v \in 0..(B - 1)
      /\ \A c \in Int : Has(p.u, 1) /\ Is1(p.u.buf, p.u.ind, c) => q.v = c % B
      BY <1>3, ReadUchar
<1> HIDE DEF q
<1>5. Read(x, q.u, 2) /\ (Has(x, 2) => Has(x, 1) /\ Has(p.u, 1) /\ p.u.ind = x.ind + 1)
  <2>1. Read(x, q.u, 1 + 1) /\ (Has(x, 1 + 1) => Has(x, 1) /\ Has(p.u, 1) /\ p.u.ind = x.ind + 1)
        BY <1>2, <1>4, ReadBoth
  <2>2. 1 + 1 = 2
        OBVIOUS
  <2> QED BY <2>1, <2>2
<1>6. p.v * B + q.v \in 0..(H - 1)
      BY <1>2, <1>4, Halves, Sizes DEF H
<1>7. ASSUME NEW c \in Int, Has(x, 2), Is2(x.buf, x.ind, c) PROVE p.v * B + q.v = c % H
  <2>1. Is1(x.buf, x.ind, c \div B) /\ Is1(x.buf, x.ind + 1, c) /\ c \div B \in Int
        BY <1>7, Remainder, Sizes DEF Is2
  <2>2. p.v = (c \div B) % B /\ q.v = c % B
        BY <1>2, <1>3, <1>4, <1>5, <1>7, <2>1
  <2>3. ((c \div B) % B) * B + (c % B) = c % (B * B)
    <3>1. B \in Nat /\ B > 0
          BY Sizes
    <3> QED BY <3>1, Digits
  <2> QED BY <2>2, <2>3 DEF H
<1> QED BY <1>1, <1>5, <1>6, <1>7

LEMMA ReadUint ==
  ASSUME NEW x, Uf(x)
  PROVE  /\ Read(x, GetUint(x).u, 4) /\ GetUint(x).v \in 0..(W - 1)
         /\ \A c \in Int : Has(x, 4) /\ Is4(x.buf, x.ind, c) => GetUint(x).v = c % W
<1> DEFINE p == GetUshort(x)
           q == GetUshort(p.u)
<1>1. GetUint(x).u = q.u /\ GetUint(x).v = p.v * H + q.v
      BY DEF GetUint, Join
<1>2. /\ Read(x, p.u, 2) /\ p.v \in 0..(H - 1)
      /\ \A c \in Int : Has(x, 2) /\ Is2(x.buf, x.ind, c) => p.v = c % H
      BY ReadUshort
<1>3. Uf(p.u) /\ p.u.buf = x.buf
      BY <1>2 DEF Read
<1> HIDE DEF p
<1>4. /\ Read(p.u, q.u, 2) /\ q.v \in 0..(H - 1)
      /\ \A c \in Int : Has(p.u, 2) /\ Is2(p.u.buf, p.u.ind, c) => q.v = c % H
      BY <1>3, ReadUshort
<1> HIDE DEF q
<1>5. Read(x, q.u, 4) /\ (Has(x, 4) => Has(x, 2) /\ Has(p.u, 2) /\ p.u.ind = x.ind + 2)
  <2>1. Read(x, q.u, 2 + 2) /\ (Has(x, 2 + 2) => Has(x, 2) /\ Has(p.u, 2) /\ p.u.ind = x.ind + 2)
        BY <1>2, <1>4, ReadBoth
  <2>2. 2 + 2 = 4
        OBVIOUS
  <2> QED BY <2>1, <2>2
<1>6. p.v * H + q.v \in 0..(W - 1)
      BY <1>2, <1>4, Halves, Sizes DEF W
<1>7. ASSUME NEW c \in Int, Has(x, 4), Is4(x.buf, x.ind, c) PROVE p.v * H + q.v = c % W
  <2>1. Is2(x.buf, x.ind, c \div H) /\ Is2(x.buf, x.ind + 2, c) /\ c \div H \in Int
        BY <1>7, Remainder, Sizes DEF Is4
  <2>2. p.v = (c \div H) % H /\ q.v = c % H
        BY <1>2, <1>3, <1>4, <1>5, <1>7, <2>1
  <2>3. ((c \div H) % H) * H + (c % H) = c % (H * H)
        BY Digits, Sizes
  <2> QED BY <2>2, <2>3 DEF W
<1> QED BY <1>1, <1>5, <1>6, <1>7

LEMMA ReadUlong ==
  ASSUME NEW x, Uf(x)
  PROVE  /\ Read(x, GetUlong(x).u, 8) /\ GetUlong(x).v \in 0..(W * W - 1)
         /\ \A c \in Int : Has(x, 8) /\ Is8(x.buf, x.ind, c) => GetUlong(x).v = c % (W * W)
<1> DEFINE p == GetUint(x)
           q == GetUint(p.u)
<1>1. GetUlong(x).u = q.u /\ GetUlong(x).v = p.v * W + q.v
      BY DEF GetUlong, Join
<1>2. /\ Read(x, p.u, 4) /\ p.v \in 0..(W - 1)
      /\ \A c \in Int : Has(x, 4) /\ Is4(x.buf, x.ind, c) => p.v = c % W
      BY ReadUint
<1>3. Uf(p.u) /\ p.u.buf = x.buf
      BY <1>2 DEF Read
<1> HIDE DEF p
<1>4. /\ Read(p.u, q.u, 4) /\ q.v \in 0..(W - 1)
      /\ \A c \in Int : Has(p.u, 4) /\ Is4(p.u.buf, p.u.ind, c) => q.v = c % W
      BY <1>3, ReadUint
<1> HIDE DEF q
<1>5. Read(x, q.u, 8) /\ (Has(x, 8) => Has(x, 4) /\ Has(p.u, 4) /\ p.u.ind = x.ind + 4)
  <2>1. Read(x, q.u, 4 + 4) /\ (Has(x, 4 + 4) => Has(x, 4) /\ Has(p.u, 4) /\ p.u.ind = x.ind + 4)
        BY <1>2, <1>4, ReadBoth
  <2>2. 4 + 4 = 8
        OBVIOUS
  <2> QED BY <2>1, <2>2
<1>6. p.v * W + q.v \in 0..(W * W - 1)
      BY <1>2, <1>4, Halves, Sizes
<1>7. ASSUME NEW c \in Int, Has(x, 8), Is8(x.buf, x.ind, c) PROVE p.v * W + q.v = c % (W * W)
  <2>1. Is4(x.buf, x.ind, c \div W) /\ Is4(x.buf, x.ind + 4, c) /\ c \div W \in Int
        BY <1>7, Remainder, Sizes DEF Is8
  <2>2. p.v = (c \div W) % W /\ q.v = c % W
        BY <1>2, <1>3, <1>4, <1>5, <1>7, <2>1
  <2>3. ((c \div W) % W) * W + (c % W) = c % (W * W)
        BY Digits, Sizes
  <2> QED BY <2>2, <2>3
<1> QED BY <1>1, <1>5, <1>6, <1>7

LEMMA ReadInt ==
  ASSUME NEW x, Uf(x)
  PROVE  /\ Read(x, GetInt(x).u, 4) /\ GetInt(x).v \in Int4
         /\ \A c \in Int4 : Has(x, 4) /\ Is4(x.buf, x.ind, c) => GetInt(x).v = c
         /\ \A c \in Uint : Has(x, 4) /\ Is4(x.buf, x.ind, c) => GetInt(x).v % W = c
<1> DEFINE y == GetUint(x)
<1>1. GetInt(x).u = y.u /\ GetInt(x).v = Signed(y.v, W)
      BY DEF GetInt, GetSigned
<1>2. /\ Read(x, y.u, 4) /\ y.v \in 0..(W - 1)
      /\ \A c \in Int : Has(x, 4) /\ Is4(x.buf, x.ind, c) => y.v = c % W
      BY ReadUint
<1> HIDE DEF y
<1>3. Signed(y.v, W) \in Int4
  <2>1. W \in Nat /\ W = 2 * (W \div 2) /\ W \div 2 \in Nat
        BY Sizes
  <2> QED BY <1>2, <2>1 DEF Signed, Int4
<1>4. ASSUME NEW c \in Int4, Has(x, 4), Is4(x.buf, x.ind, c) PROVE Signed(y.v, W) = c
  <2>1. c \in Int
        BY Sizes DEF Int4
  <2>2. y.v = c % W
        BY <1>2, <1>4, <2>1
  <2> QED BY <2>2, SignedBack, Sizes DEF Int4
<1>5. ASSUME NEW c \in Uint, Has(x, 4), Is4(x.buf, x.ind, c) PROVE Signed(y.v, W) % W = c
  <2>1. c \in Int /\ c \in 0..(W - 1) /\ W \in Nat /\ W > 0
        BY Sizes DEF Uint
  <2>2. y.v = c
    <3>1. y.v = c % W
          BY <1>2, <1>5, <2>1
    <3> QED BY <2>1, <3>1, UnsignedBack
  <2> DEFINE s == Signed(c, W)
  <2>3. s = c \/ s = c - W
        BY DEF Signed
  <2>4. s \in Int /\ (s = W * 0 + c \/ s = W * (-1) + c)
        BY <2>1, <2>3
  <2> HIDE DEF s
  <2>5. s % W = c
        BY <2>1, <2>4, Remainder
  <2> QED BY <2>2, <2>5 DEF s
<1> QED BY <1>1, <1>2, <1>3, <1>4, <1>5

\* y is x after n bytes have been read, if nothing went wrong; and that nothing did.
Took(x, y, n) == Uf(y) /\ y.buf = x.buf /\ (y.ok /\ ~y.past => x.ok /\ ~x.past /\ y.ind = x.ind + n)
Got(x, y, n) == Uf(y) /\ y.buf = x.buf /\ y.ok /\ y.past = x.past /\ y.ind = x.ind + n

LEMMA ReadTook ==
  ASSUME NEW x, NEW y, NEW n \in Nat, Read(x, y, n)
  PROVE  Took(x, y, n) /\ (Has(x, n) => Got(x, y, n))
BY DEF Read, Took, Got, Has

LEMMA TookBoth ==
  ASSUME NEW x, NEW y, NEW z, Uf(x), NEW i, NEW j, Took(x, y, i), Took(y, z, j),
         z.ok /\ ~z.past => i \in Nat /\ j \in Nat
  PROVE  Took(x, z, i + j)
<1>1. x.ind \in Nat
      BY DEF Uf
<1>2. Uf(z) /\ z.buf = x.buf
      BY DEF Took
<1>3. ASSUME z.ok /\ ~z.past PROVE x.ok /\ ~x.past /\ z.ind = x.ind + (i + j)
  <2>1. y.ok /\ ~y.past /\ z.ind = y.ind + j
        BY <1>3 DEF Took
  <2>2. x.ok /\ ~x.past /\ y.ind = x.ind + i
        BY <2>1 DEF Took
  <2>3. i \in Nat /\ j \in Nat
        BY <1>3
  <2> QED BY <1>1, <2>1, <2>2, <2>3
<1> QED BY <1>2, <1>3 DEF Took

LEMMA GotBoth ==
  ASSUME NEW x, NEW y, NEW z, Uf(x), NEW i \in Nat, NEW j \in Nat, Got(x, y, i), Got(y, z, j)
  PROVE  Got(x, z, i + j)
<1>1. x.ind \in Nat
      BY DEF Uf
<1>2. z.ind = x.ind + (i + j)
      BY <1>1 DEF Got
<1> QED BY <1>2 DEF Got

\* The bytes from x's cursor on that are left after a part of them was read.
LEMMA HasRest ==
  ASSUME NEW x, NEW y, Uf(x), NEW i \in Nat, NEW j \in Nat, Has(x, i + j)
  PROVE  Has(x, i) /\ (Got(x, y, i) => Has(y, j))
<1>1. x.ind \in Nat /\ Len(x.buf) \in Nat
      BY DEF Uf
<1>2. x.ok /\ x.ind + (i + j) <= Len(x.buf)
      BY DEF Has
<1>3. x.ind + i <= Len(x.buf) /\ (x.ind + i) + j <= Len(x.buf)
      BY <1>1, <1>2
<1> QED BY <1>2, <1>3 DEF Has, Got

LEMMA ReadString ==
  ASSUME NEW x, Uf(x)
  PROVE  /\ GetString(x).v \in Seq(0..B)
         /\ Took(x, GetString(x).u, 4 + Len(GetString(x).v))
         /\ \A s \in Seq(Byte) : Len(s) \in Uint /\ Has(x, 4 + Len(s)) /\ IsStr(x.buf, x.ind, s)
               => Got(x, GetString(x).u, 4 + Len(s)) /\ GetString(x).v = s
<1> DEFINE g == GetString(x)
           y == GetUint(x)
           end == y.u.ind + y.v
           L == Len(x.buf)
           S == 0..B
           U == [buf : Seq(0..B), ind : Nat, ok : BOOLEAN, past : BOOLEAN]
<1>1. /\ Read(x, y.u, 4) /\ y.v \in 0..(W - 1)
      /\ \A c \in Int : Has(x, 4) /\ Is4(x.buf, x.ind, c) => y.v = c % W
      BY ReadUint
<1>2. /\ Uf(y.u) /\ y.u.buf = x.buf /\ y.u.past = x.past
      /\ y.u.ok => x.ok /\ y.u.ind = x.ind + 4
      BY <1>1 DEF Read
<1>3. /\ y.u \in U /\ y.u.ind \in Nat /\ y.u.ind <= L /\ L \in Nat /\ x.buf \in Seq(S) /\ x.ind \in Nat
      /\ y.v \in Nat /\ end \in Nat
      BY <1>1, <1>2, Sizes DEF Uf
<1> DEFINE C1 == ~y.u.ok \/ end % W > L
           C2 == y.u.ok /\ end <= L
           a1 == [y.u EXCEPT !.ok = FALSE]
           a2 == [y.u EXCEPT !.ind = end]
           a3 == [y.u EXCEPT !.past = TRUE]
           part == SubSeq(x.buf, y.u.ind + 1, end)
<1>4. /\ ~y.u.ok => g = [u |-> y.u, v |-> <<>>]
      /\ y.u.ok => g = CASE end % W > L -> [u |-> a1, v |-> <<>>]
                         [] end <= L -> [u |-> a2, v |-> part]
                         [] OTHER -> [u |-> a3, v |-> <<>>]
      BY <1>2 DEF GetString, GetRawbytes
<1>5. C2 => ~C1
  <2>1. end % W <= end
    <3>0. end \in Int /\ W \in Nat /\ W > 0
          BY <1>3, Sizes
    <3> HIDE DEF end
    <3>1. end \div W \in Int /\ end % W \in 0..(W - 1) /\ end = W * (end \div W) + (end % W) /\ W \in Nat /\ W > 0
          BY <3>0, Remainder
    <3> DEFINE q == end \div W
               r0 == end % W
    <3>2. q \in Int /\ r0 \in 0..(W - 1) /\ end = W * q + r0
          BY <3>1
    <3> HIDE DEF q, r0
    <3>3. q >= 0
      <4> SUFFICES ASSUME q <= -1 PROVE FALSE
          BY <3>2
      <4>1. W * q <= W * (-1) /\ W * (-1) = -W /\ W * q \in Int
            BY <3>1, <3>2
      <4> QED BY <1>3, <3>1, <3>2, <4>1
    <3>4. W * q >= 0 /\ W * q \in Int
          BY <3>1, <3>2, <3>3
    <3>5. r0 <= end
          BY <1>3, <3>1, <3>2, <3>4
    <3> QED BY <3>5 DEF r0
  <2>2. end % W \in Int
    <3>1. end \in Int /\ W \in Nat /\ W > 0
          BY <1>3, Sizes
    <3> HIDE DEF end
    <3> QED BY <3>1, Remainder
  <2> QED BY <1>3, <2>1, <2>2
<1>6. /\ C1 => g.u = a1 /\ g.v = <<>>
      /\ C2 => g.u = a2 /\ g.v = part
      /\ ~C1 /\ ~C2 => g.u = a3 /\ g.v = <<>>
  <2>1. ~y.u.ok => y.u = a1
        BY <1>3
  <2> DEFINE E1 == end % W > L
             E2 == end <= L
  <2>2. (C2 <=> y.u.ok /\ E2) /\ (C1 <=> ~y.u.ok \/ E1)
        OBVIOUS
  <2>3. /\ ~y.u.ok => g = [u |-> a1, v |-> <<>>]
        /\ y.u.ok => g = CASE E1 -> [u |-> a1, v |-> <<>>]
                           [] E2 -> [u |-> a2, v |-> part]
                           [] OTHER -> [u |-> a3, v |-> <<>>]
        BY <1>4, <2>1
  <2> HIDE DEF C1, C2, E1, E2, a1, a2, a3, part, g
  <2> QED BY <1>5, <2>2, <2>3
<1>7. <<>> \in Seq(S) /\ Len(<<>>) = 0
      OBVIOUS
<1> HIDE DEF y, g
<1>8. ASSUME C1 PROVE g.v \in Seq(S) /\ Took(x, g.u, 4 + Len(g.v))
  <2>1. a1 \in U /\ a1.buf = y.u.buf /\ a1.ind = y.u.ind /\ a1.ok = FALSE
        BY <1>3
  <2> HIDE DEF a1
  <2>2. Uf(a1)
        BY <1>2, <1>3, <2>1 DEF Uf
  <2> QED BY <1>2, <1>6, <1>7, <1>8, <2>1, <2>2 DEF Took
<1>9. ASSUME ~C1, ~C2 PROVE g.v \in Seq(S) /\ Took(x, g.u, 4 + Len(g.v))
  <2>1. a3 \in U /\ a3.buf = y.u.buf /\ a3.ind = y.u.ind /\ a3.past = TRUE
        BY <1>3
  <2> HIDE DEF a3
  <2>2. Uf(a3)
        BY <1>2, <1>3, <2>1 DEF Uf
  <2> QED BY <1>2, <1>6, <1>7, <1>9, <2>1, <2>2 DEF Took
<1>10. /\ a2 \in U /\ a2.buf = y.u.buf /\ a2.ind = end /\ a2.ok = y.u.ok /\ a2.past = y.u.past
       BY <1>3
<1>11. ASSUME C2
       PROVE  /\ part \in Seq(S) /\ Len(part) = y.v /\ \A i \in 1..y.v : part[i] = x.buf[y.u.ind + i]
              /\ Uf(a2) /\ a2.ind = x.ind + (4 + y.v)
  <2> DEFINE o == y.u.ind
             k == y.v
  <2>1. o \in Nat /\ k \in Nat /\ o + k <= L /\ end = o + k
        BY <1>3, <1>11
  <2>2. part = SubSeq(x.buf, o + 1, o + k)
        OBVIOUS
  <2> HIDE DEF o, k, part, S
  <2>3. part \in Seq(S) /\ Len(part) = k /\ \A i \in 1..k : part[i] = x.buf[o + i]
        BY <1>3, <2>1, <2>2
  <2>4. Uf(a2)
    <3> HIDE DEF a2
    <3> QED BY <1>2, <1>10, <1>11 DEF Uf
  <2>5. a2.ind = x.ind + (4 + y.v)
    <3>1. y.u.ind = x.ind + 4
          BY <1>2, <1>11
    <3>2. x.ind \in Nat
          BY DEF Uf
    <3>3. a2.ind = (x.ind + 4) + k
          BY <1>10, <2>1, <3>1 DEF o
    <3>4. \A p, q \in Nat : (p + 4) + q = p + (4 + q)
          OBVIOUS
    <3> HIDE DEF a2
    <3> QED BY <2>1, <3>2, <3>3, <3>4 DEF k
  <2> QED BY <2>3, <2>4, <2>5 DEF o, k
<1> HIDE DEF a1, a2, a3, part, S, end
<1>12. ASSUME C2 PROVE g.v \in Seq(S) /\ Took(x, g.u, 4 + Len(g.v))
       BY <1>2, <1>6, <1>10, <1>11, <1>12 DEF Took
<1>13. ASSUME NEW s \in Seq(Byte), Len(s) \in Uint, Has(x, 4 + Len(s)), IsStr(x.buf, x.ind, s)
       PROVE  Got(x, g.u, 4 + Len(s)) /\ g.v = s
  <2>1. Len(s) \in Nat /\ Len(s) \in Int /\ Len(s) \in 0..(W - 1) /\ W \in Nat /\ W > 0
        BY <1>13, Sizes DEF Uint
  <2>2. Has(x, 4)
        BY <1>13, <2>1, HasRest
  <2>3. y.v = Len(s)
    <3>1. y.v = Len(s) % W
          BY <1>1, <1>13, <2>1, <2>2 DEF IsStr
    <3> QED BY <2>1, <3>1, UnsignedBack
  <2>4. y.u.ok /\ y.u.ind = x.ind + 4
        BY <1>1, <1>2, <2>2 DEF Read, Has
  <2>5. C2
    <3>1. x.ind + (4 + Len(s)) <= L
          BY <1>13 DEF Has
    <3>2. \A p, q \in Nat : (p + 4) + q = p + (4 + q)
          OBVIOUS
    <3>3. end = (x.ind + 4) + Len(s)
          BY <2>3, <2>4 DEF end
    <3>4. end = x.ind + (4 + Len(s))
          BY <1>3, <2>1, <3>2, <3>3
    <3> QED BY <2>4, <3>1, <3>4
  <2>6. g.u = a2 /\ g.v = part
    <3> HIDE DEF C1, C2
    <3> QED BY <1>6, <2>5
  <2>7. Got(x, g.u, 4 + Len(s))
        BY <1>2, <1>10, <1>11, <2>3, <2>4, <2>5, <2>6 DEF Got
  <2>8. part = s
    <3>1. part \in Seq(S) /\ Len(part) = Len(s) /\ \A i \in 1..Len(s) : part[i] = x.buf[(x.ind + 4) + i]
          BY <1>11, <2>3, <2>4, <2>5
    <3>2. \A i \in 1..Len(s) : x.buf[(x.ind + 4) + i] = s[i]
          BY <1>13 DEF IsStr
    <3>3. \A i \in 1..Len(s) : part[i] = s[i]
          BY <3>1, <3>2
    <3> QED BY <3>1, <3>3, SeqEqual
  <2> QED BY <2>6, <2>7, <2>8
<1>14. g.v \in Seq(S) /\ Took(x, g.u, 4 + Len(g.v))
  <2> HIDE DEF C1, C2
  <2> QED BY <1>8, <1>9, <1>12
<1> QED BY <1>13, <1>14 DEF g, S

LEMMA TurnsIs ==
  ASSUME NEW x, Uf(x), NEW n \in Nat
  PROVE  /\ Turns(x, n, 4) \in Nat /\ (Has(x, 4 * n) => Turns(x, n, 4) = n)
         /\ Turns(x, n, 8) \in Nat /\ (Has(x, 8 * n) => Turns(x, n, 8) = n)
<1> DEFINE D == Len(x.buf) - x.ind
<1>1. D \in Nat /\ x.ind \in Nat /\ Len(x.buf) \in Nat
      BY DEF Uf
<1>2. Turns(x, n, 4) = (IF n <= D \div 4 THEN n ELSE D \div 4 + 1)
      BY DEF Turns
<1>3. Turns(x, n, 8) = (IF n <= D \div 8 THEN n ELSE D \div 8 + 1)
      BY DEF Turns
<1>4. (Has(x, 4 * n) => 4 * n <= D) /\ (Has(x, 8 * n) => 8 * n <= D)
      BY <1>1 DEF Has
<1> HIDE DEF D
<1>5. D \div 4 \in Nat /\ (4 * n <= D => n <= D \div 4)
      BY <1>1
<1>6. D \div 8 \in Nat /\ (8 * n <= D => n <= D \div 8)
      BY <1>1
<1> QED BY <1>2, <1>3, <1>4, <1>5, <1>6

\* The bytes of a sequence of strings and of one more.
LEMMA StringsMore ==
  ASSUME NEW S, NEW w \in Seq(Seq(S)), NEW e \in Seq(S)
  PROVE  /\ Total(Strings(w)) \in Nat
         /\ Total(Strings(Append(w, e))) = Total(Strings(w)) + (4 + Len(e))
<1> DEFINE n == Len(w)
           z == Append(w, e)
           s == Strings(w)
           y == Strings(z)
<1>1. n \in Nat /\ Len(e) \in Nat /\ \A i \in 1..n : Len(w[i]) \in Nat
      OBVIOUS
<1>2. Len(z) = n + 1 /\ z[n + 1] = e /\ \A i \in 1..n : z[i] = w[i]
  <2> DEFINE X == Seq(S)
  <2>1. w \in Seq(X)
        OBVIOUS
  <2> HIDE DEF X
  <2> QED BY <2>1
<1> HIDE DEF z
<1>3. s \in [1..n -> Nat] /\ \A i \in 1..n : s[i] = 4 + Len(w[i])
      BY <1>1 DEF Strings
<1>4. \A i \in 1..(n + 1) : i \in 1..n \/ i = n + 1
      BY <1>1
<1>5. y = [i \in 1..(n + 1) |-> 4 + Len(z[i])]
      BY <1>2 DEF Strings
<1> HIDE DEF s, y, n
<1>6. y \in [1..(n + 1) -> Nat] /\ y[n + 1] = 4 + Len(e) /\ \A i \in 1..n : y[i] = s[i]
  <2>1. \A i \in 1..(n + 1) : Len(z[i]) \in Nat
        BY <1>1, <1>2, <1>4
  <2>2. n + 1 \in 1..(n + 1) /\ \A i \in 1..n : i \in 1..(n + 1)
        BY <1>1
  <2> QED BY SMTT(20), <1>2, <1>3, <1>5, <2>1, <2>2
<1>7. Part(s, n) = Total(s) /\ Part(s, n) \in Nat
  <2>1. n \in 0..n
        BY <1>1
  <2> QED BY <1>1, <1>3, <2>1, PartIs
<1>8. Part(y, n + 1) = Total(y) /\ Part(y, n + 1) = Part(y, n) + y[n + 1]
  <2> DEFINE k == n + 1
  <2>1. k \in Nat /\ k \in 1..k /\ k - 1 = n
        BY <1>1
  <2> HIDE DEF k
  <2>2. y \in [1..k -> Nat]
        BY <1>6 DEF k
  <2>3. Part(y, k) = Total(y) /\ Part(y, k) = Part(y, k - 1) + y[k]
        BY <2>1, <2>2, PartIs
  <2> QED BY <2>1, <2>3 DEF k
<1>9. Part(y, n) = Part(s, n)
      BY <1>1, <1>6, PartSame
<1>10. Total(y) = Total(s) + (4 + Len(e))
       BY <1>6, <1>7, <1>8, <1>9
<1> QED BY <1>7, <1>10 DEF s, y, z

LEMMA StringsRoom ==
  ASSUME NEW S, NEW w \in Seq(Seq(S))
  PROVE  Total(Strings(w)) \in Nat /\ 4 * Len(w) <= Total(Strings(w))
<1> DEFINE n == Len(w)
           s == Strings(w)
           T == {k \in 0..n : 4 * k <= Part(s, k)}
<1>1. n \in Nat /\ \A i \in 1..n : Len(w[i]) \in Nat
      OBVIOUS
<1>2. s \in [1..n -> Nat] /\ \A i \in 1..n : s[i] = 4 + Len(w[i])
      BY <1>1 DEF Strings
<1> HIDE DEF s, n
<1>3. /\ Part(s, 0) = 0 /\ Part(s, n) = Total(s)
      /\ \A k \in 0..n : Part(s, k) \in Nat
      /\ \A k \in 1..n : Part(s, k) = Part(s, k - 1) + s[k]
      BY <1>1, <1>2, PartIs
<1>4. 0 \in T
      BY <1>1, <1>3
<1>5. ASSUME NEW k \in 0..(n - 1), k \in T PROVE k + 1 \in T
  <2>1. k + 1 \in 1..n /\ (k + 1) - 1 = k /\ k \in 0..n /\ k \in Nat /\ k + 1 \in 0..n /\ 4 * (k + 1) = 4 * k + 4
        BY <1>1
  <2>2. Part(s, k + 1) = Part(s, k) + (4 + Len(w[k + 1])) /\ Part(s, k) \in Nat /\ Len(w[k + 1]) \in Nat
        BY <1>1, <1>2, <1>3, <2>1
  <2>3. 4 * k <= Part(s, k)
        BY <1>5
  <2>4. 4 * (k + 1) <= Part(s, k + 1)
        BY <2>1, <2>2, <2>3
  <2> QED BY <2>1, <2>4
<1>6. n \in 0..n
      BY <1>1
<1>7. n \in T
  <2> HIDE DEF T
  <2> QED BY <1>1, <1>4, <1>5, <1>6, UpTo
<1> QED BY <1>3, <1>6, <1>7 DEF s, n

\* GetVector's loop: get[k] is what it has after k turns.
VectorLoop(x, get) ==
  LET y == GetUint(x)
      n == Turns(y.u, y.v, 4)
  IN  /\ get[0] = [u |-> y.u, v |-> <<>>]
      /\ \A k \in 1..n : get[k] = GetElement(get[k - 1])
      /\ \A k \in 0..n : /\ get[k].v \in Seq(Seq(0..B)) /\ Len(get[k].v) = k
                         /\ Took(x, get[k].u, 4 + Total(Strings(get[k].v)))
      /\ GetVector(x) = get[n]

LEMMA VectorTurns ==
  ASSUME NEW x, Uf(x)
  PROVE  Turns(GetUint(x).u, GetUint(x).v, 4) \in Nat /\ \E get : VectorLoop(x, get)
<1> DEFINE y == GetUint(x)
           n == Turns(y.u, y.v, 4)
           O == 0..B
           U == {z \in [buf : Seq(0..B), ind : Nat, ok : BOOLEAN, past : BOOLEAN] : Uf(z)}
           S == [u : U, v : Seq(Seq(O))]
           a == [u |-> y.u, v |-> <<>>]
           F == [i \in 1..n |-> [z \in S |-> GetElement(z)]]
           Loop(g) == g = [k \in 0..n |-> IF k = 0 THEN a ELSE GetElement(g[k - 1])]
           get == CHOOSE g : Loop(g)
           Q(k) == /\ get[k] \in S /\ Len(get[k].v) = k
                   /\ Took(x, get[k].u, 4 + Total(Strings(get[k].v)))
           T == {k \in 0..n : Q(k)}
<1>1. GetVector(x) = get[n]
      BY DEF GetVector
<1>2. Read(x, y.u, 4) /\ y.v \in Nat
      BY ReadUint, Sizes
<1>3. Uf(y.u) /\ Took(x, y.u, 4)
      BY <1>2, ReadTook DEF Read
<1>4. n \in Nat
      BY <1>2, <1>3, TurnsIs
<1>5. \A z : Uf(z) => z \in U
      BY DEF Uf
<1> HIDE DEF y, n, U, O
<1>6. a \in S /\ a.u = y.u /\ a.v = <<>>
      BY <1>3, <1>5
<1>7. ASSUME NEW z \in S
      PROVE  /\ GetElement(z) \in S
             /\ GetElement(z).u = GetString(z.u).u
             /\ GetElement(z).v = Append(z.v, GetString(z.u).v)
             /\ GetString(z.u).v \in Seq(O) /\ z.v \in Seq(Seq(O)) /\ Uf(z.u)
  <2>1. z.u \in U /\ z.v \in Seq(Seq(O))
        OBVIOUS
  <2>2. Uf(z.u)
        BY <2>1 DEF U
  <2>3. GetString(z.u).v \in Seq(O) /\ Uf(GetString(z.u).u)
        BY <2>2, ReadString DEF Took, O
  <2>4. GetElement(z) = [u |-> GetString(z.u).u, v |-> Append(z.v, GetString(z.u).v)]
        BY DEF GetElement
  <2>5. Append(z.v, GetString(z.u).v) \in Seq(Seq(O))
    <3> DEFINE X == Seq(O)
    <3>1. z.v \in Seq(X) /\ GetString(z.u).v \in X
          BY <2>1, <2>3
    <3> HIDE DEF X
    <3>2. Append(z.v, GetString(z.u).v) \in Seq(X)
          BY <3>1
    <3> QED BY <3>2 DEF X
  <2>6. GetString(z.u).u \in U
        BY <1>5, <2>3
  <2> QED BY <2>1, <2>2, <2>3, <2>4, <2>5, <2>6
<1> HIDE DEF S, a
<1>8. Loop(get)
  <2>1. F \in [1..n -> [S -> S]]
        BY <1>7
  <2>2. PICK f : IsRun(f, S, a, n, F)
    <3> HIDE DEF F
    <3> QED BY <1>4, <1>6, <2>1, RunExists
  <2>3. f \in [0..n -> S] /\ f[0] = a /\ \A i \in 1..n : f[i] = F[i][f[i - 1]]
        BY <2>2 DEF IsRun
  <2>4. \A i \in 1..n : f[i] = GetElement(f[i - 1])
    <3>1. \A i \in 1..n : i - 1 \in 0..n
          BY <1>4
    <3>2. \A i \in 1..n : f[i - 1] \in S
          BY <2>3, <3>1
    <3> QED BY <2>3, <3>2
  <2>5. Loop(f)
        BY <2>3, <2>4
  <2>6. \E z : Loop(z)
        BY <2>5
  <2> HIDE DEF Loop
  <2> QED BY <2>6
<1> HIDE DEF get
<1>9. get[0] = a /\ \A k \in 1..n : get[k] = GetElement(get[k - 1])
  <2>1. \A k \in 0..n : get[k] = IF k = 0 THEN a ELSE GetElement(get[k - 1])
        BY <1>8
  <2>2. 0 \in 0..n /\ \A k \in 1..n : k \in 0..n /\ k # 0
        BY <1>4
  <2> HIDE DEF Loop
  <2> QED BY <2>1, <2>2
<1>10. 0 \in T
  <2>1. Strings(<<>>) = [i \in 1..0 |-> 0] /\ Len(<<>>) = 0
        BY DEF Strings
  <2>2. Total(Strings(<<>>)) = 0
    <3> DEFINE s == Strings(<<>>)
               f == [i \in 0..0 |-> 0]
    <3>0. s = [i \in 1..0 |-> 0]
          BY <2>1
    <3> HIDE DEF s
    <3>1. s \in [1..0 -> Nat]
          BY <3>0
    <3>2. f \in [0..0 -> Nat] /\ f[0] = 0 /\ \A i \in 1..0 : f[i] = f[i - 1] + s[i]
          OBVIOUS
    <3> HIDE DEF s, f
    <3>3. Total(s) = f[0]
          BY <3>1, <3>2, TotalRun
    <3> QED BY <3>2, <3>3 DEF s
  <2>3. 4 + Total(Strings(<<>>)) = 4
        BY <2>2
  <2>4. Q(0)
        BY <1>3, <1>6, <1>9, <2>1, <2>3
  <2> QED BY <1>4, <2>4
<1>11. ASSUME NEW k \in 0..(n - 1), k \in T PROVE k + 1 \in T
  <2> DEFINE z == get[k]
             e == GetString(z.u).v
  <2>1. Q(k) /\ k + 1 \in 1..n /\ (k + 1) - 1 = k /\ k \in Nat /\ k + 1 \in 0..n
        BY <1>4, <1>11
  <2>2. get[k + 1] = GetElement(z)
        BY <1>9, <2>1
  <2>3. /\ GetElement(z) \in S /\ GetElement(z).u = GetString(z.u).u
        /\ GetElement(z).v = Append(z.v, e) /\ e \in Seq(O) /\ z.v \in Seq(Seq(O)) /\ Uf(z.u)
        BY <1>7, <2>1
  <2>4. Took(z.u, GetString(z.u).u, 4 + Len(e))
        BY <2>3, ReadString
  <2>5. Took(x, z.u, 4 + Total(Strings(z.v))) /\ Len(z.v) = k
        BY <2>1
  <2> HIDE DEF z, e
  <2>6. Total(Strings(Append(z.v, e))) = Total(Strings(z.v)) + (4 + Len(e)) /\ Total(Strings(z.v)) \in Nat
        BY <2>3, StringsMore
  <2>7. Len(e) \in Nat
        BY <2>3
  <2>8. Took(x, GetString(z.u).u, (4 + Total(Strings(z.v))) + (4 + Len(e)))
    <3> DEFINE i == 4 + Total(Strings(z.v))
               j == 4 + Len(e)
    <3>1. i \in Nat /\ j \in Nat
          BY <2>6, <2>7
    <3>2. Took(x, z.u, i) /\ Took(z.u, GetString(z.u).u, j)
          BY <2>4, <2>5
    <3> HIDE DEF i, j
    <3>3. Took(x, GetString(z.u).u, i + j)
          BY <3>1, <3>2, TookBoth
    <3> QED BY <3>3 DEF i, j
  <2>9. (4 + Total(Strings(z.v))) + (4 + Len(e)) = 4 + Total(Strings(Append(z.v, e)))
        BY <2>6, <2>7
  <2>10. Len(Append(z.v, e)) = k + 1
    <3> DEFINE X == Seq(O)
    <3>1. z.v \in Seq(X)
          BY <2>3
    <3> HIDE DEF X
    <3> QED BY <2>5, <3>1
  <2>11. Q(k + 1)
         BY <2>2, <2>3, <2>8, <2>9, <2>10
  <2> QED BY <2>1, <2>11
<1>12. \A k \in 0..n : Q(k)
  <2>1. \A k \in 0..n : k \in T
    <3> HIDE DEF T
    <3> QED BY <1>4, <1>10, <1>11, UpTo
  <2> QED BY <2>1
<1>13. \A k \in 0..n : get[k].v \in Seq(Seq(0..B))
  <2>1. \A z \in S : z.v \in Seq(Seq(0..B))
        BY DEF S, O
  <2> QED BY <1>12, <2>1
<1>14. VectorLoop(x, get)
       BY <1>1, <1>9, <1>12, <1>13 DEF VectorLoop, y, n, a
<1> QED BY <1>4, <1>14 DEF y, n

LEMMA ReadVector ==
  ASSUME NEW x, Uf(x)
  PROVE  /\ GetVector(x).v \in Seq(Seq(0..B))
         /\ Took(x, GetVector(x).u, 4 + Total(Strings(GetVector(x).v)))
         /\ \A v \in Seq(Seq(Byte)) :
              /\ Len(v) \in Uint /\ \A i \in 1..Len(v) : Len(v[i]) \in Uint
              /\ Has(x, 4 + Total(Strings(v))) /\ IsVec(x.buf, x.ind, v)
              => Got(x, GetVector(x).u, 4 + Total(Strings(v))) /\ GetVector(x).v = v
<1> DEFINE y == GetUint(x)
           last == Turns(y.u, y.v, 4)
<1>1. last \in Nat
      BY VectorTurns
<1>2. PICK get : VectorLoop(x, get)
      BY VectorTurns
<1>3. /\ get[0] = [u |-> y.u, v |-> <<>>]
      /\ \A k \in 1..last : get[k] = GetElement(get[k - 1])
      /\ \A k \in 0..last : /\ get[k].v \in Seq(Seq(0..B)) /\ Len(get[k].v) = k
                            /\ Took(x, get[k].u, 4 + Total(Strings(get[k].v)))
      /\ GetVector(x) = get[last]
      BY <1>2 DEF VectorLoop
<1>4. /\ Read(x, y.u, 4) /\ y.v \in 0..(W - 1)
      /\ \A c \in Int : Has(x, 4) /\ Is4(x.buf, x.ind, c) => y.v = c % W
      BY ReadUint
<1>5. Uf(y.u)
      BY <1>4 DEF Read
<1>6. last \in 0..last
      BY <1>1
<1>7. ASSUME NEW v \in Seq(Seq(Byte)), Len(v) \in Uint, \A i \in 1..Len(v) : Len(v[i]) \in Uint,
             Has(x, 4 + Total(Strings(v))), IsVec(x.buf, x.ind, v)
      PROVE  Got(x, GetVector(x).u, 4 + Total(Strings(v))) /\ GetVector(x).v = v
  <2> DEFINE n == Len(v)
             s == Strings(v)
             Q(k) == Got(x, get[k].u, 4 + Part(s, k)) /\ \A i \in 1..k : get[k].v[i] = v[i]
             T == {k \in 0..n : Q(k)}
  <2>1. n \in Nat /\ n \in Int /\ n \in 0..(W - 1) /\ W \in Nat /\ W > 0
        BY <1>7, Sizes DEF Uint
  <2>2. Total(s) \in Nat /\ 4 * n <= Total(s)
        BY StringsRoom
  <2>3. s \in [1..n -> Nat] /\ \A i \in 1..n : s[i] = 4 + Len(v[i]) /\ v[i] \in Seq(Byte) /\ Len(v[i]) \in Nat
    <3>1. \A i \in 1..n : v[i] \in Seq(Byte) /\ Len(v[i]) \in Nat
          OBVIOUS
    <3> QED BY <3>1 DEF Strings
  <2>4. Is4(x.buf, x.ind, n) /\ \A i \in 1..n : IsStr(x.buf, (x.ind + 4) + Part(s, i - 1), v[i])
        BY <1>7 DEF IsVec
  <2> HIDE DEF n, s
  <2>5. /\ Part(s, 0) = 0 /\ Part(s, n) = Total(s) /\ \A k \in 0..n : Part(s, k) \in Nat
        /\ \A k \in 1..n : Part(s, k) = Part(s, k - 1) + s[k]
        /\ \A j, k \in 0..n : j <= k => Part(s, j) <= Part(s, k)
        BY <2>1, <2>3, PartIs
  <2>6. Has(x, 4 + Total(s)) /\ x.ind \in Nat
        BY <1>7 DEF s, Uf
  <2>7. Has(x, 4) /\ Got(x, y.u, 4)
        BY <1>4, <2>2, <2>6, HasRest, ReadTook
  <2>8. y.v = n
    <3>1. y.v = n % W
          BY <1>4, <2>1, <2>4, <2>7
    <3> QED BY <2>1, <3>1, UnsignedBack
  <2>9. last = n
    <3> DEFINE rest == Total(s) - 4 * n
    <3>1. rest \in Nat /\ 4 * n \in Nat /\ 4 * n + rest = Total(s)
          BY <2>1, <2>2
    <3>2. Has(y.u, Total(s))
          BY <2>2, <2>6, <2>7, HasRest
    <3> HIDE DEF rest
    <3>3. Has(y.u, 4 * n + rest)
          BY <3>1, <3>2
    <3>4. Has(y.u, 4 * n)
      <4> DEFINE k == 4 * n
      <4>1. k \in Nat /\ Has(y.u, k + rest)
            BY <3>1, <3>3
      <4> HIDE DEF k
      <4>2. Has(y.u, k)
            BY <1>5, <3>1, <4>1, HasRest
      <4> QED BY <4>2 DEF k
    <3> QED BY <1>5, <2>1, <2>8, <3>4, TurnsIs
  <2> HIDE DEF last, y
  <2>10. 0 \in T
    <3>1. get[0].u = y.u /\ 4 + Part(s, 0) = 4
          BY <1>3, <2>5
    <3> QED BY <2>1, <2>7, <3>1
  <2>11. ASSUME NEW k \in 0..(n - 1), k \in T PROVE k + 1 \in T
    <3> DEFINE z == get[k]
               e == GetString(z.u)
               p == Part(s, k)
               l == Len(v[k + 1])
    <3>1. Q(k) /\ k + 1 \in 1..n /\ (k + 1) - 1 = k /\ k \in 0..n /\ k \in Nat /\ k + 1 \in 0..n
          BY <2>1, <2>11
    <3>2. get[k + 1] = GetElement(z) /\ z.v \in Seq(Seq(0..B)) /\ Len(z.v) = k
          BY <1>3, <2>9, <3>1
    <3>3. get[k + 1].u = e.u /\ get[k + 1].v = Append(z.v, e.v)
          BY <3>2 DEF GetElement
    <3>4. Got(x, z.u, 4 + p) /\ \A i \in 1..k : z.v[i] = v[i]
          BY <3>1
    <3>5. /\ p \in Nat /\ l \in Nat /\ Part(s, k + 1) = p + (4 + l) /\ p + (4 + l) <= Total(s)
          /\ v[k + 1] \in Seq(Byte) /\ l \in Uint
      <4>1. Part(s, k + 1) = p + (4 + l) /\ p \in Nat /\ v[k + 1] \in Seq(Byte) /\ l \in Nat
            BY <2>3, <2>5, <3>1
      <4>2. n \in 0..n /\ k + 1 <= n
            BY <2>1, <3>1
      <4>3. Part(s, k + 1) <= Total(s)
            BY <2>5, <3>1, <4>2
      <4>4. l \in Uint
            BY <1>7, <3>1 DEF n
      <4> QED BY <4>1, <4>3, <4>4
    <3>6. Has(z.u, 4 + l) /\ Uf(z.u) /\ z.u.buf = x.buf
      <4> DEFINE i == 4 + p
                 j == 4 + l
                 q == Total(s) - (p + (4 + l))
      <4> HIDE DEF p, l
      <4>1. i \in Nat /\ j \in Nat /\ q \in Nat /\ (i + j) + q = 4 + Total(s) /\ i + (j + q) = 4 + Total(s)
            BY <2>2, <3>5
      <4>2. Got(x, z.u, i)
            BY <3>4
      <4> HIDE DEF i, j, q, z
      <4>3. Has(x, i + (j + q)) /\ j + q \in Nat
            BY <2>6, <4>1
      <4>4. Has(z.u, j + q) /\ Uf(z.u) /\ z.u.buf = x.buf
            BY <4>1, <4>2, <4>3, HasRest DEF Got
      <4>5. Has(z.u, j)
            BY <4>1, <4>4, HasRest
      <4> QED BY <4>4, <4>5 DEF j
    <3>7. IsStr(z.u.buf, z.u.ind, v[k + 1])
      <4>1. z.u.ind = x.ind + (4 + p)
            BY <3>4 DEF Got
      <4>2. \A i, j \in Nat : i + (4 + j) = (i + 4) + j
            OBVIOUS
      <4>3. z.u.ind = (x.ind + 4) + p
            BY <2>6, <3>5, <4>1, <4>2
      <4>4. IsStr(x.buf, (x.ind + 4) + p, v[k + 1])
            BY <2>4, <3>1
      <4> QED BY <3>6, <4>3, <4>4
    <3>8. Got(z.u, e.u, 4 + l) /\ e.v = v[k + 1] /\ e.v \in Seq(0..B)
          BY <3>5, <3>6, <3>7, ReadString
    <3>9. Got(x, e.u, 4 + Part(s, k + 1))
      <4> DEFINE i == 4 + p
                 j == 4 + l
      <4> HIDE DEF p, l
      <4>1. i \in Nat /\ j \in Nat /\ i + j = 4 + Part(s, k + 1)
        <5>1. p \in Nat /\ l \in Nat /\ Part(s, k + 1) = p + (4 + l)
              BY <3>5
        <5>2. \A a, b \in Nat : (4 + a) + (4 + b) = 4 + (a + (4 + b))
              OBVIOUS
        <5> QED BY <5>1, <5>2
      <4>2. Got(x, z.u, i) /\ Got(z.u, e.u, j)
            BY <3>4, <3>8
      <4> HIDE DEF i, j, z, e
      <4>3. Got(x, e.u, i + j)
            BY <4>1, <4>2, GotBoth
      <4> QED BY <4>1, <4>3
    <3> HIDE DEF z, e
    <3>10. \A i \in 1..(k + 1) : Append(z.v, e.v)[i] = v[i]
      <4> DEFINE X == Seq(0..B)
      <4>1. z.v \in Seq(X) /\ Len(z.v) = k /\ e.v \in X
            BY <3>2, <3>8 DEF z
      <4> HIDE DEF X
      <4>2. Append(z.v, e.v)[k + 1] = e.v /\ \A i \in 1..k : Append(z.v, e.v)[i] = z.v[i]
            BY <3>1, <4>1
      <4>3. \A i \in 1..(k + 1) : i \in 1..k \/ i = k + 1
            BY <3>1
      <4> QED BY <3>4, <3>8, <4>2, <4>3 DEF z
    <3>11. Q(k + 1)
           BY <3>3, <3>9, <3>10
    <3> QED BY <3>1, <3>11
  <2>12. n \in 0..n
         BY <2>1
  <2>13. n \in T
    <3> HIDE DEF T
    <3> QED BY <2>1, <2>10, <2>11, <2>12, UpTo
  <2>14. Got(x, GetVector(x).u, 4 + Total(s))
         BY <1>3, <2>5, <2>9, <2>13
  <2>15. GetVector(x).v = v
    <3> DEFINE w == GetVector(x).v
               X == Seq(0..B)
    <3>1. w \in Seq(X) /\ Len(w) = n /\ \A i \in 1..n : w[i] = v[i]
          BY <1>3, <1>6, <2>9, <2>13
    <3>2. Len(v) = n
          BY DEF n
    <3>3. v \in Seq(X)
      <4>1. Len(v) \in Nat /\ v \in [1..Len(v) -> Seq(Byte)]
            OBVIOUS
      <4> HIDE DEF X, w
      <4>2. \A i \in 1..n : w[i] \in X
            BY <3>1
      <4>3. \A i \in 1..Len(v) : v[i] \in X
            BY <3>1, <3>2, <4>2
      <4>4. v \in [1..Len(v) -> X]
            BY <4>1, <4>3
      <4> QED BY <4>1, <4>4
    <3> HIDE DEF w, X
    <3>4. w = v
          BY <3>1, <3>2, <3>3, SeqEqual
    <3> QED BY <3>4 DEF w
  <2> QED BY <2>14, <2>15 DEF s
<1>8. GetVector(x).v \in Seq(Seq(0..B)) /\ Took(x, GetVector(x).u, 4 + Total(Strings(GetVector(x).v)))
      BY <1>3, <1>6
<1> QED BY <1>7, <1>8

\* GetMap's loop: get[k] is what it has after k turns.
MapLoop(x, get) ==
  LET y == GetUint(x)
      n == Turns(y.u, y.v, 8)
  IN  /\ get[0] = [u |-> y.u, v |-> <<>>]
      /\ \A k \in 1..n : get[k] = GetPair(get[k - 1])
      /\ \A k \in 0..n : /\ IsFiniteSet(DOMAIN get[k].v) /\ Cardinality(DOMAIN get[k].v) <= k
                         /\ Took(x, get[k].u, 4 + 8 * k)
                         /\ get[k].v \in [DOMAIN get[k].v -> Int]
      /\ GetMap(x) = get[n]

\* A turn reads two ints and sets one key.
LEMMA ReadPair ==
  ASSUME NEW z, Uf(z.u)
  PROVE  LET a == GetInt(z.u)
             b == GetInt(a.u)
             new == GetPair(z)
         IN  /\ new.u = b.u /\ a.v \in Int /\ b.v \in Int
             /\ new.v = [k \in DOMAIN z.v \union {a.v} |-> IF k = a.v THEN b.v ELSE z.v[k]]
             /\ Read(z.u, new.u, 8)
             /\ \A k, c \in Int4 : Has(z.u, 8) /\ IsPair(z.u.buf, z.u.ind, k, c) => a.v = k /\ b.v = c
<1> DEFINE a == GetInt(z.u)
           b == GetInt(a.u)
           new == GetPair(z)
<1>1. /\ Read(z.u, a.u, 4) /\ a.v \in Int4
      /\ \A c \in Int4 : Has(z.u, 4) /\ Is4(z.u.buf, z.u.ind, c) => a.v = c
      BY ReadInt
<1>2. Uf(a.u) /\ a.u.buf = z.u.buf
      BY <1>1 DEF Read
<1>3. new = [u |-> b.u, v |-> [k \in DOMAIN z.v \union {a.v} |-> IF k = a.v THEN b.v ELSE z.v[k]]]
      BY DEF GetPair
<1> HIDE DEF a, new
<1>4. /\ Read(a.u, b.u, 4) /\ b.v \in Int4
      /\ \A c \in Int4 : Has(a.u, 4) /\ Is4(a.u.buf, a.u.ind, c) => b.v = c
      BY <1>2, ReadInt
<1> HIDE DEF b
<1>5. Read(z.u, b.u, 8) /\ (Has(z.u, 8) => Has(z.u, 4) /\ Has(a.u, 4) /\ a.u.ind = z.u.ind + 4)
  <2>1. Read(z.u, b.u, 4 + 4) /\ (Has(z.u, 4 + 4) => Has(z.u, 4) /\ Has(a.u, 4) /\ a.u.ind = z.u.ind + 4)
        BY <1>1, <1>4, ReadBoth
  <2>2. 4 + 4 = 8
        OBVIOUS
  <2> QED BY <2>1, <2>2
<1>6. Int4 \subseteq Int
      BY Sizes DEF Int4
<1>7. \A k, c \in Int4 : Has(z.u, 8) /\ IsPair(z.u.buf, z.u.ind, k, c) => a.v = k /\ b.v = c
      BY <1>1, <1>2, <1>4, <1>5 DEF IsPair
<1>8. new.u = b.u /\ new.v = [k \in DOMAIN z.v \union {a.v} |-> IF k = a.v THEN b.v ELSE z.v[k]]
      BY <1>3
<1> QED BY <1>1, <1>4, <1>5, <1>6, <1>7, <1>8 DEF a, b, new

LEMMA MapTurns ==
  ASSUME NEW x, Uf(x)
  PROVE  Turns(GetUint(x).u, GetUint(x).v, 8) \in Nat /\ \E get : MapLoop(x, get)
<1> DEFINE y == GetUint(x)
           n == Turns(y.u, y.v, 8)
           U == {z \in [buf : Seq(0..B), ind : Nat, ok : BOOLEAN, past : BOOLEAN] : Uf(z)}
           M == UNION {[D -> Int] : D \in SUBSET Int}
           S == [u : U, v : M]
           a == [u |-> y.u, v |-> <<>>]
           F == [i \in 1..n |-> [z \in S |-> GetPair(z)]]
           Loop(g) == g = [k \in 0..n |-> IF k = 0 THEN a ELSE GetPair(g[k - 1])]
           get == CHOOSE g : Loop(g)
           Q(k) == /\ get[k] \in S /\ Took(x, get[k].u, 4 + 8 * k)
                   /\ IsFiniteSet(DOMAIN get[k].v) /\ Cardinality(DOMAIN get[k].v) <= k
           T == {k \in 0..n : Q(k)}
<1>1. GetMap(x) = get[n]
      BY DEF GetMap
<1>2. Read(x, y.u, 4) /\ y.v \in Nat
      BY ReadUint, Sizes
<1>3. Uf(y.u) /\ Took(x, y.u, 4)
      BY <1>2, ReadTook DEF Read
<1>4. n \in Nat
      BY <1>2, <1>3, TurnsIs
<1>5. \A z : Uf(z) => z \in U
      BY DEF Uf
<1>6. <<>> \in M /\ DOMAIN <<>> = {}
  <2>1. <<>> \in [{} -> Int] /\ DOMAIN <<>> = {}
        OBVIOUS
  <2> QED BY <2>1
<1>7. \A w \in M : w \in [DOMAIN w -> Int] /\ DOMAIN w \in SUBSET Int
      OBVIOUS
<1>8. \A D \in SUBSET Int : \A w \in [D -> Int] : w \in M
      OBVIOUS
<1> HIDE DEF y, n, U, M
<1>9. a \in S /\ a.u = y.u /\ a.v = <<>>
      BY <1>3, <1>5, <1>6
<1>10. ASSUME NEW z \in S
       PROVE  /\ GetPair(z) \in S /\ Uf(z.u) /\ Read(z.u, GetPair(z).u, 8)
              /\ \E c \in Int : DOMAIN GetPair(z).v = DOMAIN z.v \union {c}
  <2> DEFINE p == GetInt(z.u)
             q == GetInt(p.u)
             new == GetPair(z)
             D == DOMAIN z.v \union {p.v}
  <2>1. z.u \in U /\ z.v \in M
        OBVIOUS
  <2>2. Uf(z.u)
        BY <2>1 DEF U
  <2>3. /\ new.u = q.u /\ p.v \in Int /\ q.v \in Int
        /\ new.v = [k \in D |-> IF k = p.v THEN q.v ELSE z.v[k]]
        /\ Read(z.u, new.u, 8)
        BY <2>2, ReadPair
  <2>4. new = [u |-> new.u, v |-> new.v]
        BY DEF GetPair
  <2> HIDE DEF new, p, q
  <2>5. new.u \in U
        BY <1>5, <2>3 DEF Read
  <2>6. D \in SUBSET Int /\ z.v \in [DOMAIN z.v -> Int]
        BY <1>7, <2>1, <2>3
  <2>7. new.v \in [D -> Int] /\ DOMAIN new.v = D
        BY <2>3, <2>6
  <2>8. new.v \in M
        BY <1>8, <2>6, <2>7
  <2>9. new \in S
        BY <2>4, <2>5, <2>8
  <2> QED BY <2>2, <2>3, <2>7, <2>9 DEF new
<1> HIDE DEF S, a
<1>11. Loop(get)
  <2>1. F \in [1..n -> [S -> S]]
        BY <1>10
  <2>2. PICK f : IsRun(f, S, a, n, F)
    <3> HIDE DEF F
    <3> QED BY <1>4, <1>9, <2>1, RunExists
  <2>3. f \in [0..n -> S] /\ f[0] = a /\ \A i \in 1..n : f[i] = F[i][f[i - 1]]
        BY <2>2 DEF IsRun
  <2>4. \A i \in 1..n : f[i] = GetPair(f[i - 1])
    <3>1. \A i \in 1..n : i - 1 \in 0..n
          BY <1>4
    <3>2. \A i \in 1..n : f[i - 1] \in S
          BY <2>3, <3>1
    <3> QED BY <2>3, <3>2
  <2>5. Loop(f)
        BY <2>3, <2>4
  <2>6. \E z : Loop(z)
        BY <2>5
  <2> HIDE DEF Loop
  <2> QED BY <2>6
<1> HIDE DEF get
<1>12. get[0] = a /\ \A k \in 1..n : get[k] = GetPair(get[k - 1])
  <2>1. \A k \in 0..n : get[k] = IF k = 0 THEN a ELSE GetPair(get[k - 1])
        BY <1>11
  <2>2. 0 \in 0..n /\ \A k \in 1..n : k \in 0..n /\ k # 0
        BY <1>4
  <2> HIDE DEF Loop
  <2> QED BY <2>1, <2>2
<1>13. 0 \in T
  <2>1. 4 + 8 * 0 = 4 /\ IsFiniteSet({}) /\ Cardinality({}) = 0
        BY FS_EmptySet
  <2>2. Q(0)
        BY <1>3, <1>6, <1>9, <1>12, <2>1
  <2> QED BY <1>4, <2>2
<1>14. ASSUME NEW k \in 0..(n - 1), k \in T PROVE k + 1 \in T
  <2> DEFINE z == get[k]
             new == get[k + 1]
  <2>1. Q(k) /\ k + 1 \in 1..n /\ (k + 1) - 1 = k /\ k \in Nat /\ k + 1 \in 0..n
        BY <1>4, <1>14
  <2>2. new = GetPair(z)
        BY <1>12, <2>1
  <2>3. new \in S /\ Read(z.u, new.u, 8) /\ Uf(z.u)
        BY <1>10, <2>1, <2>2
  <2>4. PICK c \in Int : DOMAIN new.v = DOMAIN z.v \union {c}
        BY <1>10, <2>1, <2>2
  <2>5. Took(x, z.u, 4 + 8 * k) /\ IsFiniteSet(DOMAIN z.v) /\ Cardinality(DOMAIN z.v) <= k
        BY <2>1
  <2> HIDE DEF z, new
  <2>6. Took(x, new.u, 4 + 8 * (k + 1))
    <3> DEFINE i == 4 + 8 * k
    <3>1. i \in Nat /\ Took(x, z.u, i) /\ i + 8 = 4 + 8 * (k + 1)
          BY <2>1, <2>5
    <3>2. Took(z.u, new.u, 8)
          BY <2>3, ReadTook
    <3> HIDE DEF i
    <3>3. Took(x, new.u, i + 8)
          BY <3>1, <3>2, TookBoth
    <3> QED BY <3>1, <3>3
  <2>7. IsFiniteSet(DOMAIN new.v) /\ Cardinality(DOMAIN new.v) <= k + 1
    <3>1. /\ IsFiniteSet(DOMAIN z.v \union {c})
          /\ Cardinality(DOMAIN z.v \union {c}) = IF c \in DOMAIN z.v THEN Cardinality(DOMAIN z.v) ELSE Cardinality(DOMAIN z.v) + 1
          BY <2>5, FS_AddElement
    <3>2. Cardinality(DOMAIN z.v) \in Nat
          BY <2>5, FS_CardinalityType
    <3> QED BY <2>1, <2>4, <2>5, <3>1, <3>2
  <2>8. Q(k + 1)
        BY <2>3, <2>6, <2>7 DEF new
  <2> QED BY <2>1, <2>8
<1>15. \A k \in 0..n : Q(k)
  <2>1. \A k \in 0..n : k \in T
    <3> HIDE DEF T
    <3> QED BY <1>4, <1>13, <1>14, UpTo
  <2> QED BY <2>1
<1>16. \A k \in 0..n : get[k].v \in [DOMAIN get[k].v -> Int]
  <2>1. \A z \in S : z.v \in M
        BY DEF S
  <2> QED BY <1>7, <1>15, <2>1
<1>17. MapLoop(x, get)
       BY <1>1, <1>12, <1>15, <1>16 DEF MapLoop, y, n, a
<1> QED BY <1>4, <1>17 DEF y, n

LEMMA ReadMap ==
  ASSUME NEW x, Uf(x)
  PROVE  LET g == GetMap(x)
             k == Turns(GetUint(x).u, GetUint(x).v, 8)
         IN  /\ k \in Nat /\ IsFiniteSet(DOMAIN g.v) /\ Cardinality(DOMAIN g.v) <= k
             /\ Took(x, g.u, 4 + 8 * k)
             /\ \A d : /\ IsFiniteSet(DOMAIN d) /\ Cardinality(DOMAIN d) \in Uint
                       /\ DOMAIN d \subseteq Int4 /\ d \in [DOMAIN d -> Int4]
                       /\ Has(x, 4 + 8 * Cardinality(DOMAIN d)) /\ IsMap(x.buf, x.ind, d)
                       => Got(x, g.u, 4 + 8 * Cardinality(DOMAIN d)) /\ g.v = d
<1> DEFINE y == GetUint(x)
           last == Turns(y.u, y.v, 8)
           g == GetMap(x)
<1>1. last \in Nat
      BY MapTurns
<1>2. PICK get : MapLoop(x, get)
      BY MapTurns
<1>3. /\ get[0] = [u |-> y.u, v |-> <<>>]
      /\ \A k \in 1..last : get[k] = GetPair(get[k - 1])
      /\ \A k \in 0..last : /\ IsFiniteSet(DOMAIN get[k].v) /\ Cardinality(DOMAIN get[k].v) <= k
                            /\ Took(x, get[k].u, 4 + 8 * k)
                            /\ get[k].v \in [DOMAIN get[k].v -> Int]
      /\ g = get[last]
      BY <1>2 DEF MapLoop
<1>4. /\ Read(x, y.u, 4) /\ y.v \in 0..(W - 1)
      /\ \A c \in Int : Has(x, 4) /\ Is4(x.buf, x.ind, c) => y.v = c % W
      BY ReadUint
<1>5. Uf(y.u)
      BY <1>4 DEF Read
<1>6. last \in 0..last
      BY <1>1
<1> HIDE DEF g
<1>7. ASSUME NEW d, IsFiniteSet(DOMAIN d), Cardinality(DOMAIN d) \in Uint,
             DOMAIN d \subseteq Int4, d \in [DOMAIN d -> Int4],
             Has(x, 4 + 8 * Cardinality(DOMAIN d)), IsMap(x.buf, x.ind, d)
      PROVE  Got(x, g.u, 4 + 8 * Cardinality(DOMAIN d)) /\ g.v = d
  <2> DEFINE n == Cardinality(DOMAIN d)
             K == Keys(d)
             Q(k) == /\ Got(x, get[k].u, 4 + 8 * k)
                     /\ DOMAIN get[k].v = {K[i] : i \in 1..k}
                     /\ \A i \in 1..k : get[k].v[K[i]] = d[K[i]]
             T == {k \in 0..n : Q(k)}
  <2>1. /\ n \in Nat /\ K \in [1..n -> DOMAIN d] /\ Len(K) = n
        /\ \A c \in DOMAIN d : \E i \in 1..n : K[i] = c
        BY <1>7, KeysIs
  <2>2. n \in Int /\ n \in 0..(W - 1) /\ W \in Nat /\ W > 0
        BY <1>7, Sizes DEF Uint
  <2>3. Is4(x.buf, x.ind, n) /\ \A i \in 1..n : IsPair(x.buf, (x.ind + 4) + 8 * (i - 1), K[i], d[K[i]])
        BY <1>7, <2>1 DEF IsMap
  <2>4. Has(x, 4 + 8 * n) /\ x.ind \in Nat
        BY <1>7 DEF Uf
  <2> HIDE DEF n, K
  <2>5. \A i \in 1..n : K[i] \in Int4 /\ d[K[i]] \in Int4
    <3>1. \A i \in 1..n : K[i] \in DOMAIN d
          BY <2>1
    <3> QED BY <1>7, <3>1
  <2>7. Has(x, 4) /\ Got(x, y.u, 4) /\ Has(y.u, 8 * n)
    <3> DEFINE k == 8 * n
    <3>1. k \in Nat /\ Has(x, 4 + k)
          BY <2>1, <2>4
    <3> HIDE DEF k, y
    <3>2. Has(x, 4) /\ Got(x, y.u, 4)
          BY <1>4, <3>1, HasRest, ReadTook
    <3>3. Has(y.u, k)
          BY <3>1, <3>2, HasRest
    <3> QED BY <3>2, <3>3 DEF k
  <2>8. y.v = n
    <3>1. y.v = n % W
          BY <1>4, <2>2, <2>3, <2>7
    <3> QED BY <2>2, <3>1, UnsignedBack
  <2>9. last = n
        BY <1>5, <2>1, <2>7, <2>8, TurnsIs
  <2> HIDE DEF last, y
  <2>10. 0 \in T
    <3>1. get[0].u = y.u /\ get[0].v = <<>> /\ 4 + 8 * 0 = 4
          BY <1>3
    <3>2. DOMAIN <<>> = {} /\ {K[i] : i \in 1..0} = {}
          OBVIOUS
    <3> QED BY <2>1, <2>7, <3>1, <3>2
  <2>11. ASSUME NEW k \in 0..(n - 1), k \in T PROVE k + 1 \in T
    <3> DEFINE z == get[k]
               new == get[k + 1]
               a == GetInt(z.u)
               b == GetInt(a.u)
    <3>1. Q(k) /\ k + 1 \in 1..n /\ (k + 1) - 1 = k /\ k \in 0..n /\ k \in Nat /\ k + 1 \in 0..n
          BY <2>1, <2>11
    <3>2. new = GetPair(z) /\ z.v \in [DOMAIN z.v -> Int]
          BY <1>3, <2>9, <3>1
    <3>3. /\ Got(x, z.u, 4 + 8 * k) /\ DOMAIN z.v = {K[i] : i \in 1..k}
          /\ \A i \in 1..k : z.v[K[i]] = d[K[i]]
          BY <3>1
    <3>4. Uf(z.u) /\ z.u.buf = x.buf /\ z.u.ind = x.ind + (4 + 8 * k)
          BY <3>3 DEF Got
    <3>5. Has(z.u, 8)
      <4> DEFINE i == 4 + 8 * k
                 q == 8 * n - (8 * k + 8)
      <4>1. i \in Nat /\ q \in Nat /\ i + (8 + q) = 4 + 8 * n /\ 8 + q \in Nat
            BY <2>1, <3>1
      <4>2. Got(x, z.u, i)
            BY <3>3
      <4> HIDE DEF i, q, z
      <4>3. Has(x, i + (8 + q))
            BY <2>4, <4>1
      <4>4. Has(z.u, 8 + q)
            BY <4>1, <4>2, <4>3, HasRest
      <4> QED BY <3>4, <4>1, <4>4, HasRest
    <3>6. IsPair(z.u.buf, z.u.ind, K[k + 1], d[K[k + 1]])
      <4>1. x.ind + (4 + 8 * k) = (x.ind + 4) + 8 * k
            BY <2>4, <3>1
      <4>2. IsPair(x.buf, (x.ind + 4) + 8 * k, K[k + 1], d[K[k + 1]])
            BY <2>3, <3>1
      <4> QED BY <3>4, <4>1, <4>2
    <3>7. /\ new.u = b.u /\ a.v \in Int /\ b.v \in Int
          /\ new.v = [c \in DOMAIN z.v \union {a.v} |-> IF c = a.v THEN b.v ELSE z.v[c]]
          /\ Read(z.u, new.u, 8)
          /\ \A i, c \in Int4 : Has(z.u, 8) /\ IsPair(z.u.buf, z.u.ind, i, c) => a.v = i /\ b.v = c
      <4> HIDE DEF z, new
      <4> QED BY <3>2, <3>4, ReadPair
    <3> HIDE DEF z, new, a, b
    <3>8. a.v = K[k + 1] /\ b.v = d[K[k + 1]]
          BY <2>5, <3>1, <3>5, <3>6, <3>7
    <3>9. Got(x, new.u, 4 + 8 * (k + 1))
      <4> DEFINE i == 4 + 8 * k
      <4>1. i \in Nat /\ i + 8 = 4 + 8 * (k + 1)
            BY <3>1
      <4>2. Got(x, z.u, i) /\ Got(z.u, new.u, 8)
            BY <3>3, <3>5, <3>7, ReadTook
      <4> HIDE DEF i
      <4>3. Got(x, new.u, i + 8)
            BY <4>1, <4>2, GotBoth
      <4> QED BY <4>1, <4>3
    <3>10. \A i \in 1..(k + 1) : i \in 1..k \/ i = k + 1
           BY <3>1
    <3>11. k + 1 \in 1..(k + 1) /\ \A i \in 1..k : i \in 1..(k + 1)
           BY <3>1
    <3>12. DOMAIN new.v = {K[i] : i \in 1..(k + 1)}
      <4>1. DOMAIN new.v = {K[i] : i \in 1..k} \union {K[k + 1]}
            BY <3>3, <3>7, <3>8
      <4> QED BY <3>10, <3>11, <4>1
    <3>13. \A i \in 1..(k + 1) : new.v[K[i]] = d[K[i]]
      <4> SUFFICES ASSUME NEW i \in 1..(k + 1) PROVE new.v[K[i]] = d[K[i]]
          OBVIOUS
      <4>1. CASE K[i] = K[k + 1]
            BY <3>7, <3>8, <4>1
      <4>2. CASE K[i] # K[k + 1]
        <5>1. i \in 1..k
              BY <3>10, <4>2
        <5>2. K[i] \in DOMAIN z.v /\ z.v[K[i]] = d[K[i]]
              BY <3>3, <5>1
        <5> QED BY <3>7, <3>8, <4>2, <5>2
      <4> QED BY <4>1, <4>2
    <3>14. Q(k + 1)
           BY <3>9, <3>12, <3>13 DEF new
    <3> QED BY <3>1, <3>14
  <2>12. n \in 0..n
         BY <2>1
  <2>13. n \in T
    <3> HIDE DEF T
    <3> QED BY <2>1, <2>10, <2>11, <2>12, UpTo
  <2>14. Got(x, g.u, 4 + 8 * n)
         BY <1>3, <2>9, <2>13
  <2>15. g.v = d
    <3>1. /\ g.v \in [DOMAIN g.v -> Int] /\ DOMAIN g.v = {K[i] : i \in 1..n}
          /\ \A i \in 1..n : g.v[K[i]] = d[K[i]]
          BY <1>3, <1>6, <2>9, <2>13
    <3>2. DOMAIN g.v = DOMAIN d
      <4>1. \A i \in 1..n : K[i] \in DOMAIN d
            BY <2>1
      <4>2. \A c \in DOMAIN d : c \in {K[i] : i \in 1..n}
            BY <2>1
      <4>3. \A c \in {K[i] : i \in 1..n} : c \in DOMAIN d
            BY <4>1
      <4>4. {K[i] : i \in 1..n} = DOMAIN d
            BY <4>2, <4>3
      <4> QED BY <3>1, <4>4
    <3>3. \A c \in DOMAIN d : g.v[c] = d[c]
          BY <2>1, <3>1
    <3> QED BY <1>7, <3>1, <3>2, <3>3
  <2> QED BY <2>14, <2>15 DEF n
<1>8. IsFiniteSet(DOMAIN g.v) /\ Cardinality(DOMAIN g.v) <= last /\ Took(x, g.u, 4 + 8 * last)
      BY <1>3, <1>6
<1> QED BY <1>1, <1>7, <1>8 DEF g

\* operator>> into any type: if nothing went wrong, the value read accounts for
\* the bytes consumed, a map for no more than those.
LEMMA GetAny ==
  ASSUME NEW x, Uf(x), NEW t \in TypeNames
  PROVE  LET g == Get(x, t)
         IN  /\ Uf(g.u) /\ g.u.buf = x.buf
             /\ g.u.ok /\ ~g.u.past =>
                  /\ x.ok /\ ~x.past
                  /\ Size(t, g.v) \in Nat /\ g.u.ind >= x.ind + Size(t, g.v)
                  /\ t # "map" => g.u.ind = x.ind + Size(t, g.v)
<1> DEFINE g == Get(x, t)
           Goal == /\ Uf(g.u) /\ g.u.buf = x.buf
                   /\ g.u.ok /\ ~g.u.past =>
                        /\ x.ok /\ ~x.past
                        /\ Size(t, g.v) \in Nat /\ g.u.ind >= x.ind + Size(t, g.v)
                        /\ t # "map" => g.u.ind = x.ind + Size(t, g.v)
<1> SUFFICES Goal
    OBVIOUS
<1>0. x.ind \in Nat /\ \A y : Uf(y) => y.ind \in Nat
      BY DEF Uf
<1>1. ASSUME Took(x, g.u, Size(t, g.v)), Size(t, g.v) \in Nat PROVE Goal
  <2> HIDE DEF g
  <2> QED BY <1>0, <1>1 DEF Took
<1>2. ASSUME NEW y, g.u = y.u, NEW n \in Nat, Read(x, y.u, n), Size(t, g.v) = n PROVE Goal
  <2>1. Took(x, y.u, n)
        BY <1>2, ReadTook
  <2> HIDE DEF g
  <2>2. Took(x, g.u, Size(t, g.v)) /\ Size(t, g.v) \in Nat
        BY <1>2, <2>1
  <2> QED BY <1>1, <2>2 DEF g
<1>3. CASE t \in {"bool", "char", "uchar"}
  <2>1. Size(t, g.v) = 1
        BY <1>3 DEF Size
  <2>2. t = "bool" => g.u = GetRaw(x).u
        BY DEF Get, GetRaw
  <2>3. t \in {"char", "uchar"} => g.u = GetUchar(x).u
        BY DEF Get, GetSigned
  <2> HIDE DEF g, Goal
  <2> QED BY <1>2, <1>3, <2>1, <2>2, <2>3, ReadRaw, ReadUchar
<1>4. CASE t \in {"short", "ushort"}
  <2>1. Size(t, g.v) = 2
        BY <1>4 DEF Size
  <2>2. g.u = GetUshort(x).u
        BY <1>4 DEF Get, GetSigned
  <2> HIDE DEF g, Goal
  <2> QED BY <1>2, <2>1, <2>2, ReadUshort
<1>5. CASE t \in {"int", "uint"}
  <2>1. Size(t, g.v) = 4
        BY <1>5 DEF Size
  <2>2. g.u = GetUint(x).u
        BY <1>5 DEF Get, GetInt, GetSigned
  <2> HIDE DEF g, Goal
  <2> QED BY <1>2, <2>1, <2>2, ReadUint
<1>6. CASE t = "ull"
  <2>1. Size(t, g.v) = 8
        BY <1>6 DEF Size
  <2>2. g.u = GetUlong(x).u
        BY <1>6 DEF Get
  <2> HIDE DEF g, Goal
  <2> QED BY <1>2, <2>1, <2>2, ReadUlong
<1>7. CASE t = "string"
  <2>1. g = GetString(x)
        BY <1>7 DEF Get
  <2>2. Size(t, g.v) = 4 + Len(g.v)
        BY <1>7 DEF Size
  <2>3. g.v \in Seq(0..B) /\ Took(x, g.u, 4 + Len(g.v))
        BY <2>1, ReadString
  <2> HIDE DEF g, Goal
  <2>4. Size(t, g.v) \in Nat
        BY <2>2, <2>3
  <2> QED BY <1>1, <2>2, <2>3, <2>4
<1>8. CASE t = "vector"
  <2>1. g = GetVector(x)
        BY <1>8 DEF Get
  <2>2. Size(t, g.v) = 4 + Total(Strings(g.v))
        BY <1>8 DEF Size, Strings
  <2>3. g.v \in Seq(Seq(0..B)) /\ Took(x, g.u, 4 + Total(Strings(g.v)))
        BY <2>1, ReadVector
  <2> HIDE DEF g, Goal
  <2>4. Total(Strings(g.v)) \in Nat
        BY <2>3, StringsRoom
  <2>5. Size(t, g.v) \in Nat
        BY <2>2, <2>4
  <2> QED BY <1>1, <2>2, <2>3, <2>5
<1>9. CASE t = "map"
  <2> DEFINE k == Turns(GetUint(x).u, GetUint(x).v, 8)
             n == Cardinality(DOMAIN g.v)
  <2>1. g = GetMap(x)
        BY <1>9 DEF Get
  <2>2. Size(t, g.v) = 4 + 8 * n
        BY <1>9 DEF Size
  <2>3. k \in Nat /\ IsFiniteSet(DOMAIN g.v) /\ n <= k /\ Took(x, g.u, 4 + 8 * k)
        BY <2>1, ReadMap
  <2> HIDE DEF g, k
  <2>4. n \in Nat
        BY <2>3, FS_CardinalityType
  <2> HIDE DEF n
  <2>5. Size(t, g.v) \in Nat /\ Size(t, g.v) <= 4 + 8 * k
        BY <2>2, <2>3, <2>4
  <2>6. Uf(g.u) /\ g.u.buf = x.buf
        BY <2>3 DEF Took
  <2>7. ASSUME g.u.ok /\ ~g.u.past PROVE x.ok /\ ~x.past /\ g.u.ind >= x.ind + Size(t, g.v)
    <3>1. x.ok /\ ~x.past /\ g.u.ind = x.ind + (4 + 8 * k)
          BY <2>3, <2>7 DEF Took
    <3> QED BY <1>0, <2>3, <2>5, <2>6, <3>1
  <2> QED BY <1>9, <2>5, <2>6, <2>7
<1> HIDE DEF Goal
<1> QED BY <1>3, <1>4, <1>5, <1>6, <1>7, <1>8, <1>9 DEF TypeNames

\* operator>> gives back the value that operator<< wrote.
LEMMA GetBack ==
  ASSUME NEW x, Uf(x), NEW t \in TypeNames, NEW v, IsValue(t, v),
         Has(x, Size(t, v)), Holds(x.buf, x.ind, t, v)
  PROVE  Got(x, Get(x, t).u, Size(t, v)) /\ Get(x, t).v = v
<1> DEFINE g == Get(x, t)
<1>0. B \in Nat /\ B > 0 /\ B % 2 = 0 /\ H \in Nat /\ H > 0 /\ H % 2 = 0 /\ W \in Nat /\ W > 0 /\ W % 2 = 0
      BY Sizes
<1>1. CASE t = "bool"
  <2> DEFINE c == IF v THEN 1 ELSE 0
             y == GetRaw(x)
  <2>1. Size(t, v) = 1 /\ Is1(x.buf, x.ind, c) /\ v \in BOOLEAN
        BY <1>1 DEF Size, Holds, IsValue
  <2>2. g.u = y.u /\ g.v = (y.v # 0)
        BY <1>1 DEF Get, GetRaw
  <2>3. Read(x, y.u, 1) /\ y.v = Signed(x.buf[x.ind + 1], B) % W
        BY <2>1, ReadRaw
  <2>4. c \in Int /\ c \in 0..(B - 1) /\ c < B
        BY Sizes
  <2>5. x.buf[x.ind + 1] = c
    <3> HIDE DEF c
    <3> QED BY <1>0, <2>1, <2>4, UnsignedBack DEF Is1
  <2>6. y.v # 0 <=> c # 0
    <3> HIDE DEF y
    <3>1. CASE v
      <4>1. c = 1 /\ y.v % B = 1
        <5>1. c = 1
              BY <3>1
        <5> QED BY <1>0, <2>3, <2>4, <2>5, <5>1, ByteBack
      <4>2. 0 % B = 0
            BY <1>0, UnsignedBack
      <4> QED BY <4>1, <4>2
    <3>2. CASE ~v
      <4>1. c = 0
            BY <3>2
      <4>2. Signed(0, B) = 0
            BY <1>0, Sizes DEF Signed
      <4>3. 0 % W = 0
            BY <1>0, UnsignedBack
      <4> QED BY <2>3, <2>5, <4>1, <4>2, <4>3
    <3> QED BY <3>1, <3>2
  <2>7. g.v = v
        BY <2>1, <2>2, <2>6
  <2>8. Got(x, g.u, Size(t, v))
    <3> HIDE DEF y, g
    <3> QED BY <2>1, <2>2, <2>3, ReadTook
  <2> QED BY <2>7, <2>8
<1>2. CASE t \in {"char", "uchar"}
  <2> DEFINE y == GetUchar(x)
  <2>1. Size(t, v) = 1 /\ Is1(x.buf, x.ind, v)
        BY <1>2 DEF Size, Holds
  <2>2. v \in Int
        BY <1>2, Kinds
  <2>3. Read(x, y.u, 1) /\ y.v = v % B
        BY <2>1, <2>2, ReadUchar
  <2>4. g.u = y.u /\ g.v = IF t = "char" THEN Signed(y.v, B) ELSE y.v
        BY <1>2 DEF Get, GetSigned
  <2>5. t = "char" => v \in -(B \div 2)..(B \div 2 - 1)
        BY DEF IsValue
  <2>6. t = "uchar" => v \in 0..(B - 1)
        BY DEF IsValue, Byte
  <2> HIDE DEF y, g
  <2>7. g.v = v
        BY <1>0, <1>2, <2>3, <2>4, <2>5, <2>6, SignedBack, UnsignedBack
  <2> QED BY <2>1, <2>3, <2>4, <2>7, ReadTook DEF g
<1>3. CASE t \in {"short", "ushort"}
  <2> DEFINE y == GetUshort(x)
  <2>1. Size(t, v) = 2 /\ Is2(x.buf, x.ind, v)
        BY <1>3 DEF Size, Holds
  <2>2. v \in Int
        BY <1>3, Kinds
  <2>3. Read(x, y.u, 2) /\ y.v = v % H
        BY <2>1, <2>2, ReadUshort
  <2>4. g.u = y.u /\ g.v = IF t = "short" THEN Signed(y.v, H) ELSE y.v
        BY <1>3 DEF Get, GetSigned
  <2>5. t = "short" => v \in -(H \div 2)..(H \div 2 - 1)
        BY DEF IsValue
  <2>6. t = "ushort" => v \in 0..(H - 1)
        BY DEF IsValue
  <2> HIDE DEF y, g
  <2>7. g.v = v
        BY <1>0, <1>3, <2>3, <2>4, <2>5, <2>6, SignedBack, UnsignedBack
  <2> QED BY <2>1, <2>3, <2>4, <2>7, ReadTook DEF g
<1>4. CASE t \in {"int", "uint"}
  <2> DEFINE y == GetUint(x)
  <2>1. Size(t, v) = 4 /\ Is4(x.buf, x.ind, v)
        BY <1>4 DEF Size, Holds
  <2>2. v \in Int
        BY <1>4, Kinds
  <2>3. Read(x, y.u, 4) /\ y.v = v % W
        BY <2>1, <2>2, ReadUint
  <2>4. g.u = y.u /\ g.v = IF t = "int" THEN Signed(y.v, W) ELSE y.v
        BY <1>4 DEF Get, GetInt, GetSigned
  <2>5. t = "int" => v \in -(W \div 2)..(W \div 2 - 1)
        BY DEF IsValue, Int4
  <2>6. t = "uint" => v \in 0..(W - 1)
        BY DEF IsValue, Uint
  <2> HIDE DEF y, g
  <2>7. g.v = v
        BY <1>0, <1>4, <2>3, <2>4, <2>5, <2>6, SignedBack, UnsignedBack
  <2> QED BY <2>1, <2>3, <2>4, <2>7, ReadTook DEF g
<1>5. CASE t = "ull"
  <2> DEFINE y == GetUlong(x)
             k == W * W
  <2>1. Size(t, v) = 8 /\ Is8(x.buf, x.ind, v)
        BY <1>5 DEF Size, Holds
  <2>2. v \in Int
        BY <1>5, Kinds
  <2>3. Read(x, y.u, 8) /\ y.v = v % k
        BY <2>1, <2>2, ReadUlong
  <2>4. g = y
        BY <1>5 DEF Get
  <2>5. v \in 0..(k - 1)
        BY <1>5 DEF IsValue
  <2>6. k \in Nat /\ k > 0
        BY <1>0
  <2> HIDE DEF y, g, k
  <2>7. g.v = v
        BY <2>3, <2>4, <2>5, <2>6, UnsignedBack
  <2> QED BY <2>1, <2>3, <2>4, <2>7, ReadTook DEF g
<1>6. CASE t = "string"
  <2>1. v \in Seq(Byte) /\ Len(v) \in Uint
        BY <1>6, Kinds
  <2>2. Size(t, v) = 4 + Len(v) /\ IsStr(x.buf, x.ind, v) /\ g = GetString(x)
        BY <1>6 DEF Size, Holds, Get
  <2> QED BY <2>1, <2>2, ReadString
<1>7. CASE t = "vector"
  <2>1. v \in Seq(Seq(Byte)) /\ Len(v) \in Uint /\ \A i \in 1..Len(v) : Len(v[i]) \in Uint
        BY <1>7, Kinds
  <2>2. Size(t, v) = 4 + Total(Strings(v)) /\ IsVec(x.buf, x.ind, v) /\ g = GetVector(x)
        BY <1>7 DEF Size, Strings, Holds, Get
  <2> QED BY <2>1, <2>2, ReadVector
<1>8. CASE t = "map"
  <2>1. /\ IsFiniteSet(DOMAIN v) /\ Cardinality(DOMAIN v) \in Uint
        /\ DOMAIN v \subseteq Int4 /\ v \in [DOMAIN v -> Int4]
        BY <1>8, Kinds
  <2>2. Size(t, v) = 4 + 8 * Cardinality(DOMAIN v) /\ IsMap(x.buf, x.ind, v) /\ g = GetMap(x)
        BY <1>8 DEF Size, Holds, Get
  <2> QED BY <2>1, <2>2, ReadMap
<1> QED BY <1>1, <1>2, <1>3, <1>4, <1>5, <1>6, <1>7, <1>8 DEF TypeNames

-------------------------------------------------------------------------------
(* Headers and PDUs.                                                       *)

LEMMA PackKeeps ==
  ASSUME NEW a, Wf(a), NEW x \in Int
  PROVE  LET z == Pack(a, x)
         IN  /\ Wf(z) /\ z.ind = a.ind + 4 /\ Len(z.buf) >= Len(a.buf) /\ Is4(z.buf, a.ind, x)
             /\ \A o \in Nat, y \in Int : o + 4 <= a.ind /\ Is4(a.buf, o, y) => Is4(z.buf, o, y)
             /\ \A i \in 1..Len(a.buf) : i > a.ind + 4 => z.buf[i] = a.buf[i]
<1> DEFINE z == Pack(a, x)
<1>1. Wrote(a, z, 4) /\ Is4(z.buf, a.ind, x)
      BY WrotePack
<1> HIDE DEF z
<1>2. /\ Wf(z) /\ z.ind = a.ind + 4 /\ Len(z.buf) >= Len(a.buf)
      /\ \A i \in 1..Len(a.buf) : i > a.ind + 4 => z.buf[i] = a.buf[i]
      BY <1>1 DEF Wrote
<1>3. ASSUME NEW o \in Nat, NEW y \in Int, o + 4 <= a.ind, Is4(a.buf, o, y) PROVE Is4(z.buf, o, y)
  <2>1. Same(a.buf, z.buf, o, 4)
        BY <1>1, <1>3, StillThere
  <2> QED BY <1>3, <2>1, SameInts
<1> QED BY <1>1, <1>2, <1>3 DEF z

\* z is a with another header.
Headed(a, z) == /\ Wf(z) /\ z.ind = a.ind /\ Len(z.buf) >= Len(a.buf)
                /\ \A i \in 1..Len(a.buf) : i > RPC_HEADER_SZ => z.buf[i] = a.buf[i]

LEMMA AtHeaderIs ==
  ASSUME NEW a, Wf(a)
  PROVE  Wf(AtHeader(a)) /\ AtHeader(a).ind = 4 /\ AtHeader(a).buf = a.buf
<1>1. a \in [buf : Seq(0..B), ind : Nat] /\ Len(a.buf) >= 24 /\ Len(a.buf) \in Nat
      BY Sizes DEF Wf
<1>2. AtHeader(a) \in [buf : Seq(0..B), ind : Nat] /\ AtHeader(a).ind = 4 /\ AtHeader(a).buf = a.buf
      BY <1>1, Sizes DEF AtHeader
<1> QED BY <1>1, <1>2, Sizes DEF Wf

LEMMA Returned ==
  ASSUME NEW a, Wf(a), NEW z, Wf(z), Len(z.buf) >= Len(a.buf)
  PROVE  LET y == [z EXCEPT !.ind = a.ind] IN Wf(y) /\ y.ind = a.ind /\ y.buf = z.buf
<1> DEFINE y == [z EXCEPT !.ind = a.ind]
<1>1. /\ a.ind \in Nat /\ a.ind <= Len(a.buf) /\ z \in [buf : Seq(0..B), ind : Nat]
      /\ Len(z.buf) >= RPC_HEADER_SZ /\ Len(a.buf) \in Nat /\ Len(z.buf) \in Nat
      BY DEF Wf
<1>2. y \in [buf : Seq(0..B), ind : Nat] /\ y.ind = a.ind /\ y.buf = z.buf
      BY <1>1
<1> HIDE DEF y
<1>3. Wf(y)
      BY <1>1, <1>2 DEF Wf
<1> QED BY <1>2, <1>3 DEF y

HeaderType == [xid : Int4, proc : Int4, clt_nonce : Uint, srv_nonce : Uint, xid_rep : Int4]

IsReqHeader(buf, hd) == /\ Is4(buf, 4, hd.xid) /\ Is4(buf, 8, hd.proc) /\ Is4(buf, 12, hd.clt_nonce)
                        /\ Is4(buf, 16, hd.srv_nonce) /\ Is4(buf, 20, hd.xid_rep)
IsReplyHeader(buf, xid, ret) == Is4(buf, 4, xid) /\ Is4(buf, 8, ret)

LEMMA HeaderInts ==
  ASSUME NEW hd \in HeaderType
  PROVE  /\ hd.xid \in Int /\ hd.proc \in Int /\ hd.clt_nonce \in Int /\ hd.srv_nonce \in Int
         /\ hd.xid_rep \in Int
         /\ hd.xid \in Int4 /\ hd.proc \in Int4 /\ hd.clt_nonce \in Uint /\ hd.srv_nonce \in Uint
         /\ hd.xid_rep \in Int4
<1>1. Int4 \subseteq Int /\ Uint \subseteq Int
      BY Sizes DEF Int4, Uint
<1> QED BY <1>1 DEF HeaderType

LEMMA ReqHeaderPut ==
  ASSUME NEW a, Wf(a), NEW hd \in HeaderType
  PROVE  Headed(a, PackReqHeader(a, hd)) /\ IsReqHeader(PackReqHeader(a, hd).buf, hd)
<1> DEFINE z0 == AtHeader(a)
           z1 == Pack(z0, hd.xid)
           z2 == Pack(z1, hd.proc)
           z3 == Pack(z2, hd.clt_nonce)
           z4 == Pack(z3, hd.srv_nonce)
           z5 == Pack(z4, hd.xid_rep)
           z == [z5 EXCEPT !.ind = a.ind]
           L == Len(a.buf)
<1>1. PackReqHeader(a, hd) = z
      BY DEF PackReqHeader
<1>2. /\ hd.xid \in Int /\ hd.proc \in Int /\ hd.clt_nonce \in Int /\ hd.srv_nonce \in Int
      /\ hd.xid_rep \in Int
      BY HeaderInts
<1>3. Wf(z0) /\ z0.ind = 4 /\ z0.buf = a.buf
      BY AtHeaderIs
<1>4. L \in Nat
      BY DEF Wf
<1> HIDE DEF z0
<1>5. /\ Wf(z1) /\ z1.ind = 8 /\ Len(z1.buf) \in Nat /\ Len(z1.buf) >= L /\ Is4(z1.buf, 4, hd.xid)
      /\ \A i \in 1..L : i > 24 => z1.buf[i] = a.buf[i]
  <2>1. /\ Wf(z1) /\ z1.ind = z0.ind + 4 /\ Len(z1.buf) >= Len(z0.buf) /\ Is4(z1.buf, z0.ind, hd.xid)
        /\ \A i \in 1..Len(z0.buf) : i > z0.ind + 4 => z1.buf[i] = z0.buf[i]
        BY <1>2, <1>3, PackKeeps
  <2> HIDE DEF z1
  <2> QED BY <1>3, <1>4, <2>1 DEF Wf
<1> HIDE DEF z1
<1>6. /\ Wf(z2) /\ z2.ind = 12 /\ Len(z2.buf) \in Nat /\ Len(z2.buf) >= L
      /\ Is4(z2.buf, 4, hd.xid) /\ Is4(z2.buf, 8, hd.proc)
      /\ \A i \in 1..L : i > 24 => z2.buf[i] = a.buf[i]
  <2>1. /\ Wf(z2) /\ z2.ind = z1.ind + 4 /\ Len(z2.buf) >= Len(z1.buf) /\ Is4(z2.buf, z1.ind, hd.proc)
        /\ \A o \in Nat, y \in Int : o + 4 <= z1.ind /\ Is4(z1.buf, o, y) => Is4(z2.buf, o, y)
        /\ \A i \in 1..Len(z1.buf) : i > z1.ind + 4 => z2.buf[i] = z1.buf[i]
        BY <1>2, <1>5, PackKeeps
  <2> HIDE DEF z2
  <2>2. Len(z2.buf) \in Nat
        BY <2>1 DEF Wf
  <2>3. Len(z2.buf) >= L /\ z2.ind = 12
        BY <1>4, <1>5, <2>1, <2>2
  <2>4. Is4(z2.buf, 4, hd.xid) /\ Is4(z2.buf, 8, hd.proc)
        BY <1>2, <1>5, <2>1
  <2>5. \A i \in 1..L : i > 24 => i \in 1..Len(z1.buf) /\ i > z1.ind + 4
        BY <1>4, <1>5
  <2> QED BY <1>5, <2>1, <2>2, <2>3, <2>4, <2>5
<1> HIDE DEF z2
<1>7. /\ Wf(z3) /\ z3.ind = 16 /\ Len(z3.buf) \in Nat /\ Len(z3.buf) >= L
      /\ Is4(z3.buf, 4, hd.xid) /\ Is4(z3.buf, 8, hd.proc) /\ Is4(z3.buf, 12, hd.clt_nonce)
      /\ \A i \in 1..L : i > 24 => z3.buf[i] = a.buf[i]
  <2>1. /\ Wf(z3) /\ z3.ind = z2.ind + 4 /\ Len(z3.buf) >= Len(z2.buf) /\ Is4(z3.buf, z2.ind, hd.clt_nonce)
        /\ \A o \in Nat, y \in Int : o + 4 <= z2.ind /\ Is4(z2.buf, o, y) => Is4(z3.buf, o, y)
        /\ \A i \in 1..Len(z2.buf) : i > z2.ind + 4 => z3.buf[i] = z2.buf[i]
        BY <1>2, <1>6, PackKeeps
  <2> HIDE DEF z3
  <2>2. Len(z3.buf) \in Nat
        BY <2>1 DEF Wf
  <2>3. Len(z3.buf) >= L /\ z3.ind = 16
        BY <1>4, <1>6, <2>1, <2>2
  <2>4. Is4(z3.buf, 4, hd.xid) /\ Is4(z3.buf, 8, hd.proc) /\ Is4(z3.buf, 12, hd.clt_nonce)
        BY <1>2, <1>6, <2>1
  <2>5. \A i \in 1..L : i > 24 => i \in 1..Len(z2.buf) /\ i > z2.ind + 4
        BY <1>4, <1>6
  <2> QED BY <1>6, <2>1, <2>2, <2>3, <2>4, <2>5
<1> HIDE DEF z3
<1>8. /\ Wf(z4) /\ z4.ind = 20 /\ Len(z4.buf) \in Nat /\ Len(z4.buf) >= L
      /\ Is4(z4.buf, 4, hd.xid) /\ Is4(z4.buf, 8, hd.proc) /\ Is4(z4.buf, 12, hd.clt_nonce)
      /\ Is4(z4.buf, 16, hd.srv_nonce)
      /\ \A i \in 1..L : i > 24 => z4.buf[i] = a.buf[i]
  <2>1. /\ Wf(z4) /\ z4.ind = z3.ind + 4 /\ Len(z4.buf) >= Len(z3.buf) /\ Is4(z4.buf, z3.ind, hd.srv_nonce)
        /\ \A o \in Nat, y \in Int : o + 4 <= z3.ind /\ Is4(z3.buf, o, y) => Is4(z4.buf, o, y)
        /\ \A i \in 1..Len(z3.buf) : i > z3.ind + 4 => z4.buf[i] = z3.buf[i]
        BY <1>2, <1>7, PackKeeps
  <2> HIDE DEF z4
  <2>2. Len(z4.buf) \in Nat
        BY <2>1 DEF Wf
  <2>3. Len(z4.buf) >= L /\ z4.ind = 20
        BY <1>4, <1>7, <2>1, <2>2
  <2>4. /\ Is4(z4.buf, 4, hd.xid) /\ Is4(z4.buf, 8, hd.proc) /\ Is4(z4.buf, 12, hd.clt_nonce)
        /\ Is4(z4.buf, 16, hd.srv_nonce)
        BY <1>2, <1>7, <2>1
  <2>5. \A i \in 1..L : i > 24 => i \in 1..Len(z3.buf) /\ i > z3.ind + 4
        BY <1>4, <1>7
  <2> QED BY <1>7, <2>1, <2>2, <2>3, <2>4, <2>5
<1> HIDE DEF z4
<1>9. /\ Wf(z5) /\ Len(z5.buf) \in Nat /\ Len(z5.buf) >= L /\ IsReqHeader(z5.buf, hd)
      /\ \A i \in 1..L : i > 24 => z5.buf[i] = a.buf[i]
  <2>1. /\ Wf(z5) /\ Len(z5.buf) >= Len(z4.buf) /\ Is4(z5.buf, z4.ind, hd.xid_rep)
        /\ \A o \in Nat, y \in Int : o + 4 <= z4.ind /\ Is4(z4.buf, o, y) => Is4(z5.buf, o, y)
        /\ \A i \in 1..Len(z4.buf) : i > z4.ind + 4 => z5.buf[i] = z4.buf[i]
        BY <1>2, <1>8, PackKeeps
  <2> HIDE DEF z5
  <2>2. Len(z5.buf) \in Nat
        BY <2>1 DEF Wf
  <2>3. Len(z5.buf) >= L
        BY <1>4, <1>8, <2>1, <2>2
  <2>4. IsReqHeader(z5.buf, hd)
        BY SMTT(20), <1>2, <1>8, <2>1 DEF IsReqHeader
  <2>5. \A i \in 1..L : i > 24 => i \in 1..Len(z4.buf) /\ i > z4.ind + 4
        BY <1>4, <1>8
  <2> QED BY <1>8, <2>1, <2>2, <2>3, <2>4, <2>5
<1> HIDE DEF z5
<1>10. Wf(z) /\ z.ind = a.ind /\ z.buf = z5.buf
       BY <1>9, Returned
<1> HIDE DEF z
<1> QED BY <1>1, <1>9, <1>10, Sizes DEF Headed

LEMMA ReplyHeaderPut ==
  ASSUME NEW a, Wf(a), NEW xid \in Int, NEW ret \in Int
  PROVE  /\ Headed(a, PackReplyHeader(a, xid, ret))
         /\ IsReplyHeader(PackReplyHeader(a, xid, ret).buf, xid, ret)
<1> DEFINE z0 == AtHeader(a)
           z1 == Pack(z0, xid)
           z2 == Pack(z1, ret)
           z == [z2 EXCEPT !.ind = a.ind]
           L == Len(a.buf)
<1>1. PackReplyHeader(a, xid, ret) = z
      BY DEF PackReplyHeader
<1>3. Wf(z0) /\ z0.ind = 4 /\ z0.buf = a.buf
      BY AtHeaderIs
<1>4. L \in Nat
      BY DEF Wf
<1> HIDE DEF z0
<1>5. /\ Wf(z1) /\ z1.ind = 8 /\ Len(z1.buf) \in Nat /\ Len(z1.buf) >= L /\ Is4(z1.buf, 4, xid)
      /\ \A i \in 1..L : i > 24 => z1.buf[i] = a.buf[i]
  <2>1. /\ Wf(z1) /\ z1.ind = z0.ind + 4 /\ Len(z1.buf) >= Len(z0.buf) /\ Is4(z1.buf, z0.ind, xid)
        /\ \A i \in 1..Len(z0.buf) : i > z0.ind + 4 => z1.buf[i] = z0.buf[i]
        BY <1>3, PackKeeps
  <2> HIDE DEF z1
  <2> QED BY <1>3, <1>4, <2>1 DEF Wf
<1> HIDE DEF z1
<1>6. /\ Wf(z2) /\ Len(z2.buf) \in Nat /\ Len(z2.buf) >= L /\ IsReplyHeader(z2.buf, xid, ret)
      /\ \A i \in 1..L : i > 24 => z2.buf[i] = a.buf[i]
  <2>1. /\ Wf(z2) /\ Len(z2.buf) >= Len(z1.buf) /\ Is4(z2.buf, z1.ind, ret)
        /\ \A o \in Nat, y \in Int : o + 4 <= z1.ind /\ Is4(z1.buf, o, y) => Is4(z2.buf, o, y)
        /\ \A i \in 1..Len(z1.buf) : i > z1.ind + 4 => z2.buf[i] = z1.buf[i]
        BY <1>5, PackKeeps
  <2> HIDE DEF z2
  <2>2. Len(z2.buf) \in Nat
        BY <2>1 DEF Wf
  <2>3. Len(z2.buf) >= L
        BY <1>4, <1>5, <2>1, <2>2
  <2>4. IsReplyHeader(z2.buf, xid, ret)
        BY <1>5, <2>1 DEF IsReplyHeader
  <2>5. \A i \in 1..L : i > 24 => i \in 1..Len(z1.buf) /\ i > z1.ind + 4
        BY <1>4, <1>5
  <2> QED BY <1>5, <2>1, <2>2, <2>3, <2>4, <2>5
<1> HIDE DEF z2
<1>10. Wf(z) /\ z.ind = a.ind /\ z.buf = z2.buf
       BY <1>6, Returned
<1> HIDE DEF z
<1> QED BY <1>1, <1>6, <1>10, Sizes DEF Headed

\* What is sent is the contents of the buffer, but for the size word.
LEMMA PduIs ==
  ASSUME NEW a, Wf(a), a.ind >= 24
  PROVE  /\ Pdu(a) \in Seq(0..B) /\ Len(Pdu(a)) = a.ind
         /\ \A o, n \in Nat : o >= 4 /\ o + n <= a.ind => Same(a.buf, Pdu(a), o, n)
<1> DEFINE z0 == [a EXCEPT !.ind = 0]
           z == Pack(z0, a.ind)
<1>1. /\ a \in [buf : Seq(0..B), ind : Nat] /\ a.ind \in Nat /\ a.ind <= Len(a.buf) /\ Len(a.buf) \in Nat
      /\ Len(a.buf) >= RPC_HEADER_SZ
      BY DEF Wf
<1>2. z0 \in [buf : Seq(0..B), ind : Nat] /\ z0.ind = 0 /\ z0.buf = a.buf
      BY <1>1
<1> HIDE DEF z0
<1>3. Wf(z0) /\ a.ind \in Int
      BY <1>1, <1>2 DEF Wf
<1>4. /\ Wf(z) /\ Len(z.buf) >= Len(z0.buf)
      /\ \A i \in 1..Len(z0.buf) : i > z0.ind + 4 => z.buf[i] = z0.buf[i]
      BY <1>3, PackKeeps
<1>5. Pdu(a) = SubSeq(z.buf, 1, a.ind)
      BY DEF Pdu, z0
<1> HIDE DEF z
<1> DEFINE p == Pdu(a)
           S == 0..B
<1>6. z.buf \in Seq(S) /\ Len(z.buf) \in Nat /\ a.ind <= Len(z.buf)
  <2>1. z.buf \in Seq(S) /\ Len(z.buf) \in Nat
        BY <1>4 DEF Wf
  <2>2. Len(z.buf) >= Len(a.buf)
        BY <1>2, <1>4
  <2> QED BY <1>1, <2>1, <2>2
<1> HIDE DEF S, p
<1>7. p \in Seq(S) /\ Len(p) = a.ind /\ \A i \in 1..a.ind : p[i] = z.buf[i]
  <2>1. p = SubSeq(z.buf, 1, a.ind)
        BY <1>5 DEF p
  <2>2. p \in Seq(S) /\ Len(p) = a.ind
        BY <1>1, <1>6, <2>1
  <2>3. \A i \in 1..a.ind : p[i] = z.buf[i]
        BY <1>1, <1>6, <2>1
  <2> QED BY <2>2, <2>3
<1>8. ASSUME NEW o \in Nat, NEW n \in Nat, o >= 4, o + n <= a.ind PROVE Same(a.buf, p, o, n)
  <2> SUFFICES ASSUME NEW i \in (o + 1)..(o + n) PROVE p[i] = a.buf[i]
      BY DEF Same
  <2>1. i \in 1..a.ind /\ i \in 1..Len(z0.buf) /\ i > z0.ind + 4
        BY <1>1, <1>2, <1>8
  <2> QED BY <1>2, <1>4, <1>7, <2>1
<1> QED BY <1>7, <1>8 DEF p, S

\* The cursor set to a place inside the buffer.
LEMMA Moved ==
  ASSUME NEW x, Uf(x), NEW n \in Nat, n <= Len(x.buf), NEW y, y = [x EXCEPT !.ind = n]
  PROVE  Uf(y) /\ y.ind = n /\ y.buf = x.buf /\ y.ok = x.ok /\ y.past = x.past
<1>1. x \in [buf : Seq(0..B), ind : Nat, ok : BOOLEAN, past : BOOLEAN]
      BY DEF Uf
<1>2. /\ y \in [buf : Seq(0..B), ind : Nat, ok : BOOLEAN, past : BOOLEAN]
      /\ y.ind = n /\ y.buf = x.buf /\ y.ok = x.ok /\ y.past = x.past
      BY <1>1
<1>3. Uf(y)
      BY <1>2 DEF Uf
<1> QED BY <1>2, <1>3

\* An int of a header, and the cursor behind it.
LEMMA HeaderInt ==
  ASSUME NEW x, Uf(x), x.ok, x.ind + 4 <= 24, Len(x.buf) >= 24
  PROVE  LET y == GetInt(x)
         IN  /\ Uf(y.u) /\ y.u.buf = x.buf /\ y.u.ok /\ y.u.past = x.past /\ y.u.ind = x.ind + 4
             /\ \A c \in Int4 : Is4(x.buf, x.ind, c) => y.v = c
             /\ \A c \in Uint : Is4(x.buf, x.ind, c) => y.v % W = c
<1>1. Has(x, 4)
  <2>1. x.ind \in Nat /\ Len(x.buf) \in Nat
        BY DEF Uf
  <2> QED BY <2>1 DEF Has
<1> DEFINE y == GetInt(x)
<1>2. /\ Read(x, y.u, 4)
      /\ \A c \in Int4 : Has(x, 4) /\ Is4(x.buf, x.ind, c) => y.v = c
      /\ \A c \in Uint : Has(x, 4) /\ Is4(x.buf, x.ind, c) => y.v % W = c
      BY ReadInt
<1>3. Got(x, y.u, 4)
      BY <1>1, <1>2, ReadTook
<1> HIDE DEF y
<1> QED BY <1>1, <1>2, <1>3 DEF Got, y

LEMMA ReqHeaderGet ==
  ASSUME NEW x, Uf(x), x.ok, Len(x.buf) >= 24, NEW hd \in HeaderType, IsReqHeader(x.buf, hd)
  PROVE  LET y == UnpackReqHeader(x)
         IN  /\ Uf(y.u) /\ y.u.buf = x.buf /\ y.u.ok /\ y.u.past = x.past /\ y.u.ind = 24
             /\ y.h = hd
<1> DEFINE z0 == AtHeader(x)
           z1 == GetInt(z0)
           z2 == GetInt(z1.u)
           z3 == GetInt(z2.u)
           z4 == GetInt(z3.u)
           z5 == GetInt(z4.u)
           end == [z5.u EXCEPT !.ind = 24]
           y == UnpackReqHeader(x)
<1>1. /\ y.u = end
      /\ y.h = [xid |-> z1.v, proc |-> z2.v, clt_nonce |-> z3.v % W, srv_nonce |-> z4.v % W,
                xid_rep |-> z5.v]
      BY Sizes DEF UnpackReqHeader
<1>2. /\ hd.xid \in Int4 /\ hd.proc \in Int4 /\ hd.clt_nonce \in Uint /\ hd.srv_nonce \in Uint
      /\ hd.xid_rep \in Int4
      BY HeaderInts
<1>3. /\ Is4(x.buf, 4, hd.xid) /\ Is4(x.buf, 8, hd.proc) /\ Is4(x.buf, 12, hd.clt_nonce)
      /\ Is4(x.buf, 16, hd.srv_nonce) /\ Is4(x.buf, 20, hd.xid_rep)
      BY DEF IsReqHeader
<1>4. Len(x.buf) \in Nat /\ 4 <= Len(x.buf) /\ 24 <= Len(x.buf)
      BY DEF Uf
<1>5. Uf(z0) /\ z0.ind = 4 /\ z0.buf = x.buf /\ z0.ok /\ z0.past = x.past
  <2>1. z0 = [x EXCEPT !.ind = 4]
        BY Sizes DEF AtHeader
  <2> HIDE DEF z0
  <2> QED BY <1>4, <2>1, Moved
<1> HIDE DEF z0, y
<1>6. Uf(z1.u) /\ z1.u.buf = x.buf /\ z1.u.ok /\ z1.u.past = x.past /\ z1.u.ind = 8 /\ z1.v = hd.xid
      BY <1>2, <1>3, <1>5, HeaderInt
<1> HIDE DEF z1
<1>7. Uf(z2.u) /\ z2.u.buf = x.buf /\ z2.u.ok /\ z2.u.past = x.past /\ z2.u.ind = 12 /\ z2.v = hd.proc
      BY <1>2, <1>3, <1>6, HeaderInt
<1> HIDE DEF z2
<1>8. Uf(z3.u) /\ z3.u.buf = x.buf /\ z3.u.ok /\ z3.u.past = x.past /\ z3.u.ind = 16 /\ z3.v % W = hd.clt_nonce
      BY <1>2, <1>3, <1>7, HeaderInt
<1> HIDE DEF z3
<1>9. Uf(z4.u) /\ z4.u.buf = x.buf /\ z4.u.ok /\ z4.u.past = x.past /\ z4.u.ind = 20 /\ z4.v % W = hd.srv_nonce
      BY <1>2, <1>3, <1>8, HeaderInt
<1> HIDE DEF z4
<1>10. Uf(z5.u) /\ z5.u.buf = x.buf /\ z5.u.ok /\ z5.u.past = x.past /\ z5.v = hd.xid_rep
       BY <1>2, <1>3, <1>9, HeaderInt
<1> HIDE DEF z5
<1>11. Uf(end) /\ end.ind = 24 /\ end.buf = x.buf /\ end.ok /\ end.past = x.past
  <2>1. end = [z5.u EXCEPT !.ind = 24]
        OBVIOUS
  <2> HIDE DEF end
  <2> QED BY <1>4, <1>10, <2>1, Moved
<1> HIDE DEF end
<1>12. y.h = hd
  <2>1. hd = [xid |-> hd.xid, proc |-> hd.proc, clt_nonce |-> hd.clt_nonce, srv_nonce |-> hd.srv_nonce,
              xid_rep |-> hd.xid_rep]
        BY DEF HeaderType
  <2> QED BY <1>1, <1>6, <1>7, <1>8, <1>9, <1>10, <2>1
<1> QED BY <1>1, <1>11, <1>12 DEF y

LEMMA ReplyHeaderGet ==
  ASSUME NEW x, Uf(x), x.ok, Len(x.buf) >= 24, NEW xid \in Int4, NEW ret \in Int4,
         IsReplyHeader(x.buf, xid, ret)
  PROVE  LET y == UnpackReplyHeader(x)
             z == TakeIn(y.u)
         IN  /\ y.u.ok /\ y.h = [xid |-> xid, ret |-> ret]
             /\ Uf(z) /\ z.buf = x.buf /\ z.ok /\ z.past = x.past /\ z.ind = 24
<1> DEFINE z0 == AtHeader(x)
           z1 == GetInt(z0)
           z2 == GetInt(z1.u)
           end == [z2.u EXCEPT !.ind = 24]
           y == UnpackReplyHeader(x)
           z == TakeIn(y.u)
<1>1. y.u = end /\ y.h = [xid |-> z1.v, ret |-> z2.v]
      BY Sizes DEF UnpackReplyHeader
<1>2. Is4(x.buf, 4, xid) /\ Is4(x.buf, 8, ret)
      BY DEF IsReplyHeader
<1>3. Len(x.buf) \in Nat /\ 4 <= Len(x.buf) /\ 24 <= Len(x.buf)
      BY DEF Uf
<1>4. Uf(z0) /\ z0.ind = 4 /\ z0.buf = x.buf /\ z0.ok /\ z0.past = x.past
  <2>1. z0 = [x EXCEPT !.ind = 4]
        BY Sizes DEF AtHeader
  <2> HIDE DEF z0
  <2> QED BY <1>3, <2>1, Moved
<1>5. z = [y.u EXCEPT !.ind = 24, !.ok = Len(y.u.buf) >= 24]
      BY Sizes DEF TakeIn
<1> HIDE DEF z0, y, z
<1>6. Uf(z1.u) /\ z1.u.buf = x.buf /\ z1.u.ok /\ z1.u.past = x.past /\ z1.u.ind = 8 /\ z1.v = xid
      BY <1>2, <1>4, HeaderInt
<1> HIDE DEF z1
<1>7. Uf(z2.u) /\ z2.u.buf = x.buf /\ z2.u.ok /\ z2.u.past = x.past /\ z2.v = ret
      BY <1>2, <1>6, HeaderInt
<1> HIDE DEF z2
<1>8. Uf(end) /\ end.ind = 24 /\ end.buf = x.buf /\ end.ok /\ end.past = x.past
  <2>1. end = [z2.u EXCEPT !.ind = 24]
        OBVIOUS
  <2> HIDE DEF end
  <2> QED BY <1>3, <1>7, <2>1, Moved
<1> HIDE DEF end
<1>9. end \in [buf : Seq(0..B), ind : Nat, ok : BOOLEAN, past : BOOLEAN]
      BY <1>8 DEF Uf
<1>10. /\ z \in [buf : Seq(0..B), ind : Nat, ok : BOOLEAN, past : BOOLEAN]
       /\ z.ind = 24 /\ z.buf = x.buf /\ z.ok /\ z.past = x.past
       BY <1>1, <1>3, <1>5, <1>8, <1>9
<1>11. Uf(z)
       BY <1>3, <1>10 DEF Uf
<1> QED BY <1>1, <1>6, <1>7, <1>8, <1>10, <1>11 DEF y, z

-------------------------------------------------------------------------------
(* Lists of arguments.                                                     *)

\* The sizes of the arguments of a list, and a list with a size for each.
SizesOf(list) == [i \in 1..Len(list) |-> Size(list[i][1], list[i][2])]
Listed(list) == (\E S : list \in Seq(S)) /\ SizesOf(list) \in [1..Len(list) -> Nat]

\* The bytes of the first k arguments of a list.
Upto(list, k) == Part(SizesOf(list), k)

LEMMA BytesIs ==
  ASSUME NEW list, Listed(list)
  PROVE  /\ Len(list) \in Nat /\ Upto(list, 0) = 0 /\ Upto(list, Len(list)) = Bytes(list)
         /\ \A k \in 0..Len(list) : Upto(list, k) \in Nat /\ Upto(list, k) <= Bytes(list)
         /\ \A k \in 1..Len(list) : Upto(list, k) = Upto(list, k - 1) + Size(list[k][1], list[k][2])
<1> DEFINE n == Len(list)
           s == SizesOf(list)
<1>1. n \in Nat /\ s \in [1..n -> Nat] /\ Bytes(list) = Total(s)
      BY DEF Listed, Bytes, SizesOf
<1>2. \A k \in 1..n : s[k] = Size(list[k][1], list[k][2])
      BY DEF SizesOf
<1> HIDE DEF n, s
<1>3. n \in 0..n
      BY <1>1
<1>4. /\ Part(s, 0) = 0 /\ Part(s, n) = Total(s)
      /\ \A k \in 0..n : Part(s, k) \in Nat
      /\ \A k \in 1..n : Part(s, k) = Part(s, k - 1) + s[k]
      /\ \A j, k \in 0..n : j <= k => Part(s, j) <= Part(s, k)
      BY <1>1, PartIs
<1>5. \A k \in 0..n : Part(s, k) \in Nat /\ Part(s, k) <= Bytes(list)
  <2>1. \A k \in 0..n : k <= n
        BY <1>1
  <2> QED BY <1>1, <1>3, <1>4, <2>1
<1> QED BY <1>1, <1>2, <1>4, <1>5 DEF n, s, Upto

LEMMA EmptyList == Listed(<<>>) /\ Bytes(<<>>) = 0 /\ Len(<<>>) = 0
<1>1. <<>> \in Seq({}) /\ Len(<<>>) = 0
      OBVIOUS
<1>2. SizesOf(<<>>) \in [1..0 -> Nat]
      BY <1>1 DEF SizesOf
<1>3. Listed(<<>>)
      BY <1>1, <1>2 DEF Listed
<1> QED BY <1>1, <1>3, BytesIs

LEMMA BytesMore ==
  ASSUME NEW list, Listed(list), NEW t, NEW v, Size(t, v) \in Nat
  PROVE  LET z == Append(list, <<t, v>>)
         IN  /\ Listed(z) /\ Len(z) = Len(list) + 1
             /\ z[Len(list) + 1] = <<t, v>> /\ \A i \in 1..Len(list) : z[i] = list[i]
             /\ Bytes(z) = Bytes(list) + Size(t, v)
             /\ \A k \in 0..Len(list) : Upto(z, k) = Upto(list, k)
<1> DEFINE e == <<t, v>>
           z == Append(list, e)
           n == Len(list)
<1>1. PICK S : list \in Seq(S)
      BY DEF Listed
<1>2. e[1] = t /\ e[2] = v
      OBVIOUS
<1> HIDE DEF e
<1>3. /\ n \in Nat /\ z \in Seq(S \union {e}) /\ Len(z) = n + 1 /\ z[n + 1] = e
      /\ \A i \in 1..n : z[i] = list[i]
  <2> DEFINE X == S \union {e}
  <2>1. list \in Seq(X) /\ e \in X
        BY <1>1
  <2> HIDE DEF X
  <2>2. z \in Seq(X) /\ n \in Nat /\ Len(z) = n + 1 /\ z[n + 1] = e /\ \A i \in 1..n : z[i] = list[i]
        BY <2>1
  <2> QED BY <2>2 DEF X
<1> HIDE DEF z
<1>4. SizesOf(list) \in [1..n -> Nat] /\ \A i \in 1..n : SizesOf(list)[i] = Size(list[i][1], list[i][2])
      BY DEF Listed, SizesOf
<1>5. SizesOf(z) = [i \in 1..(n + 1) |-> Size(z[i][1], z[i][2])]
      BY <1>3 DEF SizesOf
<1>6. \A i \in 1..(n + 1) : i \in 1..n \/ i = n + 1
      BY <1>3
<1>7. \A i \in 1..(n + 1) : Size(z[i][1], z[i][2]) \in Nat
      BY SMTT(20), <1>2, <1>3, <1>4, <1>6
<1>8. Listed(z)
  <2>1. SizesOf(z) \in [1..(n + 1) -> Nat]
        BY <1>5, <1>7
  <2> QED BY <1>3, <2>1 DEF Listed
<1>9. ASSUME NEW k \in 0..n PROVE Upto(z, k) = Upto(list, k)
  <2>1. k \in Nat /\ \A i \in 1..k : i \in 1..n /\ i \in 1..(n + 1)
        BY <1>3
  <2>2. \A i \in 1..k : SizesOf(z)[i] = SizesOf(list)[i]
        BY <1>3, <1>4, <1>5, <2>1
  <2> QED BY <2>1, <2>2, PartSame DEF Upto
<1>10. Bytes(z) = Bytes(list) + Size(t, v)
  <2> DEFINE k == n + 1
  <2>1. k \in Nat /\ k \in 1..k /\ k - 1 = n /\ n \in 0..n
        BY <1>3
  <2>2. Upto(list, n) = Bytes(list)
        BY BytesIs
  <2> HIDE DEF k
  <2>3. Len(z) = k /\ z[k] = e
        BY <1>3 DEF k
  <2>4. Upto(z, k) = Upto(z, k - 1) + Size(z[k][1], z[k][2]) /\ Upto(z, k) = Bytes(z)
        BY <1>8, <2>1, <2>3, BytesIs
  <2> QED BY <1>2, <1>9, <2>1, <2>2, <2>3, <2>4
<1> QED BY <1>3, <1>8, <1>9, <1>10 DEF z, e

\* A list of values of their types, and a buffer with that list behind its header.
Proper(list) == /\ Listed(list)
                /\ \A i \in 1..Len(list) : /\ list[i] = <<list[i][1], list[i][2]>>
                                           /\ list[i][1] \in TypeNames /\ IsValue(list[i][1], list[i][2])
Carries(buf, list) == \A i \in 1..Len(list) : Holds(buf, 24 + Upto(list, i - 1), list[i][1], list[i][2])

LEMMA CarriesSame ==
  ASSUME NEW list, Proper(list), NEW buf, NEW new, Carries(buf, list), Same(buf, new, 24, Bytes(list))
  PROVE  Carries(new, list)
<1> SUFFICES ASSUME NEW i \in 1..Len(list) PROVE Holds(new, 24 + Upto(list, i - 1), list[i][1], list[i][2])
    BY DEF Carries
<1> DEFINE t == list[i][1]
           v == list[i][2]
           p == Upto(list, i - 1)
           q == Upto(list, i)
           n == Bytes(list)
<1>1. /\ Len(list) \in Nat
      /\ \A k \in 0..Len(list) : Upto(list, k) \in Nat /\ Upto(list, k) <= Bytes(list)
      /\ \A k \in 1..Len(list) : Upto(list, k) = Upto(list, k - 1) + Size(list[k][1], list[k][2])
      /\ Upto(list, Len(list)) = Bytes(list)
      BY BytesIs DEF Proper
<1>2. i \in 0..Len(list) /\ i - 1 \in 0..Len(list) /\ Len(list) \in 0..Len(list)
      BY <1>1
<1>3. p \in Nat /\ q \in Nat /\ n \in Nat /\ q <= n /\ q = p + Size(t, v)
      BY <1>1, <1>2
<1>4. t \in TypeNames /\ IsValue(t, v) /\ Holds(buf, 24 + p, t, v)
      BY DEF Proper, Carries
<1>5. Size(t, v) \in Nat
  <2>1. SizesOf(list)[i] = Size(t, v) /\ SizesOf(list)[i] \in Nat
        BY DEF Proper, Listed, SizesOf
  <2> QED BY <2>1
<1> HIDE DEF t, v, p, q, n
<1> DEFINE c == Size(t, v)
<1>6. c \in Nat /\ q = p + c
      BY <1>3, <1>5
<1> HIDE DEF c
<1>7. \A j \in (24 + p + 1)..(24 + p + c) : j \in (24 + 1)..(24 + n)
      BY <1>3, <1>6
<1>8. Same(buf, new, 24 + p, c)
      BY <1>7 DEF Same, n
<1> QED BY <1>3, <1>4, <1>8, SameHolds DEF t, v, p, c

-------------------------------------------------------------------------------
(* CallData: the inductive invariant, by where the call is.                *)

\* The handler's arguments and the caller's.
Handed == /\ Bytes(got) <= Bytes(args)
          /\ (\A i \in DOMAIN sig : sig[i] # "map") => Bytes(got) = Bytes(args)
          /\ sig = Sig => got = args

InArgs == /\ m.ind = 24 + Bytes(args) /\ Carries(m.buf, args)
          /\ got = <<>> /\ res = None /\ r = None

\* The request as the server has it.
AtServer == /\ Uf(u) /\ ~u.past /\ Len(u.buf) = 24 + Bytes(args) /\ Carries(u.buf, args)
            /\ h \in HeaderType /\ sig \in Seq(TypeNames) /\ res = None /\ r = None

AtRequest == AtServer /\ u.ok /\ IsReqHeader(u.buf, h) /\ got = <<>>

\* What fn has read: as long as all went well, arguments of no more bytes than
\* the cursor has passed, and the caller's own if it reads them by their types.
AtDispatch == /\ AtServer /\ seen = h /\ m.ind = 24
              /\ (\E S : got \in Seq(S)) /\ Len(got) <= Len(sig)
              /\ u.ok => /\ Listed(got) /\ u.ind >= 24 + Bytes(got)
                         /\ (\A i \in DOMAIN sig : sig[i] # "map") => u.ind = 24 + Bytes(got)
              /\ sig = Sig => /\ u.ok /\ u.ind = 24 + Upto(args, Len(got))
                              /\ \A i \in 1..Len(got) : got[i] = args[i]

\* The reply as the client has it.
Answered == /\ Uf(u) /\ u.ok /\ ~u.past /\ Len(u.buf) >= 24
            /\ h.xid \in Int4 /\ res.ret \in Int4 /\ r = None
            /\ ~HandlerRan => res.ret < 0
            /\ HandlerRan => /\ res.type \in TypeNames /\ IsValue(res.type, res.val)
                             /\ Holds(u.buf, 24, res.type, res.val)
                             /\ Len(u.buf) = 24 + Size(res.type, res.val)

SeenReply == seen = [xid |-> h.xid, ret |-> res.ret]
AtReply == Answered /\ IsReplyHeader(u.buf, h.xid, res.ret)
AtCallM == Answered /\ SeenReply /\ u.ind = 24
AtDone == SeenReply /\ r.ret = res.ret /\ (r.ret >= 0 /\ r.type = res.type => r.val = res.val)
AtEnd == (sig = Sig => HandlerRan) /\ (r # None => r.type # res.type)

DataInv == /\ Wf(m) /\ Proper(args)
           /\ HandlerRan => Handed
           /\ \/ pc = "args" /\ InArgs
              \/ pc = "request" /\ AtRequest
              \/ pc = "dispatch" /\ AtDispatch
              \/ pc = "reply" /\ AtReply
              \/ pc = "call_m" /\ AtCallM
              \/ pc = "done" /\ AtDone
              \/ pc \in {"abort", "undefined"} /\ AtEnd

LEMMA ValuesAre ==
  ASSUME NEW t \in Types, NEW v \in Vals[t]
  PROVE  t \in TypeNames /\ IsValue(t, v)
BY DataAssumption DEF Types

LEMMA NewMarshallIs == Wf(NewMarshall) /\ NewMarshall.ind = 24
<1> DEFINE buf == [i \in 1..DEFAULT_RPC_SZ |-> Junk]
           S == 0..B
<1>1. DEFAULT_RPC_SZ \in Nat /\ DEFAULT_RPC_SZ >= 24 /\ Junk \in S
      BY SizeAssumption, Sizes DEF Junk
<1> HIDE DEF S
<1>2. buf \in Seq(S) /\ Len(buf) = DEFAULT_RPC_SZ
      BY <1>1
<1>3. NewMarshall.buf = buf /\ NewMarshall.ind = 24 /\ NewMarshall = [buf |-> buf, ind |-> 24]
      BY Sizes DEF NewMarshall
<1> HIDE DEF buf
<1>4. NewMarshall \in [buf : Seq(S), ind : Nat]
      BY <1>2, <1>3
<1> QED BY <1>1, <1>2, <1>3, <1>4, Sizes DEF Wf, S

\* A PDU on its way: what was behind the header of a and the header of z.
LEMMA Delivered ==
  ASSUME NEW a, NEW z, Wf(a), a.ind >= 24, Headed(a, z), NEW x, x = NewUnmarshall(Pdu(z))
  PROVE  /\ Uf(x) /\ x.ok /\ ~x.past /\ Len(x.buf) = a.ind
         /\ \A n \in Nat : 24 + n <= a.ind => Same(a.buf, x.buf, 24, n)
         /\ \A hd \in HeaderType : IsReqHeader(z.buf, hd) => IsReqHeader(x.buf, hd)
         /\ \A xid, ret \in Int : IsReplyHeader(z.buf, xid, ret) => IsReplyHeader(x.buf, xid, ret)
<1> DEFINE p == Pdu(z)
<1>1. /\ Wf(z) /\ z.ind = a.ind /\ Len(z.buf) >= Len(a.buf)
      /\ \A i \in 1..Len(a.buf) : i > 24 => z.buf[i] = a.buf[i]
      BY Sizes DEF Headed
<1>2. /\ p \in Seq(0..B) /\ Len(p) = a.ind
      /\ \A o, n \in Nat : o >= 4 /\ o + n <= a.ind => Same(z.buf, p, o, n)
      BY <1>1, PduIs
<1>3. a.ind \in Nat /\ Len(a.buf) \in Nat /\ a.ind <= Len(a.buf)
      BY DEF Wf
<1>4. x = [buf |-> p, ind |-> 0, ok |-> TRUE, past |-> FALSE]
      BY DEF NewUnmarshall
<1> HIDE DEF p
<1>5. Uf(x) /\ x.ok /\ ~x.past /\ x.buf = p
  <2>1. /\ x \in [buf : Seq(0..B), ind : Nat, ok : BOOLEAN, past : BOOLEAN]
        /\ x.ind = 0 /\ x.ok /\ ~x.past /\ x.buf = p
        BY <1>2, <1>4
  <2> QED BY <1>2, <1>3, <2>1 DEF Uf
<1>6. ASSUME NEW n \in Nat, 24 + n <= a.ind PROVE Same(a.buf, p, 24, n)
  <2>1. Same(z.buf, p, 24, n)
        BY <1>2, <1>6
  <2>2. \A i \in (24 + 1)..(24 + n) : i \in 1..Len(a.buf) /\ i > 24
        BY <1>3, <1>6
  <2> QED BY <1>1, <2>1, <2>2 DEF Same
<1>7. /\ Same(z.buf, p, 4, 4) /\ Same(z.buf, p, 8, 4) /\ Same(z.buf, p, 12, 4) /\ Same(z.buf, p, 16, 4)
      /\ Same(z.buf, p, 20, 4)
      BY <1>2, <1>3
<1>8. \A hd : IsReqHeader(z.buf, hd) => IsReqHeader(p, hd)
      BY <1>7, SameInts DEF IsReqHeader
<1>9. \A xid, ret : IsReplyHeader(z.buf, xid, ret) => IsReplyHeader(p, xid, ret)
      BY <1>7, SameInts DEF IsReplyHeader
<1> QED BY <1>2, <1>5, <1>6, <1>8, <1>9

LEMMA InitDataInv == DataInit => DataInv
<1> SUFFICES ASSUME DataInit PROVE DataInv
    OBVIOUS
<1>1. /\ pc = "args" /\ m = NewMarshall /\ args = <<>> /\ got = <<>> /\ res = None /\ r = None
      BY DEF DataInit
<1>2. Listed(args) /\ Bytes(args) = 0 /\ Len(args) = 0
      BY <1>1, EmptyList
<1>3. Proper(args) /\ Carries(m.buf, args)
      BY <1>2 DEF Proper, Carries
<1>4. Wf(m) /\ m.ind = 24
      BY <1>1, NewMarshallIs
<1>5. ~HandlerRan
      BY <1>1 DEF HandlerRan, None
<1>6. InArgs
      BY <1>1, <1>2, <1>3, <1>4 DEF InArgs
<1> QED BY <1>1, <1>3, <1>4, <1>5, <1>6 DEF DataInv

LEMMA MarshallArgData ==
  ASSUME DataInv, NEW t \in Types, NEW v \in Vals[t], MarshallArg(t, v)
  PROVE  DataInv'
<1> DEFINE n == Len(args)
           c == Size(t, v)
<1>1. /\ pc = "args" /\ pc' = "args" /\ m' = Put(m, t, v) /\ args' = Append(args, <<t, v>>)
      /\ got' = got /\ res' = res /\ r' = r
      BY DEF MarshallArg
<1>2. Wf(m) /\ Proper(args) /\ InArgs
      BY <1>1 DEF DataInv
<1>3. t \in TypeNames /\ IsValue(t, v)
      BY ValuesAre
<1>4. c \in Nat /\ Wrote(m, m', c) /\ Holds(m'.buf, m.ind, t, v)
      BY <1>1, <1>2, <1>3, WrotePut
<1>5. /\ Listed(args)
      /\ \A i \in 1..n : /\ args[i] = <<args[i][1], args[i][2]>>
                         /\ args[i][1] \in TypeNames /\ IsValue(args[i][1], args[i][2])
      BY <1>2 DEF Proper
<1>6. /\ Listed(args') /\ Len(args') = n + 1
      /\ args'[n + 1] = <<t, v>> /\ \A i \in 1..n : args'[i] = args[i]
      /\ Bytes(args)' = Bytes(args) + c
      /\ \A k \in 0..n : Upto(args', k) = Upto(args, k)
      BY <1>1, <1>4, <1>5, BytesMore
<1>7. n \in Nat /\ Upto(args, n) = Bytes(args) /\ Bytes(args) \in Nat
  <2>1. n \in Nat /\ Upto(args, n) = Bytes(args) /\ \A k \in 0..n : Upto(args, k) \in Nat
        BY <1>5, BytesIs
  <2> QED BY <2>1
<1>8. \A i \in 1..(n + 1) : i \in 1..n \/ i = n + 1
      BY <1>7
<1>9. Proper(args')
      BY <1>3, <1>5, <1>6, <1>8 DEF Proper
<1>10. m.ind = 24 + Bytes(args) /\ Carries(m.buf, args) /\ got = <<>> /\ res = None /\ r = None
       BY <1>2 DEF InArgs
<1> HIDE DEF c
<1>11. Wf(m') /\ m'.ind = 24 + Bytes(args)'
  <2>1. Wf(m') /\ m'.ind = m.ind + c
        BY <1>4 DEF Wrote
  <2> QED BY <1>4, <1>6, <1>7, <1>10, <2>1
<1>12. Carries(m'.buf, args)
  <2>1. Same(m.buf, m'.buf, 24, Bytes(args))
        BY <1>2, <1>4, <1>7, <1>10, StillThere
  <2> QED BY <1>2, <1>10, <2>1, CarriesSame
<1>13. Carries(m'.buf, args')
  <2>1. ASSUME NEW i \in 1..n PROVE Holds(m'.buf, 24 + Upto(args', i - 1), args'[i][1], args'[i][2])
    <3>1. i - 1 \in 0..n
          BY <1>7
    <3> QED BY <1>6, <1>12, <3>1 DEF Carries
  <2>2. ASSUME NEW i, i = n + 1 PROVE Holds(m'.buf, 24 + Upto(args', i - 1), args'[i][1], args'[i][2])
    <3>1. i - 1 = n /\ n \in 0..n
          BY <1>7, <2>2
    <3>2. Upto(args', i - 1) = Bytes(args)
          BY <1>6, <1>7, <3>1
    <3>3. args'[i][1] = t /\ args'[i][2] = v
          BY <1>6, <2>2
    <3> QED BY <1>4, <1>10, <3>2, <3>3
  <2> QED BY <1>6, <1>8, <2>1, <2>2 DEF Carries
<1>14. InArgs'
       BY <1>1, <1>10, <1>11, <1>13 DEF InArgs
<1>15. ~HandlerRan'
       BY <1>1, <1>10 DEF HandlerRan, None
<1> QED BY <1>1, <1>9, <1>11, <1>14, <1>15 DEF DataInv

LEMMA SigType ==
  ASSUME Proper(args)
  PROVE  Sig \in Seq(TypeNames) /\ Len(Sig) = Len(args) /\ \A i \in 1..Len(args) : Sig[i] = args[i][1]
<1>1. PICK S : args \in Seq(S)
      BY DEF Proper, Listed
<1>2. Len(args) \in Nat /\ DOMAIN args = 1..Len(args) /\ \A i \in 1..Len(args) : args[i][1] \in TypeNames
      BY <1>1 DEF Proper
<1> HIDE DEF TypeNames
<1>3. Sig = [i \in 1..Len(args) |-> args[i][1]]
      BY <1>2 DEF Sig
<1> QED BY <1>2, <1>3

LEMMA SendRequestData ==
  ASSUME DataInv, NEW hd \in Headers, NEW s \in WrongSigs \union ({Sig} \ {<<>>}), SendRequest(hd, s)
  PROVE  DataInv'
<1> DEFINE n == Bytes(args)
<1>1. /\ pc = "args" /\ pc' = "request" /\ m' = PackReqHeader(m, hd) /\ u' = NewUnmarshall(Pdu(m'))
      /\ h' = hd /\ sig' = s /\ args' = args /\ got' = got /\ res' = res /\ r' = r
      BY DEF SendRequest
<1>2. Wf(m) /\ Proper(args) /\ InArgs
      BY <1>1 DEF DataInv
<1>3. m.ind = 24 + n /\ Carries(m.buf, args) /\ got = <<>> /\ res = None /\ r = None
      BY <1>2 DEF InArgs
<1>4. hd \in HeaderType
      BY DataAssumption DEF HeaderType
<1>5. s \in Seq(TypeNames)
      BY <1>2, SigType, DataAssumption
<1>6. n \in Nat
  <2>1. Len(args) \in Nat /\ Upto(args, Len(args)) = n /\ \A k \in 0..Len(args) : Upto(args, k) \in Nat
        BY <1>2, BytesIs DEF Proper
  <2> QED BY <2>1
<1> HIDE DEF n
<1>7. Headed(m, m') /\ IsReqHeader(m'.buf, hd)
      BY <1>1, <1>2, <1>4, ReqHeaderPut
<1>8. m.ind >= 24
      BY <1>3, <1>6
<1>9. /\ Uf(u') /\ u'.ok /\ ~u'.past /\ Len(u'.buf) = m.ind
      /\ \A k \in Nat : 24 + k <= m.ind => Same(m.buf, u'.buf, 24, k)
      /\ IsReqHeader(u'.buf, hd)
      BY <1>1, <1>2, <1>4, <1>7, <1>8, Delivered
<1>10. Carries(u'.buf, args)
  <2>1. Same(m.buf, u'.buf, 24, n)
        BY <1>3, <1>6, <1>9
  <2> QED BY <1>2, <1>3, <2>1, CarriesSame DEF n
<1>11. Len(u'.buf) = 24 + Bytes(args)
       BY <1>3, <1>9 DEF n
<1>12. AtRequest'
       BY <1>1, <1>3, <1>4, <1>5, <1>9, <1>10, <1>11 DEF AtRequest, AtServer
<1>13. ~HandlerRan'
       BY <1>1, <1>3 DEF HandlerRan, None
<1>14. Wf(m')
       BY <1>7 DEF Headed
<1> QED BY <1>1, <1>2, <1>12, <1>13, <1>14 DEF DataInv

LEMMA UnpackRequestData ==
  ASSUME DataInv, UnpackRequest
  PROVE  DataInv'
<1> DEFINE x == UnpackReqHeader(u)
<1>1. /\ pc = "request" /\ u' = x.u /\ seen' = x.h /\ m' = NewMarshall
      /\ pc' = (IF x.u.ok THEN "dispatch" ELSE "dropped")
      /\ args' = args /\ h' = h /\ sig' = sig /\ got' = got /\ res' = res /\ r' = r
      BY DEF UnpackRequest
<1>2. Proper(args) /\ AtRequest
      BY <1>1 DEF DataInv
<1>3. /\ Uf(u) /\ ~u.past /\ Len(u.buf) = 24 + Bytes(args) /\ Carries(u.buf, args)
      /\ h \in HeaderType /\ sig \in Seq(TypeNames) /\ res = None /\ r = None
      /\ u.ok /\ IsReqHeader(u.buf, h) /\ got = <<>>
      BY <1>2 DEF AtRequest, AtServer
<1>4. Upto(args, 0) = 0 /\ Bytes(args) \in Nat
  <2>1. /\ Len(args) \in Nat /\ Upto(args, 0) = 0 /\ Upto(args, Len(args)) = Bytes(args)
        /\ \A k \in 0..Len(args) : Upto(args, k) \in Nat
        BY <1>2, BytesIs DEF Proper
  <2> QED BY <2>1
<1>5. Uf(x.u) /\ x.u.buf = u.buf /\ x.u.ok /\ x.u.past = u.past /\ x.u.ind = 24 /\ x.h = h
  <2>1. Len(u.buf) >= 24
        BY <1>3, <1>4
  <2> QED BY <1>3, <2>1, ReqHeaderGet
<1> HIDE DEF x
<1>6. Listed(got) /\ Bytes(got) = 0 /\ Len(got) = 0
      BY <1>3, EmptyList
<1>7. Wf(m') /\ m'.ind = 24
      BY <1>1, NewMarshallIs
<1>8. AtServer'
      BY <1>1, <1>3, <1>5 DEF AtServer
<1>9. pc' = "dispatch" /\ u'.ok /\ u'.ind = 24 /\ seen' = h'
      BY <1>1, <1>5
<1>10. /\ Listed(got)' /\ u'.ind = 24 + Bytes(got)' /\ u'.ind >= 24 + Bytes(got)'
       /\ u'.ind = 24 + Upto(args, Len(got))' /\ Len(got') = 0
       /\ \A i \in 1..Len(got') : got'[i] = args'[i]
       BY <1>1, <1>4, <1>6, <1>9
<1>11. (\E S : got' \in Seq(S)) /\ Len(got') <= Len(sig')
  <2>1. Len(sig) \in Nat
        BY <1>3
  <2> QED BY <1>1, <1>6, <2>1 DEF Listed
<1>12. AtDispatch'
       BY <1>7, <1>8, <1>9, <1>10, <1>11 DEF AtDispatch
<1>13. ~HandlerRan'
       BY <1>1, <1>3 DEF HandlerRan, None
<1> QED BY <1>1, <1>2, <1>7, <1>9, <1>12, <1>13 DEF DataInv

LEMMA RefuseData ==
  ASSUME DataInv, NEW ret \in {atmostonce_failure, oldsrv_failure}, Refuse(ret)
  PROVE  DataInv'
<1>1. /\ pc = "dispatch" /\ pc' = "reply" /\ m' = PackReplyHeader(m, seen.xid, ret)
      /\ u' = NewUnmarshall(Pdu(m')) /\ res' = [ret |-> ret]
      /\ args' = args /\ h' = h /\ sig' = sig /\ got' = got /\ r' = r
      BY DEF Refuse
<1>2. Proper(args) /\ Wf(m) /\ AtDispatch
      BY <1>1 DEF DataInv
<1>3. seen = h /\ m.ind = 24 /\ h \in HeaderType /\ r = None
      BY <1>2 DEF AtDispatch, AtServer
<1>4. h.xid \in Int /\ h.xid \in Int4
      BY <1>3, HeaderInts
<1>5. ret \in Int4 /\ ret \in Int /\ ret < 0
  <2>1. B \in Nat /\ B >= 2 /\ H = B * B /\ W = H * H
        BY Sizes
  <2>2. \A n, k \in Nat : n >= k => n * n \in Nat /\ n * n >= k * k
        OBVIOUS
  <2>3. H \in Nat /\ H >= 4
        BY <2>1, <2>2
  <2>4. W \in Nat /\ W >= 16
        BY <2>1, <2>2, <2>3
  <2>5. W \div 2 >= 8 /\ W \div 2 \in Int
        BY <2>4
  <2>6. ret = -4 \/ ret = -5
        BY DEF atmostonce_failure, oldsrv_failure
  <2> QED BY <2>5, <2>6 DEF Int4
<1>6. Headed(m, m') /\ IsReplyHeader(m'.buf, h.xid, ret)
      BY <1>1, <1>2, <1>3, <1>4, <1>5, ReplyHeaderPut
<1>7. Uf(u') /\ u'.ok /\ ~u'.past /\ Len(u'.buf) >= 24 /\ IsReplyHeader(u'.buf, h.xid, ret)
  <2>1. m.ind >= 24
        BY <1>3
  <2>2. Uf(u') /\ u'.ok /\ ~u'.past /\ Len(u'.buf) = m.ind /\ IsReplyHeader(u'.buf, h.xid, ret)
        BY <1>1, <1>2, <1>4, <1>5, <1>6, <2>1, Delivered
  <2> QED BY <2>1, <2>2
<1>8. ~HandlerRan' /\ res'.ret = ret
      BY <1>1 DEF HandlerRan
<1>9. AtReply'
      BY <1>1, <1>3, <1>4, <1>5, <1>7, <1>8 DEF AtReply, Answered
<1>10. Wf(m')
       BY <1>6 DEF Headed
<1> QED BY <1>1, <1>2, <1>8, <1>9, <1>10 DEF DataInv

\* With the types of the caller's arguments the next one is read as it was passed.
LEMMA ReadsOwn ==
  ASSUME Proper(args), AtDispatch, sig = Sig, Len(got) < Len(sig)
  PROVE  LET k == Len(got) + 1
             x == Get(u, sig[k])
         IN  /\ k \in 1..Len(args) /\ <<sig[k], x.v>> = args[k]
             /\ x.u.ok /\ ~x.u.past /\ x.u.ind = 24 + Upto(args, k)
<1> DEFINE k == Len(got) + 1
           t == args[k][1]
           v == args[k][2]
           c == Size(t, v)
           x == Get(u, t)
           p == Upto(args, k - 1)
           q == Upto(args, k)
           n == Bytes(args)
<1>1. /\ Uf(u) /\ ~u.past /\ Len(u.buf) = 24 + n /\ Carries(u.buf, args)
      /\ u.ok /\ u.ind = 24 + Upto(args, Len(got))
      BY DEF AtDispatch, AtServer
<1>2. Len(sig) = Len(args) /\ \A i \in 1..Len(args) : sig[i] = args[i][1]
      BY SigType
<1>3. /\ Len(args) \in Nat
      /\ \A j \in 0..Len(args) : Upto(args, j) \in Nat /\ Upto(args, j) <= Bytes(args)
      /\ \A j \in 1..Len(args) : Upto(args, j) = Upto(args, j - 1) + Size(args[j][1], args[j][2])
      /\ Upto(args, Len(args)) = Bytes(args)
      BY BytesIs DEF Proper
<1>4. Len(got) \in Nat
      BY DEF AtDispatch
<1>5. k \in 1..Len(args) /\ k - 1 = Len(got) /\ k \in 0..Len(args) /\ k - 1 \in 0..Len(args) /\ Len(args) \in 0..Len(args)
      BY <1>2, <1>3, <1>4
<1> HIDE DEF k
<1>6. p \in Nat /\ q \in Nat /\ n \in Nat /\ q <= n /\ q = p + c
      BY <1>3, <1>5
<1>7. t \in TypeNames /\ IsValue(t, v) /\ Holds(u.buf, 24 + p, t, v)
      BY <1>1, <1>5 DEF Proper, Carries
<1>8. c \in Nat
  <2>1. SizesOf(args)[k] = c /\ SizesOf(args)[k] \in Nat
        BY <1>5 DEF Proper, Listed, SizesOf
  <2> QED BY <2>1
<1>9. u.ind = 24 + p /\ sig[k] = t
      BY <1>1, <1>2, <1>5
<1> HIDE DEF p, q, n, c
<1>10. Has(u, c) /\ Holds(u.buf, u.ind, t, v)
       BY <1>1, <1>6, <1>7, <1>8, <1>9 DEF Has
<1>11. Got(u, x.u, c) /\ x.v = v
       BY <1>1, <1>7, <1>10, GetBack DEF c
<1> HIDE DEF x, t, v
<1>12. x.u.ok /\ ~x.u.past /\ x.u.ind = 24 + q
  <2>1. x.u.ok /\ x.u.past = u.past /\ x.u.ind = u.ind + c
        BY <1>11 DEF Got
  <2> QED BY <1>1, <1>6, <1>8, <1>9, <2>1
<1>13. args[k] = <<t, v>>
       BY <1>5 DEF t, v, Proper
<1> QED BY <1>5, <1>9, <1>11, <1>12, <1>13 DEF k, x, q

LEMMA UnmarshallArgData ==
  ASSUME DataInv, UnmarshallArg
  PROVE  DataInv'
<1> DEFINE k == Len(got) + 1
           t == sig[k]
           x == Get(u, t)
           NoMap == \A i \in DOMAIN sig : sig[i] # "map"
<1>1. /\ pc = "dispatch" /\ Len(got) < Len(sig) /\ u' = x.u /\ got' = Append(got, <<t, x.v>>)
      /\ pc' = (IF x.u.past THEN "undefined" ELSE pc)
      /\ m' = m /\ args' = args /\ h' = h /\ sig' = sig /\ seen' = seen /\ res' = res /\ r' = r
      BY DEF UnmarshallArg
<1>2. Wf(m) /\ Proper(args) /\ AtDispatch
      BY <1>1 DEF DataInv
<1>3. /\ Uf(u) /\ ~u.past /\ Len(u.buf) = 24 + Bytes(args) /\ Carries(u.buf, args)
      /\ h \in HeaderType /\ sig \in Seq(TypeNames) /\ res = None /\ r = None
      /\ seen = h /\ m.ind = 24
      /\ u.ok => /\ Listed(got) /\ u.ind >= 24 + Bytes(got)
                 /\ NoMap => u.ind = 24 + Bytes(got)
      /\ sig = Sig => \A i \in 1..Len(got) : got[i] = args[i]
      BY <1>2 DEF AtDispatch, AtServer
<1>4. PICK S : got \in Seq(S)
      BY <1>2 DEF AtDispatch
<1>5. /\ k \in Nat /\ Len(got) \in Nat /\ Len(sig) \in Nat /\ k <= Len(sig) /\ k \in DOMAIN sig
      /\ t \in TypeNames
  <2>1. Len(got) \in Nat
        BY <1>4
  <2> HIDE DEF TypeNames
  <2>2. Len(sig) \in Nat /\ DOMAIN sig = 1..Len(sig) /\ \A i \in 1..Len(sig) : sig[i] \in TypeNames
        BY <1>3
  <2>3. k \in Nat /\ k \in 1..Len(sig) /\ k <= Len(sig)
        BY <1>1, <2>1, <2>2
  <2> QED BY <2>1, <2>2, <2>3
<1>6. /\ Uf(x.u) /\ x.u.buf = u.buf
      /\ x.u.ok /\ ~x.u.past => /\ u.ok /\ Size(t, x.v) \in Nat /\ x.u.ind >= u.ind + Size(t, x.v)
                                /\ t # "map" => x.u.ind = u.ind + Size(t, x.v)
      BY <1>3, <1>5, GetAny
<1>7. sig = Sig => /\ <<t, x.v>> = args[k] /\ x.u.ok /\ ~x.u.past /\ x.u.ind = 24 + Upto(args, k)
      BY <1>1, <1>2, ReadsOwn
<1>8. sig = Sig <=> (sig = Sig)'
      BY <1>1 DEF Sig
<1>9. ~HandlerRan'
      BY <1>1, <1>3 DEF HandlerRan, None
<1>10. CASE x.u.past
  <2>1. pc' = "undefined" /\ AtEnd'
        BY <1>1, <1>3, <1>7, <1>8, <1>10 DEF AtEnd
  <2> QED BY <1>1, <1>2, <1>9, <2>1 DEF DataInv
<1>11. CASE ~x.u.past
  <2> DEFINE e == <<t, x.v>>
  <2> HIDE DEF x, t
  <2>1. /\ (\E T : got' \in Seq(T)) /\ Len(got') = k
        /\ got'[k] = e /\ \A i \in 1..Len(got) : got'[i] = got[i]
    <3> DEFINE X == S \union {e}
    <3>1. got \in Seq(X) /\ e \in X
          BY <1>4
    <3> HIDE DEF X, e
    <3>2. got' = Append(got, e)
          BY <1>1 DEF e
    <3>3. got' \in Seq(X) /\ Len(got') = k /\ got'[k] = e /\ \A i \in 1..Len(got) : got'[i] = got[i]
          BY <3>1, <3>2
    <3> QED BY <3>3
  <2>2. AtServer'
        BY <1>1, <1>3, <1>6, <1>11 DEF AtServer
  <2>3. ASSUME x.u.ok
        PROVE  Listed(got') /\ x.u.ind >= 24 + Bytes(got') /\ (NoMap => x.u.ind = 24 + Bytes(got'))
    <3> DEFINE c == Size(t, x.v)
               n == Bytes(got)
    <3>1. Listed(got) /\ u.ind >= 24 + n /\ (NoMap => u.ind = 24 + n)
          BY <1>3, <1>6, <1>11, <2>3
    <3>2. c \in Nat /\ x.u.ind >= u.ind + c /\ (NoMap => x.u.ind = u.ind + c)
          BY <1>5, <1>6, <1>11, <2>3 DEF t
    <3>3. Listed(got') /\ Bytes(got') = n + c
          BY <1>1, <3>1, <3>2, BytesMore
    <3>4. n \in Nat
      <4>1. /\ Upto(got, Len(got)) = n /\ \A j \in 0..Len(got) : Upto(got, j) \in Nat
            BY <3>1, BytesIs
      <4> QED BY <1>5, <4>1
    <3>5. u.ind \in Nat /\ x.u.ind \in Nat
          BY <1>3, <1>6 DEF Uf
    <3> HIDE DEF c, n, NoMap
    <3> QED BY <3>1, <3>2, <3>3, <3>4, <3>5
  <2>4. ASSUME sig = Sig
        PROVE  x.u.ok /\ x.u.ind = 24 + Upto(args, Len(got')) /\ \A i \in 1..Len(got') : got'[i] = args[i]
    <3>1. \A i \in 1..k : i \in 1..Len(got) \/ i = k
          BY <1>5
    <3>2. got'[k] = args[k] /\ \A i \in 1..Len(got) : got'[i] = args[i]
          BY <1>3, <1>7, <2>1, <2>4
    <3> QED BY <1>7, <2>1, <2>4, <3>1, <3>2
  <2>5. pc' = "dispatch" /\ seen' = h' /\ m'.ind = 24 /\ Len(got') <= Len(sig')
        BY <1>1, <1>3, <1>5, <1>11, <2>1
  <2>6. AtDispatch'
    <3>1. u'.ok => /\ Listed(got)' /\ u'.ind >= 24 + Bytes(got)'
                   /\ (\A i \in DOMAIN sig' : sig'[i] # "map") => u'.ind = 24 + Bytes(got)'
          BY <1>1, <2>3 DEF x, t
    <3>2. (sig = Sig)' => /\ u'.ok /\ u'.ind = 24 + Upto(args, Len(got))'
                          /\ \A i \in 1..Len(got') : got'[i] = args'[i]
          BY <1>1, <1>8, <2>4 DEF x, t
    <3> QED BY <2>1, <2>2, <2>5, <3>1, <3>2 DEF AtDispatch
  <2> QED BY <1>1, <1>2, <1>9, <2>5, <2>6 DEF DataInv
<1> QED BY <1>10, <1>11

\* All arguments read and nothing left over: these are the caller's bytes.
LEMMA AllRead ==
  ASSUME Proper(args), AtDispatch, Len(got) = Len(sig)
  PROVE  (sig = Sig => Okdone(u)) /\ (Okdone(u) => Handed)
<1>1. /\ Uf(u) /\ Len(u.buf) = 24 + Bytes(args) /\ sig \in Seq(TypeNames)
      /\ u.ok => /\ Listed(got) /\ u.ind >= 24 + Bytes(got)
                 /\ (\A i \in DOMAIN sig : sig[i] # "map") => u.ind = 24 + Bytes(got)
      /\ sig = Sig => /\ u.ok /\ u.ind = 24 + Upto(args, Len(got))
                      /\ \A i \in 1..Len(got) : got[i] = args[i]
      BY DEF AtDispatch, AtServer
<1>2. /\ Len(args) \in Nat /\ Upto(args, Len(args)) = Bytes(args)
      /\ \A k \in 0..Len(args) : Upto(args, k) \in Nat
      BY BytesIs DEF Proper
<1>3. Bytes(args) \in Nat
      BY <1>2
<1>4. Len(Sig) = Len(args)
      BY SigType
<1>5. sig = Sig => Okdone(u)
      BY <1>1, <1>2, <1>4 DEF Okdone
<1>6. sig = Sig => got = args
  <2>1. PICK S : got \in Seq(S)
        BY DEF AtDispatch
  <2>2. PICK T : args \in Seq(T)
        BY DEF Proper, Listed
  <2> SUFFICES ASSUME sig = Sig PROVE got = args
      OBVIOUS
  <2>3. Len(got) = Len(args) /\ \A i \in 1..Len(got) : got[i] = args[i]
        BY <1>1, <1>4
  <2> QED BY <2>1, <2>2, <2>3
<1>7. ASSUME Okdone(u)
      PROVE  /\ Bytes(got) <= Bytes(args)
             /\ (\A i \in DOMAIN sig : sig[i] # "map") => Bytes(got) = Bytes(args)
  <2> DEFINE NoMap == \A i \in DOMAIN sig : sig[i] # "map"
             n == Bytes(got)
             a == Bytes(args)
  <2>1. u.ok /\ u.ind = 24 + a
        BY <1>1, <1>7 DEF Okdone
  <2>2. Listed(got) /\ u.ind >= 24 + n /\ (NoMap => u.ind = 24 + n)
        BY <1>1, <2>1
  <2>3. n \in Nat
    <3>1. Len(got) \in Nat /\ Upto(got, Len(got)) = n /\ \A j \in 0..Len(got) : Upto(got, j) \in Nat
          BY <2>2, BytesIs
    <3> QED BY <3>1
  <2> HIDE DEF n, NoMap
  <2>4. n <= a /\ (NoMap => n = a)
        BY <1>3, <2>1, <2>2, <2>3
  <2> QED BY <2>4 DEF n, NoMap
<1> QED BY <1>5, <1>6, <1>7 DEF Handed

LEMMA ArgsFailureData ==
  ASSUME DataInv, ArgsFailure
  PROVE  DataInv'
<1>1. /\ pc = "dispatch" /\ Len(got) = Len(sig) /\ ~Okdone(u) /\ pc' = "abort"
      /\ m' = m /\ args' = args /\ sig' = sig /\ res' = res /\ r' = r
      BY DEF ArgsFailure
<1>2. Wf(m) /\ Proper(args) /\ AtDispatch
      BY <1>1 DEF DataInv
<1>3. res = None /\ r = None
      BY <1>2 DEF AtDispatch, AtServer
<1>4. sig # Sig
      BY <1>1, <1>2, AllRead
<1>5. (sig # Sig)'
      BY <1>1, <1>4 DEF Sig
<1>6. ~HandlerRan'
      BY <1>1, <1>3 DEF HandlerRan, None
<1>7. AtEnd'
      BY <1>1, <1>3, <1>5 DEF AtEnd
<1> QED BY <1>1, <1>2, <1>6, <1>7 DEF DataInv

LEMMA RunHandlerData ==
  ASSUME DataInv, NEW t \in Types, NEW v \in Vals[t], NEW ret \in Rets, RunHandler(t, v, ret)
  PROVE  DataInv'
<1>1. /\ pc = "dispatch" /\ Len(got) = Len(sig) /\ Okdone(u)
      /\ res' = [type |-> t, val |-> v, ret |-> ret]
      /\ args' = args /\ h' = h /\ sig' = sig /\ seen' = seen /\ got' = got /\ r' = r
      BY DEF RunHandler
<1>2. Wf(m) /\ Proper(args) /\ AtDispatch
      BY <1>1 DEF DataInv
<1>3. seen = h /\ m.ind = 24 /\ h \in HeaderType /\ r = None
      BY <1>2 DEF AtDispatch, AtServer
<1>4. HandlerRan' /\ res'.type = t /\ res'.val = v /\ res'.ret = ret
      BY <1>1 DEF HandlerRan
<1>5. Handed'
  <2>1. Handed
        BY <1>1, <1>2, AllRead
  <2> QED BY <1>1, <2>1 DEF Handed, Sig
<1>6. CASE ret < 0
  <2>1. pc' = "abort" /\ m' = m
        BY <1>6 DEF RunHandler
  <2>2. AtEnd'
        BY <1>1, <1>3, <1>4 DEF AtEnd
  <2> QED BY <1>1, <1>2, <1>4, <1>5, <2>1, <2>2 DEF DataInv
<1>7. CASE ~(ret < 0)
  <2> DEFINE z == Put(m, t, v)
             c == Size(t, v)
  <2>1. pc' = "reply" /\ m' = PackReplyHeader(z, seen.xid, ret) /\ u' = NewUnmarshall(Pdu(m'))
        BY <1>7 DEF RunHandler
  <2>2. t \in TypeNames /\ IsValue(t, v)
        BY ValuesAre
  <2>3. c \in Nat /\ Wrote(m, z, c) /\ Holds(z.buf, 24, t, v)
        BY <1>2, <1>3, <2>2, WrotePut
  <2> HIDE DEF z, c
  <2>4. Wf(z) /\ z.ind = 24 + c /\ z.ind >= 24
        BY <1>3, <2>3 DEF Wrote
  <2>5. h.xid \in Int4 /\ h.xid \in Int /\ ret \in Int4 /\ ret \in Int
    <3>1. Int4 \subseteq Int
          BY Sizes DEF Int4
    <3> QED BY <1>3, <3>1, HeaderInts, DataAssumption
  <2>6. Headed(z, m') /\ IsReplyHeader(m'.buf, h.xid, ret)
        BY <1>3, <2>1, <2>4, <2>5, ReplyHeaderPut
  <2>7. /\ Uf(u') /\ u'.ok /\ ~u'.past /\ Len(u'.buf) = z.ind
        /\ \A n \in Nat : 24 + n <= z.ind => Same(z.buf, u'.buf, 24, n)
        /\ IsReplyHeader(u'.buf, h.xid, ret)
        BY <2>1, <2>4, <2>5, <2>6, Delivered
  <2>8. Holds(u'.buf, 24, t, v)
    <3>1. Same(z.buf, u'.buf, 24, c)
          BY <2>3, <2>4, <2>7
    <3> QED BY <2>2, <2>3, <3>1, SameHolds DEF c
  <2>9. Len(u'.buf) >= 24 /\ Len(u'.buf) = 24 + Size(t, v)
        BY <2>4, <2>7 DEF c
  <2>10. Answered'
         BY <1>1, <1>3, <1>4, <2>2, <2>5, <2>7, <2>8, <2>9 DEF Answered
  <2>11. AtReply'
         BY <1>1, <1>4, <2>7, <2>10 DEF AtReply
  <2>12. Wf(m')
         BY <2>6 DEF Headed
  <2> QED BY <1>1, <1>2, <1>5, <2>1, <2>11, <2>12 DEF DataInv
<1> QED BY <1>6, <1>7

LEMMA GotReplyData ==
  ASSUME DataInv, GotReply
  PROVE  DataInv'
<1> DEFINE x == UnpackReplyHeader(u)
           z == TakeIn(x.u)
<1>1. /\ pc = "reply" /\ seen' = x.h /\ u' = z /\ pc' = (IF x.u.ok THEN "call_m" ELSE "dropped")
      /\ m' = m /\ args' = args /\ h' = h /\ sig' = sig /\ got' = got /\ res' = res /\ r' = r
      BY DEF GotReply
<1>2. Wf(m) /\ Proper(args) /\ AtReply /\ (HandlerRan => Handed)
      BY <1>1 DEF DataInv
<1>3. /\ Uf(u) /\ u.ok /\ ~u.past /\ Len(u.buf) >= 24 /\ h.xid \in Int4 /\ res.ret \in Int4
      /\ IsReplyHeader(u.buf, h.xid, res.ret)
      BY <1>2 DEF AtReply, Answered
<1>4. /\ x.u.ok /\ x.h = [xid |-> h.xid, ret |-> res.ret]
      /\ Uf(z) /\ z.buf = u.buf /\ z.ok /\ z.past = u.past /\ z.ind = 24
      BY <1>3, ReplyHeaderGet
<1> HIDE DEF x, z
<1>5. pc' = "call_m" /\ u'.ind = 24
      BY <1>1, <1>4
<1>6. SeenReply'
      BY <1>1, <1>4 DEF SeenReply
<1>7. HandlerRan' <=> HandlerRan
      BY <1>1 DEF HandlerRan
<1>8. Answered'
  <2>1. Answered
        BY <1>2 DEF AtReply
  <2> QED BY <1>1, <1>4, <1>7, <2>1 DEF Answered
<1>9. HandlerRan' => Handed'
      BY <1>1, <1>2, <1>7 DEF Handed, Sig
<1>10. AtCallM'
       BY <1>5, <1>6, <1>8 DEF AtCallM
<1> QED BY <1>1, <1>2, <1>5, <1>9, <1>10 DEF DataInv

LEMMA CallMData ==
  ASSUME DataInv, NEW t \in Types, CallM(t)
  PROVE  DataInv'
<1>1. /\ pc = "call_m" /\ m' = m /\ args' = args /\ h' = h /\ sig' = sig /\ seen' = seen
      /\ got' = got /\ res' = res
      BY DEF CallM
<1>2. Wf(m) /\ Proper(args) /\ AtCallM /\ (HandlerRan => Handed)
      BY <1>1 DEF DataInv
<1>3. /\ Uf(u) /\ u.ok /\ ~u.past /\ seen.ret = res.ret /\ u.ind = 24 /\ SeenReply
      /\ res.ret \in Int4 /\ (~HandlerRan => res.ret < 0)
      /\ HandlerRan => /\ res.type \in TypeNames /\ IsValue(res.type, res.val)
                       /\ Holds(u.buf, 24, res.type, res.val)
                       /\ Len(u.buf) = 24 + Size(res.type, res.val)
      BY <1>2 DEF AtCallM, Answered, SeenReply
<1>4. HandlerRan' => Handed'
  <2>1. HandlerRan' <=> HandlerRan
        BY <1>1 DEF HandlerRan
  <2> QED BY <1>1, <1>2, <2>1 DEF Handed, Sig
<1>5. SeenReply'
      BY <1>1, <1>3 DEF SeenReply
<1>6. CASE seen.ret < 0
  <2>1. r' = [ret |-> seen.ret] /\ pc' = "done"
        BY <1>6 DEF CallM
  <2>2. r'.ret = res'.ret /\ ~(r'.ret >= 0)
    <3>1. res.ret \in Int
          BY <1>3, Sizes DEF Int4
    <3> QED BY <1>1, <1>3, <1>6, <2>1, <3>1
  <2>3. AtDone'
        BY <1>5, <2>2 DEF AtDone
  <2> QED BY <1>1, <1>2, <1>4, <2>1, <2>3 DEF DataInv
<1>7. CASE ~(seen.ret < 0)
  <2> DEFINE x == Get(u, t)
  <2>1. /\ r' = [type |-> t, val |-> x.v, ret |-> seen.ret]
        /\ pc' = CASE x.u.past -> "undefined"
                   [] ~x.u.past /\ Okdone(x.u) -> "done"
                   [] OTHER -> "abort"
        BY <1>7 DEF CallM
  <2>2. HandlerRan
        BY <1>3, <1>7
  <2>3. t = res.type => x.v = res.val /\ ~x.u.past /\ Okdone(x.u)
    <3> SUFFICES ASSUME t = res.type PROVE x.v = res.val /\ ~x.u.past /\ Okdone(x.u)
        OBVIOUS
    <3> DEFINE v == res.val
               c == Size(t, v)
    <3>1. t \in TypeNames /\ IsValue(t, v) /\ Holds(u.buf, u.ind, t, v) /\ Len(u.buf) = u.ind + c
          BY <1>3, <2>2
    <3>2. Has(u, c)
      <4>1. u.ind \in Nat /\ Len(u.buf) \in Nat
            BY <1>3 DEF Uf
      <4> QED BY <1>3, <3>1, <4>1 DEF Has
    <3>3. Got(u, x.u, c) /\ x.v = v
          BY <1>3, <3>1, <3>2, GetBack
    <3> HIDE DEF x, c
    <3> QED BY <1>3, <3>1, <3>3 DEF Got, Okdone
  <2> HIDE DEF x
  <2>4. /\ pc' \in {"undefined", "abort", "done"}
        /\ ~x.u.past /\ Okdone(x.u) => pc' = "done"
    <3>1. CASE x.u.past
          BY <2>1, <3>1
    <3>2. CASE ~x.u.past /\ Okdone(x.u)
          BY <2>1, <3>2
    <3>3. CASE ~x.u.past /\ ~Okdone(x.u)
          BY <2>1, <3>3
    <3> QED BY <3>1, <3>2, <3>3
  <2>5. r'.type = t /\ r'.val = x.v /\ r'.ret = seen.ret
        BY <2>1
  <2>6. CASE pc' = "done"
    <3>1. AtDone'
          BY <1>1, <1>3, <1>5, <2>3, <2>5 DEF AtDone
    <3> QED BY <1>1, <1>2, <1>4, <2>6, <3>1 DEF DataInv
  <2>7. CASE pc' \in {"abort", "undefined"}
    <3>1. t # res.type
          BY <2>3, <2>4, <2>7
    <3>2. AtEnd'
          BY <1>1, <2>2, <2>5, <3>1 DEF AtEnd, HandlerRan
    <3> QED BY <1>1, <1>2, <1>4, <2>7, <3>2 DEF DataInv
  <2> QED BY <2>4, <2>6, <2>7
<1> QED BY <1>6, <1>7

LEMMA NextDataInv == DataInv /\ [DataNext]_dataVars => DataInv'
<1> SUFFICES ASSUME DataInv, [DataNext]_dataVars PROVE DataInv'
    OBVIOUS
<1>1. CASE UNCHANGED dataVars
  <2>1. /\ pc' = pc /\ m' = m /\ u' = u /\ args' = args /\ h' = h /\ sig' = sig /\ seen' = seen
        /\ got' = got /\ res' = res /\ r' = r
        BY <1>1 DEF dataVars
  <2> QED BY <2>1 DEF DataInv, Handed, InArgs, AtServer, AtRequest, AtDispatch, Answered, SeenReply,
             AtReply, AtCallM, AtDone, AtEnd, HandlerRan, Sig
<1>2. CASE \E t \in Types : \E v \in Vals[t] : MarshallArg(t, v)
      BY <1>2, MarshallArgData
<1>3. CASE \E hd \in Headers : \E s \in WrongSigs \union ({Sig} \ {<<>>}) : SendRequest(hd, s)
      BY <1>3, SendRequestData
<1>4. CASE UnpackRequest
      BY <1>4, UnpackRequestData
<1>5. CASE \E ret \in {atmostonce_failure, oldsrv_failure} : Refuse(ret)
      BY <1>5, RefuseData
<1>6. CASE UnmarshallArg
      BY <1>6, UnmarshallArgData
<1>7. CASE ArgsFailure
      BY <1>7, ArgsFailureData
<1>8. CASE \E t \in Types : \E v \in Vals[t] : \E ret \in Rets : RunHandler(t, v, ret)
      BY <1>8, RunHandlerData
<1>9. CASE GotReply
      BY <1>9, GotReplyData
<1>10. CASE \E t \in Types : CallM(t)
       BY <1>10, CallMData
<1> QED BY <1>1, <1>2, <1>3, <1>4, <1>5, <1>6, <1>7, <1>8, <1>9, <1>10 DEF DataNext

LEMMA DataInvRoundTrip == DataInv => RoundTrip
<1> SUFFICES ASSUME DataInv PROVE RoundTrip
    OBVIOUS
<1>1. InBuffer
      BY DEF DataInv, Wf, InBuffer
<1>2. ArgumentsArrive
  <2>1. pc = "dispatch" => seen = h
        BY DEF DataInv, AtDispatch
  <2>2. pc \in {"abort", "undefined"} /\ sig = Sig => HandlerRan
        BY DEF DataInv, AtEnd
  <2> QED BY <2>1, <2>2 DEF ArgumentsArrive, DataInv, Handed
<1>3. ResultArrives
  <2>1. pc \in {"call_m", "done"} => seen = [xid |-> h.xid, ret |-> res.ret]
        BY DEF DataInv, AtCallM, AtDone, SeenReply
  <2>2. pc = "done" => r.ret = res.ret /\ (r.ret >= 0 /\ r.type = res.type => r.val = res.val)
        BY DEF DataInv, AtDone
  <2>3. (pc \in {"abort", "undefined"} /\ r # None => r.type # res.type) /\ pc # "dropped"
        BY DEF DataInv, AtEnd
  <2> QED BY <2>1, <2>2, <2>3 DEF ResultArrives
<1> QED BY <1>1, <1>2, <1>3 DEF RoundTrip

\* For every size of a byte, every choice of values and any number of arguments
\* what is marshalled is what is unmarshalled, in both directions.
THEOREM RoundTripHolds == DataSpec => []RoundTrip
BY InitDataInv, NextDataInv, DataInvRoundTrip, PTL DEF DataSpec

==============================================================================
