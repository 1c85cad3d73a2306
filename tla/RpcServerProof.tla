--------------------------- MODULE RpcServerProof ---------------------------
(***************************************************************************)
(* Proofs about RpcServer, for any number of clients, dispatch threads and *)
(* calls.                                                                  *)
(***************************************************************************)
EXTENDS RpcServer, ReplyWindowProof

Seen(c, x) == x \in win[c].set \/ x < win[c].bound

Busy(w) == job[w].st \in {"run", "ran"}

\* A call that was started is remembered: a second copy cannot look new.
SeenInv == \A c \in Clts, x \in Xids : runs[c][x] > 0 => Seen(c, x)

\* So is one whose thread is about to start it or to save its reply.
WorkInv == \A w \in Workers : Busy(w) =>
  /\ Seen(job[w].clt, job[w].xid)
  /\ At(w, "run") => runs[job[w].clt][job[w].xid] = 0
  /\ At(w, "ran") => /\ runs[job[w].clt][job[w].xid] = 1
                     /\ job[w].xid \notin Saved(win[job[w].clt])

\* Two threads never work on the same call.
OneWorker == \A v, w \in Workers :
  Busy(v) /\ Busy(w) /\ job[v].clt = job[w].clt /\ job[v].xid = job[w].xid => v = w

SavedInv == \A c \in Clts : \A x \in Saved(win[c]) : x \in Xids /\ runs[c][x] = 1

IInv == /\ TypeOK
        /\ WindowSorted
        /\ AtMostOnce
        /\ SeenInv
        /\ WorkInv
        /\ OneWorker
        /\ SavedInv
        /\ CachedUntilAcked

\* The empty windows of a server that has just started satisfy the invariant.
LEMMA InitIInv == Init => IInv
<1> SUFFICES ASSUME Init PROVE IInv
    OBVIOUS
<1>1. EmptyWindow \in WindowType /\ EmptyWindow.list = <<>>
      BY DEF EmptyWindow, WindowType, NoBound
<1>2. \A w \in Workers : job[w].st = "idle"
      BY DEF Init, Idle
<1>3. \A c \in Clts : /\ win[c].list = <<>>
                      /\ Saved(win[c]) = {}
                      /\ Increasing(win[c].list)
      BY <1>1 DEF Init, Saved, Elements, Increasing
<1>4. \A c \in Clts, x \in Xids : runs[c][x] = 0
      BY DEF Init
<1>5. TypeOK
      BY <1>1 DEF Init, TypeOK
<1>6. WindowSorted /\ AtMostOnce /\ SeenInv /\ SavedInv
      BY <1>3, <1>4 DEF WindowSorted, AtMostOnce, SeenInv, SavedInv
<1>7. WorkInv /\ OneWorker
      BY <1>2 DEF WorkInv, OneWorker, Busy
<1>8. CachedUntilAcked
      BY <1>4 DEF CachedUntilAcked
<1> QED BY <1>5, <1>6, <1>7, <1>8 DEF IInv

\* What the type of job says of a thread that is not idle.
LEMMA JobFacts ==
  ASSUME TypeOK, NEW w \in Workers, job[w].st # "idle"
  PROVE  /\ job[w] \in Jobs
         /\ job[w].clt \in Clts /\ job[w].xid \in Xids /\ job[w].xid \in Nat
         /\ job[w].rep \in Nat
<1>1. job[w] \in Jobs
      BY DEF TypeOK, Idle
<1> QED BY <1>1, MaxXidAssumption DEF Jobs, Xids

\* A step that moves only thread w, to another stage of the same request.
LEMMA GoToFacts ==
  ASSUME TypeOK, NEW w \in Workers, job[w].st # "idle",
         NEW stage \in Stages, GoTo(w, stage)
  PROVE  /\ job' \in [Workers -> Jobs \union {Idle}]
         /\ job'[w].st = stage
         /\ job'[w].clt = job[w].clt /\ job'[w].xid = job[w].xid
         /\ \A v \in Workers : v # w => job'[v] = job[v]
<1>1. job[w] \in Jobs
      BY JobFacts
<1>2. job' = [job EXCEPT ![w] = [job[w] EXCEPT !.st = stage]]
      BY DEF GoTo
<1>3. [job[w] EXCEPT !.st = stage] \in Jobs
      BY <1>1 DEF Jobs
<1> QED BY <1>1, <1>2, <1>3 DEF TypeOK, Jobs

\* A step that ends thread w's request.
LEMMA DoneFacts ==
  ASSUME TypeOK, NEW w \in Workers, Done(w)
  PROVE  /\ job' \in [Workers -> Jobs \union {Idle}]
         /\ job'[w].st = "idle"
         /\ \A v \in Workers : v # w => job'[v] = job[v]
BY DEF Done, TypeOK, Idle

\* Steps that touch neither the windows nor a thread between check and save.
LEMMA QuietStep ==
  ASSUME IInv, TypeOK', UNCHANGED <<win, runs>>,
         \A v \in Workers : job'[v] = job[v] \/ (~Busy(v) /\ ~Busy(v)')
  PROVE  IInv'
<1>1. \A v \in Workers : Busy(v)' => Busy(v) /\ job'[v] = job[v]
      BY DEF Busy
<1>2. \A v \in Workers : Busy(v) => Busy(v)' /\ job'[v] = job[v]
      BY DEF Busy
<1>3. WindowSorted' /\ AtMostOnce' /\ SeenInv' /\ SavedInv'
      BY DEF IInv, WindowSorted, AtMostOnce, SeenInv, SavedInv, Seen
<1>4. WorkInv'
      BY <1>1 DEF IInv, WorkInv, Seen, At
<1>5. OneWorker'
      BY <1>1 DEF IInv, OneWorker
<1>6. CachedUntilAcked'
  <2> SUFFICES ASSUME NEW c \in Clts, NEW x \in Xids, runs[c][x] > 0, x > win[c].bound,
                      x \notin Saved(win[c])
               PROVE  \E w \in Working(c, x)' : At(w, "ran")'
      BY DEF CachedUntilAcked
  <2>1. PICK w \in Working(c, x) : At(w, "ran")
        BY DEF IInv, CachedUntilAcked
  <2>2. w \in Workers /\ job'[w] = job[w]
        BY <1>2, <2>1 DEF Working, Busy
  <2> QED BY <2>1, <2>2 DEF Working, At
<1> QED BY <1>3, <1>4, <1>5, <1>6 DEF IInv

\* A client's next call.
LEMMA CallIInv == ASSUME IInv, NEW c \in Clts, NEW rep \in 0..MaxXid, Call(c, rep)
                  PROVE  IInv'
<1>1. rep \in Nat
      BY MaxXidAssumption
<1>2. TypeOK'
      BY <1>1 DEF IInv, TypeOK, Call
<1> QED BY <1>2, QuietStep DEF Call

\* A copy of a request reaches a thread.
LEMMA DeliverIInv ==
  ASSUME IInv, NEW w \in Workers, NEW c \in Clts, NEW x \in Xids, Deliver(w, c, x)
  PROVE  IInv'
<1>1. sent[c] \in Seq(Nat) /\ x \in 1..Len(sent[c])
      BY MaxXidAssumption DEF IInv, TypeOK, Deliver, Xids
<1>2. sent[c][x] \in Nat
      BY <1>1
<1>3. [st |-> "arrived", clt |-> c, xid |-> x, rep |-> sent[c][x]] \in Jobs
      BY <1>2 DEF Jobs, Stages
<1>4. TypeOK'
      BY <1>3 DEF IInv, TypeOK, Deliver
<1>5. \A v \in Workers : job'[v] = job[v] \/ (~Busy(v) /\ ~Busy(v)')
      BY DEF IInv, TypeOK, Deliver, At, Busy
<1> QED BY <1>4, <1>5, QuietStep DEF Deliver

\* An answer is sent.
LEMMA SendIInv == ASSUME IInv, NEW w \in Workers, Send(w)
                  PROVE  IInv'
<1>1. TypeOK'
      BY DoneFacts DEF IInv, TypeOK, Send
<1>2. \A v \in Workers : job'[v] = job[v] \/ (~Busy(v) /\ ~Busy(v)')
      BY DoneFacts DEF IInv, Send, At, Busy
<1> QED BY <1>1, <1>2, QuietStep DEF Send

\* The handler is called: its thread goes from "run" to "ran" and the call has
\* been started once.
LEMMA RunIInv == ASSUME IInv, NEW w \in Workers, Run(w)
                 PROVE  IInv'
<1> DEFINE c == job[w].clt
           x == job[w].xid
<1>1. At(w, "run") /\ win' = win /\ Busy(w)
      BY DEF Run, At, Busy
<1>2. c \in Clts /\ x \in Xids
      BY <1>1, JobFacts DEF IInv, At
<1>3. /\ job' \in [Workers -> Jobs \union {Idle}]
      /\ job'[w].st = "ran" /\ job'[w].clt = c /\ job'[w].xid = x
      /\ \A v \in Workers : v # w => job'[v] = job[v]
      BY <1>1, GoToFacts DEF IInv, Run, At, Stages
<1>4. runs[c][x] = 0 /\ Seen(c, x)
      BY <1>1 DEF IInv, WorkInv
<1>5. runs \in [Clts -> [Xids -> Nat]]
      BY DEF IInv, TypeOK
<1>6. runs' = [runs EXCEPT ![c][x] = @ + 1]
      BY DEF Run
<1> HIDE DEF c, x
<1>7. /\ runs' \in [Clts -> [Xids -> Nat]]
      /\ runs'[c][x] = 1
      /\ \A d \in Clts, y \in Xids : d # c \/ y # x => runs'[d][y] = runs[d][y]
      BY <1>2, <1>4, <1>5, <1>6
<1>8. x \notin Saved(win[c])
      BY <1>2, <1>4 DEF IInv, SavedInv
<1>9. \A v \in Workers : Busy(v)' <=> Busy(v)
      BY <1>1, <1>3 DEF Busy
<1>a. \A v \in Workers : Busy(v) /\ v # w => job[v].clt # c \/ job[v].xid # x
      BY <1>1 DEF IInv, OneWorker, c, x
<1>b. \A v \in Workers : job'[v].clt = job[v].clt /\ job'[v].xid = job[v].xid
      BY <1>3 DEF c, x
<1>c. TypeOK'
      BY <1>1, <1>3, <1>7 DEF IInv, TypeOK, Run
<1>d. WindowSorted'
      BY <1>1 DEF IInv, WindowSorted
<1>e. AtMostOnce'
      BY <1>7 DEF IInv, AtMostOnce
<1>f. SeenInv'
      BY <1>1, <1>4, <1>7 DEF IInv, SeenInv, Seen
<1>g. WorkInv'
  <2> SUFFICES ASSUME NEW v \in Workers, Busy(v)'
               PROVE  /\ Seen(job[v].clt, job[v].xid)
                      /\ job'[v].st = "run" => runs'[job[v].clt][job[v].xid] = 0
                      /\ job'[v].st = "ran" => /\ runs'[job[v].clt][job[v].xid] = 1
                                               /\ job[v].xid \notin Saved(win[job[v].clt])
      BY <1>1, <1>b DEF WorkInv, Seen, At
  <2>1. CASE v = w
        BY <1>3, <1>4, <1>7, <1>8, <2>1 DEF c, x
  <2>2. CASE v # w
    <3>1. Busy(v) /\ job'[v] = job[v]
          BY <1>3, <1>9, <2>2
    <3>2. job[v].clt \in Clts /\ job[v].xid \in Xids
          BY <3>1, JobFacts DEF IInv, Busy
    <3>3. runs'[job[v].clt][job[v].xid] = runs[job[v].clt][job[v].xid]
          BY <1>7, <1>a, <2>2, <3>1, <3>2
    <3> QED BY <3>1, <3>3 DEF IInv, WorkInv, At
  <2> QED BY <2>1, <2>2
<1>h. OneWorker'
      BY <1>9, <1>b DEF IInv, OneWorker
<1>i. SavedInv'
      BY <1>1, <1>7, <1>8 DEF IInv, SavedInv
<1>j. CachedUntilAcked'
  <2> SUFFICES ASSUME NEW d \in Clts, NEW y \in Xids, runs'[d][y] > 0, y > win[d].bound,
                      y \notin Saved(win[d])
               PROVE  \E v \in Working(d, y)' : At(v, "ran")'
      BY <1>1 DEF CachedUntilAcked
  <2>1. CASE d = c /\ y = x
        BY <1>3, <2>1 DEF Working, At
  <2>2. CASE d # c \/ y # x
    <3>1. runs[d][y] > 0
          BY <1>7, <2>2
    <3>2. PICK v \in Working(d, y) : At(v, "ran")
          BY <3>1 DEF IInv, CachedUntilAcked
    <3>3. v \in Workers /\ v # w /\ job'[v] = job[v]
          BY <1>1, <1>3, <3>2 DEF Working, At
    <3> QED BY <3>2, <3>3 DEF Working, At
  <2> QED BY <2>1, <2>2
<1> QED BY <1>c, <1>d, <1>e, <1>f, <1>g, <1>h, <1>i, <1>j DEF IInv

\* add_reply: the reply enters the window, and its thread leaves the ones that
\* stand between check and save.
LEMMA SaveIInv == ASSUME IInv, NEW w \in Workers, Save(w)
                  PROVE  IInv'
<1> DEFINE c == job[w].clt
           x == job[w].xid
           W == AddReply(win[c], x)
<1>1. At(w, "ran") /\ runs' = runs /\ sent' = sent /\ Busy(w)
      BY DEF Save, At, Busy
<1>2. c \in Clts /\ x \in Xids /\ x \in Nat
      BY <1>1, JobFacts DEF IInv, At
<1>3. /\ job' \in [Workers -> Jobs \union {Idle}]
      /\ job'[w].st = "send" /\ ~Busy(w)'
      /\ \A v \in Workers : v # w => job'[v] = job[v]
      BY <1>1, GoToFacts DEF IInv, Save, At, Stages, Busy
<1>4. runs[c][x] = 1 /\ x \notin Saved(win[c])
      BY <1>1 DEF IInv, WorkInv
<1>5. win \in [Clts -> WindowType]
      BY DEF IInv, TypeOK
<1>6. win' = [win EXCEPT ![c] = W]
      BY DEF Save
<1>a. \A v \in Workers : Busy(v) /\ v # w => job[v].clt # c \/ job[v].xid # x
      BY <1>1 DEF IInv, OneWorker
<1> HIDE DEF c, x
<1>7. /\ W \in WindowType /\ Increasing(W.list)
      /\ Saved(W) = Saved(win[c]) \union {x}
      /\ W.set = win[c].set /\ W.bound = win[c].bound
      BY <1>2, <1>4, <1>5, AddReplyIs DEF IInv, WindowSorted
<1> HIDE DEF W
<1>8. /\ win' \in [Clts -> WindowType] /\ win'[c] = W
      /\ \A d \in Clts : d # c => win'[d] = win[d]
      BY <1>2, <1>5, <1>6, <1>7
<1>9. \A d \in Clts : win'[d].set = win[d].set /\ win'[d].bound = win[d].bound
      BY <1>7, <1>8
<1>b. \A d \in Clts : \A e \in Saved(win'[d]) : e \in Saved(win[d]) \/ (d = c /\ e = x)
      BY <1>7, <1>8
<1>c. \A d \in Clts : Saved(win[d]) \subseteq Saved(win'[d])
      BY <1>7, <1>8
<1>d. \A v \in Workers : Busy(v)' => v # w /\ Busy(v) /\ job'[v] = job[v]
      BY <1>3 DEF Busy
<1>e. TypeOK'
      BY <1>1, <1>3, <1>8 DEF IInv, TypeOK
<1>f. WindowSorted'
      BY <1>7, <1>8 DEF IInv, WindowSorted
<1>g. AtMostOnce' /\ SeenInv'
      BY <1>1, <1>9 DEF IInv, AtMostOnce, SeenInv, Seen
<1>h. WorkInv'
  <2> SUFFICES ASSUME NEW v \in Workers, Busy(v)'
               PROVE  /\ Seen(job[v].clt, job[v].xid)'
                      /\ job'[v].st = "run" => runs'[job'[v].clt][job'[v].xid] = 0
                      /\ job'[v].st = "ran" => /\ runs'[job'[v].clt][job'[v].xid] = 1
                                               /\ job'[v].xid \notin Saved(win'[job'[v].clt])
      BY DEF WorkInv, At
  <2>1. v # w /\ Busy(v) /\ job'[v] = job[v]
        BY <1>d
  <2>2. job[v].clt \in Clts /\ job[v].xid \in Xids
        BY <2>1, JobFacts DEF IInv, Busy
  <2>3. Seen(job[v].clt, job[v].xid)'
        BY <1>9, <2>1, <2>2 DEF IInv, WorkInv, Seen
  <2>4. job[v].st = "ran" => job[v].xid \notin Saved(win'[job[v].clt])
        BY <1>a, <1>b, <2>1, <2>2 DEF IInv, WorkInv, At
  <2> QED BY <1>1, <2>1, <2>3, <2>4 DEF IInv, WorkInv, At
<1>i. OneWorker'
      BY <1>d DEF IInv, OneWorker
<1>j. SavedInv'
      BY <1>1, <1>2, <1>4, <1>b DEF IInv, SavedInv
<1>k. CachedUntilAcked'
  <2> SUFFICES ASSUME NEW d \in Clts, NEW y \in Xids, runs[d][y] > 0, y > win[d].bound,
                      y \notin Saved(win'[d])
               PROVE  \E v \in Working(d, y)' : At(v, "ran")'
      BY <1>1, <1>9 DEF CachedUntilAcked
  <2>1. d # c \/ y # x
        BY <1>7, <1>8
  <2>2. PICK v \in Working(d, y) : At(v, "ran")
        BY <1>c DEF IInv, CachedUntilAcked
  <2>3. v \in Workers /\ v # w /\ job'[v] = job[v]
        BY <1>3, <2>1, <2>2 DEF Working, c, x
  <2> QED BY <2>2, <2>3 DEF Working, At
<1> QED BY <1>e, <1>f, <1>g, <1>h, <1>i, <1>j, <1>k DEF IInv

\* The duplicate check: a request that looks new was never started and no other
\* thread holds it; what the raised bound takes out of the window is below it.
LEMMA CheckIInv == ASSUME IInv, NEW w \in Workers, Check(w)
                   PROVE  IInv'
<1> DEFINE c == job[w].clt
           x == job[w].xid
           r == job[w].rep
           W == Update(win[c], x, r)
           new == Verdict(win[c], x, r) = "NEW"
<1>1. At(w, "arrived") /\ runs' = runs /\ sent' = sent /\ ~Busy(w)
      BY DEF Check, At, Busy
<1>2. c \in Clts /\ x \in Xids /\ x \in Nat /\ r \in Nat
      BY <1>1, JobFacts DEF IInv, At
<1>3. /\ job' \in [Workers -> Jobs \union {Idle}]
      /\ \A v \in Workers : v # w => job'[v] = job[v]
      /\ Busy(w)' => new /\ job'[w].st = "run" /\ job'[w].clt = c /\ job'[w].xid = x
  <2>1. \/ new /\ GoTo(w, "run")
        \/ GoTo(w, "send") \/ GoTo(w, "forgotten") \/ Done(w)
        BY DEF Check
  <2>2. TypeOK /\ job[w].st # "idle"
        BY <1>1 DEF IInv, At
  <2>3. CASE new /\ GoTo(w, "run")
        BY <2>2, <2>3, GoToFacts DEF Stages
  <2>4. CASE GoTo(w, "send")
        BY <2>2, <2>4, GoToFacts DEF Stages, Busy
  <2>5. CASE GoTo(w, "forgotten")
        BY <2>2, <2>5, GoToFacts DEF Stages, Busy
  <2>6. CASE Done(w)
        BY <2>2, <2>6, DoneFacts DEF Busy
  <2> QED BY <2>1, <2>3, <2>4, <2>5, <2>6
<1>4. win \in [Clts -> WindowType]
      BY DEF IInv, TypeOK
<1>5. win' = [win EXCEPT ![c] = W]
      BY DEF Check
<1> HIDE DEF c, x, r
<1>6. /\ W \in WindowType /\ Increasing(W.list)
      /\ W.bound \in Nat /\ W.bound >= win[c].bound
      /\ Saved(W) \subseteq Saved(win[c])
      /\ \A e \in Saved(win[c]) : e \in Saved(W) \/ e < W.bound
      /\ \A e \in win[c].set : e \in W.set \/ e < W.bound
      /\ x \in W.set
      /\ new => x \notin win[c].set /\ ~(x < win[c].bound)
      BY <1>2, <1>4, UpdateIs DEF IInv, WindowSorted
<1> HIDE DEF W, new
<1>7. /\ win' \in [Clts -> WindowType] /\ win'[c] = W
      /\ \A d \in Clts : d # c => win'[d] = win[d]
      BY <1>2, <1>4, <1>5, <1>6
<1>b. \A d \in Clts : win[d].bound \in Int
      BY <1>4 DEF WindowType, NoBound
<1>8. \A d \in Clts, y \in Xids : Seen(d, y) => Seen(d, y)'
  <2> SUFFICES ASSUME NEW d \in Clts, NEW y \in Xids, Seen(d, y) PROVE Seen(d, y)'
      OBVIOUS
  <2>1. y \in Int
        BY DEF Xids
  <2>2. CASE d = c
        BY <1>2, <1>6, <1>7, <1>b, <2>1, <2>2 DEF Seen
  <2>3. CASE d # c
        BY <1>7, <2>3 DEF Seen
  <2> QED BY <2>2, <2>3
<1>9. \A d \in Clts : Saved(win'[d]) \subseteq Saved(win[d])
      BY <1>6, <1>7
<1>a. new => ~Seen(c, x)
      BY <1>6 DEF Seen
<1>c. \A v \in Workers : Busy(v) => v # w /\ Busy(v)' /\ job'[v] = job[v]
      BY <1>1, <1>3 DEF Busy
<1>d. \A v \in Workers : Busy(v)' /\ v # w => Busy(v) /\ job'[v] = job[v]
      BY <1>3 DEF Busy
<1>e. TypeOK'
      BY <1>1, <1>3, <1>7 DEF IInv, TypeOK
<1>f. WindowSorted'
      BY <1>6, <1>7 DEF IInv, WindowSorted
<1>g. AtMostOnce' /\ SeenInv'
      BY <1>1, <1>8 DEF IInv, AtMostOnce, SeenInv
<1>h. WorkInv'
  <2> SUFFICES ASSUME NEW v \in Workers, Busy(v)'
               PROVE  /\ Seen(job[v].clt, job[v].xid)'
                      /\ job'[v].st = "run" => runs'[job'[v].clt][job'[v].xid] = 0
                      /\ job'[v].st = "ran" => /\ runs'[job'[v].clt][job'[v].xid] = 1
                                               /\ job'[v].xid \notin Saved(win'[job'[v].clt])
      BY DEF WorkInv, At
  <2>1. CASE v = w
    <3>1. new /\ job'[v].st = "run" /\ job'[v].clt = c /\ job'[v].xid = x
          BY <1>3, <2>1
    <3>2. x \in win'[c].set
          BY <1>6, <1>7
    <3>3. ~(runs[c][x] > 0) /\ runs[c][x] \in Nat
          BY <1>2, <1>a, <3>1 DEF IInv, SeenInv, TypeOK
    <3> QED BY <1>1, <3>1, <3>2, <3>3 DEF Seen
  <2>2. CASE v # w
    <3>1. Busy(v) /\ job'[v] = job[v]
          BY <1>d, <2>2
    <3>2. job[v].clt \in Clts /\ job[v].xid \in Xids
          BY <3>1, JobFacts DEF IInv, Busy
    <3>3. Seen(job[v].clt, job[v].xid)
          BY <3>1 DEF IInv, WorkInv
    <3>4. Seen(job[v].clt, job[v].xid)'
          BY <1>8, <3>1, <3>2, <3>3 DEF Seen
    <3> QED BY <1>1, <1>9, <3>1, <3>2, <3>4 DEF IInv, WorkInv, At
  <2> QED BY <2>1, <2>2
<1>i. OneWorker'
  <2>1. ASSUME NEW v \in Workers, v # w, Busy(v)', Busy(w)',
               job'[v].clt = job'[w].clt, job'[v].xid = job'[w].xid
        PROVE  FALSE
    <3>1. Busy(v) /\ job[v].clt = c /\ job[v].xid = x /\ new
          BY <1>3, <1>d, <2>1
    <3> QED BY <1>a, <3>1 DEF IInv, WorkInv
  <2> QED BY <1>d, <2>1 DEF IInv, OneWorker
<1>j. SavedInv'
      BY <1>1, <1>9 DEF IInv, SavedInv
<1>k. CachedUntilAcked'
  <2> SUFFICES ASSUME NEW d \in Clts, NEW y \in Xids, runs[d][y] > 0, y > win'[d].bound,
                      y \notin Saved(win'[d])
               PROVE  \E v \in Working(d, y)' : At(v, "ran")'
      BY <1>1 DEF CachedUntilAcked
  <2>1. y \in Int
        BY DEF Xids
  <2>2. y > win[d].bound /\ y \notin Saved(win[d])
        BY <1>6, <1>7, <1>b, <2>1
  <2>3. PICK v \in Working(d, y) : At(v, "ran")
        BY <2>2 DEF IInv, CachedUntilAcked
  <2>4. v \in Workers /\ job'[v] = job[v]
        BY <1>c, <2>3 DEF Working, Busy
  <2> QED BY <2>3, <2>4 DEF Working, At
<1> QED BY <1>e, <1>f, <1>g, <1>h, <1>i, <1>j, <1>k DEF IInv

\* Every step, of a client, of the network or of a dispatch thread, preserves the
\* invariant.
LEMMA NextIInv == IInv /\ [Next]_vars => IInv'
<1> SUFFICES ASSUME IInv, [Next]_vars PROVE IInv'
    OBVIOUS
<1>1. CASE UNCHANGED vars
  <2>1. TypeOK' /\ UNCHANGED <<win, runs>> /\ \A v \in Workers : job'[v] = job[v]
        BY <1>1 DEF vars, IInv, TypeOK
  <2> QED BY <2>1, QuietStep
<1>2. ASSUME NEW c \in Clts, NEW rep \in 0..MaxXid, Call(c, rep) PROVE IInv'
      BY <1>2, CallIInv
<1>3. ASSUME NEW w \in Workers, NEW c \in Clts, NEW x \in Xids, Deliver(w, c, x)
      PROVE  IInv'
      BY <1>3, DeliverIInv
<1>4. ASSUME NEW w \in Workers, Check(w) PROVE IInv'
      BY <1>4, CheckIInv
<1>5. ASSUME NEW w \in Workers, Run(w) PROVE IInv'
      BY <1>5, RunIInv
<1>6. ASSUME NEW w \in Workers, Save(w) PROVE IInv'
      BY <1>6, SaveIInv
<1>7. ASSUME NEW w \in Workers, Send(w) PROVE IInv'
      BY <1>7, SendIInv
<1> QED BY <1>1, <1>2, <1>3, <1>4, <1>5, <1>6, <1>7 DEF Next

\* The conjunction that makes at-most-once provable is an invariant of rpcs.
THEOREM Invariance == Spec => []IInv
BY InitIInv, NextIInv, PTL DEF Spec

\* The dispatch threads, the windows and the clients' calls keep their types.
THEOREM TypeCorrect == Spec => []TypeOK
<1>1. IInv => TypeOK
      BY DEF IInv
<1> QED BY <1>1, Invariance, PTL

\* No handler is started twice for one xid of one client, however many copies of
\* the request reach however many dispatch threads in whatever order.
THEOREM AtMostOnceHolds == Spec => []AtMostOnce
<1>1. IInv => AtMostOnce
      BY DEF IInv
<1> QED BY <1>1, Invariance, PTL

\* The VERIFY of add_reply cannot fail and the loop that drops replies finds
\* every one below the bound: reply_window_ is sorted without repetition.
THEOREM WindowSortedHolds == Spec => []WindowSorted
<1>1. IInv => WindowSorted
      BY DEF IInv
<1> QED BY <1>1, Invariance, PTL

\* checkduplicate_and_update frees no reply that the client may still ask for.
THEOREM CachedUntilAckedHolds == Spec => []CachedUntilAcked
<1>1. IInv => CachedUntilAcked
      BY DEF IInv
<1> QED BY <1>1, Invariance, PTL

\* reply_lower_bound_ never decreases, although requests arrive reordered.
THEOREM BoundMonotoneHolds == Spec => BoundMonotone
<1> DEFINE Mono == \A c \in Clts : win'[c].bound >= win[c].bound
<1>1. IInv /\ [Next]_vars => [Mono]_vars
  <2> SUFFICES ASSUME IInv, Next PROVE Mono
      BY DEF vars
  <2>1. \A c \in Clts : win[c] \in WindowType /\ win[c].bound \in Int
        BY DEF IInv, TypeOK, WindowType, NoBound
  <2>2. CASE win' = win
        BY <2>1, <2>2
  <2>3. ASSUME NEW w \in Workers, Check(w) PROVE Mono
    <3> DEFINE c == job[w].clt
               W == Update(win[c], job[w].xid, job[w].rep)
    <3>1. c \in Clts /\ job[w].xid \in Nat /\ job[w].rep \in Nat
          BY <2>3, JobFacts DEF IInv, Check, At
    <3>2. W.bound \in Nat /\ W.bound >= win[c].bound
          BY <2>1, <3>1, UpdateIs DEF IInv, WindowSorted
    <3>3. win' = [win EXCEPT ![c] = W] /\ win \in [Clts -> WindowType]
          BY <2>3 DEF Check, IInv, TypeOK
    <3> HIDE DEF W, c
    <3> QED BY <2>1, <3>1, <3>2, <3>3
  <2>4. ASSUME NEW w \in Workers, Save(w) PROVE Mono
    <3> DEFINE c == job[w].clt
               W == AddReply(win[c], job[w].xid)
    <3>1. c \in Clts
          BY <2>4, JobFacts DEF IInv, Save, At
    <3>2. W.bound = win[c].bound
          BY <2>1, <3>1 DEF AddReply, WindowType
    <3>3. win' = [win EXCEPT ![c] = W] /\ win \in [Clts -> WindowType]
          BY <2>4 DEF Save, IInv, TypeOK
    <3> HIDE DEF W, c
    <3> QED BY <2>1, <3>1, <3>2, <3>3
  <2> QED BY <2>2, <2>3, <2>4 DEF Next, Call, Deliver, Run, Send
<1> QED BY <1>1, Invariance, PTL DEF Spec, BoundMonotone
=============================================================================
