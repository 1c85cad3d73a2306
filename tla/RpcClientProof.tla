--------------------------- MODULE RpcClientProof ---------------------------
(***************************************************************************)
(* Proofs about RpcClient, for any number of calling threads and of calls, *)
(* whatever the network repeats, delays or loses and whenever a thread     *)
(* cancels.                                                                *)
(***************************************************************************)
EXTENDS RpcClient, ReplyWindowProof

Stages == {"transmit", "transmit_last", "send", "send_last", "wait", "finish", "lossy"}

CallRecord == [st : Stages, xid : 1..Len(rep), done : BOOLEAN, ret : Results]

\* The calls of two threads are two calls.
UniqueXids == \A i, j \in Callers :
  InCall(i) /\ InCall(j) /\ caller[i].xid = caller[j].xid => i = j

\* The client's window holds only xids that were given out.
ReportedInv == xid_rep_window_.front <= Len(rep) /\ xid_rep_window_.above \subseteq 1..Len(rep)

\* A header acknowledges calls before its own, and no more than the front has
\* reached by now.
HeaderInv == \A x \in 1..Len(rep) : rep[x] < x /\ rep[x] <= xid_rep_window_.front

\* A call that still waits was not reported: no reply to it was taken and it has
\* not ended.
WaitingInv == \A i \in Callers : InCall(i) /\ ~caller[i].done =>
  /\ caller[i].st # "lossy"
  /\ caller[i].xid > xid_rep_window_.front
  /\ caller[i].xid \notin xid_rep_window_.above

\* The server's list is sorted, and a running call has no saved reply yet.
ServerInv == /\ Increasing(win.list)
             /\ win.bound \in Nat /\ win.bound <= xid_rep_window_.front
             /\ \A x \in running : x \notin Saved(win) /\ rep[x] <= win.bound

\* Whatever was answered, the server has seen its header; what it answered with
\* atmostonce_failure was acknowledged.
AnsweredInv == \A r \in replies :
  /\ rep[r.xid] <= win.bound
  /\ r.ret = "atmostonce_failure" => r.xid <= xid_rep_window_.front

\* So the server has seen the header of every call that ended with an answer, and
\* its bound is at least what the client takes it to be.
DoneInv == destroy_wait_ \/ /\ \A i \in Callers : InCall(i) /\ caller[i].done =>
                                 rep[caller[i].xid] <= win.bound
                            /\ xid_rep_done_ <= win.bound

IInv == /\ TypeOK /\ UniqueXids /\ ReportedInv /\ HeaderInv /\ WaitingInv
        /\ ServerInv /\ AnsweredInv /\ DoneInv
        /\ NeverForgotten /\ DupIsForgotten /\ CancelledIsOver

\* What the type of caller says of a thread in a call.
LEMMA CallFacts ==
  ASSUME TypeOK, NEW i \in Callers, InCall(i)
  PROVE  /\ caller[i] \in CallRecord
         /\ caller[i].st \in Stages /\ caller[i].xid \in 1..Len(rep) /\ caller[i].xid \in Nat
         /\ caller[i].done \in BOOLEAN /\ caller[i].ret \in Results
<1>1. caller[i] \in CallRecord
      BY DEF TypeOK, InCall, Out, CallRecord, Stages
<1>2. Len(rep) \in Nat
      BY DEF TypeOK
<1> QED BY <1>1, <1>2 DEF CallRecord

\* The numbers and windows the steps compute with.
LEMMA StateFacts ==
  ASSUME TypeOK
  PROVE  /\ Len(rep) \in Nat /\ Len(rep) <= MaxXid /\ MaxXid \in Nat
         /\ \A x \in 1..Len(rep) : rep[x] \in 0..MaxXid /\ rep[x] \in Nat /\ x \in Nat
         /\ xid_rep_window_.front \in Nat /\ xid_rep_window_.above \in SUBSET Nat
         /\ win \in WindowType /\ sent \subseteq 1..Len(rep) /\ running \subseteq sent
         /\ \A r \in replies : r.xid \in sent /\ r.xid \in 1..Len(rep) /\ r.xid \in Nat
<1>1. rep \in Seq(0..MaxXid) /\ Len(rep) <= MaxXid /\ MaxXid \in Nat
      BY BoundsAssumption DEF TypeOK
<1>2. Len(rep) \in Nat /\ \A x \in 1..Len(rep) : rep[x] \in 0..MaxXid
      BY <1>1
<1>3. xid_rep_window_.front \in Nat /\ xid_rep_window_.above \in SUBSET Nat
      BY DEF TypeOK, XidRepType
<1>4. win \in WindowType /\ sent \subseteq 1..Len(rep) /\ running \subseteq sent
      /\ \A r \in replies : r.xid \in sent
      BY DEF TypeOK
<1>5. \A x \in 1..Len(rep) : rep[x] \in Nat /\ x \in Nat
      BY <1>1, <1>2
<1>6. \A r \in replies : r.xid \in 1..Len(rep) /\ r.xid \in Nat
      BY <1>4, <1>5
<1> QED BY <1>1, <1>2, <1>3, <1>4, <1>5, <1>6

\* The state in which bind has just returned satisfies the invariant.
LEMMA InitIInv == Init => IInv
<1> SUFFICES ASSUME Init PROVE IInv
    OBVIOUS
<1>1. rep = <<0>> /\ Len(rep) = 1 /\ rep[1] = 0 /\ MaxXid \in Nat /\ MaxXid >= 1
      BY BoundsAssumption DEF Init
<1>2. \A i \in Callers : ~InCall(i)
      BY DEF Init, InCall, Out
<1>3. /\ xid_rep_window_ \in XidRepType
      /\ xid_rep_window_.front <= 1 /\ xid_rep_window_.above \subseteq 1..1
      /\ xid_rep_window_.front >= 0
  <2>1. EmptyXidRep \in XidRepType /\ EmptyXidRep.front = 0 /\ EmptyXidRep.above = {}
        BY DEF EmptyXidRep, XidRepType
  <2>2. 1 \in Nat /\ 1 \in 1..1 /\ EmptyXidRep.front <= 1 /\ EmptyXidRep.above \subseteq 1..1
        BY <2>1
  <2> QED BY <2>1, <2>2, UpdateXidRepIs DEF Init
<1> DEFINE u == Update(EmptyWindow, 1, 0)
<1>4. u = [list |-> <<>>, set |-> {1}, bound |-> 0]
  <2> DEFINE e == [list |-> <<>>, set |-> {}, bound |-> 0]
  <2>1. Raise(EmptyWindow, 0) = e
        BY DEF Raise, EmptyWindow
  <2>2. u = [Raise(EmptyWindow, 0) EXCEPT !.set = Raise(EmptyWindow, 0).set \union {1}]
        BY DEF Update
  <2> QED BY <2>1, <2>2
<1>5. u \in WindowType /\ u.list = <<>> /\ u.bound = 0
  <2> HIDE DEF u
  <2>1. <<>> \in Seq(Nat) /\ {1} \in SUBSET Nat /\ 0 \in Nat \union {NoBound}
        OBVIOUS
  <2> QED BY <1>4, <2>1 DEF WindowType
<1>6. Increasing(u.list) /\ Saved(u) = {}
      BY <1>5 DEF Increasing, Saved, Elements
<1>7. win \in WindowType /\ Increasing(win.list) /\ win.bound = 0
  <2>1. win = AddReply(u, 1)
        BY DEF Init
  <2> HIDE DEF u
  <2> QED BY <1>5, <1>6, <2>1, AddReplyIs
<1>8. /\ calls_ = {} /\ running = {} /\ late = {} /\ sent = {1}
      /\ replies = {[xid |-> 1, ret |-> "ok"]}
      /\ destroy_wait_ = FALSE /\ dup_req_ = 1 /\ xid_rep_done_ = 0 /\ canceller = "out"
      /\ caller = [i \in Callers |-> Out]
      BY DEF Init, Reply
<1>9. TypeOK
  <2>1. rep \in Seq(0..MaxXid)
        BY <1>1
  <2>2. calls_ = {caller[i].xid : i \in {j \in Callers : InCall(j) /\ caller[j].st # "lossy"}}
        BY <1>2, <1>8
  <2>3. replies \subseteq [xid : sent, ret : Results]
        BY <1>8 DEF Results
  <2>4. caller \in [Callers -> {Out} \union
          [st : {"transmit", "transmit_last", "send", "send_last", "wait", "finish", "lossy"},
           xid : 1..Len(rep), done : BOOLEAN, ret : Results]]
        BY <1>8
  <2>5. sent \subseteq 1..Len(rep) /\ dup_req_ \in 0..Len(rep) /\ xid_rep_done_ \in 0..Len(rep)
        BY <1>1, <1>8
  <2> QED BY <1>1, <1>3, <1>7, <1>8, <2>1, <2>2, <2>3, <2>4, <2>5 DEF TypeOK
<1>10. UniqueXids /\ WaitingInv /\ NeverForgotten /\ CancelledIsOver /\ DupIsForgotten
      BY <1>2, <1>8 DEF UniqueXids, WaitingInv, NeverForgotten, CancelledIsOver, DupIsForgotten
<1>11. ReportedInv /\ HeaderInv
      BY <1>1, <1>3 DEF ReportedInv, HeaderInv, XidRepType
<1>12. ServerInv /\ AnsweredInv /\ DoneInv
      BY <1>1, <1>2, <1>3, <1>7, <1>8 DEF ServerInv, AnsweredInv, DoneInv, XidRepType
<1> QED BY <1>9, <1>10, <1>11, <1>12 DEF IInv

\* A step that changes nothing.
LEMMA StutterIInv == ASSUME IInv, UNCHANGED vars
                     PROVE  IInv'
<1>1. UNCHANGED <<rep, calls_, xid_rep_window_, destroy_wait_, dup_req_, xid_rep_done_, caller,
                  canceller, sent, late, replies, win, running>>
      BY DEF vars, dupVars, serverVars
<1>2. \A i \in Callers : InCall(i)' <=> InCall(i)
      BY <1>1 DEF InCall
<1>3. TypeOK'
      BY <1>1, <1>2 DEF IInv, TypeOK
<1>4. UniqueXids' /\ WaitingInv' /\ DoneInv' /\ NeverForgotten'
      BY <1>1, <1>2 DEF IInv, UniqueXids, WaitingInv, DoneInv, NeverForgotten
<1>5. ReportedInv' /\ HeaderInv' /\ ServerInv' /\ AnsweredInv' /\ DupIsForgotten'
        /\ CancelledIsOver'
      BY <1>1 DEF IInv, ReportedInv, HeaderInv, ServerInv, AnsweredInv, DupIsForgotten,
                  CancelledIsOver
<1> QED BY <1>3, <1>4, <1>5 DEF IInv

\* A step of the calling thread i that leaves its call in the map, as seen from
\* all threads.
LEMMA MoveFacts ==
  ASSUME TypeOK, NEW i \in Callers, InCall(i), caller[i].st # "lossy",
         NEW s \in Stages \ {"lossy"},
         caller' = [caller EXCEPT ![i].st = s], rep' = rep
  PROVE  /\ caller' \in [Callers -> {Out} \union CallRecord]
         /\ \A j \in Callers :
              /\ InCall(j)' <=> InCall(j)
              /\ InCall(j) => /\ caller'[j].xid = caller[j].xid
                              /\ caller'[j].done = caller[j].done
                              /\ caller'[j].ret = caller[j].ret
                              /\ (caller'[j].st = "lossy") <=> (caller[j].st = "lossy")
<1>1. caller[i] \in CallRecord
      BY CallFacts
<1>2. caller \in [Callers -> {Out} \union CallRecord]
      BY DEF TypeOK, CallRecord, Stages
<1>3. caller' = [caller EXCEPT ![i] = [caller[i] EXCEPT !.st = s]]
      OBVIOUS
<1>4. [caller[i] EXCEPT !.st = s] \in CallRecord
      BY <1>1 DEF CallRecord
<1>5. caller' \in [Callers -> {Out} \union CallRecord]
      BY <1>2, <1>3, <1>4
<1>6. ASSUME NEW j \in Callers, j # i PROVE caller'[j] = caller[j]
      BY <1>2, <1>3, <1>6
<1>7. /\ caller'[i].st = s /\ caller'[i].xid = caller[i].xid
      /\ caller'[i].done = caller[i].done /\ caller'[i].ret = caller[i].ret
      BY <1>1, <1>2, <1>3 DEF CallRecord
<1>8. s # "out" /\ s # "lossy"
      BY DEF Stages
<1>9. ASSUME NEW j \in Callers
      PROVE  /\ InCall(j)' <=> InCall(j)
             /\ InCall(j) => /\ caller'[j].xid = caller[j].xid
                             /\ caller'[j].done = caller[j].done
                             /\ caller'[j].ret = caller[j].ret
                             /\ (caller'[j].st = "lossy") <=> (caller[j].st = "lossy")
  <2>1. CASE j = i
        BY <1>7, <1>8, <2>1 DEF InCall
  <2>2. CASE j # i
        BY <1>6, <2>2 DEF InCall
  <2> QED BY <2>1, <2>2
<1> QED BY <1>5, <1>9

\* Steps that neither report an xid nor reach the server: call1 between its first
\* and its last section under m_.
LEMMA MoveIInv ==
  ASSUME IInv, NEW i \in Callers, InCall(i), caller[i].st # "lossy",
         NEW s \in Stages \ {"lossy"},
         caller' = [caller EXCEPT ![i].st = s],
         UNCHANGED <<rep, calls_, xid_rep_window_, destroy_wait_, xid_rep_done_, canceller,
                     replies, serverVars>>,
         dup_req_' \in {0, dup_req_},
         sent \subseteq sent', sent' \subseteq 1..Len(rep), late' \subseteq sent',
         \A x \in late' : x \in late \/ xid_rep_done_ > x
  PROVE  IInv'
<1>1. /\ caller' \in [Callers -> {Out} \union CallRecord]
      /\ \A j \in Callers :
           /\ InCall(j)' <=> InCall(j)
           /\ InCall(j) => /\ caller'[j].xid = caller[j].xid
                           /\ caller'[j].done = caller[j].done
                           /\ caller'[j].ret = caller[j].ret
                           /\ (caller'[j].st = "lossy") <=> (caller[j].st = "lossy")
      BY MoveFacts DEF IInv
<1>2. win' = win /\ running' = running
      BY DEF serverVars
<1>3. TypeOK'
  <2>1. {caller[j].xid : j \in {k \in Callers : InCall(k) /\ caller[k].st # "lossy"}}
          = {caller'[j].xid : j \in {k \in Callers : InCall(k)' /\ caller'[k].st # "lossy"}}
        BY <1>1
  <2>2. dup_req_' \in 0..Len(rep)
        BY StateFacts DEF IInv, TypeOK
  <2>3. running \subseteq sent' /\ replies \subseteq [xid : sent', ret : Results]
        BY DEF IInv, TypeOK
  <2> QED BY <1>1, <1>2, <2>1, <2>2, <2>3 DEF IInv, TypeOK, CallRecord, Stages
<1>4. UniqueXids' /\ NeverForgotten'
      BY <1>1 DEF IInv, UniqueXids, NeverForgotten
<1>5. ReportedInv' /\ HeaderInv' /\ ServerInv' /\ AnsweredInv' /\ CancelledIsOver'
      BY <1>2 DEF IInv, ReportedInv, HeaderInv, ServerInv, AnsweredInv, CancelledIsOver
<1>6. WaitingInv'
      BY <1>1 DEF IInv, WaitingInv
<1>7. DoneInv'
      BY <1>1, <1>2 DEF IInv, DoneInv
<1>8. DupIsForgotten'
  <2> SUFFICES ASSUME NEW x \in late', ~destroy_wait_ PROVE x < win.bound
      BY <1>2 DEF DupIsForgotten
  <2>1. x \in Nat /\ xid_rep_done_ \in Nat /\ win.bound \in Nat /\ xid_rep_done_ <= win.bound
        BY StateFacts DEF IInv, TypeOK, ServerInv, DoneInv
  <2> QED BY <2>1 DEF IInv, DupIsForgotten
<1> QED BY <1>3, <1>4, <1>5, <1>6, <1>7, <1>8 DEF IInv

\* The transmission, with the kept request when it is due.
LEMMA TransmitIInv == ASSUME IInv, NEW i \in Callers, NEW up \in BOOLEAN, Transmit(i, up)
                      PROVE  IInv'
<1> DEFINE forgot == IF up /\ Forgot THEN {dup_req_} ELSE {}
           s == IF ~up THEN Transmitted(caller[i].st)
                ELSE IF caller[i].st = "transmit" THEN "send" ELSE "send_last"
<1>1. InCall(i) /\ caller[i].st # "lossy" /\ s \in Stages \ {"lossy"}
      BY DEF Transmit, Transmitted, InCall, Stages
<1>2. caller' = [caller EXCEPT ![i].st = s]
      BY DEF Transmit
<1>3. forgot \subseteq 1..Len(rep) /\ \A x \in forgot : xid_rep_done_ > x
      BY StateFacts DEF IInv, TypeOK, Forgot
<1>4. /\ dup_req_' \in {0, dup_req_} /\ late' = late \union forgot
      /\ sent' = IF up THEN sent \union {caller[i].xid} \union forgot ELSE sent
      BY DEF Transmit
<1>5. caller[i].xid \in 1..Len(rep)
      BY <1>1, CallFacts DEF IInv
<1>6. /\ sent \subseteq sent' /\ sent' \subseteq 1..Len(rep) /\ late' \subseteq sent'
      /\ \A x \in late' : x \in late \/ xid_rep_done_ > x
      BY <1>3, <1>4, <1>5 DEF IInv, TypeOK
<1>7. UNCHANGED <<rep, calls_, xid_rep_window_, destroy_wait_, xid_rep_done_, canceller,
                  replies, serverVars>>
      BY DEF Transmit
<1> HIDE DEF forgot, s
<1> QED BY <1>1, <1>2, <1>4, <1>6, <1>7, MoveIInv

\* A send that returns, or a wait that ends by its deadline.
LEMMA WaitIInv ==
  ASSUME IInv, NEW i \in Callers, NEW dead \in BOOLEAN, NEW last \in BOOLEAN,
         Timeout(i, dead, last) \/ Sent(i)
  PROVE  IInv'
<1> DEFINE s == caller'[i].st
<1>1. InCall(i) /\ caller[i].st # "lossy"
      BY DEF Timeout, Sent, InSend, InCall
<1>2. caller[i] \in CallRecord /\ caller \in [Callers -> {Out} \union CallRecord]
      BY <1>1, CallFacts DEF IInv, TypeOK, CallRecord, Stages
<1>3. s \in Stages \ {"lossy"} /\ caller' = [caller EXCEPT ![i].st = s]
      BY <1>2 DEF Timeout, Sent, Transmitted, Stages, CallRecord
<1>4. UNCHANGED <<rep, calls_, xid_rep_window_, destroy_wait_, dup_req_, xid_rep_done_,
                  canceller, sent, late, replies, serverVars>>
      BY DEF Timeout, Sent, dupVars
<1>5. sent' \subseteq 1..Len(rep) /\ late' \subseteq sent' /\ sent \subseteq sent'
      BY <1>4 DEF IInv, TypeOK
<1> HIDE DEF s
<1> QED BY <1>1, <1>3, <1>4, <1>5, MoveIInv

\* A new call gets the next xid, which nobody has, and acknowledges the front.
LEMMA BeginIInv == ASSUME IInv, NEW i \in Callers, Begin(i)
                   PROVE  IInv'
<1> DEFINE n == Len(rep)
           new == [st |-> "transmit", xid |-> n + 1, done |-> FALSE, ret |-> "timeout_failure"]
<1>0. CASE destroy_wait_
  <2>1. UNCHANGED vars
        BY <1>0 DEF Begin, vars
  <2> QED BY <2>1, StutterIInv
<1>1. CASE ~destroy_wait_
  <2>1. /\ ~InCall(i) /\ n < MaxXid
        /\ rep' = Append(rep, xid_rep_window_.front)
        /\ calls_' = calls_ \union {n + 1}
        /\ caller' = [caller EXCEPT ![i] = new]
        BY <1>1 DEF Begin
  <2>2. UNCHANGED <<xid_rep_window_, destroy_wait_, dup_req_, xid_rep_done_, canceller, sent,
                    late, replies, win, running>>
        BY DEF Begin, dupVars, serverVars
  <2>3. /\ n \in Nat /\ MaxXid \in Nat /\ rep \in Seq(0..MaxXid)
        /\ xid_rep_window_.front \in Nat /\ xid_rep_window_.front <= n
        /\ xid_rep_window_.above \subseteq 1..n
        BY StateFacts DEF IInv, TypeOK, ReportedInv
  <2>4. /\ rep' \in Seq(0..MaxXid) /\ Len(rep') = n + 1
        /\ \A x \in 1..n : rep'[x] = rep[x]
        /\ rep'[n + 1] = xid_rep_window_.front
        BY <2>1, <2>3
  <2>5. caller \in [Callers -> {Out} \union CallRecord] /\ CallRecord \subseteq CallRecord'
        BY <2>3, <2>4 DEF IInv, TypeOK, CallRecord, Stages
  <2>6. new \in CallRecord'
        BY <2>3, <2>4 DEF CallRecord, Stages, Results
  <2>7. /\ caller' \in [Callers -> {Out} \union CallRecord']
        /\ caller'[i] = new /\ \A j \in Callers : j # i => caller'[j] = caller[j]
        BY <2>1, <2>5, <2>6
  <2>8. /\ InCall(i)' /\ caller'[i].xid = n + 1 /\ caller'[i].done = FALSE
        /\ caller'[i].ret = "timeout_failure" /\ caller'[i].st = "transmit"
        BY <2>7 DEF InCall
  <2>9. \A j \in Callers : j # i => (InCall(j)' <=> InCall(j))
        BY <2>7 DEF InCall
  <2>a. \A j \in Callers : InCall(j) => caller[j].xid \in 1..n /\ caller[j].xid # n + 1
        BY <2>3, CallFacts DEF IInv
  <2>b. 1..n \subseteq 1..(n + 1) /\ 0..n \subseteq 0..(n + 1)
        BY <2>3
  <2> HIDE DEF new, n
  <2>c. TypeOK'
    <3>1. {caller'[j].xid : j \in {k \in Callers : InCall(k)' /\ caller'[k].st # "lossy"}}
            = {caller[j].xid : j \in {k \in Callers : InCall(k) /\ caller[k].st # "lossy"}}
              \union {n + 1}
          BY <2>1, <2>7, <2>8, <2>9
    <3>2. Len(rep') <= MaxXid
          BY <2>1, <2>3, <2>4
    <3>3. /\ sent \subseteq 1..Len(rep') /\ dup_req_ \in 0..Len(rep')
          /\ xid_rep_done_ \in 0..Len(rep')
          BY <2>4, <2>b DEF IInv, TypeOK, n
    <3> QED BY <2>1, <2>2, <2>4, <2>7, <3>1, <3>2, <3>3 DEF IInv, TypeOK, CallRecord, Stages
  <2>d. UniqueXids'
        BY <2>7, <2>8, <2>9, <2>a DEF IInv, UniqueXids
  <2>e. ReportedInv'
        BY <2>2, <2>3, <2>4, <2>b DEF ReportedInv
  <2>f. HeaderInv'
    <3> SUFFICES ASSUME NEW x \in 1..(n + 1)
                 PROVE  rep'[x] < x /\ rep'[x] <= xid_rep_window_.front
        BY <2>2, <2>4 DEF HeaderInv
    <3>1. CASE x = n + 1
          BY <2>3, <2>4, <3>1
    <3>2. CASE x # n + 1
      <4>1. x \in 1..n
            BY <2>3, <3>2
      <4> QED BY <2>4, <4>1 DEF IInv, HeaderInv, n
    <3> QED BY <3>1, <3>2
  <2>g. WaitingInv'
        BY <2>2, <2>3, <2>7, <2>8, <2>9 DEF IInv, WaitingInv
  <2>h. ServerInv' /\ AnsweredInv'
        BY <2>2, <2>4, StateFacts DEF IInv, ServerInv, AnsweredInv, n
  <2>i. DoneInv'
        BY <2>2, <2>4, <2>7, <2>8, <2>9, <2>a DEF IInv, DoneInv
  <2>j. NeverForgotten' /\ DupIsForgotten' /\ CancelledIsOver'
        BY <1>1, <2>2, <2>7, <2>8, <2>9
        DEF IInv, NeverForgotten, DupIsForgotten, CancelledIsOver
  <2> QED BY <2>c, <2>d, <2>e, <2>f, <2>g, <2>h, <2>i, <2>j DEF IInv
<1> QED BY <1>0, <1>1

\* What a step that reports x to the window does to the parts of the invariant
\* that depend on it.
LEMMA ReportFacts ==
  ASSUME IInv, NEW x \in 1..Len(rep), xid_rep_window_' = UpdateXidRep(xid_rep_window_, x),
         UNCHANGED <<rep, win, running, replies>>
  PROVE  /\ xid_rep_window_' \in XidRepType
         /\ ReportedInv' /\ HeaderInv' /\ ServerInv' /\ AnsweredInv'
         /\ \A y \in Nat :
              /\ y # x /\ y > xid_rep_window_.front /\ y \notin xid_rep_window_.above =>
                   y > xid_rep_window_'.front /\ y \notin xid_rep_window_'.above
<1> DEFINE w == xid_rep_window_
           v == xid_rep_window_'
<1>1. w \in XidRepType /\ w.front \in Nat /\ Len(rep) \in Nat /\ win.bound \in Nat
      BY StateFacts DEF IInv, TypeOK, ServerInv
<1>2. /\ v \in XidRepType /\ v.front <= Len(rep) /\ v.above \subseteq 1..Len(rep)
      /\ w.front <= v.front
      /\ \A y \in Nat : y <= v.front => y <= w.front \/ y \in w.above \union {x}
      /\ v.above \subseteq w.above \union {x}
      BY <1>1, UpdateXidRepIs DEF IInv, ReportedInv
<1>3. v.front \in Nat
      BY <1>2 DEF XidRepType
<1>4. ReportedInv'
      BY <1>2 DEF ReportedInv
<1>5. HeaderInv'
      BY <1>1, <1>2, <1>3, StateFacts DEF IInv, HeaderInv
<1>6. ServerInv'
      BY <1>1, <1>2, <1>3 DEF IInv, ServerInv
<1>7. AnsweredInv'
      BY <1>1, <1>2, <1>3, StateFacts DEF IInv, AnsweredInv
<1>8. \A y \in Nat : y # x /\ y > w.front /\ y \notin w.above =>
                       y > v.front /\ y \notin v.above
      BY <1>1, <1>2, <1>3
<1> QED BY <1>2, <1>4, <1>5, <1>6, <1>7, <1>8

\* The end of a call: nobody else waits for its xid, so it may be reported.
LEMMA FinishIInv == ASSUME IInv, NEW i \in Callers, Finish(i)
                    PROVE  IInv'
<1> DEFINE x == caller[i].xid
           c == IF caller[i].done THEN [caller[i] EXCEPT !.st = "lossy"] ELSE Out
<1>1. InCall(i) /\ caller[i].st # "lossy"
      BY DEF Finish, LoopOver, InCall
<1>2. caller[i] \in CallRecord /\ x \in 1..Len(rep) /\ x \in Nat
      BY <1>1, CallFacts DEF IInv
<1>3. /\ calls_' = calls_ \ {x} /\ xid_rep_window_' = UpdateXidRep(xid_rep_window_, x)
      /\ caller' = [caller EXCEPT ![i] = c]
      /\ canceller' \in {canceller, "woken"} /\ (canceller' = "out" => canceller = "out")
      BY DEF Finish
<1>4. UNCHANGED <<rep, destroy_wait_, dup_req_, xid_rep_done_, sent, late, replies, win, running>>
      BY DEF Finish, dupVars, serverVars
<1>5. caller \in [Callers -> {Out} \union CallRecord] /\ CallRecord' = CallRecord
      BY <1>4 DEF IInv, TypeOK, CallRecord, Stages
<1>6. c = Out \/ /\ c \in CallRecord /\ c.st = "lossy" /\ c.xid = x /\ c.ret = caller[i].ret
                 /\ c.done = caller[i].done /\ caller[i].done
      BY <1>2 DEF CallRecord, Stages
<1> HIDE DEF c
<1>7. /\ caller' \in [Callers -> {Out} \union CallRecord]
      /\ caller'[i] = c /\ \A j \in Callers : j # i => caller'[j] = caller[j]
      BY <1>3, <1>5, <1>6
<1>8. \A j \in Callers : j # i /\ InCall(j)' => InCall(j)
      BY <1>7 DEF InCall
<1>9. InCall(i)' => /\ caller'[i].st = "lossy" /\ caller'[i].xid = x /\ caller'[i].done
                    /\ caller[i].done /\ caller'[i].ret = caller[i].ret
      BY <1>6, <1>7 DEF InCall, Out
<1>a. \A j \in Callers : j # i /\ InCall(j) => caller[j].xid # x
      BY <1>1 DEF IInv, UniqueXids
<1>b. /\ xid_rep_window_' \in XidRepType
      /\ ReportedInv' /\ HeaderInv' /\ ServerInv' /\ AnsweredInv'
      /\ \A y \in Nat : y # x /\ y > xid_rep_window_.front /\ y \notin xid_rep_window_.above =>
                          y > xid_rep_window_'.front /\ y \notin xid_rep_window_'.above
      BY <1>2, <1>3, <1>4, ReportFacts
<1>c. TypeOK'
  <2>1. {caller'[j].xid : j \in {k \in Callers : InCall(k)' /\ caller'[k].st # "lossy"}}
          = {caller[j].xid : j \in {k \in Callers : InCall(k) /\ caller[k].st # "lossy"}} \ {x}
    <3> DEFINE S == {k \in Callers : InCall(k) /\ caller[k].st # "lossy"}
               T == {k \in Callers : InCall(k)' /\ caller'[k].st # "lossy"}
    <3>1. i \in S /\ T = S \ {i}
          BY <1>1, <1>7, <1>9 DEF InCall
    <3>2. \A j \in T : caller'[j].xid = caller[j].xid /\ caller[j].xid # x
          BY <1>7, <1>8, <1>9, <1>a
    <3> HIDE DEF S, T
    <3>3. \A j \in S : j = i \/ j \in T
          BY <3>1
    <3> QED BY <3>1, <3>2, <3>3 DEF S, T
  <2>2. canceller' \in {"out", "waiting", "woken"}
        BY <1>3 DEF IInv, TypeOK
  <2> QED BY <1>3, <1>4, <1>7, <1>b, <2>1, <2>2 DEF IInv, TypeOK, CallRecord, Stages
<1>d. UniqueXids'
      BY <1>7, <1>8, <1>9, <1>a DEF IInv, UniqueXids
<1>e. WaitingInv'
  <2> SUFFICES ASSUME NEW j \in Callers, InCall(j)', ~caller'[j].done
               PROVE  /\ caller'[j].st # "lossy"
                      /\ caller'[j].xid > xid_rep_window_'.front
                      /\ caller'[j].xid \notin xid_rep_window_'.above
      BY DEF WaitingInv
  <2>1. j # i /\ InCall(j) /\ caller'[j] = caller[j]
        BY <1>7, <1>8, <1>9
  <2>2. caller[j].xid \in Nat /\ caller[j].xid # x
        BY <1>a, <2>1, CallFacts DEF IInv
  <2> QED BY <1>b, <2>1, <2>2 DEF IInv, WaitingInv
<1>f. DoneInv'
  <2> SUFFICES ASSUME ~destroy_wait_, NEW j \in Callers, InCall(j)', caller'[j].done
               PROVE  rep[caller'[j].xid] <= win.bound
      BY <1>4 DEF IInv, DoneInv
  <2>1. CASE j = i
        BY <1>1, <1>9, <2>1 DEF IInv, DoneInv
  <2>2. CASE j # i
        BY <1>7, <1>8, <2>2 DEF IInv, DoneInv
  <2> QED BY <2>1, <2>2
<1>g. NeverForgotten'
      BY <1>1, <1>7, <1>8, <1>9 DEF IInv, NeverForgotten
<1>h. DupIsForgotten' /\ CancelledIsOver'
      BY <1>3, <1>4 DEF IInv, DupIsForgotten, CancelledIsOver
<1> QED BY <1>b, <1>c, <1>d, <1>e, <1>f, <1>g, <1>h DEF IInv

\* The section of the lossy mode: the call was answered or cancelled, so what its
\* header acknowledged has reached the server.
LEMMA KeepRequestIInv == ASSUME IInv, NEW i \in Callers, KeepRequest(i)
                         PROVE  IInv'
<1> DEFINE x == caller[i].xid
<1>1. InCall(i) /\ caller[i].st = "lossy"
      BY DEF KeepRequest, InCall
<1>2. caller[i].done /\ x \in 1..Len(rep) /\ rep[x] \in Nat /\ rep[x] < x
      BY <1>1, CallFacts, StateFacts DEF IInv, WaitingInv, HeaderInv
<1>3. /\ dup_req_' \in {dup_req_, x} /\ caller' = [caller EXCEPT ![i] = Out]
      /\ xid_rep_done_' \in {xid_rep_done_, rep[x]}
      BY DEF KeepRequest
<1>4. UNCHANGED <<rep, calls_, xid_rep_window_, destroy_wait_, canceller, sent, late, replies,
                  win, running>>
      BY DEF KeepRequest, serverVars
<1>5. caller \in [Callers -> {Out} \union CallRecord] /\ CallRecord' = CallRecord
      BY <1>4 DEF IInv, TypeOK, CallRecord, Stages
<1>6. /\ caller' \in [Callers -> {Out} \union CallRecord]
      /\ caller'[i] = Out /\ \A j \in Callers : j # i => caller'[j] = caller[j]
      BY <1>3, <1>5
<1>7. \A j \in Callers : InCall(j)' => j # i /\ InCall(j) /\ caller'[j] = caller[j]
      BY <1>6 DEF InCall, Out
<1>8. TypeOK'
  <2>1. {caller'[j].xid : j \in {k \in Callers : InCall(k)' /\ caller'[k].st # "lossy"}}
          = {caller[j].xid : j \in {k \in Callers : InCall(k) /\ caller[k].st # "lossy"}}
    <3> DEFINE S == {k \in Callers : InCall(k) /\ caller[k].st # "lossy"}
               T == {k \in Callers : InCall(k)' /\ caller'[k].st # "lossy"}
    <3>1. T = S /\ \A j \in T : caller'[j].xid = caller[j].xid
          BY <1>1, <1>6, <1>7 DEF InCall
    <3> HIDE DEF S, T
    <3> QED BY <3>1 DEF S, T
  <2>2. dup_req_' \in 0..Len(rep) /\ xid_rep_done_' \in 0..Len(rep)
        BY <1>2, <1>3, StateFacts DEF IInv, TypeOK
  <2> QED BY <1>4, <1>6, <2>1, <2>2 DEF IInv, TypeOK, CallRecord, Stages
<1>9. UniqueXids' /\ NeverForgotten' /\ WaitingInv'
      BY <1>4, <1>7 DEF IInv, UniqueXids, NeverForgotten, WaitingInv
<1>a. ReportedInv' /\ HeaderInv' /\ ServerInv' /\ AnsweredInv' /\ DupIsForgotten'
        /\ CancelledIsOver'
      BY <1>4 DEF IInv, ReportedInv, HeaderInv, ServerInv, AnsweredInv, DupIsForgotten,
                  CancelledIsOver
<1>b. DoneInv'
      BY <1>1, <1>2, <1>3, <1>4, <1>7 DEF IInv, DoneInv
<1> QED BY <1>8, <1>9, <1>a, <1>b DEF IInv

\* A step that ends the waits of the threads in D, as seen from all threads.
LEMMA MarkFacts ==
  ASSUME TypeOK, NEW D \in SUBSET Callers, \A j \in D : InCall(j), NEW t \in Results,
         caller' = [j \in Callers |-> IF j \in D
                      THEN [caller[j] EXCEPT !.done = TRUE, !.ret = t] ELSE caller[j]],
         rep' = rep
  PROVE  /\ caller' \in [Callers -> {Out} \union CallRecord]
         /\ \A j \in Callers :
              /\ InCall(j)' <=> InCall(j)
              /\ InCall(j) => caller'[j].xid = caller[j].xid /\ caller'[j].st = caller[j].st
              /\ j \in D => caller'[j].done /\ caller'[j].ret = t
              /\ j \notin D => caller'[j] = caller[j]
<1>1. caller \in [Callers -> {Out} \union CallRecord]
      BY DEF TypeOK, CallRecord, Stages
<1>2. ASSUME NEW j \in D
      PROVE  /\ caller'[j] \in CallRecord /\ caller'[j].done /\ caller'[j].ret = t
             /\ caller'[j].xid = caller[j].xid /\ caller'[j].st = caller[j].st
  <2>1. caller[j] \in CallRecord
        BY CallFacts
  <2>2. caller'[j] = [caller[j] EXCEPT !.done = TRUE, !.ret = t]
        OBVIOUS
  <2> QED BY <2>1, <2>2 DEF CallRecord
<1>3. ASSUME NEW j \in Callers, j \notin D PROVE caller'[j] = caller[j]
      BY <1>3
<1>4. \A j \in Callers : caller'[j] \in {Out} \union CallRecord
      BY <1>1, <1>2, <1>3
<1>5. caller' \in [Callers -> {Out} \union CallRecord]
      BY <1>4
<1>6. \A j \in Callers : InCall(j)' <=> InCall(j)
      BY <1>2, <1>3 DEF InCall
<1> QED BY <1>2, <1>3, <1>5, <1>6

\* A reply reaches the caller that waits for it, if one does.
LEMMA GotPduIInv == ASSUME IInv, NEW x \in Xids, NEW t \in Results, GotPdu(Reply(x, t))
                    PROVE  IInv'
<1> DEFINE r == Reply(x, t)
           D == {j \in Callers : InCall(j) /\ caller[j].xid = x /\ x \in calls_ /\ ~caller[j].done}
<1>1. r \in replies /\ r.xid = x /\ r.ret = t
      BY DEF GotPdu, Reply
<1>2. UNCHANGED <<rep, calls_, destroy_wait_, dup_req_, xid_rep_done_, canceller, sent, late,
                  replies, win, running>>
      BY DEF GotPdu, dupVars, serverVars
<1>3. x \in 1..Len(rep) /\ xid_rep_window_' = UpdateXidRep(xid_rep_window_, x)
      BY <1>1, StateFacts DEF IInv, GotPdu
<1>4. caller' = [j \in Callers |-> IF j \in D
                   THEN [caller[j] EXCEPT !.done = TRUE, !.ret = t] ELSE caller[j]]
      BY <1>1 DEF GotPdu
<1>5. D \in SUBSET Callers /\ \A j \in D : InCall(j) /\ caller[j].xid = x /\ ~caller[j].done
      OBVIOUS
<1>6. \A j \in Callers : InCall(j) /\ ~caller[j].done /\ j \notin D => caller[j].xid # x
      BY DEF IInv, TypeOK, WaitingInv
<1> HIDE DEF D
<1>7. /\ caller' \in [Callers -> {Out} \union CallRecord]
      /\ \A j \in Callers :
           /\ InCall(j)' <=> InCall(j)
           /\ InCall(j) => caller'[j].xid = caller[j].xid /\ caller'[j].st = caller[j].st
           /\ j \in D => caller'[j].done /\ caller'[j].ret = t
           /\ j \notin D => caller'[j] = caller[j]
      BY <1>2, <1>4, <1>5, MarkFacts DEF IInv
<1>8. /\ xid_rep_window_' \in XidRepType
      /\ ReportedInv' /\ HeaderInv' /\ ServerInv' /\ AnsweredInv'
      /\ \A y \in Nat : y # x /\ y > xid_rep_window_.front /\ y \notin xid_rep_window_.above =>
                          y > xid_rep_window_'.front /\ y \notin xid_rep_window_'.above
      BY <1>2, <1>3, ReportFacts
<1>9. TypeOK'
  <2>1. {caller'[j].xid : j \in {k \in Callers : InCall(k)' /\ caller'[k].st # "lossy"}}
          = {caller[j].xid : j \in {k \in Callers : InCall(k) /\ caller[k].st # "lossy"}}
        BY <1>7
  <2> QED BY <1>2, <1>7, <1>8, <2>1 DEF IInv, TypeOK, CallRecord, Stages
<1>a. UniqueXids'
      BY <1>7 DEF IInv, UniqueXids
<1>b. WaitingInv'
  <2> SUFFICES ASSUME NEW j \in Callers, InCall(j)', ~caller'[j].done
               PROVE  /\ caller'[j].st # "lossy"
                      /\ caller'[j].xid > xid_rep_window_'.front
                      /\ caller'[j].xid \notin xid_rep_window_'.above
      BY DEF WaitingInv
  <2>1. j \notin D /\ InCall(j) /\ caller'[j] = caller[j]
        BY <1>7
  <2>2. caller[j].xid \in Nat /\ caller[j].xid # x
        BY <1>6, <2>1, CallFacts DEF IInv
  <2> QED BY <1>8, <2>1, <2>2 DEF IInv, WaitingInv
<1>c. DoneInv'
  <2>1. rep[x] <= win.bound
        BY <1>1 DEF IInv, AnsweredInv
  <2> QED BY <1>2, <1>5, <1>7, <2>1 DEF IInv, DoneInv
<1>d. NeverForgotten'
  <2>1. \A j \in D : x > xid_rep_window_.front
        BY <1>5 DEF IInv, WaitingInv
  <2>2. D # {} => t # "atmostonce_failure"
        BY <1>1, <1>3, <2>1, StateFacts DEF IInv, AnsweredInv
  <2> QED BY <1>7, <2>2 DEF IInv, NeverForgotten
<1>e. DupIsForgotten' /\ CancelledIsOver'
      BY <1>2 DEF IInv, DupIsForgotten, CancelledIsOver
<1> QED BY <1>8, <1>9, <1>a, <1>b, <1>c, <1>d, <1>e DEF IInv

\* cancel fails every call in the map, and waits when there was one.
LEMMA CancelIInv == ASSUME IInv, Cancel
                    PROVE  IInv'
<1> DEFINE D == {j \in Callers : InCall(j) /\ caller[j].xid \in calls_}
<1>1. UNCHANGED <<rep, calls_, xid_rep_window_, dup_req_, xid_rep_done_, sent, late, replies, win,
                  running>>
      BY DEF Cancel, dupVars, serverVars
<1>2. caller' = [j \in Callers |-> IF j \in D
                   THEN [caller[j] EXCEPT !.done = TRUE, !.ret = "cancel_failure"] ELSE caller[j]]
      BY DEF Cancel
<1>3. D \in SUBSET Callers /\ \A j \in D : InCall(j) /\ caller[j].xid \in calls_
      OBVIOUS
<1>4. /\ destroy_wait_' \in BOOLEAN /\ (destroy_wait_ => destroy_wait_')
      /\ D # {} => destroy_wait_'
      /\ canceller' \in {"out", "waiting"} /\ (canceller' = "out" => calls_ = {})
      BY DEF Cancel, WaitForCalls, IInv, TypeOK
<1>5. "cancel_failure" \in Results
      BY DEF Results
<1> HIDE DEF D
<1>6. /\ caller' \in [Callers -> {Out} \union CallRecord]
      /\ \A j \in Callers :
           /\ InCall(j)' <=> InCall(j)
           /\ InCall(j) => caller'[j].xid = caller[j].xid /\ caller'[j].st = caller[j].st
           /\ j \in D => caller'[j].done /\ caller'[j].ret = "cancel_failure"
           /\ j \notin D => caller'[j] = caller[j]
      BY <1>1, <1>2, <1>3, <1>5, MarkFacts DEF IInv
<1>7. TypeOK'
  <2>1. {caller'[j].xid : j \in {k \in Callers : InCall(k)' /\ caller'[k].st # "lossy"}}
          = {caller[j].xid : j \in {k \in Callers : InCall(k) /\ caller[k].st # "lossy"}}
        BY <1>6
  <2>2. canceller' \in {"out", "waiting", "woken"}
        BY <1>4
  <2> QED BY <1>1, <1>4, <1>6, <2>1, <2>2 DEF IInv, TypeOK, CallRecord, Stages
<1>8. UniqueXids' /\ NeverForgotten'
      BY <1>6 DEF IInv, UniqueXids, NeverForgotten
<1>9. WaitingInv'
      BY <1>1, <1>6 DEF IInv, WaitingInv
<1>a. ReportedInv' /\ HeaderInv' /\ ServerInv' /\ AnsweredInv'
      BY <1>1 DEF IInv, ReportedInv, HeaderInv, ServerInv, AnsweredInv
<1>b. DoneInv'
      BY <1>1, <1>4, <1>6 DEF IInv, DoneInv
<1>c. DupIsForgotten' /\ CancelledIsOver'
      BY <1>1, <1>4 DEF IInv, DupIsForgotten, CancelledIsOver
<1> QED BY <1>7, <1>8, <1>9, <1>a, <1>b, <1>c DEF IInv

\* The thread in cancel wakes up, signalled or not, and looks again.
LEMMA CancelWaitIInv == ASSUME IInv, CancelResume \/ SpuriousWake
                        PROVE  IInv'
<1>1. UNCHANGED <<rep, calls_, xid_rep_window_, dup_req_, xid_rep_done_, caller, sent, late,
                  replies, win, running>>
      BY DEF CancelResume, SpuriousWake, dupVars, serverVars
<1>2. /\ destroy_wait_' \in BOOLEAN /\ (destroy_wait_ => destroy_wait_')
      /\ canceller' \in {"out", "waiting", "woken"} /\ (canceller' = "out" => calls_ = {})
      BY DEF CancelResume, SpuriousWake, WaitForCalls, IInv, TypeOK
<1>3. \A i \in Callers : InCall(i)' <=> InCall(i)
      BY <1>1 DEF InCall
<1>4. TypeOK'
      BY <1>1, <1>2, <1>3 DEF IInv, TypeOK
<1>5. UniqueXids' /\ WaitingInv' /\ DoneInv' /\ NeverForgotten'
      BY <1>1, <1>2, <1>3 DEF IInv, UniqueXids, WaitingInv, DoneInv, NeverForgotten
<1>6. ReportedInv' /\ HeaderInv' /\ ServerInv' /\ AnsweredInv' /\ DupIsForgotten'
        /\ CancelledIsOver'
      BY <1>1, <1>2 DEF IInv, ReportedInv, HeaderInv, ServerInv, AnsweredInv, DupIsForgotten,
                        CancelledIsOver
<1> QED BY <1>4, <1>5, <1>6 DEF IInv

\* A step of the server alone, which keeps its list and its bound in order and
\* answers only what it has seen.
LEMMA ServerStep ==
  ASSUME IInv,
         UNCHANGED <<rep, calls_, xid_rep_window_, destroy_wait_, dupVars, caller, canceller, sent,
                     late>>,
         win' \in WindowType, ServerInv', win.bound <= win'.bound,
         running' \subseteq sent, replies' \subseteq [xid : sent, ret : Results], AnsweredInv'
  PROVE  IInv'
<1>1. dup_req_' = dup_req_ /\ xid_rep_done_' = xid_rep_done_
      BY DEF dupVars
<1>2. \A i \in Callers : InCall(i)' <=> InCall(i)
      BY DEF InCall
<1>3. TypeOK'
      BY <1>1, <1>2 DEF IInv, TypeOK
<1>4. UniqueXids' /\ WaitingInv' /\ NeverForgotten'
      BY <1>2 DEF IInv, UniqueXids, WaitingInv, NeverForgotten
<1>5. ReportedInv' /\ HeaderInv' /\ CancelledIsOver'
      BY DEF IInv, ReportedInv, HeaderInv, CancelledIsOver
<1>6. win.bound \in Nat /\ win'.bound \in Nat
      BY DEF IInv, ServerInv
<1>7. DoneInv'
  <2> SUFFICES ASSUME ~destroy_wait_
               PROVE  /\ \A i \in Callers : InCall(i) /\ caller[i].done =>
                           rep[caller[i].xid] <= win'.bound
                      /\ xid_rep_done_ <= win'.bound
      BY <1>1, <1>2 DEF DoneInv
  <2>1. xid_rep_done_ \in Nat /\ xid_rep_done_ <= win.bound
        BY StateFacts DEF IInv, TypeOK, DoneInv
  <2>2. ASSUME NEW i \in Callers, InCall(i), caller[i].done
        PROVE  rep[caller[i].xid] \in Nat /\ rep[caller[i].xid] <= win.bound
        BY <2>2, CallFacts, StateFacts DEF IInv, DoneInv
  <2> QED BY <1>6, <2>1, <2>2
<1>8. DupIsForgotten'
  <2>1. \A x \in late : x \in Nat
        BY StateFacts DEF IInv, TypeOK
  <2> QED BY <1>6, <2>1 DEF IInv, DupIsForgotten
<1> QED BY <1>3, <1>4, <1>5, <1>7, <1>8 DEF IInv

\* The duplicate check: the bound moves to what a header carried, and a call judged
\* FORGOTTEN was acknowledged by a later one.
LEMMA ServeIInv == ASSUME IInv, NEW x \in Xids, Serve(x)
                   PROVE  IInv'
<1> DEFINE r == rep[x]
           v == Verdict(win, x, r)
<1>1. /\ x \in sent /\ win' = Update(win, x, r)
      /\ running' = (IF v = "NEW" THEN running \union {x} ELSE running)
      /\ replies' = replies \union (IF v = "DONE" THEN {Reply(x, "ok")}
                                    ELSE IF v = "FORGOTTEN"
                                    THEN {Reply(x, "atmostonce_failure")} ELSE {})
      BY DEF Serve
<1>2. UNCHANGED <<rep, calls_, xid_rep_window_, destroy_wait_, dupVars, caller, canceller, sent,
                  late>>
      BY DEF Serve
<1>3. /\ x \in 1..Len(rep) /\ x \in Nat /\ r \in Nat /\ r < x /\ r <= xid_rep_window_.front
      /\ win \in WindowType /\ xid_rep_window_.front \in Nat
      /\ Increasing(win.list) /\ win.bound \in Nat /\ win.bound <= xid_rep_window_.front
      BY <1>1, StateFacts DEF IInv, HeaderInv, ServerInv
<1> HIDE DEF r
<1>4. /\ win' \in WindowType /\ Increasing(win'.list)
      /\ win'.bound \in Nat /\ win'.bound >= win.bound
      /\ Saved(win') \subseteq Saved(win)
      BY <1>1, <1>3, UpdateIs
<1>5. /\ win'.bound \in {win.bound, r} /\ win'.bound >= r
      /\ v = "NEW" => x \notin Saved(win')
      /\ v = "FORGOTTEN" => x <= win'.bound
      BY <1>1, <1>3, VerdictIs
<1> HIDE DEF v
<1>6. running' \subseteq sent /\ replies' \subseteq [xid : sent, ret : Results]
      BY <1>1 DEF IInv, TypeOK, Reply, Results
<1>7. ServerInv'
  <2>1. \A y \in running : rep[y] \in Nat /\ y \notin Saved(win) /\ rep[y] <= win.bound
        BY StateFacts DEF IInv, ServerInv
  <2>2. \A y \in running' : y \notin Saved(win') /\ rep[y] <= win'.bound
        BY <1>1, <1>3, <1>4, <1>5, <2>1 DEF r
  <2> QED BY <1>2, <1>3, <1>4, <1>5, <2>2 DEF ServerInv
<1>8. AnsweredInv'
  <2> SUFFICES ASSUME NEW q \in replies'
               PROVE  /\ rep[q.xid] <= win'.bound
                      /\ q.ret = "atmostonce_failure" => q.xid <= xid_rep_window_.front
      BY <1>2 DEF AnsweredInv
  <2>1. CASE q \in replies
    <3>1. rep[q.xid] \in Nat /\ rep[q.xid] <= win.bound
          BY <2>1, StateFacts DEF IInv, AnsweredInv
    <3> QED BY <1>3, <1>4, <2>1, <3>1 DEF IInv, AnsweredInv
  <2>2. CASE q \notin replies
    <3>1. q.xid = x /\ (q.ret = "atmostonce_failure" => v = "FORGOTTEN")
          BY <1>1, <2>2 DEF Reply
    <3>2. v = "FORGOTTEN" => x <= xid_rep_window_.front
          BY <1>3, <1>5
    <3> QED BY <1>5, <3>1, <3>2 DEF r
  <2> QED BY <2>1, <2>2
<1>9. win.bound <= win'.bound
      BY <1>3, <1>4
<1> QED BY <1>2, <1>4, <1>6, <1>7, <1>8, <1>9, ServerStep

\* The handler returns and its reply is saved.
LEMMA AnswerIInv == ASSUME IInv, NEW x \in Xids, Answer(x)
                    PROVE  IInv'
<1>1. /\ x \in running /\ win' = AddReply(win, x) /\ running' = running \ {x}
      /\ replies' = replies \union {Reply(x, "ok")}
      BY DEF Answer
<1>2. UNCHANGED <<rep, calls_, xid_rep_window_, destroy_wait_, dupVars, caller, canceller, sent,
                  late>>
      BY DEF Answer
<1>3. /\ x \in sent /\ x \in Nat /\ win \in WindowType
      /\ Increasing(win.list) /\ win.bound \in Nat /\ win.bound <= xid_rep_window_.front
      /\ x \notin Saved(win) /\ rep[x] <= win.bound
      BY <1>1, StateFacts DEF IInv, ServerInv
<1>4. /\ win' \in WindowType /\ Increasing(win'.list)
      /\ Saved(win') = Saved(win) \union {x} /\ win'.bound = win.bound
      BY <1>1, <1>3, AddReplyIs
<1>5. running' \subseteq sent /\ replies' \subseteq [xid : sent, ret : Results]
      BY <1>1, <1>3 DEF IInv, TypeOK, Reply, Results
<1>6. ServerInv'
      BY <1>1, <1>2, <1>3, <1>4 DEF IInv, ServerInv
<1>7. AnsweredInv'
      BY <1>1, <1>2, <1>3, <1>4 DEF IInv, AnsweredInv, Reply
<1>8. win.bound <= win'.bound
      BY <1>3, <1>4
<1> QED BY <1>2, <1>4, <1>5, <1>6, <1>7, <1>8, ServerStep

\* Every step of a caller, of the thread that cancels, of the poll thread or of
\* the server preserves the invariant.
LEMMA NextIInv == IInv /\ [Next]_vars => IInv'
<1> SUFFICES ASSUME IInv, [Next]_vars PROVE IInv'
    OBVIOUS
<1>1. CASE UNCHANGED vars
      BY <1>1, StutterIInv
<1>2. ASSUME NEW i \in Callers, Begin(i) PROVE IInv'
      BY <1>2, BeginIInv
<1>3. ASSUME NEW i \in Callers, CallStep(i) PROVE IInv'
  <2>1. ASSUME NEW up \in BOOLEAN, Transmit(i, up) PROVE IInv'
        BY <2>1, TransmitIInv
  <2>2. ASSUME NEW dead \in BOOLEAN, NEW last \in BOOLEAN, Timeout(i, dead, last) PROVE IInv'
        BY <2>2, WaitIInv
  <2>3. CASE Finish(i)
        BY <2>3, FinishIInv
  <2>4. CASE KeepRequest(i)
        BY <2>4, KeepRequestIInv
  <2> QED BY <1>3, <2>1, <2>2, <2>3, <2>4 DEF CallStep
<1>4. CASE Cancel
      BY <1>4, CancelIInv
<1>5. CASE CancelResume \/ SpuriousWake
      BY <1>5, CancelWaitIInv
<1>6. ASSUME NEW x \in Xids, Serve(x) PROVE IInv'
      BY <1>6, ServeIInv
<1>7. ASSUME NEW x \in Xids, Answer(x) PROVE IInv'
      BY <1>7, AnswerIInv
<1>8. ASSUME NEW x \in Xids, NEW t \in Results, GotPdu(Reply(x, t)) PROVE IInv'
      BY <1>8, GotPduIInv
<1>9. ASSUME NEW i \in Callers, Sent(i) PROVE IInv'
      BY <1>9, TRUE \in BOOLEAN, WaitIInv
<1> QED BY <1>1, <1>2, <1>3, <1>4, <1>5, <1>6, <1>7, <1>8, <1>9 DEF Next

\* The conjunction that ties headers, replies and the two windows together is an
\* invariant of the client with its server.
THEOREM Invariance == Spec => []IInv
BY InitIInv, NextIInv, PTL DEF Spec

\* The client's and the server's variables keep their types, and the map of calls
\* holds the calls of the threads that are in call1.
THEOREM TypeCorrect == Spec => []TypeOK
<1>1. IInv => TypeOK
      BY DEF IInv
<1> QED BY <1>1, Invariance, PTL

\* No caller ever gets atmostonce_failure: what the server has forgotten, the
\* client had acknowledged, and it acknowledges only what nobody waits for.
THEOREM NeverForgottenHolds == Spec => []NeverForgotten
<1>1. IInv => NeverForgotten
      BY DEF IInv
<1> QED BY <1>1, Invariance, PTL

\* The server's bound never passes the front of xid_rep_window_, and the front
\* never passes a call whose caller still waits.
THEOREM AckedIsOverHolds == Spec => []AckedIsOver
<1>1. IInv => AckedIsOver
      BY DEF IInv, ServerInv, WaitingInv, AckedIsOver
<1> QED BY <1>1, Invariance, PTL

\* The late duplicate of the lossy mode finds its request forgotten: the server
\* neither runs it nor answers it from its window.
THEOREM DupIsForgottenHolds == Spec => []DupIsForgotten
<1>1. IInv => DupIsForgotten
      BY DEF IInv
<1> QED BY <1>1, Invariance, PTL

\* When a cancel that waited has returned, the map is empty and stays so.
THEOREM CancelledIsOverHolds == Spec => []CancelledIsOver
<1>1. IInv => CancelledIsOver
      BY DEF IInv
<1> QED BY <1>1, Invariance, PTL
=============================================================================
