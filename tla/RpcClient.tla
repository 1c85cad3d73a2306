------------------------------ MODULE RpcClient ------------------------------
(***************************************************************************)
(* One rpcc under concurrent calls and rpcc::cancel, with RPC_LOSSY set:   *)
(* call1 then keeps one answered request, and sends it once more when the  *)
(* server must have forgotten it (rpc.cc).                                 *)
(*                                                                         *)
(* Rpc has the wires; here a request that was transmitted reaches the      *)
(* server any number of times, at any time, and so do replies, which is    *)
(* what retransmissions over failing connections amount to.  The server is *)
(* one instance, its duplicate check ReplyWindow, its threads the xids at  *)
(* work.  The model starts when bind (xid 1) has just returned.            *)
(***************************************************************************)
EXTENDS ReplyWindow, XidRepWindow

CONSTANTS Callers,   \* application threads that call
          MaxXid     \* calls made, bind included

ASSUME BoundsAssumption == MaxXid \in Nat \ {0}

VARIABLES
  \* rpcc
  rep,              \* rep[x]: the xid_rep of call x's header; Len(rep) + 1 is xid_
  calls_,           \* the xids in the map of calls
  xid_rep_window_,
  destroy_wait_,
  dup_req_,         \* the xid of the request kept, 0 when not valid
  xid_rep_done_,
  caller,           \* the call each application thread is in
  canceller,        \* the thread that calls cancel
  \* the network
  sent,             \* requests transmitted
  late,             \* of them, the kept ones transmitted once more
  replies,          \* replies sent
  \* rpcs
  win,
  running           \* xids between checkduplicate_and_update and add_reply

dupVars == <<dup_req_, xid_rep_done_>>
serverVars == <<win, running>>
vars == <<rep, calls_, xid_rep_window_, destroy_wait_, dupVars, caller, canceller,
          sent, late, replies, serverVars>>

Xids == 1..MaxXid
Results == {"ok", "atmostonce_failure", "timeout_failure", "cancel_failure"}
Reply(x, r) == [xid |-> x, ret |-> r]

Out == [st |-> "out"]

Init == /\ rep = <<0>>
        /\ calls_ = {}
        /\ xid_rep_window_ = UpdateXidRep(EmptyXidRep, 1)
        /\ destroy_wait_ = FALSE
        /\ dup_req_ = 1
        /\ xid_rep_done_ = 0
        /\ caller = [i \in Callers |-> Out]
        /\ canceller = "out"
        /\ sent = {1}
        /\ late = {}
        /\ replies = {Reply(1, "ok")}
        /\ win = AddReply(Update(EmptyWindow, 1, 0), 1)
        /\ running = {}

-------------------------------------------------------------------------------
(* rpcc::call1.                                                            *)

InCall(i) == caller[i].st # "out"

\* Mutant: a call acknowledges all before it, answered or not.
BeginAckAll(i) ==
  /\ ~InCall(i) /\ Len(rep) < MaxXid
  /\ IF destroy_wait_
     THEN UNCHANGED <<rep, calls_, caller>>
     ELSE /\ rep' = Append(rep, Len(rep))
          /\ calls_' = calls_ \union {Len(rep) + 1}
          /\ caller' = [caller EXCEPT ![i] =
                          [st |-> "transmit", xid |-> Len(rep) + 1,
                           done |-> FALSE, ret |-> "timeout_failure"]]
  /\ UNCHANGED <<xid_rep_window_, destroy_wait_, dupVars, canceller, sent, late,
                 replies, serverVars>>

\* The first section under m_; the client is bound.  After a cancel the call
\* returns cancel_failure at once.
Begin(i) ==
  /\ ~InCall(i) /\ Len(rep) < MaxXid
  /\ IF destroy_wait_
     THEN UNCHANGED <<rep, calls_, caller>>
     ELSE /\ rep' = Append(rep, xid_rep_window_.front)
          /\ calls_' = calls_ \union {Len(rep) + 1}
          /\ caller' = [caller EXCEPT ![i] =
                          [st |-> "transmit", xid |-> Len(rep) + 1,
                           done |-> FALSE, ret |-> "timeout_failure"]]
  /\ UNCHANGED <<xid_rep_window_, destroy_wait_, dupVars, canceller, sent, late,
                 replies, serverVars>>

\* Mutant: the kept request goes out with the next call.
ForgotAtOnce == dup_req_ # 0

\* The kept request is due.
Forgot == dup_req_ # 0 /\ xid_rep_done_ > dup_req_

\* Where the body of `if(transmit)` leaves a caller: the loop ends here after the
\* final deadline.
Transmitted(st) == IF st \in {"transmit", "send"} THEN "wait" ELSE "finish"

\* The body of `if(transmit)` up to its sends; up: get_refconn has a connection.
\* From here on the requests may reach the server, whole.
Transmit(i, up) ==
  /\ caller[i].st \in {"transmit", "transmit_last"}
  /\ LET forgot == IF up /\ Forgot THEN {dup_req_} ELSE {}
     IN  /\ dup_req_' = IF forgot = {} THEN dup_req_ ELSE 0
         /\ late' = late \union forgot
         /\ sent' = IF up THEN sent \union {caller[i].xid} \union forgot ELSE sent
  /\ caller' = [caller EXCEPT ![i].st = IF ~up THEN Transmitted(@)
                                        ELSE IF @ = "transmit" THEN "send" ELSE "send_last"]
  /\ UNCHANGED <<rep, calls_, xid_rep_window_, destroy_wait_, xid_rep_done_, canceller,
                 replies, serverVars>>

\* The thread is in connection::send, which waits, without a timeout, while the
\* peer does not take what it is sent.
InSend(i) == caller[i].st \in {"send", "send_last"}

\* send returns: the connection has taken the requests, or has failed.
Sent(i) ==
  /\ InSend(i)
  /\ caller' = [caller EXCEPT ![i].st = Transmitted(@)]
  /\ UNCHANGED <<rep, calls_, xid_rep_window_, destroy_wait_, dupVars, canceller, sent,
                 late, replies, serverVars>>

\* Mutant: the final deadline is not looked at.
TimeoutForever(i, dead, last) ==
  /\ caller[i].st = "wait" /\ ~caller[i].done
  /\ caller' = [caller EXCEPT ![i].st = IF dead THEN "transmit" ELSE "wait"]
  /\ UNCHANGED <<rep, calls_, xid_rep_window_, destroy_wait_, dupVars, canceller, sent,
                 late, replies, serverVars>>

\* The wait times out.  dead: there is no connection, or a dead one; last: the
\* wait was the one cut down to finaldeadline.
Timeout(i, dead, last) ==
  /\ caller[i].st = "wait" /\ ~caller[i].done
  /\ caller' = [caller EXCEPT ![i].st = IF dead THEN IF last THEN "transmit_last" ELSE "transmit"
                                        ELSE IF last THEN "finish" ELSE "wait"]
  /\ UNCHANGED <<rep, calls_, xid_rep_window_, destroy_wait_, dupVars, canceller, sent,
                 late, replies, serverVars>>

\* The loop is over: at the final deadline, or because ca.done was set.
LoopOver(i) == caller[i].st = "finish" \/ (caller[i].st = "wait" /\ caller[i].done)

\* Mutant: the call stays in the map.
FinishNoErase(i) ==
  /\ LoopOver(i)
  /\ calls_' = calls_
  /\ xid_rep_window_' = UpdateXidRep(xid_rep_window_, caller[i].xid)
  /\ canceller' = IF destroy_wait_ /\ canceller = "waiting" THEN "woken" ELSE canceller
  /\ caller' = [caller EXCEPT ![i] = IF caller[i].done THEN [@ EXCEPT !.st = "lossy"]
                                     ELSE Out]
  /\ UNCHANGED <<rep, destroy_wait_, dupVars, sent, late, replies, serverVars>>

\* Mutant: the waiting cancel is not signalled.
FinishSilent(i) ==
  /\ LoopOver(i)
  /\ calls_' = calls_ \ {caller[i].xid}
  /\ xid_rep_window_' = UpdateXidRep(xid_rep_window_, caller[i].xid)
  /\ canceller' = canceller
  /\ caller' = [caller EXCEPT ![i] = IF caller[i].done THEN [@ EXCEPT !.st = "lossy"]
                                     ELSE Out]
  /\ UNCHANGED <<rep, destroy_wait_, dupVars, sent, late, replies, serverVars>>

\* The section under m_ that takes the call out of the map; the signal reaches
\* the thread in cancel if it waits.
Finish(i) ==
  /\ LoopOver(i)
  /\ calls_' = calls_ \ {caller[i].xid}
  /\ xid_rep_window_' = UpdateXidRep(xid_rep_window_, caller[i].xid)
  /\ canceller' = IF destroy_wait_ /\ canceller = "waiting" THEN "woken" ELSE canceller
  /\ caller' = [caller EXCEPT ![i] = IF caller[i].done THEN [@ EXCEPT !.st = "lossy"]
                                     ELSE Out]
  /\ UNCHANGED <<rep, destroy_wait_, dupVars, sent, late, replies, serverVars>>

\* The section under m_ that a client with lossytest_ adds, and the return.
KeepRequest(i) ==
  /\ caller[i].st = "lossy"
  /\ LET x == caller[i].xid
     IN  /\ dup_req_' = IF dup_req_ = 0 THEN x ELSE dup_req_
         /\ xid_rep_done_' = IF rep[x] > xid_rep_done_ THEN rep[x] ELSE xid_rep_done_
  /\ caller' = [caller EXCEPT ![i] = Out]
  /\ UNCHANGED <<rep, calls_, xid_rep_window_, destroy_wait_, canceller, sent, late,
                 replies, serverVars>>

\* rpcc::got_pdu.
GotPdu(r) ==
  /\ r \in replies
  /\ xid_rep_window_' = UpdateXidRep(xid_rep_window_, r.xid)
  /\ caller' = [i \in Callers |->
       IF InCall(i) /\ caller[i].xid = r.xid /\ r.xid \in calls_ /\ ~caller[i].done
       THEN [caller[i] EXCEPT !.done = TRUE, !.ret = r.ret]
       ELSE caller[i]]
  /\ UNCHANGED <<rep, calls_, destroy_wait_, dupVars, canceller, sent, late, replies,
                 serverVars>>

-------------------------------------------------------------------------------
(* rpcc::cancel.                                                           *)

\* `while (calls_.size() > 0)`: wait, or leave.
WaitForCalls == IF calls_ # {} THEN destroy_wait_' = TRUE /\ canceller' = "waiting"
                ELSE UNCHANGED destroy_wait_ /\ canceller' = "out"

\* Every call in the map fails, also one whose reply has just come.
Cancel ==
  /\ canceller = "out"
  /\ caller' = [i \in Callers |->
       IF InCall(i) /\ caller[i].xid \in calls_
       THEN [caller[i] EXCEPT !.done = TRUE, !.ret = "cancel_failure"]
       ELSE caller[i]]
  /\ WaitForCalls
  /\ UNCHANGED <<rep, calls_, xid_rep_window_, dupVars, sent, late, replies, serverVars>>

\* Mutant: the wait is not repeated.
CancelResumeOnce ==
  /\ canceller = "woken"
  /\ canceller' = "out"
  /\ UNCHANGED <<rep, calls_, xid_rep_window_, destroy_wait_, dupVars, caller, sent, late,
                 replies, serverVars>>

\* pthread_cond_wait returns, with m_.
CancelResume ==
  /\ canceller = "woken"
  /\ WaitForCalls
  /\ UNCHANGED <<rep, calls_, xid_rep_window_, dupVars, caller, sent, late, replies,
                 serverVars>>

\* A wakeup nobody signalled.
SpuriousWake ==
  /\ canceller = "waiting"
  /\ canceller' = "woken"
  /\ UNCHANGED <<rep, calls_, xid_rep_window_, destroy_wait_, dupVars, caller, sent, late,
                 replies, serverVars>>

-------------------------------------------------------------------------------
(* rpcs.                                                                   *)

\* A copy of request x is checked for being a duplicate.
Serve(x) ==
  /\ x \in sent
  /\ LET v == Verdict(win, x, rep[x])
     IN  /\ win' = Update(win, x, rep[x])
         /\ running' = IF v = "NEW" THEN running \union {x} ELSE running
         /\ replies' = replies \union (IF v = "DONE" THEN {Reply(x, "ok")}
                                       ELSE IF v = "FORGOTTEN"
                                       THEN {Reply(x, "atmostonce_failure")} ELSE {})
  /\ UNCHANGED <<rep, calls_, xid_rep_window_, destroy_wait_, dupVars, caller, canceller,
                 sent, late>>

\* The handler of x returns, add_reply, and the reply is sent.
Answer(x) ==
  /\ x \in running
  /\ win' = AddReply(win, x)
  /\ running' = running \ {x}
  /\ replies' = replies \union {Reply(x, "ok")}
  /\ UNCHANGED <<rep, calls_, xid_rep_window_, destroy_wait_, dupVars, caller, canceller,
                 sent, late>>

-------------------------------------------------------------------------------
CallStep(i) == \/ \E up \in BOOLEAN : Transmit(i, up)
               \/ \E dead, last \in BOOLEAN : Timeout(i, dead, last)
               \/ Finish(i) \/ KeepRequest(i)

Next == \/ \E i \in Callers : Begin(i) \/ CallStep(i) \/ Sent(i)
        \/ Cancel \/ CancelResume \/ SpuriousWake
        \/ \E x \in Xids : Serve(x) \/ Answer(x)
        \/ \E x \in Xids, r \in Results : GotPdu(Reply(x, r))

\* The clock reaches every call's final deadline: curr_to doubles, so the loop
\* of call1 comes round finitely often before it.
FinalDeadline(i) == \E dead \in BOOLEAN : Timeout(i, dead, TRUE)

\* Threads run, a connect ends (the kernel gives up), and that is all: send need
\* not return, and nothing need arrive.
Fairness == /\ \A i \in Callers : WF_vars(CallStep(i)) /\ SF_vars(FinalDeadline(i))
            /\ WF_vars(CancelResume)

Spec == Init /\ [][Next]_vars /\ Fairness

-------------------------------------------------------------------------------
(* Properties.                                                             *)

\* Every variable stays in its domain, and the map of calls holds exactly the
\* calls of the threads between their first and their last section under m_.
TypeOK ==
  /\ rep \in Seq(0..MaxXid) /\ Len(rep) <= MaxXid
  /\ calls_ = {caller[i].xid : i \in {j \in Callers : InCall(j) /\ caller[j].st # "lossy"}}
  /\ xid_rep_window_ \in XidRepType
  /\ destroy_wait_ \in BOOLEAN
  /\ dup_req_ \in 0..Len(rep) /\ xid_rep_done_ \in 0..Len(rep)
  /\ caller \in [Callers -> {Out} \union
       [st : {"transmit", "transmit_last", "send", "send_last", "wait", "finish", "lossy"}, xid : 1..Len(rep),
        done : BOOLEAN, ret : Results]]
  /\ canceller \in {"out", "waiting", "woken"}
  /\ sent \subseteq 1..Len(rep) /\ late \subseteq sent
  /\ replies \subseteq [xid : sent, ret : Results]
  /\ win \in WindowType /\ running \subseteq sent

\* No caller is ever told that its call was forgotten: the client acknowledges
\* a call, by the front of xid_rep_window_, only when nobody waits for it.
NeverForgotten == \A i \in Callers : InCall(i) => caller[i].ret # "atmostonce_failure"

\* The server's bound is what the client acknowledged, however late the header
\* that carried it arrives, and a caller still waiting is beyond both.
AckedIsOver ==
  /\ win.bound <= xid_rep_window_.front
  /\ \A i \in Callers : InCall(i) /\ ~caller[i].done => caller[i].xid > xid_rep_window_.front

\* The kept request is sent once more only when the server has forgotten it, so
\* that it is never answered from the cache, let alone run: its bound is beyond.
\* (A cancel ends calls whose headers the server may not have seen.)
DupIsForgotten == \A x \in late : destroy_wait_ \/ x < win.bound

\* When a cancel that had calls to wait for has returned, no call is in the map
\* and none can enter it, as the destructor's VERIFY(calls_.size() == 0) needs.
CancelledIsOver == destroy_wait_ /\ canceller = "out" => calls_ = {}

\* Every call returns, whatever arrives or does not: its final deadline ends it.
\* The one exception is a call whose thread stays in send for ever, for a peer
\* that is there but takes nothing: send looks at no deadline.
CallReturns == \A i \in Callers : []<>~InSend(i) => []<>~InCall(i)

\* A cancel returns: the calls it fails end, each wakes it, and after the last it
\* does not wait again; unless one of them stays in send for ever, which cancel
\* does not end.
CancelReturns == (\A i \in Callers : []<>~InSend(i)) => []<>(canceller = "out")
==============================================================================
