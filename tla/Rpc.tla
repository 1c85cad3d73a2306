--------------------------------- MODULE Rpc ---------------------------------
(***************************************************************************)
(* A client (rpcc) whose application threads call concurrently, a server   *)
(* (rpcs) that may be restarted, and the TCP connections between them,     *)
(* which fail and take what is in flight with them (rpc.cc).               *)
(*                                                                         *)
(* A request is known by its xid: hdr records what its header says.  A     *)
(* critical section is one step; so is a send, of which connection.cc sees *)
(* to it that it ends.  The client is one that needs at-most-once (its     *)
(* nonce is not zero) and RPC_LOSSY is not set.  RpcClient has the late    *)
(* duplicate that RPC_LOSSY adds, and cancel.                              *)
(***************************************************************************)
EXTENDS ReplyWindow, XidRepWindow

CONSTANTS Callers,      \* application threads
          Workers,      \* threads of dispatchpool_
          MaxXid,       \* calls made
          MaxConn,      \* connections made; the next connect fails
          MaxRestarts   \* server restarts

ASSUME BoundsAssumption == /\ MaxXid \in Nat \ {0}
                           /\ MaxConn \in Nat
                           /\ MaxRestarts \in Nat

VARIABLES
  \* rpcc
  hdr,            \* hdr[x]: [rep, srv] of call x's header; Len(hdr) + 1 is xid_
  xid_rep_window_,
  srv_nonce_,     \* 0 until bind_done_
  chan_,          \* the current connection, 0 for NULL
  caller,         \* the call each application thread is in
  \* the wires, numbered in the order they are made
  conn,
  \* rpcs
  nonce_,
  win,            \* the client's reply window
  conns_,         \* the latest good connection to the client, 0 before any
  job,            \* what each dispatch thread is at
  \* history
  runs            \* handler executions per call, over all server instances

clientVars == <<hdr, xid_rep_window_, srv_nonce_, chan_, caller>>
serverVars == <<nonce_, win, conns_, job, runs>>
vars == <<clientVars, conn, serverVars>>

Xids == 1..MaxXid
ConnIds == 1..MaxConn
Conns == 1..Len(conn)
IsBind(x) == hdr[x].srv = 0

\* What a caller gets: the handler's result, or one of rpc_const's failures.
Results == {"ok", "atmostonce_failure", "oldsrv_failure", "timeout_failure"}

\* Mutant: a reply carries the nonce of the instance before.
ReplyStale(x, r, n) == [xid |-> x, ret |-> r, by |-> n - 1]

Reply(x, r, n) == [xid |-> x, ret |-> r, by |-> n]

Idle == [st |-> "idle"]
Out == [st |-> "out"]

Init == /\ hdr = <<>>
        /\ xid_rep_window_ = EmptyXidRep
        /\ srv_nonce_ = 0
        /\ chan_ = 0
        /\ caller = [i \in Callers |-> Out]
        /\ conn = <<>>
        /\ nonce_ = 1
        /\ win = EmptyWindow
        /\ conns_ = 0
        /\ job = [w \in Workers |-> Idle]
        /\ runs = [x \in Xids |-> 0]

-------------------------------------------------------------------------------
(* Connections.  cdead and sdead are the two ends' dead_; a wire that is   *)
(* down loses what is sent, and each end finds out when it has read what   *)
(* still arrived, or when a write fails.  req is what the server has not   *)
(* begun to dispatch: in the socket, where a failed write makes it unread  *)
(* for good, or already a job in the pool's queue, where it outlives the   *)
(* connection.                                                             *)

NewConn == [up |-> TRUE, cdead |-> FALSE, sdead |-> FALSE, req |-> <<>>, rep |-> <<>>]

\* The outcomes of the client's write of call x on k, of the server's write of r.
ClientWrites(k, x) ==
  IF k.cdead THEN {k}
  ELSE IF k.up THEN {[k EXCEPT !.req = Append(@, x)]}
  ELSE {k, [k EXCEPT !.cdead = TRUE]}

ServerWrites(k, r) ==
  IF k.sdead THEN {k}
  ELSE IF k.up THEN {[k EXCEPT !.rep = Append(@, r)]}
  ELSE {k} \union {[k EXCEPT !.sdead = TRUE, !.req = SubSeq(@, 1, n)] : n \in 0..Len(k.req)}

Broken(k, n, m) == [k EXCEPT !.up = FALSE, !.req = SubSeq(@, 1, n), !.rep = SubSeq(@, 1, m)]

\* The connection fails; a prefix of each direction's data still arrives.
Break(k) == /\ k \in Conns /\ conn[k].up
            /\ \E n \in 0..Len(conn[k].req), m \in 0..Len(conn[k].rep) :
                 conn' = [conn EXCEPT ![k] = Broken(@, n, m)]
            /\ UNCHANGED <<clientVars, serverVars>>

\* read_cb reads the end of the stream.
ClientEOF(k) == /\ k \in Conns /\ ~conn[k].up /\ ~conn[k].cdead /\ conn[k].rep = <<>>
                /\ conn' = [conn EXCEPT ![k].cdead = TRUE]
                /\ UNCHANGED <<clientVars, serverVars>>

ServerEOF(k) == /\ k \in Conns /\ ~conn[k].up /\ ~conn[k].sdead
                /\ conn' = [conn EXCEPT ![k].sdead = TRUE]
                /\ UNCHANGED <<clientVars, serverVars>>

-------------------------------------------------------------------------------
(* rpcc.                                                                   *)

InCall(i) == caller[i].st \in {"transmit", "wait", "finish"}

\* call1 up to its first transmission.  Before bind is done the only call is
\* bind, made by the thread that creates the client.
Begin(i) ==
  /\ ~InCall(i)
  /\ Len(hdr) < MaxXid
  /\ srv_nonce_ = 0 => \A j \in Callers : ~InCall(j)
  /\ hdr' = Append(hdr, [rep |-> xid_rep_window_.front, srv |-> srv_nonce_])
  /\ caller' = [caller EXCEPT ![i] =
                  [st |-> "transmit", xid |-> Len(hdr) + 1, ch |-> 0,
                   final |-> FALSE, done |-> FALSE, ret |-> "timeout_failure", by |-> 0]]
  /\ UNCHANGED <<xid_rep_window_, srv_nonce_, chan_, conn, serverVars>>

\* get_refconn: chan_ and the connections after it; a dead chan_ is replaced.
GetRefConn ==
  IF chan_ # 0 /\ ~conn[chan_].cdead THEN [chan |-> chan_, conn |-> conn]
  ELSE IF Len(conn) < MaxConn
  THEN [chan |-> Len(conn) + 1, conn |-> Append(conn, NewConn)]
  ELSE [chan |-> 0, conn |-> conn]

\* The body of `if(transmit)`: get_refconn and the send; ch keeps its old value
\* when the connect fails.  fin: nextdeadline has been cut down to finaldeadline.
Transmit(i, fin) ==
  /\ caller[i].st = "transmit"
  /\ LET g  == GetRefConn
         ch == IF g.chan = 0 THEN caller[i].ch ELSE g.chan
     IN  /\ chan_' = g.chan
         /\ IF ch = 0 THEN conn' = g.conn
            ELSE \E k \in ClientWrites(g.conn[ch], caller[i].xid) :
                   conn' = [g.conn EXCEPT ![ch] = k]
         /\ caller' = [caller EXCEPT ![i].ch = ch,
                                     ![i].st = IF caller[i].final
                                               THEN "finish" ELSE "wait",
                                     ![i].final = caller[i].final \/ fin]
  /\ UNCHANGED <<hdr, xid_rep_window_, srv_nonce_, serverVars>>

\* pthread_cond_timedwait times out: transmit again if the connection is dead,
\* give up after the final deadline, else wait on.
Timeout(i, fin) ==
  /\ caller[i].st = "wait" /\ ~caller[i].done
  /\ LET dead == caller[i].ch = 0 \/ conn[caller[i].ch].cdead
     IN  caller' = [caller EXCEPT
           ![i].st = IF dead THEN "transmit"
                     ELSE IF caller[i].final THEN "finish" ELSE "wait",
           ![i].final = caller[i].final \/ (~dead /\ fin)]
  /\ UNCHANGED <<hdr, xid_rep_window_, srv_nonce_, chan_, conn, serverVars>>

\* The wait ends because ca.done was set.
GotReply(i) ==
  /\ caller[i].st = "wait" /\ caller[i].done
  /\ caller' = [caller EXCEPT ![i].st = "finish"]
  /\ UNCHANGED <<hdr, xid_rep_window_, srv_nonce_, chan_, conn, serverVars>>

\* The end of call1, and bind's use of the result.
Finish(i) ==
  /\ caller[i].st = "finish"
  /\ xid_rep_window_' = UpdateXidRep(xid_rep_window_, caller[i].xid)
  /\ caller' = [caller EXCEPT ![i].st = "returned", ![i].ch = 0, ![i].final = FALSE]
  /\ srv_nonce_' = IF IsBind(caller[i].xid) /\ caller[i].ret = "ok"
                   THEN caller[i].by ELSE srv_nonce_
  /\ UNCHANGED <<hdr, chan_, conn, serverVars>>

\* Mutant: a reply is taken by whoever waits.
ClientRecvAny(k) ==
  /\ k \in Conns /\ ~conn[k].cdead /\ conn[k].rep # <<>>
  /\ LET r == Head(conn[k].rep)
     IN  /\ xid_rep_window_' = UpdateXidRep(xid_rep_window_, r.xid)
         /\ caller' = [i \in Callers |->
              IF InCall(i) /\ ~caller[i].done
              THEN [caller[i] EXCEPT !.done = TRUE, !.ret = r.ret, !.by = r.by]
              ELSE caller[i]]
  /\ conn' = [conn EXCEPT ![k].rep = Tail(@)]
  /\ UNCHANGED <<hdr, srv_nonce_, chan_, serverVars>>

\* rpcc::got_pdu.
ClientRecv(k) ==
  /\ k \in Conns /\ ~conn[k].cdead /\ conn[k].rep # <<>>
  /\ LET r == Head(conn[k].rep)
     IN  /\ xid_rep_window_' = UpdateXidRep(xid_rep_window_, r.xid)
         /\ caller' = [i \in Callers |->
              IF InCall(i) /\ caller[i].xid = r.xid /\ ~caller[i].done
              THEN [caller[i] EXCEPT !.done = TRUE, !.ret = r.ret, !.by = r.by]
              ELSE caller[i]]
  /\ conn' = [conn EXCEPT ![k].rep = Tail(@)]
  /\ UNCHANGED <<hdr, srv_nonce_, chan_, serverVars>>

-------------------------------------------------------------------------------
(* rpcs.                                                                   *)

At(w, stage) == job[w].st = stage
GoTo(w, stage) == job' = [job EXCEPT ![w].st = stage]
Done(w) == job' = [job EXCEPT ![w] = Idle]

\* Mutant: requests for another instance are served.
ArriveAnyServer(w, k) ==
  /\ At(w, "idle")
  /\ k \in Conns /\ conn[k].req # <<>>
  /\ conn' = [conn EXCEPT ![k].req = Tail(@)]
  /\ conns_' = IF conns_ < k THEN k ELSE conns_
  /\ job' = [job EXCEPT ![w] = [st |-> "arrived", xid |-> Head(conn[k].req), ch |-> k]]
  /\ UNCHANGED <<clientVars, nonce_, win, runs>>

\* got_pdu and dispatch up to the duplicate check: a request for another server
\* instance is refused, otherwise the newest connection is noted.
Arrive(w, k) ==
  /\ At(w, "idle")
  /\ k \in Conns /\ conn[k].req # <<>>
  /\ LET x == Head(conn[k].req)
         c == [conn[k] EXCEPT !.req = Tail(@)]
     IN  IF hdr[x].srv \notin {0, nonce_}
         THEN /\ \E c2 \in ServerWrites(c, Reply(x, "oldsrv_failure", nonce_)) :
                   conn' = [conn EXCEPT ![k] = c2]
              /\ UNCHANGED <<conns_, job>>
         ELSE /\ conn' = [conn EXCEPT ![k] = c]
              /\ conns_' = IF conns_ < k THEN k ELSE conns_
              /\ job' = [job EXCEPT ![w] = [st |-> "arrived", xid |-> x, ch |-> k]]
  /\ UNCHANGED <<clientVars, nonce_, win, runs>>

\* Mutant: a forgotten request is executed again.
CheckRunsForgotten(w) ==
  /\ At(w, "arrived")
  /\ LET x == job[w].xid
         v == Verdict(win, x, hdr[x].rep)
     IN  /\ win' = Update(win, x, hdr[x].rep)
         /\ \/ v \in {"NEW", "FORGOTTEN"} /\ GoTo(w, "run")
            \/ v = "DONE" /\ GoTo(w, "resend")
            \/ v = "INPROGRESS" /\ Done(w)
  /\ UNCHANGED <<clientVars, conn, nonce_, conns_, runs>>

\* checkduplicate_and_update and the switch on what it returns.
Check(w) ==
  /\ At(w, "arrived")
  /\ LET x == job[w].xid
         v == Verdict(win, x, hdr[x].rep)
     IN  /\ win' = Update(win, x, hdr[x].rep)
         /\ \/ v = "NEW" /\ GoTo(w, "run")
            \/ v = "DONE" /\ GoTo(w, "resend")
            \/ v = "FORGOTTEN" /\ GoTo(w, "forgotten")
            \/ v = "INPROGRESS" /\ Done(w)
  /\ UNCHANGED <<clientVars, conn, nonce_, conns_, runs>>

Run(w) == /\ At(w, "run")
          /\ runs' = [runs EXCEPT ![job[w].xid] = @ + 1]
          /\ GoTo(w, "ran")
          /\ UNCHANGED <<clientVars, conn, nonce_, win, conns_>>

Save(w) == /\ At(w, "ran")
           /\ win' = AddReply(win, job[w].xid)
           /\ GoTo(w, "send")
           /\ UNCHANGED <<clientVars, conn, nonce_, conns_, runs>>

Answer(w) == Reply(job[w].xid,
                   IF At(w, "forgotten") THEN "atmostonce_failure" ELSE "ok", nonce_)

\* The latest connection takes over from a dead one for a new reply only; a
\* saved reply and a refusal go back where the request came from.
Via(w) == IF At(w, "send") /\ conn[job[w].ch].sdead THEN conns_ ELSE job[w].ch

Send(w) == /\ job[w].st \in {"send", "resend", "forgotten"}
           /\ \E c \in ServerWrites(conn[Via(w)], Answer(w)) :
                conn' = [conn EXCEPT ![Via(w)] = c]
           /\ Done(w)
           /\ UNCHANGED <<clientVars, nonce_, win, conns_, runs>>

\* The server process ends and a new one starts: nothing was saved, and all
\* connections fail.  The replies in flight arrive or not (a part of them, after
\* a Break).
Restart ==
  /\ nonce_ <= MaxRestarts
  /\ nonce_' = nonce_ + 1
  /\ win' = EmptyWindow
  /\ conns_' = 0
  /\ job' = [w \in Workers |-> Idle]
  /\ \E f \in [Conns -> BOOLEAN] :
       conn' = [k \in Conns |->
                  [Broken(conn[k], 0, IF f[k] THEN Len(conn[k].rep) ELSE 0)
                     EXCEPT !.sdead = TRUE]]
  /\ UNCHANGED <<clientVars, runs>>

-------------------------------------------------------------------------------
CallStep(i) == \/ \E fin \in BOOLEAN : Transmit(i, fin) \/ Timeout(i, fin)
               \/ GotReply(i) \/ Finish(i)
ServerStep(w) == Check(w) \/ Run(w) \/ Save(w) \/ Send(w)

Next == \/ \E i \in Callers : Begin(i) \/ CallStep(i)
        \/ \E k \in ConnIds : Break(k) \/ ClientEOF(k) \/ ServerEOF(k) \/ ClientRecv(k)
        \/ \E w \in Workers, k \in ConnIds : Arrive(w, k)
        \/ \E w \in Workers : ServerStep(w)
        \/ Restart

Spec == Init /\ [][Next]_vars

(* The same system with calls that never come to their final deadline, on  *)
(* a network whose MaxConn-th connection does not fail.                    *)

PatientCallStep(i) == Transmit(i, FALSE) \/ Timeout(i, FALSE) \/ GotReply(i) \/ Finish(i)

PatientNext ==
  \/ \E i \in Callers : Begin(i) \/ PatientCallStep(i)
  \/ \E k \in ConnIds : k < MaxConn /\ Break(k)
  \/ \E k \in ConnIds : ClientEOF(k) \/ ServerEOF(k) \/ ClientRecv(k)
  \/ \E w \in Workers, k \in ConnIds : Arrive(w, k)
  \/ \E w \in Workers : ServerStep(w)

PatientFairness ==
  /\ \A i \in Callers : WF_vars(PatientCallStep(i))
  /\ \A w \in Workers : WF_vars(ServerStep(w))
  /\ \A k \in ConnIds : /\ WF_vars(ClientEOF(k) \/ ClientRecv(k))
                         /\ WF_vars(ServerEOF(k))
                         /\ WF_vars(\E w \in Workers : Arrive(w, k))

PatientSpec == Init /\ [][PatientNext]_vars /\ PatientFairness

-------------------------------------------------------------------------------
(* Properties.                                                             *)

\* Every variable stays in its domain; in particular no connection, server
\* instance or xid is named before it exists.
TypeOK ==
  /\ hdr \in Seq([rep : Nat, srv : Nat])
  /\ xid_rep_window_ \in XidRepType
  /\ srv_nonce_ \in 0..nonce_
  /\ chan_ \in 0..Len(conn)
  /\ caller \in [Callers -> {Out} \union
       [st : {"transmit", "wait", "finish", "returned"}, xid : Xids, ch : 0..Len(conn),
        final : BOOLEAN, done : BOOLEAN, ret : Results, by : 0..nonce_]]
  /\ conn \in Seq([up : BOOLEAN, cdead : BOOLEAN, sdead : BOOLEAN, req : Seq(Xids),
                   rep : Seq([xid : Xids, ret : Results, by : 1..nonce_])])
  /\ nonce_ \in 1..MaxRestarts + 1
  /\ win \in WindowType
  /\ conns_ \in 0..Len(conn)
  /\ job \in [Workers -> {Idle} \union
       [st : {"arrived", "run", "ran", "send", "resend", "forgotten"},
        xid : Xids, ch : Conns]]
  /\ runs \in [Xids -> Nat]

\* A call's handler runs at most once, retransmissions on new connections and
\* server restarts included: a call is bound to one server instance, and that
\* instance remembers it for as long as the client may send it again.
AtMostOnce == \A x \in 1..Len(hdr) : ~IsBind(x) => runs[x] <= 1

\* A caller that is told its call succeeded can rely on it: the handler ran, in
\* the server instance that the client is bound to.
SuccessIsGenuine == \A i \in Callers :
  caller[i].st # "out" /\ caller[i].done /\ caller[i].ret = "ok" =>
    /\ runs[caller[i].xid] >= 1
    /\ ~IsBind(caller[i].xid) => caller[i].by = hdr[caller[i].xid].srv

\* The server's part, with this client as its environment, is RpcServer.
Server == INSTANCE RpcServer
  WITH Clts <- {"clt"},
       sent <- [c \in {"clt"} |-> [x \in 1..Len(hdr) |-> hdr[x].rep]],
       win <- [c \in {"clt"} |-> win],
       job <- [w \in Workers |->
                 IF At(w, "idle") THEN Idle
                 ELSE [st |-> IF At(w, "resend") THEN "send" ELSE job[w].st,
                       clt |-> "clt", xid |-> job[w].xid, rep |-> hdr[job[w].xid].rep]],
       runs <- [c \in {"clt"} |-> runs]

\* What the server does for this client between two restarts, with its replies
\* on connections that fail, is what RpcServer allows: no thread, connection or
\* retransmission takes a request through dispatch in another way.
ImplementsRpcServer == Server!Init /\ [][nonce_' # nonce_ \/ Server!Next]_(Server!vars)

\* A reply's buffer stays allocated until connection::send, which reads it, has
\* returned.
BufferLive == \A w \in Workers :
  job[w].st \in {"send", "resend"} => job[w].xid \in Saved(win)

\* A call on a network that in the end works is answered.
CallAnswered == \A i \in Callers : InCall(i) ~> ~InCall(i)
===============================================================================
