------------------------------- MODULE RpcProof -------------------------------
(***************************************************************************)
(* Proofs about Rpc, for any number of calling and dispatch threads, calls,*)
(* connections and server restarts: at-most-once from end to end, what a   *)
(* caller can conclude from success, and that the server's part of the     *)
(* system implements RpcServer.                                            *)
(***************************************************************************)
EXTENDS Rpc, ReplyWindowProof

Known == 1..Len(hdr)
Acked == xid_rep_window_.front

\* What an "ok" from instance b says of call x.
Genuine(x, b) == runs[x] >= 1 /\ (~IsBind(x) => b = hdr[x].srv)

\* The replies that may be under way, the wires they are under way on, the calls
\* that may have taken one, and the requests a dispatch thread may be at.
Answers == {r \in [xid : Known, ret : Results, by : 1..nonce_] :
              /\ r.ret = "ok" => Genuine(r.xid, r.by)
              /\ r.ret = "atmostonce_failure" => r.xid <= Acked}

Wires == [up : BOOLEAN, cdead : BOOLEAN, sdead : BOOLEAN, req : Seq(Known), rep : Seq(Answers)]

Calls == {c \in [st : {"transmit", "wait", "finish", "returned"}, xid : Known, ch : 0..Len(conn),
                 final : BOOLEAN, done : BOOLEAN, ret : Results, by : 0..nonce_] :
            /\ c.done /\ c.ret = "ok" => Genuine(c.xid, c.by)
            /\ c.done => c.ret # "atmostonce_failure"}

Stages == {"arrived", "run", "ran", "send", "resend", "forgotten"}

Requests == {j \in [st : Stages, xid : Known, ch : 1..conns_] :
               /\ hdr[j.xid].srv \in {0, nonce_}
               /\ j.st \in {"ran", "send", "resend"} => runs[j.xid] >= 1
               /\ j.st = "forgotten" => j.xid <= Acked}

\* A header's xid_rep is one the window's front has reached, its server instance
\* one there has been.
ClientInv ==
  /\ hdr \in Seq([rep : Nat, srv : Nat]) /\ Len(hdr) <= MaxXid
  /\ xid_rep_window_ \in XidRepType
  /\ xid_rep_window_.front <= Len(hdr) /\ xid_rep_window_.above \subseteq Known
  /\ \A x \in Known : hdr[x].rep <= xid_rep_window_.front /\ hdr[x].srv <= nonce_
  /\ srv_nonce_ \in 0..nonce_

CallersInv == caller \in [Callers -> {Out} \union Calls]

\* A call that has no reply is not reported, and nobody else can report it.
Waiting(i) == InCall(i) /\ ~caller[i].done

WaitersInv ==
  /\ \A i \in Callers : Waiting(i) =>
       caller[i].xid > Acked /\ caller[i].xid \notin xid_rep_window_.above
  /\ \A i, j \in Callers : InCall(i) /\ InCall(j) /\ caller[i].xid = caller[j].xid => i = j

WiresInv == conn \in Seq(Wires) /\ chan_ \in 0..Len(conn)

\* No call is started that the instance does not remember; the two threads of two
\* copies are never both between the duplicate check and add_reply.
Seen(x) == x \in win.set \/ x < win.bound
Busy(w) == job[w].st \in {"run", "ran"}
Current(x) == hdr[x].srv = nonce_

JobsInv == /\ nonce_ \in 1..MaxRestarts + 1
           /\ conns_ \in 0..Len(conn)
           /\ job \in [Workers -> {Idle} \union Requests]

RunsInv == /\ runs \in [Xids -> Nat]
           /\ \A x \in Xids \ Known : runs[x] = 0
           /\ \A x \in Known : Current(x) /\ runs[x] > 0 => Seen(x)

WindowInv == /\ win \in WindowType /\ Increasing(win.list)
             /\ \A x \in Saved(win) : x \in Known /\ runs[x] >= 1

WorkInv == \A w \in Workers : Busy(w) =>
             /\ Seen(job[w].xid) /\ job[w].xid \notin Saved(win)
             /\ At(w, "run") /\ Current(job[w].xid) => runs[job[w].xid] = 0

OneWorker == \A v, w \in Workers : Busy(v) /\ Busy(w) /\ job[v].xid = job[w].xid => v = w

\* The server's idea of what is acknowledged is behind the client's.
BehindClient == win.bound <= Acked

IInv == /\ ClientInv /\ CallersInv /\ WaitersInv /\ WiresInv /\ BehindClient
        /\ JobsInv /\ RunsInv /\ WindowInv /\ WorkInv /\ OneWorker
        /\ AtMostOnce

-------------------------------------------------------------------------------
(* Sequences.                                                              *)

LEMMA SeqOf ==
  ASSUME NEW S, NEW s \in Seq(S)
  PROVE  /\ Len(s) \in Nat /\ \A i \in 1..Len(s) : s[i] \in S
         /\ \A e \in S : Append(s, e) \in Seq(S) /\ Len(Append(s, e)) = Len(s) + 1
         /\ \A n \in 0..Len(s) : SubSeq(s, 1, n) \in Seq(S)
         /\ s # <<>> => Head(s) \in S /\ Tail(s) \in Seq(S)
         /\ \A i \in 1..Len(s), e \in S : /\ [s EXCEPT ![i] = e] \in Seq(S)
                                          /\ Len([s EXCEPT ![i] = e]) = Len(s)
<1>1. \A n \in 0..Len(s) : SubSeq(s, 1, n) \in Seq(S)
  OBVIOUS
<1>2. \A i \in 1..Len(s), e \in S : /\ [s EXCEPT ![i] = e] \in Seq(S)
                                    /\ Len([s EXCEPT ![i] = e]) = Len(s)
  OBVIOUS
<1>3. s # <<>> => Head(s) \in S /\ Tail(s) \in Seq(S)
  OBVIOUS
<1> QED BY <1>1, <1>2, <1>3

LEMMA SeqMono ==
  ASSUME NEW S, NEW T, S \subseteq T, NEW s \in Seq(S)
  PROVE  s \in Seq(T)
<1>1. s = [i \in 1..Len(s) |-> s[i]] /\ Len(s) \in Nat
  OBVIOUS
<1>2. \A i \in 1..Len(s) : s[i] \in T
  OBVIOUS
<1> QED BY <1>1, <1>2

-------------------------------------------------------------------------------
(* What is known stays known.                                              *)

\* Calls, connections, server instances and executions only become more.
Grows == /\ Acked <= Acked' /\ Acked' \in Nat
         /\ hdr' \in Seq([rep : Nat, srv : Nat]) /\ Len(hdr) <= Len(hdr')
         /\ \A x \in Known : hdr'[x] = hdr[x]
         /\ Len(conn) <= Len(conn') /\ Len(conn') \in Nat
         /\ nonce_ <= nonce_' /\ nonce_' \in Nat
         /\ conns_' \in Nat /\ (nonce_' = nonce_ => conns_ <= conns_')
         /\ \A x \in Known : runs[x] <= runs'[x] /\ runs'[x] \in Nat

\* The numbers the steps compute with.
LEMMA Numbers ==
  ASSUME IInv
  PROVE  /\ Len(hdr) \in Nat /\ MaxXid \in Nat /\ Len(hdr) <= MaxXid /\ Len(conn) \in Nat
         /\ nonce_ \in Nat /\ nonce_ > 0 /\ conns_ \in Nat /\ conns_ <= Len(conn)
         /\ xid_rep_window_.front \in Nat /\ Acked \in Nat /\ MaxRestarts \in Nat
         /\ Known \subseteq Nat /\ Known \subseteq Xids
         /\ \A x \in Known : /\ hdr[x] \in [rep : Nat, srv : Nat]
                             /\ hdr[x].rep \in Nat /\ hdr[x].srv \in Nat
                             /\ runs[x] \in Nat
<1>1. Len(hdr) \in Nat /\ \A x \in Known : hdr[x] \in [rep : Nat, srv : Nat]
  BY SeqOf DEF IInv, ClientInv, Known
<1>2. MaxXid \in Nat /\ MaxRestarts \in Nat
  BY BoundsAssumption
<1>3. Len(conn) \in Nat
  BY DEF IInv, WiresInv
<1>4. Known \subseteq Nat /\ Known \subseteq Xids
  BY <1>1, <1>2 DEF IInv, ClientInv, Known, Xids
<1> QED BY <1>1, <1>2, <1>3, <1>4 DEF IInv, ClientInv, JobsInv, RunsInv, XidRepType, Acked

LEMMA StillGenuine ==
  ASSUME IInv, Grows, NEW x \in Known, NEW b, Genuine(x, b)
  PROVE  Genuine(x, b)'
<1>1. runs[x] \in Nat /\ runs'[x] \in Nat /\ runs[x] <= runs'[x] /\ hdr'[x] = hdr[x]
  BY Numbers DEF Grows
<1> QED BY <1>1 DEF Genuine, IsBind

LEMMA StillKnown ==
  ASSUME IInv, Grows
  PROVE  /\ Known \subseteq Known' /\ Answers \subseteq Answers' /\ Wires \subseteq Wires'
         /\ Calls \subseteq Calls'
         /\ nonce_' = nonce_ => Requests \subseteq Requests'
<1>1. Known \subseteq Known'
  BY Numbers DEF Grows, Known
<1>2. 1..nonce_ \subseteq 1..nonce_' /\ 0..nonce_ \subseteq 0..nonce_'
  BY Numbers DEF Grows
<1>3. 0..Len(conn) \subseteq 0..Len(conn')
  BY Numbers DEF Grows
<1>4. Answers \subseteq Answers'
  <2> SUFFICES ASSUME NEW r \in Answers PROVE r \in Answers'
    OBVIOUS
  <2>1. /\ r \in [xid : Known, ret : Results, by : 1..nonce_] /\ (r.ret = "ok" => Genuine(r.xid, r.by))
        /\ r.ret = "atmostonce_failure" => r.xid <= Acked
    BY DEF Answers
  <2>2. r \in [xid : Known', ret : Results, by : 1..nonce_']
    BY <1>1, <1>2, <2>1
  <2>3. r.ret = "ok" => Genuine(r.xid, r.by)'
    BY <2>1, StillGenuine
  <2>4. r.ret = "atmostonce_failure" => r.xid <= Acked'
    BY <2>1, Numbers DEF Grows
  <2> QED BY <2>2, <2>3, <2>4 DEF Answers, Results
<1>5. Wires \subseteq Wires'
  <2> SUFFICES ASSUME NEW k \in Wires PROVE k \in Wires'
    OBVIOUS
  <2>1. k.req \in Seq(Known') /\ k.rep \in Seq(Answers')
    BY <1>1, <1>4, SeqMono DEF Wires
  <2> QED BY <2>1 DEF Wires
<1>6. Calls \subseteq Calls'
  <2> SUFFICES ASSUME NEW c \in Calls PROVE c \in Calls'
    OBVIOUS
  <2>1. /\ c \in [st : {"transmit", "wait", "finish", "returned"}, xid : Known,
                  ch : 0..Len(conn), final : BOOLEAN, done : BOOLEAN, ret : Results, by : 0..nonce_]
        /\ c.done /\ c.ret = "ok" => Genuine(c.xid, c.by)
        /\ c.done => c.ret # "atmostonce_failure"
    BY DEF Calls
  <2>2. c \in [st : {"transmit", "wait", "finish", "returned"}, xid : Known',
               ch : 0..Len(conn'), final : BOOLEAN, done : BOOLEAN, ret : Results, by : 0..nonce_']
    BY <1>1, <1>2, <1>3, <2>1
  <2>3. c.done /\ c.ret = "ok" => Genuine(c.xid, c.by)'
    BY <2>1, StillGenuine
  <2> QED BY <2>1, <2>2, <2>3 DEF Calls, Results
<1>7. ASSUME nonce_' = nonce_ PROVE Requests \subseteq Requests'
  <2> SUFFICES ASSUME NEW j \in Requests PROVE j \in Requests'
    OBVIOUS
  <2>1. /\ j \in [st : Stages, xid : Known, ch : 1..conns_] /\ hdr[j.xid].srv \in {0, nonce_}
        /\ j.st \in {"ran", "send", "resend"} => runs[j.xid] >= 1
        /\ j.st = "forgotten" => j.xid <= Acked
    BY DEF Requests
  <2>2. 1..conns_ \subseteq 1..conns_'
    <3>1. conns_ \in Nat /\ conns_' \in Nat /\ conns_ <= conns_'
      BY <1>7, Numbers DEF Grows
    <3> QED BY <3>1
  <2>3. j \in [st : Stages, xid : Known', ch : 1..conns_']
    BY <1>1, <2>1, <2>2
  <2>4. j.xid \in Known /\ hdr'[j.xid] = hdr[j.xid]
        /\ runs[j.xid] \in Nat /\ runs'[j.xid] \in Nat /\ runs[j.xid] <= runs'[j.xid]
    BY <2>1, Numbers DEF Grows
  <2>5. j.st \in {"ran", "send", "resend"} => runs'[j.xid] >= 1
    BY <2>1, <2>4
  <2>6. j.st = "forgotten" => j.xid <= Acked'
    BY <2>1, <2>4, Numbers DEF Grows
  <2> QED BY <1>7, <2>1, <2>3, <2>4, <2>5, <2>6 DEF Requests
<1> QED BY <1>1, <1>4, <1>5, <1>6, <1>7

\* A part of the state that a step leaves alone keeps its invariant.
LEMMA Kept ==
  ASSUME IInv, Grows
  PROVE  /\ caller' = caller => CallersInv'
         /\ UNCHANGED <<conn, chan_>> => WiresInv'
         /\ UNCHANGED <<hdr, xid_rep_window_, srv_nonce_>> => ClientInv'
         /\ UNCHANGED <<nonce_, conns_, job>> => JobsInv'
         /\ UNCHANGED <<caller, xid_rep_window_>> => WaitersInv'
         /\ win' = win => BehindClient'
<1>1. Calls \subseteq Calls' /\ Wires \subseteq Wires'
      /\ (nonce_' = nonce_ => Requests \subseteq Requests')
  BY StillKnown
<1>2. ASSUME caller' = caller PROVE CallersInv'
  BY <1>1, <1>2 DEF IInv, CallersInv
<1>3. ASSUME UNCHANGED <<conn, chan_>> PROVE WiresInv'
  BY <1>1, <1>3, SeqMono DEF IInv, WiresInv
<1>4. ASSUME UNCHANGED <<hdr, xid_rep_window_, srv_nonce_>> PROVE ClientInv'
  <2>1. Known' = Known
    BY <1>4 DEF Known
  <2>2. nonce_ \in Nat /\ nonce_' \in Nat /\ nonce_ <= nonce_'
    BY Numbers DEF Grows
  <2>3. \A x \in Known : hdr[x].rep <= xid_rep_window_.front /\ hdr[x].srv <= nonce_'
    BY <2>2, Numbers DEF IInv, ClientInv
  <2>4. srv_nonce_ \in 0..nonce_'
    BY <2>2 DEF IInv, ClientInv
  <2> QED BY <1>4, <2>1, <2>3, <2>4 DEF IInv, ClientInv
<1>5. ASSUME UNCHANGED <<nonce_, conns_, job>> PROVE JobsInv'
  <2>1. conns_ \in 0..Len(conn')
    BY Numbers DEF Grows
  <2> QED BY <1>1, <1>5, <2>1 DEF IInv, JobsInv
<1>6. ASSUME UNCHANGED <<caller, xid_rep_window_>> PROVE WaitersInv'
  BY <1>6 DEF IInv, WaitersInv, Waiting, InCall, Acked
<1>7. ASSUME win' = win PROVE BehindClient'
  <2>1. win.bound \in Int /\ win.bound <= Acked
    BY DEF IInv, WindowInv, WindowType, NoBound, BehindClient
  <2>2. Acked \in Nat /\ Acked' \in Nat /\ Acked <= Acked'
    BY Numbers DEF Grows
  <2> QED BY <1>7, <2>1, <2>2 DEF BehindClient
<1> QED BY <1>2, <1>3, <1>4, <1>5, <1>6, <1>7

\* The record of one thread's call changes.
LEMMA OneCaller ==
  ASSUME IInv, Grows, NEW i \in Callers, NEW c \in Calls', caller' = [caller EXCEPT ![i] = c]
  PROVE  CallersInv'
<1>1. Calls \subseteq Calls'
  BY StillKnown
<1> QED BY <1>1 DEF IInv, CallersInv

\* Calls go on or end, and no window changes.
LEMMA WaitersKept ==
  ASSUME IInv, xid_rep_window_' = xid_rep_window_,
         \A i \in Callers : InCall(i)' =>
           /\ InCall(i) /\ caller'[i].xid = caller[i].xid
           /\ caller[i].done => caller'[i].done
  PROVE  WaitersInv'
BY DEF IInv, WaitersInv, Waiting, Acked

\* The window learns of one call.
LEMMA Reported ==
  ASSUME IInv, NEW x \in Known, xid_rep_window_' = UpdateXidRep(xid_rep_window_, x)
  PROVE  /\ xid_rep_window_' \in XidRepType /\ Acked' <= Len(hdr) /\ Acked' \in Nat
         /\ xid_rep_window_'.above \subseteq 1..Len(hdr) /\ Acked <= Acked'
         /\ \A y \in Known : y > Acked /\ y \notin xid_rep_window_.above /\ y # x =>
                              y > Acked' /\ y \notin xid_rep_window_'.above
<1>1. /\ xid_rep_window_ \in XidRepType /\ Acked <= Len(hdr)
      /\ xid_rep_window_.above \subseteq 1..Len(hdr) /\ x \in 1..Len(hdr) /\ Len(hdr) \in Nat
  BY Numbers DEF IInv, ClientInv, Known, Acked
<1>2. /\ xid_rep_window_' \in XidRepType /\ Acked' <= Len(hdr)
      /\ xid_rep_window_'.above \subseteq 1..Len(hdr) /\ Acked <= Acked'
      /\ \A y \in Nat : y <= Acked' => y <= Acked \/ y \in xid_rep_window_.above \union {x}
      /\ xid_rep_window_'.above \subseteq xid_rep_window_.above \union {x}
  BY <1>1, UpdateXidRepIs DEF Acked
<1>3. Acked' \in Nat
  BY <1>2 DEF XidRepType, Acked
<1>4. ASSUME NEW y \in Known, y > Acked, y \notin xid_rep_window_.above, y # x
      PROVE  y > Acked' /\ y \notin xid_rep_window_'.above
  <2>1. y \in Nat /\ Acked \in Nat
    BY Numbers
  <2>2. ~(y <= Acked')
    BY <1>2, <1>4, <2>1
  <2> QED BY <1>2, <1>3, <1>4, <2>1, <2>2
<1> QED BY <1>2, <1>3, <1>4

\* The call that is reported has its reply or ends.
LEMMA ReportedWaiters ==
  ASSUME IInv, NEW x \in Known, xid_rep_window_' = UpdateXidRep(xid_rep_window_, x),
         \A i \in Callers : InCall(i)' =>
           /\ InCall(i) /\ caller'[i].xid = caller[i].xid
           /\ caller[i].done => caller'[i].done
           /\ caller[i].xid = x => caller'[i].done
  PROVE  WaitersInv'
<1>1. ASSUME NEW i \in Callers, Waiting(i)'
      PROVE  caller'[i].xid > Acked' /\ caller'[i].xid \notin xid_rep_window_'.above
  <2>1. InCall(i) /\ caller'[i].xid = caller[i].xid /\ ~caller[i].done /\ caller[i].xid # x
    BY <1>1 DEF Waiting
  <2>2. caller[i].xid > Acked /\ caller[i].xid \notin xid_rep_window_.above
    BY <2>1 DEF IInv, WaitersInv, Waiting
  <2>3. caller[i].xid \in Known
    BY <2>1 DEF IInv, CallersInv, Calls, Out, InCall
  <2> QED BY <2>1, <2>2, <2>3, Reported
<1>2. \A i, j \in Callers :
        InCall(i)' /\ InCall(j)' /\ caller'[i].xid = caller'[j].xid => i = j
  BY DEF IInv, WaitersInv
<1> QED BY <1>1, <1>2 DEF WaitersInv

\* One wire changes, or none.
LEMMA OneWire ==
  ASSUME IInv, Grows, NEW k \in Conns, NEW c \in Wires', conn' = [conn EXCEPT ![k] = c]
  PROVE  conn' \in Seq(Wires') /\ Len(conn') = Len(conn)
<1>1. conn \in Seq(Wires')
  BY StillKnown, SeqMono DEF IInv, WiresInv
<1> QED BY <1>1, SeqOf DEF Conns

\* A step that starts no handler and does not touch the window.
LEMMA QuietServer ==
  ASSUME IInv, Grows, JobsInv', Len(hdr') <= MaxXid, UNCHANGED <<nonce_, win, runs>>,
         \A v \in Workers : job'[v] = job[v] \/ (~Busy(v) /\ ~Busy(v)')
  PROVE  RunsInv' /\ WindowInv' /\ WorkInv' /\ OneWorker' /\ AtMostOnce'
<1>1. \A v \in Workers : Busy(v)' => Busy(v) /\ job'[v] = job[v]
  BY DEF Busy
<1>2. Known \subseteq Known' /\ Known' \subseteq Xids
  <2>1. Len(hdr) \in Nat /\ Len(hdr') \in Nat /\ MaxXid \in Nat
    BY Numbers, SeqOf DEF Grows
  <2> QED BY <2>1 DEF Grows, Known, Xids
<1>3. \A x \in Known : hdr'[x] = hdr[x]
  BY DEF Grows
<1>4. \A x \in Known' \ Known : runs[x] = 0
  BY <1>2 DEF IInv, RunsInv
<1>5. \A x : Seen(x)' <=> Seen(x)
  BY DEF Seen
<1>6. RunsInv'
  <2>1. \A x \in Xids \ Known' : runs[x] = 0
    BY <1>2 DEF IInv, RunsInv
  <2>2. \A x \in Known' : Current(x)' /\ runs[x] > 0 => Seen(x)
    <3> SUFFICES ASSUME NEW x \in Known', Current(x)', runs[x] > 0 PROVE Seen(x)
      OBVIOUS
    <3>1. x \in Known
      BY <1>4
    <3>2. Current(x)
      BY <1>3, <3>1 DEF Current
    <3> QED BY <3>1, <3>2 DEF IInv, RunsInv
  <2> QED BY <1>5, <2>1, <2>2 DEF IInv, RunsInv
<1>7. WindowInv'
  BY <1>2 DEF IInv, WindowInv
<1>8. WorkInv'
  <2> SUFFICES ASSUME NEW w \in Workers, Busy(w)'
               PROVE  /\ Seen(job'[w].xid) /\ job'[w].xid \notin Saved(win)
                      /\ job'[w].st = "run" /\ hdr'[job'[w].xid].srv = nonce_ =>
                           runs[job'[w].xid] = 0
    BY <1>5 DEF WorkInv, At, Current, Seen
  <2>1. Busy(w) /\ job'[w] = job[w]
    BY <1>1
  <2>2. job[w].xid \in Known
    BY <2>1 DEF IInv, JobsInv, Busy, Idle, Requests
  <2> QED BY <1>3, <2>1, <2>2 DEF IInv, WorkInv, At, Current
<1>9. OneWorker'
  BY <1>1 DEF IInv, OneWorker
<1>10. AtMostOnce'
  <2> SUFFICES ASSUME NEW x \in 1..Len(hdr'), ~IsBind(x)' PROVE runs[x] <= 1
    BY DEF AtMostOnce
  <2>1. CASE x \in Known
    BY <1>3, <2>1 DEF IInv, AtMostOnce, IsBind, Known
  <2>2. CASE x \notin Known
    BY <1>4, <2>2 DEF Known
  <2> QED BY <2>1, <2>2
<1> QED BY <1>6, <1>7, <1>8, <1>9, <1>10

\* A step of the client or of the network, which leaves the server alone.
LEMMA ServerKept ==
  ASSUME IInv, Grows, Len(hdr') <= MaxXid, UNCHANGED serverVars
  PROVE  JobsInv' /\ RunsInv' /\ WindowInv' /\ WorkInv' /\ OneWorker' /\ AtMostOnce'
<1>1. UNCHANGED <<nonce_, win, conns_, job, runs>>
  BY DEF serverVars
<1>2. JobsInv'
  BY <1>1, Kept
<1> QED BY <1>1, <1>2, QuietServer

\* A step that adds no call, instance or execution.
LEMMA SameGrows ==
  ASSUME IInv, UNCHANGED <<hdr, nonce_, runs>>, Len(conn') \in Nat, Len(conn) <= Len(conn'),
         conns_' \in Nat, conns_ <= conns_',
         \/ xid_rep_window_' = xid_rep_window_
         \/ \E x \in Known : xid_rep_window_' = UpdateXidRep(xid_rep_window_, x)
  PROVE  Grows /\ Len(hdr') <= MaxXid
<1>1. Acked <= Acked' /\ Acked' \in Nat
  <2>1. CASE xid_rep_window_' = xid_rep_window_
    BY <2>1, Numbers DEF Acked
  <2> QED BY <2>1, Reported
<1> QED BY <1>1, Numbers DEF IInv, ClientInv, Grows

-------------------------------------------------------------------------------
(* The steps.                                                              *)

LEMMA InitIInv == Init => IInv
<1> SUFFICES ASSUME Init PROVE IInv
  OBVIOUS
<1>1. /\ hdr = <<>> /\ Len(hdr) = 0 /\ Known = {} /\ conn = <<>> /\ Len(conn) = 0
  BY DEF Init, Known
<1>2. \A w \in Workers : ~Busy(w)
  BY DEF Init, Busy, Idle
<1>3. /\ win \in WindowType /\ Increasing(win.list) /\ Saved(win) = {}
  <2>1. win.list = <<>> /\ win.set = {} /\ win.bound = NoBound /\ win = EmptyWindow
    BY DEF Init, EmptyWindow
  <2>2. win \in WindowType
    BY <2>1 DEF WindowType, EmptyWindow
  <2> QED BY <2>1, <2>2 DEF Saved, Elements, Increasing
<1>4. ClientInv
  <2>1. EmptyXidRep \in XidRepType /\ EmptyXidRep.front = 0 /\ EmptyXidRep.above = {}
    BY DEF EmptyXidRep, XidRepType
  <2> QED BY <1>1, <2>1, BoundsAssumption DEF Init, ClientInv
<1>5. CallersInv /\ WiresInv /\ WaitersInv
  <2>1. \A i \in Callers : ~InCall(i)
    BY DEF Init, InCall, Out
  <2> QED BY <1>1, <2>1 DEF Init, CallersInv, WiresInv, WaitersInv, Waiting
<1>6. JobsInv /\ RunsInv /\ WindowInv
  BY <1>1, <1>3, BoundsAssumption DEF Init, JobsInv, RunsInv, WindowInv
<1>7. WorkInv /\ OneWorker /\ AtMostOnce
  BY <1>1, <1>2 DEF WorkInv, OneWorker, AtMostOnce
<1>8. BehindClient
  BY DEF Init, EmptyWindow, EmptyXidRep, NoBound, BehindClient, Acked
<1> QED BY <1>4, <1>5, <1>6, <1>7, <1>8 DEF IInv

LEMMA StutterIInv == ASSUME IInv, UNCHANGED vars PROVE IInv'
<1>1. /\ UNCHANGED <<hdr, xid_rep_window_, srv_nonce_, chan_, caller, conn>>
      /\ UNCHANGED <<nonce_, win, conns_, job, runs>> /\ UNCHANGED serverVars
  BY DEF vars, clientVars, serverVars
<1>2. Grows /\ Len(hdr') <= MaxXid
  BY <1>1, SameGrows, Numbers
<1> QED BY <1>1, <1>2, Kept, ServerKept DEF IInv

\* The network alone: one wire changes.
LEMMA WireStep ==
  ASSUME IInv, NEW k \in Conns, NEW c \in Wires, conn' = [conn EXCEPT ![k] = c],
         UNCHANGED <<clientVars, serverVars>>
  PROVE  IInv'
<1>1. /\ UNCHANGED <<hdr, xid_rep_window_, srv_nonce_, chan_, caller>>
      /\ UNCHANGED <<nonce_, win, conns_, job, runs>> /\ UNCHANGED serverVars
  BY DEF clientVars, serverVars
<1>2. Len(conn') = Len(conn)
  BY SeqOf DEF IInv, WiresInv, Conns
<1>3. Grows /\ Len(hdr') <= MaxXid
  BY <1>1, <1>2, SameGrows, Numbers
<1>4. WiresInv'
  BY <1>1, <1>2, <1>3, OneWire, StillKnown DEF IInv, WiresInv
<1> QED BY <1>1, <1>3, <1>4, Kept, ServerKept DEF IInv

\* A wire that a step finds is one, and what the ends do to it leaves it one.
LEMMA WireFacts ==
  ASSUME IInv, NEW k \in Conns
  PROVE  conn[k] \in Wires
BY SeqOf DEF IInv, WiresInv, Conns

LEMMA BrokenWire ==
  ASSUME NEW c \in Wires, NEW n \in 0..Len(c.req), NEW m \in 0..Len(c.rep)
  PROVE  Broken(c, n, m) \in Wires
<1>1. SubSeq(c.req, 1, n) \in Seq(Known) /\ SubSeq(c.rep, 1, m) \in Seq(Answers)
  BY SeqOf DEF Wires
<1> QED BY <1>1 DEF Wires, Broken

LEMMA ClientWritesWire ==
  ASSUME NEW c \in Wires, NEW x \in Known
  PROVE  ClientWrites(c, x) \subseteq Wires
<1>1. Append(c.req, x) \in Seq(Known)
  BY SeqOf DEF Wires
<1> QED BY <1>1 DEF Wires, ClientWrites

LEMMA ServerWritesWire ==
  ASSUME NEW c \in Wires, NEW r \in Answers
  PROVE  ServerWrites(c, r) \subseteq Wires
<1>1. Append(c.rep, r) \in Seq(Answers)
  BY SeqOf DEF Wires
<1>2. \A n \in 0..Len(c.req) : SubSeq(c.req, 1, n) \in Seq(Known)
  BY SeqOf DEF Wires
<1>3. [c EXCEPT !.rep = Append(@, r)] \in Wires
  BY <1>1 DEF Wires
<1>4. \A n \in 0..Len(c.req) : [c EXCEPT !.sdead = TRUE, !.req = SubSeq(@, 1, n)] \in Wires
  BY <1>2 DEF Wires
<1> QED BY <1>3, <1>4 DEF ServerWrites

LEMMA NetworkIInv ==
  ASSUME IInv, NEW k, Break(k) \/ ClientEOF(k) \/ ServerEOF(k)
  PROVE  IInv'
<1>1. k \in Conns /\ UNCHANGED <<clientVars, serverVars>>
  BY DEF Break, ClientEOF, ServerEOF
<1>2. conn[k] \in Wires
  BY <1>1, WireFacts
<1>3. CASE Break(k)
  <2>1. PICK n \in 0..Len(conn[k].req), m \in 0..Len(conn[k].rep) :
          conn' = [conn EXCEPT ![k] = Broken(conn[k], n, m)]
    BY <1>3 DEF Break
  <2> QED BY <1>1, <1>2, <2>1, BrokenWire, WireStep
<1>4. CASE ClientEOF(k)
  <2>1. conn' = [conn EXCEPT ![k] = [conn[k] EXCEPT !.cdead = TRUE]]
    BY <1>4 DEF ClientEOF
  <2>2. [conn[k] EXCEPT !.cdead = TRUE] \in Wires
    BY <1>2 DEF Wires
  <2> QED BY <1>1, <2>1, <2>2, WireStep
<1>5. CASE ServerEOF(k)
  <2>1. conn' = [conn EXCEPT ![k] = [conn[k] EXCEPT !.sdead = TRUE]]
    BY <1>5 DEF ServerEOF
  <2>2. [conn[k] EXCEPT !.sdead = TRUE] \in Wires
    BY <1>2 DEF Wires
  <2> QED BY <1>1, <2>1, <2>2, WireStep
<1> QED BY <1>3, <1>4, <1>5

\* A thread that is or was in a call.
LEMMA CallFacts ==
  ASSUME IInv, NEW i \in Callers, caller[i].st # "out"
  PROVE  /\ caller[i] \in Calls /\ caller[i].xid \in Known /\ caller[i].ch \in 0..Len(conn)
         /\ caller[i].final \in BOOLEAN /\ caller[i].done \in BOOLEAN
         /\ caller[i].by \in 0..nonce_ /\ caller[i].ret \in Results
<1>1. caller[i] \in Calls
  BY DEF IInv, CallersInv, Out
<1> QED BY <1>1 DEF Calls

\* Where a call stands is not part of what it may have taken.
LEMMA CallMoves ==
  ASSUME NEW c \in Calls, NEW s \in {"transmit", "wait", "finish", "returned"},
         NEW ch \in 0..Len(conn), NEW f \in BOOLEAN
  PROVE  [c EXCEPT !.st = s, !.ch = ch, !.final = f] \in Calls
<1> DEFINE d == [c EXCEPT !.st = s, !.ch = ch, !.final = f]
<1>1. /\ c \in [st : {"transmit", "wait", "finish", "returned"}, xid : Known,
                 ch : 0..Len(conn), final : BOOLEAN, done : BOOLEAN, ret : Results, by : 0..nonce_]
      /\ c.done /\ c.ret = "ok" => Genuine(c.xid, c.by)
      /\ c.done => c.ret # "atmostonce_failure"
  BY DEF Calls
<1>2. /\ d \in [st : {"transmit", "wait", "finish", "returned"}, xid : Known,
                 ch : 0..Len(conn), final : BOOLEAN, done : BOOLEAN, ret : Results, by : 0..nonce_]
      /\ d.done = c.done /\ d.ret = c.ret /\ d.xid = c.xid /\ d.by = c.by
  BY <1>1
<1> QED BY <1>1, <1>2 DEF Calls

LEMMA CallMovesNext ==
  ASSUME NEW c \in Calls', NEW s \in {"transmit", "wait", "finish", "returned"},
         NEW ch \in 0..Len(conn'), NEW f \in BOOLEAN
  PROVE  [c EXCEPT !.st = s, !.ch = ch, !.final = f] \in Calls'
<1> DEFINE d == [c EXCEPT !.st = s, !.ch = ch, !.final = f]
           R == [st : {"transmit", "wait", "finish", "returned"}, xid : Known',
                 ch : 0..Len(conn'), final : BOOLEAN, done : BOOLEAN, ret : Results, by : 0..nonce_']
<1>1. /\ c \in R /\ (c.done /\ c.ret = "ok" => Genuine(c.xid, c.by)')
      /\ c.done => c.ret # "atmostonce_failure"
  BY DEF Calls, Results
<1>2. d \in R /\ d.done = c.done /\ d.ret = c.ret /\ d.xid = c.xid /\ d.by = c.by
  BY <1>1
<1> QED BY <1>1, <1>2 DEF Calls, Results

\* A step of one calling thread alone.
LEMMA CallerStep ==
  ASSUME IInv, NEW i \in Callers, NEW c \in Calls, caller' = [caller EXCEPT ![i] = c],
         InCall(i), c.xid = caller[i].xid, c.done = caller[i].done,
         UNCHANGED <<hdr, xid_rep_window_, srv_nonce_, chan_, conn, serverVars>>
  PROVE  IInv'
<1>1. UNCHANGED <<nonce_, win, conns_, job, runs>> /\ UNCHANGED serverVars
  BY DEF serverVars
<1>2. Grows /\ Len(hdr') <= MaxXid
  BY <1>1, SameGrows, Numbers
<1>3. CallersInv'
  BY <1>2, OneCaller, StillKnown
<1>4. WaitersInv'
  <2>1. caller'[i] = c /\ \A j \in Callers : j # i => caller'[j] = caller[j]
    BY DEF IInv, CallersInv
  <2> QED BY <2>1, WaitersKept DEF InCall
<1> QED BY <1>1, <1>2, <1>3, <1>4, Kept, ServerKept DEF IInv

LEMMA WaitIInv ==
  ASSUME IInv, NEW i \in Callers, NEW fin \in BOOLEAN, Timeout(i, fin) \/ GotReply(i)
  PROVE  IInv'
<1>1. caller[i].st = "wait"
  BY DEF Timeout, GotReply
<1>2. /\ caller[i] \in Calls /\ caller[i].ch \in 0..Len(conn) /\ caller[i].final \in BOOLEAN
  BY <1>1, CallFacts
<1>3. UNCHANGED <<hdr, xid_rep_window_, srv_nonce_, chan_, conn, serverVars>>
  BY DEF Timeout, GotReply
<1>4. PICK s \in {"transmit", "wait", "finish", "returned"}, f \in BOOLEAN :
        caller' = [caller EXCEPT ![i] = [caller[i] EXCEPT !.st = s, !.final = f]]
  <2>1. CASE Timeout(i, fin)
    <3> DEFINE dead == caller[i].ch = 0 \/ conn[caller[i].ch].cdead
               s == IF dead THEN "transmit" ELSE IF caller[i].final THEN "finish" ELSE "wait"
               f == caller[i].final \/ (~dead /\ fin)
    <3>1. caller' = [caller EXCEPT ![i] = [caller[i] EXCEPT !.st = s, !.final = f]]
      BY <2>1 DEF Timeout
    <3>2. s \in {"transmit", "wait", "finish", "returned"} /\ f \in BOOLEAN
      BY <1>2
    <3> HIDE DEF s, f
    <3> QED BY <3>1, <3>2
  <2>2. CASE GotReply(i)
    <3>1. caller' = [caller EXCEPT ![i] = [caller[i] EXCEPT !.st = "finish"]]
      BY <2>2 DEF GotReply
    <3>2. [caller[i] EXCEPT !.st = "finish"]
            = [caller[i] EXCEPT !.st = "finish", !.final = caller[i].final]
      BY <1>2 DEF Calls
    <3> QED BY <1>2, <3>1, <3>2
  <2> QED BY <2>1, <2>2
<1>5. [caller[i] EXCEPT !.st = s, !.final = f]
        = [caller[i] EXCEPT !.st = s, !.ch = caller[i].ch, !.final = f]
  BY <1>2 DEF Calls
<1>6. [caller[i] EXCEPT !.st = s, !.final = f] \in Calls
  <2>1. s \in {"transmit", "wait", "finish", "returned"} /\ f \in BOOLEAN
    BY <1>4
  <2>2. [caller[i] EXCEPT !.st = s, !.ch = caller[i].ch, !.final = f] \in Calls
    BY <1>2, <2>1, CallMoves
  <2> QED BY <1>5, <2>2
<1>7. /\ [caller[i] EXCEPT !.st = s, !.final = f].xid = caller[i].xid
      /\ [caller[i] EXCEPT !.st = s, !.final = f].done = caller[i].done /\ InCall(i)
  BY <1>1, <1>2 DEF Calls, InCall
<1> QED BY <1>3, <1>4, <1>6, <1>7, CallerStep

\* get_refconn returns connections there are.
LEMMA RefConn ==
  ASSUME IInv
  PROVE  /\ GetRefConn.conn \in Seq(Wires) /\ GetRefConn.chan \in 0..Len(GetRefConn.conn)
         /\ Len(conn) <= Len(GetRefConn.conn) /\ Len(GetRefConn.conn) \in Nat
<1>1. conn \in Seq(Wires) /\ Len(conn) \in Nat /\ chan_ \in 0..Len(conn)
  BY SeqOf DEF IInv, WiresInv
<1>2. NewConn \in Wires
  BY DEF NewConn, Wires
<1>3. Append(conn, NewConn) \in Seq(Wires) /\ Len(Append(conn, NewConn)) = Len(conn) + 1
  BY <1>1, <1>2, SeqOf
<1>4. CASE chan_ # 0 /\ ~conn[chan_].cdead
  <2>1. GetRefConn = [chan |-> chan_, conn |-> conn]
    BY <1>4 DEF GetRefConn
  <2> QED BY <1>1, <2>1
<1>5. CASE ~(chan_ # 0 /\ ~conn[chan_].cdead) /\ Len(conn) < MaxConn
  <2>1. GetRefConn = [chan |-> Len(conn) + 1, conn |-> Append(conn, NewConn)]
    BY <1>5 DEF GetRefConn
  <2>2. GetRefConn.chan = Len(conn) + 1 /\ GetRefConn.conn = Append(conn, NewConn)
    BY <2>1
  <2> QED BY <1>1, <1>3, <2>2
<1>6. CASE ~(chan_ # 0 /\ ~conn[chan_].cdead) /\ ~(Len(conn) < MaxConn)
  <2>1. GetRefConn = [chan |-> 0, conn |-> conn]
    BY <1>6 DEF GetRefConn
  <2> QED BY <1>1, <2>1
<1> QED BY <1>4, <1>5, <1>6

LEMMA TransmitIInv ==
  ASSUME IInv, NEW i \in Callers, NEW fin \in BOOLEAN, Transmit(i, fin)
  PROVE  IInv'
<1> DEFINE g == GetRefConn
           ch == IF g.chan = 0 THEN caller[i].ch ELSE g.chan
           s == IF caller[i].final THEN "finish" ELSE "wait"
           f == caller[i].final \/ fin
<1>1. /\ caller[i].st = "transmit" /\ chan_' = g.chan
      /\ IF ch = 0 THEN conn' = g.conn
         ELSE \E k \in ClientWrites(g.conn[ch], caller[i].xid) : conn' = [g.conn EXCEPT ![ch] = k]
      /\ caller' = [caller EXCEPT ![i] = [caller[i] EXCEPT !.ch = ch, !.st = s, !.final = f]]
      /\ UNCHANGED <<hdr, xid_rep_window_, srv_nonce_, nonce_, win, conns_, job, runs>>
      /\ UNCHANGED serverVars
  BY DEF Transmit, serverVars
<1>2. /\ g.conn \in Seq(Wires) /\ g.chan \in 0..Len(g.conn)
      /\ Len(conn) <= Len(g.conn) /\ Len(g.conn) \in Nat
  BY RefConn
<1>3. /\ caller[i] \in Calls /\ caller[i].xid \in Known /\ caller[i].ch \in 0..Len(conn)
      /\ caller[i].final \in BOOLEAN
  BY <1>1, CallFacts
<1>4. ch \in 0..Len(g.conn)
  BY <1>2, <1>3, Numbers
<1> HIDE DEF g
<1>5. conn' \in Seq(Wires) /\ Len(conn') = Len(g.conn)
  <2>1. CASE ch = 0
    BY <1>1, <1>2, <2>1
  <2>2. CASE ch # 0
    <3> HIDE DEF ch
    <3>1. PICK k \in ClientWrites(g.conn[ch], caller[i].xid) : conn' = [g.conn EXCEPT ![ch] = k]
      BY <1>1, <2>2
    <3>2. ch \in 1..Len(g.conn)
      BY <1>2, <1>4, <2>2
    <3>3. g.conn[ch] \in Wires
      BY <1>2, <3>2, SeqOf
    <3>4. k \in Wires
      BY <1>3, <3>1, <3>3, ClientWritesWire
    <3> QED BY <1>2, <3>1, <3>2, <3>4, SeqOf
  <2> QED BY <2>1, <2>2
<1>6. Grows /\ Len(hdr') <= MaxXid
  BY <1>1, <1>2, <1>5, SameGrows, Numbers
<1>7. WiresInv'
  <2>1. conn' \in Seq(Wires')
    BY <1>5, <1>6, StillKnown, SeqMono
  <2> QED BY <1>1, <1>2, <1>5, <2>1 DEF WiresInv
<1>8. CallersInv'
  <2> DEFINE c == [caller[i] EXCEPT !.ch = ch, !.st = s, !.final = f]
  <2>1. s \in {"transmit", "wait", "finish", "returned"} /\ f \in BOOLEAN
    BY <1>3
  <2>2. caller[i] \in Calls'
    BY <1>3, <1>6, StillKnown
  <2>3. ch \in 0..Len(conn')
    BY <1>4, <1>5
  <2> HIDE DEF ch, s, f
  <2>4. c = [caller[i] EXCEPT !.st = s, !.ch = ch, !.final = f]
    BY <1>3 DEF Calls
  <2>5. c \in Calls'
    <3>1. [caller[i] EXCEPT !.st = s, !.ch = ch, !.final = f] \in Calls'
      BY <2>1, <2>2, <2>3, CallMovesNext
    <3> QED BY <2>4, <3>1
  <2> HIDE DEF c
  <2>6. caller' = [caller EXCEPT ![i] = c]
    BY <1>1 DEF c
  <2> QED BY <1>6, <2>5, <2>6, OneCaller
<1>9. WaitersInv'
  <2> DEFINE c == [caller[i] EXCEPT !.ch = ch, !.st = s, !.final = f]
  <2>1. c.xid = caller[i].xid /\ c.done = caller[i].done /\ InCall(i)
    BY <1>1, <1>3 DEF Calls, InCall
  <2> HIDE DEF c
  <2>2. caller'[i] = c /\ \A j \in Callers : j # i => caller'[j] = caller[j]
    BY <1>1 DEF IInv, CallersInv, c
  <2> QED BY <1>1, <2>1, <2>2, WaitersKept DEF InCall
<1> QED BY <1>1, <1>6, <1>7, <1>8, <1>9, Kept, ServerKept DEF IInv

\* The window learns of one call and no header changes.
LEMMA ReportedClientInv ==
  ASSUME IInv, NEW x \in Known, xid_rep_window_' = UpdateXidRep(xid_rep_window_, x),
         UNCHANGED <<hdr, nonce_>>, srv_nonce_' \in 0..nonce_
  PROVE  ClientInv'
<1>1. /\ xid_rep_window_' \in XidRepType
      /\ xid_rep_window_'.front <= Len(hdr) /\ xid_rep_window_'.above \subseteq 1..Len(hdr)
      /\ xid_rep_window_.front <= xid_rep_window_'.front
      /\ xid_rep_window_'.front \in Nat
  BY Reported DEF Acked
<1>2. xid_rep_window_.front \in Nat
  BY Numbers
<1>3. \A y \in Known : hdr[y].rep <= xid_rep_window_'.front /\ hdr[y].srv <= nonce_
  <2> SUFFICES ASSUME NEW y \in Known
               PROVE  hdr[y].rep <= xid_rep_window_'.front /\ hdr[y].srv <= nonce_
    OBVIOUS
  <2>1. hdr[y].rep <= xid_rep_window_.front /\ hdr[y].srv <= nonce_ /\ hdr[y].rep \in Nat
    BY Numbers DEF IInv, ClientInv
  <2> QED BY <1>1, <1>2, <2>1
<1> QED BY <1>1, <1>3 DEF IInv, ClientInv, Known

LEMMA FinishIInv ==
  ASSUME IInv, NEW i \in Callers, Finish(i)
  PROVE  IInv'
<1>1. /\ caller[i].st = "finish"
      /\ xid_rep_window_' = UpdateXidRep(xid_rep_window_, caller[i].xid)
      /\ caller' = [caller EXCEPT ![i] = [caller[i] EXCEPT !.st = "returned", !.ch = 0,
                                                           !.final = FALSE]]
      /\ srv_nonce_' = IF IsBind(caller[i].xid) /\ caller[i].ret = "ok"
                       THEN caller[i].by ELSE srv_nonce_
      /\ UNCHANGED <<hdr, chan_, conn, nonce_, win, conns_, job, runs>> /\ UNCHANGED serverVars
  BY DEF Finish, serverVars
<1>2. caller[i] \in Calls /\ caller[i].xid \in Known /\ caller[i].by \in 0..nonce_
  BY <1>1, CallFacts
<1>3. Grows /\ Len(hdr') <= MaxXid
  BY <1>1, <1>2, SameGrows, Numbers
<1>4. ClientInv'
  <2>1. srv_nonce_' \in 0..nonce_
    BY <1>1, <1>2 DEF IInv, ClientInv
  <2> QED BY <1>1, <1>2, <2>1, ReportedClientInv
<1>5. CallersInv'
  <2>1. [caller[i] EXCEPT !.st = "returned", !.ch = 0, !.final = FALSE] \in Calls
    <3>1. 0 \in 0..Len(conn)
      BY Numbers
    <3> QED BY <1>2, <3>1, CallMoves
  <2> QED BY <1>1, <1>3, <2>1, OneCaller, StillKnown
<1>6. WaitersInv'
  <2>1. caller'[i].st = "returned" /\ \A j \in Callers : j # i => caller'[j] = caller[j]
    BY <1>1, <1>2 DEF IInv, CallersInv, Calls
  <2>2. ASSUME NEW j \in Callers, InCall(j)'
        PROVE  /\ InCall(j) /\ caller'[j] = caller[j] /\ caller[j].xid # caller[i].xid
    BY <1>1, <2>1, <2>2 DEF InCall, IInv, WaitersInv
  <2> QED BY <1>1, <1>2, <2>2, ReportedWaiters
<1> QED BY <1>1, <1>3, <1>4, <1>5, <1>6, Kept, ServerKept DEF IInv

LEMMA BeginIInv ==
  ASSUME IInv, NEW i \in Callers, Begin(i)
  PROVE  IInv'
<1> DEFINE h == [rep |-> xid_rep_window_.front, srv |-> srv_nonce_]
           c == [st |-> "transmit", xid |-> Len(hdr) + 1, ch |-> 0, final |-> FALSE,
                 done |-> FALSE, ret |-> "timeout_failure", by |-> 0]
<1>1. /\ Len(hdr) < MaxXid /\ hdr' = Append(hdr, h) /\ caller' = [caller EXCEPT ![i] = c]
      /\ UNCHANGED <<xid_rep_window_, srv_nonce_, chan_, conn, nonce_, win, conns_, job, runs>>
      /\ UNCHANGED serverVars
  BY DEF Begin, serverVars
<1>2. /\ hdr \in Seq([rep : Nat, srv : Nat]) /\ xid_rep_window_.front \in Nat
      /\ xid_rep_window_.front <= Len(hdr) /\ srv_nonce_ \in 0..nonce_ /\ srv_nonce_ \in Nat
      /\ Len(hdr) \in Nat /\ MaxXid \in Nat /\ nonce_ \in Nat
  BY Numbers DEF IInv, ClientInv
<1>3. h \in [rep : Nat, srv : Nat] /\ h.rep = xid_rep_window_.front /\ h.srv = srv_nonce_
  BY <1>2
<1> HIDE DEF h
<1>4. /\ hdr' \in Seq([rep : Nat, srv : Nat]) /\ Len(hdr') = Len(hdr) + 1
      /\ hdr'[Len(hdr) + 1] = h /\ \A x \in Known : hdr'[x] = hdr[x]
  <2>1. hdr' \in Seq([rep : Nat, srv : Nat]) /\ Len(hdr') = Len(hdr) + 1
    BY <1>1, <1>2, <1>3, SeqOf
  <2>2. hdr'[Len(hdr) + 1] = h /\ \A x \in 1..Len(hdr) : hdr'[x] = hdr[x]
    BY <1>1, <1>2
  <2> QED BY <2>1, <2>2 DEF Known
<1> HIDE DEF c
<1>5. Grows /\ Len(hdr') <= MaxXid
  <2>1. Len(hdr) <= Len(hdr') /\ Len(hdr') <= MaxXid
    BY <1>1, <1>2, <1>4
  <2>2. Len(conn') = Len(conn) /\ Len(conn) \in Nat /\ conns_ \in Nat
    BY <1>1, Numbers
  <2>3. \A x \in Known : runs[x] <= runs'[x] /\ runs'[x] \in Nat
    BY <1>1, Numbers
  <2>4. nonce_' = nonce_ /\ conns_' = conns_
    BY <1>1
  <2>5. Acked' = Acked /\ Acked \in Nat
    BY <1>1, Numbers DEF Acked
  <2> QED BY <1>2, <1>4, <2>1, <2>2, <2>3, <2>4, <2>5 DEF Grows
<1>6. Known' = Known \union {Len(hdr) + 1}
  BY <1>2, <1>4 DEF Known
<1>7. ClientInv'
  <2>1. \A x \in Known' : hdr'[x].rep <= xid_rep_window_.front /\ hdr'[x].srv <= nonce_
    <3> SUFFICES ASSUME NEW x \in Known'
                 PROVE  hdr'[x].rep <= xid_rep_window_.front /\ hdr'[x].srv <= nonce_
      OBVIOUS
    <3>1. CASE x \in Known
      BY <1>4, <3>1 DEF IInv, ClientInv
    <3>2. CASE x = Len(hdr) + 1
      BY <1>2, <1>3, <1>4, <3>2
    <3> QED BY <1>6, <3>1, <3>2
  <2>2. xid_rep_window_.front <= Len(hdr') /\ xid_rep_window_.above \subseteq Known'
    BY <1>2, <1>4, <1>6 DEF IInv, ClientInv
  <2> QED BY <1>1, <1>4, <1>5, <2>1, <2>2 DEF IInv, ClientInv
<1>8. CallersInv'
  <2>1. Len(hdr) + 1 \in Known' /\ 0 \in 0..Len(conn') /\ 0 \in 0..nonce_'
    BY <1>1, <1>6, Numbers
  <2>2. c \in Calls'
    BY <2>1 DEF Calls, Results, c
  <2> QED BY <1>1, <1>5, <2>2, OneCaller
<1>9. WaitersInv'
  <2>1. /\ caller'[i].xid = Len(hdr) + 1
        /\ \A j \in Callers : j # i => caller'[j] = caller[j]
    BY <1>1 DEF IInv, CallersInv, c
  <2>2. \A j \in Callers : j # i /\ InCall(j)' => InCall(j) /\ caller'[j].xid \in Known
    BY <2>1, CallFacts DEF InCall
  <2>3. Len(hdr) + 1 > Acked /\ Len(hdr) + 1 \notin xid_rep_window_.above /\ Len(hdr) + 1 \notin Known
    BY <1>2 DEF IInv, ClientInv, Known, Acked
  <2>4. ASSUME NEW j \in Callers, Waiting(j)'
        PROVE  caller'[j].xid > Acked' /\ caller'[j].xid \notin xid_rep_window_'.above
    <3>1. CASE j = i
      BY <1>1, <2>1, <2>3, <3>1 DEF Acked
    <3>2. CASE j # i
      BY <1>1, <2>1, <2>4, <3>2 DEF IInv, WaitersInv, Waiting, InCall, Acked
    <3> QED BY <3>1, <3>2
  <2>5. \A j, l \in Callers : InCall(j)' /\ InCall(l)' /\ caller'[j].xid = caller'[l].xid => j = l
    BY <2>1, <2>2, <2>3 DEF IInv, WaitersInv
  <2> QED BY <2>4, <2>5 DEF WaitersInv
<1> QED BY <1>1, <1>5, <1>7, <1>8, <1>9, Kept, ServerKept DEF IInv

LEMMA ClientRecvIInv ==
  ASSUME IInv, NEW k, ClientRecv(k)
  PROVE  IInv'
<1> DEFINE r == Head(conn[k].rep)
           c == [conn[k] EXCEPT !.rep = Tail(conn[k].rep)]
           takes(i) == InCall(i) /\ caller[i].xid = r.xid /\ ~caller[i].done
           took(i) == [caller[i] EXCEPT !.done = TRUE, !.ret = r.ret, !.by = r.by]
<1>1. /\ k \in Conns /\ conn[k].rep # <<>>
      /\ xid_rep_window_' = UpdateXidRep(xid_rep_window_, r.xid)
      /\ caller' = [i \in Callers |-> IF takes(i) THEN took(i) ELSE caller[i]]
      /\ conn' = [conn EXCEPT ![k] = c]
      /\ UNCHANGED <<hdr, srv_nonce_, chan_, nonce_, win, conns_, job, runs>>
      /\ UNCHANGED serverVars
  BY DEF ClientRecv, serverVars
<1>2. conn[k] \in Wires
  BY <1>1, WireFacts
<1>3. conn[k].rep \in Seq(Answers)
  BY <1>2 DEF Wires
<1>4. r \in Answers /\ Tail(conn[k].rep) \in Seq(Answers)
  BY <1>1, <1>3, SeqOf
<1>5. c \in Wires
  BY <1>2, <1>4 DEF Wires
<1>6. /\ r.xid \in Known /\ r.ret \in Results /\ r.by \in 1..nonce_
      /\ r.ret = "ok" => Genuine(r.xid, r.by)
      /\ r.ret = "atmostonce_failure" => r.xid <= Acked
  BY <1>4 DEF Answers
<1> HIDE DEF r, c, takes, took
<1>7. Len(conn') = Len(conn)
  BY <1>1, <1>5, SeqOf DEF IInv, WiresInv, Conns
<1>8. Grows /\ Len(hdr') <= MaxXid
  BY <1>1, <1>6, <1>7, SameGrows, Numbers
<1>9. WiresInv'
  BY <1>1, <1>5, <1>7, <1>8, OneWire, StillKnown DEF IInv, WiresInv
<1>10. ClientInv'
  <2>1. srv_nonce_' \in 0..nonce_
    BY <1>1 DEF IInv, ClientInv
  <2> QED BY <1>1, <1>6, <2>1, ReportedClientInv
<1>11. CallersInv'
  <2>1. ASSUME NEW i \in Callers, takes(i) PROVE took(i) \in Calls
    <3> DEFINE b == caller[i]
               d == [b EXCEPT !.done = TRUE, !.ret = r.ret, !.by = r.by]
               R == [st : {"transmit", "wait", "finish", "returned"}, xid : Known,
                     ch : 0..Len(conn), final : BOOLEAN, done : BOOLEAN, ret : Results,
                     by : 0..nonce_]
    <3>1. b \in Calls /\ b.xid = r.xid
      BY <2>1, CallFacts DEF InCall, takes
    <3>2. b \in R
      BY <3>1 DEF Calls
    <3>3. r.by \in 0..nonce_
      BY <1>6, Numbers
    <3>4. d \in R /\ d.ret = r.ret /\ d.xid = r.xid /\ d.by = r.by
      BY <1>6, <3>1, <3>2, <3>3
    <3>5. r.ret # "atmostonce_failure"
      <4>1. r.xid > Acked /\ r.xid \in Nat /\ Acked \in Nat
        BY <1>6, <2>1, <3>1, Numbers DEF IInv, WaitersInv, Waiting, takes
      <4> QED BY <1>6, <4>1
    <3> QED BY <1>6, <3>4, <3>5 DEF Calls, took
  <2>2. \A i \in Callers : caller[i] \in {Out} \union Calls
    BY DEF IInv, CallersInv
  <2>3. caller' \in [Callers -> {Out} \union Calls]
    BY <1>1, <2>1, <2>2
  <2> QED BY <1>8, <2>3, StillKnown DEF CallersInv
<1>12. WaitersInv'
  <2>1. ASSUME NEW i \in Callers, InCall(i)'
        PROVE  /\ InCall(i) /\ caller'[i].xid = caller[i].xid
               /\ caller[i].done => caller'[i].done
               /\ caller[i].xid = r.xid => caller'[i].done
    <3>1. CASE takes(i)
      <4>1. caller[i] \in Calls /\ caller'[i] = took(i) /\ InCall(i)
        BY <1>1, <3>1, CallFacts DEF takes, InCall
      <4> QED BY <4>1 DEF took, Calls
    <3>2. CASE ~takes(i)
      <4>1. caller'[i] = caller[i]
        BY <1>1, <3>2
      <4> QED BY <2>1, <3>2, <4>1 DEF takes, InCall
    <3> QED BY <3>1, <3>2
  <2> QED BY <1>1, <1>6, <2>1, ReportedWaiters
<1> QED BY <1>1, <1>8, <1>9, <1>10, <1>11, <1>12, Kept, ServerKept DEF IInv

\* A dispatch thread that is at a request.
LEMMA JobFacts ==
  ASSUME IInv, NEW w \in Workers, job[w].st # "idle"
  PROVE  /\ job[w] \in Requests /\ job[w].xid \in Known /\ job[w].xid \in Nat
         /\ job[w].ch \in Conns /\ conns_ \in Conns
         /\ hdr[job[w].xid].srv \in {0, nonce_}
         /\ job[w].st \in {"ran", "send", "resend"} => runs[job[w].xid] >= 1
         /\ job[w].st = "forgotten" => job[w].xid <= Acked
<1>1. job[w] \in Requests
  BY DEF IInv, JobsInv, Idle
<1>2. /\ job[w].xid \in Known /\ job[w].ch \in 1..conns_ /\ hdr[job[w].xid].srv \in {0, nonce_}
      /\ job[w].st \in {"ran", "send", "resend"} => runs[job[w].xid] >= 1
      /\ job[w].st = "forgotten" => job[w].xid <= Acked
  BY <1>1 DEF Requests
<1>3. job[w].ch \in Conns /\ conns_ \in Conns
  BY <1>2, Numbers DEF Conns
<1> QED BY <1>1, <1>2, <1>3, Numbers

\* One dispatch thread moves.
LEMMA OneJob ==
  ASSUME IInv, Grows, nonce_' = nonce_, conns_' \in 0..Len(conn'), NEW w \in Workers,
         NEW j \in {Idle} \union Requests', job' = [job EXCEPT ![w] = j]
  PROVE  JobsInv' /\ job'[w] = j /\ \A v \in Workers : v # w => job'[v] = job[v]
<1>1. job \in [Workers -> {Idle} \union Requests']
  BY StillKnown DEF IInv, JobsInv
<1> QED BY <1>1 DEF IInv, JobsInv

\* It moves on with the request it is at.
LEMMA GoToFacts ==
  ASSUME IInv, Grows, UNCHANGED <<nonce_, conns_>>, NEW w \in Workers, job[w].st # "idle",
         NEW s \in Stages, GoTo(w, s),
         s \in {"ran", "send", "resend"} => runs'[job[w].xid] >= 1,
         s = "forgotten" => job[w].xid <= Acked'
  PROVE  /\ JobsInv' /\ job'[w].st = s /\ job'[w].xid = job[w].xid
         /\ \A v \in Workers : v # w => job'[v] = job[v]
<1> DEFINE j == [job[w] EXCEPT !.st = s]
<1>1. job' = [job EXCEPT ![w] = j]
  BY DEF GoTo
<1>2. job[w] \in Requests'
  BY JobFacts, StillKnown
<1>3. /\ job[w] \in [st : Stages, xid : Known', ch : 1..conns_']
      /\ hdr'[job[w].xid].srv \in {0, nonce_'}
  BY <1>2 DEF Requests, Stages
<1>4. /\ j \in [st : Stages, xid : Known', ch : 1..conns_'] /\ j.xid = job[w].xid /\ j.st = s
  BY <1>3
<1>5. j \in Requests'
  BY <1>3, <1>4 DEF Requests, Stages
<1>6. conns_' \in 0..Len(conn')
  BY Numbers DEF Grows
<1> HIDE DEF j
<1> QED BY <1>1, <1>4, <1>5, <1>6, OneJob

\* It is done with its request.
LEMMA DoneFacts ==
  ASSUME IInv, Grows, UNCHANGED <<nonce_, conns_>>, NEW w \in Workers, Done(w)
  PROVE  /\ JobsInv' /\ job'[w].st = "idle"
         /\ \A v \in Workers : v # w => job'[v] = job[v]
<1>1. conns_' \in 0..Len(conn')
  BY Numbers DEF Grows
<1>2. job' = [job EXCEPT ![w] = Idle] /\ Idle.st = "idle"
  BY DEF Done, Idle
<1> QED BY <1>1, <1>2, OneJob

LEMMA ArriveIInv ==
  ASSUME IInv, NEW w \in Workers, NEW k, Arrive(w, k)
  PROVE  IInv'
<1> DEFINE x == Head(conn[k].req)
           c == [conn[k] EXCEPT !.req = Tail(conn[k].req)]
           r == Reply(x, "oldsrv_failure", nonce_)
           j == [st |-> "arrived", xid |-> x, ch |-> k]
<1>1. /\ job[w].st = "idle" /\ k \in Conns /\ conn[k].req # <<>>
      /\ UNCHANGED <<hdr, xid_rep_window_, srv_nonce_, chan_, caller, nonce_, win, runs>>
      /\ UNCHANGED clientVars
  BY DEF Arrive, At, clientVars
<1>2. IF hdr[x].srv \notin {0, nonce_}
      THEN /\ \E c2 \in ServerWrites(c, r) : conn' = [conn EXCEPT ![k] = c2]
           /\ UNCHANGED <<conns_, job>>
      ELSE /\ conn' = [conn EXCEPT ![k] = c]
           /\ conns_' = IF conns_ < k THEN k ELSE conns_
           /\ job' = [job EXCEPT ![w] = j]
  BY DEF Arrive
<1>3. conn[k] \in Wires
  BY <1>1, WireFacts
<1>4. x \in Known /\ Tail(conn[k].req) \in Seq(Known)
  BY <1>1, <1>3, SeqOf DEF Wires
<1>5. c \in Wires
  BY <1>3, <1>4 DEF Wires
<1> HIDE DEF x, c
<1>6. CASE hdr[x].srv \notin {0, nonce_}
  <2>1. nonce_ \in 1..nonce_
    BY Numbers
  <2>2. r \in Answers
    BY <1>4, <2>1 DEF Answers, Reply, Results
  <2> HIDE DEF r
  <2>3. PICK c2 \in ServerWrites(c, r) : conn' = [conn EXCEPT ![k] = c2]
    BY <1>2, <1>6
  <2>4. c2 \in Wires
    BY <1>5, <2>2, <2>3, ServerWritesWire
  <2>5. UNCHANGED serverVars
    BY <1>1, <1>2, <1>6 DEF serverVars
  <2> QED BY <1>1, <2>3, <2>4, <2>5, WireStep
<1>7. CASE hdr[x].srv \in {0, nonce_}
  <2>1. /\ conn' = [conn EXCEPT ![k] = c] /\ conns_' = IF conns_ < k THEN k ELSE conns_
        /\ job' = [job EXCEPT ![w] = j]
    BY <1>2, <1>7
  <2>2. Len(conn') = Len(conn)
    BY <1>1, <1>5, <2>1, SeqOf DEF IInv, WiresInv, Conns
  <2>3. conns_' \in 0..Len(conn') /\ conns_ <= conns_' /\ k \in 1..conns_' /\ conns_' \in Nat
    BY <1>1, <2>1, <2>2, Numbers DEF Conns
  <2>4. Grows /\ Len(hdr') <= MaxXid
    BY <1>1, <2>2, <2>3, SameGrows, Numbers
  <2>5. WiresInv'
    BY <1>1, <1>5, <2>1, <2>2, <2>4, OneWire, StillKnown DEF IInv, WiresInv
  <2>6. j \in Requests'
    <3>1. x \in Known' /\ hdr'[x].srv \in {0, nonce_'}
      BY <1>1, <1>4, <1>7, <2>4, StillKnown
    <3> QED BY <2>3, <3>1 DEF Requests, Stages
  <2>7. j.st = "arrived"
    OBVIOUS
  <2> HIDE DEF j
  <2>8. JobsInv' /\ job'[w] = j /\ \A v \in Workers : v # w => job'[v] = job[v]
    BY <1>1, <2>1, <2>3, <2>4, <2>6, OneJob
  <2>9. \A v \in Workers : job'[v] = job[v] \/ (~Busy(v) /\ ~Busy(v)')
    BY <1>1, <2>7, <2>8 DEF Busy
  <2> QED BY <1>1, <2>4, <2>5, <2>8, <2>9, Kept, QuietServer DEF IInv
<1> QED BY <1>6, <1>7

LEMMA SendIInv ==
  ASSUME IInv, NEW w \in Workers, Send(w)
  PROVE  IInv'
<1>1. /\ job[w].st \in {"send", "resend", "forgotten"} /\ Done(w)
      /\ UNCHANGED <<hdr, xid_rep_window_, srv_nonce_, chan_, caller, nonce_, win, conns_, runs>>
  BY DEF Send, clientVars
<1>2. PICK c \in ServerWrites(conn[Via(w)], Answer(w)) : conn' = [conn EXCEPT ![Via(w)] = c]
  BY DEF Send
<1>3. /\ job[w].xid \in Known /\ job[w].ch \in Conns /\ conns_ \in Conns
      /\ hdr[job[w].xid].srv \in {0, nonce_}
      /\ job[w].st \in {"ran", "send", "resend"} => runs[job[w].xid] >= 1
      /\ job[w].st = "forgotten" => job[w].xid <= Acked
  BY <1>1, JobFacts
<1>4. Via(w) \in Conns
  BY <1>3 DEF Via
<1>5. Answer(w) \in Answers
  <2> DEFINE ret == IF At(w, "forgotten") THEN "atmostonce_failure" ELSE "ok"
  <2>1. Answer(w) = [xid |-> job[w].xid, ret |-> ret, by |-> nonce_]
    BY DEF Answer, Reply
  <2>2. ret \in Results /\ (ret = "ok" => job[w].st \in {"send", "resend"})
    BY <1>1 DEF At, Results
  <2>3. nonce_ \in 1..nonce_
    BY Numbers
  <2>4. ret = "ok" => Genuine(job[w].xid, nonce_)
    BY <1>3, <2>2 DEF Genuine, IsBind
  <2>5. ret = "atmostonce_failure" => job[w].xid <= Acked
    BY <1>3 DEF At
  <2> HIDE DEF ret
  <2> QED BY <1>3, <2>1, <2>2, <2>3, <2>4, <2>5 DEF Answers
<1>6. c \in Wires
  BY <1>2, <1>4, <1>5, WireFacts, ServerWritesWire
<1>7. Len(conn') = Len(conn)
  BY <1>2, <1>4, <1>6, SeqOf DEF IInv, WiresInv, Conns
<1>8. Grows /\ Len(hdr') <= MaxXid
  BY <1>1, <1>7, SameGrows, Numbers
<1>9. WiresInv'
  <2>1. c \in Wires'
    BY <1>6, <1>8, StillKnown
  <2> QED BY <1>1, <1>2, <1>4, <1>7, <1>8, <2>1, OneWire DEF IInv, WiresInv
<1>10. JobsInv' /\ job'[w].st = "idle" /\ \A v \in Workers : v # w => job'[v] = job[v]
  BY <1>1, <1>8, DoneFacts
<1>11. \A v \in Workers : job'[v] = job[v] \/ (~Busy(v) /\ ~Busy(v)')
  BY <1>1, <1>10 DEF Busy
<1> QED BY <1>1, <1>8, <1>9, <1>10, <1>11, Kept, QuietServer DEF IInv

\* A saved reply is found only among the saved ones.
LEMMA DoneVerdict ==
  ASSUME NEW W \in WindowType, Increasing(W.list), NEW x \in Nat, NEW r \in Nat,
         Verdict(W, x, r) = "DONE"
  PROVE  x \in Saved(W)
<1>1. x \in Saved(Raise(W, r))
  BY DEF Verdict
<1> QED BY <1>1, RaiseIs

LEMMA CheckIInv ==
  ASSUME IInv, NEW w \in Workers, Check(w)
  PROVE  IInv'
<1> DEFINE x == job[w].xid
           r == hdr[x].rep
           v == Verdict(win, x, r)
           W == Update(win, x, r)
<1>1. /\ job[w].st = "arrived" /\ win' = W
      /\ \/ v = "NEW" /\ GoTo(w, "run")
         \/ v = "DONE" /\ GoTo(w, "resend")
         \/ v = "FORGOTTEN" /\ GoTo(w, "forgotten")
         \/ v = "INPROGRESS" /\ Done(w)
      /\ UNCHANGED <<hdr, xid_rep_window_, srv_nonce_, chan_, caller, conn, nonce_, conns_, runs>>
  BY DEF Check, At, clientVars
<1>2. x \in Known /\ x \in Nat /\ r \in Nat /\ ~Busy(w)
  BY <1>1, JobFacts, Numbers DEF Busy
<1>3. win \in WindowType /\ Increasing(win.list) /\ win.bound \in Int
  BY DEF IInv, WindowInv, WindowType, NoBound
<1>4. /\ W \in WindowType /\ Increasing(W.list) /\ W.bound \in Nat /\ W.bound >= win.bound
      /\ Saved(W) \subseteq Saved(win)
      /\ \A e \in win.set : e \in W.set \/ e < W.bound
      /\ x \in W.set
      /\ v = "NEW" => x \notin win.set /\ ~(x < win.bound)
  BY <1>2, <1>3, UpdateIs
<1>5. v = "NEW" => x \notin Saved(W)
  BY <1>2, <1>3, VerdictIs
<1>6. v = "DONE" => x \in Saved(win)
  BY <1>2, <1>3, DoneVerdict
<1>7. W.bound <= Acked /\ (v = "FORGOTTEN" => x <= Acked)
  <2>1. r <= Acked /\ win.bound <= Acked /\ Acked \in Nat
    BY <1>2, Numbers DEF IInv, ClientInv, BehindClient, Acked
  <2>2. W.bound = Raise(win, r).bound /\ W.bound \in {r, win.bound}
    BY <1>3 DEF Update, Raise, WindowType
  <2>3. v = "FORGOTTEN" => x <= Raise(win, r).bound
    BY DEF Verdict
  <2> HIDE DEF v, W, r
  <2> QED BY <1>2, <1>4, <2>1, <2>2, <2>3
<1> HIDE DEF v, W, r
<1>8. Grows /\ Len(hdr') <= MaxXid
  BY <1>1, SameGrows, Numbers
<1>9. v = "DONE" => runs'[x] >= 1
  BY <1>1, <1>6 DEF IInv, WindowInv
<1>10. /\ JobsInv' /\ \A u \in Workers : u # w => job'[u] = job[u]
      /\ \/ v = "NEW" /\ job'[w].st = "run" /\ job'[w].xid = x
         \/ job'[w].st \in {"resend", "forgotten", "idle"}
  <2>1. CASE v = "NEW" /\ GoTo(w, "run")
    BY <1>1, <1>8, <2>1, GoToFacts DEF Stages
  <2>2. CASE v = "DONE" /\ GoTo(w, "resend")
    BY <1>1, <1>8, <1>9, <2>2, GoToFacts DEF Stages
  <2>3. CASE v = "FORGOTTEN" /\ GoTo(w, "forgotten")
    BY <1>1, <1>8, <1>7, <2>3, GoToFacts DEF Stages, Acked
  <2>4. CASE v = "INPROGRESS" /\ Done(w)
    BY <1>1, <1>8, <2>4, DoneFacts
  <2> QED BY <1>1, <2>1, <2>2, <2>3, <2>4
<1>11. \A y \in Nat : Seen(y) => Seen(y)'
  <2> SUFFICES ASSUME NEW y \in Nat, Seen(y) PROVE y \in W.set \/ y < W.bound
    BY <1>1 DEF Seen
  <2>1. CASE y \in win.set
    BY <1>4, <2>1
  <2>2. CASE y < win.bound
    BY <1>3, <1>4, <2>2
  <2> QED BY <2>1, <2>2 DEF Seen
<1>12. Known' = Known /\ \A y : Current(y)' <=> Current(y)
  BY <1>1 DEF Known, Current
<1>13. v = "NEW" => ~Seen(x)
  BY <1>4 DEF Seen
<1>14. \A u \in Workers : Busy(u) => job[u].xid \in Nat
  BY JobFacts DEF Busy
<1>15. RunsInv'
  BY <1>1, <1>11, <1>12, Numbers DEF IInv, RunsInv
<1>16. WindowInv'
  BY <1>1, <1>4, <1>12 DEF IInv, WindowInv
<1>17. WorkInv'
  <2> SUFFICES ASSUME NEW u \in Workers, Busy(u)'
               PROVE  /\ Seen(job[u].xid)' /\ job'[u].xid \notin Saved(W)
                      /\ job'[u].st = "run" /\ Current(job[u].xid)' => runs[job'[u].xid] = 0
    BY <1>1 DEF WorkInv, At
  <2>1. CASE u # w
    <3>1. job'[u] = job[u] /\ Busy(u)
      BY <1>10, <2>1 DEF Busy
    <3>2. /\ Seen(job[u].xid) /\ job[u].xid \notin Saved(win)
          /\ job[u].st = "run" /\ Current(job[u].xid) => runs[job[u].xid] = 0
      BY <3>1 DEF IInv, WorkInv, At
    <3> DEFINE y == job[u].xid
    <3>3. y \in Nat /\ y' = y
      BY <1>14, <3>1
    <3> HIDE DEF y
    <3>4. Seen(y)' /\ (Current(y)' <=> Current(y))
      BY <1>11, <1>12, <3>2, <3>3 DEF y, Seen, Current
    <3> QED BY <1>4, <3>1, <3>2, <3>4 DEF y
  <2>2. CASE u = w
    <3>1. v = "NEW" /\ job'[w].st = "run" /\ job'[w].xid = x
      BY <1>10, <2>2 DEF Busy
    <3>2. job'[w].xid \in win'.set /\ job'[w].xid \notin Saved(W)
      BY <1>1, <1>4, <1>5, <3>1
    <3>3. Current(x) => runs[x] = 0
      <4>1. runs[x] \in Nat
        BY <1>2, Numbers
      <4> QED BY <1>2, <1>13, <3>1, <4>1 DEF IInv, RunsInv
    <3>4. Seen(job[w].xid)'
      BY <3>2 DEF Seen
    <3>5. Current(job[w].xid)' => Current(x)
      BY <1>1, <3>1 DEF Current
    <3> QED BY <2>2, <3>1, <3>2, <3>3, <3>4, <3>5
  <2> QED BY <2>1, <2>2
<1>18. OneWorker'
  <2> SUFFICES ASSUME NEW t \in Workers, NEW u \in Workers, Busy(t)', Busy(u)',
                      job'[t].xid = job'[u].xid
               PROVE  t = u
    BY DEF OneWorker
  <2>1. ASSUME NEW a \in Workers, Busy(a)', a # w
        PROVE  Busy(a) /\ job'[a] = job[a] /\ Seen(job[a].xid)
    <3>1. job'[a] = job[a] /\ Busy(a)
      BY <1>10, <2>1 DEF Busy
    <3> QED BY <3>1 DEF IInv, WorkInv
  <2>2. Busy(w)' => v = "NEW" /\ job'[w].xid = x
    BY <1>10 DEF Busy
  <2>3. CASE t # w /\ u # w
    BY <2>1, <2>3 DEF IInv, OneWorker
  <2>4. CASE t = w /\ u # w
    BY <1>13, <2>1, <2>2, <2>4
  <2>5. CASE u = w /\ t # w
    BY <1>13, <2>1, <2>2, <2>5
  <2> QED BY <2>3, <2>4, <2>5
<1>19. AtMostOnce'
  BY <1>1 DEF IInv, AtMostOnce, IsBind
<1>20. BehindClient'
  BY <1>1, <1>7 DEF BehindClient, Acked
<1> QED BY <1>1, <1>8, <1>10, <1>15, <1>16, <1>17, <1>18, <1>19, <1>20, Kept DEF IInv

LEMMA RunIInv ==
  ASSUME IInv, NEW w \in Workers, Run(w)
  PROVE  IInv'
<1> DEFINE x == job[w].xid
<1>1. /\ job[w].st = "run" /\ runs' = [runs EXCEPT ![x] = runs[x] + 1] /\ GoTo(w, "ran")
      /\ UNCHANGED <<hdr, xid_rep_window_, srv_nonce_, chan_, caller, conn, nonce_, win, conns_>>
  BY DEF Run, At, clientVars
<1>2. x \in Known /\ x \in Nat /\ x \in Xids /\ hdr[x].srv \in {0, nonce_} /\ Busy(w)
      /\ runs[x] \in Nat
  BY <1>1, JobFacts, Numbers DEF Busy
<1>3. Seen(x) /\ x \notin Saved(win) /\ (Current(x) => runs[x] = 0)
  BY <1>1, <1>2 DEF IInv, WorkInv, At
<1>4. runs' \in [Xids -> Nat] /\ runs'[x] = runs[x] + 1 /\ \A y \in Xids : y # x => runs'[y] = runs[y]
  BY <1>1, <1>2 DEF IInv, RunsInv
<1>5. \A y \in Known : runs[y] <= runs'[y] /\ runs'[y] \in Nat /\ runs[y] \in Nat
  <2> SUFFICES ASSUME NEW y \in Known
               PROVE  runs[y] <= runs'[y] /\ runs'[y] \in Nat /\ runs[y] \in Nat
    OBVIOUS
  <2>1. runs[y] \in Nat /\ y \in Xids
    BY Numbers
  <2>2. CASE y = x
    BY <1>2, <1>4, <2>2
  <2>3. CASE y # x
    BY <1>4, <2>1, <2>3
  <2> QED BY <2>2, <2>3
<1>6. Grows /\ Len(hdr') <= MaxXid
  <2>1. hdr' = hdr /\ conn' = conn /\ nonce_' = nonce_ /\ conns_' = conns_ /\ Acked' = Acked
    BY <1>1 DEF Acked
  <2> QED BY <1>5, <2>1, Numbers DEF Grows, IInv, ClientInv
<1>7. runs'[x] >= 1
  BY <1>2, <1>4
<1>8. /\ JobsInv' /\ job'[w].st = "ran" /\ job'[w].xid = x
      /\ \A v \in Workers : v # w => job'[v] = job[v]
  BY <1>1, <1>6, <1>7, GoToFacts DEF Stages
<1> HIDE DEF x
<1>9. Known' = Known /\ (\A y : Current(y)' <=> Current(y)) /\ \A y : Seen(y)' <=> Seen(y)
  BY <1>1 DEF Known, Current, Seen
<1>10. RunsInv'
  <2>1. \A y \in Xids \ Known : runs'[y] = 0
    BY <1>2, <1>4 DEF IInv, RunsInv
  <2>2. \A y \in Known : Current(y) /\ runs'[y] > 0 => Seen(y)
    BY <1>3, <1>4, Numbers DEF IInv, RunsInv
  <2> QED BY <1>4, <1>9, <2>1, <2>2 DEF RunsInv
<1>11. WindowInv'
  <2>1. \A y \in Saved(win) : y \in Known /\ runs'[y] >= 1
    BY <1>5 DEF IInv, WindowInv
  <2> QED BY <1>1, <1>9, <2>1 DEF IInv, WindowInv
<1>12. \A v \in Workers : Busy(v)' => Busy(v) /\ job'[v].xid = job[v].xid
  BY <1>2, <1>8 DEF Busy, x
<1>13. OneWorker'
  BY <1>12 DEF IInv, OneWorker
<1>14. WorkInv'
  <2> SUFFICES ASSUME NEW u \in Workers, Busy(u)'
               PROVE  /\ Seen(job[u].xid)' /\ job'[u].xid \notin Saved(win)
                      /\ job'[u].st = "run" /\ Current(job[u].xid)' => runs'[job'[u].xid] = 0
    BY <1>1 DEF WorkInv, At
  <2>1. /\ Seen(job[u].xid) /\ job[u].xid \notin Saved(win)
        /\ job[u].st = "run" /\ Current(job[u].xid) => runs[job[u].xid] = 0
    BY <1>12 DEF IInv, WorkInv, At
  <2>2. Seen(job[u].xid)' /\ job'[u].xid = job[u].xid
    BY <1>1, <1>12, <2>1 DEF Seen
  <2>3. ASSUME job'[u].st = "run", Current(job[u].xid)' PROVE runs'[job'[u].xid] = 0
    <3>1. u # w /\ job'[u] = job[u] /\ Busy(u)
      BY <1>8, <1>12, <2>3
    <3>2. job[u].xid # x
      BY <1>2, <3>1 DEF IInv, OneWorker, x
    <3>3. job[u].xid \in Xids
      BY <3>1, JobFacts, Numbers DEF Busy
    <3>4. Current(job[u].xid)
      BY <1>1, <2>3, <3>1 DEF Current
    <3> QED BY <1>4, <2>1, <2>3, <3>1, <3>2, <3>3, <3>4
  <2> QED BY <2>1, <2>2, <2>3
<1>15. AtMostOnce'
  <2> SUFFICES ASSUME NEW y \in Known, ~IsBind(y) PROVE runs'[y] <= 1
    BY <1>1 DEF AtMostOnce, IsBind, Known
  <2>1. CASE y = x
    <3>1. Current(x)
      BY <1>2, <2>1 DEF IsBind, Current
    <3> QED BY <1>2, <1>3, <1>4, <2>1, <3>1
  <2>2. CASE y # x
    BY <1>4, <2>2, Numbers DEF IInv, AtMostOnce, Known
  <2> QED BY <2>1, <2>2
<1> QED BY <1>1, <1>6, <1>8, <1>10, <1>11, <1>13, <1>14, <1>15, Kept DEF IInv

LEMMA SaveIInv ==
  ASSUME IInv, NEW w \in Workers, Save(w)
  PROVE  IInv'
<1> DEFINE x == job[w].xid
           W == AddReply(win, x)
<1>1. /\ job[w].st = "ran" /\ win' = W /\ GoTo(w, "send")
      /\ UNCHANGED <<hdr, xid_rep_window_, srv_nonce_, chan_, caller, conn, nonce_, conns_, runs>>
  BY DEF Save, At, clientVars
<1>2. x \in Known /\ x \in Nat /\ runs[x] >= 1 /\ Busy(w)
  BY <1>1, JobFacts DEF Busy
<1>3. win \in WindowType /\ Increasing(win.list) /\ x \notin Saved(win)
  BY <1>2 DEF IInv, WindowInv, WorkInv
<1>4. /\ W \in WindowType /\ Increasing(W.list) /\ Saved(W) = Saved(win) \union {x}
      /\ W.set = win.set /\ W.bound = win.bound
  BY <1>2, <1>3, AddReplyIs
<1> HIDE DEF W
<1>5. Grows /\ Len(hdr') <= MaxXid
  BY <1>1, SameGrows, Numbers
<1>6. /\ JobsInv' /\ job'[w].st = "send" /\ \A v \in Workers : v # w => job'[v] = job[v]
  BY <1>1, <1>2, <1>5, GoToFacts DEF Stages
<1> HIDE DEF x
<1>7. Known' = Known /\ (\A y : Current(y)' <=> Current(y)) /\ \A y : Seen(y)' <=> Seen(y)
  BY <1>1, <1>4 DEF Known, Current, Seen
<1>8. \A v \in Workers : Busy(v)' => v # w /\ Busy(v) /\ job'[v] = job[v]
  BY <1>6 DEF Busy
<1>9. RunsInv' /\ AtMostOnce'
  BY <1>1, <1>7 DEF IInv, RunsInv, AtMostOnce, IsBind
<1>10. WindowInv'
  BY <1>1, <1>2, <1>4, <1>7 DEF IInv, WindowInv
<1>11. OneWorker'
  BY <1>8 DEF IInv, OneWorker
<1>12. WorkInv'
  <2> SUFFICES ASSUME NEW u \in Workers, Busy(u)'
               PROVE  /\ Seen(job[u].xid)' /\ job'[u].xid \notin Saved(W)
                      /\ job'[u].st = "run" /\ Current(job[u].xid)' => runs[job'[u].xid] = 0
    BY <1>1 DEF WorkInv, At
  <2>1. u # w /\ Busy(u) /\ job'[u] = job[u]
    BY <1>8
  <2>2. /\ Seen(job[u].xid) /\ job[u].xid \notin Saved(win)
        /\ job[u].st = "run" /\ Current(job[u].xid) => runs[job[u].xid] = 0
    BY <2>1 DEF IInv, WorkInv, At
  <2>3. job[u].xid # x
    BY <1>2, <2>1 DEF IInv, OneWorker, x
  <2>4. Seen(job[u].xid)' /\ (Current(job[u].xid)' => Current(job[u].xid))
    BY <1>1, <1>4, <2>1, <2>2 DEF Seen, Current
  <2> QED BY <1>4, <2>1, <2>2, <2>3, <2>4
<1>13. BehindClient'
  BY <1>1, <1>4 DEF IInv, BehindClient, Acked
<1> QED BY <1>1, <1>5, <1>6, <1>9, <1>10, <1>11, <1>12, <1>13, Kept DEF IInv

LEMMA RestartIInv ==
  ASSUME IInv, Restart
  PROVE  IInv'
<1>1. /\ nonce_ <= MaxRestarts /\ nonce_' = nonce_ + 1 /\ win' = EmptyWindow /\ conns_' = 0
      /\ job' = [w \in Workers |-> Idle]
      /\ UNCHANGED <<hdr, xid_rep_window_, srv_nonce_, chan_, caller, runs>>
  BY DEF Restart, clientVars
<1>2. PICK f \in [Conns -> BOOLEAN] :
        conn' = [k \in Conns |->
                   [Broken(conn[k], 0, IF f[k] THEN Len(conn[k].rep) ELSE 0) EXCEPT !.sdead = TRUE]]
  BY DEF Restart
<1>3. \A k \in Conns :
        [Broken(conn[k], 0, IF f[k] THEN Len(conn[k].rep) ELSE 0) EXCEPT !.sdead = TRUE] \in Wires
  <2> SUFFICES ASSUME NEW k \in Conns
               PROVE  [Broken(conn[k], 0, IF f[k] THEN Len(conn[k].rep) ELSE 0)
                         EXCEPT !.sdead = TRUE] \in Wires
    OBVIOUS
  <2> DEFINE m == IF f[k] THEN Len(conn[k].rep) ELSE 0
  <2>1. conn[k] \in Wires
    BY WireFacts
  <2>2. Len(conn[k].req) \in Nat /\ Len(conn[k].rep) \in Nat
    BY <2>1, SeqOf DEF Wires
  <2>3. 0 \in 0..Len(conn[k].req) /\ m \in 0..Len(conn[k].rep)
    BY <2>2
  <2> HIDE DEF m
  <2>4. Broken(conn[k], 0, m) \in Wires
    BY <2>1, <2>3, BrokenWire
  <2>5. [Broken(conn[k], 0, m) EXCEPT !.sdead = TRUE] \in Wires
    <3> DEFINE b == Broken(conn[k], 0, m)
    <3> HIDE DEF b
    <3>1. b \in Wires
      BY <2>4 DEF b
    <3>2. [b EXCEPT !.sdead = TRUE] \in Wires
      BY <3>1 DEF Wires
    <3> QED BY <3>2 DEF b
  <2> QED BY <2>5 DEF m
<1>4. conn' \in Seq(Wires) /\ Len(conn') = Len(conn)
  <2> DEFINE c(k) == [Broken(conn[k], 0, IF f[k] THEN Len(conn[k].rep) ELSE 0) EXCEPT !.sdead = TRUE]
  <2>1. conn' = [k \in 1..Len(conn) |-> c(k)] /\ \A k \in 1..Len(conn) : c(k) \in Wires
    BY <1>2, <1>3 DEF Conns
  <2> HIDE DEF c
  <2> QED BY <2>1, Numbers
<1>5. Grows /\ Len(hdr') <= MaxXid
  <2>1. nonce_' \in Nat /\ nonce_ <= nonce_' /\ nonce_' # nonce_
    BY <1>1, Numbers
  <2>2. \A x \in Known : runs[x] <= runs'[x] /\ runs'[x] \in Nat
    BY <1>1, Numbers
  <2>3. hdr' = hdr /\ hdr \in Seq([rep : Nat, srv : Nat]) /\ Len(hdr) <= MaxXid /\ Len(hdr) \in Nat
    BY <1>1, Numbers DEF IInv, ClientInv
  <2>4. Acked' = Acked
    BY <1>1 DEF Acked
  <2> QED BY <1>1, <1>4, <2>1, <2>2, <2>3, <2>4, Numbers DEF Grows
<1>6. WiresInv'
  <2>1. conn' \in Seq(Wires')
    BY <1>4, <1>5, StillKnown, SeqMono
  <2> QED BY <1>1, <1>4, <2>1 DEF IInv, WiresInv
<1>7. JobsInv'
  BY <1>1, <1>4, Numbers DEF IInv, JobsInv
<1>8. Known' = Known
  BY <1>1 DEF Known
<1>9. RunsInv'
  <2>1. \A x \in Known : ~Current(x)'
    <3> SUFFICES ASSUME NEW x \in Known PROVE hdr[x].srv # nonce_ + 1
      BY <1>1 DEF Current
    <3>1. hdr[x].srv <= nonce_ /\ hdr[x].srv \in Nat /\ nonce_ \in Nat
      BY Numbers DEF IInv, ClientInv
    <3> QED BY <3>1
  <2> QED BY <1>1, <1>8, <2>1 DEF IInv, RunsInv
<1>10. WindowInv'
  <2>1. win'.list = <<>> /\ win' \in WindowType
    BY <1>1 DEF WindowType, EmptyWindow, NoBound
  <2>2. Saved(win') = {} /\ Increasing(win'.list)
    BY <2>1 DEF Saved, Elements, Increasing
  <2> QED BY <2>1, <2>2 DEF WindowInv, Saved
<1>11. \A w \in Workers : ~Busy(w)'
  BY <1>1 DEF Busy, Idle
<1>12. WorkInv' /\ OneWorker'
  BY <1>11 DEF WorkInv, OneWorker
<1>13. AtMostOnce'
  BY <1>1 DEF IInv, AtMostOnce, IsBind
<1>14. BehindClient'
  <2>1. win'.bound = -1 /\ Acked' = Acked /\ Acked \in Nat
    BY <1>1, Numbers DEF EmptyWindow, NoBound, Acked
  <2> QED BY <2>1 DEF BehindClient
<1> QED BY <1>1, <1>5, <1>6, <1>7, <1>9, <1>10, <1>12, <1>13, <1>14, Kept DEF IInv

LEMMA NextIInv == IInv /\ [Next]_vars => IInv'
<1> SUFFICES ASSUME IInv, [Next]_vars PROVE IInv'
  OBVIOUS
<1>1. CASE UNCHANGED vars
  BY <1>1, StutterIInv
<1>2. ASSUME NEW i \in Callers, Begin(i) \/ CallStep(i) PROVE IInv'
  BY <1>2, BeginIInv, TransmitIInv, WaitIInv, FinishIInv DEF CallStep
<1>3. ASSUME NEW k \in ConnIds, Break(k) \/ ClientEOF(k) \/ ServerEOF(k) \/ ClientRecv(k) PROVE IInv'
  BY <1>3, NetworkIInv, ClientRecvIInv
<1>4. ASSUME NEW w \in Workers, NEW k \in ConnIds, Arrive(w, k) PROVE IInv'
  BY <1>4, ArriveIInv
<1>5. ASSUME NEW w \in Workers, ServerStep(w) PROVE IInv'
  BY <1>5, CheckIInv, RunIInv, SaveIInv, SendIInv DEF ServerStep
<1>6. CASE Restart
  BY <1>6, RestartIInv
<1> QED BY <1>1, <1>2, <1>3, <1>4, <1>5, <1>6 DEF Next

-------------------------------------------------------------------------------
(* The theorems.                                                           *)

\* The inductive invariant holds in every reachable state.
THEOREM Invariance == Spec => []IInv
BY InitIInv, NextIInv, PTL DEF Spec

\* No connection, server instance or xid is named before it exists.
THEOREM TypeCorrect == Spec => []TypeOK
<1>1. IInv => TypeOK
  <2> SUFFICES ASSUME IInv PROVE TypeOK
    OBVIOUS
  <2>1. Known \subseteq Xids
    BY Numbers
  <2> DEFINE R == [xid : Xids, ret : Results, by : 1..nonce_]
             K == [up : BOOLEAN, cdead : BOOLEAN, sdead : BOOLEAN, req : Seq(Xids), rep : Seq(R)]
             C == [st : {"transmit", "wait", "finish", "returned"}, xid : Xids, ch : 0..Len(conn),
                   final : BOOLEAN, done : BOOLEAN, ret : Results, by : 0..nonce_]
             J == [st : {"arrived", "run", "ran", "send", "resend", "forgotten"}, xid : Xids,
                   ch : Conns]
  <2>2. Answers \subseteq R
    BY <2>1 DEF Answers
  <2>3. Wires \subseteq K
    <3> SUFFICES ASSUME NEW k \in Wires PROVE k \in K
      OBVIOUS
    <3>1. k.req \in Seq(Xids) /\ k.rep \in Seq(R)
      <4> HIDE DEF R
      <4> QED BY <2>1, <2>2, SeqMono DEF Wires
    <3> QED BY <3>1 DEF Wires
  <2>4. conn \in Seq(K)
    <3> HIDE DEF K
    <3> QED BY <2>3, SeqMono DEF IInv, WiresInv
  <2>5. Calls \subseteq C
    BY <2>1 DEF Calls
  <2>6. Requests \subseteq J
    <3>1. 1..conns_ \subseteq Conns
      BY Numbers DEF Conns
    <3> QED BY <2>1, <3>1 DEF Requests, Stages
  <2>7. caller \in [Callers -> {Out} \union C] /\ job \in [Workers -> {Idle} \union J]
    <3> HIDE DEF C, J
    <3> QED BY <2>5, <2>6 DEF IInv, CallersInv, JobsInv
  <2> QED BY <2>4, <2>7 DEF IInv, TypeOK, ClientInv, WiresInv, JobsInv, RunsInv, WindowInv
<1> QED BY <1>1, Invariance, PTL

\* rpcs never runs the handler of one call twice, although rpcc sends it again on
\* every new connection, several dispatch threads take its copies and the server
\* is restarted in between.
THEOREM AtMostOnceHolds == Spec => []AtMostOnce
<1>1. IInv => AtMostOnce
  BY DEF IInv
<1> QED BY <1>1, Invariance, PTL

\* When call1 returns a success the handler ran, in the server instance whose
\* nonce the client got from bind.
THEOREM SuccessIsGenuineHolds == Spec => []SuccessIsGenuine
<1>1. IInv => SuccessIsGenuine
  <2> SUFFICES ASSUME IInv, NEW i \in Callers, caller[i].st # "out", caller[i].done,
                      caller[i].ret = "ok"
               PROVE  Genuine(caller[i].xid, caller[i].by)
    BY DEF SuccessIsGenuine, Genuine
  <2>1. caller[i] \in Calls
    BY CallFacts
  <2> QED BY <2>1 DEF Calls
<1> QED BY <1>1, Invariance, PTL

\* What a caller that waits can rely on, and what one with an answer was told.
WaitersRemembered == \A i \in Callers :
  /\ Waiting(i) => win.bound < caller[i].xid
  /\ caller[i].st # "out" /\ caller[i].done => caller[i].ret # "atmostonce_failure"

\* checkduplicate_and_update frees nothing of a call somebody waits for, and no
\* caller is told that its call was forgotten, whichever copies, acknowledgements
\* and replies are late and whichever server instance they reach.
THEOREM WaitersRememberedHolds == Spec => []WaitersRemembered
<1>1. IInv => WaitersRemembered
  <2> SUFFICES ASSUME IInv, NEW i \in Callers
               PROVE  /\ Waiting(i) => win.bound < caller[i].xid
                      /\ caller[i].st # "out" /\ caller[i].done =>
                           caller[i].ret # "atmostonce_failure"
    BY DEF WaitersRemembered
  <2>1. ASSUME Waiting(i) PROVE win.bound < caller[i].xid
    <3>1. caller[i].xid \in Nat /\ caller[i].xid > Acked /\ Acked \in Nat
      BY <2>1, CallFacts, Numbers DEF IInv, WaitersInv, Waiting, InCall
    <3>2. win.bound \in Int /\ win.bound <= Acked
      BY DEF IInv, WindowInv, WindowType, NoBound, BehindClient
    <3> QED BY <3>1, <3>2
  <2>2. ASSUME caller[i].st # "out", caller[i].done
        PROVE  caller[i].ret # "atmostonce_failure"
    <3>1. caller[i] \in Calls
      BY <2>2, CallFacts
    <3> QED BY <2>2, <3>1 DEF Calls
  <2> QED BY <2>1, <2>2
<1> QED BY <1>1, Invariance, PTL

-------------------------------------------------------------------------------
(* The refinement of RpcServer.                                            *)

\* RpcServer's variables in this system.
SentBar == [c \in {"clt"} |-> [x \in 1..Len(hdr) |-> hdr[x].rep]]
WinBar == [c \in {"clt"} |-> win]
JobBar == [w \in Workers |->
             IF At(w, "idle") THEN Idle
             ELSE [st |-> IF At(w, "resend") THEN "send" ELSE job[w].st,
                   clt |-> "clt", xid |-> job[w].xid, rep |-> hdr[job[w].xid].rep]]
RunsBar == [c \in {"clt"} |-> runs]
BarVars == <<SentBar, WinBar, JobBar, RunsBar>>

\* The operators on reply windows are the same on both sides.
LEMMA SameWindow ==
  ASSUME NEW W, NEW x, NEW r
  PROVE  /\ Server!Update(W, x, r) = Update(W, x, r) /\ Server!Verdict(W, x, r) = Verdict(W, x, r)
         /\ Server!AddReply(W, x) = AddReply(W, x)
<1>1. \A s, y : Server!CountBelow(s, y) = CountBelow(s, y)
  BY DEF Server!CountBelow, CountBelow
<1>2. \A s, y : Server!DropBelow(s, y) = DropBelow(s, y)
  BY <1>1 DEF Server!DropBelow, DropBelow
<1>3. Server!Raise(W, r) = Raise(W, r)
  BY <1>2 DEF Server!Raise, Raise, Server!NoBound, NoBound
<1>4. \A V : Server!Saved(V) = Saved(V)
  BY DEF Server!Saved, Saved, Server!Elements, Elements
<1> QED BY <1>1, <1>3, <1>4 DEF Server!Update, Update, Server!Verdict, Verdict, Server!AddReply, AddReply

\* A step that the server's side does not see.
LEMMA Unseen ==
  ASSUME UNCHANGED <<hdr, win, job, runs>>
  PROVE  UNCHANGED BarVars
BY DEF BarVars, SentBar, WinBar, JobBar, RunsBar, At

\* rpcc's next call is one that RpcServer's clients may make.
LEMMA BeginRefines ==
  ASSUME IInv, NEW i \in Callers, Begin(i)
  PROVE  Server!Next
<1> DEFINE h == [rep |-> xid_rep_window_.front, srv |-> srv_nonce_]
           n == Len(hdr)
           S == [x \in 1..n |-> hdr[x].rep]
<1>1. /\ n < MaxXid /\ hdr' = Append(hdr, h) /\ UNCHANGED <<win, job, runs>>
  BY DEF Begin, serverVars
<1>2. /\ hdr \in Seq([rep : Nat, srv : Nat]) /\ n \in Nat /\ MaxXid \in Nat
      /\ xid_rep_window_.front \in Nat /\ xid_rep_window_.front <= n
      /\ \A x \in 1..n : hdr[x].rep \in Nat /\ hdr[x].rep <= xid_rep_window_.front
  BY Numbers DEF IInv, ClientInv, Known
<1>3. /\ Len(hdr') = n + 1 /\ hdr'[n + 1] = h /\ h.rep = xid_rep_window_.front
      /\ \A x \in 1..n : hdr'[x] = hdr[x]
  BY <1>1, <1>2
<1> HIDE DEF h
<1>4. S \in Seq(Nat) /\ Len(S) = n /\ \A x \in 1..n : S[x] = hdr[x].rep
  BY <1>2
<1>5. [x \in 1..Len(hdr') |-> hdr'[x].rep] = Append(S, xid_rep_window_.front)
  <2> DEFINE L == [x \in 1..(n + 1) |-> hdr'[x].rep]
             R == Append(S, xid_rep_window_.front)
  <2>1. R \in Seq(Nat) /\ Len(R) = n + 1 /\ R[n + 1] = xid_rep_window_.front
        /\ \A x \in 1..n : R[x] = S[x]
    <3> HIDE DEF S, n
    <3> QED BY <1>2, <1>4
  <2>2. L \in Seq(Nat) /\ Len(L) = n + 1 /\ L[n + 1] = xid_rep_window_.front
        /\ \A x \in 1..n : L[x] = S[x]
    <3>1. \A x \in 1..(n + 1) : hdr'[x].rep \in Nat
      <4> SUFFICES ASSUME NEW x \in 1..(n + 1) PROVE hdr'[x].rep \in Nat
        OBVIOUS
      <4>1. CASE x = n + 1
        BY <1>2, <1>3, <4>1
      <4>2. CASE x # n + 1
        <5>1. x \in 1..n
          BY <1>2, <4>2
        <5> QED BY <1>2, <1>3, <5>1
      <4> QED BY <4>1, <4>2
    <3>2. n + 1 \in 1..(n + 1) /\ \A x \in 1..n : x \in 1..(n + 1)
      BY <1>2
    <3>3. L[n + 1] = xid_rep_window_.front /\ \A x \in 1..n : L[x] = S[x]
      BY <1>3, <1>4, <3>2
    <3>4. L \in Seq(Nat) /\ Len(L) = n + 1
      <4> HIDE DEF n
      <4> QED BY <1>2, <3>1
    <3> QED BY <3>3, <3>4
  <2>3. \A x \in 1..(n + 1) : L[x] = R[x]
    <3> SUFFICES ASSUME NEW x \in 1..(n + 1) PROVE L[x] = R[x]
      OBVIOUS
    <3> HIDE DEF L, R, S, n
    <3>1. x = n + 1 \/ x \in 1..n
      BY <1>2
    <3> QED BY <2>1, <2>2, <3>1
  <2>4. L = R
    <3> HIDE DEF L, R, S, n
    <3> QED BY <2>1, <2>2, <2>3
  <2> QED BY <1>3, <2>4
<1>6. SentBar' = [SentBar EXCEPT !["clt"] = Append(SentBar["clt"], xid_rep_window_.front)]
  <2> HIDE DEF n
  <2>1. SentBar["clt"] = S
    BY DEF SentBar, n
  <2>2. SentBar' = [c \in {"clt"} |-> Append(S, xid_rep_window_.front)]
    BY <1>5 DEF SentBar
  <2> QED BY <2>1, <2>2 DEF SentBar
<1>7. JobBar' = JobBar
  <2>1. \A w \in Workers : ~At(w, "idle") => hdr'[job[w].xid] = hdr[job[w].xid]
    BY <1>3, JobFacts DEF At, Known
  <2> QED BY <1>1, <2>1 DEF JobBar, At
<1>8. WinBar' = WinBar /\ RunsBar' = RunsBar
  BY <1>1 DEF WinBar, RunsBar
<1>9. Len(SentBar["clt"]) = n
  BY <1>4 DEF SentBar
<1>10. Server!LastRep("clt") \in Nat /\ Server!LastRep("clt") <= xid_rep_window_.front
  <2>1. SentBar["clt"] = S
    BY DEF SentBar
  <2>2. Server!LastRep("clt") = IF S = <<>> THEN 0 ELSE S[Len(S)]
    BY <2>1 DEF Server!LastRep, SentBar
  <2>3. CASE S = <<>>
    BY <1>2, <2>2, <2>3
  <2>4. CASE S # <<>>
    <3>1. n \in 1..n
      <4> HIDE DEF S, n
      <4> QED BY <1>2, <1>4, <2>4
    <3> QED BY <1>2, <1>4, <2>2, <2>4, <3>1
  <2> QED BY <2>3, <2>4
<1>11. xid_rep_window_.front \in Server!LastRep("clt")..n
  BY <1>2, <1>10
<1>12. PICK front \in 0..MaxXid : front = xid_rep_window_.front
  BY <1>1, <1>2
<1>13. Server!Call("clt", front)
  BY <1>1, <1>6, <1>7, <1>8, <1>9, <1>11, <1>12
  DEF Server!Call, SentBar, WinBar, JobBar, RunsBar
<1>14. \E c \in {"clt"}, rep \in 0..MaxXid : Server!Call(c, rep)
  BY <1>13
<1> QED BY <1>14 DEF Server!Next

\* A thread's job as RpcServer sees it, and a step that moves only that thread.
LEMMA BarFacts ==
  ASSUME IInv, NEW w \in Workers, job[w].st # "idle"
  PROVE  /\ JobBar[w] = [st |-> IF At(w, "resend") THEN "send" ELSE job[w].st,
                         clt |-> "clt", xid |-> job[w].xid, rep |-> hdr[job[w].xid].rep]
         /\ JobBar[w].clt = "clt" /\ JobBar[w].xid = job[w].xid
         /\ JobBar[w].rep = hdr[job[w].xid].rep
         /\ job[w].st # "resend" => JobBar[w].st = job[w].st
         /\ job[w].st = "resend" => JobBar[w].st = "send"
BY DEF JobBar, At

LEMMA BarMoves ==
  ASSUME NEW w \in Workers, hdr' = hdr, \A v \in Workers : v # w => job'[v] = job[v]
  PROVE  JobBar' = [JobBar EXCEPT ![w] = JobBar'[w]]
<1>1. \A v \in Workers : v # w => JobBar'[v] = JobBar[v]
  BY DEF JobBar, At
<1>2. JobBar = [v \in Workers |-> JobBar[v]] /\ JobBar' = [v \in Workers |-> JobBar'[v]]
  BY DEF JobBar
<1> HIDE DEF JobBar
<1> QED BY <1>1, <1>2

LEMMA BarGoTo ==
  ASSUME IInv, IInv', NEW w \in Workers, hdr' = hdr, job[w].st # "idle", NEW s \in Stages,
         GoTo(w, s)
  PROVE  JobBar' = [JobBar EXCEPT ![w].st = IF s = "resend" THEN "send" ELSE s]
<1> DEFINE t == IF s = "resend" THEN "send" ELSE s
<1>1. job[w] \in Requests
  BY JobFacts
<1>2. job' = [job EXCEPT ![w] = [job[w] EXCEPT !.st = s]]
  BY DEF GoTo
<1>3. /\ job'[w].st = s /\ job'[w].xid = job[w].xid
      /\ \A v \in Workers : v # w => job'[v] = job[v]
  BY <1>1, <1>2 DEF IInv, JobsInv, Requests
<1>4. JobBar'[w] = [st |-> t, clt |-> "clt", xid |-> job[w].xid, rep |-> hdr[job[w].xid].rep]
  BY <1>3 DEF JobBar, At, Stages
<1>5. JobBar[w] = [st |-> IF At(w, "resend") THEN "send" ELSE job[w].st,
                   clt |-> "clt", xid |-> job[w].xid, rep |-> hdr[job[w].xid].rep]
  BY BarFacts
<1>6. JobBar' = [JobBar EXCEPT ![w] = JobBar'[w]]
  BY <1>3, BarMoves
<1> HIDE DEF JobBar, t
<1>7. [JobBar[w] EXCEPT !.st = t] = JobBar'[w]
  BY <1>4, <1>5
<1>8. JobBar' = [JobBar EXCEPT ![w] = [JobBar[w] EXCEPT !.st = t]]
  BY <1>6, <1>7
<1> QED BY <1>8 DEF t

LEMMA BarDone ==
  ASSUME IInv, NEW w \in Workers, hdr' = hdr, Done(w)
  PROVE  JobBar' = [JobBar EXCEPT ![w] = Idle]
<1>1. job'[w] = Idle /\ \A v \in Workers : v # w => job'[v] = job[v]
  BY DEF IInv, JobsInv, Done
<1>2. JobBar'[w] = Idle
  BY <1>1 DEF JobBar, At, Idle
<1>3. JobBar' = [JobBar EXCEPT ![w] = JobBar'[w]]
  BY <1>1, BarMoves
<1> QED BY <1>2, <1>3

LEMMA ArriveRefines ==
  ASSUME IInv, IInv', NEW w \in Workers, NEW k, Arrive(w, k)
  PROVE  Server!Next \/ UNCHANGED BarVars
<1> DEFINE x == Head(conn[k].req)
           j == [st |-> "arrived", xid |-> x, ch |-> k]
<1>1. /\ job[w].st = "idle" /\ k \in Conns /\ conn[k].req # <<>> /\ UNCHANGED <<hdr, win, runs>>
  BY DEF Arrive, At, clientVars
<1>2. x \in Known
  <2>1. conn[k] \in Wires
    BY <1>1, WireFacts
  <2> QED BY <1>1, <2>1, SeqOf DEF Wires
<1>3. CASE job' = job
  BY <1>1, <1>3, Unseen
<1>4. CASE job' = [job EXCEPT ![w] = j]
  <2> HIDE DEF x
  <2>1. job'[w] = j /\ \A v \in Workers : v # w => job'[v] = job[v]
    BY <1>4 DEF IInv, JobsInv
  <2>2. JobBar'[w] = [st |-> "arrived", clt |-> "clt", xid |-> x, rep |-> hdr[x].rep]
    BY <1>1, <2>1 DEF JobBar, At
  <2>3. JobBar' = [JobBar EXCEPT ![w] = JobBar'[w]]
    BY <1>1, <2>1, BarMoves
  <2>4. JobBar[w].st = "idle"
    BY <1>1 DEF JobBar, At, Idle
  <2>5. /\ SentBar["clt"][x] = hdr[x].rep /\ Len(SentBar["clt"]) = Len(hdr)
        /\ x \in Xids /\ x <= Len(hdr)
    <3>1. x \in 1..Len(hdr) /\ Len(hdr) \in Nat /\ x \in Xids
      BY <1>2, Numbers DEF Known
    <3>2. Len([y \in 1..Len(hdr) |-> hdr[y].rep]) = Len(hdr)
      BY <3>1
    <3> QED BY <3>1, <3>2 DEF SentBar
  <2>6. WinBar' = WinBar /\ RunsBar' = RunsBar /\ SentBar' = SentBar
    BY <1>1 DEF WinBar, RunsBar, SentBar
  <2>7. JobBar' = [JobBar EXCEPT ![w] = [st |-> "arrived", clt |-> "clt", xid |-> x,
                                         rep |-> SentBar["clt"][x]]]
    BY <2>2, <2>3, <2>5
  <2> PICK z \in Xids : z = x
    BY <2>5
  <2>8. Server!Deliver(w, "clt", z)
    BY <2>4, <2>5, <2>6, <2>7 DEF Server!Deliver, Server!At, SentBar, WinBar, JobBar, RunsBar
  <2>9. \E v \in Workers, c \in {"clt"}, y \in Server!Xids : Server!Deliver(v, c, y)
    BY <2>8 DEF Server!Xids, Xids
  <2> QED BY <2>9 DEF Server!Next
<1> QED BY <1>3, <1>4 DEF Arrive

LEMMA CheckRefines ==
  ASSUME IInv, IInv', NEW w \in Workers, Check(w)
  PROVE  Server!Next
<1> DEFINE x == job[w].xid
           r == hdr[x].rep
           v == Verdict(win, x, r)
<1>1. /\ job[w].st = "arrived" /\ win' = Update(win, x, r) /\ UNCHANGED <<hdr, runs>>
      /\ \/ v = "NEW" /\ GoTo(w, "run")
         \/ v = "DONE" /\ GoTo(w, "resend")
         \/ v = "FORGOTTEN" /\ GoTo(w, "forgotten")
         \/ v = "INPROGRESS" /\ Done(w)
  BY DEF Check, At, clientVars
<1>2. JobBar[w].st = "arrived" /\ JobBar[w].clt = "clt" /\ JobBar[w].xid = x /\ JobBar[w].rep = r
  BY <1>1, BarFacts
<1>3. WinBar["clt"] = win /\ WinBar' = [WinBar EXCEPT !["clt"] = Server!Update(win, x, r)]
  BY <1>1, SameWindow DEF WinBar
<1>4. v = Server!Verdict(win, x, r)
  BY SameWindow
<1> HIDE DEF v
<1>5. \/ v = "NEW" /\ JobBar' = [JobBar EXCEPT ![w].st = "run"]
      \/ v = "DONE" /\ JobBar' = [JobBar EXCEPT ![w].st = "send"]
      \/ v = "FORGOTTEN" /\ JobBar' = [JobBar EXCEPT ![w].st = "forgotten"]
      \/ v = "INPROGRESS" /\ JobBar' = [JobBar EXCEPT ![w] = Idle]
  <2>1. CASE v = "NEW" /\ GoTo(w, "run")
    BY <1>1, <2>1, BarGoTo DEF Stages
  <2>2. CASE v = "DONE" /\ GoTo(w, "resend")
    BY <1>1, <2>2, BarGoTo DEF Stages
  <2>3. CASE v = "FORGOTTEN" /\ GoTo(w, "forgotten")
    BY <1>1, <2>3, BarGoTo DEF Stages
  <2>4. CASE v = "INPROGRESS" /\ Done(w)
    BY <1>1, <2>4, BarDone
  <2> QED BY <1>1, <2>1, <2>2, <2>3, <2>4
<1>6. RunsBar' = RunsBar /\ SentBar' = SentBar
  BY <1>1 DEF RunsBar, SentBar
<1>7. Server!Check(w)
  BY <1>2, <1>3, <1>4, <1>5, <1>6
     DEF Server!Check, Server!At, Server!GoTo, Server!Done, Server!Idle, Idle,
         SentBar, WinBar, JobBar, RunsBar
<1> QED BY <1>7 DEF Server!Next

LEMMA RunRefines ==
  ASSUME IInv, IInv', NEW w \in Workers, Run(w)
  PROVE  Server!Next
<1> DEFINE x == job[w].xid
<1>1. /\ job[w].st = "run" /\ runs' = [runs EXCEPT ![x] = runs[x] + 1] /\ GoTo(w, "ran")
      /\ UNCHANGED <<hdr, win>>
  BY DEF Run, At, clientVars
<1>2. JobBar[w].st = "run" /\ JobBar[w].clt = "clt" /\ JobBar[w].xid = x
  BY <1>1, BarFacts
<1>3. JobBar' = [JobBar EXCEPT ![w].st = "ran"]
  BY <1>1, BarGoTo DEF Stages
<1>4. RunsBar' = [RunsBar EXCEPT !["clt"] = [RunsBar["clt"] EXCEPT ![x] = RunsBar["clt"][x] + 1]]
  BY <1>1 DEF RunsBar
<1>5. WinBar' = WinBar /\ SentBar' = SentBar
  BY <1>1 DEF WinBar, SentBar
<1>6. Server!Run(w)
  BY <1>2, <1>3, <1>4, <1>5
     DEF Server!Run, Server!At, Server!GoTo, SentBar, WinBar, JobBar, RunsBar
<1> QED BY <1>6 DEF Server!Next

LEMMA SaveRefines ==
  ASSUME IInv, IInv', NEW w \in Workers, Save(w)
  PROVE  Server!Next
<1> DEFINE x == job[w].xid
<1>1. /\ job[w].st = "ran" /\ win' = AddReply(win, x) /\ GoTo(w, "send")
      /\ UNCHANGED <<hdr, runs>>
  BY DEF Save, At, clientVars
<1>2. JobBar[w].st = "ran" /\ JobBar[w].clt = "clt" /\ JobBar[w].xid = x
  BY <1>1, BarFacts
<1>3. JobBar' = [JobBar EXCEPT ![w].st = "send"]
  BY <1>1, BarGoTo DEF Stages
<1>4. WinBar["clt"] = win /\ WinBar' = [WinBar EXCEPT !["clt"] = Server!AddReply(win, x)]
  BY <1>1, SameWindow DEF WinBar
<1>5. RunsBar' = RunsBar /\ SentBar' = SentBar
  BY <1>1 DEF RunsBar, SentBar
<1>6. Server!Save(w)
  BY <1>2, <1>3, <1>4, <1>5
     DEF Server!Save, Server!At, Server!GoTo, SentBar, WinBar, JobBar, RunsBar
<1> QED BY <1>6 DEF Server!Next

LEMMA SendRefines ==
  ASSUME IInv, IInv', NEW w \in Workers, Send(w)
  PROVE  Server!Next
<1>1. /\ job[w].st \in {"send", "resend", "forgotten"} /\ Done(w) /\ UNCHANGED <<hdr, win, runs>>
  BY DEF Send, clientVars
<1>2. JobBar[w].st \in {"send", "forgotten"}
  BY <1>1, BarFacts
<1>3. JobBar' = [JobBar EXCEPT ![w] = Idle]
  BY <1>1, BarDone
<1>4. WinBar' = WinBar /\ RunsBar' = RunsBar /\ SentBar' = SentBar
  BY <1>1 DEF WinBar, RunsBar, SentBar
<1>5. Server!Send(w)
  BY <1>2, <1>3, <1>4
     DEF Server!Send, Server!At, Server!Done, Server!Idle, Idle, SentBar, WinBar, JobBar, RunsBar
<1> QED BY <1>5 DEF Server!Next

\* rpcs between two restarts, with its client and the connections that fail, does
\* what RpcServer allows.
THEOREM Refinement == Spec => ImplementsRpcServer
<1>1. Init => Server!Init
  <2> SUFFICES ASSUME Init PROVE Server!Init
    OBVIOUS
  <2>1. SentBar = [c \in {"clt"} |-> <<>>] /\ WinBar = [c \in {"clt"} |-> EmptyWindow]
    BY DEF Init, SentBar, WinBar
  <2>2. JobBar = [w \in Workers |-> Idle] /\ RunsBar = [c \in {"clt"} |-> [x \in Xids |-> 0]]
    BY DEF Init, JobBar, RunsBar, At, Idle
  <2> QED BY <2>1, <2>2 DEF Server!Init, SentBar, WinBar, JobBar, RunsBar, Server!Idle, Idle,
             Server!EmptyWindow, EmptyWindow, Server!NoBound, NoBound, Server!Xids, Xids
<1>2. IInv /\ IInv' /\ [Next]_vars => [nonce_' # nonce_ \/ Server!Next]_(Server!vars)
  <2> SUFFICES ASSUME IInv, IInv', [Next]_vars, nonce_' = nonce_
               PROVE  Server!Next \/ UNCHANGED BarVars
    BY DEF Server!vars, BarVars, SentBar, WinBar, JobBar, RunsBar
  <2>1. CASE UNCHANGED vars
    BY <2>1, Unseen DEF vars, clientVars, serverVars
  <2>2. ASSUME NEW i \in Callers, Begin(i) PROVE Server!Next
    BY <2>2, BeginRefines
  <2>3. ASSUME NEW i \in Callers, CallStep(i) PROVE UNCHANGED BarVars
    BY <2>3, Unseen DEF CallStep, Transmit, Timeout, GotReply, Finish, serverVars
  <2>4. ASSUME NEW k \in ConnIds, Break(k) \/ ClientEOF(k) \/ ServerEOF(k) \/ ClientRecv(k)
        PROVE  UNCHANGED BarVars
    BY <2>4, Unseen DEF Break, ClientEOF, ServerEOF, ClientRecv, clientVars, serverVars
  <2>5. ASSUME NEW w \in Workers, NEW k \in ConnIds, Arrive(w, k)
        PROVE  Server!Next \/ UNCHANGED BarVars
    BY <2>5, ArriveRefines
  <2>6. ASSUME NEW w \in Workers, ServerStep(w) PROVE Server!Next
    BY <2>6, CheckRefines, RunRefines, SaveRefines, SendRefines DEF ServerStep
  <2>7. ~Restart
    BY Numbers DEF Restart
  <2> QED BY <2>1, <2>2, <2>3, <2>4, <2>5, <2>6, <2>7 DEF Next
<1> QED BY <1>1, <1>2, Invariance, PTL DEF Spec, ImplementsRpcServer

-------------------------------------------------------------------------------
(* Acknowledgements only move forward.                                     *)

AckStep == /\ Acked' >= Acked
           /\ nonce_' # nonce_ \/ win'.bound >= win.bound

\* update_xid_rep never takes the client's acknowledgement back, and between two
\* restarts reply_lower_bound_ does not decrease, although requests overtake each
\* other on several connections.
THEOREM AckForward == Spec => [][AckStep]_vars
<1>1. IInv /\ [Next]_vars => [AckStep]_vars
  <2> SUFFICES ASSUME IInv, Next PROVE AckStep
    OBVIOUS
  <2>1. /\ win \in WindowType /\ Increasing(win.list) /\ win.bound \in Int /\ Acked \in Nat
    BY Numbers DEF IInv, WindowInv, WindowType, NoBound
  <2>2. CASE UNCHANGED <<win, xid_rep_window_>>
    BY <2>1, <2>2 DEF AckStep, Acked
  <2>3. ASSUME NEW x \in Known, xid_rep_window_' = UpdateXidRep(xid_rep_window_, x), win' = win
        PROVE  AckStep
    <3>1. Acked' \in Nat /\ Acked <= Acked'
      BY <2>3, Reported
    <3> QED BY <2>1, <2>3, <3>1 DEF AckStep
  <2>4. ASSUME NEW i \in Callers, Begin(i) \/ CallStep(i) PROVE AckStep
    <3>1. CASE Finish(i)
      <4>1. caller[i].xid \in Known
        BY <3>1, CallFacts DEF Finish
      <4> QED BY <2>3, <3>1, <4>1 DEF Finish, serverVars
    <3> QED BY <2>2, <2>4, <3>1 DEF CallStep, Begin, Transmit, Timeout, GotReply, serverVars
  <2>5. ASSUME NEW k \in ConnIds, Break(k) \/ ClientEOF(k) \/ ServerEOF(k) \/ ClientRecv(k)
        PROVE  AckStep
    <3>1. CASE ClientRecv(k)
      <4>1. /\ k \in Conns /\ conn[k].rep # <<>> /\ win' = win
            /\ xid_rep_window_' = UpdateXidRep(xid_rep_window_, Head(conn[k].rep).xid)
        BY <3>1 DEF ClientRecv, serverVars
      <4>2. conn[k].rep \in Seq(Answers)
        BY <4>1, WireFacts DEF Wires
      <4>3. Head(conn[k].rep) \in Answers
        BY <4>1, <4>2, SeqOf
      <4>4. Head(conn[k].rep).xid \in Known
        BY <4>3 DEF Answers
      <4> QED BY <2>3, <4>1, <4>4
    <3> QED BY <2>2, <2>5, <3>1 DEF Break, ClientEOF, ServerEOF, serverVars, clientVars
  <2>6. ASSUME NEW w \in Workers, Check(w) PROVE AckStep
    <3> DEFINE x == job[w].xid
               W == Update(win, x, hdr[x].rep)
    <3>1. x \in Nat /\ hdr[x].rep \in Nat
      BY <2>6, JobFacts, Numbers DEF Check, At
    <3>2. W.bound \in Nat /\ W.bound >= win.bound
      BY <2>1, <3>1, UpdateIs
    <3>3. win' = W /\ xid_rep_window_' = xid_rep_window_
      BY <2>6 DEF Check, clientVars
    <3> HIDE DEF W
    <3> QED BY <2>1, <3>2, <3>3 DEF AckStep, Acked
  <2>7. ASSUME NEW w \in Workers, Save(w) PROVE AckStep
    <3>1. win'.bound = win.bound /\ xid_rep_window_' = xid_rep_window_
      BY <2>1, <2>7 DEF Save, AddReply, WindowType, clientVars
    <3> QED BY <2>1, <3>1 DEF AckStep, Acked
  <2>8. CASE Restart
    <3>1. nonce_' # nonce_ /\ xid_rep_window_' = xid_rep_window_
      BY <2>8, Numbers DEF Restart, clientVars
    <3> QED BY <2>1, <3>1 DEF AckStep, Acked
  <2>9. ASSUME NEW w \in Workers, (\E k \in ConnIds : Arrive(w, k)) \/ Run(w) \/ Send(w)
        PROVE  AckStep
    BY <2>2, <2>9 DEF Arrive, Run, Send, clientVars
  <2> QED BY <2>4, <2>5, <2>6, <2>7, <2>8, <2>9 DEF Next, ServerStep
<1> QED BY <1>1, Invariance, PTL DEF Spec
===============================================================================
