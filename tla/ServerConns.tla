----------------------------- MODULE ServerConns -----------------------------
(***************************************************************************)
(* The connections of one rpcs: the listener that accepts and collects     *)
(* them (tcpsconn), the poll thread that serves all their descriptors      *)
(* (PollMgr), the bounded queue and the threads of dispatchpool_ (fifo,    *)
(* ThrPool), the references that dispatch takes and gives back, and the    *)
(* destructor of rpcs.  Descriptors are reused: a connection's is closed   *)
(* when its last reference goes.                                           *)
(*                                                                         *)
(* Connection has the life of one connection in detail; here a PDU is read *)
(* in one piece, the callback test and the callback are one step, and so   *)
(* are a failed write and the unwatching that follows it.  What wakes      *)
(* select through its pipe is shown there too: here select may return at   *)
(* any time.  All requests come from one client, which reconnects, and     *)
(* needs at-most-once.                                                     *)
(***************************************************************************)
EXTENDS Naturals, Sequences, FiniteSets

CONSTANTS Workers,   \* threads of dispatchpool_
          Fds,       \* descriptors the process can have open for connections
          MaxConn,   \* connections the peer makes
          MaxReq,    \* requests it sends on them
          MaxOld,    \* of them, the first ones may be for an old server instance
          MaxClose,  \* connections it closes
          MaxLoad,   \* all these together (Load),
          MaxDown,   \* ... and when the server is taken down
          QMax,      \* fifo's max_
          Nobody

ASSUME BoundsAssumption == /\ Fds \subseteq Nat \ {0} /\ IsFiniteSet(Fds)
                           /\ MaxConn \in Nat
                           /\ MaxReq \in Nat /\ MaxOld \in Nat /\ MaxClose \in Nat
                           /\ MaxLoad \in Nat /\ MaxDown \in Nat
                           /\ QMax \in Nat \ {0}
                           /\ Workers # {} /\ IsFiniteSet(Workers)
                           /\ Nobody \notin Workers

VARIABLES
  came,        \* requests the peer has sent
  closed,      \* connections the peer has closed
  conn,        \* the connections, in the order they are accepted
  table,       \* tcpsconn::conns_, by descriptor; 0 for none
  acceptor,    \* the thread in accept_conn
  \* PollMgr and SelectAIO
  callbacks_, rfds_, wfds_, pending_change_,
  poll,        \* the poll thread and its two sets of descriptors
  \* rpcs
  jobq_,       \* the pool's queue: jobs and poison pills
  worker,      \* what each dispatch thread is at
  conns_,      \* rpcs::conns_ of the client, 0 before any
  destroyer    \* the thread that deletes the server

pollVars == <<callbacks_, rfds_, wfds_, pending_change_, poll>>
peerVars == <<came, closed>>
vars == <<peerVars, conn, table, acceptor, pollVars, jobq_, worker, conns_, destroyer>>

ConnIds == 1..MaxConn
Kinds == {"call", "old"}   \* "old": for an earlier instance of the server
Pill == [k |-> 0, kind |-> "pill"]
Least(S) == CHOOSE x \in S : \A y \in S : x <= y

NewConn(fd) == [fd |-> fd, in |-> <<>>, eof |-> FALSE, rpdu_ |-> "none",
                wpdu_ |-> Nobody, dead_ |-> FALSE, refno_ |-> 1, leaked |-> 0]
Gone == [fd |-> 0]
IsGone(k) == conn[k] = Gone
Open == {k \in 1..Len(conn) : ~IsGone(k)}

Idle == [st |-> "idle"]

\* No VERIFY of the poll thread has ended the process.
Alive == poll.st # "aborted"

Init == /\ came = 0 /\ closed = 0
        /\ conn = <<>>
        /\ table = [fd \in Fds |-> 0]
        /\ acceptor = [st |-> "select"]
        /\ callbacks_ = [fd \in Fds |-> 0]
        /\ rfds_ = {} /\ wfds_ = {} /\ pending_change_ = FALSE
        /\ poll = [st |-> "ready", r |-> {}, w |-> {}]
        /\ jobq_ = <<>>
        /\ worker = [t \in Workers |-> Idle]
        /\ conns_ = 0
        /\ destroyer = [st |-> "up"]

-------------------------------------------------------------------------------
(* The peer.                                                               *)

\* The bound on n connections, r requests and c closes in one behaviour: many of
\* one kind go with few of the others.
Load(n, r, c) == n * r + 3 * c
Within(n, r, c) == Load(n, r, c) <= IF destroyer.st = "up" THEN MaxLoad ELSE MaxDown

PeerSends(k, kind) ==
  /\ Alive /\ k \in Open /\ ~conn[k].eof
  /\ came < MaxReq /\ Within(Len(conn), came + 1, closed) /\ (kind = "old" => came < MaxOld)
  /\ came' = came + 1
  /\ conn' = [conn EXCEPT ![k].in = Append(@, kind)]
  /\ UNCHANGED <<closed, table, acceptor, pollVars, jobq_, worker, conns_, destroyer>>

PeerCloses(k) ==
  /\ Alive /\ k \in Open /\ ~conn[k].eof
  /\ closed < MaxClose /\ Within(Len(conn), came, closed + 1)
  /\ closed' = closed + 1
  /\ conn' = [conn EXCEPT ![k].eof = TRUE]
  /\ UNCHANGED <<came, table, acceptor, pollVars, jobq_, worker, conns_, destroyer>>

-------------------------------------------------------------------------------
(* References.                                                             *)

Incref(c, k) == [c EXCEPT ![k].refno_ = @ + 1]

\* decref, with the destructor, which closes the descriptor.
Decref(c, k) == IF c[k].refno_ = 1 /\ c[k].dead_ THEN [c EXCEPT ![k] = Gone]
                ELSE [c EXCEPT ![k].refno_ = @ - 1]

-------------------------------------------------------------------------------
(* tcpsconn::accept_conn and process_accept.                               *)

FreeFds == {fd \in Fds : \A k \in Open : conn[k].fd # fd}

\* accept takes the lowest free descriptor, and the constructor registers the
\* connection for reading.  Without a free one accept fails and the thread ends.
Accept ==
  /\ Alive /\ acceptor.st = "select" /\ destroyer.st = "up"
  /\ Len(conn) < MaxConn /\ Within(Len(conn) + 1, came, closed)
  /\ IF FreeFds = {}
     THEN /\ acceptor' = [st |-> "exited"]
          /\ UNCHANGED <<conn, callbacks_, rfds_>>
     ELSE LET fd == Least(FreeFds)
              k  == Len(conn) + 1
          IN  /\ conn' = Append(conn, NewConn(fd))
              /\ rfds_' = rfds_ \union {fd}
              /\ callbacks_' = [callbacks_ EXCEPT ![fd] = k]
              /\ acceptor' = [st |-> "check", new |-> k,
                              todo |-> {f \in Fds : table[f] # 0}]
  /\ UNCHANGED <<peerVars, table, wfds_, pending_change_, poll, jobq_, worker, conns_, destroyer>>

\* isdead() && ref() == 1.
IsGarbage(k) == conn[k].dead_ /\ conn[k].refno_ = 1

\* The garbage collection's loop over the table: the test ...
GcCheck ==
  /\ Alive /\ acceptor.st = "check" /\ acceptor.todo # {}
  /\ LET fd == Least(acceptor.todo)
     IN  acceptor' = IF IsGarbage(table[fd]) THEN [acceptor EXCEPT !.st = "collect"]
                     ELSE [acceptor EXCEPT !.todo = @ \ {fd}]
  /\ UNCHANGED <<peerVars, conn, table, pollVars, jobq_, worker, conns_, destroyer>>

\* ... and decref with erase.
GcCollect ==
  /\ Alive /\ acceptor.st = "collect"
  /\ LET fd == Least(acceptor.todo)
     IN  /\ conn' = Decref(conn, table[fd])
         /\ table' = [table EXCEPT ![fd] = 0]
         /\ acceptor' = [acceptor EXCEPT !.st = "check", !.todo = @ \ {fd}]
  /\ UNCHANGED <<peerVars, pollVars, jobq_, worker, conns_, destroyer>>

\* conns_[ch->channo()] = ch, and back to select.
Insert ==
  /\ Alive /\ acceptor.st = "check" /\ acceptor.todo = {}
  /\ table' = [table EXCEPT ![conn[acceptor.new].fd] = acceptor.new]
  /\ acceptor' = [st |-> "select"]
  /\ UNCHANGED <<peerVars, conn, pollVars, jobq_, worker, conns_, destroyer>>

\* The listener's pipe is closed.
AcceptorStops ==
  /\ Alive /\ acceptor.st = "select" /\ destroyer.st # "up"
  /\ acceptor' = [st |-> "exited"]
  /\ UNCHANGED <<peerVars, conn, table, pollVars, jobq_, worker, conns_, destroyer>>

-------------------------------------------------------------------------------
(* PollMgr.                                                                *)

\* With both lists done, the top of wait_loop, which lets the threads in
\* block_remove_fd go on, and the copies that wait_ready makes.
LoopTop ==
  /\ poll.st = "ready" /\ poll.r = {} /\ poll.w = {}
  /\ pending_change_' = FALSE
  /\ worker' = [t \in Workers |-> IF pending_change_ /\ worker[t].st = "removing"
                                  THEN [worker[t] EXCEPT !.st = "removed"] ELSE worker[t]]
  /\ destroyer' = IF pending_change_ /\ destroyer.st = "removing"
                  THEN [destroyer EXCEPT !.st = "removed"]
                  ELSE destroyer
  /\ poll' = [st |-> "select", r |-> rfds_, w |-> wfds_]
  /\ UNCHANGED <<peerVars, conn, table, acceptor, callbacks_, rfds_, wfds_, jobq_, conns_>>

\* Something to read, or the end, on fd.
Readable(fd) == \E k \in Open : conn[k].fd = fd /\ (conn[k].in # <<>> \/ conn[k].eof)

\* select returns; ws: the descriptors that can be written.
Select(ws) ==
  /\ poll.st = "select" /\ ws \subseteq poll.w
  /\ LET rs == {fd \in poll.r : Readable(fd)}
     IN  poll' = [st |-> "ready", r |-> rs, w |-> ws]
  /\ UNCHANGED <<peerVars, conn, table, acceptor, callbacks_, rfds_, wfds_, pending_change_, jobq_,
                 worker, conns_, destroyer>>

\* del_callback(fd, CB_RDWR).
DelCallback(fd) == /\ rfds_' = rfds_ \ {fd} /\ wfds_' = wfds_ \ {fd}
                   /\ callbacks_' = [callbacks_ EXCEPT ![fd] = 0]

\* pthread_cond_signal(&send_complete_) of connection k.
SignalComplete(k) ==
  worker' = [t \in Workers |-> IF worker[t].st = "partial" /\ worker[t].k = k
                               THEN [worker[t] EXCEPT !.st = "resumed"] ELSE worker[t]]

\* got_pdu with the PDU just read from, or kept by, connection k: a full queue
\* refuses it, and it stays where it is.
Offer(k, kind, in) ==
  IF Len(jobq_) < QMax
  THEN /\ jobq_' = Append(jobq_, [k |-> k, kind |-> kind])
       /\ conn' = [Incref(conn, k) EXCEPT ![k].rpdu_ = "none", ![k].in = in]
  ELSE /\ conn' = [conn EXCEPT ![k].rpdu_ = kind, ![k].in = in]
       /\ UNCHANGED jobq_

\* The next descriptor of the readable list, through read_cb.
ReadCb ==
  /\ poll.st = "ready" /\ poll.r # {}
  /\ LET fd == Least(poll.r)
         k  == callbacks_[fd]
         c  == conn[k]
     IN  \/ /\ k # 0 => c.dead_
            /\ poll' = [poll EXCEPT !.r = @ \ {fd}]
            /\ UNCHANGED <<conn, jobq_, callbacks_, rfds_, wfds_, worker>>
         \/ /\ k # 0 /\ ~c.dead_ /\ c.rpdu_ # "none"
            /\ Offer(k, c.rpdu_, c.in)
            /\ poll' = [poll EXCEPT !.r = @ \ {fd}]
            /\ UNCHANGED <<callbacks_, rfds_, wfds_, worker>>
         \/ /\ k # 0 /\ ~c.dead_ /\ c.rpdu_ = "none" /\ c.in # <<>>
            /\ Offer(k, Head(c.in), Tail(c.in))
            /\ poll' = [poll EXCEPT !.r = @ \ {fd}]
            /\ UNCHANGED <<callbacks_, rfds_, wfds_, worker>>
         \/ /\ k # 0 /\ ~c.dead_ /\ c.rpdu_ = "none" /\ c.in = <<>> /\ c.eof
            /\ conn' = [conn EXCEPT ![k].dead_ = TRUE]
            /\ DelCallback(fd)
            /\ SignalComplete(k)
            /\ poll' = [poll EXCEPT !.r = @ \ {fd}]
            /\ UNCHANGED jobq_
         \/ /\ k # 0 /\ ~c.dead_ /\ c.rpdu_ = "none" /\ c.in = <<>> /\ ~c.eof
            /\ poll' = [poll EXCEPT !.st = "aborted"]    \* VERIFY(errno!=EAGAIN)
            /\ UNCHANGED <<conn, jobq_, callbacks_, rfds_, wfds_, worker>>
  /\ UNCHANGED <<peerVars, table, acceptor, pending_change_, conns_, destroyer>>

\* The next descriptor of the writable list, through write_cb: the rest of the
\* PDU goes out, or the write fails.
WriteCb(fails) ==
  /\ poll.st = "ready" /\ poll.r = {} /\ poll.w # {}
  /\ LET fd == Least(poll.w)
         k  == callbacks_[fd]
         c  == conn[k]
     IN  \/ /\ k = 0 /\ ~fails
            /\ poll' = [poll EXCEPT !.w = @ \ {fd}]
            /\ UNCHANGED <<conn, callbacks_, rfds_, wfds_, worker>>
         \/ /\ k # 0 /\ c.dead_ /\ ~fails
            /\ poll' = [poll EXCEPT !.st = "aborted"]    \* VERIFY(!dead_)
            /\ UNCHANGED <<conn, callbacks_, rfds_, wfds_, worker>>
         \/ /\ k # 0 /\ ~c.dead_ /\ c.wpdu_ = Nobody /\ ~fails
            /\ wfds_' = wfds_ \ {fd}
            /\ poll' = [poll EXCEPT !.w = @ \ {fd}]
            /\ UNCHANGED <<conn, callbacks_, rfds_, worker>>
         \/ /\ k # 0 /\ ~c.dead_ /\ c.wpdu_ # Nobody /\ ~fails
            /\ SignalComplete(k)
            /\ poll' = [poll EXCEPT !.w = @ \ {fd}]
            /\ UNCHANGED <<conn, callbacks_, rfds_, wfds_>>
         \/ /\ k # 0 /\ ~c.dead_ /\ c.wpdu_ # Nobody /\ fails /\ c.eof
            /\ conn' = [conn EXCEPT ![k].dead_ = TRUE]
            /\ DelCallback(fd)
            /\ SignalComplete(k)
            /\ poll' = [poll EXCEPT !.w = @ \ {fd}]
  /\ UNCHANGED <<peerVars, table, acceptor, pending_change_, jobq_, conns_, destroyer>>

\* Mutant: block_remove_fd does not wait.
NoWait == "removed"

\* Where block_remove_fd leaves a thread: at the wait for the loop.
RemoveWait == "removing"

\* block_remove_fd up to its wait, and after it.
RemoveBegin(fd) == /\ rfds_' = rfds_ \ {fd} /\ wfds_' = wfds_ \ {fd}
                   /\ pending_change_' = TRUE
RemoveEnd(fd) == callbacks_' = [callbacks_ EXCEPT ![fd] = 0]

-------------------------------------------------------------------------------
(* ThrPool's workers and rpcs::dispatch.                                   *)

\* takeJob, fifo::deq.  A poison pill ends the thread.
TakeJob(t) ==
  /\ Alive /\ worker[t].st = "idle" /\ jobq_ # <<>>
  /\ LET j == Head(jobq_)
     IN  worker' = [worker EXCEPT ![t] =
           IF j = Pill THEN [st |-> "exited"]
           ELSE [st |-> IF j.kind = "old" THEN "send" ELSE "arrived",
                 k |-> j.k, kind |-> j.kind]]
  /\ jobq_' = Tail(jobq_)
  /\ UNCHANGED <<peerVars, conn, table, acceptor, pollVars, conns_, destroyer>>

\* Mutant: the older connection's reference is not given back.
NoteConnKeeps(k) == IF conns_ = 0 \/ conns_ < k THEN Incref(conn, k) ELSE conn

\* Mutant: the connection saved is not referenced.
NoteConnBorrows(k) == conn

\* The latest good connection to the client is saved (compare: created later).
NoteConn(k) ==
  IF conns_ = 0 THEN Incref(conn, k)
  ELSE IF conns_ < k THEN Incref(Decref(conn, conns_), k)
  ELSE conn

\* The end of dispatch: the reference is given back, but not by the refusal of a
\* request for an old server instance.
Leave(c, j) == IF j.kind = "old" THEN [c EXCEPT ![j.k].leaked = @ + 1] ELSE Decref(c, j.k)

\* dispatch from there through the duplicate check; v: the verdict.
Arrived(t, v) ==
  /\ Alive /\ worker[t].st = "arrived"
  /\ LET c == NoteConn(worker[t].k)
     IN  IF v = "INPROGRESS"
         THEN /\ conn' = Leave(c, worker[t])
              /\ worker' = [worker EXCEPT ![t] = Idle]
         ELSE /\ conn' = c
              /\ worker' = [worker EXCEPT ![t].st = IF v = "NEW" THEN "run" ELSE "send"]
  /\ conns_' = IF conns_ < worker[t].k THEN worker[t].k ELSE conns_
  /\ UNCHANGED <<peerVars, table, acceptor, pollVars, jobq_, destroyer>>

\* The handler has returned: the latest connection takes over from a dead one.
Ran(t) ==
  /\ Alive /\ worker[t].st = "run"
  /\ LET k == worker[t].k
         moves == conn[k].dead_ /\ k # conns_
     IN  /\ conn' = IF moves THEN Incref(Decref(conn, k), conns_) ELSE conn
         /\ worker' = [worker EXCEPT ![t].st = "send", ![t].k = IF moves THEN conns_ ELSE k]
  /\ UNCHANGED <<peerVars, table, acceptor, pollVars, jobq_, conns_, destroyer>>

\* connection::send, with the end of dispatch if it does not wait; o: the outcome
\* of its write.
Send(t, o) ==
  /\ Alive /\ worker[t].st = "send"
  /\ LET k == worker[t].k
         c == conn[k]
     IN  \/ /\ o = "none" /\ c.dead_
            /\ conn' = Leave(conn, worker[t])
            /\ worker' = [worker EXCEPT ![t] = Idle]
            /\ UNCHANGED <<callbacks_, rfds_, wfds_, pending_change_>>
         \/ /\ o = "none" /\ ~c.dead_ /\ c.wpdu_ # Nobody
            /\ worker' = [worker EXCEPT ![t].st = "asleep"]
            /\ UNCHANGED <<conn, callbacks_, rfds_, wfds_, pending_change_>>
         \/ /\ o = "whole" /\ ~c.dead_ /\ c.wpdu_ = Nobody
            /\ conn' = Leave(conn, worker[t])
            /\ worker' = [worker EXCEPT ![t] = Idle]
            /\ UNCHANGED <<callbacks_, rfds_, wfds_, pending_change_>>
         \/ /\ o = "part" /\ ~c.dead_ /\ c.wpdu_ = Nobody
            /\ conn' = [conn EXCEPT ![k].wpdu_ = t]
            /\ wfds_' = wfds_ \union {c.fd}
            /\ callbacks_' = [callbacks_ EXCEPT ![c.fd] = k]
            /\ worker' = [worker EXCEPT ![t].st = "partial"]
            /\ UNCHANGED <<rfds_, pending_change_>>
         \/ /\ o = "fails" /\ ~c.dead_ /\ c.wpdu_ = Nobody /\ c.eof
            /\ conn' = [conn EXCEPT ![k].wpdu_ = t, ![k].dead_ = TRUE]
            /\ RemoveBegin(c.fd)
            /\ worker' = [worker EXCEPT ![t].st = RemoveWait]
            /\ UNCHANGED callbacks_
  /\ UNCHANGED <<peerVars, table, acceptor, poll, jobq_, conns_, destroyer>>

\* Mutant: those who wait for wpdu_ are not woken.
ResumedSilent(t) ==
  /\ Alive /\ worker[t].st \in {"removed", "resumed"}
  /\ LET k == worker[t].k
     IN  /\ IF worker[t].st = "removed" THEN RemoveEnd(conn[k].fd) ELSE UNCHANGED callbacks_
         /\ conn' = Leave([conn EXCEPT ![k].wpdu_ = Nobody], worker[t])
         /\ worker' = [worker EXCEPT ![t] = Idle]
  /\ UNCHANGED <<peerVars, table, acceptor, rfds_, wfds_, pending_change_, poll, jobq_, conns_,
                 destroyer>>

\* The end of a send that waited, in block_remove_fd or for send_complete_: wpdu_
\* is free, those who wait for it are woken, and dispatch ends.
Resumed(t) ==
  /\ Alive /\ worker[t].st \in {"removed", "resumed"}
  /\ LET k == worker[t].k
     IN  /\ IF worker[t].st = "removed" THEN RemoveEnd(conn[k].fd) ELSE UNCHANGED callbacks_
         /\ conn' = Leave([conn EXCEPT ![k].wpdu_ = Nobody], worker[t])
         /\ worker' = [u \in Workers |->
              IF u = t THEN Idle
              ELSE IF worker[u].st = "asleep" /\ worker[u].k = k
              THEN [worker[u] EXCEPT !.st = "send"] ELSE worker[u]]
  /\ UNCHANGED <<peerVars, table, acceptor, rfds_, wfds_, pending_change_, poll, jobq_, conns_,
                 destroyer>>

-------------------------------------------------------------------------------
(* rpcs::~rpcs: the listener, then the pool.                               *)

\* ~tcpsconn closes the listener's pipe ...
Shutdown ==
  /\ Alive /\ destroyer.st = "up" /\ Load(Len(conn), came, closed) <= MaxDown
  /\ destroyer' = [st |-> "join"]
  /\ UNCHANGED <<peerVars, conn, table, acceptor, pollVars, jobq_, worker, conns_>>

\* ... joins the accepting thread ...
Joined ==
  /\ Alive /\ destroyer.st = "join" /\ acceptor.st = "exited"
  /\ destroyer' = [st |-> "close", todo |-> {fd \in Fds : table[fd] # 0},
                   pills |-> Cardinality(Workers)]
  /\ UNCHANGED <<peerVars, conn, table, acceptor, pollVars, jobq_, worker, conns_>>

\* The listener's reference to the connection of fd is given back.
Drop(fd) == /\ conn' = Decref(conn, table[fd])
            /\ table' = [table EXCEPT ![fd] = 0]
            /\ destroyer' = [destroyer EXCEPT !.st = "close", !.todo = @ \ {fd}]

\* ... and for every connection of the table calls closeconn, which has nothing to
\* do on a dead one, ...
CloseConn ==
  /\ Alive /\ destroyer.st = "close" /\ destroyer.todo # {}
  /\ LET fd == Least(destroyer.todo)
         k == table[fd]
     IN  IF conn[k].dead_
         THEN Drop(fd) /\ UNCHANGED <<rfds_, wfds_, pending_change_>>
         ELSE /\ conn' = [conn EXCEPT ![k].dead_ = TRUE, ![k].eof = TRUE]
              /\ RemoveBegin(fd)
              /\ destroyer' = [destroyer EXCEPT !.st = RemoveWait]
              /\ UNCHANGED table
  /\ UNCHANGED <<peerVars, acceptor, callbacks_, poll, jobq_, worker, conns_>>

\* ... and decref.
Closed ==
  /\ Alive /\ destroyer.st = "removed"
  /\ LET fd == Least(destroyer.todo) IN RemoveEnd(fd) /\ Drop(fd)
  /\ UNCHANGED <<peerVars, acceptor, rfds_, wfds_, pending_change_, poll, jobq_, worker, conns_>>

\* Mutant: the pill does not wait for space.
AddPillAnyway ==
  /\ Alive /\ destroyer.st = "close" /\ destroyer.todo = {}
  /\ destroyer.pills > 0
  /\ jobq_' = Append(jobq_, Pill)
  /\ destroyer' = [destroyer EXCEPT !.pills = @ - 1]
  /\ UNCHANGED <<peerVars, conn, table, acceptor, pollVars, worker, conns_>>

\* Mutant: the pool is deleted before the listener.
AddPillEarly ==
  /\ Alive /\ destroyer.st = "close"
  /\ destroyer.pills > 0 /\ Len(jobq_) < QMax
  /\ jobq_' = Append(jobq_, Pill)
  /\ destroyer' = [destroyer EXCEPT !.pills = @ - 1]
  /\ UNCHANGED <<peerVars, conn, table, acceptor, pollVars, worker, conns_>>

\* ~ThrPool: a poison pill for each thread; enq waits for space ...
AddPill ==
  /\ Alive /\ destroyer.st = "close" /\ destroyer.todo = {}
  /\ destroyer.pills > 0 /\ Len(jobq_) < QMax
  /\ jobq_' = Append(jobq_, Pill)
  /\ destroyer' = [destroyer EXCEPT !.pills = @ - 1]
  /\ UNCHANGED <<peerVars, conn, table, acceptor, pollVars, worker, conns_>>

\* ... and the threads are joined.
Down ==
  /\ Alive /\ destroyer.st = "close" /\ destroyer.pills = 0
  /\ \A t \in Workers : worker[t].st = "exited"
  /\ destroyer' = [st |-> "down"]
  /\ UNCHANGED <<peerVars, conn, table, acceptor, pollVars, jobq_, worker, conns_>>

-------------------------------------------------------------------------------
AcceptorStep == Accept \/ GcCheck \/ GcCollect \/ Insert \/ AcceptorStops
PollStep == \/ LoopTop
            \/ \E ws \in SUBSET Fds : Select(ws)
            \/ ReadCb
            \/ \E fails \in BOOLEAN : WriteCb(fails)
WorkerStep(t) == \/ TakeJob(t)
                 \/ \E v \in {"NEW", "INPROGRESS", "DONE"} : Arrived(t, v)
                 \/ Ran(t)
                 \/ \E o \in {"none", "whole", "part", "fails"} : Send(t, o)
                 \/ Resumed(t)
DestroyerStep == Joined \/ CloseConn \/ Closed \/ AddPill \/ Down

Next == \/ \E k \in ConnIds, kind \in Kinds : PeerSends(k, kind)
        \/ \E k \in ConnIds : PeerCloses(k)
        \/ AcceptorStep \/ PollStep
        \/ \E t \in Workers : WorkerStep(t)
        \/ Shutdown \/ DestroyerStep

Spec == Init /\ [][Next]_vars

-------------------------------------------------------------------------------
(* Properties.                                                             *)

\* Every variable stays in its domain.
TypeOK ==
  /\ came \in 0..MaxReq /\ closed \in 0..MaxClose
  /\ conn \in Seq({Gone} \union
       [fd : Fds, in : Seq(Kinds), eof : BOOLEAN, rpdu_ : Kinds \union {"none"},
        wpdu_ : Workers \union {Nobody}, dead_ : BOOLEAN, refno_ : Nat, leaked : 0..MaxReq])
  /\ table \in [Fds -> 0..Len(conn)]
  /\ acceptor \in [st : {"select", "exited"}] \union
       [st : {"check", "collect"}, new : 1..Len(conn), todo : SUBSET Fds]
  /\ callbacks_ \in [Fds -> 0..Len(conn)]
  /\ rfds_ \subseteq Fds /\ wfds_ \subseteq Fds /\ pending_change_ \in BOOLEAN
  /\ poll \in [st : {"select", "ready", "aborted"}, r : SUBSET Fds, w : SUBSET Fds]
  /\ jobq_ \in Seq({Pill} \union [k : 1..Len(conn), kind : Kinds]) /\ Len(jobq_) <= QMax
  /\ worker \in [Workers -> [st : {"idle", "exited"}] \union
       [st : {"arrived", "run", "send", "asleep", "partial", "removing", "removed", "resumed"},
        k : 1..Len(conn), kind : Kinds]]
  /\ conns_ \in 0..Len(conn)
  /\ destroyer \in [st : {"up", "join", "down"}] \union
       [st : {"close", "removing", "removed"}, todo : SUBSET Fds, pills : 0..Cardinality(Workers)]

Count(S) == Cardinality(S)

\* Who holds a reference to connection k: the table or the thread about to put
\* it there, rpcs::conns_, a job in the queue, a dispatch thread.
Holders(k) ==
  Count({fd \in Fds : table[fd] = k})
  + (IF acceptor.st \in {"check", "collect"} /\ acceptor.new = k THEN 1 ELSE 0)
  + (IF conns_ = k THEN 1 ELSE 0)
  + Count({i \in 1..Len(jobq_) : jobq_[i].k = k})
  + Count({t \in Workers : worker[t].st \notin {"idle", "exited"} /\ worker[t].k = k})

\* A connection's count is the number of those who refer to it, except for what
\* the refusal of a request for an old instance never gives back.
RefsExact == \A k \in Open : conn[k].refno_ = Holders(k) + conn[k].leaked

\* Nobody refers to a deleted connection: no holder of a reference, no callback,
\* no descriptor set select has been given.
NoDangling ==
  /\ \A k \in 1..Len(conn) : IsGone(k) => Holders(k) = 0
  /\ \A fd \in Fds : callbacks_[fd] # 0 => /\ ~IsGone(callbacks_[fd])
                                           /\ conn[callbacks_[fd]].fd = fd
  /\ (rfds_ \union wfds_) \intersect FreeFds = {}
  /\ poll.st = "select" => (poll.r \union poll.w) \intersect FreeFds = {}

\* A descriptor that select found readable is read only for the connection it
\* belonged to then: a reused descriptor is never read without data, which
\* readpdu's VERIFY(errno!=EAGAIN) would not survive, and a new connection never
\* finds the callback of an earlier one, which add_callback's VERIFY would not.
FreshFd ==
  /\ poll.st = "ready" =>
       \A fd \in poll.r : callbacks_[fd] # 0 =>
         conn[callbacks_[fd]].dead_ \/ conn[callbacks_[fd]].rpdu_ # "none" \/ Readable(fd)
  /\ \A fd \in FreeFds : callbacks_[fd] = 0

\* When the server is being taken down nothing reaches the queue behind the pills
\* that end the threads, and at the end no callback is left.
PillsAreLast ==
  /\ \A i, j \in 1..Len(jobq_) : i < j /\ jobq_[i] = Pill => jobq_[j] = Pill
  /\ Pill \in {jobq_[i] : i \in 1..Len(jobq_)} =>
       \A fd \in Fds : callbacks_[fd] # 0 => conn[callbacks_[fd]].dead_
  /\ destroyer.st = "down" => jobq_ = <<>> /\ \A fd \in Fds : callbacks_[fd] = 0

\* No thread waits for what nobody will do.  A thread in block_remove_fd is let
\* go by the loop's next round; a sender waits for wpdu_ only while another has
\* it, and for the rest of its PDU only while select looks after the descriptor
\* (except when closeconn, which does not signal, has killed the connection); a
\* request that the full queue refused is on a descriptor that is looked after
\* and so is offered again when more arrives; and in the destructor there are as
\* many pills, in the queue or to come, as threads to end.
WaitsAnswered ==
  /\ destroyer.st = "removing" \/ (\E t \in Workers : worker[t].st = "removing") =>
       pending_change_
  /\ \A t \in Workers :
       /\ worker[t].st = "asleep" => conn[worker[t].k].wpdu_ \notin {Nobody, t}
       /\ worker[t].st = "partial" =>
            LET c == conn[worker[t].k]
            IN  c.dead_ \/ (c.fd \in wfds_ /\ callbacks_[c.fd] = worker[t].k)
  /\ \A k \in Open : ~conn[k].dead_ =>
       conn[k].fd \in rfds_ /\ callbacks_[conn[k].fd] = k
  /\ destroyer.st = "close" =>
       Count({t \in Workers : worker[t].st # "exited"})
         = destroyer.pills + Count({i \in 1..Len(jobq_) : jobq_[i] = Pill})

==============================================================================
