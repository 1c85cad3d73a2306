------------------------------ MODULE Connection ------------------------------
(***************************************************************************)
(* One connection object (connection.cc): threads that send a PDU each,    *)
(* the PollMgr thread that calls read_cb and write_cb when select reports  *)
(* its descriptor ready (pollmgr.cc), threads that close it, and the       *)
(* reference count that decides when it is deleted.                        *)
(*                                                                         *)
(* A section under connection::m_, with the PollMgr calls nested in it, is *)
(* one step, and so is one under PollMgr::m_ or SelectAIO::m_.  A PDU is   *)
(* Size chunks to write; to read it is a size word and a body.             *)
(***************************************************************************)
EXTENDS Integers, Sequences, FiniteSets

CONSTANTS Senders,   \* threads that call send, once each
          Closers,   \* threads that call closeconn
          Size,      \* chunks of an outgoing PDU
          MaxIn,     \* chunks the peer sends
          Nobody

ASSUME SizeAssumption == Size \in Nat \ {0} /\ MaxIn \in Nat
ASSUME ThreadAssumption == /\ Senders \intersect Closers = {} /\ Nobody \notin Senders
                           /\ IsFiniteSet(Senders)

VARIABLES
  dead_,        \* connection::dead_
  wpdu_,        \* PDU being written: its sender, sz and solong
  rpdu_,        \* PDU being read: "none", "partial" (size word read) or "full"
  refno_, owned,  \* the count, and whether rpcc or tcpsconn holds one of them
  deleted,
  \* PollMgr and SelectAIO, as far as they concern fd_
  rfds_, wfds_, callbacks_,
  pending_change_,
  pipe,         \* bytes in pipefd_
  poll,         \* where wait_loop is
  tr, tw,       \* select's argument, then its result
  errno,        \* the PollMgr thread's errno is EAGAIN
  \* the socket
  wire,         \* "up", "fin" (peer closed), "reset" (peer gone), "shut" (shutdown)
  room,         \* the send buffer takes more
  avail, came,  \* chunks to be read; chunks the peer has sent
  \* the threads
  pc, ret,
  \* history
  out,          \* chunks the socket accepted, by sender
  aborted       \* a VERIFY failed

connVars == <<dead_, wpdu_, rpdu_>>
refVars == <<refno_, owned, deleted>>
watchVars == <<rfds_, wfds_, callbacks_, pipe>>
loopVars == <<poll, tr, tw, errno>>
sockVars == <<wire, room, avail, came>>
vars == <<connVars, refVars, watchVars, pending_change_, loopVars, sockVars, pc, ret,
          out, aborted>>

Threads == Senders \union Closers
NoPdu == [buf |-> Nobody, sz |-> 0, solong |-> 0]

\* The constructor has registered read_cb; the creator holds the first reference.
Init == /\ dead_ = FALSE /\ wpdu_ = NoPdu /\ rpdu_ = "none"
        /\ refno_ = 1 /\ owned = TRUE /\ deleted = FALSE
        /\ rfds_ = TRUE /\ wfds_ = FALSE /\ callbacks_ = TRUE /\ pipe = 1
        /\ pending_change_ = FALSE
        /\ poll = "top" /\ tr = FALSE /\ tw = FALSE /\ errno = FALSE
        /\ wire = "up" /\ room = TRUE /\ avail = 0 /\ came = 0
        /\ pc = [t \in Threads |-> "idle"]
        /\ ret = [s \in Senders |-> FALSE]
        /\ out = <<>>
        /\ aborted = FALSE

-------------------------------------------------------------------------------
(* The socket and the peer.                                                *)

Eof == wire # "up"
Fails == wire \in {"reset", "shut"}

PeerSends == /\ wire = "up" /\ came < MaxIn
             /\ came' = came + 1 /\ avail' = avail + 1
             /\ UNCHANGED <<wire, room>>

PeerCloses == wire = "up" /\ wire' = "fin" /\ UNCHANGED <<room, avail, came>>

\* The peer no longer knows the connection; what it had sent is lost.
PeerResets == /\ wire \in {"up", "fin"}
              /\ wire' = "reset" /\ avail' = 0
              /\ UNCHANGED <<room, came>>

Drain == ~room /\ ~Fails /\ room' = TRUE /\ UNCHANGED <<wire, avail, came>>

Environment == /\ PeerSends \/ PeerCloses \/ PeerResets \/ Drain
               /\ UNCHANGED <<connVars, refVars, watchVars, pending_change_, loopVars,
                              pc, ret, out, aborted>>

-------------------------------------------------------------------------------
(* PollMgr's operations on fd_ (and SelectAIO's, which they call).         *)

\* add_callback(fd_, CB_WRONLY, this).
WatchWrite == /\ wfds_' = TRUE /\ callbacks_' = TRUE /\ pipe' = pipe + 1
              /\ UNCHANGED rfds_

\* del_callback(fd_, CB_WRONLY).
UnwatchWrite == /\ wfds_' = FALSE /\ callbacks_' = (callbacks_ /\ rfds_)
                /\ UNCHANGED <<rfds_, pipe>>

\* del_callback(fd_, CB_RDWR).
Unwatch == /\ rfds_' = FALSE /\ wfds_' = FALSE /\ callbacks_' = FALSE
           /\ pipe' = pipe + 1

\* Mutant: block_remove_fd does not wait for the loop.
RemoveAtOnce(t) ==
  /\ pc[t] = "remove"
  /\ rfds_' = FALSE /\ wfds_' = FALSE /\ pipe' = pipe + 1
  /\ pending_change_' = TRUE
  /\ pc' = [pc EXCEPT ![t] = "removed"]
  /\ UNCHANGED <<connVars, refVars, callbacks_, loopVars, sockVars, ret, out, aborted>>

\* block_remove_fd up to its wait on changedone_c_ ...
RemoveBegin(t) ==
  /\ pc[t] = "remove"
  /\ rfds_' = FALSE /\ wfds_' = FALSE /\ pipe' = pipe + 1
  /\ pending_change_' = TRUE
  /\ pc' = [pc EXCEPT ![t] = "removing"]
  /\ UNCHANGED <<connVars, refVars, callbacks_, loopVars, sockVars, ret, out, aborted>>

\* ... and after it.
RemoveEnd(t) ==
  /\ pc[t] = "removed"
  /\ callbacks_' = FALSE
  /\ pc' = [pc EXCEPT ![t] = IF t \in Closers THEN "closed" ELSE "failed"]
  /\ UNCHANGED <<connVars, refVars, rfds_, wfds_, pipe, pending_change_, loopVars,
                 sockVars, ret, out, aborted>>

-------------------------------------------------------------------------------
(* connection::send.                                                       *)

\* writepdu: the outcomes of one write on p, with what becomes of the buffer.
\* A write that the socket refuses for now (EAGAIN) succeeds with no progress.
WriteOutcomes(p) ==
  IF p.solong = p.sz THEN {[n |-> 0, room |-> room, fails |-> FALSE]}
  ELSE IF Fails THEN {[n |-> 0, room |-> room, fails |-> TRUE]}
  ELSE IF room THEN {[n |-> k, room |-> k = p.sz - p.solong, fails |-> FALSE] :
                       k \in 1..(p.sz - p.solong)}
  ELSE {[n |-> 0, room |-> FALSE, fails |-> FALSE]}

\* Mutant: the size word is counted twice.
WrittenPlusOne(p, o) == IF o.fails THEN [p EXCEPT !.sz = 0, !.solong = -1]
                        ELSE [p EXCEPT !.solong = @ + o.n + 1]

\* Mutant: a short write passes for a complete one.
WrittenWhole(p, o) == IF o.fails THEN [p EXCEPT !.sz = 0, !.solong = -1]
                      ELSE [p EXCEPT !.solong = IF o.n > 0 THEN p.sz ELSE @]

\* wpdu_ after a write.
Written(p, o) == IF o.fails THEN [p EXCEPT !.sz = 0, !.solong = -1]
                 ELSE [p EXCEPT !.solong = @ + o.n]

Emit(p, o) == out' = out \o [i \in 1..o.n |-> p.buf]

Asleep(stage) == {t \in Senders : pc[t] = stage}

\* Mutant: the next sender is not told.
WakeNobody(s, next) == pc' = [pc EXCEPT ![s] = next]

\* pthread_cond_broadcast(&send_wait_), by sender s that goes on to `next`.
WakeWaiters(s, next) ==
  pc' = [t \in Threads |-> IF t = s THEN next
                           ELSE IF t \in Asleep("wait") THEN "awake" ELSE pc[t]]

\* The end of send: wpdu_ is free for the next sender.
Finish(s, p, isdead) == /\ ret' = [ret EXCEPT ![s] = ~isdead /\ p.solong = p.sz]
                        /\ wpdu_' = NoPdu
                        /\ WakeWaiters(s, "sent")

\* A caller gets its reference from an owner that finds the connection alive.
GetRef(s) == /\ pc[s] = "idle" /\ owned /\ ~dead_
             /\ refno_' = refno_ + 1
             /\ pc' = [pc EXCEPT ![s] = "ready"]
             /\ UNCHANGED <<connVars, owned, deleted, watchVars, pending_change_, loopVars,
                            sockVars, ret, out, aborted>>

\* send until it returns, waits or has to remove the descriptor.  With lossy_
\* set the socket may be shut down just before the write.
Send(s, lossy) ==
  /\ pc[s] \in {"ready", "awake"}
  /\ \/ /\ dead_
        /\ ~lossy
        /\ pc' = [pc EXCEPT ![s] = "sent"]
        /\ UNCHANGED <<connVars, watchVars, sockVars, ret, out>>
     \/ /\ ~dead_ /\ wpdu_.buf # Nobody
        /\ ~lossy
        /\ pc' = [pc EXCEPT ![s] = "wait"]
        /\ UNCHANGED <<connVars, watchVars, sockVars, ret, out>>
     \/ /\ ~dead_ /\ wpdu_.buf = Nobody
        /\ wire' = IF lossy THEN "shut" ELSE wire
        /\ LET p == [buf |-> s, sz |-> Size, solong |-> 0]
           IN  \E o \in IF lossy THEN {[n |-> 0, room |-> room, fails |-> TRUE]}
                                 ELSE WriteOutcomes(p) :
                 LET q == Written(p, o)
                 IN /\ room' = o.room
                    /\ Emit(p, o)
                    /\ \/ /\ o.fails
                          /\ dead_' = TRUE /\ wpdu_' = q
                          /\ pc' = [pc EXCEPT ![s] = "remove"]
                          /\ UNCHANGED <<watchVars, ret>>
                       \/ /\ ~o.fails /\ q.solong = q.sz
                          /\ Finish(s, q, FALSE)
                          /\ UNCHANGED <<dead_, watchVars>>
                       \/ /\ ~o.fails /\ q.solong < q.sz
                          /\ wpdu_' = q
                          /\ WatchWrite
                          /\ pc' = [pc EXCEPT ![s] = "partial"]
                          /\ UNCHANGED <<dead_, ret>>
        /\ UNCHANGED <<rpdu_, avail, came>>
  /\ UNCHANGED <<refVars, pending_change_, loopVars, aborted>>

\* Mutant: `if` for `while` around the wait on send_complete_.
ResumeOnce(s) ==
  /\ pc[s] \in {"failed", "resumed"}
  /\ Finish(s, wpdu_, dead_)
  /\ UNCHANGED <<dead_, rpdu_, refVars, watchVars, pending_change_, loopVars, sockVars,
                 out, aborted>>

\* Back from the wait on send_complete_, or from block_remove_fd.
Resume(s) ==
  /\ \/ /\ pc[s] = "resumed"
        /\ ~dead_ /\ wpdu_.solong >= 0 /\ wpdu_.solong < wpdu_.sz
        /\ pc' = [pc EXCEPT ![s] = "partial"]
        /\ UNCHANGED <<wpdu_, ret>>
     \/ /\ \/ pc[s] = "failed"
           \/ pc[s] = "resumed" /\ (dead_ \/ wpdu_.solong < 0 \/ wpdu_.solong = wpdu_.sz)
        /\ Finish(s, wpdu_, dead_)
  /\ UNCHANGED <<dead_, rpdu_, refVars, watchVars, pending_change_, loopVars, sockVars,
                 out, aborted>>

\* pthread_cond_wait on send_wait_ or send_complete_ returns without a signal.
Spurious(s) == /\ pc[s] \in {"wait", "partial"}
               /\ pc' = [pc EXCEPT ![s] = IF @ = "wait" THEN "awake" ELSE "resumed"]
               /\ UNCHANGED <<connVars, refVars, watchVars, pending_change_, loopVars,
                              sockVars, ret, out, aborted>>

-------------------------------------------------------------------------------
(* References.                                                             *)

Released(n) == refno_' = n /\ deleted' = (n = 0 /\ dead_)

\* decref by a caller that has done with the connection.
PutRef(s) == /\ pc[s] = "sent"
             /\ Released(refno_ - 1)
             /\ pc' = [pc EXCEPT ![s] = "out"]
             /\ UNCHANGED <<connVars, owned, watchVars, pending_change_, loopVars, sockVars,
                            ret, out, aborted>>

\* get_refconn replaces a dead connection; process_accept collects one that
\* nobody else refers to; a destructor drops the one it has closed.
DropDead == /\ owned /\ dead_
            /\ \A t \in Closers : pc[t] \in {"idle", "closed", "was_dead"}
            /\ owned' = FALSE
            /\ Released(refno_ - 1)
            /\ UNCHANGED <<connVars, watchVars, pending_change_, loopVars, sockVars, pc, ret,
                           out, aborted>>

\* closeconn, by the destructor of the owner.
CloseConn(t) ==
  /\ pc[t] = "idle" /\ owned
  /\ IF dead_
     THEN /\ pc' = [pc EXCEPT ![t] = "was_dead"]
          /\ UNCHANGED <<connVars, wire>>
     ELSE /\ dead_' = TRUE /\ wire' = "shut"
          /\ pc' = [pc EXCEPT ![t] = "remove"]
          /\ UNCHANGED <<wpdu_, rpdu_>>
  /\ UNCHANGED <<refVars, watchVars, pending_change_, loopVars, room, avail, came, ret, out,
                 aborted>>

-------------------------------------------------------------------------------
(* PollMgr::wait_loop.                                                     *)

\* The top of the loop: those who wait for a change are told.
LoopTop ==
  /\ poll = "top"
  /\ pending_change_' = FALSE
  /\ pc' = [t \in Threads |-> IF pending_change_ /\ pc[t] = "removing"
                              THEN "removed" ELSE pc[t]]
  /\ poll' = "copy"
  /\ UNCHANGED <<connVars, refVars, watchVars, tr, tw, errno, sockVars, ret, out, aborted>>

\* wait_ready copies the descriptor sets ...
CopySets ==
  /\ poll = "copy"
  /\ tr' = rfds_ /\ tw' = wfds_
  /\ poll' = "select"
  /\ UNCHANGED <<connVars, refVars, watchVars, pending_change_, errno, sockVars, pc, ret,
                 out, aborted>>

\* ... and selects on the copy.
Select ==
  /\ poll = "select"
  /\ LET r == tr /\ (avail > 0 \/ Eof)
         w == tw /\ (room \/ Fails)
     IN  /\ r \/ w \/ pipe > 0
         /\ tr' = r /\ tw' = w
         /\ poll' = IF r \/ w THEN "ready" ELSE "top"
  /\ pipe' = IF pipe > 0 THEN pipe - 1 ELSE 0
  /\ UNCHANGED <<connVars, refVars, rfds_, wfds_, callbacks_, pending_change_, errno,
                 sockVars, pc, ret, out, aborted>>

\* The test of callbacks_[fd], made without PollMgr::m_, for the readable list
\* and then for the writable one.
TestCallback ==
  /\ poll = "ready"
  /\ tr' = FALSE
  /\ tw' = (tw /\ tr)
  /\ poll' = IF ~tr /\ ~tw THEN "top"
             ELSE IF ~callbacks_ THEN (IF tr THEN "ready" ELSE "top")
             ELSE IF tr THEN "read_cb" ELSE "write_cb"
  /\ UNCHANGED <<connVars, refVars, watchVars, pending_change_, errno, sockVars, pc, ret,
                 out, aborted>>

\* The callback fails a VERIFY: the process ends.
Abort == /\ aborted' = TRUE
         /\ UNCHANGED <<connVars, refVars, watchVars, pending_change_, loopVars, sockVars,
                        pc, ret, out>>

\* pthread_cond_signal(&send_complete_).
SignalComplete == pc' = [t \in Threads |-> IF t \in Asleep("partial")
                                           THEN "resumed" ELSE pc[t]]

\* readpdu's second read, of the body, with a chunks to be read.  When nothing
\* was read errno decides, be it of this read or of an earlier one.
ReadBody(a) ==
  IF a > 0 THEN [ok |-> TRUE, pdu |-> "full", avail |-> a - 1, errno |-> errno]
  ELSE IF ~Eof THEN [ok |-> TRUE, pdu |-> "partial", avail |-> 0, errno |-> TRUE]
  ELSE IF errno /\ wire # "reset"
       THEN [ok |-> TRUE, pdu |-> "partial", avail |-> 0, errno |-> TRUE]
  ELSE [ok |-> FALSE, pdu |-> "none", avail |-> 0, errno |-> FALSE]

\* Mutant: the end of the stream passes for "nothing there yet".
ReadIgnoresEof ==
  IF rpdu_ = "partial" THEN {ReadBody(avail)}
  ELSE IF avail > 0 THEN {ReadBody(avail - 1)}
  ELSE {[ok |-> TRUE, pdu |-> "none", avail |-> 0, errno |-> errno]}

\* readpdu.  A size word that comes in pieces, or is too large, fails.
ReadOutcomes ==
  IF rpdu_ = "partial" THEN {ReadBody(avail)}
  ELSE {[ok |-> FALSE, pdu |-> "none", avail |-> IF avail > 0 THEN avail - 1 ELSE 0,
         errno |-> errno /\ wire # "reset"]}
       \union (IF avail > 0 THEN {ReadBody(avail - 1)} ELSE {})

\* read_cb.  taken: what got_pdu returns.
ReadCb(taken) ==
  /\ poll = "read_cb"
  /\ poll' = "ready"
  /\ IF dead_
     THEN ~taken /\ UNCHANGED <<connVars, watchVars, errno, avail, pc>>
     ELSE \E o \in IF rpdu_ = "full"
                   THEN {[ok |-> TRUE, pdu |-> "full", avail |-> avail, errno |-> errno]}
                   ELSE ReadOutcomes :
            /\ taken => o.pdu = "full"
            /\ rpdu_' = IF taken THEN "none" ELSE o.pdu
            /\ avail' = o.avail /\ errno' = o.errno
            /\ dead_' = ~o.ok
            /\ IF o.ok THEN UNCHANGED <<watchVars, pc>> ELSE Unwatch /\ SignalComplete
            /\ UNCHANGED wpdu_
  /\ UNCHANGED <<refVars, pending_change_, tr, tw, wire, room, came, ret, out, aborted>>

\* write_cb, which begins with VERIFY(!dead_).
WriteCb ==
  /\ poll = "write_cb" /\ ~dead_
  /\ poll' = "top"
  /\ IF wpdu_.sz = 0
     THEN UnwatchWrite /\ UNCHANGED <<connVars, errno, room, pc, out>>
     ELSE \E o \in WriteOutcomes(wpdu_) :
            LET q == Written(wpdu_, o)
            IN  /\ wpdu_' = q /\ room' = o.room /\ Emit(wpdu_, o)
                /\ errno' = ((errno \/ (o.n = 0 /\ wpdu_.solong < wpdu_.sz)) /\ ~o.fails)
                /\ dead_' = o.fails
                /\ IF o.fails THEN Unwatch ELSE UNCHANGED watchVars
                /\ IF o.fails \/ q.solong = q.sz THEN SignalComplete ELSE UNCHANGED pc
                /\ UNCHANGED rpdu_
  /\ UNCHANGED <<refVars, pending_change_, tr, tw, wire, avail, came, ret, aborted>>

WriteCbDead == poll = "write_cb" /\ dead_ /\ Abort

-------------------------------------------------------------------------------
Poll == \/ LoopTop \/ CopySets \/ Select \/ TestCallback \/ WriteCb \/ WriteCbDead
        \/ \E taken \in BOOLEAN : ReadCb(taken)

Sending(s) == \/ \E lossy \in BOOLEAN : Send(s, lossy)
              \/ Resume(s) \/ PutRef(s)

Next == /\ ~aborted
        /\ \/ Environment
           \/ Poll
           \/ \E s \in Senders : GetRef(s) \/ Sending(s) \/ Spurious(s)
           \/ \E t \in Threads : RemoveBegin(t) \/ RemoveEnd(t)
           \/ \E t \in Closers : CloseConn(t)
           \/ DropDead

\* The threads run, and the peer takes what it is sent or is found to be gone.
Fairness ==
  /\ WF_vars(~aborted /\ Poll)
  /\ WF_vars(~aborted /\ Drain /\ Environment)
  /\ \A s \in Senders : WF_vars(~aborted /\ Sending(s))
  /\ \A t \in Threads : WF_vars(~aborted /\ (RemoveBegin(t) \/ RemoveEnd(t)))

Spec == Init /\ [][Next]_vars /\ Fairness

-------------------------------------------------------------------------------
(* Properties.                                                             *)

\* Every variable of the connection, the poll loop, the socket and the threads
\* stays in its domain; solong never runs past sz.
TypeOK ==
  /\ {dead_, owned, deleted, rfds_, wfds_, callbacks_, pending_change_, tr, tw, errno,
      room, aborted} \subseteq BOOLEAN
  /\ \/ wpdu_ = NoPdu
     \/ wpdu_.buf \in Senders /\ wpdu_.sz = Size /\ wpdu_.solong \in 0..Size
     \/ wpdu_.buf \in Senders /\ wpdu_.sz = 0 /\ wpdu_.solong = -1
  /\ rpdu_ \in {"none", "partial", "full"}
  /\ refno_ \in 0..(Cardinality(Senders) + 1)
  /\ pipe \in Nat /\ avail \in 0..came /\ came \in 0..MaxIn
  /\ poll \in {"top", "copy", "select", "ready", "read_cb", "write_cb"}
  /\ wire \in {"up", "fin", "reset", "shut"}
  /\ pc \in [Threads -> {"idle", "ready", "wait", "awake", "partial", "resumed", "remove",
                          "removing", "removed", "failed", "sent", "out", "closed",
                          "was_dead"}]
  /\ ret \in [Senders -> BOOLEAN]
  /\ out \in Seq(Senders)

\* PDUs of concurrent senders are not mixed on the wire, whether written by send
\* itself or by write_cb: the chunks come in whole PDUs, but for the last.
FramesIntact == \A i, j \in 1..Len(out) :
  out[i] = out[j] <=> (i - 1) \div Size = (j - 1) \div Size

\* send returns true only when the socket has taken the whole PDU, however the
\* poll thread and the sender share the writing.
TrueMeansSent == \A s \in Senders :
  ret[s] => Cardinality({i \in 1..Len(out) : out[i] = s}) = Size

\* A deleted connection is out of everybody's reach: no thread is in one of its
\* methods, select will not be given its descriptor and no callback can start.
DeletedIsUnreachable == deleted =>
  /\ wpdu_.buf = Nobody
  /\ ~rfds_ /\ ~wfds_ /\ ~callbacks_
  /\ poll \notin {"read_cb", "write_cb"} /\ ~(poll = "select" /\ (tr \/ tw))
  /\ \A t \in Threads : pc[t] \in {"idle", "out", "closed", "was_dead"}

\* block_remove_fd keeps its promise: when it has returned no callback on the
\* descriptor runs, nor will one (its caller goes on to free the connection).
RemovedIsQuiet == (\E t \in Threads : pc[t] \in {"removed", "failed", "closed"}) =>
  ~rfds_ /\ ~wfds_ /\ poll \notin {"read_cb", "write_cb"}

Closing == \E t \in Closers : pc[t] # "idle"

\* send does not block for good while nobody calls closeconn: the data is sent or
\* the connection fails, and the failure reaches those behind the current writer.
SendReturns == \A s \in Senders :
  pc[s] = "ready" ~> (pc[s] \in {"sent", "out"} \/ aborted \/ Closing)

\* The end of the stream behind the last whole PDU is noticed.  (In the middle of
\* a PDU a stale errno makes readpdu take it for "nothing there yet".)
EofNoticed == (Eof /\ avail = 0 /\ rpdu_ = "none") ~> (dead_ \/ aborted)

\* The assertion at the head of write_cb holds whenever the poll thread calls it.
WriteCbAlive == poll = "write_cb" => ~dead_
===============================================================================
