------------------------------ MODULE RpcServer ------------------------------
(***************************************************************************)
(* The dispatch threads of rpcs (rpc.cc, rpcs::dispatch) and the reply     *)
(* windows they share, against clients that behave as rpcc does and a      *)
(* network that delays, reorders, repeats and loses their requests.        *)
(*                                                                         *)
(* A request's header is fixed when the call is made: its xid is the next  *)
(* one, its xid_rep is at least that of the call before and below its xid. *)
(* Every transmission of the call, the deliberately late one of the lossy  *)
(* mode included, carries that header.  Which connection an answer leaves  *)
(* on is the subject of the module Rpc.                                    *)
(***************************************************************************)
EXTENDS ReplyWindow

CONSTANTS Clts,     \* clients with a nonce other than zero
          Workers,  \* threads of dispatchpool_
          MaxXid    \* calls a client makes

ASSUME MaxXidAssumption == MaxXid \in Nat \ {0}

VARIABLES sent,    \* sent[c][x]: the xid_rep that client c's call x carries
          win,     \* the reply window of each client
          job,     \* what each dispatch thread is at
          runs     \* history: times the handler was started, per call

vars == <<sent, win, job, runs>>

Xids == 1..MaxXid

Idle == [st |-> "idle"]

\* Where dispatch can be in the request it works on.
Stages == {"arrived",    \* header unpacked, about to check for a duplicate
           "run",        \* NEW, handler about to be called
           "ran",        \* handler returned, reply not saved yet
           "send",       \* holds b1, a pointer into the reply window
           "forgotten"}  \* about to send atmostonce_failure

Jobs == [st : Stages, clt : Clts, xid : Xids, rep : Nat]

At(w, stage) == job[w].st = stage

Init == /\ sent = [c \in Clts |-> <<>>]
        /\ win = [c \in Clts |-> EmptyWindow]
        /\ job = [w \in Workers |-> Idle]
        /\ runs = [c \in Clts |-> [x \in Xids |-> 0]]

-------------------------------------------------------------------------------
(* Environment.                                                            *)

LastRep(c) == IF sent[c] = <<>> THEN 0 ELSE sent[c][Len(sent[c])]

\* Client c makes its next call.  Any xid_rep from the last one up to the calls
\* already made is possible: a call that timed out counts as replied to.
Call(c, rep) == /\ Len(sent[c]) < MaxXid
                /\ rep \in LastRep(c)..Len(sent[c])
                /\ sent' = [sent EXCEPT ![c] = Append(@, rep)]
                /\ UNCHANGED <<win, job, runs>>

\* Mutant: the header's xid_rep is off by one.
DeliverOffByOne(w, c, x) ==
  /\ At(w, "idle")
  /\ x <= Len(sent[c])
  /\ job' = [job EXCEPT ![w] = [st |-> "arrived", clt |-> c, xid |-> x,
                                rep |-> sent[c][x] - 1]]
  /\ UNCHANGED <<sent, win, runs>>

\* A copy of request x reaches an idle dispatch thread.
Deliver(w, c, x) ==
  /\ At(w, "idle")
  /\ x <= Len(sent[c])
  /\ job' = [job EXCEPT ![w] = [st |-> "arrived", clt |-> c, xid |-> x,
                                rep |-> sent[c][x]]]
  /\ UNCHANGED <<sent, win, runs>>

-------------------------------------------------------------------------------
(* rpcs::dispatch.                                                         *)

GoTo(w, stage) == job' = [job EXCEPT ![w].st = stage]
Done(w) == job' = [job EXCEPT ![w] = Idle]

\* checkduplicate_and_update and the switch on what it returns.
Check(w) ==
  /\ At(w, "arrived")
  /\ LET j == job[w]
         v == Verdict(win[j.clt], j.xid, j.rep)
     IN  /\ win' = [win EXCEPT ![j.clt] = Update(@, j.xid, j.rep)]
         /\ \/ v = "NEW" /\ GoTo(w, "run")
            \/ v = "DONE" /\ GoTo(w, "send")
            \/ v = "FORGOTTEN" /\ GoTo(w, "forgotten")
            \/ v = "INPROGRESS" /\ Done(w)
  /\ UNCHANGED <<sent, runs>>

\* f->fn.
Run(w) == /\ At(w, "run")
          /\ runs' = [runs EXCEPT ![job[w].clt][job[w].xid] = @ + 1]
          /\ GoTo(w, "ran")
          /\ UNCHANGED <<sent, win>>

\* add_reply.
Save(w) == /\ At(w, "ran")
           /\ win' = [win EXCEPT ![job[w].clt] = AddReply(@, job[w].xid)]
           /\ GoTo(w, "send")
           /\ UNCHANGED <<sent, runs>>

\* c->send returns, of a saved reply or of atmostonce_failure.
Send(w) == /\ At(w, "send") \/ At(w, "forgotten")
           /\ Done(w)
           /\ UNCHANGED <<sent, win, runs>>

Next == \/ \E c \in Clts, rep \in 0..MaxXid : Call(c, rep)
        \/ \E w \in Workers, c \in Clts, x \in Xids : Deliver(w, c, x)
        \/ \E w \in Workers : Check(w) \/ Run(w) \/ Save(w) \/ Send(w)

Spec == Init /\ [][Next]_vars

-------------------------------------------------------------------------------
(* Properties.                                                             *)

\* The windows, the calls and the dispatch threads stay in their domains.
TypeOK == /\ sent \in [Clts -> Seq(Nat)]
          /\ win \in [Clts -> WindowType]
          /\ job \in [Workers -> Jobs \union {Idle}]
          /\ runs \in [Clts -> [Xids -> Nat]]

Working(c, x) == {w \in Workers : job[w].st \in {"run", "ran"}
                                   /\ job[w].clt = c /\ job[w].xid = x}

\* At-most-once: whatever copies of a request arrive, in whatever order, while
\* other threads dispatch, its handler is not started twice.
AtMostOnce == \A c \in Clts, x \in Xids : runs[c][x] <= 1

\* The list stays sorted without repetition, which both the loop that drops
\* entries from its front and add_reply's VERIFY rely on.
WindowSorted == \A c \in Clts : Increasing(win[c].list)

\* A reply the client has not acknowledged is still there for a retransmission:
\* a call that ran is above the bound only with its reply saved, or with the
\* thread that ran it about to save it.
CachedUntilAcked == \A c \in Clts, x \in Xids :
  runs[c][x] > 0 /\ x > win[c].bound =>
     x \in Saved(win[c]) \/ \E w \in Working(c, x) : At(w, "ran")

\* The bound never moves back, so a call once forgotten is never run.
BoundMonotone == [][\A c \in Clts : win'[c].bound >= win[c].bound]_vars
===============================================================================
