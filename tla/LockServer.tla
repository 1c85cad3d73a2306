------------------------------ MODULE LockServer ------------------------------
(***************************************************************************)
(* The lock server (lock_server.cc), the client stubs (lock_client.cc) and *)
(* the pool of dispatch threads their blocking handlers run on (thr_pool). *)
(*                                                                         *)
(* The RPC layer between stub and server is taken at its promise while no  *)
(* call times out: a call's handler runs once and its result comes back.   *)
(* A section under lock_map_mutex_ is one step.  pthread_cond_wait parks   *)
(* the handler at "cond"; a signal, or a spurious wakeup, moves it to      *)
(* "signaled", where it competes for the mutex again.                      *)
(***************************************************************************)
EXTENDS Naturals, Sequences, FiniteSets

CONSTANTS Threads,    \* application threads, one outstanding call each
          Clients,    \* lock_client objects (rpcc::id(), the clt argument)
          Locks,      \* lock ids in use
          Clt,        \* the lock_client a thread calls through
          PoolSize,   \* threads of the dispatch pool
          NoClient,   \* "not in lock_map_"
          NoLock

ASSUME CltAssumption == Clt \in [Threads -> Clients]
ASSUME PoolAssumption == PoolSize \in Nat \ {0}
ASSUME NoClientAssumption == NoClient \notin Clients \union Threads
ASSUME NoLockAssumption == NoLock \notin Locks

VARIABLES lock_map_,  \* owner of each lock, NoClient when it has no entry
          jobq,       \* ThrPool::jobq_, calls that wait for a pool thread
          pc,         \* where a thread's call is
          op,         \* what it calls
          lid,        \* the call's lock
          ret,        \* what the handler returned
          held        \* locks acquire returned for and release did not

vars == <<lock_map_, jobq, pc, op, lid, ret, held>>
callVars == <<op, lid>>

\* lock_protocol::status, the two values the handlers return.
Status == {"OK", "RETRY"}

PC == {"out",       \* not in a call
       "queued",    \* request in jobq
       "handler",   \* taken by a pool thread, handler not yet in the mutex
       "cond",      \* asleep on lock_cond_
       "signaled",  \* woken, about to take the mutex again
       "reply"}     \* handler returned, stub has not

Init == /\ lock_map_ = [l \in Locks |-> NoClient]
        /\ jobq = <<>>
        /\ pc = [t \in Threads |-> "out"]
        /\ op = [t \in Threads |-> "none"]
        /\ lid = [t \in Threads |-> NoLock]
        /\ ret = [t \in Threads |-> "OK"]
        /\ held = [t \in Threads |-> {}]

-------------------------------------------------------------------------------
(* The client stubs.                                                       *)

Sharers(t) == {u \in Threads : u # t /\ Clt[u] = Clt[t]}

Call(t, o, l) == /\ pc[t] = "out"
                 /\ pc' = [pc EXCEPT ![t] = "queued"]
                 /\ op' = [op EXCEPT ![t] = o]
                 /\ lid' = [lid EXCEPT ![t] = l]
                 /\ jobq' = Append(jobq, t)
                 /\ UNCHANGED <<lock_map_, ret, held>>

\* lock_client::acquire, by a thread that does not hold the lock already.
CallAcquire(t, l) == l \notin held[t] /\ Call(t, "acquire", l)

\* lock_client::release of a lock the thread holds.
CallRelease(t, l) == l \in held[t] /\ Call(t, "release", l)

\* lock_client::release of a lock the thread does not hold: nothing in the stub
\* prevents it.  Threads that share a client are trusted not to do it, for the
\* server cannot tell them apart.
StrayRelease(t, l) == /\ l \notin held[t]
                      /\ Sharers(t) = {}
                      /\ Call(t, "release", l)

\* acquire's loop calls again on RETRY (which the server's acquire never returns).
Again(t) == op[t] = "acquire" /\ ret[t] = "RETRY"

\* The stub receives the reply; release hands the status to a caller that has
\* no more use for the lock.
Return(t) ==
  /\ pc[t] = "reply"
  /\ IF Again(t)
     THEN /\ pc' = [pc EXCEPT ![t] = "queued"]
          /\ jobq' = Append(jobq, t)
          /\ UNCHANGED <<callVars, ret, held>>
     ELSE /\ pc' = [pc EXCEPT ![t] = "out"]
          /\ op' = [op EXCEPT ![t] = "none"]
          /\ lid' = [lid EXCEPT ![t] = NoLock]
          /\ ret' = [ret EXCEPT ![t] = "OK"]
          /\ held' = [held EXCEPT ![t] = IF op[t] = "acquire"
                                         THEN @ \union {lid[t]} ELSE @ \ {lid[t]}]
          /\ UNCHANGED jobq
  /\ UNCHANGED lock_map_

-------------------------------------------------------------------------------
(* The pool.                                                               *)

Busy == {t \in Threads : pc[t] \in {"handler", "cond", "signaled"}}

\* Mutant: one pool thread is never used.
TakeJobOneShort == /\ jobq # <<>>
                   /\ Cardinality(Busy) < PoolSize - 1
                   /\ pc' = [pc EXCEPT ![Head(jobq)] = "handler"]
                   /\ jobq' = Tail(jobq)
                   /\ UNCHANGED <<lock_map_, callVars, ret, held>>

\* An idle pool thread takes the oldest job.
TakeJob == /\ jobq # <<>>
           /\ Cardinality(Busy) < PoolSize
           /\ pc' = [pc EXCEPT ![Head(jobq)] = "handler"]
           /\ jobq' = Tail(jobq)
           /\ UNCHANGED <<lock_map_, callVars, ret, held>>

-------------------------------------------------------------------------------
(* The handlers.                                                           *)

\* Mutant: an entry does not refuse.
CanGetAlways(l) == TRUE

\* get_lock: an entry, whoever's, refuses.
CanGet(l) == lock_map_[l] = NoClient

\* Mutant: any client may erase the entry.
CanDropAny(c, l) == lock_map_[l] # NoClient

\* drop_lock: only the client in the entry may erase it.
CanDrop(c, l) == lock_map_[l] = c

Waiting == {t \in Threads : pc[t] = "cond"}

\* Mutant: the entry names the calling thread, not its client.
TryAcquireByThread(t) ==
  /\ IF CanGet(lid[t])
     THEN /\ lock_map_' = [lock_map_ EXCEPT ![lid[t]] = t]
          /\ pc' = [pc EXCEPT ![t] = "reply"]
          /\ ret' = [ret EXCEPT ![t] = "OK"]
     ELSE /\ pc' = [pc EXCEPT ![t] = "cond"]
          /\ UNCHANGED <<lock_map_, ret>>
  /\ UNCHANGED <<jobq, callVars, held>>

\* Both attempts of lock_server::acquire, the one on entry and the one after
\* each pthread_cond_wait.
TryAcquire(t) ==
  /\ IF CanGet(lid[t])
     THEN /\ lock_map_' = [lock_map_ EXCEPT ![lid[t]] = Clt[t]]
          /\ pc' = [pc EXCEPT ![t] = "reply"]
          /\ ret' = [ret EXCEPT ![t] = "OK"]
     ELSE /\ pc' = [pc EXCEPT ![t] = "cond"]
          /\ UNCHANGED <<lock_map_, ret>>
  /\ UNCHANGED <<jobq, callVars, held>>

Acquire(t) == pc[t] = "handler" /\ op[t] = "acquire" /\ TryAcquire(t)

Wake(t) == pc[t] = "signaled" /\ TryAcquire(t)

\* pthread_cond_wait may return without a signal.
Spurious(t) == /\ pc[t] = "cond"
               /\ pc' = [pc EXCEPT ![t] = "signaled"]
               /\ UNCHANGED <<lock_map_, jobq, callVars, ret, held>>

\* Mutant: no signal.
ReplyOnly(t) == pc' = [pc EXCEPT ![t] = "reply"]

\* One pthread_cond_signal on lock_cond_, which all locks share: it wakes one
\* of the sleepers, if there are any, whichever lock they wait for.
SignalAndReply(t) ==
  IF Waiting = {}
  THEN pc' = [pc EXCEPT ![t] = "reply"]
  ELSE \E u \in Waiting : pc' = [pc EXCEPT ![t] = "reply", ![u] = "signaled"]

Release(t) ==
  /\ pc[t] = "handler"
  /\ op[t] = "release"
  /\ IF CanDrop(Clt[t], lid[t])
     THEN /\ lock_map_' = [lock_map_ EXCEPT ![lid[t]] = NoClient]
          /\ ret' = [ret EXCEPT ![t] = "OK"]
          /\ SignalAndReply(t)
     ELSE /\ ret' = [ret EXCEPT ![t] = "RETRY"]
          /\ pc' = [pc EXCEPT ![t] = "reply"]
          /\ UNCHANGED lock_map_
  /\ UNCHANGED <<jobq, callVars, held>>

-------------------------------------------------------------------------------
Handler(t) == Acquire(t) \/ Wake(t) \/ Release(t)

Next == \/ TakeJob
        \/ \E t \in Threads : Handler(t) \/ Spurious(t) \/ Return(t)
        \/ \E t \in Threads, l \in Locks :
             CallAcquire(t, l) \/ CallRelease(t, l) \/ StrayRelease(t, l)

\* Pool threads and the stubs' reply path are scheduled fairly; nothing makes
\* the application call, or a spurious wakeup happen.
Fairness == /\ WF_vars(TakeJob)
            /\ \A t \in Threads : WF_vars(Handler(t)) /\ WF_vars(Return(t))

Spec == Init /\ [][Next]_vars /\ Fairness

-------------------------------------------------------------------------------
(* Properties.                                                             *)

\* Every variable stays in its domain.
TypeOK == /\ lock_map_ \in [Locks -> Clients \union {NoClient}]
          /\ jobq \in Seq(Threads)
          /\ pc \in [Threads -> PC]
          /\ op \in [Threads -> {"none", "acquire", "release"}]
          /\ lid \in [Threads -> Locks \union {NoLock}]
          /\ ret \in [Threads -> Status]
          /\ held \in [Threads -> SUBSET Locks]

\* acquire has returned for l and release has not been called.
Inside(t, l) == l \in held[t] /\ ~(op[t] = "release" /\ lid[t] = l)

\* The server has granted l to t and not yet executed t's release.
Owns(t, l) == \/ l \in held[t] /\ ~(pc[t] = "reply" /\ op[t] = "release" /\ lid[t] = l)
              \/ pc[t] = "reply" /\ op[t] = "acquire" /\ lid[t] = l

\* No two threads are between acquire's return and the call of release on one
\* lock, also when they share a lock_client (what check_grant of lock_tester
\* counts).
MutualExclusion == \A l \in Locks, t, u \in Threads :
                     Inside(t, l) /\ Inside(u, l) => t = u

\* The table entry and the callers agree at every moment of the reply's and the
\* request's flight: an entry names the client of exactly one owning thread.
OwnerInv == \A l \in Locks :
  /\ \A t \in Threads : Owns(t, l) => lock_map_[l] = Clt[t]
  /\ \A t, u \in Threads : Owns(t, l) /\ Owns(u, l) => t = u
  /\ lock_map_[l] # NoClient => \E t \in Threads : Owns(t, l)

\* The release of a lock the caller holds is never refused: lock_client::release
\* drops RETRY on the floor, so a refusal would leave the lock taken for good.
HeldReleaseOK == \A t \in Threads :
  pc[t] = "reply" /\ op[t] = "release" /\ lid[t] \in held[t] => ret[t] = "OK"

Asleep(l) == {t \in Waiting : lid[t] = l}

\* A free lock with a sleeper has a woken handler on its way to take it: the
\* wakeup of release is not lost.  (For servers with a single lock in use.)
NoLostWakeup == \A l \in Locks :
  CanGet(l) /\ Asleep(l) # {} => \E t \in Threads : pc[t] = "signaled" /\ lid[t] = l

\* A free lock that handlers sleep for is eventually granted.
WaiterProgress == \A l \in Locks :
  (CanGet(l) /\ Asleep(l) # {}) ~> (~CanGet(l) \/ Asleep(l) = {})

\* A release that reached the server is eventually executed: its job is not
\* stuck behind acquires that sleep on the whole pool until it runs.
ReleaseServed == \A t \in Threads :
  (pc[t] = "queued" /\ op[t] = "release") ~> (pc[t] = "reply")

\* The pool can always make progress on a queued release: not every pool thread
\* sleeps in acquire while a release waits for one.
PoolNotExhausted ==
  (\E t \in Threads : pc[t] = "queued" /\ op[t] = "release")
    => Cardinality(Waiting) < PoolSize

\* The server and its stubs implement the abstract lock.
Owner(l) == IF \E t \in Threads : Owns(t, l)
            THEN CHOOSE t \in Threads : Owns(t, l) ELSE NoClient

Abstract == INSTANCE AbstractLock
  WITH Nobody <- NoClient,
       owner <- [l \in Locks |-> Owner(l)],
       inside <- [t \in Threads |-> {l \in Locks : Inside(t, l)}]

ImplementsAbstractLock == Abstract!Spec

===============================================================================
