--------------------------- MODULE LockServerProof ---------------------------
(***************************************************************************)
(* Proofs about LockServer, for any number of threads, clients and locks   *)
(* and any size of the pool.                                               *)
(***************************************************************************)
EXTENDS LockServer, TLAPS

\* The jobs in the queue are the threads whose call is queued, once each.
QueueInv == /\ \A i \in 1..Len(jobq) : pc[jobq[i]] = "queued"
            /\ \A i, j \in 1..Len(jobq) : jobq[i] = jobq[j] => i = j

\* How a thread's call, its lock and what it holds hang together.
CallInv == \A t \in Threads :
  /\ pc[t] = "out" <=> op[t] = "none"
  /\ pc[t] # "out" => lid[t] \in Locks
  /\ op[t] = "acquire" => lid[t] \notin held[t]
  /\ pc[t] \in {"cond", "signaled"} => op[t] = "acquire"
  /\ op[t] = "release" /\ lid[t] \notin held[t] => Sharers(t) = {}
  /\ op[t] # "release" => ret[t] = "OK"

IInv == TypeOK /\ QueueInv /\ CallInv /\ OwnerInv /\ HeldReleaseOK

-------------------------------------------------------------------------------
(* Type correctness.                                                       *)

\* A signal moves one thread, if any, and changes no other variable than pc.
LEMMA SignalType ==
  ASSUME TypeOK, NEW t \in Threads, SignalAndReply(t)
  PROVE  pc' \in [Threads -> PC]
BY DEF TypeOK, SignalAndReply, Waiting, PC

\* Every variable keeps its domain: the handlers, the stubs and the pool only
\* write values of the declared kinds.
LEMMA TypeStep == TypeOK /\ CallInv /\ [Next]_vars => TypeOK'
<1> SUFFICES ASSUME TypeOK, CallInv, [Next]_vars PROVE TypeOK'
    OBVIOUS
<1> USE DEF TypeOK, PC, Status
<1>1. ASSUME NEW t \in Threads, NEW l \in Locks, NEW o \in {"acquire", "release"},
             Call(t, o, l)
      PROVE  TypeOK'
      BY <1>1 DEF Call
<1>2. CASE TakeJob
      BY <1>2 DEF TakeJob, callVars
<1>3. ASSUME NEW t \in Threads, TryAcquire(t), lid[t] \in Locks \union {NoLock}
      PROVE  TypeOK'
      BY <1>3, CltAssumption DEF TryAcquire, callVars
<1>4. ASSUME NEW t \in Threads, Release(t) PROVE TypeOK'
  <2>1. CASE CanDrop(Clt[t], lid[t])
        BY <1>4, <2>1, SignalType DEF Release, callVars
  <2>2. CASE ~CanDrop(Clt[t], lid[t])
        BY <1>4, <2>2 DEF Release, callVars
  <2> QED BY <2>1, <2>2
<1>5. ASSUME NEW t \in Threads, Spurious(t) PROVE TypeOK'
      BY <1>5 DEF Spurious, callVars
<1>6. ASSUME NEW t \in Threads, Return(t) PROVE TypeOK'
  <2>1. ~Again(t) /\ lid[t] \in Locks
        BY <1>6 DEF Return, Again, CallInv
  <2>2. held[t] \union {lid[t]} \in SUBSET Locks /\ held[t] \ {lid[t]} \in SUBSET Locks
        BY <2>1
  <2>3. held' \in [Threads -> SUBSET Locks]
        BY <1>6, <2>1, <2>2 DEF Return
  <2> QED BY <1>6, <2>1, <2>3 DEF Return
<1>7. CASE UNCHANGED vars
      BY <1>7 DEF vars
<1> QED BY <1>1, <1>2, <1>3, <1>4, <1>5, <1>6, <1>7
        DEF Next, Handler, Acquire, Wake, CallAcquire, CallRelease, StrayRelease

-------------------------------------------------------------------------------
(* The queue.                                                              *)

\* Calls enter the queue when they are made and leave it when a pool thread
\* takes them; nothing else touches a queued call.
LEMMA QueueStep == TypeOK /\ CallInv /\ QueueInv /\ [Next]_vars => QueueInv'
<1> SUFFICES ASSUME TypeOK, CallInv, QueueInv, [Next]_vars PROVE QueueInv'
    OBVIOUS
<1>q. \A i \in 1..Len(jobq) : jobq[i] \in Threads
      BY DEF TypeOK
<1>1. ASSUME NEW t \in Threads, NEW l \in Locks, NEW o \in {"acquire", "release"},
             Call(t, o, l)
      PROVE  QueueInv'
  <2>1. \A i \in 1..Len(jobq) : jobq[i] # t
        BY <1>1 DEF Call, QueueInv
  <2>2. /\ Len(jobq') = Len(jobq) + 1 /\ jobq'[Len(jobq) + 1] = t
        /\ \A i \in 1..Len(jobq) : jobq'[i] = jobq[i]
        BY <1>1 DEF Call, TypeOK
  <2>3. pc' = [pc EXCEPT ![t] = "queued"]
        BY <1>1 DEF Call
  <2>4. \A i \in 1..Len(jobq') : i \in 1..Len(jobq) \/ i = Len(jobq) + 1
        BY <2>2 DEF TypeOK
  <2>5. \A i \in 1..Len(jobq') : pc'[jobq'[i]] = "queued"
        BY <1>q, <2>2, <2>3, <2>4 DEF QueueInv, TypeOK
  <2>6. \A i, j \in 1..Len(jobq') : jobq'[i] = jobq'[j] => i = j
        BY <2>1, <2>2, <2>4 DEF QueueInv
  <2> QED BY <2>5, <2>6 DEF QueueInv
<1>2. CASE TakeJob
  <2>1. /\ Len(jobq) > 0 /\ Len(jobq') = Len(jobq) - 1
        /\ \A i \in 1..Len(jobq') : jobq'[i] = jobq[i + 1]
        /\ Head(jobq) = jobq[1]
        BY <1>2 DEF TakeJob, TypeOK
  <2>2. pc' = [pc EXCEPT ![Head(jobq)] = "handler"]
        BY <1>2 DEF TakeJob
  <2>3. \A i \in 1..Len(jobq') : i + 1 \in 1..Len(jobq) /\ i + 1 # 1 /\ 1 \in 1..Len(jobq)
        BY <1>2, <2>1 DEF TypeOK
  <2>4. \A i \in 1..Len(jobq') : jobq'[i] \in Threads /\ jobq'[i] # Head(jobq)
                                  /\ pc[jobq'[i]] = "queued"
        BY <1>q, <2>1, <2>3 DEF QueueInv
  <2>5. \A i, j \in 1..Len(jobq') : jobq'[i] = jobq'[j] => i = j
        BY <2>1, <2>3 DEF QueueInv
  <2> QED BY <2>2, <2>4, <2>5 DEF QueueInv, TypeOK
<1>3. ASSUME jobq' = jobq,
             \A t \in Threads : pc[t] = "queued" => pc'[t] = "queued"
      PROVE  QueueInv'
      BY <1>3, <1>q DEF QueueInv
<1>4. ASSUME NEW t \in Threads, Handler(t) PROVE QueueInv'
  <2>1. jobq' = jobq
        BY <1>4 DEF Handler, Acquire, Wake, TryAcquire, Release
  <2>2. \A u \in Threads : pc[u] = "queued" => pc'[u] = "queued"
        BY <1>4 DEF Handler, Acquire, Wake, TryAcquire, Release, SignalAndReply,
                    Waiting, TypeOK
  <2> QED BY <1>3, <2>1, <2>2
<1>5. ASSUME NEW t \in Threads, Spurious(t) PROVE QueueInv'
  <2>1. jobq' = jobq /\ \A u \in Threads : pc[u] = "queued" => pc'[u] = "queued"
        BY <1>5 DEF Spurious, TypeOK
  <2> QED BY <1>3, <2>1
<1>6. ASSUME NEW t \in Threads, Return(t) PROVE QueueInv'
  <2>1. ~Again(t)
        BY DEF Again, CallInv
  <2>2. jobq' = jobq /\ \A u \in Threads : pc[u] = "queued" => pc'[u] = "queued"
        BY <1>6, <2>1 DEF Return, TypeOK
  <2> QED BY <1>3, <2>2
<1>7. CASE UNCHANGED vars
      BY <1>7 DEF vars, QueueInv
<1> QED BY <1>1, <1>2, <1>4, <1>5, <1>6, <1>7
        DEF Next, CallAcquire, CallRelease, StrayRelease

-------------------------------------------------------------------------------
(* The calls.                                                              *)

\* A call's arguments stay put from call to return, only acquires sleep, and
\* the server's acquire answers OK or not at all.
LEMMA CallStep == TypeOK /\ CallInv /\ QueueInv /\ [Next]_vars => CallInv'
<1> SUFFICES ASSUME TypeOK, CallInv, QueueInv, [Next]_vars PROVE CallInv'
    OBVIOUS
<1> USE DEF TypeOK, CallInv, Sharers
<1>1. ASSUME NEW t \in Threads, NEW l \in Locks, CallAcquire(t, l) PROVE CallInv'
      BY <1>1, NoLockAssumption DEF CallAcquire, Call
<1>2. ASSUME NEW t \in Threads, NEW l \in Locks, CallRelease(t, l) PROVE CallInv'
      BY <1>2, NoLockAssumption DEF CallRelease, Call
<1>3. ASSUME NEW t \in Threads, NEW l \in Locks, StrayRelease(t, l) PROVE CallInv'
      BY <1>3, NoLockAssumption DEF StrayRelease, Call
<1>4. CASE TakeJob
  <2>1. Head(jobq) \in Threads /\ pc[Head(jobq)] = "queued"
        BY <1>4 DEF TakeJob, QueueInv
  <2> QED BY <1>4, <2>1 DEF TakeJob, callVars
<1>5. ASSUME NEW t \in Threads, TryAcquire(t), pc[t] \in {"handler", "signaled"},
             op[t] = "acquire"
      PROVE  CallInv'
      BY <1>5 DEF TryAcquire, callVars
<1>6. ASSUME NEW t \in Threads, Release(t) PROVE CallInv'
      BY <1>6 DEF Release, SignalAndReply, Waiting, callVars
<1>7. ASSUME NEW t \in Threads, Spurious(t) PROVE CallInv'
      BY <1>7 DEF Spurious, callVars
<1>8. ASSUME NEW t \in Threads, Return(t) PROVE CallInv'
      BY <1>8 DEF Return, Again
<1>9. CASE UNCHANGED vars
      BY <1>9 DEF vars
<1> QED BY <1>1, <1>2, <1>3, <1>4, <1>5, <1>6, <1>7, <1>8, <1>9
        DEF Next, Handler, Acquire, Wake

-------------------------------------------------------------------------------
(* Ownership.                                                              *)

\* A step that leaves the table and every thread's ownership alone.
LEMMA SameOwners ==
  ASSUME OwnerInv, lock_map_' = lock_map_,
         \A t \in Threads, l \in Locks : Owns(t, l)' <=> Owns(t, l)
  PROVE  OwnerInv'
BY DEF OwnerInv

\* Calls, their way to a pool thread, wakeups and refused attempts change no
\* thread's ownership; neither does acquire's return, which turns a granted
\* lock into a held one.
LEMMA OwnsUnchanged ==
  ASSUME TypeOK, CallInv, QueueInv, NEW t \in Threads, NEW l \in Locks,
         \/ \E u \in Threads, k \in Locks, o \in {"acquire", "release"} : Call(u, o, k)
         \/ TakeJob
         \/ \E u \in Threads : Spurious(u) \/ Return(u)
         \/ UNCHANGED vars
  PROVE  Owns(t, l)' <=> Owns(t, l)
<1> USE DEF TypeOK, CallInv, Owns
<1>1. CASE \E u \in Threads, k \in Locks, o \in {"acquire", "release"} : Call(u, o, k)
      BY <1>1 DEF Call
<1>2. CASE TakeJob
  <2>1. Head(jobq) \in Threads /\ pc[Head(jobq)] = "queued"
        BY <1>2 DEF TakeJob, QueueInv
  <2> QED BY <1>2, <2>1 DEF TakeJob, callVars
<1>3. ASSUME NEW u \in Threads, Spurious(u) PROVE Owns(t, l)' <=> Owns(t, l)
      BY <1>3 DEF Spurious, callVars
<1>4. ASSUME NEW u \in Threads, Return(u) PROVE Owns(t, l)' <=> Owns(t, l)
  <2>1. /\ pc[u] = "reply" /\ op[u] \in {"acquire", "release"}
        /\ pc' = [pc EXCEPT ![u] = "out"]
        /\ op' = [op EXCEPT ![u] = "none"]
        /\ held' = [held EXCEPT ![u] = IF op[u] = "acquire"
                                       THEN held[u] \union {lid[u]} ELSE held[u] \ {lid[u]}]
        /\ lid' = [lid EXCEPT ![u] = NoLock]
        BY <1>4 DEF Return, Again
  <2>2. CASE t # u
        BY <2>1, <2>2
  <2>3. CASE t = u
    <3>1. held'[t] = IF op[t] = "acquire" THEN held[t] \union {lid[t]} ELSE held[t] \ {lid[t]}
          BY <2>1, <2>3
    <3>2. pc'[t] = "out"
          BY <2>1, <2>3
    <3>3. Owns(t, l)' <=> l \in held'[t]
          BY <3>2
    <3> QED BY <2>1, <2>3, <3>1, <3>3
  <2> QED BY <2>2, <2>3
<1>5. CASE UNCHANGED vars
      BY <1>5 DEF vars
<1> QED BY <1>1, <1>2, <1>3, <1>4, <1>5

\* get_lock succeeds only on a lock nobody owns, and then makes one owner.
LEMMA TryAcquireOwner ==
  ASSUME TypeOK, CallInv, OwnerInv, NEW t \in Threads, TryAcquire(t),
         pc[t] \in {"handler", "signaled"}, op[t] = "acquire"
  PROVE  OwnerInv'
<1> USE DEF TypeOK, CallInv
<1>0. lid[t] \in Locks /\ Clt[t] \in Clients /\ Clt[t] # NoClient
      BY CltAssumption, NoClientAssumption
<1>1. CASE CanGet(lid[t])
  <2>1. /\ lock_map_' = [lock_map_ EXCEPT ![lid[t]] = Clt[t]]
        /\ pc' = [pc EXCEPT ![t] = "reply"]
        /\ op' = op /\ lid' = lid /\ held' = held
        BY <1>1 DEF TryAcquire, callVars
  <2>2. \A u \in Threads : ~Owns(u, lid[t])
        BY <1>0, <1>1, CltAssumption, NoClientAssumption DEF OwnerInv, CanGet
  <2>3. \A u \in Threads, l \in Locks :
          Owns(u, l)' <=> Owns(u, l) \/ (u = t /\ l = lid[t])
        BY <2>1 DEF Owns
  <2>4. lock_map_'[lid[t]] = Clt[t] /\ \A l \in Locks : l # lid[t] => lock_map_'[l] = lock_map_[l]
        BY <1>0, <2>1
  <2> QED BY <1>0, <2>2, <2>3, <2>4 DEF OwnerInv
<1>2. CASE ~CanGet(lid[t])
  <2>1. /\ lock_map_' = lock_map_
        /\ pc' = [pc EXCEPT ![t] = "cond"]
        /\ op' = op /\ lid' = lid /\ held' = held
        BY <1>2 DEF TryAcquire, callVars
  <2>2. \A u \in Threads, l \in Locks : Owns(u, l)' <=> Owns(u, l)
        BY <2>1 DEF Owns
  <2> QED BY <2>1, <2>2, SameOwners
<1> QED BY <1>1, <1>2

\* drop_lock succeeds exactly for the thread that owns the lock.
LEMMA DropIsOwn ==
  ASSUME TypeOK, CallInv, OwnerInv, NEW t \in Threads, pc[t] = "handler", op[t] = "release"
  PROVE  /\ CanDrop(Clt[t], lid[t]) <=> lid[t] \in held[t]
         /\ lid[t] \in held[t] => Owns(t, lid[t])
<1>0. lid[t] \in Locks /\ Clt[t] # NoClient
      BY CltAssumption, NoClientAssumption DEF CallInv
<1>1. lid[t] \in held[t] => Owns(t, lid[t]) /\ CanDrop(Clt[t], lid[t])
      BY <1>0 DEF Owns, OwnerInv, CanDrop
<1>2. ASSUME lid[t] \notin held[t], CanDrop(Clt[t], lid[t]) PROVE FALSE
  <2>1. PICK u \in Threads : Owns(u, lid[t])
        BY <1>0, <1>2 DEF OwnerInv, CanDrop
  <2>2. Clt[u] = Clt[t]
        BY <1>0, <1>2, <2>1 DEF OwnerInv, CanDrop
  <2>3. u = t
        BY <1>2, <2>2 DEF CallInv, Sharers
  <2> QED BY <1>2, <2>1, <2>3 DEF Owns
<1> QED BY <1>1, <1>2

\* release takes the lock from its owner and from nobody else.
LEMMA ReleaseOwner ==
  ASSUME TypeOK, CallInv, OwnerInv, NEW t \in Threads, Release(t)
  PROVE  OwnerInv'
<1> USE DEF TypeOK, CallInv
<1>0. /\ pc[t] = "handler" /\ op[t] = "release" /\ lid[t] \in Locks
      /\ op' = op /\ lid' = lid /\ held' = held
      BY DEF Release, callVars
<1>1. /\ \A u \in Threads : pc'[u] = "reply" <=> u = t \/ pc[u] = "reply"
      BY <1>0 DEF Release, SignalAndReply, Waiting
<1>2. CASE CanDrop(Clt[t], lid[t])
  <2>1. lock_map_' = [lock_map_ EXCEPT ![lid[t]] = NoClient]
        BY <1>2 DEF Release
  <2>2. Owns(t, lid[t])
        BY <1>0, <1>2, DropIsOwn
  <2>3. \A u \in Threads : Owns(u, lid[t]) => u = t
        BY <1>0, <2>2 DEF OwnerInv
  <2>4. \A u \in Threads, l \in Locks :
          Owns(u, l)' <=> Owns(u, l) /\ ~(u = t /\ l = lid[t])
        BY <1>0, <1>1 DEF Owns
  <2>5. lock_map_'[lid[t]] = NoClient /\ \A l \in Locks : l # lid[t] => lock_map_'[l] = lock_map_[l]
        BY <1>0, <2>1
  <2> QED BY <1>0, <2>3, <2>4, <2>5 DEF OwnerInv
<1>3. CASE ~CanDrop(Clt[t], lid[t])
  <2>1. lock_map_' = lock_map_
        BY <1>3 DEF Release
  <2>2. lid[t] \notin held[t]
        BY <1>0, <1>3, DropIsOwn
  <2>3. \A u \in Threads, l \in Locks : Owns(u, l)' <=> Owns(u, l)
        BY <1>0, <1>1, <2>2 DEF Owns
  <2> QED BY <2>1, <2>3, SameOwners
<1> QED BY <1>2, <1>3

\* The table and the threads' view of it stay together in every step.
LEMMA OwnerStep ==
  TypeOK /\ CallInv /\ QueueInv /\ OwnerInv /\ [Next]_vars => OwnerInv'
<1> SUFFICES ASSUME TypeOK, CallInv, QueueInv, OwnerInv, [Next]_vars PROVE OwnerInv'
    OBVIOUS
<1>1. ASSUME \/ \E u \in Threads, k \in Locks, o \in {"acquire", "release"} : Call(u, o, k)
             \/ TakeJob
             \/ \E u \in Threads : Spurious(u) \/ Return(u)
             \/ UNCHANGED vars
      PROVE  OwnerInv'
  <2>1. lock_map_' = lock_map_
        BY <1>1 DEF Call, TakeJob, Spurious, Return, vars
  <2>2. \A t \in Threads, l \in Locks : Owns(t, l)' <=> Owns(t, l)
        BY <1>1, OwnsUnchanged
  <2> QED BY <2>1, <2>2, SameOwners
<1>2. ASSUME NEW t \in Threads, Handler(t) PROVE OwnerInv'
  <2>1. CASE Acquire(t)
        BY <2>1, TryAcquireOwner DEF Acquire
  <2>2. CASE Wake(t)
        BY <2>2, TryAcquireOwner DEF Wake, CallInv
  <2>3. CASE Release(t)
        BY <2>3, ReleaseOwner
  <2> QED BY <1>2, <2>1, <2>2, <2>3 DEF Handler
<1> QED BY <1>1, <1>2 DEF Next, CallAcquire, CallRelease, StrayRelease

\* A release that drop_lock refuses is one of a lock the thread does not hold.
LEMMA HeldReleaseStep ==
  TypeOK /\ CallInv /\ QueueInv /\ OwnerInv /\ HeldReleaseOK /\ [Next]_vars
    => HeldReleaseOK'
<1> SUFFICES ASSUME TypeOK, CallInv, QueueInv, OwnerInv, HeldReleaseOK, [Next]_vars
             PROVE  HeldReleaseOK'
    OBVIOUS
<1> USE DEF TypeOK, CallInv, HeldReleaseOK
<1>1. ASSUME NEW u \in Threads, NEW k \in Locks, NEW o \in {"acquire", "release"},
             Call(u, o, k)
      PROVE  HeldReleaseOK'
      BY <1>1 DEF Call
<1>2. CASE TakeJob
  <2>1. Head(jobq) \in Threads
        BY <1>2 DEF TakeJob
  <2> QED BY <1>2, <2>1 DEF TakeJob, callVars
<1>3. ASSUME NEW t \in Threads, TryAcquire(t), op[t] = "acquire" PROVE HeldReleaseOK'
      BY <1>3 DEF TryAcquire, callVars
<1>4. ASSUME NEW t \in Threads, Release(t) PROVE HeldReleaseOK'
  <2>1. lid[t] \in held[t] => ret'[t] = "OK"
        BY <1>4, DropIsOwn DEF Release
  <2>2. \A u \in Threads : u # t => (pc'[u] = "reply" <=> pc[u] = "reply") /\ ret'[u] = ret[u]
        BY <1>4 DEF Release, SignalAndReply, Waiting
  <2>3. op' = op /\ lid' = lid /\ held' = held
        BY <1>4 DEF Release, callVars
  <2> QED BY <2>1, <2>2, <2>3
<1>5. ASSUME NEW t \in Threads, Spurious(t) PROVE HeldReleaseOK'
      BY <1>5 DEF Spurious, callVars
<1>6. ASSUME NEW t \in Threads, Return(t) PROVE HeldReleaseOK'
      BY <1>6 DEF Return, Again
<1>7. CASE UNCHANGED vars
      BY <1>7 DEF vars
<1> QED BY <1>1, <1>2, <1>3, <1>4, <1>5, <1>6, <1>7
        DEF Next, Handler, Acquire, Wake, CallAcquire, CallRelease, StrayRelease

-------------------------------------------------------------------------------
(* The invariant and what follows from it.                                 *)

\* Before the first call there is no entry, no job and no owner.
LEMMA InitInv == Init => IInv
BY CltAssumption
   DEF Init, IInv, TypeOK, PC, Status, QueueInv, CallInv, OwnerInv, Owns, HeldReleaseOK

\* The conjunction is inductive.
LEMMA StepInv == IInv /\ [Next]_vars => IInv'
BY TypeStep, QueueStep, CallStep, OwnerStep, HeldReleaseStep DEF IInv

\* IInv holds in every state the lock server reaches.
THEOREM Invariance == Spec => []IInv
BY InitInv, StepInv, PTL DEF Spec

\* The variables of the lock server and its stubs keep their types.
THEOREM TypeCorrect == Spec => []TypeOK
<1>1. IInv => TypeOK
      BY DEF IInv
<1> QED BY <1>1, Invariance, PTL

\* lock_map_ names, for every lock, the client of the one thread that was
\* granted it and has not released it, replies and requests in flight included.
THEOREM OwnerCorrect == Spec => []OwnerInv
<1>1. IInv => OwnerInv
      BY DEF IInv
<1> QED BY <1>1, Invariance, PTL

\* A thread inside a lock owns it.
LEMMA InsideOwns ==
  ASSUME CallInv, NEW t \in Threads, NEW l \in Locks, Inside(t, l)
  PROVE  Owns(t, l)
BY DEF Inside, Owns

\* No two threads are between acquire's return and the call of release.
THEOREM MutualExclusionHolds == Spec => []MutualExclusion
<1>1. IInv => MutualExclusion
      BY InsideOwns DEF IInv, OwnerInv, MutualExclusion
<1> QED BY <1>1, Invariance, PTL

\* release is never answered RETRY to a thread that holds the lock.
THEOREM HeldReleaseCorrect == Spec => []HeldReleaseOK
<1>1. IInv => HeldReleaseOK
      BY DEF IInv
<1> QED BY <1>1, Invariance, PTL

-------------------------------------------------------------------------------
(* Wakeups.                                                                *)

\* With one lock in use the sleeper that release wakes waits for that lock.
LEMMA WakeupStep ==
  ASSUME NEW k, Locks = {k}, IInv, NoLostWakeup, [Next]_vars
  PROVE  NoLostWakeup'
<1> USE DEF IInv, TypeOK, CallInv
<1>0. SUFFICES ASSUME lock_map_'[k] = NoClient, NEW s \in Threads, pc'[s] = "cond", lid'[s] = k
               PROVE  \E t \in Threads : pc'[t] = "signaled" /\ lid'[t] = k
      BY DEF NoLostWakeup, CanGet, Asleep, Waiting
<1>1. ASSUME lock_map_' = lock_map_, lid'[s] = lid[s], pc[s] = "cond",
             \A t \in Threads : pc[t] = "signaled" => pc'[t] = "signaled" /\ lid'[t] = lid[t]
      PROVE  \E t \in Threads : pc'[t] = "signaled" /\ lid'[t] = k
      BY <1>0, <1>1 DEF NoLostWakeup, CanGet, Asleep, Waiting
<1>2. ASSUME NEW u \in Threads, NEW l \in Locks, NEW o \in {"acquire", "release"},
             Call(u, o, l)
      PROVE  \E t \in Threads : pc'[t] = "signaled" /\ lid'[t] = k
      BY <1>0, <1>1, <1>2 DEF Call
<1>3. CASE TakeJob
  <2>1. Head(jobq) \in Threads /\ pc[Head(jobq)] = "queued"
        BY <1>3 DEF TakeJob, QueueInv
  <2> QED BY <1>0, <1>1, <1>3, <2>1 DEF TakeJob, callVars
<1>4. ASSUME NEW u \in Threads, TryAcquire(u), op[u] = "acquire", pc[u] # "out" PROVE FALSE
  <2>1. lid[u] = k
        BY <1>4
  <2>2. CASE CanGet(lid[u])
    <3>1. lock_map_'[k] = Clt[u]
          BY <1>4, <2>1, <2>2 DEF TryAcquire
    <3> QED BY <1>0, <3>1, CltAssumption, NoClientAssumption
  <2>3. CASE ~CanGet(lid[u])
        BY <1>0, <1>4, <2>1, <2>3 DEF TryAcquire, CanGet
  <2> QED BY <2>2, <2>3
<1>5. ASSUME NEW u \in Threads, Release(u)
      PROVE  \E t \in Threads : pc'[t] = "signaled" /\ lid'[t] = k
  <2>1. CASE CanDrop(Clt[u], lid[u])
    <3>1. SignalAndReply(u) /\ lid' = lid
          BY <1>5, <2>1 DEF Release, callVars
    <3>2. Waiting # {}
          BY <1>0, <3>1 DEF SignalAndReply, Waiting
    <3>3. PICK v \in Waiting : pc' = [pc EXCEPT ![u] = "reply", ![v] = "signaled"]
          BY <3>1, <3>2 DEF SignalAndReply
    <3>4. v \in Threads /\ lid[v] = k /\ v # u
          BY <1>5, <3>3 DEF Waiting, Release
    <3> QED BY <3>1, <3>3, <3>4
  <2>2. CASE ~CanDrop(Clt[u], lid[u])
        BY <1>0, <1>1, <1>5, <2>2 DEF Release, callVars
  <2> QED BY <2>1, <2>2
<1>6. ASSUME NEW u \in Threads, Spurious(u)
      PROVE  \E t \in Threads : pc'[t] = "signaled" /\ lid'[t] = k
      BY <1>6 DEF Spurious, callVars
<1>7. ASSUME NEW u \in Threads, Return(u)
      PROVE  \E t \in Threads : pc'[t] = "signaled" /\ lid'[t] = k
      BY <1>0, <1>1, <1>7 DEF Return, Again
<1>8. CASE UNCHANGED vars
      BY <1>0, <1>1, <1>8 DEF vars
<1> QED BY <1>2, <1>3, <1>4, <1>5, <1>6, <1>7, <1>8
        DEF Next, Handler, Acquire, Wake, CallAcquire, CallRelease, StrayRelease

\* A server of one lock never forgets a sleeper, however many threads there are:
\* the single pthread_cond_signal of release is enough there.
THEOREM NoLostWakeupOneLock ==
  ASSUME NEW k, Locks = {k}
  PROVE  Spec => []NoLostWakeup
<1>1. Init => NoLostWakeup
      BY DEF Init, NoLostWakeup, Asleep, Waiting
<1>2. IInv /\ NoLostWakeup /\ [Next]_vars => NoLostWakeup'
      BY WakeupStep
<1> QED BY <1>1, <1>2, Invariance, PTL DEF Spec

-------------------------------------------------------------------------------
(* Refinement.                                                             *)

\* The abstract owner of a lock, as the ownership predicate determines it.
LEMMA OwnerValue ==
  ASSUME OwnerInv, NEW l \in Locks
  PROVE  /\ \A t \in Threads : Owns(t, l) => Owner(l) = t
         /\ (\A t \in Threads : ~Owns(t, l)) => Owner(l) = NoClient
BY DEF OwnerInv, Owner

\* The same of the next state.
LEMMA OwnerValueNext ==
  ASSUME OwnerInv', NEW l \in Locks
  PROVE  /\ \A t \in Threads : Owns(t, l)' => Owner(l)' = t
         /\ (\A t \in Threads : ~Owns(t, l)') => Owner(l)' = NoClient
BY DEF OwnerInv, Owner

\* The abstract owner of a lock moves only with somebody's ownership of it.
LEMMA OwnerSame ==
  ASSUME OwnerInv, OwnerInv', NEW l \in Locks,
         \A t \in Threads : Owns(t, l)' <=> Owns(t, l)
  PROVE  Owner(l)' = Owner(l)
BY OwnerValue, OwnerValueNext

absOwner == [l \in Locks |-> Owner(l)]
absInside == [t \in Threads |-> {l \in Locks : Inside(t, l)}]

\* A function that differs from f at one argument.
LEMMA FunctionUpdate ==
  ASSUME NEW S, NEW T, NEW f \in [S -> T], NEW g \in [S -> T], NEW s \in S,
         \A u \in S : u # s => g[u] = f[u]
  PROVE  g = [f EXCEPT ![s] = g[s]]
OBVIOUS

\* Every step of the server, the pool and the stubs is a step of the abstract
\* lock or leaves it alone.
LEMMA RefineStep ==
  ASSUME IInv, IInv', [Next]_vars
  PROVE  [Abstract!Next]_<<absOwner, absInside>>
<1> USE DEF IInv, TypeOK, CallInv
<1>s. ASSUME \A t \in Threads, l \in Locks : Owns(t, l)' <=> Owns(t, l)
      PROVE  absOwner' = absOwner
      BY <1>s, OwnerSame DEF absOwner
<1>i. ASSUME \A t \in Threads, l \in Locks : Inside(t, l)' <=> Inside(t, l)
      PROVE  absInside' = absInside
      BY <1>i DEF absInside
<1>m. \A u \in Threads : \A k :
        /\ k \in absInside[u] <=> k \in Locks /\ Inside(u, k)
        /\ k \in absInside'[u] <=> k \in Locks /\ Inside(u, k)'
      BY DEF absInside
<1>f. absInside \in [Threads -> SUBSET Locks] /\ absInside' \in [Threads -> SUBSET Locks]
      BY DEF absInside
<1>1. ASSUME NEW t \in Threads, NEW l \in Locks,
             CallAcquire(t, l) \/ StrayRelease(t, l)
      PROVE  UNCHANGED <<absOwner, absInside>>
  <2>1. \A u \in Threads, k \in Locks : Owns(u, k)' <=> Owns(u, k)
        BY <1>1, OwnsUnchanged DEF CallAcquire, StrayRelease
  <2>2. \A u \in Threads, k \in Locks : Inside(u, k)' <=> Inside(u, k)
        BY <1>1 DEF CallAcquire, StrayRelease, Call, Inside
  <2> QED BY <1>s, <1>i, <2>1, <2>2
<1>2. ASSUME NEW t \in Threads, NEW l \in Locks, CallRelease(t, l)
      PROVE  Abstract!Leave(t, l)
  <2>1. \A u \in Threads, k \in Locks : Owns(u, k)' <=> Owns(u, k)
        BY <1>2, OwnsUnchanged DEF CallRelease
  <2>2. Inside(t, l)
        BY <1>2 DEF CallRelease, Call, Inside
  <2>3. \A u \in Threads, k \in Locks :
          Inside(u, k)' <=> Inside(u, k) /\ ~(u = t /\ k = l)
        BY <1>2 DEF CallRelease, Call, Inside
  <2>4. absInside' = [absInside EXCEPT ![t] = @ \ {l}]
    <3>1. ASSUME NEW u \in Threads, u # t PROVE absInside'[u] = absInside[u]
      <4>1. \A k : k \in absInside'[u] <=> k \in absInside[u]
            BY <1>m, <2>3, <3>1
      <4> QED BY <4>1
    <3>2. absInside'[t] = absInside[t] \ {l}
      <4>1. \A k : k \in absInside'[t] <=> k \in absInside[t] /\ k # l
            BY <1>m, <2>3
      <4> QED BY <4>1
    <3>3. absInside' = [absInside EXCEPT ![t] = absInside'[t]]
          BY ONLY <1>f, <3>1, t \in Threads, FunctionUpdate
    <3> QED BY ONLY <3>2, <3>3
  <2> QED BY <1>s, <2>1, <2>2, <2>4 DEF Abstract!Leave, absInside, absOwner
<1>3. ASSUME TakeJob \/ \E t \in Threads : Spurious(t)
      PROVE  UNCHANGED <<absOwner, absInside>>
  <2>1. \A u \in Threads, k \in Locks : Owns(u, k)' <=> Owns(u, k)
        BY <1>3, OwnsUnchanged
  <2>2. op' = op /\ lid' = lid /\ held' = held
        BY <1>3 DEF TakeJob, Spurious, callVars
  <2>3. \A u \in Threads, k \in Locks : Inside(u, k)' <=> Inside(u, k)
        BY <2>2 DEF Inside
  <2> QED BY <1>s, <1>i, <2>1, <2>3
<1>4. ASSUME NEW t \in Threads, TryAcquire(t), pc[t] \in {"handler", "signaled"},
             op[t] = "acquire"
      PROVE  Abstract!Grant(t, lid[t]) \/ UNCHANGED <<absOwner, absInside>>
  <2>1. op' = op /\ lid' = lid /\ held' = held /\ lid[t] \in Locks
        BY <1>4 DEF TryAcquire, callVars
  <2>2. absInside' = absInside
        BY <1>i, <2>1 DEF Inside
  <2>3. CASE CanGet(lid[t])
    <3>1. pc' = [pc EXCEPT ![t] = "reply"]
          BY <1>4, <2>3 DEF TryAcquire
    <3>2. \A u \in Threads, l \in Locks :
            Owns(u, l)' <=> Owns(u, l) \/ (u = t /\ l = lid[t])
          BY <1>4, <2>1, <3>1 DEF Owns
    <3>3. Owner(lid[t]) = NoClient
      <4>1. \A u \in Threads : ~Owns(u, lid[t])
            BY <2>1, <2>3, CltAssumption, NoClientAssumption DEF OwnerInv, CanGet
      <4> QED BY <2>1, <4>1, OwnerValue
    <3>4. Owner(lid[t])' = t
          BY <2>1, <3>2, OwnerValueNext
    <3>5. \A l \in Locks : l # lid[t] => Owner(l)' = Owner(l)
          BY <3>2, OwnerSame
    <3>6. absOwner' = [absOwner EXCEPT ![lid[t]] = t]
          BY <2>1, <3>4, <3>5 DEF absOwner
    <3> QED BY <2>1, <2>2, <3>3, <3>6 DEF Abstract!Grant, absOwner, absInside
  <2>4. CASE ~CanGet(lid[t])
    <3>1. pc' = [pc EXCEPT ![t] = "cond"]
          BY <1>4, <2>4 DEF TryAcquire
    <3>2. \A u \in Threads, l \in Locks : Owns(u, l)' <=> Owns(u, l)
          BY <1>4, <2>1, <3>1 DEF Owns
    <3> QED BY <1>s, <2>2, <3>2
  <2> QED BY <2>3, <2>4
<1>5. ASSUME NEW t \in Threads, Release(t)
      PROVE  Abstract!Free(t, lid[t]) \/ UNCHANGED <<absOwner, absInside>>
  <2>1. /\ pc[t] = "handler" /\ op[t] = "release" /\ lid[t] \in Locks
        /\ op' = op /\ lid' = lid /\ held' = held
        BY <1>5 DEF Release, callVars
  <2>2. absInside' = absInside
        BY <1>i, <2>1 DEF Inside
  <2>3. \A u \in Threads : pc'[u] = "reply" <=> u = t \/ pc[u] = "reply"
        BY <1>5, <2>1 DEF Release, SignalAndReply, Waiting
  <2>4. CASE lid[t] \in held[t]
    <3>1. Owns(t, lid[t])
          BY <2>1, <2>4, DropIsOwn
    <3>2. \A u \in Threads, l \in Locks :
            Owns(u, l)' <=> Owns(u, l) /\ ~(u = t /\ l = lid[t])
          BY <2>1, <2>3 DEF Owns
    <3>3. Owner(lid[t]) = t
          BY <2>1, <3>1, OwnerValue
    <3>4. \A u \in Threads : ~Owns(u, lid[t])'
          BY <2>1, <3>1, <3>2 DEF OwnerInv
    <3>5. Owner(lid[t])' = NoClient
          BY <2>1, <3>4, OwnerValueNext
    <3>6. \A l \in Locks : l # lid[t] => Owner(l)' = Owner(l)
          BY <3>2, OwnerSame
    <3>7. absOwner' = [absOwner EXCEPT ![lid[t]] = NoClient]
          BY <2>1, <3>5, <3>6 DEF absOwner
    <3>8. lid[t] \notin {l \in Locks : Inside(t, l)}
          BY <2>1 DEF Inside
    <3> QED BY <2>1, <2>2, <3>3, <3>7, <3>8 DEF Abstract!Free, absOwner, absInside
  <2>5. CASE lid[t] \notin held[t]
    <3>1. \A u \in Threads, l \in Locks : Owns(u, l)' <=> Owns(u, l)
          BY <2>1, <2>3, <2>5 DEF Owns
    <3> QED BY <1>s, <2>2, <3>1
  <2> QED BY <2>4, <2>5
<1>6. ASSUME NEW t \in Threads, Return(t)
      PROVE  Abstract!Enter(t, lid[t]) \/ UNCHANGED <<absOwner, absInside>>
  <2>1. \A u \in Threads, k \in Locks : Owns(u, k)' <=> Owns(u, k)
        BY <1>6, OwnsUnchanged
  <2>2. /\ pc[t] = "reply" /\ op[t] \in {"acquire", "release"} /\ lid[t] \in Locks
        /\ op' = [op EXCEPT ![t] = "none"]
        /\ held' = [held EXCEPT ![t] = IF op[t] = "acquire"
                                       THEN held[t] \union {lid[t]} ELSE held[t] \ {lid[t]}]
        /\ lid' = [lid EXCEPT ![t] = NoLock]
        BY <1>6 DEF Return, Again
  <2>3. CASE op[t] = "acquire"
    <3>1. Owner(lid[t]) = t
          BY <2>2, <2>3, OwnerValue DEF Owns
    <3>2. ~Inside(t, lid[t])
          BY <2>3 DEF Inside
    <3>3. \A u \in Threads, k \in Locks :
            Inside(u, k)' <=> Inside(u, k) \/ (u = t /\ k = lid[t])
          BY <2>2, <2>3 DEF Inside
    <3>4. absInside' = [absInside EXCEPT ![t] = @ \union {lid[t]}]
      <4>1. ASSUME NEW u \in Threads, u # t PROVE absInside'[u] = absInside[u]
        <5>1. \A k : k \in absInside'[u] <=> k \in absInside[u]
              BY <1>m, <3>3, <4>1
        <5> QED BY <5>1
      <4>2. absInside'[t] = absInside[t] \union {lid[t]}
        <5>1. \A k : k \in absInside'[t] <=> k \in absInside[t] \/ k = lid[t]
              BY <1>m, <2>2, <3>3
        <5> QED BY <5>1
      <4>3. absInside' = [absInside EXCEPT ![t] = absInside'[t]]
            BY ONLY <1>f, <4>1, t \in Threads, FunctionUpdate
      <4> QED BY ONLY <4>2, <4>3
    <3> QED BY <1>s, <2>1, <2>2, <3>1, <3>2, <3>4 DEF Abstract!Enter, absInside, absOwner
  <2>4. CASE op[t] = "release"
    <3>1. \A u \in Threads, k \in Locks : Inside(u, k)' <=> Inside(u, k)
          BY <2>2, <2>4 DEF Inside
    <3> QED BY <1>s, <1>i, <2>1, <3>1
  <2> QED BY <2>2, <2>3, <2>4
<1>7. CASE UNCHANGED vars
  <2>1. \A u \in Threads, k \in Locks : (Owns(u, k)' <=> Owns(u, k)) /\ (Inside(u, k)' <=> Inside(u, k))
        BY <1>7 DEF vars, Owns, Inside
  <2> QED BY <1>s, <1>i, <2>1
<1>8. ASSUME NEW t \in Threads, Handler(t)
      PROVE  [Abstract!Next]_<<absOwner, absInside>>
  <2>1. lid[t] \in Locks
        BY <1>8 DEF Handler, Acquire, Wake, Release
  <2>2. CASE Acquire(t) \/ Wake(t)
        BY <1>4, <2>1, <2>2 DEF Acquire, Wake, Abstract!Next
  <2>3. CASE Release(t)
        BY <1>5, <2>1, <2>3 DEF Abstract!Next
  <2> QED BY <1>8, <2>2, <2>3 DEF Handler
<1>9. ASSUME NEW t \in Threads, Return(t)
      PROVE  [Abstract!Next]_<<absOwner, absInside>>
  <2>1. lid[t] \in Locks
        BY <1>9 DEF Return
  <2> QED BY <1>6, <1>9, <2>1 DEF Abstract!Next
<1> QED BY <1>1, <1>2, <1>3, <1>7, <1>8, <1>9 DEF Next, Abstract!Next

\* The lock server with its pool and its stubs implements the abstract lock: the
\* lock is granted, entered, left and freed in that order and to one at a time.
THEOREM Refinement == Spec => ImplementsAbstractLock
<1>1. Init => Abstract!Init
      BY DEF Init, Abstract!Init, Owner, Owns, Inside
<1>2. IInv /\ IInv' /\ [Next]_vars => [Abstract!Next]_<<absOwner, absInside>>
      BY RefineStep
<1> QED BY <1>1, <1>2, Invariance, PTL
        DEF Spec, ImplementsAbstractLock, Abstract!Spec, absOwner, absInside
===============================================================================
