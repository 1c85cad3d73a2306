-------------------------- MODULE ServerConnsProof --------------------------
(***************************************************************************)
(* Proofs about ServerConns, for any number of threads, descriptors,       *)
(* connections and requests, and a queue of any size.                      *)
(***************************************************************************)
EXTENDS ServerConns, FiniteSetTheorems, WellFoundedInduction, TLAPS

\* What a connection that is not deleted is.
Conns == [fd : Fds, in : Seq(Kinds), eof : BOOLEAN, rpdu_ : Kinds \union {"none"},
          wpdu_ : Workers \union {Nobody}, dead_ : BOOLEAN, refno_ : Nat, leaked : Nat]

AtWork == {"arrived", "run", "send", "asleep", "partial", "removing", "removed", "resumed"}

\* TypeOK but for the bound of leaked, which is OldInv's, at the end.
TypeInv ==
  /\ came \in 0..MaxReq /\ closed \in 0..MaxClose
  /\ conn \in Seq({Gone} \union Conns)
  /\ table \in [Fds -> 0..Len(conn)]
  /\ acceptor \in [st : {"select", "exited"}] \union
       [st : {"check", "collect"}, new : 1..Len(conn), todo : SUBSET Fds]
  /\ callbacks_ \in [Fds -> 0..Len(conn)]
  /\ rfds_ \subseteq Fds /\ wfds_ \subseteq Fds /\ pending_change_ \in BOOLEAN
  /\ poll \in [st : {"select", "ready", "aborted"}, r : SUBSET Fds, w : SUBSET Fds]
  /\ jobq_ \in Seq({Pill} \union [k : 1..Len(conn), kind : Kinds]) /\ Len(jobq_) <= QMax
  /\ worker \in [Workers -> [st : {"idle", "exited"}] \union
                            [st : AtWork, k : 1..Len(conn), kind : Kinds]]
  /\ conns_ \in 0..Len(conn)
  /\ destroyer \in [st : {"up", "join", "down"}] \union
       [st : {"close", "removing", "removed"}, todo : SUBSET Fds, pills : 0..Cardinality(Workers)]

\* The counts are those of the holders h; a deleted connection has none.
RefOK(c, h) ==
  \A k \in 1..Len(c) : IF c[k] = Gone THEN h[k] = 0 ELSE c[k].refno_ = h[k] + c[k].leaked

Held == [k \in 1..Len(conn) |-> Holders(k)]

RefInv == RefOK(conn, Held)

\* No two connections share a descriptor.
FdInv == \A j, k \in Open : conn[j].fd = conn[k].fd => j = k

\* A thread is about to put a new connection into the table.
Accepting == acceptor.st \in {"check", "collect"}

\* The destructor is at the connections.
Closing == destroyer.st \in {"close", "removing", "removed"}

\* The table has every connection that lives, under its descriptor; what the
\* loops over the table still have to visit is there, and what they are about
\* to drop is dead; the destructor's loop has the table for itself.
TableInv ==
  /\ \A fd \in Fds : table[fd] # 0 => conn[table[fd]].fd = fd
  /\ Accepting => /\ \A fd \in Fds : table[fd] # acceptor.new
                  /\ \A fd \in acceptor.todo : table[fd] # 0
  /\ acceptor.st = "collect" =>
       acceptor.todo # {} /\ conn[table[Least(acceptor.todo)]].dead_
  /\ destroyer.st \notin {"up", "join"} => acceptor.st = "exited"
  /\ Closing => destroyer.todo = {fd \in Fds : table[fd] # 0}
  /\ destroyer.st \in {"removing", "removed"} =>
       destroyer.todo # {} /\ conn[table[Least(destroyer.todo)]].dead_
  /\ \A k \in Open : conn[k].dead_ \/ table[conn[k].fd] = k \/ (Accepting /\ acceptor.new = k)

\* The reply of a handler that runs has a connection to move to.
DispatchInv == \A t \in Workers : worker[t].st = "run" => worker[t].k <= conns_

\* A thread is at the removal of connection k's descriptor, in one of stages S.
RemovedIn(k, S) ==
  \/ \E t \in Workers : worker[t].st \in S /\ worker[t].k = k
  \/ destroyer.st \in S /\ table[Least(destroyer.todo)] = k

\* A callback is that of the connection that has the descriptor, and of a dead one
\* only until the thread that killed it has come back from the loop; the sets
\* have the descriptors of the connections that live.
WatchInv ==
  /\ \A fd \in Fds : callbacks_[fd] # 0 =>
       /\ conn[callbacks_[fd]].fd = fd
       /\ conn[callbacks_[fd]].dead_ => RemovedIn(callbacks_[fd], {"removing", "removed"})
  /\ \A t \in Workers : worker[t].st \in {"removing", "removed"} => conn[worker[t].k].dead_
  /\ \A fd \in rfds_ \union wfds_ : \E k \in Open : conn[k].fd = fd /\ ~conn[k].dead_
  /\ \A k \in Open : conn[k].dead_ \/ (conn[k].fd \in rfds_ /\ callbacks_[conn[k].fd] = k)

\* The descriptor's connection is open and, if dead, not yet let go by the loop.
Attended(fd) ==
  \E k \in Open : conn[k].fd = fd /\ (conn[k].dead_ => RemovedIn(k, {"removing"}))

\* What select looks at, and what is left of the descriptors it found readable,
\* still belongs to the connections it belonged to.
PollInv ==
  /\ poll.st = "select" => \A fd \in poll.r \union poll.w : Attended(fd)
  /\ poll.st = "ready" => \A fd \in poll.r : Attended(fd) /\ Readable(fd)

\* Where a thread has wpdu_.
Writing == {"partial", "removing", "removed", "resumed"}

\* wpdu_ is that of the one thread that writes; who waits for it, or for the loop,
\* will be woken.
WriterInv ==
  /\ destroyer.st = "removing" \/ (\E t \in Workers : worker[t].st = "removing") => pending_change_
  /\ \A t \in Workers : worker[t].st \in Writing => conn[worker[t].k].wpdu_ = t
  /\ \A k \in Open : conn[k].wpdu_ # Nobody =>
       worker[conn[k].wpdu_].st \in Writing /\ worker[conn[k].wpdu_].k = k
  /\ \A t \in Workers : worker[t].st = "asleep" => conn[worker[t].k].wpdu_ # Nobody
  /\ \A t \in Workers : worker[t].st = "partial" =>
       conn[worker[t].k].dead_ \/ conn[worker[t].k].fd \in wfds_

Pills == {i \in 1..Len(jobq_) : jobq_[i] = Pill}
Exited == {t \in Workers : worker[t].st = "exited"}

\* The pool's end: pills are as many as threads to end, come when the table is
\* empty and are the last in the queue.
PoolInv ==
  /\ Closing => Cardinality(Workers \ Exited) = destroyer.pills + Cardinality(Pills)
  /\ Pills # {} \/ Exited # {} => /\ destroyer.st \in {"close", "down"}
                                  /\ \A fd \in Fds : table[fd] = 0
  /\ Exited # {} => Pills = 1..Len(jobq_)
  /\ \A i, j \in 1..Len(jobq_) : i < j /\ i \in Pills => j \in Pills
  /\ destroyer.st = "down" => Exited = Workers /\ jobq_ = <<>>
  /\ Closing /\ destroyer.pills < Cardinality(Workers) => destroyer.st = "close" /\ destroyer.todo = {}

IInv == /\ TypeInv /\ RefInv /\ FdInv /\ TableInv /\ DispatchInv /\ WatchInv /\ PollInv
        /\ WriterInv /\ PoolInv

-------------------------------------------------------------------------------
(* Counting.                                                               *)

One(b) == IF b THEN 1 ELSE 0

\* Two sets that differ in one element at most.
LEMMA Differ ==
  ASSUME NEW S, NEW U, NEW x, IsFiniteSet(S), S \ {x} = U \ {x}
  PROVE  /\ IsFiniteSet(U)
         /\ Cardinality(S) \in Nat /\ Cardinality(U) \in Nat
         /\ Cardinality(U) + One(x \in S) = Cardinality(S) + One(x \in U)
<1>1. IsFiniteSet(S \ {x}) /\ IsFiniteSet(U \ {x})
  BY FS_RemoveElement
<1>2. IsFiniteSet((U \ {x}) \union {x})
  BY <1>1, FS_AddElement
<1>3. U \subseteq (U \ {x}) \union {x}
  OBVIOUS
<1>4. IsFiniteSet(U)
  BY <1>2, <1>3, FS_Subset
<1>5. Cardinality(S) \in Nat /\ Cardinality(U) \in Nat
  BY <1>4, FS_CardinalityType
<1>6. /\ Cardinality(S \ {x}) = IF x \in S THEN Cardinality(S) - 1 ELSE Cardinality(S)
      /\ Cardinality(U \ {x}) = IF x \in U THEN Cardinality(U) - 1 ELSE Cardinality(U)
  BY <1>4, FS_RemoveElement
<1> QED BY <1>4, <1>5, <1>6 DEF One

\* The entries of a queue that are in J.
Among(q, J) == {i \in 1..Len(q) : q[i] \in J}

LEMMA AmongFinite ==
  ASSUME NEW E, NEW q \in Seq(E), NEW J
  PROVE  IsFiniteSet(Among(q, J)) /\ Cardinality(Among(q, J)) \in Nat
<1>1. Len(q) \in Nat
  OBVIOUS
<1>2. IsFiniteSet(1..Len(q))
  BY <1>1, FS_Interval
<1>3. Among(q, J) \in SUBSET (1..Len(q))
  BY DEF Among
<1> QED BY <1>2, <1>3, FS_Subset, FS_CardinalityType

LEMMA AmongAppend ==
  ASSUME NEW E, NEW q \in Seq(E), NEW x \in E, NEW J
  PROVE  Cardinality(Among(Append(q, x), J)) = Cardinality(Among(q, J)) + One(x \in J)
<1> DEFINE n == Len(q) + 1
           S == Among(q, J)
           U == Among(Append(q, x), J)
<1>1. Len(q) \in Nat /\ Len(Append(q, x)) = n
  OBVIOUS
<1>2. \A i \in 1..Len(q) : Append(q, x)[i] = q[i]
  OBVIOUS
<1>3. Append(q, x)[n] = x
  OBVIOUS
<1>4. S \ {n} = U \ {n}
  BY <1>1, <1>2 DEF Among
<1>5. n \notin S /\ (n \in U <=> x \in J)
  BY <1>1, <1>3 DEF Among
<1>6. IsFiniteSet(S)
  BY AmongFinite
<1> HIDE DEF n, S, U
<1>7. /\ Cardinality(S) \in Nat /\ Cardinality(U) \in Nat
      /\ Cardinality(U) + One(n \in S) = Cardinality(S) + One(n \in U)
  BY <1>4, <1>6, Differ
<1>8. One(n \in S) = 0 /\ One(n \in U) = One(x \in J)
  BY <1>5 DEF One
<1>9. One(x \in J) \in Nat
  BY DEF One
<1> QED BY <1>7, <1>8, <1>9 DEF S, U

LEMMA AmongTail ==
  ASSUME NEW E, NEW q \in Seq(E), q # <<>>, NEW J
  PROVE  Cardinality(Among(q, J)) = Cardinality(Among(Tail(q), J)) + One(Head(q) \in J)
<1> DEFINE S == Among(q, J)
           T == Among(Tail(q), J)
           U == S \ {1}
           f == [i \in T |-> i + 1]
<1>1. Len(q) \in Nat \ {0} /\ Len(Tail(q)) = Len(q) - 1 /\ Head(q) = q[1]
  OBVIOUS
<1>2. \A i \in 1..Len(Tail(q)) : Tail(q)[i] = q[i + 1]
  OBVIOUS
<1>3. T \subseteq Nat /\ U \subseteq Nat
  BY <1>1 DEF Among
<1>4. \A i \in T : f[i] \in U
  BY <1>1, <1>2 DEF Among
<1>5. \A j \in U : j - 1 \in T /\ f[j - 1] = j
  <2> SUFFICES ASSUME NEW j \in U PROVE j - 1 \in T /\ f[j - 1] = j
    OBVIOUS
  <2>1. j \in 2..Len(q) /\ q[j] \in J
    BY <1>1 DEF Among
  <2>2. j - 1 \in 1..Len(Tail(q)) /\ (j - 1) + 1 = j
    BY <1>1, <2>1
  <2>3. Tail(q)[j - 1] = q[j]
    BY <1>2, <2>2
  <2>4. j - 1 \in T
    BY <2>1, <2>2, <2>3 DEF Among
  <2> QED BY <2>2, <2>4
<1>6. f \in Bijection(T, U)
  <2>1. f \in [T -> U]
    BY <1>4
  <2>2. \A a, b \in T : f[a] = f[b] => a = b
    BY <1>3
  <2>3. \A j \in U : \E i \in T : f[i] = j
    BY <1>5
  <2>4. f \in Injection(T, U)
    BY <2>1, <2>2 DEF Injection, IsInjective
  <2>5. f \in Surjection(T, U)
    BY <2>1, <2>3 DEF Surjection
  <2> QED BY <2>4, <2>5 DEF Bijection
<1>7. IsFiniteSet(T) /\ IsFiniteSet(S) /\ Cardinality(S) \in Nat
  <2>1. Tail(q) \in Seq(E)
    OBVIOUS
  <2> QED BY <2>1, AmongFinite
<1>8. Cardinality(U) = Cardinality(T)
  BY <1>6, <1>7, FS_Bijection DEF ExistsBijection
<1>9. 1 \in S <=> Head(q) \in J
  BY <1>1 DEF Among
<1> HIDE DEF S, T, U, f
<1>10. Cardinality(U) = IF 1 \in S THEN Cardinality(S) - 1 ELSE Cardinality(S)
  BY <1>7, FS_RemoveElement DEF U
<1> QED BY <1>7, <1>8, <1>9, <1>10 DEF One, S, T

-------------------------------------------------------------------------------
(* Holders of references, of a table tb, a queue q and threads w.          *)

InTable(tb, k) == Cardinality({fd \in Fds : tb[fd] = k})
InQueue(q, k) == Cardinality({i \in 1..Len(q) : q[i].k = k})
Holds(w, t, k) == w[t].st \notin {"idle", "exited"} /\ w[t].k = k
InPool(w, k) == Cardinality({t \in Workers : Holds(w, t, k)})
InAccept(a, k) == One(a.st \in {"check", "collect"} /\ a.new = k)

LEMMA HoldersAre ==
  ASSUME NEW k
  PROVE  Holders(k) = InTable(table, k) + InAccept(acceptor, k) + One(conns_ = k)
                      + InQueue(jobq_, k) + InPool(worker, k)
BY DEF Holders, Count, InTable, InAccept, One, InQueue, InPool, Holds

LEMMA HoldersAreNext ==
  ASSUME NEW k
  PROVE  Holders(k)' = InTable(table', k) + InAccept(acceptor', k) + One(conns_' = k)
                       + InQueue(jobq_', k) + InPool(worker', k)
BY DEF Holders, Count, InTable, InAccept, One, InQueue, InPool, Holds

LEMMA OneIs == /\ One(TRUE) = 1 /\ One(FALSE) = 0
               /\ \A b \in BOOLEAN : One(b) \in {0, 1}
BY DEF One

LEMMA InTableNat ==
  ASSUME NEW tb, NEW k
  PROVE  /\ IsFiniteSet({fd \in Fds : tb[fd] = k}) /\ InTable(tb, k) \in Nat
         /\ \A fd \in Fds : tb[fd] = k => InTable(tb, k) > 0
<1>1. IsFiniteSet({fd \in Fds : tb[fd] = k})
  <2>1. {fd \in Fds : tb[fd] = k} \in SUBSET Fds
    OBVIOUS
  <2> QED BY <2>1, FS_Subset, BoundsAssumption
<1>2. InTable(tb, k) \in Nat
  BY <1>1, FS_CardinalityType DEF InTable
<1>3. ASSUME NEW fd \in Fds, tb[fd] = k PROVE InTable(tb, k) # 0
  BY <1>1, <1>3, FS_EmptySet DEF InTable
<1> QED BY <1>1, <1>2, <1>3

\* The entries other than that of f stay.
Elsewhere(tb, tc, f) == \A g \in Fds \ {f} : tc[g] = tb[g]

LEMMA InTableStep ==
  ASSUME NEW tb, NEW tc, NEW f \in Fds, NEW k, Elsewhere(tb, tc, f)
  PROVE  InTable(tc, k) + (IF tb[f] = k THEN 1 ELSE 0) = InTable(tb, k) + (IF tc[f] = k THEN 1 ELSE 0)
<1> DEFINE S == {fd \in Fds : tb[fd] = k}
           U == {fd \in Fds : tc[fd] = k}
<1>1. S \ {f} = U \ {f} /\ (f \in S <=> tb[f] = k) /\ (f \in U <=> tc[f] = k)
  BY DEF Elsewhere
<1>2. IsFiniteSet(S)
  BY InTableNat
<1> HIDE DEF S, U
<1>3. Cardinality(U) + One(f \in S) = Cardinality(S) + One(f \in U)
  BY <1>1, <1>2, Differ
<1>4. One(f \in S) = (IF tb[f] = k THEN 1 ELSE 0) /\ One(f \in U) = (IF tc[f] = k THEN 1 ELSE 0)
  BY <1>1 DEF One
<1> QED BY <1>3, <1>4 DEF S, U, InTable

LEMMA InPoolNat ==
  ASSUME NEW w, NEW k
  PROVE  /\ IsFiniteSet({t \in Workers : Holds(w, t, k)}) /\ InPool(w, k) \in Nat
         /\ \A t \in Workers : Holds(w, t, k) => InPool(w, k) > 0
<1>1. IsFiniteSet({t \in Workers : Holds(w, t, k)})
  <2>1. {t \in Workers : Holds(w, t, k)} \in SUBSET Workers
    OBVIOUS
  <2> QED BY <2>1, FS_Subset, BoundsAssumption
<1>2. InPool(w, k) \in Nat
  BY <1>1, FS_CardinalityType DEF InPool
<1>3. ASSUME NEW t \in Workers, Holds(w, t, k) PROVE InPool(w, k) # 0
  BY <1>1, <1>3, FS_EmptySet DEF InPool
<1> QED BY <1>1, <1>2, <1>3

\* The threads other than t hold what they held.
Steady(w, x, t) == \A u \in Workers \ {t} :
  /\ x[u].st \in {"idle", "exited"} <=> w[u].st \in {"idle", "exited"}
  /\ w[u].st \notin {"idle", "exited"} => x[u].k = w[u].k

LEMMA InPoolStep ==
  ASSUME NEW w, NEW x, NEW t \in Workers, NEW k, Steady(w, x, t)
  PROVE  InPool(x, k) + One(Holds(w, t, k)) = InPool(w, k) + One(Holds(x, t, k))
<1> DEFINE S == {u \in Workers : Holds(w, u, k)}
           U == {u \in Workers : Holds(x, u, k)}
<1>1. S \ {t} = U \ {t}
  BY DEF Holds, Steady
<1>2. (t \in S <=> Holds(w, t, k)) /\ (t \in U <=> Holds(x, t, k))
  OBVIOUS
<1>3. IsFiniteSet(S)
  BY InPoolNat
<1> HIDE DEF S, U
<1>4. Cardinality(U) + One(t \in S) = Cardinality(S) + One(t \in U)
  BY <1>1, <1>3, Differ
<1>5. One(t \in S) = One(Holds(w, t, k)) /\ One(t \in U) = One(Holds(x, t, k))
  BY <1>2 DEF One
<1> QED BY <1>4, <1>5 DEF S, U, InPool

\* The threads hold what they held.
LEMMA InPoolSame ==
  ASSUME NEW w, NEW x, NEW k,
         \A u \in Workers : /\ x[u].st \in {"idle", "exited"} <=> w[u].st \in {"idle", "exited"}
                            /\ w[u].st \notin {"idle", "exited"} => x[u].k = w[u].k
  PROVE  InPool(x, k) = InPool(w, k)
<1>1. {u \in Workers : Holds(w, u, k)} = {u \in Workers : Holds(x, u, k)}
  BY DEF Holds
<1> QED BY <1>1 DEF InPool

Jobs(n) == {Pill} \union [k : 1..n, kind : Kinds]
JobsOf(n, k) == {x \in Jobs(n) : x.k = k}

LEMMA InQueueIs ==
  ASSUME NEW n, NEW q \in Seq(Jobs(n)), NEW k
  PROVE  InQueue(q, k) = Cardinality(Among(q, JobsOf(n, k)))
<1>1. \A i \in 1..Len(q) : q[i] \in Jobs(n)
  OBVIOUS
<1>2. {i \in 1..Len(q) : q[i].k = k} = Among(q, JobsOf(n, k))
  BY <1>1 DEF Among, JobsOf
<1> QED BY <1>2 DEF InQueue

LEMMA InQueueNat ==
  ASSUME NEW n, NEW q \in Seq(Jobs(n)), NEW k
  PROVE  InQueue(q, k) \in Nat
BY InQueueIs, AmongFinite

LEMMA InQueueAppend ==
  ASSUME NEW n, NEW q \in Seq(Jobs(n)), NEW x \in Jobs(n), NEW k
  PROVE  InQueue(Append(q, x), k) = InQueue(q, k) + One(x.k = k)
<1>1. Append(q, x) \in Seq(Jobs(n))
  OBVIOUS
<1>2. One(x \in JobsOf(n, k)) = One(x.k = k)
  BY DEF One, JobsOf
<1>3. InQueue(Append(q, x), k) = Cardinality(Among(Append(q, x), JobsOf(n, k)))
  BY <1>1, InQueueIs
<1>4. InQueue(q, k) = Cardinality(Among(q, JobsOf(n, k)))
  BY InQueueIs
<1>5. Cardinality(Among(Append(q, x), JobsOf(n, k)))
        = Cardinality(Among(q, JobsOf(n, k))) + One(x \in JobsOf(n, k))
  BY AmongAppend
<1> QED BY <1>2, <1>3, <1>4, <1>5

LEMMA InQueueTail ==
  ASSUME NEW n, NEW q \in Seq(Jobs(n)), q # <<>>, NEW k
  PROVE  InQueue(q, k) = InQueue(Tail(q), k) + One(Head(q).k = k)
<1>1. Tail(q) \in Seq(Jobs(n)) /\ Head(q) \in Jobs(n)
  OBVIOUS
<1>2. One(Head(q) \in JobsOf(n, k)) = One(Head(q).k = k)
  BY <1>1 DEF One, JobsOf
<1>3. InQueue(Tail(q), k) = Cardinality(Among(Tail(q), JobsOf(n, k)))
  BY <1>1, InQueueIs
<1>4. InQueue(q, k) = Cardinality(Among(q, JobsOf(n, k)))
  BY InQueueIs
<1>5. Cardinality(Among(q, JobsOf(n, k)))
        = Cardinality(Among(Tail(q), JobsOf(n, k))) + One(Head(q) \in JobsOf(n, k))
  BY AmongTail
<1> QED BY <1>2, <1>3, <1>4, <1>5

\* A queue may be typed with more connections.
LEMMA JobsMore ==
  ASSUME NEW m \in Nat, NEW n \in Nat, m <= n
  PROVE  Seq(Jobs(m)) \subseteq Seq(Jobs(n))
<1>1. Jobs(m) \subseteq Jobs(n)
  BY DEF Jobs
<1> QED BY <1>1

-------------------------------------------------------------------------------
(* What giving references does to the connections.                         *)

\* From c to d only counts change, and dead connections are deleted.
SameFace(a, b) == /\ b.fd = a.fd /\ b.in = a.in /\ b.eof = a.eof /\ b.rpdu_ = a.rpdu_
                  /\ b.wpdu_ = a.wpdu_ /\ b.dead_ = a.dead_
Shrinks(c, d) ==
  /\ d \in Seq({Gone} \union Conns) /\ Len(d) = Len(c)
  /\ \A k \in 1..Len(c) : \/ d[k] = Gone /\ (c[k] = Gone \/ c[k].dead_)
                          \/ d[k] # Gone /\ c[k] # Gone /\ SameFace(c[k], d[k])

LEMMA ConnsNotGone == \A c \in Conns : c # Gone /\ c.fd # 0 /\ c.fd \in Fds
BY BoundsAssumption DEF Conns, Gone

LEMMA Update ==
  ASSUME NEW c \in Seq({Gone} \union Conns), NEW k \in 1..Len(c), NEW r \in {Gone} \union Conns
  PROVE  /\ [c EXCEPT ![k] = r] \in Seq({Gone} \union Conns) /\ Len([c EXCEPT ![k] = r]) = Len(c)
         /\ [c EXCEPT ![k] = r][k] = r
         /\ \A j \in 1..Len(c) : j # k => [c EXCEPT ![k] = r][j] = c[j]
OBVIOUS

LEMMA ShrinksTwice ==
  ASSUME NEW c, NEW d, NEW e, Shrinks(c, d), Shrinks(d, e)
  PROVE  Shrinks(c, e)
BY DEF Shrinks, SameFace

LEMMA ShrinksSelf ==
  ASSUME NEW c \in Seq({Gone} \union Conns)
  PROVE  Shrinks(c, c)
BY DEF Shrinks, SameFace

LEMMA IncrefOK ==
  ASSUME NEW c \in Seq({Gone} \union Conns), NEW h \in [1..Len(c) -> Nat], RefOK(c, h),
         NEW k \in 1..Len(c), c[k] # Gone
  PROVE  /\ Shrinks(c, Incref(c, k)) /\ Incref(c, k)[k] # Gone
         /\ RefOK(Incref(c, k), [h EXCEPT ![k] = @ + 1])
<1> DEFINE r == [c[k] EXCEPT !.refno_ = @ + 1]
           d == Incref(c, k)
<1>1. c[k] \in Conns
  OBVIOUS
<1>2. /\ r \in Conns /\ r # Gone /\ SameFace(c[k], r)
      /\ r.refno_ = c[k].refno_ + 1 /\ r.leaked = c[k].leaked
  <2>0. c[k].refno_ + 1 \in Nat
    BY <1>1 DEF Conns
  <2>1. r \in Conns
    BY <1>1, <2>0 DEF Conns
  <2> QED BY <1>1, <2>1, ConnsNotGone DEF Conns, SameFace
<1>3. d = [c EXCEPT ![k] = r]
  BY DEF Incref
<1> HIDE DEF r
<1>4. /\ d \in Seq({Gone} \union Conns) /\ Len(d) = Len(c)
      /\ d[k] = r /\ \A j \in 1..Len(c) : j # k => d[j] = c[j]
  BY <1>2, <1>3
<1>5. c[k].refno_ = h[k] + c[k].leaked /\ c[k].leaked \in Nat
  BY <1>1 DEF RefOK, Conns
<1> HIDE DEF d
<1>6. Shrinks(c, d)
  BY <1>2, <1>4 DEF Shrinks, SameFace
<1>7. RefOK(d, [h EXCEPT ![k] = @ + 1])
  <2> SUFFICES ASSUME NEW j \in 1..Len(c)
               PROVE  IF d[j] = Gone THEN [h EXCEPT ![k] = @ + 1][j] = 0
                      ELSE d[j].refno_ = [h EXCEPT ![k] = @ + 1][j] + d[j].leaked
    BY <1>4 DEF RefOK
  <2>1. CASE j = k
    BY <1>2, <1>4, <1>5, <2>1
  <2>2. CASE j # k
    BY <1>4, <2>2 DEF RefOK
  <2> QED BY <2>1, <2>2
<1> QED BY <1>2, <1>4, <1>6, <1>7 DEF d

\* Who gives a reference back had one, so the connection was there.
LEMMA HeldIsThere ==
  ASSUME NEW c \in Seq({Gone} \union Conns), NEW h \in [1..Len(c) -> Nat], RefOK(c, h),
         NEW k \in 1..Len(c), h[k] > 0
  PROVE  /\ c[k] \in Conns /\ c[k] # Gone
         /\ c[k].refno_ = h[k] + c[k].leaked /\ c[k].leaked \in Nat
<1>1. c[k] # Gone
  BY DEF RefOK
<1>2. c[k] \in Conns
  BY <1>1
<1> QED BY <1>1, <1>2 DEF RefOK, Conns

LEMMA DecrefOK ==
  ASSUME NEW c \in Seq({Gone} \union Conns), NEW h \in [1..Len(c) -> Nat], RefOK(c, h),
         NEW k \in 1..Len(c), h[k] > 0
  PROVE  /\ Shrinks(c, Decref(c, k)) /\ [h EXCEPT ![k] = @ - 1] \in [1..Len(c) -> Nat]
         /\ RefOK(Decref(c, k), [h EXCEPT ![k] = @ - 1])
         /\ \A j \in 1..Len(c) : j # k => Decref(c, k)[j] = c[j]
<1> DEFINE r == IF c[k].refno_ = 1 /\ c[k].dead_ THEN Gone ELSE [c[k] EXCEPT !.refno_ = @ - 1]
           d == Decref(c, k)
<1>1. /\ c[k] \in Conns /\ c[k] # Gone
      /\ c[k].refno_ = h[k] + c[k].leaked /\ c[k].leaked \in Nat
  BY HeldIsThere
<1>2. d = [c EXCEPT ![k] = r]
  BY DEF Decref
<1>3. \/ r = Gone /\ c[k].dead_ /\ h[k] = 1
      \/ /\ r \in Conns /\ r # Gone /\ SameFace(c[k], r)
         /\ r.refno_ = c[k].refno_ - 1 /\ r.leaked = c[k].leaked
  <2>1. CASE c[k].refno_ = 1 /\ c[k].dead_
    BY <1>1, <2>1
  <2>2. CASE ~(c[k].refno_ = 1 /\ c[k].dead_)
    <3>1. r = [c[k] EXCEPT !.refno_ = @ - 1]
      BY <2>2
    <3>2. c[k].refno_ - 1 \in Nat
      BY <1>1
    <3>3. r \in Conns
      BY <1>1, <3>1, <3>2 DEF Conns
    <3> QED BY <1>1, <3>1, <3>3, ConnsNotGone DEF Conns, SameFace
  <2> QED BY <2>1, <2>2
<1> HIDE DEF r
<1>4. /\ d \in Seq({Gone} \union Conns) /\ Len(d) = Len(c)
      /\ d[k] = r /\ \A j \in 1..Len(c) : j # k => d[j] = c[j]
  BY <1>2, <1>3
<1> HIDE DEF d
<1>6. Shrinks(c, d)
  BY <1>1, <1>3, <1>4 DEF Shrinks, SameFace
<1>7. RefOK(d, [h EXCEPT ![k] = @ - 1])
  <2> SUFFICES ASSUME NEW j \in 1..Len(c)
               PROVE  IF d[j] = Gone THEN [h EXCEPT ![k] = @ - 1][j] = 0
                      ELSE d[j].refno_ = [h EXCEPT ![k] = @ - 1][j] + d[j].leaked
    BY <1>4 DEF RefOK
  <2>1. CASE j = k
    BY <1>1, <1>3, <1>4, <2>1
  <2>2. CASE j # k
    BY <1>4, <2>2 DEF RefOK
  <2> QED BY <2>1, <2>2
<1> QED BY <1>4, <1>6, <1>7 DEF d

LEMMA LeaveOK ==
  ASSUME NEW c \in Seq({Gone} \union Conns), NEW h \in [1..Len(c) -> Nat], RefOK(c, h),
         NEW j, j.k \in 1..Len(c), h[j.k] > 0
  PROVE  /\ Shrinks(c, Leave(c, j))
         /\ RefOK(Leave(c, j), [h EXCEPT ![j.k] = @ - 1])
<1>1. CASE j.kind # "old"
  BY <1>1, DecrefOK DEF Leave
<1>2. CASE j.kind = "old"
  <2>0. PICK k \in 1..Len(c) : k = j.k
    OBVIOUS
  <2> DEFINE r == [c[k] EXCEPT !.leaked = @ + 1]
             d == Leave(c, j)
  <2>1. /\ c[k] \in Conns /\ c[k] # Gone
        /\ c[k].refno_ = h[k] + c[k].leaked /\ c[k].leaked \in Nat
    BY <2>0, HeldIsThere
  <2>2. /\ r \in Conns /\ r # Gone /\ SameFace(c[k], r)
        /\ r.refno_ = c[k].refno_ /\ r.leaked = c[k].leaked + 1
    <3>0. c[k].leaked + 1 \in Nat
      BY <2>1
    <3>1. r \in Conns
      BY <2>1, <3>0 DEF Conns
    <3> QED BY <2>1, <3>1, ConnsNotGone DEF Conns, SameFace
  <2>3. d = [c EXCEPT ![k] = r]
    BY <1>2, <2>0 DEF Leave
  <2> HIDE DEF r
  <2>4. /\ d \in Seq({Gone} \union Conns) /\ Len(d) = Len(c)
        /\ d[k] = r /\ \A i \in 1..Len(c) : i # k => d[i] = c[i]
    BY <2>2, <2>3
  <2> HIDE DEF d
  <2>5. Shrinks(c, d)
    BY <2>1, <2>2, <2>4 DEF Shrinks, SameFace
  <2>6. RefOK(d, [h EXCEPT ![k] = @ - 1])
    <3> SUFFICES ASSUME NEW i \in 1..Len(c)
                 PROVE  IF d[i] = Gone THEN [h EXCEPT ![k] = @ - 1][i] = 0
                        ELSE d[i].refno_ = [h EXCEPT ![k] = @ - 1][i] + d[i].leaked
      BY <2>4 DEF RefOK
    <3>1. CASE i = k
      <4>1. h[k] \in Nat /\ h[k] > 0
        BY <2>0
      <4>2. [h EXCEPT ![k] = @ - 1][i] = h[k] - 1
        BY <3>1
      <4>3. d[i] # Gone /\ d[i].refno_ = h[k] + c[k].leaked /\ d[i].leaked = c[k].leaked + 1
        BY <2>1, <2>2, <2>4, <3>1
      <4>4. h[k] + c[k].leaked = (h[k] - 1) + (c[k].leaked + 1)
        BY <2>1, <4>1
      <4> QED BY <4>2, <4>3, <4>4
    <3>2. CASE i # k
      BY <2>4, <3>2 DEF RefOK
    <3> QED BY <3>1, <3>2
  <2> QED BY <2>0, <2>5, <2>6 DEF d
<1> QED BY <1>1, <1>2

\* The count does not depend on the connections' other fields.
LEMMA RefSame ==
  ASSUME NEW c, NEW d, NEW h, RefOK(c, h), Len(d) = Len(c),
         \A k \in 1..Len(c) : \/ d[k] = Gone /\ c[k] = Gone
                              \/ /\ d[k] # Gone /\ c[k] # Gone
                                 /\ d[k].refno_ = c[k].refno_ /\ d[k].leaked = c[k].leaked
  PROVE  RefOK(d, h)
BY DEF RefOK

-------------------------------------------------------------------------------
(* Who is referred to is there.                                            *)

LEMMA HoldersType ==
  ASSUME TypeInv, NEW k
  PROVE  /\ Holders(k) \in Nat
         /\ InTable(table, k) \in Nat /\ InAccept(acceptor, k) \in Nat /\ One(conns_ = k) \in Nat
         /\ InQueue(jobq_, k) \in Nat /\ InPool(worker, k) \in Nat
<1>1. InTable(table, k) \in Nat /\ InPool(worker, k) \in Nat
  BY InTableNat, InPoolNat
<1>2. InQueue(jobq_, k) \in Nat
  <2>1. jobq_ \in Seq(Jobs(Len(conn)))
    BY DEF TypeInv, Jobs
  <2> QED BY <2>1, InQueueNat
<1>3. InAccept(acceptor, k) \in Nat /\ One(conns_ = k) \in Nat
  BY DEF InAccept, One
<1> QED BY <1>1, <1>2, <1>3, HoldersAre

LEMMA HeldType == TypeInv => Held \in [1..Len(conn) -> Nat]
BY HoldersType DEF Held

LEMMA Holding ==
  ASSUME TypeInv, NEW k
  PROVE  /\ \A fd \in Fds : table[fd] = k => Holders(k) > 0
         /\ Accepting /\ acceptor.new = k => Holders(k) > 0
         /\ conns_ = k => Holders(k) > 0
         /\ \A t \in Workers : worker[t].st \in AtWork /\ worker[t].k = k => Holders(k) > 0
<1> USE HoldersType, HoldersAre
<1>1. \A fd \in Fds : table[fd] = k => Holders(k) > 0
  <2> SUFFICES ASSUME NEW fd \in Fds, table[fd] = k PROVE Holders(k) > 0
    OBVIOUS
  <2>1. InTable(table, k) > 0
    BY InTableNat
  <2> QED BY <2>1
<1>2. Accepting /\ acceptor.new = k => Holders(k) > 0
  <2> SUFFICES ASSUME Accepting, acceptor.new = k PROVE Holders(k) > 0
    OBVIOUS
  <2>1. InAccept(acceptor, k) = 1
    BY DEF InAccept, Accepting, One
  <2> QED BY <2>1
<1>3. conns_ = k => Holders(k) > 0
  <2> SUFFICES ASSUME conns_ = k PROVE Holders(k) > 0
    OBVIOUS
  <2>1. One(conns_ = k) = 1
    BY DEF One
  <2> QED BY <2>1
<1>4. \A t \in Workers : worker[t].st \in AtWork /\ worker[t].k = k => Holders(k) > 0
  <2> SUFFICES ASSUME NEW t \in Workers, worker[t].st \in AtWork, worker[t].k = k
               PROVE  Holders(k) > 0
    OBVIOUS
  <2>1. Holds(worker, t, k)
    BY DEF Holds, AtWork
  <2>2. InPool(worker, k) > 0
    BY <2>1, InPoolNat
  <2> QED BY <2>2
<1> QED BY <1>1, <1>2, <1>3, <1>4

LEMMA HeldOpen ==
  ASSUME TypeInv, RefInv, NEW k \in 1..Len(conn), Holders(k) > 0
  PROVE  k \in Open /\ conn[k] \in Conns
<1>1. Held[k] = Holders(k)
  BY DEF Held
<1>2. conn[k] # Gone
  BY <1>1 DEF RefInv, RefOK
<1> QED BY <1>2 DEF TypeInv, Open, IsGone

IsThere(k) == k \in Open /\ conn[k] \in Conns

AllThere ==
  /\ \A fd \in Fds : table[fd] # 0 => IsThere(table[fd])
  /\ Accepting => IsThere(acceptor.new)
  /\ conns_ # 0 => IsThere(conns_)
  /\ \A t \in Workers : worker[t].st \in AtWork => IsThere(worker[t].k)
  /\ \A k \in Open : conn[k] \in Conns

LEMMA There == TypeInv /\ RefInv => AllThere
<1> SUFFICES ASSUME TypeInv, RefInv PROVE AllThere
  OBVIOUS
<1>0. \A k \in 1..Len(conn) : Holders(k) > 0 => IsThere(k)
  BY HeldOpen DEF IsThere
<1>1. \A fd \in Fds : table[fd] # 0 => table[fd] \in 1..Len(conn) /\ Holders(table[fd]) > 0
  <2>1. \A fd \in Fds : table[fd] # 0 => table[fd] \in 1..Len(conn)
    BY DEF TypeInv
  <2> QED BY <2>1, Holding
<1>2. Accepting => acceptor.new \in 1..Len(conn) /\ Holders(acceptor.new) > 0
  <2>1. Accepting => acceptor.new \in 1..Len(conn)
    BY DEF TypeInv, Accepting
  <2> QED BY <2>1, Holding
<1>3. conns_ # 0 => conns_ \in 1..Len(conn) /\ Holders(conns_) > 0
  <2>1. conns_ # 0 => conns_ \in 1..Len(conn)
    BY DEF TypeInv
  <2> QED BY <2>1, Holding
<1>4. \A t \in Workers : worker[t].st \in AtWork =>
         worker[t].k \in 1..Len(conn) /\ Holders(worker[t].k) > 0
  <2>1. \A t \in Workers : worker[t].st \in AtWork => worker[t].k \in 1..Len(conn)
    <3> SUFFICES ASSUME NEW t \in Workers, worker[t].st \in AtWork PROVE worker[t].k \in 1..Len(conn)
      OBVIOUS
    <3>1. worker[t] \in [st : {"idle", "exited"}] \union
                        [st : AtWork, k : 1..Len(conn), kind : Kinds]
      BY DEF TypeInv
    <3> QED BY <3>1 DEF AtWork
  <2> QED BY <2>1, Holding
<1>5. \A k \in Open : conn[k] \in Conns
  BY DEF Open, IsGone, TypeInv
<1> QED BY <1>0, <1>1, <1>2, <1>3, <1>4, <1>5 DEF AllThere

LEMMA ThereNext == TypeInv' /\ RefInv' => AllThere'
BY There, PTL

-------------------------------------------------------------------------------
(* What a step must leave alone to keep the parts of the invariant.        *)

\* From c to d descriptors, writers and death stay; there is no less to read.
Calm(c, d) ==
  /\ Len(d) = Len(c)
  /\ \A k \in 1..Len(c) :
       \/ d[k] = Gone /\ (c[k] = Gone \/ c[k].dead_)
       \/ /\ d[k] # Gone /\ c[k] # Gone
          /\ d[k].fd = c[k].fd /\ d[k].wpdu_ = c[k].wpdu_ /\ d[k].dead_ = c[k].dead_
          /\ c[k].in # <<>> \/ c[k].eof => d[k].in # <<>> \/ d[k].eof

\* The same, but for the writers.
Still(c, d) ==
  /\ Len(d) = Len(c)
  /\ \A k \in 1..Len(c) :
       \/ d[k] = Gone /\ (c[k] = Gone \/ c[k].dead_)
       \/ /\ d[k] # Gone /\ c[k] # Gone
          /\ d[k].fd = c[k].fd /\ d[k].dead_ = c[k].dead_
          /\ c[k].in # <<>> \/ c[k].eof => d[k].in # <<>> \/ d[k].eof

\* From c to d descriptors, writers and death stay.
Placid(c, d) ==
  /\ Len(d) = Len(c)
  /\ \A k \in 1..Len(c) :
       \/ d[k] = Gone /\ (c[k] = Gone \/ c[k].dead_)
       \/ /\ d[k] # Gone /\ c[k] # Gone
          /\ d[k].fd = c[k].fd /\ d[k].wpdu_ = c[k].wpdu_ /\ d[k].dead_ = c[k].dead_

\* From c to d descriptors and death stay.
Fixed(c, d) ==
  /\ Len(d) = Len(c)
  /\ \A k \in 1..Len(c) :
       \/ d[k] = Gone /\ (c[k] = Gone \/ c[k].dead_)
       \/ d[k] # Gone /\ c[k] # Gone /\ d[k].fd = c[k].fd /\ d[k].dead_ = c[k].dead_

\* From c to d descriptors stay; connections may die, and dead ones be deleted.
Onward(c, d) ==
  /\ Len(d) = Len(c)
  /\ \A k \in 1..Len(c) :
       \/ d[k] = Gone /\ (c[k] = Gone \/ c[k].dead_)
       \/ d[k] # Gone /\ c[k] # Gone /\ d[k].fd = c[k].fd /\ (c[k].dead_ => d[k].dead_)

LEMMA PlacidIsFixed == \A c, d : Placid(c, d) => Fixed(c, d) /\ Onward(c, d)
BY DEF Placid, Fixed, Onward

LEMMA CalmIsOnward == \A c, d : Calm(c, d) => Onward(c, d) /\ Still(c, d)
BY DEF Calm, Still, Onward

LEMMA StillIsOnward == \A c, d : Still(c, d) => Onward(c, d)
BY DEF Still, Onward

LEMMA ShrinksIsCalm == \A c, d : Shrinks(c, d) => Calm(c, d)
BY DEF Calm, Shrinks, SameFace

\* No thread comes to or leaves the removal of a descriptor.
Keeps(w, x) == \A t \in Workers :
  x[t] = w[t] \/ (w[t].st \notin {"removing", "removed"} /\ x[t].st \notin {"removing", "removed"})

\* No thread comes to or leaves wpdu_, nor falls asleep.
Early(w, x) == \A t \in Workers :
  x[t] = w[t] \/ (w[t].st \notin Writing /\ x[t].st \notin Writing \union {"asleep"})

LEMMA EarlyKeeps == \A w, x : Early(w, x) => Keeps(w, x)
BY DEF Early, Keeps, Writing

\* The destructor, if at a removal, stays there.
DestroyerStays ==
  destroyer.st \in {"removing", "removed"} => destroyer' = destroyer /\ table' = table

LEMMA LeastNatural ==
  ASSUME NEW T, T \subseteq Nat, T # {}
  PROVE  \E n \in T : \A j \in T : n <= j
<1>1. PICK n \in T : TRUE
  OBVIOUS
<1>2. PICK t \in T : \A j \in T : ~(<<j, t>> \in OpToRel(<, Nat))
  BY <1>1, NatLessThanWellFounded, WFMin
<1>3. \A j \in T : ~(j < t)
  BY <1>2 DEF OpToRel
<1> QED BY <1>3

LEMMA LeastIn ==
  ASSUME NEW S \in SUBSET Fds, S # {}
  PROVE  Least(S) \in S /\ Least(S) \in Fds
<1>1. S \subseteq Nat
  BY BoundsAssumption
<1>2. \E x \in S : \A y \in S : x <= y
  BY <1>1, LeastNatural
<1>3. Least(S) \in S
  BY <1>2 DEF Least
<1> QED BY <1>3

LEMMA FdFrame ==
  ASSUME FdInv, Onward(conn, conn')
  PROVE  FdInv'
<1>1. \A k \in Open' : k \in Open /\ conn'[k].fd = conn[k].fd
  BY DEF Onward, Open, IsGone
<1> QED BY <1>1 DEF FdInv

\* A dead connection that is referred to stays, dead, and so does its descriptor.
LEMMA StaysDead ==
  ASSUME Onward(conn, conn'), NEW k \in Open', conn[k].dead_
  PROVE  k \in Open /\ conn'[k].dead_
BY DEF Onward, Open, IsGone

LEMMA TableFrame ==
  ASSUME TypeInv, TypeInv', RefInv', TableInv, Onward(conn, conn'),
         UNCHANGED <<table, acceptor, destroyer>>
  PROVE  TableInv'
<1>0. AllThere'
  BY ThereNext
<1>1. \A k \in Open' : /\ k \in Open /\ conn'[k].fd = conn[k].fd
                       /\ conn[k].dead_ => conn'[k].dead_
  BY DEF Onward, Open, IsGone
<1>2. \A fd \in Fds : table'[fd] # 0 => table'[fd] \in Open'
  BY <1>0 DEF AllThere, IsThere
<1>3. \A fd \in Fds : table'[fd] # 0 => conn'[table'[fd]].fd = fd
  BY <1>1, <1>2 DEF TableInv
<1>4. Accepting' <=> Accepting
  BY DEF Accepting
<1>5. Closing' <=> Closing
  BY DEF Closing
<1>6. acceptor'.st = "collect" =>
        acceptor'.todo # {} /\ conn'[table'[Least(acceptor'.todo)]].dead_
  <2> SUFFICES ASSUME acceptor.st = "collect"
               PROVE  acceptor.todo # {} /\ conn'[table[Least(acceptor.todo)]].dead_
    OBVIOUS
  <2>1. acceptor.todo # {} /\ acceptor.todo \in SUBSET Fds /\ Accepting
    BY DEF TableInv, TypeInv, Accepting
  <2>2. Least(acceptor.todo) \in acceptor.todo /\ Least(acceptor.todo) \in Fds
    BY <2>1, LeastIn
  <2>3. table[Least(acceptor.todo)] # 0 /\ conn[table[Least(acceptor.todo)]].dead_
    BY <2>1, <2>2 DEF TableInv
  <2> QED BY <1>1, <1>2, <2>1, <2>2, <2>3
<1>7. destroyer'.st \in {"removing", "removed"} =>
        destroyer'.todo # {} /\ conn'[table'[Least(destroyer'.todo)]].dead_
  <2> SUFFICES ASSUME destroyer.st \in {"removing", "removed"}
               PROVE  destroyer.todo # {} /\ conn'[table[Least(destroyer.todo)]].dead_
    OBVIOUS
  <2>1. /\ destroyer.todo # {} /\ destroyer.todo \in SUBSET Fds
        /\ \A fd \in destroyer.todo : table[fd] # 0
    BY DEF TableInv, TypeInv, Closing
  <2>2. Least(destroyer.todo) \in destroyer.todo /\ Least(destroyer.todo) \in Fds
    BY <2>1, LeastIn
  <2>3. table[Least(destroyer.todo)] # 0 /\ conn[table[Least(destroyer.todo)]].dead_
    BY <2>1, <2>2 DEF TableInv
  <2> QED BY <1>1, <1>2, <2>1, <2>2, <2>3
<1>8. \A k \in Open' : \/ conn'[k].dead_ \/ table'[conn'[k].fd] = k
                       \/ (Accepting' /\ acceptor'.new = k)
  BY <1>1, <1>4 DEF TableInv
<1> QED BY <1>3, <1>4, <1>5, <1>6, <1>7, <1>8 DEF TableInv

\* What a removing thread holds stays.
LEMMA RemovedStays ==
  ASSUME TypeInv, TypeInv', RefInv', TableInv,
         NEW S \in SUBSET {"removing", "removed"}, NEW k, RemovedIn(k, S),
         \A t \in Workers : worker[t].st \in S /\ worker[t].k = k => worker'[t] = worker[t],
         destroyer.st \in S /\ table[Least(destroyer.todo)] = k => destroyer' = destroyer /\ table' = table
  PROVE  RemovedIn(k, S)' /\ k \in Open'
<1>0. AllThere'
  BY ThereNext
<1>1. CASE \E t \in Workers : worker[t].st \in S /\ worker[t].k = k
  <2>1. PICK t \in Workers : worker[t].st \in S /\ worker[t].k = k
    BY <1>1
  <2>2. worker'[t] = worker[t]
    BY <2>1
  <2>3. worker'[t].st \in AtWork
    BY <2>1, <2>2 DEF AtWork
  <2> QED BY <1>0, <2>1, <2>2, <2>3 DEF RemovedIn, AllThere, IsThere
<1>2. CASE destroyer.st \in S /\ table[Least(destroyer.todo)] = k
  <2>1. destroyer.st \in {"removing", "removed"} /\ destroyer' = destroyer /\ table' = table
    BY <1>2
  <2>2. /\ destroyer.todo # {} /\ destroyer.todo \in SUBSET Fds
        /\ \A fd \in destroyer.todo : table[fd] # 0
    BY <2>1 DEF TableInv, TypeInv, Closing
  <2>3. Least(destroyer.todo) \in destroyer.todo /\ Least(destroyer.todo) \in Fds
    BY <2>2, LeastIn
  <2>4. k \in Open'
    BY <1>0, <1>2, <2>1, <2>2, <2>3 DEF AllThere, IsThere
  <2> QED BY <1>2, <2>1, <2>4 DEF RemovedIn
<1> QED BY <1>1, <1>2 DEF RemovedIn

LEMMA WatchKept ==
  ASSUME TypeInv, TypeInv', RefInv', TableInv, WatchInv, Fixed(conn, conn'),
         Keeps(worker, worker'), DestroyerStays, UNCHANGED <<callbacks_, rfds_>>,
         \A fd \in wfds_' : fd \in wfds_ \/ \E k \in Open : conn[k].fd = fd /\ ~conn[k].dead_
  PROVE  WatchInv'
<1>0. AllThere'
  BY ThereNext
<1>1. \A k \in Open' : /\ k \in Open /\ conn'[k].fd = conn[k].fd /\ conn'[k].dead_ = conn[k].dead_
  BY DEF Fixed, Open, IsGone
<1>2. \A k \in Open : k \in Open' \/ conn[k].dead_
  BY DEF Fixed, Open, IsGone
<1>3. ASSUME NEW fd \in Fds, callbacks_[fd] # 0
      PROVE  /\ conn'[callbacks_[fd]].fd = fd
             /\ conn'[callbacks_[fd]].dead_ => RemovedIn(callbacks_[fd], {"removing", "removed"})'
  <2>0. PICK k \in 1..Len(conn) : k = callbacks_[fd]
    BY <1>3 DEF TypeInv
  <2>1. conn[k].fd = fd /\ (conn[k].dead_ => RemovedIn(k, {"removing", "removed"}))
    BY <1>3, <2>0 DEF WatchInv
  <2>2. k \in Open
    BY <2>1, BoundsAssumption DEF Open, IsGone, Gone
  <2>3. CASE conn[k].dead_
    <3>1. RemovedIn(k, {"removing", "removed"})' /\ k \in Open'
      BY <2>1, <2>3, RemovedStays DEF Keeps, DestroyerStays
    <3> QED BY <1>1, <2>0, <2>1, <3>1
  <2>4. CASE ~conn[k].dead_
    BY <1>1, <1>2, <2>0, <2>1, <2>2, <2>4
  <2> QED BY <2>3, <2>4
<1>4. ASSUME NEW t \in Workers, worker'[t].st \in {"removing", "removed"}
      PROVE  conn'[worker'[t].k].dead_
  <2>1. worker'[t] = worker[t] /\ conn[worker[t].k].dead_
    BY <1>4 DEF Keeps, WatchInv
  <2>2. worker'[t].k \in Open'
    BY <1>0, <1>4 DEF AllThere, IsThere, AtWork
  <2> QED BY <1>1, <2>1, <2>2
<1>5. \A fd \in rfds_' \union wfds_' : \E k \in Open' : conn'[k].fd = fd /\ ~conn'[k].dead_
  BY <1>1, <1>2 DEF WatchInv
<1>6. \A k \in Open' : conn'[k].dead_ \/ (conn'[k].fd \in rfds_ /\ callbacks_[conn'[k].fd] = k)
  BY <1>1 DEF WatchInv
<1> QED BY <1>3, <1>4, <1>5, <1>6 DEF WatchInv

LEMMA WatchFrame ==
  ASSUME TypeInv, TypeInv', RefInv', TableInv, WatchInv, Still(conn, conn'),
         Keeps(worker, worker'), DestroyerStays, UNCHANGED <<callbacks_, rfds_>>,
         \A fd \in wfds_' : fd \in wfds_ \/ \E k \in Open : conn[k].fd = fd /\ ~conn[k].dead_
  PROVE  WatchInv'
<1>1. Fixed(conn, conn')
  BY DEF Fixed, Still
<1> QED BY <1>1, WatchKept

LEMMA PollFrame ==
  ASSUME TypeInv, TypeInv', RefInv', FdInv, TableInv, PollInv, Still(conn, conn'),
         \A t \in Workers : worker[t].st = "removing" => worker'[t] = worker[t],
         destroyer.st = "removing" => destroyer' = destroyer /\ table' = table, UNCHANGED poll
  PROVE  PollInv'
<1>1. \A k \in Open' : /\ k \in Open /\ conn'[k].fd = conn[k].fd /\ conn'[k].dead_ = conn[k].dead_
                       /\ conn[k].in # <<>> \/ conn[k].eof => conn'[k].in # <<>> \/ conn'[k].eof
  BY DEF Still, Open, IsGone
<1>2. \A k \in Open : k \in Open' \/ conn[k].dead_
  BY DEF Still, Open, IsGone
<1>3. ASSUME NEW fd, Attended(fd) PROVE Attended(fd)'
  <2>1. PICK k \in Open : conn[k].fd = fd /\ (conn[k].dead_ => RemovedIn(k, {"removing"}))
    BY <1>3 DEF Attended
  <2>2. conn[k].dead_ => RemovedIn(k, {"removing"})' /\ k \in Open'
    BY <2>1, RemovedStays
  <2> QED BY <1>1, <1>2, <2>1, <2>2 DEF Attended
<1>4. ASSUME NEW fd, Attended(fd), Readable(fd) PROVE Readable(fd)'
  <2>1. PICK k \in Open : conn[k].fd = fd /\ (conn[k].dead_ => RemovedIn(k, {"removing"}))
    BY <1>4 DEF Attended
  <2>2. conn[k].dead_ => RemovedIn(k, {"removing"})' /\ k \in Open'
    BY <2>1, RemovedStays
  <2>3. conn[k].in # <<>> \/ conn[k].eof
    BY <1>4, <2>1 DEF Readable, FdInv
  <2> QED BY <1>1, <1>2, <2>1, <2>2, <2>3 DEF Readable
<1> QED BY <1>3, <1>4 DEF PollInv

LEMMA WriterKept ==
  ASSUME TypeInv, TypeInv', RefInv', WriterInv, Placid(conn, conn'), Early(worker, worker'),
         UNCHANGED wfds_, pending_change_ => pending_change_',
         destroyer'.st = "removing" => destroyer.st = "removing"
  PROVE  WriterInv'
<1>0. AllThere'
  BY ThereNext
<1>1. \A k \in Open' : /\ k \in Open /\ conn'[k].fd = conn[k].fd /\ conn'[k].dead_ = conn[k].dead_
                       /\ conn'[k].wpdu_ = conn[k].wpdu_
  BY DEF Placid, Open, IsGone
<1>2. \A t \in Workers : worker'[t].st \in Writing \union {"asleep"} =>
        worker'[t] = worker[t] /\ worker'[t].k \in Open'
  <2> SUFFICES ASSUME NEW t \in Workers, worker'[t].st \in Writing \union {"asleep"}
               PROVE  worker'[t] = worker[t] /\ worker'[t].k \in Open'
    OBVIOUS
  <2>1. worker'[t].st \in AtWork
    BY DEF AtWork, Writing
  <2> QED BY <1>0, <2>1 DEF Early, AllThere, IsThere
<1>3. \A t \in Workers : worker[t].st \in Writing => worker'[t] = worker[t]
  BY DEF Early
<1>4. \A t \in Workers : worker'[t].st \in Writing => conn'[worker'[t].k].wpdu_ = t
  BY <1>1, <1>2 DEF WriterInv
<1>5. \A k \in Open' : conn'[k].wpdu_ # Nobody =>
        worker'[conn'[k].wpdu_].st \in Writing /\ worker'[conn'[k].wpdu_].k = k
  <2> SUFFICES ASSUME NEW k \in Open', conn'[k].wpdu_ # Nobody
               PROVE  worker'[conn'[k].wpdu_].st \in Writing /\ worker'[conn'[k].wpdu_].k = k
    OBVIOUS
  <2>1. conn'[k].wpdu_ \in Workers
    BY <1>0 DEF AllThere, Conns
  <2> QED BY <1>1, <1>3, <2>1 DEF WriterInv
<1>6. \A t \in Workers : worker'[t].st = "asleep" => conn'[worker'[t].k].wpdu_ # Nobody
  BY <1>1, <1>2 DEF WriterInv
<1>7. \A t \in Workers : worker'[t].st = "partial" =>
        conn'[worker'[t].k].dead_ \/ conn'[worker'[t].k].fd \in wfds_'
  BY <1>1, <1>2 DEF WriterInv, Writing
<1>8. destroyer'.st = "removing" \/ (\E t \in Workers : worker'[t].st = "removing") =>
        pending_change_'
  BY <1>2 DEF WriterInv, Writing
<1> QED BY <1>4, <1>5, <1>6, <1>7, <1>8 DEF WriterInv

LEMMA WriterFrame ==
  ASSUME TypeInv, TypeInv', RefInv', WriterInv, Calm(conn, conn'), Early(worker, worker'),
         UNCHANGED wfds_, pending_change_ => pending_change_',
         destroyer'.st = "removing" => destroyer.st = "removing"
  PROVE  WriterInv'
<1>1. Placid(conn, conn')
  BY DEF Placid, Calm
<1> QED BY <1>1, WriterKept

LEMMA DispatchFrame ==
  ASSUME TypeInv, TypeInv', DispatchInv, conns_' >= conns_,
         \A t \in Workers : worker'[t].st = "run" => worker[t].st = "run" /\ worker'[t].k = worker[t].k
  PROVE  DispatchInv'
<1> SUFFICES ASSUME NEW t \in Workers, worker'[t].st = "run" PROVE worker'[t].k <= conns_'
  BY DEF DispatchInv
<1>1. worker[t].k <= conns_ /\ worker'[t].k = worker[t].k
  BY DEF DispatchInv
<1>2. worker'[t].k \in Nat
  <2>1. worker'[t] \in [st : {"idle", "exited"}] \union
                       [st : AtWork, k : 1..Len(conn'), kind : Kinds]
    BY DEF TypeInv
  <2> QED BY <2>1
<1>3. conns_ \in Nat /\ conns_' \in Nat
  BY DEF TypeInv
<1> QED BY <1>1, <1>2, <1>3

LEMMA PoolFrame ==
  ASSUME PoolInv, UNCHANGED <<table, jobq_, destroyer>>,
         \A t \in Workers : worker'[t].st = "exited" <=> worker[t].st = "exited"
  PROVE  PoolInv'
<1>1. Exited' = Exited /\ Pills' = Pills /\ Closing' = Closing
  BY DEF Exited, Pills, Closing
<1> QED BY <1>1 DEF PoolInv

\* A step outside the table, the loop and wpdu_.
LEMMA QuietFrame ==
  ASSUME IInv, TypeInv', RefInv', Calm(conn, conn'), Early(worker, worker'),
         UNCHANGED <<table, acceptor, pollVars, destroyer>>
  PROVE  FdInv' /\ TableInv' /\ WatchInv' /\ PollInv' /\ WriterInv'
<1>1. Onward(conn, conn') /\ Still(conn, conn') /\ Keeps(worker, worker') /\ DestroyerStays
  BY CalmIsOnward, EarlyKeeps DEF DestroyerStays
<1>2. UNCHANGED <<callbacks_, rfds_, wfds_, pending_change_, poll>>
  BY DEF pollVars
<1>3. FdInv'
  BY <1>1, FdFrame DEF IInv
<1>4. TableInv'
  BY <1>1, TableFrame DEF IInv
<1>5. WatchInv'
  BY <1>1, <1>2, WatchFrame DEF IInv
<1>6. PollInv'
  BY <1>1, <1>2, PollFrame DEF IInv, Keeps, DestroyerStays
<1>7. WriterInv'
  BY <1>2, WriterFrame DEF IInv
<1> QED BY <1>3, <1>4, <1>5, <1>6, <1>7

\* Holders stay when nobody who holds a reference moves.
LEMMA HeldSame ==
  ASSUME TypeInv, Len(conn') = Len(conn), UNCHANGED <<table, acceptor, conns_, jobq_>>,
         \A u \in Workers : /\ worker'[u].st \in {"idle", "exited"} <=> worker[u].st \in {"idle", "exited"}
                            /\ worker[u].st \notin {"idle", "exited"} => worker'[u].k = worker[u].k
  PROVE  Held' = Held
<1>1. \A k : InPool(worker', k) = InPool(worker, k)
  BY InPoolSame
<1>2. \A k : Holders(k)' = Holders(k)
  BY <1>1, HoldersAre, HoldersAreNext
<1> QED BY <1>2 DEF Held

\* The counts do not change when no holder and no count does.
LEMMA RefFrame ==
  ASSUME RefInv, Held' = Held, Len(conn') = Len(conn),
         \A k \in 1..Len(conn) : \/ conn'[k] = Gone /\ conn[k] = Gone
                                 \/ /\ conn'[k] # Gone /\ conn[k] # Gone
                                    /\ conn'[k].refno_ = conn[k].refno_ /\ conn'[k].leaked = conn[k].leaked
  PROVE  RefInv'
<1>1. RefOK(conn', Held)
  BY RefSame DEF RefInv
<1> QED BY <1>1 DEF RefInv

-------------------------------------------------------------------------------
(* The peer's steps.                                                       *)

LEMMA InitIInv == Init => IInv
<1> SUFFICES ASSUME Init PROVE IInv
  OBVIOUS
<1> USE DEF Init
<1>0. Len(conn) = 0 /\ Open = {} /\ 1..Len(conn) = {}
  BY DEF Open
<1>1. TypeInv
  <2>1. came \in 0..MaxReq /\ closed \in 0..MaxClose /\ Len(jobq_) <= QMax /\ conns_ \in 0..Len(conn)
    BY <1>0, BoundsAssumption
  <2>2. table \in [Fds -> 0..Len(conn)] /\ callbacks_ \in [Fds -> 0..Len(conn)]
    BY <1>0
  <2>3. pending_change_ \in BOOLEAN
    OBVIOUS
  <2>4. conn \in Seq({Gone} \union Conns) /\ jobq_ \in Seq({Pill} \union [k : 1..Len(conn), kind : Kinds])
    OBVIOUS
  <2> QED BY <2>1, <2>2, <2>3, <2>4 DEF TypeInv, Idle
<1>2. RefInv /\ FdInv
  BY <1>0 DEF RefInv, RefOK, FdInv
<1>3. TableInv /\ DispatchInv
  BY <1>0 DEF TableInv, DispatchInv, Accepting, Closing, Idle
<1>4. WatchInv /\ PollInv /\ WriterInv
  BY <1>0 DEF WatchInv, PollInv, WriterInv, Idle, Writing
<1>5. PoolInv
  <2>1. Pills = {} /\ Exited = {} /\ Len(jobq_) = 0
    BY DEF Pills, Exited, Idle
  <2> QED BY <2>1 DEF PoolInv, Closing
<1> QED BY <1>1, <1>2, <1>3, <1>4, <1>5 DEF IInv

LEMMA PeerIInv ==
  ASSUME IInv, NEW k \in ConnIds, NEW kind \in Kinds, PeerSends(k, kind) \/ PeerCloses(k)
  PROVE  IInv'
<1>0. TypeInv /\ RefInv /\ k \in 1..Len(conn) /\ conn[k] \in Conns /\ conn[k] # Gone
  BY There DEF IInv, AllThere, PeerSends, PeerCloses, Open, IsGone
<1>1. /\ \/ conn' = [conn EXCEPT ![k] = [conn[k] EXCEPT !.in = Append(conn[k].in, kind)]]
         \/ conn' = [conn EXCEPT ![k] = [conn[k] EXCEPT !.eof = TRUE]]
      /\ UNCHANGED <<table, acceptor, pollVars, jobq_, worker, conns_, destroyer>>
  BY DEF PeerSends, PeerCloses
<1>2. PICK r : /\ conn' = [conn EXCEPT ![k] = r]
               /\ \/ r = [conn[k] EXCEPT !.in = Append(conn[k].in, kind)]
                  \/ r = [conn[k] EXCEPT !.eof = TRUE]
  BY <1>1
<1>3. /\ r \in Conns /\ r.fd = conn[k].fd /\ r.wpdu_ = conn[k].wpdu_ /\ r.dead_ = conn[k].dead_
      /\ r.refno_ = conn[k].refno_ /\ r.leaked = conn[k].leaked
      /\ r.in # <<>> \/ r.eof
  <2>1. CASE r = [conn[k] EXCEPT !.in = Append(conn[k].in, kind)]
    <3>1. conn[k].in \in Seq(Kinds)
      BY <1>0 DEF Conns
    <3>2. Append(conn[k].in, kind) \in Seq(Kinds) /\ Append(conn[k].in, kind) # <<>>
      BY <3>1
    <3> QED BY <1>0, <2>1, <3>2 DEF Conns
  <2>2. CASE r = [conn[k] EXCEPT !.eof = TRUE]
    BY <1>0, <2>2 DEF Conns
  <2> QED BY <1>2, <2>1, <2>2
<1>4. r # Gone
  BY <1>3, ConnsNotGone
<1>5. /\ conn' \in Seq({Gone} \union Conns) /\ Len(conn') = Len(conn) /\ conn'[k] = r
      /\ \A j \in 1..Len(conn) : j # k => conn'[j] = conn[j]
  BY <1>0, <1>2, <1>3, Update DEF TypeInv
<1>6. came' \in 0..MaxReq /\ closed' \in 0..MaxClose
  BY <1>0, BoundsAssumption DEF TypeInv, PeerSends, PeerCloses
<1>7. TypeInv'
  BY <1>0, <1>1, <1>5, <1>6 DEF TypeInv, pollVars
<1>8. Calm(conn, conn')
  BY <1>0, <1>3, <1>4, <1>5 DEF Calm
<1>9. RefInv'
  <2>1. Held' = Held
    BY <1>0, <1>1, <1>5, HeldSame
  <2> QED BY <1>0, <1>3, <1>4, <1>5, <2>1, RefFrame
<1>10. Early(worker, worker')
  BY <1>1 DEF Early
<1>11. FdInv' /\ TableInv' /\ WatchInv' /\ PollInv' /\ WriterInv'
  BY <1>1, <1>7, <1>8, <1>9, <1>10, QuietFrame
<1>12. DispatchInv' /\ PoolInv'
  <2>1. conns_' >= conns_
    BY <1>0, <1>1 DEF TypeInv
  <2> QED BY <1>1, <1>7, <2>1, DispatchFrame, PoolFrame DEF IInv
<1> QED BY <1>7, <1>9, <1>11, <1>12 DEF IInv

-------------------------------------------------------------------------------
(* The steps of the pool's threads outside the writing of replies.         *)

Threads(n) == [st : {"idle", "exited"}] \union [st : AtWork, k : 1..n, kind : Kinds]

LEMMA ThreadType ==
  ASSUME TypeInv, NEW t \in Workers
  PROVE  /\ worker \in [Workers -> Threads(Len(conn))] /\ worker[t] \in Threads(Len(conn))
         /\ worker[t].st \in AtWork => worker[t].k \in 1..Len(conn) /\ worker[t].kind \in Kinds
         /\ worker[t].st \in AtWork \union {"idle", "exited"}
         /\ worker[t].st \in AtWork <=> worker[t].st \notin {"idle", "exited"}
<1>1. worker \in [Workers -> Threads(Len(conn))] /\ worker[t] \in Threads(Len(conn))
  BY DEF TypeInv, Threads
<1> QED BY <1>1 DEF Threads, AtWork

\* The pills are the entries that are Pill.
LEMMA PillsAmong ==
  /\ Pills = Among(jobq_, {Pill})
  /\ Pills' = Among(jobq_', {Pill})
BY DEF Pills, Among

LEMMA TakePool ==
  ASSUME IInv, NEW t \in Workers, TakeJob(t)
  PROVE  PoolInv'
<1>0. /\ TypeInv /\ PoolInv /\ worker[t].st = "idle" /\ jobq_ # <<>> /\ jobq_' = Tail(jobq_)
      /\ jobq_ \in Seq(Jobs(Len(conn))) /\ worker \in [Workers -> Threads(Len(conn))]
      /\ table' = table /\ destroyer' = destroyer
  BY DEF IInv, TakeJob, TypeInv, Jobs, Threads
<1>1. /\ Len(jobq_) \in Nat \ {0} /\ Len(jobq_') = Len(jobq_) - 1 /\ Head(jobq_) = jobq_[1]
      /\ \A i \in 1..Len(jobq_') : jobq_'[i] = jobq_[i + 1] /\ i + 1 \in 1..Len(jobq_)
  BY <1>0
<1>2. /\ \A i \in 1..Len(jobq_') : i \in Pills' <=> i + 1 \in Pills
      /\ 1 \in Pills <=> Head(jobq_) = Pill
      /\ Pills' \subseteq 1..Len(jobq_') /\ Pills \subseteq 1..Len(jobq_)
  BY <1>1 DEF Pills
<1>3. \A u \in Workers : u # t => worker'[u] = worker[u]
  BY <1>0 DEF TakeJob
<1>4. worker'[t].st = "exited" <=> Head(jobq_) = Pill
  BY <1>0 DEF TakeJob
<1>5. Exited' = IF Head(jobq_) = Pill THEN Exited \union {t} ELSE Exited
  <2>1. t \notin Exited
    BY <1>0 DEF Exited
  <2> QED BY <1>3, <1>4, <2>1 DEF Exited
<1>6. Pills' # {} \/ Exited' # {} => Pills # {} \/ Exited # {}
  BY <1>2, <1>5
<1>7. \A i, j \in 1..Len(jobq_') : i < j /\ i \in Pills' => j \in Pills'
  <2> SUFFICES ASSUME NEW i \in 1..Len(jobq_'), NEW j \in 1..Len(jobq_'), i < j, i \in Pills'
               PROVE  j \in Pills'
    OBVIOUS
  <2>1. i + 1 \in 1..Len(jobq_) /\ j + 1 \in 1..Len(jobq_) /\ i + 1 < j + 1
    BY <1>1
  <2>2. j + 1 \in Pills
    BY <1>0, <1>2, <2>1 DEF PoolInv
  <2> QED BY <1>2, <2>2
<1>8. Exited' # {} => Pills' = 1..Len(jobq_')
  <2> SUFFICES ASSUME Exited' # {}, NEW i \in 1..Len(jobq_') PROVE i \in Pills'
    BY <1>2
  <2>1. 1 \in Pills
    BY <1>0, <1>1, <1>2, <1>5 DEF PoolInv
  <2>2. i + 1 \in 1..Len(jobq_) /\ 1 < i + 1 /\ 1 \in 1..Len(jobq_)
    BY <1>1
  <2>3. i + 1 \in Pills
    BY <1>0, <2>1, <2>2 DEF PoolInv
  <2> QED BY <1>2, <2>3
<1>9. Closing => Cardinality(Workers \ Exited') = destroyer.pills + Cardinality(Pills')
  <2> SUFFICES ASSUME Closing
               PROVE  Cardinality(Workers \ Exited') = destroyer.pills + Cardinality(Pills')
    OBVIOUS
  <2>1. Cardinality(Pills) = Cardinality(Pills') + One(Head(jobq_) \in {Pill})
    BY <1>0, AmongTail, PillsAmong
  <2>2. Cardinality(Pills) \in Nat /\ Cardinality(Pills') \in Nat
    <3>1. jobq_' \in Seq(Jobs(Len(conn)))
      BY <1>0
    <3> QED BY <1>0, <3>1, AmongFinite, PillsAmong
  <2>3. Cardinality(Workers \ Exited) = destroyer.pills + Cardinality(Pills)
    BY <1>0 DEF PoolInv
  <2>4. destroyer.pills \in Nat
    <3>1. Cardinality(Workers) \in Nat
      BY BoundsAssumption, FS_CardinalityType
    <3> QED BY <1>0, <3>1 DEF TypeInv, Closing
  <2>5. CASE Head(jobq_) # Pill
    BY <1>5, <2>1, <2>2, <2>3, <2>4, <2>5 DEF One
  <2>6. CASE Head(jobq_) = Pill
    <3>1. IsFiniteSet(Workers \ Exited)
      BY BoundsAssumption, FS_Subset
    <3>2. t \in Workers \ Exited
      BY <1>0 DEF Exited
    <3>3. Workers \ Exited' = (Workers \ Exited) \ {t}
      BY <1>5, <2>6
    <3>4. Cardinality(Workers \ Exited') = Cardinality(Workers \ Exited) - 1
      BY <3>1, <3>2, <3>3, FS_RemoveElement
    <3>5. One(Head(jobq_) \in {Pill}) = 1
      BY <2>6 DEF One
    <3> QED BY <2>1, <2>2, <2>3, <2>4, <3>4, <3>5
  <2> QED BY <2>5, <2>6
<1>10. destroyer.st # "down"
  BY <1>0 DEF PoolInv
<1>11. Closing' = Closing
  BY <1>0 DEF Closing
<1> QED BY <1>0, <1>6, <1>7, <1>8, <1>9, <1>10, <1>11 DEF PoolInv

LEMMA TakeIInv ==
  ASSUME IInv, NEW t \in Workers, TakeJob(t)
  PROVE  IInv'
<1> DEFINE n == Len(conn)
           j == Head(jobq_)
<1>0. /\ TypeInv /\ RefInv /\ worker[t].st = "idle" /\ jobq_ # <<>> /\ jobq_' = Tail(jobq_)
      /\ UNCHANGED <<peerVars, conn, table, acceptor, pollVars, conns_, destroyer>>
      /\ jobq_ \in Seq(Jobs(n)) /\ worker \in [Workers -> Threads(n)]
  BY DEF IInv, TakeJob, TypeInv, Jobs, Threads
<1>1. j \in Jobs(n) /\ jobq_' \in Seq(Jobs(n)) /\ Len(jobq_') <= Len(jobq_) /\ Len(jobq_) \in Nat
      /\ Len(jobq_') \in Nat
  BY <1>0
<1>2. PICK w : /\ worker' = [worker EXCEPT ![t] = w]
               /\ w = IF j = Pill THEN [st |-> "exited"]
                      ELSE [st |-> IF j.kind = "old" THEN "send" ELSE "arrived",
                            k |-> j.k, kind |-> j.kind]
  BY DEF TakeJob
<1>3. /\ w \in Threads(n) /\ w.st \in {"exited", "send", "arrived"}
      /\ j # Pill => w.st \in {"send", "arrived"} /\ w.k = j.k
      /\ j = Pill => w.st = "exited" /\ j.k = 0
  BY <1>1, <1>2 DEF Jobs, Threads, AtWork, Pill
<1>4. worker' \in [Workers -> Threads(n)] /\ worker'[t] = w
      /\ \A u \in Workers : u # t => worker'[u] = worker[u]
  BY <1>0, <1>2, <1>3
<1>5. TypeInv'
  <2>1. Len(jobq_') <= QMax
    BY <1>0, <1>1, BoundsAssumption DEF TypeInv
  <2> QED BY <1>0, <1>1, <1>4, <2>1 DEF TypeInv, Jobs, Threads, peerVars, pollVars
<1>6. Held' = Held
  <2>1. \A k \in 1..n : InQueue(jobq_, k) = InQueue(jobq_', k) + One(j.k = k)
    BY <1>0, InQueueTail
  <2>2. Steady(worker, worker', t)
    BY <1>4 DEF Steady
  <2>3. \A k \in 1..n : InPool(worker', k) + One(Holds(worker, t, k))
                          = InPool(worker, k) + One(Holds(worker', t, k))
    BY <2>2, InPoolStep
  <2>4. \A k \in 1..n : One(Holds(worker, t, k)) = 0 /\ One(Holds(worker', t, k)) = One(j.k = k)
    BY <1>0, <1>3, <1>4 DEF One, Holds
  <2>5. \A k \in 1..n : One(j.k = k) \in Nat
    BY DEF One
  <2>6. \A k \in 1..n : InPool(worker, k) \in Nat /\ InPool(worker', k) \in Nat
    BY InPoolNat
  <2>7. \A k \in 1..n : InQueue(jobq_', k) \in Nat
    BY <1>1, InQueueNat
  <2>8. \A k \in 1..n : InQueue(jobq_', k) + InPool(worker', k) = InQueue(jobq_, k) + InPool(worker, k)
    BY <2>1, <2>3, <2>4, <2>5, <2>6, <2>7
  <2>9. ASSUME NEW k \in 1..n PROVE Holders(k)' = Holders(k)
    <3>1. InTable(table', k) = InTable(table, k) /\ InAccept(acceptor', k) = InAccept(acceptor, k)
          /\ One(conns_' = k) = One(conns_ = k)
      BY <1>0
    <3>2. InTable(table, k) \in Nat /\ InAccept(acceptor, k) \in Nat /\ One(conns_ = k) \in Nat
          /\ InQueue(jobq_, k) \in Nat
      BY <1>0, HoldersType
    <3>3. InQueue(jobq_', k) + InPool(worker', k) = InQueue(jobq_, k) + InPool(worker, k)
      BY <2>8
    <3>4. InPool(worker, k) \in Nat /\ InPool(worker', k) \in Nat /\ InQueue(jobq_', k) \in Nat
      BY <2>6, <2>7
    <3>5. /\ Holders(k) = InTable(table, k) + InAccept(acceptor, k) + One(conns_ = k)
                          + InQueue(jobq_, k) + InPool(worker, k)
          /\ Holders(k)' = InTable(table, k) + InAccept(acceptor, k) + One(conns_ = k)
                          + InQueue(jobq_', k) + InPool(worker', k)
      BY <3>1, HoldersAre, HoldersAreNext
    <3> HIDE DEF n
    <3> QED BY <3>2, <3>3, <3>4, <3>5
  <2> QED BY <1>0, <2>9 DEF Held
<1>7. RefInv'
  BY <1>0, <1>6 DEF RefInv
<1>8. Calm(conn, conn')
  BY <1>0, ShrinksSelf, ShrinksIsCalm DEF TypeInv
<1>9. Early(worker, worker')
  BY <1>0, <1>3, <1>4 DEF Early, Writing
<1>10. FdInv' /\ TableInv' /\ WatchInv' /\ PollInv' /\ WriterInv'
  BY <1>0, <1>5, <1>7, <1>8, <1>9, QuietFrame
<1>11. DispatchInv'
  <2>1. conns_' >= conns_
    BY <1>0 DEF TypeInv
  <2>2. \A u \in Workers : worker'[u].st = "run" => worker[u].st = "run" /\ worker'[u].k = worker[u].k
    BY <1>3, <1>4
  <2> QED BY <1>5, <2>1, <2>2, DispatchFrame DEF IInv
<1> QED BY <1>5, <1>7, <1>10, <1>11, TakePool DEF IInv

\* The holders when a thread's reference, or the one of rpcs::conns_, moves.
LEMMA HoldersMove ==
  ASSUME TypeInv, NEW t \in Workers, Steady(worker, worker', t),
         UNCHANGED <<table, acceptor, jobq_>>, NEW k
  PROVE  /\ Holders(k)' \in Nat /\ Holders(k) \in Nat
         /\ Holders(k)' + One(conns_ = k) + One(Holds(worker, t, k))
              = Holders(k) + One(conns_' = k) + One(Holds(worker', t, k))
<1>1. InPool(worker', k) + One(Holds(worker, t, k)) = InPool(worker, k) + One(Holds(worker', t, k))
  BY InPoolStep
<1>2. InPool(worker', k) \in Nat
  BY InPoolNat
<1>3. /\ One(Holds(worker, t, k)) \in Nat /\ One(Holds(worker', t, k)) \in Nat
      /\ One(conns_' = k) \in Nat
  BY DEF One
<1>4. /\ Holders(k) = InTable(table, k) + InAccept(acceptor, k) + One(conns_ = k)
                      + InQueue(jobq_, k) + InPool(worker, k)
      /\ Holders(k)' = InTable(table, k) + InAccept(acceptor, k) + One(conns_' = k)
                      + InQueue(jobq_, k) + InPool(worker', k)
  BY HoldersAre, HoldersAreNext
<1> QED BY <1>1, <1>2, <1>3, <1>4, HoldersType

\* A thread's step that neither begins nor ends the writing of a reply.
LEMMA EarlyStep ==
  ASSUME IInv, NEW t \in Workers, NEW w \in Threads(Len(conn)),
         worker' = [worker EXCEPT ![t] = w],
         w.st \notin Writing \union {"asleep", "exited"},
         worker[t].st \notin Writing \union {"exited"},
         w.st = "run" => w.k <= conns_',
         Shrinks(conn, conn'), RefInv', conns_' \in 0..Len(conn), conns_' >= conns_,
         UNCHANGED <<peerVars, table, acceptor, pollVars, jobq_, destroyer>>
  PROVE  IInv'
<1>0. TypeInv /\ worker \in [Workers -> Threads(Len(conn))]
  BY DEF IInv, TypeInv, Threads
<1>1. /\ worker' \in [Workers -> Threads(Len(conn))] /\ worker'[t] = w
      /\ \A u \in Workers : u # t => worker'[u] = worker[u]
  BY <1>0
<1>2. conn' \in Seq({Gone} \union Conns) /\ Len(conn') = Len(conn)
  BY DEF Shrinks
<1>3. TypeInv'
  BY <1>0, <1>1, <1>2 DEF TypeInv, Threads, peerVars, pollVars
<1>4. Calm(conn, conn')
  BY ShrinksIsCalm
<1>5. Early(worker, worker')
  BY <1>1 DEF Early
<1>6. FdInv' /\ TableInv' /\ WatchInv' /\ PollInv' /\ WriterInv'
  BY <1>3, <1>4, <1>5, QuietFrame
<1>7. PoolInv'
  <2>1. \A u \in Workers : worker'[u].st = "exited" <=> worker[u].st = "exited"
    BY <1>1
  <2> QED BY <2>1, PoolFrame DEF IInv
<1>8. DispatchInv'
  <2> SUFFICES ASSUME NEW u \in Workers, worker'[u].st = "run" PROVE worker'[u].k <= conns_'
    BY DEF DispatchInv
  <2>1. CASE u = t
    BY <1>1, <2>1
  <2>2. CASE u # t
    <3>1. worker'[u] = worker[u] /\ worker[u].k <= conns_
      BY <1>1, <2>2 DEF IInv, DispatchInv
    <3>2. worker[u].k \in Nat
      BY <1>0, <3>1, ThreadType DEF AtWork
    <3> QED BY <1>0, <3>1, <3>2 DEF TypeInv
  <2> QED BY <2>1, <2>2
<1> QED BY <1>3, <1>6, <1>7, <1>8 DEF IInv

\* The connection saved in rpcs::conns_ takes its reference with it.
LEMMA NoteOK ==
  ASSUME IInv, NEW k \in 1..Len(conn), conn[k] # Gone, NEW m,
         m = IF conns_ < k THEN k ELSE conns_
  PROVE  \E g \in [1..Len(conn) -> Nat] :
           /\ Shrinks(conn, NoteConn(k)) /\ RefOK(NoteConn(k), g)
           /\ \A j \in 1..Len(conn) : g[j] + One(conns_ = j) = Held[j] + One(m = j)
<1>0. /\ TypeInv /\ RefInv /\ conn \in Seq({Gone} \union Conns) /\ conns_ \in 0..Len(conn)
      /\ Held \in [1..Len(conn) -> Nat] /\ RefOK(conn, Held) /\ Len(conn) \in Nat
  BY HeldType DEF IInv, TypeInv, RefInv
<1>1. CASE conns_ = 0
  <2> DEFINE g == [Held EXCEPT ![k] = @ + 1]
  <2>1. Shrinks(conn, NoteConn(k)) /\ RefOK(NoteConn(k), g)
    BY <1>0, <1>1, IncrefOK DEF NoteConn
  <2>2. g \in [1..Len(conn) -> Nat] /\ \A j \in 1..Len(conn) : g[j] = IF j = k THEN Held[j] + 1 ELSE Held[j]
    BY <1>0
  <2>3. m = k
    BY <1>0, <1>1
  <2>4. \A j \in 1..Len(conn) : One(conns_ = j) = 0 /\ One(m = j) = IF j = k THEN 1 ELSE 0
    BY <1>1, <2>3 DEF One
  <2> HIDE DEF g
  <2>5. \A j \in 1..Len(conn) : g[j] + One(conns_ = j) = Held[j] + One(m = j)
    BY <1>0, <2>2, <2>4
  <2> QED BY <2>1, <2>2, <2>5
<1>2. CASE conns_ # 0 /\ conns_ < k
  <2>0. PICK o \in 1..Len(conn) : o = conns_
    BY <1>0, <1>2
  <2> DEFINE f == [Held EXCEPT ![o] = @ - 1]
             g == [f EXCEPT ![k] = @ + 1]
             d == Decref(conn, o)
  <2>1. Held[o] > 0
    BY <1>0, <2>0, Holding DEF Held
  <2>7. k # o
    BY <1>2, <2>0
  <2>2. /\ Shrinks(conn, d) /\ f \in [1..Len(conn) -> Nat] /\ RefOK(d, f)
        /\ d[k] = conn[k]
    <3>1. /\ Shrinks(conn, d) /\ f \in [1..Len(conn) -> Nat] /\ RefOK(d, f)
          /\ \A j \in 1..Len(conn) : j # o => d[j] = conn[j]
      BY <1>0, <2>1, DecrefOK
    <3> QED BY <2>7, <3>1
  <2>3. d \in Seq({Gone} \union Conns) /\ Len(d) = Len(conn) /\ d[k] # Gone
    BY <2>2 DEF Shrinks
  <2>4. NoteConn(k) = Incref(d, k)
    BY <1>2, <2>0 DEF NoteConn
  <2>5. /\ g \in [1..Len(conn) -> Nat]
        /\ \A j \in 1..Len(conn) : g[j] = IF j = k THEN Held[j] + 1 ELSE
                                          IF j = o THEN Held[j] - 1 ELSE Held[j]
    BY <1>0, <1>2, <2>0, <2>2
  <2>6. \A j \in 1..Len(conn) : /\ One(conns_ = j) = IF j = o THEN 1 ELSE 0
                                /\ One(m = j) = IF j = k THEN 1 ELSE 0
    BY <1>2, <2>0 DEF One
  <2> HIDE DEF d, f
  <2>8. Shrinks(d, Incref(d, k)) /\ RefOK(Incref(d, k), g)
    BY <2>2, <2>3, IncrefOK
  <2> HIDE DEF g
  <2>9. Shrinks(conn, NoteConn(k)) /\ RefOK(NoteConn(k), g)
    BY <2>2, <2>4, <2>8, ShrinksTwice
  <2>10. \A j \in 1..Len(conn) : g[j] + One(conns_ = j) = Held[j] + One(m = j)
    BY <1>0, <2>5, <2>6, <2>7
  <2> QED BY <2>5, <2>9, <2>10
<1>3. CASE conns_ # 0 /\ ~(conns_ < k)
  <2>1. NoteConn(k) = conn /\ m = conns_
    BY <1>3 DEF NoteConn
  <2> QED BY <1>0, <2>1, ShrinksSelf
<1> QED BY <1>1, <1>2, <1>3

LEMMA ArrivedIInv ==
  ASSUME IInv, NEW t \in Workers, NEW v \in {"NEW", "INPROGRESS", "DONE"}, Arrived(t, v)
  PROVE  IInv'
<1>0. /\ TypeInv /\ RefInv /\ worker[t].st = "arrived"
      /\ conn \in Seq({Gone} \union Conns) /\ conns_ \in 0..Len(conn) /\ Len(conn) \in Nat
      /\ UNCHANGED <<peerVars, table, acceptor, pollVars, jobq_, destroyer>>
      /\ worker \in [Workers -> Threads(Len(conn))]
  BY DEF IInv, Arrived, TypeInv, Threads
<1>1. worker[t].st \in AtWork
  BY <1>0 DEF AtWork
<1>2. PICK k \in 1..Len(conn) : k = worker[t].k /\ conn[k] # Gone
  BY <1>0, <1>1, There, ThreadType DEF AllThere, IsThere, Open, IsGone
<1>4. PICK m : m = IF conns_ < k THEN k ELSE conns_
  OBVIOUS
<1>3. m \in 0..Len(conn) /\ m >= conns_ /\ k <= m
  BY <1>0, <1>4
<1>30. conns_' = m
  BY <1>2, <1>4 DEF Arrived
<1>21. k \in 1..Len(conn) /\ conn[k] # Gone
  BY <1>2
<1> DEFINE c == NoteConn(k)
<1>5. PICK g \in [1..Len(conn) -> Nat] :
           /\ Shrinks(conn, c) /\ RefOK(c, g)
           /\ \A j \in 1..Len(conn) : g[j] + One(conns_ = j) = Held[j] + One(m = j)
  BY <1>21, <1>4, NoteOK
<1> HIDE DEF c
<1>6. c \in Seq({Gone} \union Conns) /\ Len(c) = Len(conn)
  BY <1>5 DEF Shrinks
<1>7. Held \in [1..Len(conn) -> Nat] /\ \A j \in 1..Len(conn) : Held[j] = Holders(j)
  BY <1>0, HeldType DEF Held
<1>8. \A j \in 1..Len(conn) : Holds(worker, t, j) <=> j = k
  BY <1>0, <1>2 DEF Holds
<1>9. CASE v = "INPROGRESS"
  <2>1. conn' = Leave(c, worker[t]) /\ worker' = [worker EXCEPT ![t] = Idle]
    BY <1>2, <1>9 DEF Arrived, c
  <2>2. /\ worker'[t] = Idle /\ \A u \in Workers : u # t => worker'[u] = worker[u]
    BY <1>0, <2>1
  <2>3. Steady(worker, worker', t) /\ \A j \in 1..Len(conn) : ~Holds(worker', t, j)
    BY <2>2 DEF Steady, Holds, Idle
  <2>4. g[k] > 0
    <3>1. Held[k] > 0
      BY <1>0, <1>1, <1>2, <1>7, Holding
    <3>2. One(m = k) >= One(conns_ = k) /\ One(m = k) \in Nat /\ One(conns_ = k) \in Nat
      <4>1. conns_ = k => m = k
        BY <1>0, <1>4
      <4> QED BY <4>1 DEF One
    <3>3. g[k] + One(conns_ = k) = Held[k] + One(m = k)
      BY <1>5
    <3> QED BY <1>7, <3>1, <3>2, <3>3
  <2>5. Shrinks(c, conn') /\ RefOK(conn', [g EXCEPT ![k] = @ - 1])
    BY <1>2, <1>5, <1>6, <2>1, <2>4, LeaveOK
  <2>6. Shrinks(conn, conn') /\ Len(conn') = Len(conn)
    BY <1>5, <2>5, ShrinksTwice DEF Shrinks
  <2>7. Held' = [g EXCEPT ![k] = @ - 1]
    <3>1. ASSUME NEW j \in 1..Len(conn)
          PROVE  Holders(j)' = [g EXCEPT ![k] = @ - 1][j]
      <4>1. /\ Holders(j)' \in Nat /\ Holders(j) \in Nat
            /\ Holders(j)' + One(conns_ = j) + One(Holds(worker, t, j))
                 = Holders(j) + One(m = j) + One(Holds(worker', t, j))
        <5>1. /\ Holders(j)' \in Nat /\ Holders(j) \in Nat
              /\ Holders(j)' + One(conns_ = j) + One(Holds(worker, t, j))
                   = Holders(j) + One(conns_' = j) + One(Holds(worker', t, j))
          BY <1>0, <2>3, HoldersMove
        <5> QED BY <1>30, <5>1
      <4>2. One(Holds(worker, t, j)) = (IF j = k THEN 1 ELSE 0) /\ One(Holds(worker', t, j)) = 0
        BY <1>8, <2>3 DEF One
      <4>3. One(conns_ = j) \in Nat /\ One(m = j) \in Nat
        BY DEF One
      <4>4. g[j] + One(conns_ = j) = Holders(j) + One(m = j)
        BY <1>5, <1>7
      <4> QED BY <4>1, <4>2, <4>3, <4>4
    <3> QED BY <2>6, <3>1 DEF Held
  <2>8. RefInv'
    BY <2>5, <2>7 DEF RefInv
  <2>9. Idle \in Threads(Len(conn)) /\ Idle.st = "idle"
    BY DEF Idle, Threads
  <2> QED BY <1>0, <1>3, <1>30, <2>1, <2>6, <2>8, <2>9, EarlyStep DEF Writing
<1>10. CASE v # "INPROGRESS"
  <2>0. PICK w : w = [worker[t] EXCEPT !.st = IF v = "NEW" THEN "run" ELSE "send"]
    OBVIOUS
  <2>1. conn' = c /\ worker' = [worker EXCEPT ![t] = w]
    BY <1>2, <1>10, <2>0 DEF Arrived, c
  <2>2. w \in Threads(Len(conn)) /\ w.st \in {"run", "send"} /\ w.k = k
    <3>1. worker[t] \in [st : AtWork, k : 1..Len(conn), kind : Kinds]
      BY <1>0, <1>1 DEF Threads, AtWork
    <3> QED BY <1>2, <2>0, <3>1 DEF Threads, AtWork
  <2>3. /\ worker'[t] = w /\ \A u \in Workers : u # t => worker'[u] = worker[u]
    BY <1>0, <2>1
  <2>4. Steady(worker, worker', t) /\ \A j \in 1..Len(conn) : Holds(worker', t, j) <=> j = k
    BY <2>2, <2>3 DEF Steady, Holds
  <2>5. Held' = g
    <3>1. ASSUME NEW j \in 1..Len(conn)
          PROVE  Holders(j)' = g[j]
      <4>1. /\ Holders(j)' \in Nat /\ Holders(j) \in Nat
            /\ Holders(j)' + One(conns_ = j) + One(Holds(worker, t, j))
                 = Holders(j) + One(m = j) + One(Holds(worker', t, j))
        <5>1. /\ Holders(j)' \in Nat /\ Holders(j) \in Nat
              /\ Holders(j)' + One(conns_ = j) + One(Holds(worker, t, j))
                   = Holders(j) + One(conns_' = j) + One(Holds(worker', t, j))
          BY <1>0, <2>4, HoldersMove
        <5> QED BY <1>30, <5>1
      <4>2. One(Holds(worker, t, j)) = One(Holds(worker', t, j))
        BY <1>8, <2>4 DEF One
      <4>3. One(conns_ = j) \in Nat /\ One(m = j) \in Nat /\ One(Holds(worker, t, j)) \in Nat
        BY DEF One
      <4>4. g[j] + One(conns_ = j) = Holders(j) + One(m = j)
        BY <1>5, <1>7
      <4>5. g[j] \in Nat
        BY <1>5
      <4> QED BY <4>1, <4>2, <4>3, <4>4, <4>5
    <3> QED BY <1>5, <1>6, <2>1, <3>1 DEF Held
  <2>6. RefInv'
    BY <1>5, <2>1, <2>5 DEF RefInv
  <2>7. w.st \notin Writing \union {"asleep", "exited"} /\ worker[t].st \notin Writing \union {"exited"}
    BY <1>0, <2>2 DEF Writing
  <2> QED BY <1>0, <1>3, <1>30, <1>5, <2>1, <2>2, <2>6, <2>7, EarlyStep
<1> QED BY <1>9, <1>10

(* DecrefOK at the connections as they are. *)
LEMMA DropHeld ==
  \A h, k : /\ conn \in Seq({Gone} \union Conns) /\ h \in [1..Len(conn) -> Nat] /\ RefOK(conn, h)
            /\ k \in 1..Len(conn) /\ h[k] > 0
     => /\ Shrinks(conn, Decref(conn, k)) /\ [h EXCEPT ![k] = @ - 1] \in [1..Len(conn) -> Nat]
        /\ RefOK(Decref(conn, k), [h EXCEPT ![k] = @ - 1])
        /\ \A j \in 1..Len(conn) : j # k => Decref(conn, k)[j] = conn[j]
<1> TAKE h, k
<1> HAVE /\ conn \in Seq({Gone} \union Conns) /\ h \in [1..Len(conn) -> Nat] /\ RefOK(conn, h)
         /\ k \in 1..Len(conn) /\ h[k] > 0
<1>1. Shrinks(conn, Decref(conn, k))
  BY DecrefOK
<1>2. [h EXCEPT ![k] = @ - 1] \in [1..Len(conn) -> Nat]
  OBVIOUS
<1>3. RefOK(Decref(conn, k), [h EXCEPT ![k] = @ - 1])
  BY DecrefOK
<1>4. \A j \in 1..Len(conn) : j # k => Decref(conn, k)[j] = conn[j]
  BY DEF Decref
<1> QED BY <1>1, <1>2, <1>3, <1>4

LEMMA RanIInv ==
  ASSUME IInv, NEW t \in Workers, Ran(t)
  PROVE  IInv'
<1>0. /\ TypeInv /\ RefInv /\ worker[t].st = "run" /\ conns_' = conns_
      /\ conn \in Seq({Gone} \union Conns) /\ conns_ \in 0..Len(conn) /\ Len(conn) \in Nat
      /\ UNCHANGED <<peerVars, table, acceptor, pollVars, jobq_, destroyer>>
      /\ worker \in [Workers -> Threads(Len(conn))]
  BY DEF IInv, Ran, TypeInv, Threads
<1>1. worker[t].st \in AtWork
  BY <1>0 DEF AtWork
<1>2. PICK k \in 1..Len(conn) : k = worker[t].k /\ conn[k] # Gone
  BY <1>0, <1>1, There, ThreadType DEF AllThere, IsThere, Open, IsGone
<1>21. k \in 1..Len(conn)
  BY <1>2
<1>3. PICK m \in 1..Len(conn) : m = conns_ /\ conn[m] # Gone
  <2>1. k <= conns_
    BY <1>0, <1>2 DEF IInv, DispatchInv
  <2> QED BY <1>0, <2>1, There DEF AllThere, IsThere, Open, IsGone
<1>4. PICK o : o = IF conn[k].dead_ /\ k # m THEN m ELSE k
  OBVIOUS
<1>5. PICK w : w = [worker[t] EXCEPT !.st = "send", !.k = o]
  OBVIOUS
<1>6. worker' = [worker EXCEPT ![t] = w]
  BY <1>2, <1>3, <1>4, <1>5 DEF Ran
<1>7. /\ w \in Threads(Len(conn)) /\ w.st = "send" /\ w.k = o
      /\ worker'[t] = w /\ \A u \in Workers : u # t => worker'[u] = worker[u]
  <2>1. worker[t] \in [st : AtWork, k : 1..Len(conn), kind : Kinds]
    BY <1>0, <1>1 DEF Threads, AtWork
  <2> QED BY <1>0, <1>2, <1>3, <1>4, <1>5, <1>6, <2>1 DEF Threads, AtWork
<1>8. /\ Steady(worker, worker', t)
      /\ \A j \in 1..Len(conn) : /\ Holds(worker, t, j) <=> j = k
                                 /\ Holds(worker', t, j) <=> j = o
  BY <1>0, <1>2, <1>7 DEF Steady, Holds
<1>9. Held \in [1..Len(conn) -> Nat] /\ \A j \in 1..Len(conn) : Held[j] = Holders(j)
  BY <1>0, HeldType DEF Held
<1>90. conn \in Seq({Gone} \union Conns) /\ Held \in [1..Len(conn) -> Nat] /\ RefOK(conn, Held)
  BY <1>0, <1>9 DEF RefInv
<1>10. \A j \in 1..Len(conn) :
         /\ Holders(j)' \in Nat
         /\ Holders(j)' + (IF j = k THEN 1 ELSE 0) = Held[j] + (IF j = o THEN 1 ELSE 0)
  <2> SUFFICES ASSUME NEW j \in 1..Len(conn)
               PROVE  /\ Holders(j)' \in Nat
                      /\ Holders(j)' + (IF j = k THEN 1 ELSE 0) = Held[j] + (IF j = o THEN 1 ELSE 0)
    OBVIOUS
  <2>1. /\ Holders(j)' \in Nat /\ Holders(j) \in Nat
        /\ Holders(j)' + One(conns_ = j) + One(Holds(worker, t, j))
             = Holders(j) + One(conns_' = j) + One(Holds(worker', t, j))
    BY <1>0, <1>8, HoldersMove
  <2>2. /\ One(Holds(worker, t, j)) = IF j = k THEN 1 ELSE 0
        /\ One(Holds(worker', t, j)) = IF j = o THEN 1 ELSE 0
    BY <1>8 DEF One
  <2>3. One(conns_' = j) = One(conns_ = j) /\ One(conns_ = j) \in Nat
    BY <1>0 DEF One
  <2>4. Held[j] = Holders(j)
    BY <1>9
  <2> QED BY <2>1, <2>2, <2>3, <2>4
<1>11. Shrinks(conn, conn') /\ RefInv'
  <2>1. CASE conn[k].dead_ /\ k # m
    <3> DEFINE f == [Held EXCEPT ![k] = @ - 1]
               g == [f EXCEPT ![m] = @ + 1]
               d == Decref(conn, k)
    <3>1. conn' = Incref(d, m)
      BY <1>2, <1>3, <2>1 DEF Ran
    <3>2. Held[k] > 0
      BY <1>0, <1>1, <1>2, <1>9, Holding
    <3>3. /\ Shrinks(conn, d) /\ f \in [1..Len(conn) -> Nat] /\ RefOK(d, f)
          /\ \A j \in 1..Len(conn) : j # k => d[j] = conn[j]
      <4>1. PICK h : h = Held
        OBVIOUS
      <4>2. /\ conn \in Seq({Gone} \union Conns) /\ h \in [1..Len(conn) -> Nat] /\ RefOK(conn, h)
            /\ k \in 1..Len(conn) /\ h[k] > 0
        BY <1>21, <1>90, <3>2, <4>1
      <4>3. /\ Shrinks(conn, Decref(conn, k)) /\ [h EXCEPT ![k] = @ - 1] \in [1..Len(conn) -> Nat]
            /\ RefOK(Decref(conn, k), [h EXCEPT ![k] = @ - 1])
            /\ \A j \in 1..Len(conn) : j # k => Decref(conn, k)[j] = conn[j]
        BY <4>2, DropHeld, Zenon
      <4> QED BY <4>1, <4>3
    <3>4. d \in Seq({Gone} \union Conns) /\ Len(d) = Len(conn) /\ d[m] # Gone
      BY <1>3, <2>1, <3>3 DEF Shrinks
    <3>5. \A j \in 1..Len(conn) : g[j] = IF j = k THEN Held[j] - 1 ELSE
                                         IF j = m THEN Held[j] + 1 ELSE Held[j]
      BY <1>9, <2>1, <3>3
    <3>6. g \in [1..Len(conn) -> Nat]
      BY <1>3, <3>3
    <3> HIDE DEF d, f
    <3>7. Shrinks(d, conn') /\ RefOK(conn', g)
      BY <3>1, <3>3, <3>4, IncrefOK
    <3> HIDE DEF g
    <3>8. Shrinks(conn, conn') /\ Len(conn') = Len(conn)
      BY <3>3, <3>7, ShrinksTwice DEF Shrinks
    <3>9. Held' = g
      <4>1. o = m
        BY <1>4, <2>1
      <4>2. ASSUME NEW j \in 1..Len(conn) PROVE Holders(j)' = g[j]
        <5>1. /\ Holders(j)' \in Nat /\ Held[j] \in Nat
              /\ Holders(j)' + (IF j = k THEN 1 ELSE 0) = Held[j] + (IF j = m THEN 1 ELSE 0)
          BY <1>9, <1>10, <4>1
        <5> QED BY <2>1, <3>5, <5>1
      <4> QED BY <3>6, <3>8, <4>2 DEF Held
    <3> QED BY <3>7, <3>8, <3>9 DEF RefInv
  <2>2. CASE ~(conn[k].dead_ /\ k # m)
    <3>1. conn' = conn
      BY <1>2, <1>3, <2>2 DEF Ran
    <3>2. o = k
      BY <1>4, <2>2
    <3>3. ASSUME NEW j \in 1..Len(conn) PROVE Holders(j)' = Held[j]
      <4>1. /\ Holders(j)' \in Nat /\ Held[j] \in Nat
            /\ Holders(j)' + (IF j = k THEN 1 ELSE 0) = Held[j] + (IF j = k THEN 1 ELSE 0)
        BY <1>9, <1>10, <3>2
      <4> QED BY <4>1
    <3>4. Held' = Held
      BY <1>9, <3>1, <3>3 DEF Held
    <3> QED BY <1>0, <3>1, <3>4, ShrinksSelf DEF RefInv
  <2> QED BY <2>1, <2>2
<1>12. w.st \notin Writing \union {"asleep", "exited"} /\ worker[t].st \notin Writing \union {"exited"}
  BY <1>0, <1>7 DEF Writing
<1>13. conns_' \in 0..Len(conn) /\ conns_' >= conns_
  BY <1>0
<1> QED BY <1>0, <1>6, <1>7, <1>11, <1>12, <1>13, EarlyStep

-------------------------------------------------------------------------------
(* The writing of replies.                                                 *)

\* The end of dispatch gives the thread's reference back, or leaks it.
LEMMA LeaveRef ==
  ASSUME TypeInv, NEW t \in Workers, worker[t].st \in AtWork,
         NEW c \in Seq({Gone} \union Conns), Len(c) = Len(conn), RefOK(c, Held),
         conn' = Leave(c, worker[t]), Steady(worker, worker', t), worker'[t] = Idle,
         UNCHANGED <<table, acceptor, jobq_, conns_>>
  PROVE  Shrinks(c, conn') /\ RefInv'
<1>1. PICK k \in 1..Len(conn) : k = worker[t].k
  BY ThreadType
<1>2. PICK w : w = worker[t]
  OBVIOUS
<1>3. w.k = k /\ k \in 1..Len(c) /\ conn' = Leave(c, w)
  BY <1>1, <1>2
<1>4. PICK h : h = Held
  OBVIOUS
<1>5. /\ h \in [1..Len(c) -> Nat] /\ RefOK(c, h) /\ h[k] > 0
      /\ \A j \in 1..Len(conn) : h[j] = Holders(j)
  <2>1. h \in [1..Len(c) -> Nat] /\ RefOK(c, h)
    BY <1>4, HeldType
  <2>2. \A j \in 1..Len(conn) : h[j] = Holders(j)
    BY <1>4 DEF Held
  <2>3. Holders(k) > 0
    BY <1>1, Holding
  <2> QED BY <1>1, <2>1, <2>2, <2>3
<1>6. Shrinks(c, Leave(c, w)) /\ RefOK(Leave(c, w), [h EXCEPT ![k] = @ - 1])
  BY <1>3, <1>5, LeaveOK
<1>7. Len(conn') = Len(conn)
  BY <1>3, <1>6 DEF Shrinks
<1>8. Held' = [h EXCEPT ![k] = @ - 1]
  <2>1. ASSUME NEW j \in 1..Len(conn)
        PROVE  Holders(j)' = [h EXCEPT ![k] = @ - 1][j]
    <3>1. /\ Holders(j)' \in Nat /\ Holders(j) \in Nat
          /\ Holders(j)' + One(conns_ = j) + One(Holds(worker, t, j))
               = Holders(j) + One(conns_' = j) + One(Holds(worker', t, j))
      BY HoldersMove
    <3>2. One(Holds(worker, t, j)) = (IF j = k THEN 1 ELSE 0) /\ One(Holds(worker', t, j)) = 0
      BY <1>1 DEF One, Holds, Idle, AtWork
    <3>3. One(conns_' = j) = One(conns_ = j) /\ One(conns_ = j) \in Nat
      BY DEF One
    <3>4. h[j] = Holders(j) /\ [h EXCEPT ![k] = @ - 1][j] = IF j = k THEN h[j] - 1 ELSE h[j]
      BY <1>5
    <3> QED BY <3>1, <3>2, <3>3, <3>4
  <2>2. [h EXCEPT ![k] = @ - 1] = [j \in 1..Len(conn) |-> [h EXCEPT ![k] = @ - 1][j]]
    BY <1>5
  <2> QED BY <1>7, <2>1, <2>2 DEF Held
<1> QED BY <1>3, <1>6, <1>8 DEF RefInv

\* send on a dead connection, and a reply that goes out in one piece.
LEMMA SendOverIInv ==
  ASSUME IInv, NEW t \in Workers, worker[t].st = "send",
         conn' = Leave(conn, worker[t]), worker' = [worker EXCEPT ![t] = Idle],
         UNCHANGED <<callbacks_, rfds_, wfds_, pending_change_>>,
         UNCHANGED <<peerVars, table, acceptor, poll, jobq_, conns_, destroyer>>
  PROVE  IInv'
<1>0. TypeInv /\ RefInv /\ worker \in [Workers -> Threads(Len(conn))]
      /\ conn \in Seq({Gone} \union Conns) /\ conns_ \in Nat /\ conns_ \in 0..Len(conn)
  BY DEF IInv, TypeInv, Threads
<1>1. /\ worker'[t] = Idle /\ \A u \in Workers : u # t => worker'[u] = worker[u]
  BY <1>0
<1>2. Steady(worker, worker', t) /\ worker[t].st \in AtWork
  BY <1>1 DEF Steady, AtWork
<1>3. RefOK(conn, Held)
  BY <1>0 DEF RefInv
<1>4. Shrinks(conn, conn') /\ RefInv'
  BY <1>0, <1>1, <1>2, <1>3, LeaveRef
<1>5. Idle \in Threads(Len(conn)) /\ Idle.st = "idle"
  BY DEF Idle, Threads
<1>6. /\ Idle.st \notin Writing \union {"asleep", "exited"} /\ Idle.st # "run"
      /\ worker[t].st \notin Writing \union {"exited"}
  BY <1>5 DEF Writing
<1>7. UNCHANGED pollVars /\ conns_' >= conns_ /\ conns_' \in 0..Len(conn)
  BY <1>0 DEF pollVars
<1> QED BY <1>4, <1>5, <1>6, <1>7, EarlyStep

\* A step of a sender that moves no reference.
LEMMA SenderRef ==
  ASSUME IInv, NEW t \in Workers, worker[t].st \in AtWork,
         NEW w \in Threads(Len(conn)), w.st \in AtWork, w.st # "run", w.k = worker[t].k,
         worker' = [worker EXCEPT ![t] = w],
         conn' \in Seq({Gone} \union Conns), Len(conn') = Len(conn),
         \A j \in 1..Len(conn) :
           \/ conn'[j] = conn[j]
           \/ /\ conn'[j] # Gone /\ conn[j] # Gone
              /\ conn'[j].refno_ = conn[j].refno_ /\ conn'[j].leaked = conn[j].leaked,
         callbacks_' \in [Fds -> 0..Len(conn)], rfds_' \subseteq Fds, wfds_' \subseteq Fds,
         pending_change_' \in BOOLEAN,
         UNCHANGED <<peerVars, table, acceptor, poll, jobq_, conns_, destroyer>>
  PROVE  /\ TypeInv' /\ RefInv' /\ DispatchInv' /\ PoolInv'
         /\ worker'[t] = w /\ \A u \in Workers : u # t => worker'[u] = worker[u]
<1>0. TypeInv /\ RefInv /\ worker \in [Workers -> Threads(Len(conn))]
  BY DEF IInv, TypeInv, Threads
<1>1. /\ worker'[t] = w /\ \A u \in Workers : u # t => worker'[u] = worker[u]
      /\ worker' \in [Workers -> Threads(Len(conn))]
  BY <1>0
<1>2. TypeInv'
  BY <1>0, <1>1 DEF TypeInv, Threads, peerVars
<1>3. RefInv'
  <2>1. \A u \in Workers :
          /\ worker'[u].st \in {"idle", "exited"} <=> worker[u].st \in {"idle", "exited"}
          /\ worker[u].st \notin {"idle", "exited"} => worker'[u].k = worker[u].k
    BY <1>1 DEF AtWork
  <2>2. Held' = Held
    BY <1>0, <2>1, HeldSame
  <2>3. \A j \in 1..Len(conn) :
           \/ conn'[j] = Gone /\ conn[j] = Gone
           \/ /\ conn'[j] # Gone /\ conn[j] # Gone
              /\ conn'[j].refno_ = conn[j].refno_ /\ conn'[j].leaked = conn[j].leaked
    OBVIOUS
  <2> QED BY <1>0, <2>2, <2>3, RefFrame
<1>4. DispatchInv'
  <2>1. conns_' >= conns_
    BY <1>0 DEF TypeInv
  <2>2. \A u \in Workers : worker'[u].st = "run" => worker[u].st = "run" /\ worker'[u].k = worker[u].k
    BY <1>1
  <2> QED BY <1>0, <1>2, <2>1, <2>2, DispatchFrame DEF IInv
<1>5. PoolInv'
  <2>1. \A u \in Workers : worker'[u].st = "exited" <=> worker[u].st = "exited"
    BY <1>1 DEF AtWork
  <2> QED BY <2>1, PoolFrame DEF IInv
<1> QED BY <1>1, <1>2, <1>3, <1>4, <1>5

\* send waits for wpdu_.
LEMMA SendAsleepIInv ==
  ASSUME IInv, NEW t \in Workers, worker[t].st = "send", conn[worker[t].k].wpdu_ # Nobody,
         worker' = [worker EXCEPT ![t].st = "asleep"],
         UNCHANGED <<conn, callbacks_, rfds_, wfds_, pending_change_>>,
         UNCHANGED <<peerVars, table, acceptor, poll, jobq_, conns_, destroyer>>
  PROVE  IInv'
<1>0. /\ TypeInv /\ worker[t] \in Threads(Len(conn)) /\ worker[t].st \in AtWork
      /\ worker \in [Workers -> Threads(Len(conn))]
  BY ThreadType DEF IInv, AtWork
<1>1. PICK w : w = [worker[t] EXCEPT !.st = "asleep"]
  OBVIOUS
<1>2. w \in Threads(Len(conn)) /\ w.st = "asleep" /\ w.k = worker[t].k
  <2>1. worker[t] \in [st : AtWork, k : 1..Len(conn), kind : Kinds]
    BY <1>0 DEF Threads, AtWork
  <2> QED BY <1>1, <2>1 DEF Threads, AtWork
<1>3. worker' = [worker EXCEPT ![t] = w]
  BY <1>1
<1>4. /\ TypeInv' /\ RefInv' /\ DispatchInv' /\ PoolInv'
      /\ worker'[t] = w /\ \A u \in Workers : u # t => worker'[u] = worker[u]
  <2>1. w.st \in AtWork /\ w.st # "run"
    BY <1>2 DEF AtWork
  <2>2. /\ callbacks_ \in [Fds -> 0..Len(conn)] /\ rfds_ \subseteq Fds /\ wfds_ \subseteq Fds
        /\ pending_change_ \in BOOLEAN /\ conn \in Seq({Gone} \union Conns)
    BY <1>0 DEF TypeInv
  <2> QED BY <1>0, <1>2, <1>3, <2>1, <2>2, SenderRef
<1>5. Still(conn, conn') /\ Onward(conn, conn')
  BY <1>0, ShrinksSelf, ShrinksIsCalm, CalmIsOnward DEF TypeInv
<1>6. Keeps(worker, worker') /\ DestroyerStays
  BY <1>2, <1>4 DEF Keeps, DestroyerStays
<1>7. FdInv' /\ TableInv' /\ WatchInv' /\ PollInv'
  <2>1. TypeInv /\ RefInv /\ FdInv /\ TableInv /\ WatchInv /\ PollInv
    BY DEF IInv
  <2>2. FdInv' /\ TableInv'
    BY <1>4, <1>5, <2>1, FdFrame, TableFrame
  <2>3. WatchInv'
    BY <1>4, <1>5, <1>6, <2>1, WatchFrame
  <2>4. PollInv'
    BY <1>4, <1>5, <1>6, <2>1, PollFrame DEF Keeps, DestroyerStays
  <2> QED BY <2>2, <2>3, <2>4
<1>8. WriterInv'
  <2>1. \A u \in Workers : worker'[u] = worker[u] \/ (u = t /\ worker'[u].st = "asleep" /\ worker'[u].k = worker[u].k)
    BY <1>2, <1>4
  <2>2. \A k \in Open : conn[k].wpdu_ # Nobody => conn[k].wpdu_ \in Workers /\ conn[k].wpdu_ # t
    BY <1>0, There DEF IInv, AllThere, Conns, WriterInv, Writing
  <2>3. Open' = Open
    BY DEF Open, IsGone
  <2>4. WriterInv
    BY DEF IInv
  <2>5. \A u \in Workers : worker'[u].st \in Writing => conn'[worker'[u].k].wpdu_ = u
    BY <2>1, <2>4 DEF WriterInv, Writing
  <2>6. \A k \in Open' : conn'[k].wpdu_ # Nobody =>
          worker'[conn'[k].wpdu_].st \in Writing /\ worker'[conn'[k].wpdu_].k = k
    BY <1>4, <2>2, <2>3, <2>4 DEF WriterInv
  <2>7. \A u \in Workers : worker'[u].st = "asleep" => conn'[worker'[u].k].wpdu_ # Nobody
    BY <2>1, <2>4 DEF WriterInv
  <2>8. \A u \in Workers : worker'[u].st = "partial" =>
          conn'[worker'[u].k].dead_ \/ conn'[worker'[u].k].fd \in wfds_'
    BY <2>1, <2>4 DEF WriterInv
  <2>9. destroyer'.st = "removing" \/ (\E u \in Workers : worker'[u].st = "removing") => pending_change_'
    BY <2>1, <2>4 DEF WriterInv
  <2> QED BY <2>5, <2>6, <2>7, <2>8, <2>9 DEF WriterInv
<1> QED BY <1>4, <1>7, <1>8 DEF IInv

\* A connection is killed by a thread that goes on to wait in block_remove_fd.
LEMMA KillFrame ==
  ASSUME IInv, TypeInv', RefInv',
         NEW k \in Open, ~conn[k].dead_, Len(conn') = Len(conn),
         \A j \in 1..Len(conn) : j # k => conn'[j] = conn[j],
         conn'[k].fd = conn[k].fd, conn'[k].dead_, conn'[k].in = conn[k].in,
         conn[k].eof => conn'[k].eof,
         rfds_' = rfds_ \ {conn[k].fd}, wfds_' = wfds_ \ {conn[k].fd},
         UNCHANGED <<callbacks_, poll>>,
         RemovedIn(k, {"removing"})',
         \A j \in Open : /\ RemovedIn(j, {"removing"}) => RemovedIn(j, {"removing"})'
                         /\ RemovedIn(j, {"removing", "removed"}) => RemovedIn(j, {"removing", "removed"})',
         \A t \in Workers : worker'[t].st \in {"removing", "removed"} => conn'[worker'[t].k].dead_
  PROVE  WatchInv' /\ PollInv' /\ Onward(conn, conn')
<1>0. TypeInv /\ RefInv /\ FdInv /\ WatchInv /\ PollInv
  BY DEF IInv
<1>1. \A j \in 1..Len(conn) : j \in Open <=> conn[j] # Gone
  BY DEF Open, IsGone
<1>2. conn[k] \in Conns /\ conn[k].fd \in Fds /\ k \in 1..Len(conn) /\ conn[k] # Gone
  BY <1>0, There, ConnsNotGone DEF AllThere, Open, IsGone
<1>3. conn'[k] # Gone
  BY <1>2, BoundsAssumption DEF Gone
<1>4. Open' = Open
  BY <1>2, <1>3 DEF Open, IsGone
<1>5. RemovedIn(k, {"removing", "removed"})'
  BY DEF RemovedIn
<1>6. ASSUME NEW fd \in Fds, callbacks_[fd] # 0
      PROVE  /\ conn'[callbacks_[fd]].fd = fd
             /\ conn'[callbacks_[fd]].dead_ => RemovedIn(callbacks_[fd], {"removing", "removed"})'
  <2>0. PICK j \in 1..Len(conn) : j = callbacks_[fd]
    BY <1>0, <1>6 DEF TypeInv
  <2>1. conn[j].fd = fd /\ (conn[j].dead_ => RemovedIn(j, {"removing", "removed"}))
    BY <1>0, <1>6, <2>0 DEF WatchInv
  <2>2. j \in Open
    BY <1>1, <2>1, BoundsAssumption DEF Gone
  <2>3. CASE j = k
    BY <1>5, <2>0, <2>1, <2>3
  <2>4. CASE j # k
    BY <2>0, <2>1, <2>2, <2>4
  <2> QED BY <2>3, <2>4
<1>7. ASSUME NEW fd \in rfds_' \union wfds_'
      PROVE  \E j \in Open' : conn'[j].fd = fd /\ ~conn'[j].dead_
  <2>1. fd # conn[k].fd /\ fd \in rfds_ \union wfds_
    BY <1>7
  <2>2. PICK j \in Open : conn[j].fd = fd /\ ~conn[j].dead_
    BY <1>0, <2>1 DEF WatchInv
  <2>3. j # k /\ j \in 1..Len(conn)
    BY <2>1, <2>2 DEF Open
  <2> QED BY <1>4, <2>2, <2>3
<1>8. ASSUME NEW j \in Open'
      PROVE  conn'[j].dead_ \/ (conn'[j].fd \in rfds_' /\ callbacks_'[conn'[j].fd] = j)
  <2>1. CASE j = k
    BY <2>1
  <2>2. CASE j # k
    <3>1. j \in Open /\ conn'[j] = conn[j] /\ conn[j].fd # conn[k].fd
      BY <1>0, <1>4, <2>2 DEF FdInv, Open
    <3> QED BY <1>0, <3>1 DEF WatchInv
  <2> QED BY <2>1, <2>2
<1>9. WatchInv'
  BY <1>6, <1>7, <1>8 DEF WatchInv
<1>10. ASSUME NEW fd, Attended(fd) PROVE Attended(fd)'
  <2>1. PICK j \in Open : conn[j].fd = fd /\ (conn[j].dead_ => RemovedIn(j, {"removing"}))
    BY <1>10 DEF Attended
  <2>2. j \in Open' /\ conn'[j].fd = fd
    BY <1>4, <2>1 DEF Open
  <2>3. conn'[j].dead_ => RemovedIn(j, {"removing"})'
    <3>1. CASE j = k
      BY <3>1
    <3>2. CASE j # k
      BY <2>1, <3>2 DEF Open
    <3> QED BY <3>1, <3>2
  <2> QED BY <2>2, <2>3 DEF Attended
<1>11. ASSUME NEW fd, Readable(fd) PROVE Readable(fd)'
  <2>1. PICK j \in Open : conn[j].fd = fd /\ (conn[j].in # <<>> \/ conn[j].eof)
    BY <1>11 DEF Readable
  <2>2. j \in Open' /\ conn'[j].fd = fd /\ (conn'[j].in # <<>> \/ conn'[j].eof)
    BY <1>4, <2>1 DEF Open
  <2> QED BY <2>2 DEF Readable
<1>12. PollInv'
  BY <1>0, <1>10, <1>11 DEF PollInv
<1>13. Onward(conn, conn')
  BY <1>2, <1>3 DEF Onward
<1> QED BY <1>9, <1>12, <1>13

\* A thread has written a part of its reply, or failed to.
LEMMA WriterBegin ==
  ASSUME IInv, TypeInv', RefInv', NEW t \in Workers, NEW k \in Open,
         conn[k].wpdu_ = Nobody, Len(conn') = Len(conn),
         \A j \in 1..Len(conn) : j # k => conn'[j] = conn[j],
         conn'[k].fd = conn[k].fd, conn'[k].wpdu_ = t, conn[k].dead_ => conn'[k].dead_,
         worker[t].st = "send", worker'[t].st \in {"partial", "removing"}, worker'[t].k = k,
         \A u \in Workers : u # t => worker'[u] = worker[u],
         worker'[t].st = "partial" => conn[k].fd \in wfds_',
         \A fd \in wfds_ : fd # conn[k].fd => fd \in wfds_',
         worker'[t].st = "removing" \/ pending_change_ => pending_change_',
         destroyer' = destroyer
  PROVE  WriterInv'
<1>0. TypeInv /\ RefInv /\ FdInv /\ WriterInv
  BY DEF IInv
<1>1. conn[k] \in Conns /\ conn[k].fd \in Fds /\ k \in 1..Len(conn) /\ conn[k] # Gone
  BY <1>0, There, ConnsNotGone DEF AllThere, Open, IsGone
<1>2. conn'[k] # Gone /\ Open' = Open
  BY <1>1, BoundsAssumption DEF Gone, Open, IsGone
<1>3. \A u \in Workers : u # t /\ worker[u].st \in AtWork => worker[u].k \in Open
  BY <1>0, There DEF AllThere, IsThere
<1>4. \A u \in Workers : u # t /\ worker[u].st \in Writing => worker[u].k # k
  BY <1>0, BoundsAssumption DEF WriterInv
<1>5. t # Nobody
  BY BoundsAssumption
<1>6. ASSUME NEW u \in Workers, worker'[u].st \in Writing
      PROVE  conn'[worker'[u].k].wpdu_ = u
  <2>1. CASE u = t
    BY <2>1
  <2>2. CASE u # t
    <3>1. worker'[u] = worker[u] /\ worker[u].st \in AtWork
      BY <1>6, <2>2 DEF AtWork, Writing
    <3>2. worker[u].k \in 1..Len(conn) /\ worker[u].k # k
      BY <1>3, <1>4, <1>6, <2>2, <3>1 DEF Open
    <3> QED BY <1>0, <1>6, <3>1, <3>2 DEF WriterInv
  <2> QED BY <2>1, <2>2
<1>7. ASSUME NEW j \in Open', conn'[j].wpdu_ # Nobody
      PROVE  worker'[conn'[j].wpdu_].st \in Writing /\ worker'[conn'[j].wpdu_].k = j
  <2>1. CASE j = k
    BY <2>1 DEF Writing
  <2>2. CASE j # k
    <3>1. j \in Open /\ conn'[j] = conn[j]
      BY <1>2, <2>2 DEF Open
    <3>2. conn[j].wpdu_ \in Workers
      BY <1>0, <1>7, <3>1, There DEF AllThere, Conns
    <3>3. worker[conn[j].wpdu_].st \in Writing /\ worker[conn[j].wpdu_].k = j
      BY <1>0, <1>7, <3>1 DEF WriterInv
    <3>4. conn[j].wpdu_ # t
      BY <3>3 DEF Writing
    <3> QED BY <3>1, <3>2, <3>3, <3>4
  <2> QED BY <2>1, <2>2
<1>8. ASSUME NEW u \in Workers, worker'[u].st = "asleep"
      PROVE  conn'[worker'[u].k].wpdu_ # Nobody
  <2>1. u # t /\ worker'[u] = worker[u] /\ worker[u].k \in Open
    BY <1>3, <1>8 DEF AtWork
  <2>2. conn[worker[u].k].wpdu_ # Nobody /\ worker[u].k # k /\ worker[u].k \in 1..Len(conn)
    BY <1>0, <1>8, <2>1 DEF WriterInv, Open
  <2> QED BY <2>1, <2>2
<1>9. ASSUME NEW u \in Workers, worker'[u].st = "partial"
      PROVE  conn'[worker'[u].k].dead_ \/ conn'[worker'[u].k].fd \in wfds_'
  <2>1. CASE u = t
    BY <1>9, <2>1
  <2>2. CASE u # t
    <3>1. worker'[u] = worker[u] /\ worker[u].st \in AtWork /\ worker[u].st \in Writing
      BY <1>9, <2>2 DEF AtWork, Writing
    <3>2. worker[u].k \in Open /\ worker[u].k \in 1..Len(conn) /\ worker[u].k # k
      BY <1>3, <1>4, <2>2, <3>1 DEF Open
    <3>3. conn[worker[u].k].dead_ \/ conn[worker[u].k].fd \in wfds_
      BY <1>0, <1>9, <3>1 DEF WriterInv
    <3>4. conn[worker[u].k].fd # conn[k].fd
      BY <1>0, <3>2 DEF FdInv
    <3> QED BY <3>1, <3>2, <3>3, <3>4
  <2> QED BY <2>1, <2>2
<1>10. destroyer'.st = "removing" \/ (\E u \in Workers : worker'[u].st = "removing") => pending_change_'
  BY <1>0 DEF WriterInv
<1> QED BY <1>6, <1>7, <1>8, <1>9, <1>10 DEF WriterInv

\* What a send finds: its connection is there.
LEMMA SendFacts ==
  ASSUME IInv, NEW t \in Workers, worker[t].st \in AtWork
  PROVE  /\ worker[t].k \in Open /\ worker[t].k \in 1..Len(conn)
         /\ conn[worker[t].k] \in Conns /\ conn[worker[t].k].fd \in Fds
         /\ worker[t] \in [st : AtWork, k : 1..Len(conn), kind : Kinds]
         /\ worker \in [Workers -> Threads(Len(conn))]
<1>1. TypeInv /\ RefInv
  BY DEF IInv
<1>2. worker[t] \in Threads(Len(conn)) /\ worker \in [Workers -> Threads(Len(conn))]
  BY <1>1, ThreadType
<1>3. worker[t].k \in Open /\ conn[worker[t].k] \in Conns
  BY <1>1, There DEF AllThere, IsThere
<1> QED BY <1>2, <1>3, ConnsNotGone DEF Threads, AtWork, Open

\* The reply goes out in part: the rest is left to the poll thread.
LEMMA SendPartIInv ==
  ASSUME IInv, NEW t \in Workers, worker[t].st = "send", NEW k, k = worker[t].k,
         ~conn[k].dead_, conn[k].wpdu_ = Nobody,
         conn' = [conn EXCEPT ![k].wpdu_ = t], wfds_' = wfds_ \union {conn[k].fd},
         callbacks_' = [callbacks_ EXCEPT ![conn[k].fd] = k],
         worker' = [worker EXCEPT ![t].st = "partial"],
         UNCHANGED <<rfds_, pending_change_>>,
         UNCHANGED <<peerVars, table, acceptor, poll, jobq_, conns_, destroyer>>
  PROVE  IInv'
<1>0. /\ TypeInv /\ RefInv /\ FdInv /\ TableInv /\ WatchInv /\ PollInv
      /\ k \in Open /\ k \in 1..Len(conn) /\ conn[k] \in Conns /\ conn[k].fd \in Fds
      /\ worker[t] \in [st : AtWork, k : 1..Len(conn), kind : Kinds] /\ worker[t].st \in AtWork
      /\ conn \in Seq({Gone} \union Conns)
  BY SendFacts DEF IInv, AtWork, TypeInv
<1>1. PICK r : r = [conn[k] EXCEPT !.wpdu_ = t]
  OBVIOUS
<1>2. PICK w : w = [worker[t] EXCEPT !.st = "partial"]
  OBVIOUS
<1>3. conn' = [conn EXCEPT ![k] = r] /\ worker' = [worker EXCEPT ![t] = w]
  BY <1>1, <1>2
<1>4. /\ r \in Conns /\ r.fd = conn[k].fd /\ r.dead_ = conn[k].dead_ /\ r.wpdu_ = t
      /\ r.in = conn[k].in /\ r.eof = conn[k].eof
      /\ r.refno_ = conn[k].refno_ /\ r.leaked = conn[k].leaked
  BY <1>0, <1>1 DEF Conns
<1>5. r # Gone /\ conn[k] # Gone
  BY <1>0, <1>4, ConnsNotGone
<1>6. /\ conn' \in Seq({Gone} \union Conns) /\ Len(conn') = Len(conn) /\ conn'[k] = r
      /\ \A j \in 1..Len(conn) : j # k => conn'[j] = conn[j]
  BY <1>0, <1>3, <1>4, Update
<1>7. w \in Threads(Len(conn)) /\ w.st = "partial" /\ w.k = k /\ w.st \in AtWork
  BY <1>0, <1>2 DEF Threads, AtWork
<1>8. callbacks_' = callbacks_
  <2>1. callbacks_[conn[k].fd] = k /\ callbacks_ \in [Fds -> 0..Len(conn)]
    BY <1>0 DEF WatchInv, TypeInv
  <2> QED BY <1>0, <2>1
<1>9. /\ TypeInv' /\ RefInv' /\ DispatchInv' /\ PoolInv'
      /\ worker'[t] = w /\ \A u \in Workers : u # t => worker'[u] = worker[u]
  <2>1. /\ callbacks_' \in [Fds -> 0..Len(conn)] /\ rfds_' \subseteq Fds /\ wfds_' \subseteq Fds
        /\ pending_change_' \in BOOLEAN
    BY <1>0, <1>8 DEF TypeInv
  <2>2. \A j \in 1..Len(conn) :
           \/ conn'[j] = conn[j]
           \/ /\ conn'[j] # Gone /\ conn[j] # Gone
              /\ conn'[j].refno_ = conn[j].refno_ /\ conn'[j].leaked = conn[j].leaked
    BY <1>4, <1>5, <1>6
  <2>3. w \in Threads(Len(conn)) /\ w.st \in AtWork /\ w.st # "run" /\ w.k = worker[t].k
    BY <1>7
  <2>4. /\ worker[t].st \in AtWork /\ worker' = [worker EXCEPT ![t] = w]
        /\ conn' \in Seq({Gone} \union Conns) /\ Len(conn') = Len(conn)
    BY <1>0, <1>3, <1>6
  <2> QED BY <2>1, <2>2, <2>3, <2>4, SenderRef
<1>10. Still(conn, conn')
  BY <1>4, <1>5, <1>6 DEF Still
<1>11. Onward(conn, conn')
  BY <1>10, StillIsOnward
<1>12. Keeps(worker, worker') /\ DestroyerStays
  BY <1>7, <1>9 DEF Keeps, DestroyerStays
<1>13. FdInv' /\ TableInv'
  BY <1>0, <1>9, <1>11, FdFrame, TableFrame
<1>14. WatchInv'
  <2>1. \A fd \in wfds_' : fd \in wfds_ \/ \E j \in Open : conn[j].fd = fd /\ ~conn[j].dead_
    BY <1>0
  <2> QED BY <1>0, <1>8, <1>9, <1>10, <1>12, <2>1, WatchFrame
<1>15. PollInv'
  BY <1>0, <1>9, <1>10, <1>12, PollFrame DEF Keeps, DestroyerStays
<1>16. WriterInv'
  <2>1. worker'[t].st = "partial" /\ worker'[t].k = k /\ conn[k].fd \in wfds_'
        /\ \A fd \in wfds_ : fd \in wfds_'
    BY <1>7, <1>9
  <2>2. /\ conn'[k].fd = conn[k].fd /\ conn'[k].wpdu_ = t /\ (conn[k].dead_ => conn'[k].dead_)
        /\ worker'[t].st \in {"partial", "removing"}
        /\ (worker'[t].st = "removing" \/ pending_change_ => pending_change_')
        /\ k \in Open /\ Len(conn') = Len(conn)
        /\ \A j \in 1..Len(conn) : j # k => conn'[j] = conn[j]
    BY <1>0, <1>4, <1>6, <2>1
  <2>3. TypeInv' /\ RefInv' /\ \A u \in Workers : u # t => worker'[u] = worker[u]
    BY <1>9
  <2> QED BY <2>1, <2>2, <2>3, WriterBegin
<1> QED BY <1>9, <1>13, <1>14, <1>15, <1>16 DEF IInv

\* The write fails: the thread kills the connection and waits for the loop.
LEMMA SendFailsIInv ==
  ASSUME IInv, NEW t \in Workers, worker[t].st = "send", NEW k, k = worker[t].k,
         ~conn[k].dead_, conn[k].wpdu_ = Nobody,
         conn' = [conn EXCEPT ![k].wpdu_ = t, ![k].dead_ = TRUE], RemoveBegin(conn[k].fd),
         worker' = [worker EXCEPT ![t].st = RemoveWait],
         UNCHANGED callbacks_,
         UNCHANGED <<peerVars, table, acceptor, poll, jobq_, conns_, destroyer>>
  PROVE  IInv'
<1>0. /\ TypeInv /\ RefInv /\ FdInv /\ TableInv /\ WatchInv /\ PollInv
      /\ k \in Open /\ k \in 1..Len(conn) /\ conn[k] \in Conns /\ conn[k].fd \in Fds
      /\ worker[t] \in [st : AtWork, k : 1..Len(conn), kind : Kinds] /\ worker[t].st \in AtWork
      /\ conn \in Seq({Gone} \union Conns)
  BY SendFacts DEF IInv, AtWork, TypeInv
<1>1. PICK r : r = [conn[k] EXCEPT !.wpdu_ = t, !.dead_ = TRUE]
  OBVIOUS
<1>2. PICK w : w = [worker[t] EXCEPT !.st = "removing"]
  OBVIOUS
<1>3. conn' = [conn EXCEPT ![k] = r] /\ worker' = [worker EXCEPT ![t] = w]
  <2>1. conn' = [conn EXCEPT ![k] = r]
    BY <1>0, <1>1
  <2> QED BY <1>2, <2>1 DEF RemoveWait
<1>4. /\ r \in Conns /\ r.fd = conn[k].fd /\ r.dead_ /\ r.wpdu_ = t
      /\ r.in = conn[k].in /\ r.eof = conn[k].eof
      /\ r.refno_ = conn[k].refno_ /\ r.leaked = conn[k].leaked
  BY <1>0, <1>1 DEF Conns
<1>5. r # Gone /\ conn[k] # Gone
  BY <1>0, <1>4, ConnsNotGone
<1>6. /\ conn' \in Seq({Gone} \union Conns) /\ Len(conn') = Len(conn) /\ conn'[k] = r
      /\ \A j \in 1..Len(conn) : j # k => conn'[j] = conn[j]
  <2>1. r \in {Gone} \union Conns /\ k \in 1..Len(conn) /\ conn \in Seq({Gone} \union Conns)
    BY <1>0, <1>4
  <2>2. /\ [conn EXCEPT ![k] = r] \in Seq({Gone} \union Conns) /\ Len([conn EXCEPT ![k] = r]) = Len(conn)
        /\ [conn EXCEPT ![k] = r][k] = r
        /\ \A j \in 1..Len(conn) : j # k => [conn EXCEPT ![k] = r][j] = conn[j]
    BY <2>1, Update
  <2>3. conn' = [conn EXCEPT ![k] = r]
    BY <1>3
  <2> QED BY <2>2, <2>3, Zenon
<1>7. w \in Threads(Len(conn)) /\ w.st = "removing" /\ w.k = k /\ w.st \in AtWork
  BY <1>0, <1>2 DEF Threads, AtWork
<1>8. rfds_' = rfds_ \ {conn[k].fd} /\ wfds_' = wfds_ \ {conn[k].fd} /\ pending_change_' = TRUE
  BY DEF RemoveBegin
<1>9. /\ TypeInv' /\ RefInv' /\ DispatchInv' /\ PoolInv'
      /\ worker'[t] = w /\ \A u \in Workers : u # t => worker'[u] = worker[u]
  <2>1. /\ callbacks_' \in [Fds -> 0..Len(conn)] /\ rfds_' \subseteq Fds /\ wfds_' \subseteq Fds
        /\ pending_change_' \in BOOLEAN
    BY <1>0, <1>8 DEF TypeInv
  <2>2. \A j \in 1..Len(conn) :
           \/ conn'[j] = conn[j]
           \/ /\ conn'[j] # Gone /\ conn[j] # Gone
              /\ conn'[j].refno_ = conn[j].refno_ /\ conn'[j].leaked = conn[j].leaked
    BY <1>4, <1>5, <1>6
  <2>3. w \in Threads(Len(conn)) /\ w.st \in AtWork /\ w.st # "run" /\ w.k = worker[t].k
    BY <1>7
  <2>4. /\ worker[t].st \in AtWork /\ worker' = [worker EXCEPT ![t] = w]
        /\ conn' \in Seq({Gone} \union Conns) /\ Len(conn') = Len(conn)
    BY <1>0, <1>3, <1>6
  <2> QED BY <2>1, <2>2, <2>3, <2>4, SenderRef
<1>10. RemovedIn(k, {"removing"})'
  BY <1>7, <1>9 DEF RemovedIn
<1>11. \A j, S : RemovedIn(j, S) /\ S \subseteq {"removing", "removed"} => RemovedIn(j, S)'
  BY <1>9 DEF RemovedIn
<1>12. \A u \in Workers : worker'[u].st \in {"removing", "removed"} => conn'[worker'[u].k].dead_
  <2> SUFFICES ASSUME NEW u \in Workers, worker'[u].st \in {"removing", "removed"}
               PROVE  conn'[worker'[u].k].dead_
    OBVIOUS
  <2>1. CASE u = t
    <3>1. worker'[u].k = k
      BY <1>7, <1>9, <2>1
    <3>2. conn'[k].dead_
      BY <1>4, <1>6
    <3> QED BY <3>1, <3>2
  <2>2. CASE u # t
    <3>1. worker'[u] = worker[u] /\ conn[worker[u].k].dead_ /\ worker[u].st \in AtWork
      BY <1>0, <1>9, <2>2 DEF WatchInv, AtWork
    <3>2. worker[u].k \in 1..Len(conn)
      BY <3>1, SendFacts
    <3> QED BY <1>6, <3>1, <3>2
  <2> QED BY <2>1, <2>2
<1>13. WatchInv' /\ PollInv' /\ Onward(conn, conn')
  <2>1. \A j \in Open :
          /\ RemovedIn(j, {"removing"}) => RemovedIn(j, {"removing"})'
          /\ RemovedIn(j, {"removing", "removed"}) => RemovedIn(j, {"removing", "removed"})'
    BY <1>11
  <2>2. /\ k \in Open /\ Len(conn') = Len(conn)
        /\ \A j \in 1..Len(conn) : j # k => conn'[j] = conn[j]
        /\ conn'[k].fd = conn[k].fd /\ conn'[k].dead_ /\ conn'[k].in = conn[k].in
        /\ conn[k].eof => conn'[k].eof
    BY <1>0, <1>4, <1>6
  <2>3. TypeInv' /\ RefInv'
    BY <1>9
  <2> QED BY <1>8, <1>10, <1>12, <2>1, <2>2, <2>3, KillFrame
<1>14. FdInv' /\ TableInv'
  BY <1>0, <1>9, <1>13, FdFrame, TableFrame
<1>15. WriterInv'
  <2>1. /\ worker'[t].st = "removing" /\ worker'[t].k = k /\ pending_change_'
        /\ \A fd \in wfds_ : fd # conn[k].fd => fd \in wfds_'
    BY <1>7, <1>8, <1>9
  <2>2. /\ conn'[k].fd = conn[k].fd /\ conn'[k].wpdu_ = t /\ (conn[k].dead_ => conn'[k].dead_)
        /\ worker'[t].st \in {"partial", "removing"}
        /\ k \in Open /\ Len(conn') = Len(conn)
        /\ \A j \in 1..Len(conn) : j # k => conn'[j] = conn[j]
    BY <1>0, <1>4, <1>6, <2>1
  <2>3. TypeInv' /\ RefInv' /\ \A u \in Workers : u # t => worker'[u] = worker[u]
    BY <1>9
  <2> QED BY <2>1, <2>2, <2>3, WriterBegin
<1> QED BY <1>9, <1>13, <1>14, <1>15 DEF IInv

LEMMA SendIInv ==
  ASSUME IInv, NEW t \in Workers, NEW o \in {"none", "whole", "part", "fails"}, Send(t, o)
  PROVE  IInv'
<1>0. /\ worker[t].st = "send"
      /\ UNCHANGED <<peerVars, table, acceptor, poll, jobq_, conns_, destroyer>>
  BY DEF Send
<1>1. PICK k : k = worker[t].k
  OBVIOUS
<1>2. CASE conn' = Leave(conn, worker[t])
           /\ worker' = [worker EXCEPT ![t] = Idle]
           /\ UNCHANGED <<callbacks_, rfds_, wfds_, pending_change_>>
  BY <1>0, <1>2, SendOverIInv
<1>3. CASE conn[worker[t].k].wpdu_ # Nobody
           /\ worker' = [worker EXCEPT ![t].st = "asleep"]
           /\ UNCHANGED <<conn, callbacks_, rfds_, wfds_, pending_change_>>
  BY <1>0, <1>3, SendAsleepIInv
<1>4. CASE ~conn[k].dead_ /\ conn[k].wpdu_ = Nobody
           /\ conn' = [conn EXCEPT ![k].wpdu_ = t] /\ wfds_' = wfds_ \union {conn[k].fd}
           /\ callbacks_' = [callbacks_ EXCEPT ![conn[k].fd] = k]
           /\ worker' = [worker EXCEPT ![t].st = "partial"]
           /\ UNCHANGED <<rfds_, pending_change_>>
  BY <1>0, <1>1, <1>4, SendPartIInv
<1>5. CASE ~conn[k].dead_ /\ conn[k].wpdu_ = Nobody
           /\ conn' = [conn EXCEPT ![k].wpdu_ = t, ![k].dead_ = TRUE] /\ RemoveBegin(conn[k].fd)
           /\ worker' = [worker EXCEPT ![t].st = RemoveWait]
           /\ UNCHANGED callbacks_
  BY <1>0, <1>1, <1>5, SendFailsIInv
<1> QED BY <1>1, <1>2, <1>3, <1>4, <1>5 DEF Send

\* The end of a send that waited.
LEMMA ResumedIInv ==
  ASSUME IInv, NEW t \in Workers, Resumed(t)
  PROVE  IInv'
<1>0. /\ TypeInv /\ RefInv /\ FdInv /\ TableInv /\ WatchInv /\ PollInv /\ WriterInv
      /\ worker[t].st \in {"removed", "resumed"} /\ worker[t].st \in AtWork /\ worker[t].st \in Writing
      /\ conn \in Seq({Gone} \union Conns)
      /\ UNCHANGED <<peerVars, table, acceptor, rfds_, wfds_, pending_change_, poll, jobq_, conns_,
                     destroyer>>
  BY DEF IInv, TypeInv, Resumed, AtWork, Writing
<1>1. PICK k : k = worker[t].k
  OBVIOUS
<1>2. /\ k \in Open /\ k \in 1..Len(conn) /\ conn[k] \in Conns /\ conn[k].fd \in Fds
      /\ worker \in [Workers -> Threads(Len(conn))]
  BY <1>0, <1>1, SendFacts
<1>3. PICK r : r = [conn[k] EXCEPT !.wpdu_ = Nobody]
  OBVIOUS
<1>4. PICK c : c = [conn EXCEPT ![k] = r]
  OBVIOUS
<1>5. conn' = Leave(c, worker[t])
  BY <1>1, <1>3, <1>4 DEF Resumed
<1>6. /\ r \in Conns /\ r.fd = conn[k].fd /\ r.dead_ = conn[k].dead_ /\ r.wpdu_ = Nobody
      /\ r.in = conn[k].in /\ r.eof = conn[k].eof
      /\ r.refno_ = conn[k].refno_ /\ r.leaked = conn[k].leaked
  BY <1>2, <1>3 DEF Conns
<1>7. r # Gone /\ conn[k] # Gone
  BY <1>2, <1>6, ConnsNotGone
<1>8. /\ c \in Seq({Gone} \union Conns) /\ Len(c) = Len(conn) /\ c[k] = r
      /\ \A j \in 1..Len(conn) : j # k => c[j] = conn[j]
  BY <1>0, <1>2, <1>4, <1>6, Update
<1>9. /\ worker'[t] = Idle
      /\ \A u \in Workers : u # t =>
           \/ worker'[u] = worker[u] /\ (worker[u].st = "asleep" => worker[u].k # k)
           \/ /\ worker[u].st = "asleep" /\ worker[u].k = k
              /\ worker'[u] = [worker[u] EXCEPT !.st = "send"]
  BY <1>1 DEF Resumed
<1>10. \A u \in Workers : u # t =>
         \/ worker'[u] = worker[u] /\ (worker[u].st = "asleep" => worker[u].k # k)
         \/ /\ worker[u].st = "asleep" /\ worker[u].k = k
            /\ worker'[u].st = "send" /\ worker'[u].k = k /\ worker'[u] \in Threads(Len(conn))
  <2> SUFFICES ASSUME NEW u \in Workers, u # t, worker[u].st = "asleep", worker[u].k = k,
                      worker'[u] = [worker[u] EXCEPT !.st = "send"]
               PROVE  worker'[u].st = "send" /\ worker'[u].k = k /\ worker'[u] \in Threads(Len(conn))
    BY <1>9
  <2>1. worker[u] \in [st : AtWork, k : 1..Len(conn), kind : Kinds]
    BY SendFacts DEF AtWork
  <2> QED BY <2>1 DEF Threads, AtWork
<1>11. worker' \in [Workers -> Threads(Len(conn))]
  <2>1. \A u \in Workers : worker'[u] \in Threads(Len(conn))
    BY <1>2, <1>9, <1>10 DEF Threads, Idle
  <2>2. worker' = [u \in Workers |-> worker'[u]]
    BY DEF Resumed
  <2> QED BY <2>1, <2>2
<1>12. Steady(worker, worker', t)
  BY <1>10 DEF Steady
<1>13. RefOK(c, Held)
  <2>1. RefOK(conn, Held)
    BY <1>0 DEF RefInv
  <2>2. \A j \in 1..Len(conn) : \/ c[j] = Gone /\ conn[j] = Gone
                                \/ /\ c[j] # Gone /\ conn[j] # Gone
                                   /\ c[j].refno_ = conn[j].refno_ /\ c[j].leaked = conn[j].leaked
    BY <1>6, <1>7, <1>8
  <2> QED BY <1>8, <2>1, <2>2, RefSame
<1>14. Shrinks(c, conn') /\ RefInv'
  <2>1. UNCHANGED <<table, acceptor, jobq_, conns_>> /\ c \in Seq({Gone} \union Conns) /\ Len(c) = Len(conn)
    BY <1>0, <1>8
  <2> QED BY <1>0, <1>5, <1>9, <1>12, <1>13, <2>1, LeaveRef
<1>15. Still(conn, conn')
  BY <1>6, <1>7, <1>8, <1>14 DEF Still, Shrinks, SameFace
<1>16. Onward(conn, conn')
  BY <1>15, StillIsOnward
<1>17. TypeInv'
  <2>1. conn' \in Seq({Gone} \union Conns) /\ Len(conn') = Len(conn)
    BY <1>8, <1>14 DEF Shrinks
  <2>2. callbacks_' \in [Fds -> 0..Len(conn)]
    <3>1. callbacks_' = callbacks_ \/ callbacks_' = [callbacks_ EXCEPT ![conn[k].fd] = 0]
      BY <1>1 DEF Resumed, RemoveEnd
    <3>2. callbacks_ \in [Fds -> 0..Len(conn)] /\ Len(conn) \in Nat /\ 0 \in 0..Len(conn)
      BY <1>0 DEF TypeInv
    <3> QED BY <1>2, <3>1, <3>2
  <2> QED BY <1>0, <1>11, <2>1, <2>2 DEF TypeInv, Threads, peerVars
<1>18. FdInv' /\ TableInv'
  BY <1>0, <1>14, <1>16, <1>17, FdFrame, TableFrame
<1>19. \A u \in Workers : worker[u].st \in Writing /\ u # t => worker'[u] = worker[u] /\ worker[u].k # k
  <2>1. conn[k].wpdu_ = t
    BY <1>0, <1>1 DEF WriterInv
  <2> QED BY <1>0, <1>10, <2>1 DEF WriterInv, Writing
<1>20. PollInv'
  <2>1. \A u \in Workers : worker[u].st = "removing" => worker'[u] = worker[u]
    BY <1>0, <1>19 DEF Writing
  <2> QED BY <1>0, <1>14, <1>15, <1>17, <2>1, PollFrame
<1>21. WatchInv'
  <2>1. CASE worker[t].st = "resumed"
    <3>1. Keeps(worker, worker') /\ DestroyerStays /\ UNCHANGED callbacks_
      BY <1>0, <1>9, <1>10, <2>1 DEF Keeps, DestroyerStays, Resumed, Idle
    <3> QED BY <1>0, <1>14, <1>15, <1>17, <3>1, WatchFrame
  <2>2. CASE worker[t].st = "removed"
    <3>0. AllThere'
      BY <1>14, <1>17, ThereNext
    <3>1. callbacks_' = [callbacks_ EXCEPT ![conn[k].fd] = 0] /\ callbacks_ \in [Fds -> 0..Len(conn)]
      BY <1>0, <1>1, <2>2 DEF Resumed, RemoveEnd, TypeInv
    <3>2. conn[k].dead_
      BY <1>0, <1>1, <2>2 DEF WatchInv
    <3>3. \A j \in Open' : j \in Open /\ conn'[j].fd = conn[j].fd /\ conn'[j].dead_ = conn[j].dead_
      BY <1>15 DEF Still, Open, IsGone
    <3>4. \A j \in Open : j \in Open' \/ conn[j].dead_
      BY <1>15 DEF Still, Open, IsGone
    <3>5. ASSUME NEW fd \in Fds, callbacks_'[fd] # 0
          PROVE  /\ conn'[callbacks_'[fd]].fd = fd
                 /\ conn'[callbacks_'[fd]].dead_ => RemovedIn(callbacks_[fd], {"removing", "removed"})'
      <4>1. fd # conn[k].fd /\ callbacks_'[fd] = callbacks_[fd] /\ callbacks_[fd] # 0
        BY <1>2, <3>1, <3>5
      <4>2. PICK j \in 1..Len(conn) : j = callbacks_[fd]
        BY <3>1, <4>1
      <4>3. conn[j].fd = fd /\ (conn[j].dead_ => RemovedIn(j, {"removing", "removed"}))
        BY <1>0, <4>1, <4>2 DEF WatchInv
      <4>4. j \in Open /\ j # k
        BY <4>1, <4>3, BoundsAssumption DEF Open, IsGone, Gone
      <4>5. CASE conn[j].dead_
        <5>1. \A u \in Workers : worker[u].st \in {"removing", "removed"} /\ worker[u].k = j =>
                worker'[u] = worker[u]
          BY <1>1, <1>19, <4>4 DEF Writing
        <5>2. RemovedIn(j, {"removing", "removed"})
          BY <4>3, <4>5
        <5>3. RemovedIn(j, {"removing", "removed"})' /\ j \in Open'
          BY <1>0, <1>14, <1>17, <5>1, <5>2, RemovedStays
        <5>4. RemovedIn(callbacks_[fd], {"removing", "removed"})'
          BY <4>1, <4>2, <5>3 DEF RemovedIn
        <5> QED BY <3>3, <4>1, <4>2, <4>3, <5>3, <5>4
      <4>6. CASE ~conn[j].dead_
        BY <3>3, <3>4, <4>1, <4>2, <4>3, <4>4, <4>6
      <4> QED BY <4>5, <4>6
    <3>6. ASSUME NEW u \in Workers, worker'[u].st \in {"removing", "removed"}
          PROVE  conn'[worker'[u].k].dead_
      <4>1. u # t /\ worker'[u] = worker[u]
        BY <1>9, <1>10, <3>6 DEF Idle
      <4>2. conn[worker[u].k].dead_
        BY <1>0, <3>6, <4>1 DEF WatchInv
      <4>3. worker'[u].k \in Open'
        BY <3>0, <3>6 DEF AllThere, IsThere, AtWork
      <4> QED BY <3>3, <4>1, <4>2, <4>3
    <3>7. \A fd \in rfds_' \union wfds_' : \E j \in Open' : conn'[j].fd = fd /\ ~conn'[j].dead_
      BY <1>0, <3>3, <3>4 DEF WatchInv
    <3>8. ASSUME NEW j \in Open'
          PROVE  conn'[j].dead_ \/ (conn'[j].fd \in rfds_' /\ callbacks_'[conn'[j].fd] = j)
      <4>1. CASE conn[j].dead_
        BY <3>3, <4>1
      <4>2. CASE ~conn[j].dead_
        <5>1. j \in Open /\ j # k /\ conn[j].fd \in rfds_ /\ callbacks_[conn[j].fd] = j
          BY <1>0, <3>2, <3>3, <4>2 DEF WatchInv
        <5>2. conn[j].fd # conn[k].fd /\ conn[j].fd \in Fds
          BY <1>0, <1>2, <5>1 DEF FdInv, TypeInv
        <5> QED BY <1>0, <3>1, <3>3, <5>1, <5>2
      <4> QED BY <4>1, <4>2
    <3> QED BY <3>5, <3>6, <3>7, <3>8 DEF WatchInv
  <2> QED BY <1>0, <2>1, <2>2
<1>22. WriterInv'
  <2>0. AllThere'
    BY <1>14, <1>17, ThereNext
  <2>1. \A j \in Open' : /\ j \in Open /\ conn'[j].fd = conn[j].fd /\ conn'[j].dead_ = conn[j].dead_
                         /\ conn'[j].wpdu_ = IF j = k THEN Nobody ELSE conn[j].wpdu_
    BY <1>6, <1>8, <1>14, <1>15 DEF Still, Open, IsGone, Shrinks, SameFace
  <2>2. \A u \in Workers : worker'[u].st \in Writing \union {"asleep"} =>
          /\ u # t /\ worker'[u] = worker[u] /\ worker[u].k # k /\ worker[u].k \in Open'
    <3> SUFFICES ASSUME NEW u \in Workers, worker'[u].st \in Writing \union {"asleep"}
                 PROVE  u # t /\ worker'[u] = worker[u] /\ worker[u].k # k /\ worker[u].k \in Open'
      OBVIOUS
    <3>1. u # t
      BY <1>9 DEF Idle, Writing
    <3>2. worker'[u] = worker[u] /\ worker[u].k # k
      BY <1>10, <1>19, <3>1 DEF Writing
    <3>3. worker'[u].st \in AtWork
      BY DEF Writing, AtWork
    <3> QED BY <2>0, <3>1, <3>2, <3>3 DEF AllThere, IsThere
  <2>3. \A u \in Workers : worker'[u].st \in Writing => conn'[worker'[u].k].wpdu_ = u
    BY <1>0, <2>1, <2>2 DEF WriterInv
  <2>4. \A j \in Open' : conn'[j].wpdu_ # Nobody =>
          worker'[conn'[j].wpdu_].st \in Writing /\ worker'[conn'[j].wpdu_].k = j
    <3> SUFFICES ASSUME NEW j \in Open', conn'[j].wpdu_ # Nobody
                 PROVE  worker'[conn'[j].wpdu_].st \in Writing /\ worker'[conn'[j].wpdu_].k = j
      OBVIOUS
    <3>1. j # k /\ j \in Open /\ conn'[j].wpdu_ = conn[j].wpdu_
      BY <2>1
    <3>2. worker[conn[j].wpdu_].st \in Writing /\ worker[conn[j].wpdu_].k = j
      BY <1>0, <3>1 DEF WriterInv
    <3>3. conn[j].wpdu_ \in Workers
      BY <2>0, <3>1 DEF AllThere, Conns
    <3>4. conn[j].wpdu_ # t
      BY <1>1, <3>1, <3>2
    <3>5. worker'[conn[j].wpdu_] = worker[conn[j].wpdu_]
      BY <1>19, <3>2, <3>3, <3>4
    <3> QED BY <3>1, <3>2, <3>5
  <2>5. \A u \in Workers : worker'[u].st = "asleep" => conn'[worker'[u].k].wpdu_ # Nobody
    BY <1>0, <2>1, <2>2 DEF WriterInv
  <2>6. \A u \in Workers : worker'[u].st = "partial" =>
          conn'[worker'[u].k].dead_ \/ conn'[worker'[u].k].fd \in wfds_'
    BY <1>0, <2>1, <2>2 DEF WriterInv, Writing
  <2>7. destroyer'.st = "removing" \/ (\E u \in Workers : worker'[u].st = "removing") => pending_change_'
    BY <1>0, <2>2 DEF WriterInv, Writing
  <2> QED BY <2>3, <2>4, <2>5, <2>6, <2>7 DEF WriterInv
<1>23. DispatchInv'
  <2>1. conns_' >= conns_
    BY <1>0 DEF TypeInv
  <2>2. \A u \in Workers : worker'[u].st = "run" => worker[u].st = "run" /\ worker'[u].k = worker[u].k
    BY <1>9, <1>10 DEF Idle
  <2> QED BY <1>0, <1>17, <2>1, <2>2, DispatchFrame DEF IInv
<1>24. PoolInv'
  <2>1. \A u \in Workers : worker'[u].st = "exited" <=> worker[u].st = "exited"
    BY <1>0, <1>9, <1>10 DEF Idle
  <2> QED BY <1>0, <2>1, PoolFrame DEF IInv
<1> QED BY <1>14, <1>17, <1>18, <1>20, <1>21, <1>22, <1>23, <1>24 DEF IInv

-------------------------------------------------------------------------------
(* The accepting thread.                                                   *)

\* Its steps that accept nothing come before the pool ends.
LEMMA AcceptorFrame ==
  ASSUME IInv, TypeInv', RefInv', acceptor.st # "exited", Calm(conn, conn'),
         UNCHANGED <<pollVars, jobq_, worker, conns_, destroyer>>
  PROVE  FdInv' /\ DispatchInv' /\ WatchInv' /\ PollInv' /\ WriterInv' /\ PoolInv'
<1>0. TypeInv /\ FdInv /\ TableInv /\ DispatchInv /\ WatchInv /\ PollInv /\ WriterInv /\ PoolInv
  BY DEF IInv
<1>1. destroyer.st \in {"up", "join"}
  BY <1>0 DEF TableInv
<1>2. Onward(conn, conn') /\ Still(conn, conn') /\ Keeps(worker, worker') /\ DestroyerStays
      /\ Early(worker, worker')
  BY <1>1, CalmIsOnward DEF DestroyerStays, Keeps, Early
<1>3. UNCHANGED <<callbacks_, rfds_, wfds_, pending_change_, poll>>
  BY DEF pollVars
<1>4. FdInv'
  BY <1>0, <1>2, FdFrame
<1>5. WatchInv'
  BY <1>0, <1>2, <1>3, WatchFrame
<1>6. PollInv'
  BY <1>0, <1>1, <1>2, <1>3, PollFrame
<1>7. WriterInv'
  BY <1>0, <1>2, <1>3, WriterFrame
<1>8. DispatchInv'
  <2>1. conns_' >= conns_
    BY <1>0 DEF TypeInv
  <2> QED BY <1>0, <2>1, DispatchFrame
<1>9. PoolInv'
  <2>1. Pills = {} /\ Exited = {} /\ ~Closing
    BY <1>0, <1>1 DEF PoolInv, Closing
  <2>2. Pills' = {} /\ Exited' = {} /\ ~Closing' /\ destroyer'.st # "down"
    BY <1>1, <2>1 DEF Pills, Exited, Closing
  <2> QED BY <2>2 DEF PoolInv
<1> QED BY <1>4, <1>5, <1>6, <1>7, <1>8, <1>9

\* The thread only moves on.
LEMMA AcceptorMoves ==
  ASSUME IInv, acceptor.st # "exited", TableInv',
         acceptor' \in [st : {"select", "exited"}] \union
                       [st : {"check", "collect"}, new : 1..Len(conn), todo : SUBSET Fds],
         \A k \in 1..Len(conn) : InAccept(acceptor', k) = InAccept(acceptor, k),
         UNCHANGED <<peerVars, conn, table, pollVars, jobq_, worker, conns_, destroyer>>
  PROVE  IInv'
<1>0. TypeInv /\ RefInv
  BY DEF IInv
<1>1. TypeInv'
  BY <1>0 DEF TypeInv, peerVars, pollVars
<1>2. Held' = Held
  <2>1. \A k \in 1..Len(conn) : Holders(k)' = Holders(k)
    BY HoldersAre, HoldersAreNext
  <2> QED BY <2>1 DEF Held
<1>3. RefInv'
  BY <1>0, <1>2 DEF RefInv
<1>4. Calm(conn, conn')
  BY <1>0, ShrinksSelf, ShrinksIsCalm DEF TypeInv
<1> QED BY <1>1, <1>3, <1>4, AcceptorFrame DEF IInv

LEMMA AcceptorStopsIInv ==
  ASSUME IInv, acceptor.st = "select", acceptor' = [st |-> "exited"],
         UNCHANGED <<peerVars, conn, table, pollVars, jobq_, worker, conns_, destroyer>>
  PROVE  IInv'
<1>1. TableInv' /\ acceptor.st # "exited"
  <2>1. TableInv
    BY DEF IInv
  <2>2. ~Accepting /\ ~Accepting' /\ Closing' = Closing /\ Open' = Open
    BY DEF Accepting, Closing, Open, IsGone
  <2> QED BY <2>1, <2>2 DEF TableInv
<1>2. acceptor' \in [st : {"select", "exited"}]
  OBVIOUS
<1>3. \A k \in 1..Len(conn) : InAccept(acceptor', k) = InAccept(acceptor, k)
  BY DEF InAccept, One
<1> QED BY <1>1, <1>2, <1>3, AcceptorMoves

LEMMA GcCheckIInv == ASSUME IInv, GcCheck PROVE IInv'
<1>0. TypeInv /\ TableInv /\ acceptor.st = "check" /\ acceptor.todo # {} /\ Accepting
      /\ UNCHANGED <<peerVars, conn, table, pollVars, jobq_, worker, conns_, destroyer>>
  BY DEF IInv, GcCheck, Accepting
<1>1. acceptor \in [st : {"check", "collect"}, new : 1..Len(conn), todo : SUBSET Fds]
  BY <1>0 DEF TypeInv
<1>2. PICK fd : fd = Least(acceptor.todo)
  OBVIOUS
<1>3. fd \in acceptor.todo /\ fd \in Fds /\ table[fd] # 0
  BY <1>0, <1>1, <1>2, LeastIn DEF TableInv
<1>4. \/ acceptor' = [acceptor EXCEPT !.st = "collect"] /\ conn[table[fd]].dead_
      \/ acceptor' = [acceptor EXCEPT !.todo = @ \ {fd}]
  BY <1>2 DEF GcCheck, IsGarbage
<1>5. /\ acceptor' \in [st : {"check", "collect"}, new : 1..Len(conn), todo : SUBSET Fds]
      /\ acceptor'.new = acceptor.new /\ acceptor'.todo \subseteq acceptor.todo
      /\ acceptor'.st = "collect" => acceptor'.todo = acceptor.todo /\ conn[table[fd]].dead_
  BY <1>0, <1>1, <1>4
<1>6. TableInv'
  <2>1. Accepting' /\ Closing' = Closing /\ Open' = Open
    BY <1>0, <1>5 DEF Accepting, Closing, Open, IsGone
  <2>2. acceptor'.st = "collect" =>
          acceptor'.todo # {} /\ conn'[table'[Least(acceptor'.todo)]].dead_
    BY <1>0, <1>2, <1>5
  <2>3. destroyer.st \in {"up", "join"} /\ ~Closing
    BY <1>0 DEF TableInv, Closing
  <2>4. \A f \in acceptor'.todo : table'[f] # 0
    BY <1>0, <1>5 DEF TableInv
  <2> QED BY <1>0, <1>5, <2>1, <2>2, <2>3, <2>4 DEF TableInv
<1>7. \A k \in 1..Len(conn) : InAccept(acceptor', k) = InAccept(acceptor, k)
  BY <1>0, <1>5 DEF InAccept, One
<1> QED BY <1>0, <1>5, <1>6, <1>7, AcceptorMoves

\* The table's reference to a dead connection is given back.
LEMMA DropRef ==
  ASSUME TypeInv, RefInv, TableInv, NEW fd \in Fds, table[fd] # 0,
         conn' = Decref(conn, table[fd]), table' = [table EXCEPT ![fd] = 0],
         \A j \in 1..Len(conn) : InAccept(acceptor', j) = InAccept(acceptor, j),
         UNCHANGED <<jobq_, worker, conns_>>
  PROVE  /\ Shrinks(conn, conn') /\ RefInv'
         /\ table' \in [Fds -> 0..Len(conn)] /\ table'[fd] = 0
         /\ \A f \in Fds : f # fd => table'[f] = table[f]
<1>0. table \in [Fds -> 0..Len(conn)] /\ conn \in Seq({Gone} \union Conns) /\ Len(conn) \in Nat
  BY DEF TypeInv
<1>1. PICK k \in 1..Len(conn) : k = table[fd]
  BY <1>0
<1>2. PICK h : h = Held
  OBVIOUS
<1>3. /\ h \in [1..Len(conn) -> Nat] /\ RefOK(conn, h) /\ h[k] > 0
      /\ \A j \in 1..Len(conn) : h[j] = Holders(j)
  <2>1. h \in [1..Len(conn) -> Nat] /\ RefOK(conn, h)
    BY <1>2, HeldType DEF RefInv
  <2>2. \A j \in 1..Len(conn) : h[j] = Holders(j)
    BY <1>2 DEF Held
  <2>3. Holders(k) > 0
    BY <1>1, Holding
  <2> QED BY <1>1, <2>1, <2>2, <2>3
<1>4. conn' = Decref(conn, k)
  BY <1>1
<1>5. Shrinks(conn, Decref(conn, k)) /\ RefOK(Decref(conn, k), [h EXCEPT ![k] = @ - 1])
  BY <1>0, <1>3, DecrefOK
<1>6. Shrinks(conn, conn') /\ RefOK(conn', [h EXCEPT ![k] = @ - 1]) /\ Len(conn') = Len(conn)
  BY <1>4, <1>5 DEF Shrinks
<1>9. table' \in [Fds -> 0..Len(conn)] /\ table'[fd] = 0 /\ \A f \in Fds : f # fd => table'[f] = table[f]
  BY <1>0
<1>7. Held' = [h EXCEPT ![k] = @ - 1]
  <2>1. ASSUME NEW j \in 1..Len(conn)
        PROVE  Holders(j)' = [h EXCEPT ![k] = @ - 1][j]
    <3>1. InTable(table', j) + (IF table[fd] = j THEN 1 ELSE 0)
            = InTable(table, j) + (IF table'[fd] = j THEN 1 ELSE 0)
      <4>1. PICK tc : tc = table'
        OBVIOUS
      <4>2. Elsewhere(table, tc, fd)
        BY <1>9, <4>1 DEF Elsewhere
      <4>3. InTable(tc, j) + (IF table[fd] = j THEN 1 ELSE 0)
              = InTable(table, j) + (IF tc[fd] = j THEN 1 ELSE 0)
        BY <4>2, InTableStep
      <4> QED BY <4>1, <4>3
    <3>2. table'[fd] # j /\ (table[fd] = j <=> j = k)
      BY <1>1, <1>9
    <3>3. InTable(table', j) \in Nat
      BY InTableNat
    <3>4. InTable(table', j) = InTable(table, j) - (IF j = k THEN 1 ELSE 0)
      BY <3>1, <3>2, <3>3, HoldersType
    <3>5. /\ Holders(j) = InTable(table, j) + InAccept(acceptor, j) + One(conns_ = j)
                      + InQueue(jobq_, j) + InPool(worker, j)
          /\ Holders(j)' = InTable(table', j) + InAccept(acceptor, j) + One(conns_ = j)
                      + InQueue(jobq_, j) + InPool(worker, j)
      BY HoldersAre, HoldersAreNext
    <3>6. Holders(j)' = Holders(j) - (IF j = k THEN 1 ELSE 0)
      <4>1. /\ InTable(table, j) \in Nat /\ InAccept(acceptor, j) \in Nat /\ One(conns_ = j) \in Nat
            /\ InQueue(jobq_, j) \in Nat /\ InPool(worker, j) \in Nat
        BY HoldersType
      <4>2. PICK a, b, c, d, e, z : /\ a = InTable(table', j) /\ b = InAccept(acceptor, j)
                                    /\ c = One(conns_ = j) /\ d = InQueue(jobq_, j)
                                    /\ e = InPool(worker, j) /\ z = InTable(table, j)
        OBVIOUS
      <4>3. /\ a \in Nat /\ b \in Nat /\ c \in Nat /\ d \in Nat /\ e \in Nat /\ z \in Nat
            /\ a = z - (IF j = k THEN 1 ELSE 0)
        BY <3>3, <3>4, <4>1, <4>2, Zenon
      <4>4. a + b + c + d + e = (z + b + c + d + e) - (IF j = k THEN 1 ELSE 0)
        BY <4>3
      <4>5. Holders(j) = z + b + c + d + e /\ Holders(j)' = a + b + c + d + e
        BY <3>5, <4>2, Zenon
      <4> QED BY <4>4, <4>5
    <3>7. h[j] = Holders(j) /\ [h EXCEPT ![k] = @ - 1][j] = IF j = k THEN h[j] - 1 ELSE h[j]
      BY <1>3
    <3> QED BY <1>3, <3>6, <3>7
  <2>2. [h EXCEPT ![k] = @ - 1] = [j \in 1..Len(conn) |-> [h EXCEPT ![k] = @ - 1][j]]
    BY <1>3
  <2> QED BY <1>6, <2>1, <2>2 DEF Held
<1>8. RefInv'
  BY <1>6, <1>7 DEF RefInv
<1> QED BY <1>6, <1>8, <1>9

LEMMA GcCollectIInv == ASSUME IInv, GcCollect PROVE IInv'
<1>0. TypeInv /\ RefInv /\ TableInv /\ acceptor.st = "collect" /\ acceptor.todo # {} /\ Accepting
      /\ UNCHANGED <<peerVars, pollVars, jobq_, worker, conns_, destroyer>>
  BY DEF IInv, GcCollect, Accepting, TableInv
<1>1. acceptor \in [st : {"check", "collect"}, new : 1..Len(conn), todo : SUBSET Fds]
  BY <1>0 DEF TypeInv
<1>2. PICK fd : fd = Least(acceptor.todo)
  OBVIOUS
<1>3. fd \in acceptor.todo /\ fd \in Fds /\ table[fd] # 0 /\ conn[table[fd]].dead_
  BY <1>0, <1>1, <1>2, LeastIn DEF TableInv
<1>4. /\ conn' = Decref(conn, table[fd]) /\ table' = [table EXCEPT ![fd] = 0]
      /\ acceptor' = [acceptor EXCEPT !.st = "check", !.todo = @ \ {fd}]
  BY <1>2 DEF GcCollect
<1>5. /\ acceptor' \in [st : {"check", "collect"}, new : 1..Len(conn), todo : SUBSET Fds]
      /\ acceptor'.st = "check" /\ acceptor'.new = acceptor.new /\ acceptor'.todo = acceptor.todo \ {fd}
  BY <1>1, <1>4
<1>6. \A j \in 1..Len(conn) : InAccept(acceptor', j) = InAccept(acceptor, j)
  BY <1>0, <1>5 DEF InAccept, One
<1>7. /\ Shrinks(conn, conn') /\ RefInv'
      /\ table' \in [Fds -> 0..Len(conn)] /\ table'[fd] = 0
      /\ \A f \in Fds : f # fd => table'[f] = table[f]
  BY <1>0, <1>3, <1>4, <1>6, DropRef
<1>8. TypeInv'
  <2>1. conn' \in Seq({Gone} \union Conns) /\ Len(conn') = Len(conn)
    BY <1>7 DEF Shrinks
  <2> QED BY <1>0, <1>5, <1>7, <2>1 DEF TypeInv, peerVars, pollVars
<1>9. Calm(conn, conn')
  BY <1>7, ShrinksIsCalm
<1>10. TableInv'
  <2>0. AllThere'
    BY <1>7, <1>8, ThereNext
  <2>1. \A j \in Open' : j \in Open /\ conn'[j].fd = conn[j].fd /\ conn'[j].dead_ = conn[j].dead_
    BY <1>9 DEF Calm, Open, IsGone
  <2>2. destroyer'.st \in {"up", "join"} /\ ~Closing' /\ Accepting'
    BY <1>0, <1>5 DEF TableInv, Closing, Accepting
  <2>3. \A f \in Fds : table'[f] # 0 => f # fd /\ table'[f] = table[f] /\ table'[f] \in Open'
    BY <1>7, <2>0 DEF AllThere, IsThere
  <2>4. \A f \in Fds : table'[f] # 0 => conn'[table'[f]].fd = f
    BY <1>0, <2>1, <2>3 DEF TableInv
  <2>5. \A f \in acceptor'.todo : table'[f] # 0
    BY <1>0, <1>1, <1>5, <1>7 DEF TableInv
  <2>6. \A f \in Fds : table'[f] # acceptor'.new
    <3>1. acceptor.new # 0 /\ \A f \in Fds : table[f] # acceptor.new
      BY <1>0, <1>1 DEF TableInv
    <3> QED BY <1>5, <1>7, <3>1
  <2>7. ASSUME NEW j \in Open', ~conn'[j].dead_
        PROVE  table'[conn'[j].fd] = j \/ (Accepting' /\ acceptor'.new = j)
    <3>1. j \in Open /\ conn'[j].fd = conn[j].fd /\ ~conn[j].dead_ /\ conn'[j].fd \in Fds
      BY <2>0, <2>1, <2>7, ConnsNotGone DEF AllThere
    <3>2. table[conn[j].fd] = j \/ acceptor.new = j
      BY <1>0, <3>1 DEF TableInv
    <3>3. table[conn[j].fd] = j => conn[j].fd # fd
      BY <1>3, <3>1
    <3> QED BY <1>5, <1>7, <2>2, <3>1, <3>2, <3>3
  <2> QED BY <1>5, <2>2, <2>4, <2>5, <2>6, <2>7 DEF TableInv
<1> QED BY <1>0, <1>7, <1>8, <1>9, <1>10, AcceptorFrame DEF IInv

LEMMA InsertIInv == ASSUME IInv, Insert PROVE IInv'
<1>0. /\ TypeInv /\ RefInv /\ FdInv /\ TableInv /\ acceptor.st = "check" /\ Accepting
      /\ acceptor' = [st |-> "select"]
      /\ UNCHANGED <<peerVars, conn, pollVars, jobq_, worker, conns_, destroyer>>
  BY DEF IInv, Insert, Accepting
<1>1. PICK k : k = acceptor.new
  OBVIOUS
<1>2. /\ k \in 1..Len(conn) /\ k \in Open /\ conn[k] \in Conns /\ conn[k].fd \in Fds
      /\ table \in [Fds -> 0..Len(conn)] /\ Len(conn) \in Nat
  <2>1. k \in 1..Len(conn) /\ table \in [Fds -> 0..Len(conn)] /\ Len(conn) \in Nat
    BY <1>0, <1>1 DEF TypeInv
  <2>2. k \in Open /\ conn[k] \in Conns
    BY <1>0, <1>1, There DEF AllThere, IsThere
  <2> QED BY <2>1, <2>2, ConnsNotGone
<1>3. PICK fd : fd = conn[k].fd
  OBVIOUS
<1>4. fd \in Fds /\ table' = [table EXCEPT ![fd] = k]
  BY <1>1, <1>2, <1>3 DEF Insert
<1>5. table[fd] = 0
  <2> SUFFICES ASSUME table[fd] # 0 PROVE FALSE
    OBVIOUS
  <2>1. table[fd] \in Open /\ conn[table[fd]].fd = fd /\ table[fd] # k
    BY <1>0, <1>1, <1>4, There DEF AllThere, IsThere, TableInv
  <2> QED BY <1>0, <1>2, <1>3, <2>1 DEF FdInv
<1>6. /\ table' \in [Fds -> 0..Len(conn)] /\ table'[fd] = k
      /\ \A f \in Fds : f # fd => table'[f] = table[f]
  BY <1>2, <1>4
<1>7. TypeInv'
  BY <1>0, <1>6 DEF TypeInv, peerVars, pollVars
<1>8. Held' = Held
  <2>1. ASSUME NEW j \in 1..Len(conn)
        PROVE  Holders(j)' = Holders(j)
    <3>1. InTable(table', j) + (IF table[fd] = j THEN 1 ELSE 0)
            = InTable(table, j) + (IF table'[fd] = j THEN 1 ELSE 0)
      <4>1. fd \in Fds /\ Elsewhere(table, table', fd)
        BY <1>4, <1>6 DEF Elsewhere
      <4> QED BY <4>1, InTableStep
    <3>2. table[fd] # j /\ One(k = j) = (IF table'[fd] = j THEN 1 ELSE 0) /\ InTable(table', j) \in Nat
      <4>1. InTable(table', j) \in Nat
        BY InTableNat
      <4> QED BY <1>2, <1>5, <1>6, <4>1 DEF One
    <3>3. InTable(table', j) = InTable(table, j) + One(k = j)
      BY <1>6, <3>1, <3>2, HoldersType
    <3>4. InAccept(acceptor, j) = One(k = j) /\ InAccept(acceptor', j) = 0
      BY <1>0, <1>1 DEF InAccept, One
    <3>5. /\ Holders(j) = InTable(table, j) + InAccept(acceptor, j) + One(conns_ = j)
                      + InQueue(jobq_, j) + InPool(worker, j)
          /\ Holders(j)' = InTable(table', j) + InAccept(acceptor', j) + One(conns_ = j)
                      + InQueue(jobq_, j) + InPool(worker, j)
      BY <1>0, HoldersAre, HoldersAreNext
    <3> QED BY <1>0, <3>2, <3>3, <3>4, <3>5, HoldersType
  <2> QED BY <1>0, <2>1 DEF Held
<1>9. RefInv'
  BY <1>0, <1>8 DEF RefInv
<1>10. Calm(conn, conn')
  BY <1>0, ShrinksSelf, ShrinksIsCalm DEF TypeInv
<1>11. TableInv'
  <2>1. destroyer'.st \in {"up", "join"} /\ ~Closing' /\ ~Accepting' /\ acceptor'.st # "collect"
    BY <1>0 DEF TableInv, Closing, Accepting
  <2>2. \A f \in Fds : table'[f] # 0 => conn'[table'[f]].fd = f
    BY <1>0, <1>3, <1>6 DEF TableInv
  <2>3. ASSUME NEW j \in Open', ~conn'[j].dead_
        PROVE  table'[conn'[j].fd] = j
    <3>1. j \in Open /\ conn[j].fd \in Fds /\ conn'[j] = conn[j]
      BY <1>0, There, ConnsNotGone DEF AllThere, Open, IsGone
    <3>2. CASE j = k
      BY <1>3, <1>6, <3>1, <3>2
    <3>3. CASE j # k
      <4>1. table[conn[j].fd] = j /\ conn[j].fd # fd
        BY <1>0, <1>1, <1>2, <1>3, <2>3, <3>1, <3>3 DEF TableInv, FdInv
      <4> QED BY <1>6, <3>1, <4>1
    <3> QED BY <3>2, <3>3
  <2> QED BY <2>1, <2>2, <2>3 DEF TableInv
<1> QED BY <1>0, <1>7, <1>9, <1>10, <1>11, AcceptorFrame DEF IInv

\* Nobody holds a connection that is not there yet.
LEMMA NobodyHolds ==
  ASSUME TypeInv, NEW k, k \notin 0..Len(conn)
  PROVE  /\ InTable(table, k) = 0 /\ InQueue(jobq_, k) = 0 /\ InPool(worker, k) = 0
         /\ conns_ # k
<1>1. {fd \in Fds : table[fd] = k} = {}
  BY DEF TypeInv
<1>2. {t \in Workers : Holds(worker, t, k)} = {}
  <2> SUFFICES ASSUME NEW t \in Workers, Holds(worker, t, k) PROVE FALSE
    OBVIOUS
  <2>1. worker[t].st \in AtWork /\ worker[t].k = k
    BY ThreadType DEF Holds
  <2>2. worker[t].k \in 1..Len(conn)
    BY <2>1, ThreadType
  <2> QED BY <2>1, <2>2
<1>3. {i \in 1..Len(jobq_) : jobq_[i].k = k} = {}
  <2> SUFFICES ASSUME NEW i \in 1..Len(jobq_), jobq_[i].k = k PROVE FALSE
    OBVIOUS
  <2>1. jobq_[i] \in {Pill} \union [k : 1..Len(conn), kind : Kinds] /\ Len(conn) \in Nat
    BY DEF TypeInv
  <2>2. jobq_[i].k \in 0..Len(conn)
    BY <2>1 DEF Pill
  <2> QED BY <2>2
<1>4. conns_ # k
  BY DEF TypeInv
<1> QED BY <1>1, <1>2, <1>3, <1>4, FS_EmptySet DEF InTable, InPool, InQueue

LEMMA AcceptNewIInv ==
  ASSUME IInv, acceptor.st = "select", destroyer.st = "up", FreeFds # {},
         NEW fd, fd = Least(FreeFds), NEW k, k = Len(conn) + 1,
         conn' = Append(conn, NewConn(fd)), rfds_' = rfds_ \union {fd},
         callbacks_' = [callbacks_ EXCEPT ![fd] = k],
         acceptor' = [st |-> "check", new |-> k, todo |-> {f \in Fds : table[f] # 0}],
         UNCHANGED <<peerVars, table, wfds_, pending_change_, poll, jobq_, worker, conns_, destroyer>>
  PROVE  IInv'
<1>0. /\ TypeInv /\ RefInv /\ FdInv /\ TableInv /\ DispatchInv /\ WatchInv /\ PollInv /\ WriterInv
      /\ PoolInv /\ AllThere
  BY There DEF IInv
<1>1. /\ conn \in Seq({Gone} \union Conns) /\ Len(conn) \in Nat /\ k \in Nat /\ k # 0
      /\ k \notin 0..Len(conn)
  BY <1>0 DEF TypeInv
<1>2. fd \in FreeFds /\ fd \in Fds /\ fd # 0
  <2>1. FreeFds \in SUBSET Fds
    BY DEF FreeFds
  <2> QED BY <2>1, LeastIn, BoundsAssumption
<1>3. PICK r : r = NewConn(fd)
  OBVIOUS
<1>4. /\ r \in Conns /\ r # Gone /\ r.fd = fd /\ r.wpdu_ = Nobody /\ ~r.dead_ /\ r.refno_ = 1 /\ r.leaked = 0
  <2>1. r \in Conns
    <3>1. FALSE \in BOOLEAN /\ 1 \in Nat /\ 0 \in Nat /\ <<>> \in Seq(Kinds)
      OBVIOUS
    <3> QED BY <1>2, <1>3, <3>1 DEF NewConn, Conns
  <2> QED BY <1>3, <2>1, ConnsNotGone DEF NewConn
<1>5. /\ conn' \in Seq({Gone} \union Conns) /\ Len(conn') = k /\ conn'[k] = r
      /\ \A j \in 1..Len(conn) : conn'[j] = conn[j] /\ j # k
      /\ 1..Len(conn') = 1..Len(conn) \union {k}
  BY <1>1, <1>3, <1>4
<1>6. Open' = Open \union {k}
  BY <1>4, <1>5 DEF Open, IsGone
<1>7. \A j \in Open : conn'[j] = conn[j] /\ j # k /\ j \in 1..Len(conn)
  BY <1>5 DEF Open
<1>8. TypeInv'
  <2>1. 0..Len(conn) \subseteq 0..Len(conn') /\ k \in 0..Len(conn') /\ k \in 1..Len(conn')
    BY <1>1, <1>5
  <2>2. table' \in [Fds -> 0..Len(conn')] /\ conns_' \in 0..Len(conn')
    BY <1>0, <2>1 DEF TypeInv
  <2>3. callbacks_' \in [Fds -> 0..Len(conn')]
    BY <1>0, <2>1 DEF TypeInv
  <2>4. acceptor' \in [st : {"check", "collect"}, new : 1..Len(conn'), todo : SUBSET Fds]
    BY <2>1
  <2>5. jobq_' \in Seq(Jobs(Len(conn')))
    <3>1. jobq_ \in Seq(Jobs(Len(conn))) /\ Len(conn) <= k
      BY <1>0, <1>1 DEF TypeInv, Jobs
    <3>2. Seq(Jobs(Len(conn))) \subseteq Seq(Jobs(k))
      BY <1>1, <3>1, JobsMore
    <3> QED BY <1>5, <3>1, <3>2
  <2>6. worker' \in [Workers -> Threads(Len(conn'))]
    <3>1. Threads(Len(conn)) \subseteq Threads(Len(conn'))
      BY <1>5 DEF Threads
    <3>2. worker \in [Workers -> Threads(Len(conn))]
      BY <1>0 DEF TypeInv, Threads
    <3> QED BY <3>1, <3>2
  <2>7. rfds_' \subseteq Fds
    BY <1>0, <1>2 DEF TypeInv
  <2> QED BY <1>0, <1>5, <2>2, <2>3, <2>4, <2>5, <2>6, <2>7 DEF TypeInv, Jobs, Threads, peerVars
<1>9. RefInv'
  <2>1. ASSUME NEW j \in 1..Len(conn) PROVE Held'[j] = Held[j]
    <3>1. InAccept(acceptor', j) = 0 /\ InAccept(acceptor, j) = 0
      BY <1>5 DEF InAccept, One
    <3>2. Holders(j)' = Holders(j)
      BY <3>1, HoldersAre, HoldersAreNext
    <3> QED BY <1>5, <3>2 DEF Held
  <2>2. Held'[k] = 1
    <3>1. InAccept(acceptor', k) = 1
      BY DEF InAccept, One
    <3>2. InTable(table, k) = 0 /\ InQueue(jobq_, k) = 0 /\ InPool(worker, k) = 0 /\ One(conns_ = k) = 0
      BY <1>0, <1>1, NobodyHolds DEF One
    <3>3. Holders(k)' = 1
      BY <3>1, <3>2, HoldersAreNext
    <3> QED BY <1>5, <3>3 DEF Held
  <2>3. RefOK(conn, Held)
    BY <1>0 DEF RefInv
  <2>4. RefOK(conn', Held')
    BY <1>4, <1>5, <2>1, <2>2, <2>3 DEF RefOK
  <2> QED BY <2>4 DEF RefInv
<1>10. FdInv'
  <2>1. \A j \in Open : conn[j].fd # fd
    BY <1>2 DEF FreeFds
  <2> QED BY <1>0, <1>4, <1>5, <1>6, <1>7, <2>1 DEF FdInv
<1>11. \A f \in Fds : table'[f] # 0 => table'[f] = table[f] /\ table[f] \in Open /\ table'[f] # k
  BY <1>0, <1>7 DEF AllThere, IsThere
<1>12. TableInv'
  <2>1. Accepting' /\ ~Closing' /\ destroyer'.st = "up" /\ acceptor'.st # "collect" /\ ~Accepting
    BY DEF Accepting, Closing
  <2>2. \A f \in Fds : table'[f] # 0 => conn'[table'[f]].fd = f
    BY <1>0, <1>7, <1>11 DEF TableInv
  <2>3. /\ \A f \in Fds : table'[f] # acceptor'.new
        /\ \A f \in acceptor'.todo : table'[f] # 0
    BY <1>1, <1>11
  <2>4. \A j \in Open' : \/ conn'[j].dead_ \/ table'[conn'[j].fd] = j
                         \/ (Accepting' /\ acceptor'.new = j)
    BY <1>0, <1>6, <1>7, <2>1 DEF TableInv
  <2> QED BY <2>1, <2>2, <2>3, <2>4 DEF TableInv
<1>13. DispatchInv'
  BY <1>0 DEF DispatchInv
<1>14. \A j, S : RemovedIn(j, S)' <=> RemovedIn(j, S)
  BY DEF RemovedIn
<1>15. \A t \in Workers : worker[t].st \in AtWork => worker[t].k \in Open
  BY <1>0 DEF AllThere, IsThere
<1>16. WatchInv'
  <2>1. ASSUME NEW f \in Fds, callbacks_'[f] # 0
        PROVE  /\ conn'[callbacks_'[f]].fd = f
               /\ conn'[callbacks_'[f]].dead_ => RemovedIn(callbacks_[f], {"removing", "removed"})'
    <3>0. callbacks_ \in [Fds -> 0..Len(conn)]
      BY <1>0 DEF TypeInv
    <3>1. CASE f = fd
      BY <1>2, <1>4, <1>5, <3>0, <3>1
    <3>2. CASE f # fd
      <4>1. callbacks_'[f] = callbacks_[f] /\ callbacks_[f] \in 1..Len(conn)
        BY <1>2, <2>1, <3>0, <3>2
      <4>2. PICK j \in 1..Len(conn) : j = callbacks_[f]
        BY <4>1
      <4>3. conn[j].fd = f /\ (conn[j].dead_ => RemovedIn(j, {"removing", "removed"}))
        BY <1>0, <2>1, <4>1, <4>2 DEF WatchInv
      <4>4. conn'[j].fd = f /\ (conn'[j].dead_ => RemovedIn(j, {"removing", "removed"})')
        BY <1>5, <1>14, <4>3
      <4>5. j = callbacks_'[f]
        BY <4>1, <4>2
      <4> HIDE <4>1, <4>2
      <4> QED BY <4>4, <4>5 DEF RemovedIn
    <3> QED BY <3>1, <3>2
  <2>2. ASSUME NEW t \in Workers, worker'[t].st \in {"removing", "removed"}
        PROVE  conn'[worker'[t].k].dead_
    BY <1>0, <1>7, <1>15, <2>2 DEF WatchInv, AtWork
  <2>3. \A f \in rfds_' \union wfds_' : \E j \in Open' : conn'[j].fd = f /\ ~conn'[j].dead_
    BY <1>0, <1>4, <1>5, <1>6, <1>7 DEF WatchInv
  <2>4. ASSUME NEW j \in Open', ~conn'[j].dead_
        PROVE  conn'[j].fd \in rfds_' /\ callbacks_'[conn'[j].fd] = j
    <3>0. callbacks_ \in [Fds -> 0..Len(conn)]
      BY <1>0 DEF TypeInv
    <3>1. CASE j = k
      BY <1>2, <1>4, <1>5, <3>0, <3>1
    <3>2. CASE j # k
      <4>1. j \in Open /\ conn'[j] = conn[j] /\ conn[j].fd \in Fds
        BY <1>0, <1>6, <1>7, <3>2, ConnsNotGone DEF AllThere
      <4>2. conn[j].fd \in rfds_ /\ callbacks_[conn[j].fd] = j /\ conn[j].fd # fd
        BY <1>0, <1>2, <2>4, <4>1 DEF WatchInv, FreeFds
      <4> QED BY <3>0, <4>1, <4>2
    <3> QED BY <3>1, <3>2
  <2> QED BY <2>1, <2>2, <2>3, <2>4 DEF WatchInv
<1>17. PollInv'
  <2>1. ASSUME NEW f, Attended(f) PROVE Attended(f)'
    BY <1>6, <1>7, <1>14, <2>1 DEF Attended
  <2>2. ASSUME NEW f, Readable(f) PROVE Readable(f)'
    BY <1>6, <1>7, <2>2 DEF Readable
  <2> QED BY <1>0, <2>1, <2>2 DEF PollInv
<1>18. WriterInv'
  <2>1. \A t \in Workers : worker[t].st \in Writing \union {"asleep"} => worker[t].k \in Open
    BY <1>15 DEF Writing, AtWork
  <2>2. \A t \in Workers : worker'[t].st \in Writing => conn'[worker'[t].k].wpdu_ = t
    BY <1>0, <1>7, <2>1 DEF WriterInv
  <2>3. \A j \in Open' : conn'[j].wpdu_ # Nobody =>
          worker'[conn'[j].wpdu_].st \in Writing /\ worker'[conn'[j].wpdu_].k = j
    BY <1>0, <1>4, <1>5, <1>6, <1>7 DEF WriterInv
  <2>4. \A t \in Workers : worker'[t].st = "asleep" => conn'[worker'[t].k].wpdu_ # Nobody
    BY <1>0, <1>7, <2>1 DEF WriterInv
  <2>5. \A t \in Workers : worker'[t].st = "partial" =>
          conn'[worker'[t].k].dead_ \/ conn'[worker'[t].k].fd \in wfds_'
    BY <1>0, <1>7, <2>1 DEF WriterInv, Writing
  <2>6. destroyer'.st = "removing" \/ (\E t \in Workers : worker'[t].st = "removing") => pending_change_'
    BY <1>0 DEF WriterInv
  <2> QED BY <2>2, <2>3, <2>4, <2>5, <2>6 DEF WriterInv
<1>19. PoolInv'
  BY <1>0, PoolFrame
<1> QED BY <1>8, <1>9, <1>10, <1>12, <1>13, <1>16, <1>17, <1>18, <1>19 DEF IInv

LEMMA AcceptIInv == ASSUME IInv, Accept PROVE IInv'
<1>0. /\ acceptor.st = "select" /\ destroyer.st = "up"
      /\ UNCHANGED <<peerVars, table, wfds_, pending_change_, poll, jobq_, worker, conns_, destroyer>>
  BY DEF Accept
<1>1. CASE FreeFds = {}
  <2>1. acceptor' = [st |-> "exited"] /\ UNCHANGED <<conn, callbacks_, rfds_>>
    BY <1>1 DEF Accept
  <2>2. UNCHANGED <<peerVars, conn, table, pollVars, jobq_, worker, conns_, destroyer>>
    BY <1>0, <2>1 DEF pollVars
  <2> QED BY <1>0, <2>1, <2>2, AcceptorStopsIInv
<1>2. CASE FreeFds # {}
  <2>1. PICK fd : fd = Least(FreeFds)
    OBVIOUS
  <2>2. PICK k : k = Len(conn) + 1
    OBVIOUS
  <2>3. /\ conn' = Append(conn, NewConn(fd)) /\ rfds_' = rfds_ \union {fd}
        /\ callbacks_' = [callbacks_ EXCEPT ![fd] = k]
        /\ acceptor' = [st |-> "check", new |-> k, todo |-> {f \in Fds : table[f] # 0}]
    BY <1>2, <2>1, <2>2 DEF Accept
  <2> QED BY <1>0, <1>2, <2>1, <2>2, <2>3, AcceptNewIInv
<1> QED BY <1>1, <1>2

LEMMA AcceptorIInv == ASSUME IInv, AcceptorStep PROVE IInv'
<1>1. CASE AcceptorStops
  BY <1>1, AcceptorStopsIInv DEF AcceptorStops
<1> QED BY <1>1, AcceptIInv, GcCheckIInv, GcCollectIInv, InsertIInv DEF AcceptorStep

-------------------------------------------------------------------------------
(* The poll thread.                                                        *)

LEMMA ReaderFrame ==
  ASSUME IInv, TypeInv', RefInv', Placid(conn, conn'),
         UNCHANGED <<table, acceptor, callbacks_, rfds_, wfds_, pending_change_, worker, conns_, destroyer>>
  PROVE  FdInv' /\ TableInv' /\ DispatchInv' /\ WatchInv' /\ WriterInv'
<1>0. TypeInv /\ FdInv /\ TableInv /\ DispatchInv /\ WatchInv /\ WriterInv
  BY DEF IInv
<1>1. Onward(conn, conn') /\ Fixed(conn, conn')
  BY PlacidIsFixed
<1>2. Keeps(worker, worker') /\ DestroyerStays /\ Early(worker, worker')
  BY DEF DestroyerStays, Keeps, Early
<1>3. FdInv' /\ TableInv'
  BY <1>0, <1>1, FdFrame, TableFrame
<1>4. WatchInv'
  BY <1>0, <1>1, <1>2, WatchKept
<1>5. WriterInv'
  BY <1>0, <1>2, WriterKept
<1>6. DispatchInv'
  <2>1. conns_' >= conns_
    BY <1>0 DEF TypeInv
  <2> QED BY <1>0, <2>1, DispatchFrame
<1> QED BY <1>3, <1>4, <1>5, <1>6

\* The thread only moves on: to a descriptor found readable, or to its end.
LEMMA PollMoves ==
  ASSUME IInv,
         poll' \in [st : {"select", "ready", "aborted"}, r : SUBSET Fds, w : SUBSET Fds],
         poll'.st # "aborted" =>
           poll'.st = "ready" /\ \A fd \in poll'.r : Attended(fd) /\ Readable(fd),
         UNCHANGED <<peerVars, conn, table, acceptor, callbacks_, rfds_, wfds_, pending_change_,
                     jobq_, worker, conns_, destroyer>>
  PROVE  IInv'
<1>0. TypeInv /\ RefInv /\ PoolInv
  BY DEF IInv
<1>1. TypeInv'
  BY <1>0 DEF TypeInv, peerVars
<1>2. Held' = Held
  BY <1>0, HeldSame
<1>3. RefInv'
  BY <1>0, <1>2 DEF RefInv
<1>4. Placid(conn, conn')
  BY <1>0 DEF Placid, TypeInv
<1>5. \A fd : (Attended(fd)' <=> Attended(fd)) /\ (Readable(fd)' <=> Readable(fd))
  BY DEF Attended, Readable, RemovedIn, Open, IsGone
<1>6. PollInv'
  BY <1>5 DEF PollInv
<1>7. PoolInv'
  BY <1>0, PoolFrame
<1> QED BY <1>1, <1>3, <1>4, <1>6, <1>7, ReaderFrame DEF IInv

LEMMA SelectIInv == ASSUME IInv, NEW ws \in SUBSET Fds, Select(ws) PROVE IInv'
<1>0. TypeInv /\ PollInv /\ poll.st = "select"
  BY DEF IInv, Select
<1>1. /\ poll' = [st |-> "ready", r |-> {fd \in poll.r : Readable(fd)}, w |-> ws]
      /\ poll.r \subseteq Fds
  BY <1>0 DEF Select, TypeInv
<1>2. \A fd \in poll'.r : Attended(fd) /\ Readable(fd)
  BY <1>0, <1>1 DEF PollInv
<1>3. poll' \in [st : {"select", "ready", "aborted"}, r : SUBSET Fds, w : SUBSET Fds] /\ poll'.st = "ready"
  BY <1>1
<1>4. UNCHANGED <<peerVars, conn, table, acceptor, callbacks_, rfds_, wfds_, pending_change_,
                  jobq_, worker, conns_, destroyer>>
  BY DEF Select
<1> QED BY <1>2, <1>3, <1>4, PollMoves

\* The top of the loop: no thread is left waiting for it.
LEMMA LoopTopIInv == ASSUME IInv, LoopTop PROVE IInv'
<1>0. /\ TypeInv /\ RefInv /\ FdInv /\ TableInv /\ DispatchInv /\ WatchInv /\ WriterInv /\ PoolInv
      /\ AllThere
      /\ UNCHANGED <<peerVars, conn, table, acceptor, callbacks_, rfds_, wfds_, jobq_, conns_>>
      /\ pending_change_' = FALSE /\ poll' = [st |-> "select", r |-> rfds_, w |-> wfds_]
  BY There DEF IInv, LoopTop
<1>1. \A t \in Workers :
        \/ worker'[t] = worker[t] /\ worker[t].st # "removing"
        \/ worker[t].st = "removing" /\ worker'[t] = [worker[t] EXCEPT !.st = "removed"]
  BY <1>0 DEF LoopTop, WriterInv
<1>2. \A t \in Workers :
        /\ worker'[t] \in Threads(Len(conn)) /\ worker'[t].st # "removing"
        /\ \/ worker'[t] = worker[t]
           \/ worker[t].st = "removing" /\ worker'[t].st = "removed" /\ worker'[t].k = worker[t].k
  <2> SUFFICES ASSUME NEW t \in Workers
               PROVE  /\ worker'[t] \in Threads(Len(conn)) /\ worker'[t].st # "removing"
                      /\ \/ worker'[t] = worker[t]
                         \/ worker[t].st = "removing" /\ worker'[t].st = "removed" /\ worker'[t].k = worker[t].k
    OBVIOUS
  <2>1. worker[t] \in Threads(Len(conn))
    BY <1>0, ThreadType
  <2> QED BY <1>1, <2>1 DEF Threads, AtWork
<1>3. \/ destroyer' = destroyer /\ destroyer.st # "removing"
      \/ destroyer.st = "removing" /\ destroyer' = [destroyer EXCEPT !.st = "removed"]
  BY <1>0 DEF LoopTop, WriterInv
<1>4. /\ \/ destroyer' = destroyer /\ destroyer.st # "removing"
         \/ /\ destroyer.st = "removing" /\ destroyer'.st = "removed"
            /\ destroyer'.todo = destroyer.todo /\ destroyer'.pills = destroyer.pills
      /\ destroyer' \in [st : {"up", "join", "down"}] \union
           [st : {"close", "removing", "removed"}, todo : SUBSET Fds, pills : 0..Cardinality(Workers)]
  <2>1. destroyer \in [st : {"up", "join", "down"}] \union
           [st : {"close", "removing", "removed"}, todo : SUBSET Fds, pills : 0..Cardinality(Workers)]
    BY <1>0 DEF TypeInv
  <2> QED BY <1>3, <2>1
<1>5. TypeInv'
  <2>1. worker' \in [Workers -> Threads(Len(conn))]
    <3>1. worker' = [t \in Workers |-> worker'[t]]
      BY DEF LoopTop
    <3> QED BY <1>2, <3>1
  <2>2. poll' \in [st : {"select", "ready", "aborted"}, r : SUBSET Fds, w : SUBSET Fds]
    BY <1>0 DEF TypeInv
  <2>3. pending_change_' \in BOOLEAN
    BY <1>0
  <2> QED BY <1>0, <1>4, <2>1, <2>2, <2>3 DEF TypeInv, Threads, peerVars
<1>6. RefInv'
  <2>1. \A u \in Workers :
          /\ worker'[u].st \in {"idle", "exited"} <=> worker[u].st \in {"idle", "exited"}
          /\ worker[u].st \notin {"idle", "exited"} => worker'[u].k = worker[u].k
    BY <1>2
  <2>2. Held' = Held
    BY <1>0, <2>1, HeldSame
  <2> QED BY <1>0, <2>2 DEF RefInv
<1>7. Open' = Open /\ FdInv'
  BY <1>0 DEF Open, IsGone, FdInv
<1>8. TableInv'
  <2>1. Accepting' = Accepting /\ Closing' = Closing
    BY <1>0, <1>4 DEF Accepting, Closing
  <2>2. destroyer'.st \in {"removing", "removed"} =>
          destroyer'.todo # {} /\ conn'[table'[Least(destroyer'.todo)]].dead_
    BY <1>0, <1>4 DEF TableInv
  <2>3. Closing' => destroyer'.todo = {fd \in Fds : table'[fd] # 0}
    BY <1>0, <1>4, <2>1 DEF TableInv, Closing
  <2>4. destroyer'.st \notin {"up", "join"} => acceptor'.st = "exited"
    BY <1>0, <1>4 DEF TableInv
  <2> QED BY <1>0, <1>7, <2>1, <2>2, <2>3, <2>4 DEF TableInv
<1>9. DispatchInv'
  BY <1>0, <1>2 DEF DispatchInv
<1>10. \A k : RemovedIn(k, {"removing", "removed"}) => RemovedIn(k, {"removing", "removed"})'
  BY <1>0, <1>2, <1>4 DEF RemovedIn
<1>11. WatchInv'
  <2>1. \A fd \in Fds : callbacks_'[fd] # 0 =>
          /\ conn'[callbacks_'[fd]].fd = fd
          /\ conn'[callbacks_'[fd]].dead_ => RemovedIn(callbacks_[fd], {"removing", "removed"})'
    BY <1>0, <1>10 DEF WatchInv
  <2>2. \A t \in Workers : worker'[t].st \in {"removing", "removed"} => conn'[worker'[t].k].dead_
    BY <1>0, <1>2 DEF WatchInv
  <2>3. \A fd \in rfds_' \union wfds_' : \E k \in Open' : conn'[k].fd = fd /\ ~conn'[k].dead_
    BY <1>0, <1>7 DEF WatchInv
  <2>4. \A k \in Open' : conn'[k].dead_ \/ (conn'[k].fd \in rfds_' /\ callbacks_'[conn'[k].fd] = k)
    BY <1>0, <1>7 DEF WatchInv
  <2>5. callbacks_' = callbacks_
    BY <1>0
  <2> QED BY <2>1, <2>2, <2>3, <2>4, <2>5 DEF WatchInv
<1>12. PollInv'
  <2>1. \A fd \in rfds_ \union wfds_ : Attended(fd)'
    <3>1. \A fd \in rfds_ \union wfds_ : \E k \in Open' : conn'[k].fd = fd /\ ~conn'[k].dead_
      BY <1>0, <1>7 DEF WatchInv
    <3> QED BY <3>1 DEF Attended
  <2>2. poll'.st = "select" /\ poll'.r = rfds_ /\ poll'.w = wfds_
    BY <1>0
  <2> QED BY <2>1, <2>2 DEF PollInv
<1>13. WriterInv'
  <2>1. \A t \in Workers : /\ worker'[t].st \in Writing <=> worker[t].st \in Writing
                           /\ worker[t].st \in Writing => worker'[t].k = worker[t].k
                           /\ worker'[t].st \in {"asleep", "partial"} => worker'[t] = worker[t]
    BY <1>2 DEF Writing
  <2>2. \A k \in Open' : conn'[k].wpdu_ # Nobody =>
          worker'[conn'[k].wpdu_].st \in Writing /\ worker'[conn'[k].wpdu_].k = k
    <3>1. \A k \in Open : conn[k].wpdu_ # Nobody => conn[k].wpdu_ \in Workers
      BY <1>0 DEF AllThere, Conns
    <3> QED BY <1>0, <1>7, <2>1, <3>1 DEF WriterInv
  <2>3. \A t \in Workers : worker'[t].st \in Writing => conn'[worker'[t].k].wpdu_ = t
    BY <1>0, <2>1 DEF WriterInv
  <2>4. \A t \in Workers : worker'[t].st = "asleep" => conn'[worker'[t].k].wpdu_ # Nobody
    BY <1>0, <2>1 DEF WriterInv
  <2>5. \A t \in Workers : worker'[t].st = "partial" =>
          conn'[worker'[t].k].dead_ \/ conn'[worker'[t].k].fd \in wfds_'
    BY <1>0, <2>1 DEF WriterInv
  <2>6. destroyer'.st # "removing" /\ \A t \in Workers : worker'[t].st # "removing"
    BY <1>2, <1>4
  <2> QED BY <2>2, <2>3, <2>4, <2>5, <2>6 DEF WriterInv
<1>14. PoolInv'
  <2>1. Exited' = Exited
    BY <1>2 DEF Exited
  <2>2. Pills' = Pills /\ Closing' = Closing
    BY <1>0, <1>4 DEF Pills, Closing
  <2>3. CASE destroyer' = destroyer
    BY <1>0, <2>1, <2>2, <2>3 DEF PoolInv
  <2>4. CASE destroyer.st = "removing" /\ destroyer'.st = "removed"
             /\ destroyer'.todo = destroyer.todo /\ destroyer'.pills = destroyer.pills
    <3>1. Pills = {} /\ Exited = {} /\ Closing /\ ~(destroyer.pills < Cardinality(Workers))
      BY <1>0, <2>4 DEF PoolInv, Closing
    <3> QED BY <1>0, <2>1, <2>2, <2>4, <3>1 DEF PoolInv
  <2> QED BY <1>4, <2>3, <2>4
<1> QED BY <1>5, <1>6, <1>7, <1>8, <1>9, <1>11, <1>12, <1>13, <1>14 DEF IInv

\* What a callback finds: a connection that lives is there, and nobody has told
\* the pool to end.
LEMMA CallbackFacts ==
  ASSUME IInv, NEW fd \in Fds, NEW k, k = callbacks_[fd], k # 0, ~conn[k].dead_
  PROVE  /\ k \in 1..Len(conn) /\ k \in Open /\ conn[k] \in Conns /\ conn[k] # Gone /\ conn[k].fd = fd
         /\ Pills = {} /\ Exited = {} /\ destroyer.st # "down"
<1>0. TypeInv /\ RefInv /\ TableInv /\ WatchInv /\ PoolInv /\ AllThere
  BY There DEF IInv
<1>1. k \in 1..Len(conn)
  BY <1>0 DEF TypeInv
<1>2. conn[k].fd = fd
  BY <1>0 DEF WatchInv
<1>3. k \in Open /\ conn[k] \in Conns /\ conn[k] # Gone
  <2>1. conn[k] # Gone
    BY <1>2, BoundsAssumption DEF Gone
  <2>2. k \in Open
    BY <1>1, <2>1 DEF Open, IsGone
  <2> QED BY <1>0, <2>1, <2>2 DEF AllThere
<1>4. table[fd] = k \/ Accepting
  BY <1>0, <1>2, <1>3 DEF TableInv
<1>5. ~(destroyer.st \in {"close", "down"} /\ \A f \in Fds : table[f] = 0)
  BY <1>0, <1>1, <1>4 DEF TableInv, Accepting
<1>6. Pills = {} /\ Exited = {}
  BY <1>0, <1>5 DEF PoolInv
<1>7. destroyer.st # "down"
  BY <1>0, <1>6, BoundsAssumption DEF PoolInv
<1> QED BY <1>1, <1>2, <1>3, <1>6, <1>7

\* A request reaches the queue, with a reference, or stays with its connection.
LEMMA OfferIInv ==
  ASSUME IInv, poll.st = "ready", NEW fd \in Fds, NEW k, k = callbacks_[fd], k # 0, ~conn[k].dead_,
         NEW kind \in Kinds, NEW in \in Seq(Kinds), Offer(k, kind, in),
         poll' = [poll EXCEPT !.r = @ \ {fd}],
         UNCHANGED <<callbacks_, rfds_, wfds_, worker>>,
         UNCHANGED <<peerVars, table, acceptor, pending_change_, conns_, destroyer>>
  PROVE  IInv'
<1>0. /\ TypeInv /\ RefInv /\ FdInv /\ TableInv /\ PollInv /\ PoolInv
      /\ conn \in Seq({Gone} \union Conns) /\ jobq_ \in Seq(Jobs(Len(conn))) /\ Len(jobq_) \in Nat
  BY DEF IInv, TypeInv, Jobs
<1>1. /\ k \in 1..Len(conn) /\ k \in Open /\ conn[k] \in Conns /\ conn[k] # Gone /\ conn[k].fd = fd
      /\ Pills = {} /\ Exited = {} /\ destroyer.st # "down"
  BY CallbackFacts
<1>2. PICK q : q = [k |-> k, kind |-> kind]
  OBVIOUS
<1>3. q \in Jobs(Len(conn)) /\ q.k = k /\ q # Pill
  <2>1. q \in Jobs(Len(conn)) /\ q.k = k /\ k # 0
    BY <1>1, <1>2 DEF Jobs
  <2> QED BY <2>1 DEF Pill
<1>4. PICK r : \/ /\ Len(jobq_) < QMax /\ jobq_' = Append(jobq_, q)
                  /\ r = [conn[k] EXCEPT !.refno_ = conn[k].refno_ + 1, !.rpdu_ = "none", !.in = in]
                  /\ conn' = [conn EXCEPT ![k] = r]
               \/ /\ jobq_' = jobq_
                  /\ r = [conn[k] EXCEPT !.rpdu_ = kind, !.in = in]
                  /\ conn' = [conn EXCEPT ![k] = r]
  <2>1. CASE Len(jobq_) < QMax
    <3>1. jobq_' = Append(jobq_, q)
      BY <1>2, <2>1 DEF Offer
    <3>2. conn' = [[conn EXCEPT ![k].refno_ = @ + 1] EXCEPT ![k].rpdu_ = "none", ![k].in = in]
      BY <2>1 DEF Offer, Incref
    <3>3. conn' = [conn EXCEPT ![k] =
                    [conn[k] EXCEPT !.refno_ = conn[k].refno_ + 1, !.rpdu_ = "none", !.in = in]]
      BY <1>0, <1>1, <3>2
    <3> QED BY <2>1, <3>1, <3>3
  <2>2. CASE ~(Len(jobq_) < QMax)
    <3>1. jobq_' = jobq_
      BY <2>2 DEF Offer
    <3>2. conn' = [conn EXCEPT ![k].rpdu_ = kind, ![k].in = in]
      BY <2>2 DEF Offer
    <3>3. conn' = [conn EXCEPT ![k] = [conn[k] EXCEPT !.rpdu_ = kind, !.in = in]]
      BY <1>0, <1>1, <3>2
    <3> QED BY <2>2, <3>1, <3>3
  <2> QED BY <2>1, <2>2
<1>5. conn' = [conn EXCEPT ![k] = r]
  BY <1>4
<1>6. /\ r \in Conns /\ r.fd = fd /\ r.wpdu_ = conn[k].wpdu_ /\ r.dead_ = conn[k].dead_ /\ r.eof = conn[k].eof
      /\ r.leaked = conn[k].leaked
      /\ r.refno_ = conn[k].refno_ + (IF jobq_' = jobq_ THEN 0 ELSE 1)
  <2>0. conn[k].refno_ \in Nat /\ conn[k].refno_ + 1 \in Nat
    BY <1>1 DEF Conns
  <2>1. CASE jobq_' = Append(jobq_, q) /\
             r = [conn[k] EXCEPT !.refno_ = conn[k].refno_ + 1, !.rpdu_ = "none", !.in = in]
    <3>1. jobq_' # jobq_
      BY <1>0, <1>3, <2>1
    <3> QED BY <1>1, <2>0, <2>1, <3>1 DEF Conns
  <2>2. CASE jobq_' = jobq_ /\ r = [conn[k] EXCEPT !.rpdu_ = kind, !.in = in]
    <3>1. r \in Conns /\ r.fd = fd /\ r.wpdu_ = conn[k].wpdu_ /\ r.dead_ = conn[k].dead_ /\ r.eof = conn[k].eof
          /\ r.leaked = conn[k].leaked /\ r.refno_ = conn[k].refno_
      BY <1>1, <2>2 DEF Conns
    <3> QED BY <2>0, <2>2, <3>1
  <2> QED BY <1>4, <2>1, <2>2
<1>7. r # Gone
  BY <1>6, ConnsNotGone
<1>8. /\ conn' \in Seq({Gone} \union Conns) /\ Len(conn') = Len(conn) /\ conn'[k] = r
      /\ \A j \in 1..Len(conn) : j # k => conn'[j] = conn[j]
  BY <1>0, <1>1, <1>5, <1>6, Update
<1>9. Placid(conn, conn')
  BY <1>1, <1>6, <1>7, <1>8 DEF Placid
<1>10. jobq_' \in Seq(Jobs(Len(conn))) /\ Len(jobq_') <= QMax
  <2>1. QMax \in Nat /\ Len(jobq_) <= QMax
    BY <1>0, BoundsAssumption DEF TypeInv
  <2>2. CASE jobq_' = jobq_
    BY <1>0, <2>1, <2>2
  <2>3. CASE Len(jobq_) < QMax /\ jobq_' = Append(jobq_, q)
    <3>1. Append(jobq_, q) \in Seq(Jobs(Len(conn))) /\ Len(Append(jobq_, q)) = Len(jobq_) + 1
      BY <1>0, <1>3
    <3> QED BY <1>0, <2>1, <2>3, <3>1
  <2> QED BY <1>4, <2>2, <2>3
<1>11. poll' \in [st : {"select", "ready", "aborted"}, r : SUBSET Fds, w : SUBSET Fds]
       /\ poll'.st = "ready" /\ poll'.r = poll.r \ {fd}
  BY <1>0 DEF TypeInv
<1>12. TypeInv'
  BY <1>0, <1>8, <1>10, <1>11 DEF TypeInv, Jobs, peerVars
<1>13. RefInv'
  <2>1. ASSUME NEW j \in 1..Len(conn)
        PROVE  Held'[j] = Held[j] + (IF j = k /\ jobq_' # jobq_ THEN 1 ELSE 0) /\ Held[j] \in Nat
    <3>1. InQueue(jobq_', j) = InQueue(jobq_, j) + (IF j = k /\ jobq_' # jobq_ THEN 1 ELSE 0)
      <4>1. CASE jobq_' = jobq_
        <5>1. InQueue(jobq_, j) \in Nat
          BY <1>0, HoldersType
        <5> QED BY <4>1, <5>1
      <4>2. CASE jobq_' # jobq_
        <5>1. jobq_' = Append(jobq_, q)
          BY <1>4, <4>2
        <5>2. InQueue(Append(jobq_, q), j) = InQueue(jobq_, j) + One(q.k = j)
          BY <1>0, <1>3, InQueueAppend
        <5>3. One(q.k = j) = IF j = k THEN 1 ELSE 0
          BY <1>3 DEF One
        <5> QED BY <4>2, <5>1, <5>2, <5>3
      <4> QED BY <4>1, <4>2
    <3>2. /\ Holders(j) = InTable(table, j) + InAccept(acceptor, j) + One(conns_ = j)
                      + InQueue(jobq_, j) + InPool(worker, j)
          /\ Holders(j)' = InTable(table, j) + InAccept(acceptor, j) + One(conns_ = j)
                      + InQueue(jobq_', j) + InPool(worker, j)
      BY HoldersAre, HoldersAreNext
    <3>3. /\ InTable(table, j) \in Nat /\ InAccept(acceptor, j) \in Nat /\ One(conns_ = j) \in Nat
          /\ InQueue(jobq_, j) \in Nat /\ InPool(worker, j) \in Nat /\ Holders(j) \in Nat
      BY <1>0, HoldersType
    <3>4. Holders(j)' = Holders(j) + (IF j = k /\ jobq_' # jobq_ THEN 1 ELSE 0)
      BY <3>1, <3>2, <3>3
    <3> QED BY <1>8, <3>3, <3>4 DEF Held
  <2>2. RefOK(conn, Held)
    BY <1>0 DEF RefInv
  <2>3. ASSUME NEW j \in 1..Len(conn')
        PROVE  IF conn'[j] = Gone THEN Held'[j] = 0 ELSE conn'[j].refno_ = Held'[j] + conn'[j].leaked
    <3>1. CASE j = k
      <4>1. conn[k].refno_ = Held[k] + conn[k].leaked /\ Held[k] \in Nat /\ conn[k].leaked \in Nat
        BY <1>1, <2>1, <2>2 DEF RefOK, Conns
      <4>2. Held'[k] = Held[k] + (IF jobq_' # jobq_ THEN 1 ELSE 0)
        BY <1>1, <2>1
      <4>3. conn'[j] = r
        BY <1>8, <3>1
      <4> QED BY <1>6, <1>7, <3>1, <4>1, <4>2, <4>3
    <3>2. CASE j # k
      <4>1. Held'[j] = Held[j] /\ conn'[j] = conn[j] /\ j \in 1..Len(conn)
        BY <1>8, <2>1, <3>2
      <4> QED BY <2>2, <4>1 DEF RefOK
    <3> QED BY <3>1, <3>2
  <2> QED BY <2>3 DEF RefInv, RefOK
<1>14. FdInv' /\ TableInv' /\ DispatchInv' /\ WatchInv' /\ WriterInv'
  BY <1>9, <1>12, <1>13, ReaderFrame
<1>15. PollInv'
  <2>1. Open' = Open
    BY <1>1, <1>7, <1>8 DEF Open, IsGone
  <2>2. \A j, S : RemovedIn(j, S)' <=> RemovedIn(j, S)
    BY DEF RemovedIn
  <2>3. ASSUME NEW f \in poll'.r PROVE Attended(f)' /\ Readable(f)'
    <3>1. f # fd /\ Attended(f) /\ Readable(f)
      BY <1>0, <1>11, <2>3 DEF PollInv
    <3>2. PICK j \in Open : conn[j].fd = f /\ (conn[j].dead_ => RemovedIn(j, {"removing"}))
      BY <3>1 DEF Attended
    <3>3. PICK i \in Open : conn[i].fd = f /\ (conn[i].in # <<>> \/ conn[i].eof)
      BY <3>1 DEF Readable
    <3>4. j # k /\ i # k /\ conn'[j] = conn[j] /\ conn'[i] = conn[i]
      BY <1>1, <1>8, <3>1, <3>2, <3>3 DEF Open
    <3> QED BY <2>1, <2>2, <3>2, <3>3, <3>4 DEF Attended, Readable
  <2> QED BY <1>11, <2>3 DEF PollInv
<1>16. PoolInv'
  <2>1. Exited' = {} /\ Exited = Exited' /\ Closing' = Closing
    BY <1>1 DEF Exited, Closing
  <2>2. Pills' = {}
    <3>1. \A i \in 1..Len(jobq_) : jobq_[i] # Pill
      BY <1>1 DEF Pills
    <3>2. \A i \in 1..Len(jobq_') : jobq_'[i] # Pill
      BY <1>0, <1>3, <1>4, <3>1
    <3> QED BY <3>2 DEF Pills
  <2> QED BY <1>0, <1>1, <2>1, <2>2 DEF PoolInv
<1> QED BY <1>12, <1>13, <1>14, <1>15, <1>16 DEF IInv

\* A signal of send_complete_ lets the writer of connection k go on.
LEMMA SignalFacts ==
  ASSUME TypeInv, NEW k, SignalComplete(k)
  PROVE  /\ worker' \in [Workers -> Threads(Len(conn))]
         /\ \A t \in Workers :
              \/ worker'[t] = worker[t] /\ ~(worker[t].st = "partial" /\ worker[t].k = k)
              \/ /\ worker[t].st = "partial" /\ worker[t].k = k
                 /\ worker'[t].st = "resumed" /\ worker'[t].k = k
<1>1. \A t \in Workers :
        \/ worker'[t] = worker[t] /\ ~(worker[t].st = "partial" /\ worker[t].k = k)
        \/ /\ worker[t].st = "partial" /\ worker[t].k = k
           /\ worker'[t] = [worker[t] EXCEPT !.st = "resumed"]
  BY DEF SignalComplete
<1>2. \A t \in Workers : worker[t] \in Threads(Len(conn))
  BY ThreadType
<1>3. \A t \in Workers : worker[t].st = "partial" =>
        /\ [worker[t] EXCEPT !.st = "resumed"] \in Threads(Len(conn))
        /\ [worker[t] EXCEPT !.st = "resumed"].st = "resumed"
        /\ [worker[t] EXCEPT !.st = "resumed"].k = worker[t].k
  BY <1>2 DEF Threads, AtWork
<1>4. worker' = [t \in Workers |-> worker'[t]]
  BY DEF SignalComplete
<1>5. \A t \in Workers : worker'[t] \in Threads(Len(conn))
  BY <1>1, <1>2, <1>3
<1>6. \A t \in Workers : worker[t].st = "partial" /\ worker[t].k = k /\
                         worker'[t] = [worker[t] EXCEPT !.st = "resumed"] =>
        worker'[t].st = "resumed" /\ worker'[t].k = k
  BY <1>3
<1>7. worker' \in [Workers -> Threads(Len(conn))]
  BY <1>4, <1>5
<1> QED BY <1>1, <1>6, <1>7

\* What a signal leaves: the holders, the writers, the removals.
LEMMA SignalFrame ==
  ASSUME TypeInv, TypeInv', DispatchInv, PoolInv, NEW k, SignalComplete(k), Len(conn') = Len(conn),
         UNCHANGED <<table, acceptor, jobq_, conns_, destroyer>>
  PROVE  /\ Held' = Held /\ Keeps(worker, worker') /\ DispatchInv' /\ PoolInv'
         /\ \A t \in Workers : /\ worker'[t].st \in Writing <=> worker[t].st \in Writing
                               /\ worker[t].st \in Writing => worker'[t].k = worker[t].k
                               /\ worker'[t].st \in {"asleep", "partial", "removing", "removed"} =>
                                    worker'[t] = worker[t]
                               /\ worker'[t].st = "partial" => worker[t].k # k
<1>1. \A t \in Workers :
        \/ worker'[t] = worker[t] /\ ~(worker[t].st = "partial" /\ worker[t].k = k)
        \/ /\ worker[t].st = "partial" /\ worker[t].k = k
           /\ worker'[t].st = "resumed" /\ worker'[t].k = k
  BY SignalFacts
<1>2. \A u \in Workers :
          /\ worker'[u].st \in {"idle", "exited"} <=> worker[u].st \in {"idle", "exited"}
          /\ worker[u].st \notin {"idle", "exited"} => worker'[u].k = worker[u].k
  BY <1>1
<1>3. Held' = Held
  BY <1>2, HeldSame
<1>4. Keeps(worker, worker')
  BY <1>1 DEF Keeps
<1>5. DispatchInv'
  <2>1. conns_' >= conns_
    BY DEF TypeInv
  <2>2. \A t \in Workers : worker'[t].st = "run" => worker[t].st = "run" /\ worker'[t].k = worker[t].k
    BY <1>1
  <2> QED BY <2>1, <2>2, DispatchFrame
<1>6. PoolInv'
  <2>1. \A t \in Workers : worker'[t].st = "exited" <=> worker[t].st = "exited"
    BY <1>1
  <2> QED BY <2>1, PoolFrame
<1>7. \A t \in Workers : /\ worker'[t].st \in Writing <=> worker[t].st \in Writing
                         /\ worker[t].st \in Writing => worker'[t].k = worker[t].k
                         /\ worker'[t].st \in {"asleep", "partial", "removing", "removed"} =>
                              worker'[t] = worker[t]
                         /\ worker'[t].st = "partial" => worker[t].k # k
  BY <1>1 DEF Writing
<1> QED BY <1>3, <1>4, <1>5, <1>6, <1>7

\* The poll thread kills a connection, whose descriptor it unwatches at once.
LEMMA PollKillsIInv ==
  ASSUME IInv, poll.st = "ready", NEW fd \in Fds, NEW k, k = callbacks_[fd], k # 0, ~conn[k].dead_,
         conn' = [conn EXCEPT ![k].dead_ = TRUE], DelCallback(fd), SignalComplete(k),
         poll' \in [st : {"select", "ready", "aborted"}, r : SUBSET Fds, w : SUBSET Fds],
         poll'.st = "ready", poll'.r \subseteq poll.r \ {fd},
         UNCHANGED <<peerVars, table, acceptor, pending_change_, jobq_, conns_, destroyer>>
  PROVE  IInv'
<1>0. /\ TypeInv /\ RefInv /\ FdInv /\ TableInv /\ DispatchInv /\ WatchInv /\ PollInv /\ WriterInv
      /\ PoolInv /\ AllThere
      /\ conn \in Seq({Gone} \union Conns) /\ callbacks_ \in [Fds -> 0..Len(conn)]
  BY There DEF IInv, TypeInv
<1>1. /\ k \in 1..Len(conn) /\ k \in Open /\ conn[k] \in Conns /\ conn[k] # Gone /\ conn[k].fd = fd
  BY CallbackFacts
<1>2. PICK r : r = [conn[k] EXCEPT !.dead_ = TRUE]
  OBVIOUS
<1>3. conn' = [conn EXCEPT ![k] = r]
  BY <1>2
<1>4. /\ r \in Conns /\ r.fd = fd /\ r.wpdu_ = conn[k].wpdu_ /\ r.dead_
      /\ r.leaked = conn[k].leaked /\ r.refno_ = conn[k].refno_
  <2>1. TRUE \in BOOLEAN
    OBVIOUS
  <2> QED BY <1>1, <1>2, <2>1 DEF Conns
<1>5. r # Gone
  BY <1>4, ConnsNotGone
<1>6. /\ conn' \in Seq({Gone} \union Conns) /\ Len(conn') = Len(conn) /\ conn'[k] = r
      /\ \A j \in 1..Len(conn) : j # k => conn'[j] = conn[j]
  <2>1. r \in {Gone} \union Conns /\ k \in 1..Len(conn) /\ conn \in Seq({Gone} \union Conns)
    BY <1>0, <1>1, <1>4
  <2>2. /\ [conn EXCEPT ![k] = r] \in Seq({Gone} \union Conns) /\ Len([conn EXCEPT ![k] = r]) = Len(conn)
        /\ [conn EXCEPT ![k] = r][k] = r
        /\ \A j \in 1..Len(conn) : j # k => [conn EXCEPT ![k] = r][j] = conn[j]
    BY <2>1, Update
  <2> QED BY <1>3, <2>2, Zenon
<1>7. Open' = Open
  BY <1>1, <1>5, <1>6 DEF Open, IsGone
<1>8. \A j \in Open : j # k => conn'[j] = conn[j] /\ conn[j].fd # fd /\ conn[j].fd \in Fds
  BY <1>0, <1>1, <1>6, ConnsNotGone DEF Open, FdInv, AllThere
<1>9. /\ rfds_' = rfds_ \ {fd} /\ wfds_' = wfds_ \ {fd} /\ callbacks_' = [callbacks_ EXCEPT ![fd] = 0]
  BY DEF DelCallback
<1>10. /\ callbacks_' \in [Fds -> 0..Len(conn)] /\ callbacks_'[fd] = 0
       /\ \A f \in Fds : f # fd => callbacks_'[f] = callbacks_[f]
  <2>1. 0 \in 0..Len(conn)
    BY <1>0
  <2> QED BY <1>0, <1>9, <2>1
<1>11. TypeInv'
  <2>1. worker' \in [Workers -> Threads(Len(conn))]
    BY <1>0, SignalFacts
  <2>2. rfds_' \subseteq Fds /\ wfds_' \subseteq Fds
    BY <1>0, <1>9 DEF TypeInv
  <2> QED BY <1>0, <1>6, <1>10, <2>1, <2>2 DEF TypeInv, Threads, peerVars
<1>12. /\ Held' = Held /\ Keeps(worker, worker') /\ DispatchInv' /\ PoolInv'
       /\ \A t \in Workers : /\ worker'[t].st \in Writing <=> worker[t].st \in Writing
                             /\ worker[t].st \in Writing => worker'[t].k = worker[t].k
                             /\ worker'[t].st \in {"asleep", "partial", "removing", "removed"} =>
                                  worker'[t] = worker[t]
                             /\ worker'[t].st = "partial" => worker[t].k # k
  BY <1>0, <1>6, <1>11, SignalFrame
<1>13. RefInv'
  BY <1>0, <1>1, <1>4, <1>5, <1>6, <1>12, RefFrame
<1>14. Onward(conn, conn')
  BY <1>1, <1>4, <1>5, <1>6 DEF Onward
<1>15. FdInv' /\ TableInv'
  BY <1>0, <1>11, <1>13, <1>14, FdFrame, TableFrame
<1>16. \A j : /\ RemovedIn(j, {"removing"}) => RemovedIn(j, {"removing"})'
              /\ RemovedIn(j, {"removing", "removed"}) => RemovedIn(j, {"removing", "removed"})'
  <2>1. \A t \in Workers : worker[t].st \in {"removing", "removed"} => worker'[t] = worker[t]
    BY <1>12 DEF Keeps
  <2> QED BY <2>1 DEF RemovedIn
<1>17. WatchInv'
  <2>1. ASSUME NEW f \in Fds, callbacks_'[f] # 0
        PROVE  /\ conn'[callbacks_'[f]].fd = f
               /\ conn'[callbacks_'[f]].dead_ => RemovedIn(callbacks_[f], {"removing", "removed"})'
               /\ callbacks_'[f] = callbacks_[f]
    <3>1. f # fd /\ callbacks_'[f] = callbacks_[f] /\ callbacks_[f] # 0
      BY <1>10, <2>1
    <3>2. PICK j \in 1..Len(conn) : j = callbacks_[f]
      BY <1>0, <3>1
    <3>3. conn[j].fd = f /\ (conn[j].dead_ => RemovedIn(j, {"removing", "removed"}))
      BY <1>0, <3>1, <3>2 DEF WatchInv
    <3>4. j # k /\ conn'[j] = conn[j]
      BY <1>1, <1>6, <3>1, <3>3
    <3>5. conn'[j].fd = f /\ (conn'[j].dead_ => RemovedIn(j, {"removing", "removed"})')
      BY <1>16, <3>3, <3>4
    <3> QED BY <3>1, <3>2, <3>5 DEF RemovedIn
  <2>2. ASSUME NEW t \in Workers, worker'[t].st \in {"removing", "removed"}
        PROVE  conn'[worker'[t].k].dead_
    <3>1. worker'[t] = worker[t] /\ conn[worker[t].k].dead_
      BY <1>0, <1>12, <2>2 DEF WatchInv
    <3>2. worker[t].k \in 1..Len(conn)
      BY <1>0, <2>2, <3>1 DEF AllThere, IsThere, Open, AtWork
    <3> QED BY <1>4, <1>6, <3>1, <3>2
  <2>3. ASSUME NEW f \in rfds_' \union wfds_'
        PROVE  \E j \in Open' : conn'[j].fd = f /\ ~conn'[j].dead_
    <3>1. f # fd /\ f \in rfds_ \union wfds_
      BY <1>9, <2>3
    <3>2. PICK j \in Open : conn[j].fd = f /\ ~conn[j].dead_
      BY <1>0, <3>1 DEF WatchInv
    <3>3. j # k
      BY <1>1, <3>1, <3>2
    <3> QED BY <1>7, <1>8, <3>2, <3>3
  <2>4. ASSUME NEW j \in Open', ~conn'[j].dead_
        PROVE  conn'[j].fd \in rfds_' /\ callbacks_'[conn'[j].fd] = j
    <3>1. j # k /\ j \in Open
      BY <1>4, <1>6, <1>7, <2>4
    <3>2. conn'[j] = conn[j] /\ conn[j].fd # fd /\ conn[j].fd \in Fds
      BY <1>8, <3>1
    <3> QED BY <1>0, <1>9, <1>10, <2>4, <3>1, <3>2 DEF WatchInv
  <2> QED BY <2>1, <2>2, <2>3, <2>4 DEF WatchInv
<1>18. PollInv'
  <2>1. ASSUME NEW f \in poll'.r PROVE Attended(f)' /\ Readable(f)'
    <3>1. f # fd /\ Attended(f) /\ Readable(f)
      BY <1>0, <2>1 DEF PollInv
    <3>2. PICK j \in Open : conn[j].fd = f /\ (conn[j].dead_ => RemovedIn(j, {"removing"}))
      BY <3>1 DEF Attended
    <3>3. PICK i \in Open : conn[i].fd = f /\ (conn[i].in # <<>> \/ conn[i].eof)
      BY <3>1 DEF Readable
    <3>4. j # k /\ i # k
      BY <1>1, <3>1, <3>2, <3>3
    <3>5. conn'[j] = conn[j] /\ conn'[i] = conn[i] /\ j \in Open' /\ i \in Open'
      BY <1>7, <1>8, <3>2, <3>3, <3>4
    <3>6. Attended(f)'
      BY <1>16, <3>2, <3>5 DEF Attended
    <3> QED BY <3>3, <3>5, <3>6 DEF Readable
  <2> QED BY <2>1 DEF PollInv
<1>19. WriterInv'
  <2>0. \A t \in Workers : worker[t].st \in Writing \union {"asleep"} => worker[t].k \in Open
    BY <1>0 DEF AllThere, IsThere, Writing, AtWork
  <2>1. \A j \in Open' : j \in Open /\ conn'[j].fd = conn[j].fd /\ conn'[j].wpdu_ = conn[j].wpdu_
                         /\ (conn[j].dead_ => conn'[j].dead_)
    BY <1>1, <1>4, <1>6, <1>7, <1>8
  <2>2. \A t \in Workers : worker'[t].st \in Writing => conn'[worker'[t].k].wpdu_ = t
    BY <1>0, <1>7, <1>12, <2>0, <2>1 DEF WriterInv
  <2>3. ASSUME NEW j \in Open', conn'[j].wpdu_ # Nobody
        PROVE  worker'[conn'[j].wpdu_].st \in Writing /\ worker'[conn'[j].wpdu_].k = j
    <3>1. j \in Open /\ conn'[j].wpdu_ = conn[j].wpdu_ /\ conn[j].wpdu_ \in Workers
      BY <1>0, <2>1, <2>3 DEF AllThere, Conns
    <3>2. worker[conn[j].wpdu_].st \in Writing /\ worker[conn[j].wpdu_].k = j
      BY <1>0, <2>3, <3>1 DEF WriterInv
    <3> QED BY <1>12, <3>1, <3>2
  <2>4. \A t \in Workers : worker'[t].st = "asleep" => conn'[worker'[t].k].wpdu_ # Nobody
    BY <1>0, <1>7, <1>12, <2>0, <2>1 DEF WriterInv
  <2>5. ASSUME NEW t \in Workers, worker'[t].st = "partial"
        PROVE  conn'[worker'[t].k].dead_ \/ conn'[worker'[t].k].fd \in wfds_'
    <3>1. worker'[t] = worker[t] /\ worker[t].k # k /\ worker[t].k \in Open
      BY <1>12, <2>0, <2>5 DEF Writing
    <3>2. conn'[worker[t].k] = conn[worker[t].k] /\ conn[worker[t].k].fd # fd
      BY <1>8, <3>1
    <3>3. conn[worker[t].k].dead_ \/ conn[worker[t].k].fd \in wfds_
      BY <1>0, <2>5, <3>1 DEF WriterInv
    <3> QED BY <1>9, <3>1, <3>2, <3>3
  <2>6. destroyer'.st = "removing" \/ (\E t \in Workers : worker'[t].st = "removing") => pending_change_'
    BY <1>0, <1>12 DEF WriterInv
  <2> QED BY <2>2, <2>3, <2>4, <2>5, <2>6 DEF WriterInv
<1> QED BY <1>11, <1>12, <1>13, <1>15, <1>17, <1>18, <1>19 DEF IInv

LEMMA ReadCbIInv == ASSUME IInv, ReadCb PROVE IInv'
<1>0. /\ TypeInv /\ PollInv /\ poll.st = "ready" /\ poll.r # {}
      /\ poll \in [st : {"select", "ready", "aborted"}, r : SUBSET Fds, w : SUBSET Fds]
      /\ UNCHANGED <<peerVars, table, acceptor, pending_change_, conns_, destroyer>>
  BY DEF IInv, ReadCb, TypeInv
<1>1. PICK fd : fd = Least(poll.r)
  OBVIOUS
<1>2. fd \in poll.r /\ fd \in Fds
  BY <1>0, <1>1, LeastIn
<1>3. PICK k : k = callbacks_[fd]
  OBVIOUS
<1>4. PICK p : p = [poll EXCEPT !.r = @ \ {fd}]
  OBVIOUS
<1>5. /\ p \in [st : {"select", "ready", "aborted"}, r : SUBSET Fds, w : SUBSET Fds]
      /\ p.st = "ready" /\ p.r = poll.r \ {fd}
  BY <1>0, <1>4
<1>6. CASE poll' = [poll EXCEPT !.r = @ \ {fd}] /\ UNCHANGED <<conn, jobq_, callbacks_, rfds_, wfds_, worker>>
  <2>1. poll' = p
    BY <1>4, <1>6
  <2>2. /\ poll' \in [st : {"select", "ready", "aborted"}, r : SUBSET Fds, w : SUBSET Fds]
        /\ poll'.st = "ready" /\ \A f \in poll'.r : Attended(f) /\ Readable(f)
    BY <1>0, <1>5, <2>1 DEF PollInv
  <2>3. UNCHANGED <<peerVars, conn, table, acceptor, callbacks_, rfds_, wfds_, pending_change_,
                    jobq_, worker, conns_, destroyer>>
    BY <1>0, <1>6
  <2> QED BY <2>2, <2>3, PollMoves
<1>7. CASE /\ k # 0 /\ ~conn[k].dead_ /\ conn[k].rpdu_ # "none"
           /\ Offer(k, conn[k].rpdu_, conn[k].in)
           /\ poll' = [poll EXCEPT !.r = @ \ {fd}]
           /\ UNCHANGED <<callbacks_, rfds_, wfds_, worker>>
  <2>1. conn[k] \in Conns
    BY <1>2, <1>3, <1>7, CallbackFacts
  <2>2. conn[k].rpdu_ \in Kinds /\ conn[k].in \in Seq(Kinds)
    BY <1>7, <2>1 DEF Conns
  <2> QED BY <1>0, <1>2, <1>3, <1>7, <2>2, OfferIInv
<1>8. CASE /\ k # 0 /\ ~conn[k].dead_ /\ conn[k].in # <<>>
           /\ Offer(k, Head(conn[k].in), Tail(conn[k].in))
           /\ poll' = [poll EXCEPT !.r = @ \ {fd}]
           /\ UNCHANGED <<callbacks_, rfds_, wfds_, worker>>
  <2>1. conn[k] \in Conns
    BY <1>2, <1>3, <1>8, CallbackFacts
  <2>2. conn[k].in \in Seq(Kinds)
    BY <2>1 DEF Conns
  <2>3. Head(conn[k].in) \in Kinds /\ Tail(conn[k].in) \in Seq(Kinds)
    BY <1>8, <2>2
  <2> QED BY <1>0, <1>2, <1>3, <1>8, <2>3, OfferIInv
<1>9. CASE /\ k # 0 /\ ~conn[k].dead_
           /\ conn' = [conn EXCEPT ![k].dead_ = TRUE] /\ DelCallback(fd) /\ SignalComplete(k)
           /\ poll' = [poll EXCEPT !.r = @ \ {fd}] /\ UNCHANGED jobq_
  <2>1. poll' = p
    BY <1>4, <1>9
  <2>2. /\ poll' \in [st : {"select", "ready", "aborted"}, r : SUBSET Fds, w : SUBSET Fds]
        /\ poll'.st = "ready" /\ poll'.r \subseteq poll.r \ {fd}
    BY <1>5, <2>1
  <2>3. UNCHANGED <<peerVars, table, acceptor, pending_change_, jobq_, conns_, destroyer>>
    BY <1>0, <1>9
  <2> QED BY <1>0, <1>2, <1>3, <1>9, <2>2, <2>3, PollKillsIInv
<1>10. CASE poll' = [poll EXCEPT !.st = "aborted"] /\ UNCHANGED <<conn, jobq_, callbacks_, rfds_, wfds_, worker>>
  <2>1. /\ poll' \in [st : {"select", "ready", "aborted"}, r : SUBSET Fds, w : SUBSET Fds]
        /\ poll'.st = "aborted"
    BY <1>0, <1>10
  <2>2. UNCHANGED <<peerVars, conn, table, acceptor, callbacks_, rfds_, wfds_, pending_change_,
                    jobq_, worker, conns_, destroyer>>
    BY <1>0, <1>10
  <2> QED BY <2>1, <2>2, PollMoves
<1> QED BY <1>1, <1>3, <1>6, <1>7, <1>8, <1>9, <1>10 DEF ReadCb

\* The poll thread finds nobody writing: it stops looking for room to write.
LEMMA UnwatchIInv ==
  ASSUME IInv, poll.st = "ready", poll.r = {}, NEW fd \in Fds, NEW k, k = callbacks_[fd], k # 0,
         ~conn[k].dead_, conn[k].wpdu_ = Nobody, wfds_' = wfds_ \ {fd},
         poll' = [poll EXCEPT !.w = @ \ {fd}],
         UNCHANGED <<conn, callbacks_, rfds_, worker>>,
         UNCHANGED <<peerVars, table, acceptor, pending_change_, jobq_, conns_, destroyer>>
  PROVE  IInv'
<1>0. /\ TypeInv /\ RefInv /\ FdInv /\ TableInv /\ DispatchInv /\ WatchInv /\ WriterInv /\ PoolInv
      /\ AllThere
  BY There DEF IInv
<1>1. k \in Open /\ conn[k].fd = fd
  BY CallbackFacts
<1>2. /\ poll' \in [st : {"select", "ready", "aborted"}, r : SUBSET Fds, w : SUBSET Fds]
      /\ poll'.st = "ready" /\ poll'.r = {}
  BY <1>0 DEF TypeInv
<1>3. TypeInv'
  BY <1>0, <1>2 DEF TypeInv, peerVars
<1>4. Held' = Held
  BY <1>0, HeldSame
<1>5. RefInv'
  BY <1>0, <1>4 DEF RefInv
<1>6. Fixed(conn, conn') /\ Onward(conn, conn') /\ Keeps(worker, worker') /\ DestroyerStays
  BY <1>0 DEF Fixed, Onward, Keeps, DestroyerStays, TypeInv
<1>7. FdInv' /\ TableInv' /\ WatchInv'
  BY <1>0, <1>3, <1>5, <1>6, FdFrame, TableFrame, WatchKept
<1>8. PollInv'
  BY <1>2 DEF PollInv
<1>9. WriterInv'
  <2>1. ASSUME NEW t \in Workers, worker[t].st = "partial"
        PROVE  conn[worker[t].k].dead_ \/ conn[worker[t].k].fd \in wfds_'
    <3>1. worker[t].k \in Open /\ conn[worker[t].k].wpdu_ = t
      BY <1>0, <2>1 DEF AllThere, IsThere, AtWork, WriterInv, Writing
    <3>2. worker[t].k # k
      BY <3>1, BoundsAssumption
    <3>3. conn[worker[t].k].fd # fd
      BY <1>0, <1>1, <3>1, <3>2 DEF FdInv
    <3> QED BY <1>0, <2>1, <3>3 DEF WriterInv
  <2>2. Open' = Open
    BY DEF Open, IsGone
  <2> QED BY <1>0, <2>1, <2>2 DEF WriterInv
<1>10. DispatchInv' /\ PoolInv'
  BY <1>0, PoolFrame DEF DispatchInv
<1> QED BY <1>3, <1>5, <1>7, <1>8, <1>9, <1>10 DEF IInv

\* The rest of a reply has gone out.
LEMMA WrittenIInv ==
  ASSUME IInv, poll.st = "ready", poll.r = {}, NEW fd \in Fds, NEW k, SignalComplete(k),
         poll' = [poll EXCEPT !.w = @ \ {fd}],
         UNCHANGED <<conn, callbacks_, rfds_, wfds_>>,
         UNCHANGED <<peerVars, table, acceptor, pending_change_, jobq_, conns_, destroyer>>
  PROVE  IInv'
<1>0. /\ TypeInv /\ RefInv /\ FdInv /\ TableInv /\ DispatchInv /\ WatchInv /\ WriterInv /\ PoolInv
      /\ AllThere
  BY There DEF IInv
<1>1. /\ poll' \in [st : {"select", "ready", "aborted"}, r : SUBSET Fds, w : SUBSET Fds]
      /\ poll'.st = "ready" /\ poll'.r = {}
  BY <1>0 DEF TypeInv
<1>2. TypeInv'
  <2>1. worker' \in [Workers -> Threads(Len(conn))]
    BY <1>0, SignalFacts
  <2> QED BY <1>0, <1>1, <2>1 DEF TypeInv, Threads, peerVars
<1>3. /\ Held' = Held /\ Keeps(worker, worker') /\ DispatchInv' /\ PoolInv'
      /\ \A t \in Workers : /\ worker'[t].st \in Writing <=> worker[t].st \in Writing
                            /\ worker[t].st \in Writing => worker'[t].k = worker[t].k
                            /\ worker'[t].st \in {"asleep", "partial", "removing", "removed"} =>
                                 worker'[t] = worker[t]
                            /\ worker'[t].st = "partial" => worker[t].k # k
  <2>1. Len(conn') = Len(conn)
    OBVIOUS
  <2> QED BY <1>0, <1>2, <2>1, SignalFrame
<1>4. RefInv'
  BY <1>0, <1>3 DEF RefInv
<1>5. Fixed(conn, conn') /\ Onward(conn, conn') /\ DestroyerStays
  BY <1>0 DEF Fixed, Onward, DestroyerStays, TypeInv
<1>6. FdInv' /\ TableInv' /\ WatchInv'
  BY <1>0, <1>2, <1>3, <1>4, <1>5, FdFrame, TableFrame, WatchKept
<1>7. PollInv'
  BY <1>1 DEF PollInv
<1>8. WriterInv'
  <2>1. \A j \in Open : conn[j].wpdu_ # Nobody => conn[j].wpdu_ \in Workers
    BY <1>0 DEF AllThere, Conns
  <2>2. Open' = Open
    BY DEF Open, IsGone
  <2>3. \A t \in Workers : worker'[t].st \in Writing => conn'[worker'[t].k].wpdu_ = t
    BY <1>0, <1>3 DEF WriterInv
  <2>4. \A j \in Open' : conn'[j].wpdu_ # Nobody =>
          worker'[conn'[j].wpdu_].st \in Writing /\ worker'[conn'[j].wpdu_].k = j
    BY <1>0, <1>3, <2>1, <2>2 DEF WriterInv
  <2>5. \A t \in Workers : worker'[t].st = "asleep" => conn'[worker'[t].k].wpdu_ # Nobody
    BY <1>0, <1>3 DEF WriterInv
  <2>6. \A t \in Workers : worker'[t].st = "partial" =>
          conn'[worker'[t].k].dead_ \/ conn'[worker'[t].k].fd \in wfds_'
    BY <1>0, <1>3 DEF WriterInv
  <2>7. destroyer'.st = "removing" \/ (\E t \in Workers : worker'[t].st = "removing") => pending_change_'
    BY <1>0, <1>3 DEF WriterInv
  <2> QED BY <2>3, <2>4, <2>5, <2>6, <2>7 DEF WriterInv
<1> QED BY <1>2, <1>3, <1>4, <1>6, <1>7, <1>8 DEF IInv

LEMMA WriteCbIInv == ASSUME IInv, NEW fails \in BOOLEAN, WriteCb(fails) PROVE IInv'
<1>0. /\ TypeInv /\ PollInv /\ poll.st = "ready" /\ poll.r = {} /\ poll.w # {}
      /\ poll \in [st : {"select", "ready", "aborted"}, r : SUBSET Fds, w : SUBSET Fds]
      /\ UNCHANGED <<peerVars, table, acceptor, pending_change_, jobq_, conns_, destroyer>>
  BY DEF IInv, WriteCb, TypeInv
<1>1. PICK fd : fd = Least(poll.w)
  OBVIOUS
<1>2. fd \in Fds
  BY <1>0, <1>1, LeastIn
<1>3. PICK k : k = callbacks_[fd]
  OBVIOUS
<1>4. PICK p : p = [poll EXCEPT !.w = @ \ {fd}]
  OBVIOUS
<1>5. /\ p \in [st : {"select", "ready", "aborted"}, r : SUBSET Fds, w : SUBSET Fds]
      /\ p.st = "ready" /\ p.r = {}
  BY <1>0, <1>4
<1>6. CASE poll' = [poll EXCEPT !.w = @ \ {fd}] /\ UNCHANGED <<conn, callbacks_, rfds_, wfds_, worker>>
  <2>1. /\ poll' \in [st : {"select", "ready", "aborted"}, r : SUBSET Fds, w : SUBSET Fds]
        /\ poll'.st = "ready" /\ \A f \in poll'.r : Attended(f) /\ Readable(f)
    BY <1>4, <1>5, <1>6
  <2>2. UNCHANGED <<peerVars, conn, table, acceptor, callbacks_, rfds_, wfds_, pending_change_,
                    jobq_, worker, conns_, destroyer>>
    BY <1>0, <1>6
  <2> QED BY <2>1, <2>2, PollMoves
<1>7. CASE poll' = [poll EXCEPT !.st = "aborted"] /\ UNCHANGED <<conn, callbacks_, rfds_, wfds_, worker>>
  <2>1. /\ poll' \in [st : {"select", "ready", "aborted"}, r : SUBSET Fds, w : SUBSET Fds]
        /\ poll'.st = "aborted"
    BY <1>0, <1>7
  <2>2. UNCHANGED <<peerVars, conn, table, acceptor, callbacks_, rfds_, wfds_, pending_change_,
                    jobq_, worker, conns_, destroyer>>
    BY <1>0, <1>7
  <2> QED BY <2>1, <2>2, PollMoves
<1>8. CASE /\ k # 0 /\ ~conn[k].dead_ /\ conn[k].wpdu_ = Nobody /\ wfds_' = wfds_ \ {fd}
           /\ poll' = [poll EXCEPT !.w = @ \ {fd}]
           /\ UNCHANGED <<conn, callbacks_, rfds_, worker>>
  BY <1>0, <1>2, <1>3, <1>8, UnwatchIInv
<1>9. CASE /\ SignalComplete(k) /\ poll' = [poll EXCEPT !.w = @ \ {fd}]
           /\ UNCHANGED <<conn, callbacks_, rfds_, wfds_>>
  BY <1>0, <1>2, <1>9, WrittenIInv
<1>10. CASE /\ k # 0 /\ ~conn[k].dead_
            /\ conn' = [conn EXCEPT ![k].dead_ = TRUE] /\ DelCallback(fd) /\ SignalComplete(k)
            /\ poll' = [poll EXCEPT !.w = @ \ {fd}]
  <2>1. /\ poll' \in [st : {"select", "ready", "aborted"}, r : SUBSET Fds, w : SUBSET Fds]
        /\ poll'.st = "ready" /\ poll'.r \subseteq poll.r \ {fd}
    BY <1>4, <1>5, <1>10
  <2> QED BY <1>0, <1>2, <1>3, <1>10, <2>1, PollKillsIInv
<1> QED BY <1>1, <1>3, <1>6, <1>7, <1>8, <1>9, <1>10 DEF WriteCb

LEMMA PollIInv == ASSUME IInv, PollStep PROVE IInv'
BY LoopTopIInv, SelectIInv, ReadCbIInv, WriteCbIInv DEF PollStep

-------------------------------------------------------------------------------
(* The destructor.                                                         *)

\* A step that touches neither a connection nor the removal of a descriptor.
LEMMA DestroyerMoves ==
  ASSUME IInv, TypeInv', RefInv', TableInv', PoolInv',
         destroyer.st \notin {"removing", "removed"}, destroyer'.st \notin {"removing", "removed"},
         UNCHANGED <<conn, table, pollVars, worker, conns_>>
  PROVE  IInv'
<1>0. TypeInv /\ FdInv /\ TableInv /\ DispatchInv /\ WatchInv /\ PollInv /\ WriterInv
  BY DEF IInv
<1>1. Calm(conn, conn') /\ Still(conn, conn') /\ Onward(conn, conn')
  <2>1. Calm(conn, conn')
    BY <1>0, ShrinksSelf, ShrinksIsCalm DEF TypeInv
  <2> QED BY <2>1, CalmIsOnward
<1>2. Keeps(worker, worker') /\ DestroyerStays /\ Early(worker, worker')
  BY DEF DestroyerStays, Keeps, Early
<1>3. UNCHANGED <<callbacks_, rfds_, wfds_, pending_change_, poll>>
  BY DEF pollVars
<1>4. FdInv'
  BY <1>0, <1>1, FdFrame
<1>5. WatchInv'
  BY <1>0, <1>1, <1>2, <1>3, WatchFrame
<1>6. PollInv'
  BY <1>0, <1>1, <1>2, <1>3, PollFrame
<1>7. WriterInv'
  BY <1>0, <1>1, <1>2, <1>3, WriterFrame
<1>8. DispatchInv'
  BY <1>0 DEF DispatchInv
<1> QED BY <1>4, <1>5, <1>6, <1>7, <1>8 DEF IInv

LEMMA WorkersCount == Cardinality(Workers) \in Nat /\ IsFiniteSet(Workers)
BY FS_CardinalityType, BoundsAssumption

LEMMA ShutdownIInv == ASSUME IInv, Shutdown PROVE IInv'
<1>0. /\ TypeInv /\ RefInv /\ TableInv /\ PoolInv
      /\ destroyer.st = "up" /\ destroyer' = [st |-> "join"] /\ destroyer'.st = "join"
      /\ UNCHANGED <<peerVars, conn, table, acceptor, pollVars, jobq_, worker, conns_>>
  BY DEF IInv, Shutdown
<1>1. TypeInv'
  BY <1>0 DEF TypeInv, peerVars, pollVars
<1>2. RefInv'
  <2>1. Held' = Held
    BY <1>0, HeldSame
  <2> QED BY <1>0, <2>1 DEF RefInv
<1>3. TableInv'
  <2>1. Accepting' = Accepting /\ ~Closing' /\ Open' = Open
    BY <1>0 DEF Accepting, Closing, Open, IsGone
  <2> QED BY <1>0, <2>1 DEF TableInv
<1>4. PoolInv'
  <2>1. Pills' = {} /\ Exited' = {} /\ ~Closing' /\ destroyer'.st # "down"
    BY <1>0 DEF PoolInv, Pills, Exited, Closing
  <2> QED BY <2>1 DEF PoolInv
<1> QED BY <1>0, <1>1, <1>2, <1>3, <1>4, DestroyerMoves

LEMMA JoinedIInv == ASSUME IInv, Joined PROVE IInv'
<1>0. /\ TypeInv /\ RefInv /\ TableInv /\ PoolInv
      /\ destroyer.st = "join" /\ acceptor.st = "exited"
      /\ destroyer' = [st |-> "close", todo |-> {fd \in Fds : table[fd] # 0},
                       pills |-> Cardinality(Workers)]
      /\ UNCHANGED <<peerVars, conn, table, acceptor, pollVars, jobq_, worker, conns_>>
  BY DEF IInv, Joined
<1>1. /\ destroyer'.st = "close" /\ destroyer'.todo = {fd \in Fds : table[fd] # 0}
      /\ destroyer'.pills = Cardinality(Workers)
      /\ destroyer' \in [st : {"close", "removing", "removed"}, todo : SUBSET Fds,
                         pills : 0..Cardinality(Workers)]
  BY <1>0, WorkersCount
<1>2. TypeInv'
  BY <1>0, <1>1 DEF TypeInv, peerVars, pollVars
<1>3. RefInv'
  <2>1. Held' = Held
    BY <1>0, HeldSame
  <2> QED BY <1>0, <2>1 DEF RefInv
<1>4. TableInv'
  <2>1. Accepting' = Accepting /\ Open' = Open
    BY <1>0 DEF Accepting, Open, IsGone
  <2> QED BY <1>0, <1>1, <2>1 DEF TableInv
<1>5. PoolInv'
  <2>1. Pills' = {} /\ Exited' = {}
    BY <1>0 DEF PoolInv, Pills, Exited
  <2>2. Cardinality(Workers \ Exited') = destroyer'.pills + Cardinality(Pills')
    <3>1. Workers \ Exited' = Workers
      BY <2>1
    <3>2. Cardinality(Pills') = 0
      BY <2>1, FS_EmptySet
    <3>3. destroyer'.pills + Cardinality(Pills') = Cardinality(Workers)
      BY <1>1, <3>2, WorkersCount
    <3> QED BY <3>1, <3>3
  <2>3. ~(destroyer'.pills < Cardinality(Workers))
    BY <1>1, WorkersCount
  <2> QED BY <1>1, <2>1, <2>2, <2>3 DEF PoolInv
<1>6. destroyer.st \notin {"removing", "removed"} /\ destroyer'.st \notin {"removing", "removed"}
  BY <1>0, <1>1
<1> QED BY <1>0, <1>2, <1>3, <1>4, <1>5, <1>6, DestroyerMoves

LEMMA AddPillIInv == ASSUME IInv, AddPill PROVE IInv'
<1>0. /\ TypeInv /\ RefInv /\ TableInv /\ PoolInv
      /\ destroyer.st = "close" /\ destroyer.todo = {} /\ destroyer.pills > 0
      /\ Len(jobq_) < QMax /\ jobq_' = Append(jobq_, Pill)
      /\ destroyer' = [destroyer EXCEPT !.pills = @ - 1]
      /\ UNCHANGED <<peerVars, conn, table, acceptor, pollVars, worker, conns_>>
      /\ jobq_ \in Seq(Jobs(Len(conn))) /\ Len(jobq_) \in Nat /\ Pill \in Jobs(Len(conn))
  BY DEF IInv, AddPill, TypeInv, Jobs
<1>1. /\ destroyer'.st = "close" /\ destroyer'.todo = {} /\ destroyer'.pills = destroyer.pills - 1
      /\ destroyer.pills \in Nat
      /\ destroyer' \in [st : {"close", "removing", "removed"}, todo : SUBSET Fds,
                         pills : 0..Cardinality(Workers)]
  <2>1. destroyer \in [st : {"close", "removing", "removed"}, todo : SUBSET Fds,
                       pills : 0..Cardinality(Workers)]
    BY <1>0 DEF TypeInv
  <2>2. destroyer.pills - 1 \in 0..Cardinality(Workers) /\ destroyer.pills \in Nat
    BY <1>0, <2>1, WorkersCount
  <2> QED BY <1>0, <2>1, <2>2
<1>2. /\ jobq_' \in Seq(Jobs(Len(conn))) /\ Len(jobq_') = Len(jobq_) + 1 /\ Len(jobq_') <= QMax
      /\ jobq_'[Len(jobq_) + 1] = Pill /\ \A i \in 1..Len(jobq_) : jobq_'[i] = jobq_[i]
  <2>1. QMax \in Nat
    BY BoundsAssumption
  <2> QED BY <1>0, <2>1
<1>3. TypeInv'
  BY <1>0, <1>1, <1>2 DEF TypeInv, Jobs, peerVars, pollVars
<1>4. RefInv'
  <2>1. ASSUME NEW j \in 1..Len(conn) PROVE Holders(j)' = Holders(j)
    <3>1. InQueue(Append(jobq_, Pill), j) = InQueue(jobq_, j) + One(Pill.k = j)
      BY <1>0, InQueueAppend
    <3>2. One(Pill.k = j) = 0 /\ InQueue(jobq_, j) \in Nat
      BY <1>0, HoldersType DEF Pill, One
    <3>3. InQueue(jobq_', j) = InQueue(jobq_, j)
      BY <1>0, <3>1, <3>2
    <3> QED BY <1>0, <3>3, HoldersAre, HoldersAreNext
  <2>2. Held' = Held
    BY <1>0, <2>1 DEF Held
  <2> QED BY <1>0, <2>2 DEF RefInv
<1>5. TableInv'
  <2>1. Accepting' = Accepting /\ Closing /\ Closing' /\ Open' = Open
    BY <1>0, <1>1 DEF Accepting, Closing, Open, IsGone
  <2> QED BY <1>0, <1>1, <2>1 DEF TableInv
<1>6. PoolInv'
  <2>0. Closing /\ Closing' /\ \A fd \in Fds : table[fd] = 0
    BY <1>0, <1>1 DEF Closing, TableInv
  <2>1. Exited' = Exited
    BY <1>0 DEF Exited
  <2>2. Pills' = Pills \union {Len(jobq_) + 1} /\ Pills \subseteq 1..Len(jobq_)
        /\ 1..Len(jobq_') = 1..Len(jobq_) \union {Len(jobq_) + 1}
    BY <1>0, <1>2 DEF Pills
  <2>3. Cardinality(Pills') = Cardinality(Pills) + 1 /\ Cardinality(Pills) \in Nat
    <3>1. Cardinality(Among(Append(jobq_, Pill), {Pill})) = Cardinality(Among(jobq_, {Pill})) + One(Pill \in {Pill})
      BY <1>0, AmongAppend
    <3>2. One(Pill \in {Pill}) = 1
      BY DEF One
    <3>3. Cardinality(Among(jobq_, {Pill})) \in Nat
      BY <1>0, AmongFinite
    <3> QED BY <1>0, <3>1, <3>2, <3>3, PillsAmong
  <2>4. Cardinality(Workers \ Exited') = destroyer'.pills + Cardinality(Pills')
    <3>1. Cardinality(Workers \ Exited) = destroyer.pills + Cardinality(Pills)
      BY <1>0, <2>0 DEF PoolInv
    <3>2. Workers \ Exited' = Workers \ Exited
      BY <2>1
    <3>3. destroyer'.pills + Cardinality(Pills') = destroyer.pills + Cardinality(Pills)
      BY <1>1, <2>3
    <3> QED BY <3>1, <3>2, <3>3
  <2>5. Exited' # {} => Pills' = 1..Len(jobq_')
    BY <1>0, <2>1, <2>2 DEF PoolInv
  <2>6. \A i, j \in 1..Len(jobq_') : i < j /\ i \in Pills' => j \in Pills'
    <3>1. \A i, j \in 1..Len(jobq_) : i < j /\ i \in Pills => j \in Pills
      BY <1>0 DEF PoolInv
    <3> QED BY <1>0, <2>2, <3>1
  <2> QED BY <1>0, <1>1, <2>0, <2>4, <2>5, <2>6 DEF PoolInv
<1>7. destroyer.st \notin {"removing", "removed"} /\ destroyer'.st \notin {"removing", "removed"}
  BY <1>0, <1>1
<1> QED BY <1>0, <1>3, <1>4, <1>5, <1>6, <1>7, DestroyerMoves

LEMMA DownIInv == ASSUME IInv, Down PROVE IInv'
<1>0. /\ TypeInv /\ RefInv /\ TableInv /\ PoolInv
      /\ destroyer.st = "close" /\ destroyer.pills = 0 /\ destroyer' = [st |-> "down"]
      /\ destroyer'.st = "down" /\ Exited = Workers
      /\ UNCHANGED <<peerVars, conn, table, acceptor, pollVars, jobq_, worker, conns_>>
      /\ jobq_ \in Seq(Jobs(Len(conn)))
  BY DEF IInv, Down, Exited, TypeInv, Jobs
<1>1. TypeInv'
  BY <1>0 DEF TypeInv, peerVars, pollVars
<1>2. RefInv'
  <2>1. Held' = Held
    BY <1>0, HeldSame
  <2> QED BY <1>0, <2>1 DEF RefInv
<1>3. TableInv'
  <2>1. Accepting' = Accepting /\ ~Closing' /\ Open' = Open
    BY <1>0 DEF Accepting, Closing, Open, IsGone
  <2> QED BY <1>0, <2>1 DEF TableInv
<1>4. PoolInv'
  <2>1. Exited' = Exited /\ Pills' = Pills /\ ~Closing' /\ Closing
    BY <1>0 DEF Exited, Pills, Closing
  <2>2. Exited # {} /\ Pills = 1..Len(jobq_)
    BY <1>0, BoundsAssumption DEF PoolInv
  <2>3. Pills = {}
    <3>1. IsFiniteSet(Pills) /\ Cardinality(Pills) \in Nat
      <4>1. IsFiniteSet(Among(jobq_, {Pill})) /\ Cardinality(Among(jobq_, {Pill})) \in Nat
        BY <1>0, AmongFinite
      <4> QED BY <4>1, PillsAmong
    <3>2. Cardinality(Workers \ Exited) = 0
      <4>1. Workers \ Exited = {}
        BY <1>0
      <4> QED BY <4>1, FS_EmptySet
    <3>3. Cardinality(Workers \ Exited) = 0 + Cardinality(Pills)
      BY <1>0, <2>1 DEF PoolInv
    <3>4. Cardinality(Pills) = 0
      BY <3>1, <3>2, <3>3
    <3> QED BY <3>1, <3>4, FS_EmptySet
  <2>4. jobq_ = <<>>
    BY <1>0, <2>2, <2>3
  <2> QED BY <1>0, <2>1, <2>2, <2>3, <2>4 DEF PoolInv
<1> QED BY <1>0, <1>1, <1>2, <1>3, <1>4, DestroyerMoves

\* The listener gives its reference to a dead connection back.
LEMMA DropFrame ==
  ASSUME IInv, destroyer.st \in {"close", "removed"}, destroyer.todo # {},
         NEW fd, fd = Least(destroyer.todo), conn[table[fd]].dead_, Drop(fd),
         callbacks_' \in [Fds -> 0..Len(conn)],
         UNCHANGED <<peerVars, acceptor, rfds_, wfds_, pending_change_, poll, jobq_, worker, conns_>>
  PROVE  /\ TypeInv' /\ RefInv' /\ FdInv' /\ TableInv' /\ DispatchInv' /\ PollInv' /\ WriterInv' /\ PoolInv'
         /\ Calm(conn, conn') /\ fd \in Fds /\ table[fd] # 0 /\ destroyer'.st = "close"
<1>0. /\ TypeInv /\ RefInv /\ FdInv /\ TableInv /\ DispatchInv /\ PollInv /\ WriterInv /\ PoolInv
      /\ Closing /\ acceptor.st = "exited"
  BY DEF IInv, Closing, TableInv
<1>1. destroyer \in [st : {"close", "removing", "removed"}, todo : SUBSET Fds,
                     pills : 0..Cardinality(Workers)]
  BY <1>0 DEF TypeInv
<1>2. /\ fd \in destroyer.todo /\ fd \in Fds /\ table[fd] # 0
      /\ destroyer.todo = {f \in Fds : table[f] # 0}
  <2>1. destroyer.todo = {f \in Fds : table[f] # 0}
    BY <1>0 DEF TableInv
  <2> QED BY <1>1, <2>1, LeastIn
<1>3. /\ conn' = Decref(conn, table[fd]) /\ table' = [table EXCEPT ![fd] = 0]
      /\ destroyer' = [destroyer EXCEPT !.st = "close", !.todo = @ \ {fd}]
  BY DEF Drop
<1>4. /\ destroyer' \in [st : {"close", "removing", "removed"}, todo : SUBSET Fds,
                         pills : 0..Cardinality(Workers)]
      /\ destroyer'.st = "close" /\ destroyer'.todo = destroyer.todo \ {fd}
      /\ destroyer'.pills = destroyer.pills
  BY <1>1, <1>3
<1>5. /\ Shrinks(conn, conn') /\ RefInv'
      /\ table' \in [Fds -> 0..Len(conn)] /\ table'[fd] = 0
      /\ \A f \in Fds : f # fd => table'[f] = table[f]
  <2>1. \A j \in 1..Len(conn) : InAccept(acceptor', j) = InAccept(acceptor, j)
    OBVIOUS
  <2> QED BY <1>0, <1>2, <1>3, <2>1, DropRef
<1>6. TypeInv'
  <2>1. conn' \in Seq({Gone} \union Conns) /\ Len(conn') = Len(conn)
    BY <1>5 DEF Shrinks
  <2> QED BY <1>0, <1>4, <1>5, <2>1 DEF TypeInv, peerVars
<1>7. Calm(conn, conn') /\ Still(conn, conn') /\ Onward(conn, conn')
  <2>1. Calm(conn, conn')
    BY <1>5, ShrinksIsCalm
  <2> QED BY <2>1, CalmIsOnward
<1>8. FdInv'
  BY <1>0, <1>7, FdFrame
<1>9. TableInv'
  <2>0. AllThere'
    BY <1>5, <1>6, ThereNext
  <2>1. \A j \in Open' : j \in Open /\ conn'[j].fd = conn[j].fd /\ conn'[j].dead_ = conn[j].dead_
    BY <1>7 DEF Calm, Open, IsGone
  <2>2. ~Accepting' /\ ~Accepting /\ acceptor'.st = "exited"
    BY <1>0 DEF Accepting
  <2>3. \A f \in Fds : table'[f] # 0 => f # fd /\ table'[f] = table[f] /\ table'[f] \in Open'
    BY <1>5, <2>0 DEF AllThere, IsThere
  <2>4. \A f \in Fds : table'[f] # 0 => conn'[table'[f]].fd = f
    BY <1>0, <2>1, <2>3 DEF TableInv
  <2>5. destroyer'.todo = {f \in Fds : table'[f] # 0}
    BY <1>2, <1>4, <1>5
  <2>6. ASSUME NEW j \in Open', ~conn'[j].dead_
        PROVE  table'[conn'[j].fd] = j
    <3>1. j \in Open /\ conn'[j].fd = conn[j].fd /\ ~conn[j].dead_ /\ conn'[j].fd \in Fds
      BY <2>0, <2>1, <2>6, ConnsNotGone DEF AllThere
    <3>2. table[conn[j].fd] = j
      BY <1>0, <2>2, <3>1 DEF TableInv
    <3>3. conn[j].fd # fd
      BY <3>1, <3>2
    <3> QED BY <1>5, <3>1, <3>2, <3>3
  <2> QED BY <1>4, <2>2, <2>4, <2>5, <2>6 DEF TableInv
<1>10. DispatchInv'
  BY <1>0 DEF DispatchInv
<1>11. PollInv'
  <2>1. destroyer.st # "removing"
    OBVIOUS
  <2> QED BY <1>0, <1>5, <1>6, <1>7, <2>1, PollFrame
<1>12. WriterInv'
  <2>1. Early(worker, worker') /\ destroyer'.st # "removing"
    BY <1>4 DEF Early
  <2> QED BY <1>0, <1>5, <1>6, <1>7, <2>1, WriterFrame
<1>13. PoolInv'
  <2>1. Pills = {} /\ Exited = {} /\ ~(destroyer.pills < Cardinality(Workers))
    BY <1>0, <1>2 DEF PoolInv
  <2>2. Pills' = {} /\ Exited' = {} /\ Pills' = Pills /\ Exited' = Exited
    BY <2>1 DEF Pills, Exited
  <2> QED BY <1>0, <1>4, <2>1, <2>2 DEF PoolInv
<1> QED BY <1>2, <1>4, <1>5, <1>6, <1>7, <1>8, <1>9, <1>10, <1>11, <1>12, <1>13

\* The destructor comes back from the loop, and drops the connection.
LEMMA ClosedIInv == ASSUME IInv, Closed PROVE IInv'
<1>0. /\ TypeInv /\ RefInv /\ FdInv /\ TableInv /\ WatchInv /\ AllThere
      /\ destroyer.st = "removed" /\ destroyer.todo # {} /\ conn[table[Least(destroyer.todo)]].dead_
      /\ UNCHANGED <<peerVars, acceptor, rfds_, wfds_, pending_change_, poll, jobq_, worker, conns_>>
      /\ callbacks_ \in [Fds -> 0..Len(conn)]
  BY There DEF IInv, Closed, TableInv, TypeInv
<1>1. PICK fd : fd = Least(destroyer.todo)
  OBVIOUS
<1>2. Drop(fd) /\ callbacks_' = [callbacks_ EXCEPT ![fd] = 0] /\ conn[table[fd]].dead_
  BY <1>0, <1>1 DEF Closed, RemoveEnd
<1>3. callbacks_' \in [Fds -> 0..Len(conn)]
  <2>1. 0 \in 0..Len(conn)
    BY <1>0 DEF TypeInv
  <2> QED BY <1>0, <1>2, <2>1
<1>4. /\ TypeInv' /\ RefInv' /\ FdInv' /\ TableInv' /\ DispatchInv' /\ PollInv' /\ WriterInv' /\ PoolInv'
      /\ Calm(conn, conn') /\ fd \in Fds /\ table[fd] # 0
  BY <1>0, <1>1, <1>2, <1>3, DropFrame
<1>5. PICK k : k = table[fd]
  OBVIOUS
<1>6. k \in Open /\ conn[k].fd = fd /\ conn[k].dead_
  BY <1>0, <1>2, <1>4, <1>5 DEF AllThere, IsThere, TableInv
<1>7. WatchInv'
  <2>0. AllThere'
    BY <1>4, ThereNext
  <2>1. \A j \in Open' : j \in Open /\ conn'[j].fd = conn[j].fd /\ conn'[j].dead_ = conn[j].dead_
    BY <1>4 DEF Calm, Open, IsGone
  <2>2. \A j \in Open : j \in Open' \/ conn[j].dead_
    BY <1>4 DEF Calm, Open, IsGone
  <2>3. /\ callbacks_'[fd] = 0 /\ \A f \in Fds : f # fd => callbacks_'[f] = callbacks_[f]
    BY <1>0, <1>2, <1>4
  <2>4. ASSUME NEW f \in Fds, callbacks_'[f] # 0
        PROVE  /\ conn'[callbacks_'[f]].fd = f
               /\ conn'[callbacks_'[f]].dead_ => RemovedIn(callbacks_[f], {"removing", "removed"})'
               /\ callbacks_'[f] = callbacks_[f]
    <3>1. f # fd /\ callbacks_'[f] = callbacks_[f] /\ callbacks_[f] # 0
      BY <2>3, <2>4
    <3>2. PICK j \in 1..Len(conn) : j = callbacks_[f]
      BY <1>0, <3>1
    <3>3. conn[j].fd = f /\ (conn[j].dead_ => RemovedIn(j, {"removing", "removed"}))
      BY <1>0, <3>1, <3>2 DEF WatchInv
    <3>4. j \in Open /\ j # k
      BY <1>6, <3>1, <3>3, BoundsAssumption DEF Open, IsGone, Gone
    <3>5. CASE conn[j].dead_
      <4>1. RemovedIn(j, {"removing", "removed"})
        BY <3>3, <3>5
      <4>2. table[Least(destroyer.todo)] # j /\ \A u \in Workers : worker'[u] = worker[u]
        BY <1>0, <1>1, <1>5, <3>4
      <4>3. RemovedIn(j, {"removing", "removed"})' /\ j \in Open'
        BY <1>0, <1>4, <4>1, <4>2, RemovedStays
      <4> QED BY <2>1, <3>1, <3>2, <3>3, <4>3 DEF RemovedIn
    <3>6. CASE ~conn[j].dead_
      BY <2>1, <2>2, <3>1, <3>2, <3>3, <3>4, <3>6
    <3> QED BY <3>5, <3>6
  <2>5. ASSUME NEW u \in Workers, worker'[u].st \in {"removing", "removed"}
        PROVE  conn'[worker'[u].k].dead_
    <3>1. conn[worker[u].k].dead_
      BY <1>0, <2>5 DEF WatchInv
    <3>2. worker'[u].k \in Open'
      BY <2>0, <2>5 DEF AllThere, IsThere, AtWork
    <3> QED BY <1>0, <2>1, <3>1, <3>2
  <2>6. \A f \in rfds_' \union wfds_' : \E j \in Open' : conn'[j].fd = f /\ ~conn'[j].dead_
    BY <1>0, <2>1, <2>2 DEF WatchInv
  <2>7. ASSUME NEW j \in Open', ~conn'[j].dead_
        PROVE  conn'[j].fd \in rfds_' /\ callbacks_'[conn'[j].fd] = j
    <3>1. j \in Open /\ j # k /\ conn[j].fd \in rfds_ /\ callbacks_[conn[j].fd] = j
      BY <1>0, <1>6, <2>1, <2>7 DEF WatchInv
    <3>2. conn[j].fd # fd /\ conn[j].fd \in Fds
      BY <1>0, <1>6, <3>1, ConnsNotGone DEF FdInv, AllThere
    <3> QED BY <1>0, <2>1, <2>3, <3>1, <3>2
  <2> QED BY <2>4, <2>5, <2>6, <2>7 DEF WatchInv
<1> QED BY <1>4, <1>7 DEF IInv

\* closeconn on a connection that lives: it dies, and the destructor waits for the loop.
LEMMA CloseLiveIInv ==
  ASSUME IInv, destroyer.st = "close", destroyer.todo # {},
         NEW fd, fd = Least(destroyer.todo), NEW k, k = table[fd], ~conn[k].dead_,
         conn' = [conn EXCEPT ![k].dead_ = TRUE, ![k].eof = TRUE], RemoveBegin(fd),
         destroyer' = [destroyer EXCEPT !.st = RemoveWait],
         UNCHANGED <<peerVars, table, acceptor, callbacks_, poll, jobq_, worker, conns_>>
  PROVE  IInv'
<1>0. /\ TypeInv /\ RefInv /\ FdInv /\ TableInv /\ DispatchInv /\ WatchInv /\ WriterInv /\ PoolInv
      /\ AllThere /\ Closing /\ acceptor.st = "exited" /\ conn \in Seq({Gone} \union Conns)
  BY There DEF IInv, Closing, TableInv, TypeInv
<1>1. destroyer \in [st : {"close", "removing", "removed"}, todo : SUBSET Fds,
                     pills : 0..Cardinality(Workers)]
  BY <1>0 DEF TypeInv
<1>2. /\ fd \in destroyer.todo /\ fd \in Fds /\ k # 0
      /\ destroyer.todo = {f \in Fds : table[f] # 0}
  <2>1. destroyer.todo = {f \in Fds : table[f] # 0}
    BY <1>0 DEF TableInv
  <2> QED BY <1>1, <2>1, LeastIn
<1>3. k \in Open /\ k \in 1..Len(conn) /\ conn[k] \in Conns /\ conn[k].fd = fd /\ conn[k] # Gone
  BY <1>0, <1>2, ConnsNotGone DEF AllThere, IsThere, TableInv, Open
<1>4. PICK r : r = [conn[k] EXCEPT !.dead_ = TRUE, !.eof = TRUE]
  OBVIOUS
<1>5. conn' = [conn EXCEPT ![k] = r]
  BY <1>0, <1>3, <1>4
<1>6. /\ r \in Conns /\ r.fd = fd /\ r.wpdu_ = conn[k].wpdu_ /\ r.dead_ /\ r.eof /\ r.in = conn[k].in
      /\ r.leaked = conn[k].leaked /\ r.refno_ = conn[k].refno_
  <2>1. TRUE \in BOOLEAN
    OBVIOUS
  <2> QED BY <1>3, <1>4, <2>1 DEF Conns
<1>7. r # Gone
  BY <1>6, ConnsNotGone
<1>8. /\ conn' \in Seq({Gone} \union Conns) /\ Len(conn') = Len(conn) /\ conn'[k] = r
      /\ \A j \in 1..Len(conn) : j # k => conn'[j] = conn[j]
  <2>1. r \in {Gone} \union Conns /\ k \in 1..Len(conn) /\ conn \in Seq({Gone} \union Conns)
    BY <1>0, <1>3, <1>6
  <2>2. /\ [conn EXCEPT ![k] = r] \in Seq({Gone} \union Conns) /\ Len([conn EXCEPT ![k] = r]) = Len(conn)
        /\ [conn EXCEPT ![k] = r][k] = r
        /\ \A j \in 1..Len(conn) : j # k => [conn EXCEPT ![k] = r][j] = conn[j]
    BY <2>1, Update
  <2> QED BY <1>5, <2>2, Zenon
<1>9. /\ destroyer' \in [st : {"close", "removing", "removed"}, todo : SUBSET Fds,
                         pills : 0..Cardinality(Workers)]
      /\ destroyer'.st = "removing" /\ destroyer'.todo = destroyer.todo
      /\ destroyer'.pills = destroyer.pills
  BY <1>1 DEF RemoveWait
<1>10. rfds_' = rfds_ \ {fd} /\ wfds_' = wfds_ \ {fd} /\ pending_change_' = TRUE
  BY DEF RemoveBegin
<1>11. TypeInv'
  <2>1. rfds_' \subseteq Fds /\ wfds_' \subseteq Fds /\ pending_change_' \in BOOLEAN
    BY <1>0, <1>10 DEF TypeInv
  <2> QED BY <1>0, <1>8, <1>9, <2>1 DEF TypeInv, peerVars
<1>12. RefInv'
  <2>1. Held' = Held
    BY <1>0, <1>8, HeldSame
  <2> QED BY <1>0, <1>3, <1>6, <1>7, <1>8, <2>1, RefFrame
<1>13. Open' = Open
  BY <1>3, <1>7, <1>8 DEF Open, IsGone
<1>14. RemovedIn(k, {"removing"})'
  BY <1>9 DEF RemovedIn
<1>15. \A j, S : RemovedIn(j, S) /\ S \subseteq {"removing", "removed"} => RemovedIn(j, S)'
  BY DEF RemovedIn
<1>16. \A u \in Workers : worker'[u].st \in {"removing", "removed"} => conn'[worker'[u].k].dead_
  <2> SUFFICES ASSUME NEW u \in Workers, worker'[u].st \in {"removing", "removed"}
               PROVE  conn'[worker'[u].k].dead_
    OBVIOUS
  <2>1. conn[worker[u].k].dead_ /\ worker[u].k \in 1..Len(conn)
    BY <1>0 DEF WatchInv, AllThere, IsThere, Open, AtWork
  <2> QED BY <1>6, <1>8, <2>1
<1>17. WatchInv' /\ PollInv' /\ Onward(conn, conn')
  <2>1. \A j \in Open :
          /\ RemovedIn(j, {"removing"}) => RemovedIn(j, {"removing"})'
          /\ RemovedIn(j, {"removing", "removed"}) => RemovedIn(j, {"removing", "removed"})'
    BY <1>15
  <2>2. /\ k \in Open /\ Len(conn') = Len(conn)
        /\ \A j \in 1..Len(conn) : j # k => conn'[j] = conn[j]
        /\ conn'[k].fd = conn[k].fd /\ conn'[k].dead_ /\ conn'[k].in = conn[k].in
        /\ conn[k].eof => conn'[k].eof
    BY <1>3, <1>6, <1>8
  <2>3. rfds_' = rfds_ \ {conn[k].fd} /\ wfds_' = wfds_ \ {conn[k].fd}
    BY <1>3, <1>10
  <2> QED BY <1>11, <1>12, <1>14, <1>16, <2>1, <2>2, <2>3, KillFrame
<1>18. FdInv'
  BY <1>0, <1>17, FdFrame
<1>19. TableInv'
  <2>1. \A j \in Open' : j \in Open /\ conn'[j].fd = conn[j].fd /\ (conn[j].dead_ => conn'[j].dead_)
    BY <1>3, <1>6, <1>8, <1>13 DEF Open
  <2>2. ~Accepting' /\ ~Accepting
    BY <1>0 DEF Accepting
  <2>3. \A f \in Fds : table'[f] # 0 => conn'[table'[f]].fd = f
    <3>1. \A f \in Fds : table[f] # 0 => table[f] \in Open'
      BY <1>0, <1>13 DEF AllThere, IsThere
    <3> QED BY <1>0, <2>1, <3>1 DEF TableInv
  <2>4. conn'[table'[Least(destroyer'.todo)]].dead_ /\ destroyer'.todo # {}
    BY <1>6, <1>8, <1>9
  <2>5. destroyer'.todo = {f \in Fds : table'[f] # 0}
    BY <1>2, <1>9
  <2>6. \A j \in Open' : conn'[j].dead_ \/ table'[conn'[j].fd] = j
    BY <1>0, <2>1, <2>2 DEF TableInv
  <2> QED BY <1>0, <1>9, <2>2, <2>3, <2>4, <2>5, <2>6 DEF TableInv
<1>20. DispatchInv'
  BY <1>0 DEF DispatchInv
<1>21. WriterInv'
  <2>0. \A t \in Workers : worker[t].st \in Writing \union {"asleep"} => worker[t].k \in Open
    BY <1>0 DEF AllThere, IsThere, Writing, AtWork
  <2>1. \A j \in Open : j \in Open' /\ conn'[j].fd = conn[j].fd /\ conn'[j].wpdu_ = conn[j].wpdu_
    BY <1>3, <1>6, <1>8, <1>13 DEF Open
  <2>2. \A t \in Workers : worker'[t].st \in Writing => conn'[worker'[t].k].wpdu_ = t
    BY <1>0, <2>0, <2>1 DEF WriterInv
  <2>3. \A j \in Open' : conn'[j].wpdu_ # Nobody =>
          worker'[conn'[j].wpdu_].st \in Writing /\ worker'[conn'[j].wpdu_].k = j
    <3>1. \A j \in Open : conn[j].wpdu_ # Nobody =>
            worker[conn[j].wpdu_].st \in Writing /\ worker[conn[j].wpdu_].k = j
      BY <1>0 DEF WriterInv
    <3>2. worker' = worker
      OBVIOUS
    <3> QED BY <1>13, <2>1, <3>1, <3>2
  <2>4. \A t \in Workers : worker'[t].st = "asleep" => conn'[worker'[t].k].wpdu_ # Nobody
    <3>1. \A t \in Workers : worker[t].st = "asleep" => conn[worker[t].k].wpdu_ # Nobody
      BY <1>0 DEF WriterInv
    <3>2. worker' = worker
      OBVIOUS
    <3> QED BY <2>0, <2>1, <3>1, <3>2
  <2>5. ASSUME NEW t \in Workers, worker'[t].st = "partial"
        PROVE  conn'[worker'[t].k].dead_ \/ conn'[worker'[t].k].fd \in wfds_'
    <3>1. worker[t].k \in Open /\ worker[t].k \in 1..Len(conn)
      BY <2>0, <2>5 DEF Writing, Open
    <3>2. CASE worker[t].k = k
      BY <1>6, <1>8, <3>2
    <3>3. CASE worker[t].k # k
      <4>1. conn'[worker[t].k] = conn[worker[t].k] /\ conn[worker[t].k].fd # fd
        BY <1>0, <1>3, <1>8, <3>1, <3>3 DEF FdInv
      <4>2. conn[worker[t].k].dead_ \/ conn[worker[t].k].fd \in wfds_
        BY <1>0, <2>5 DEF WriterInv
      <4> QED BY <1>10, <4>1, <4>2
    <3> QED BY <3>2, <3>3
  <2> QED BY <1>10, <2>2, <2>3, <2>4, <2>5 DEF WriterInv
<1>22. PoolInv'
  <2>1. Pills = {} /\ Exited = {} /\ ~(destroyer.pills < Cardinality(Workers))
    BY <1>0, <1>2 DEF PoolInv
  <2>2. Pills' = {} /\ Exited' = {} /\ Pills' = Pills /\ Exited' = Exited
    BY <2>1 DEF Pills, Exited
  <2> QED BY <1>0, <1>9, <2>1, <2>2 DEF PoolInv
<1> QED BY <1>11, <1>12, <1>17, <1>18, <1>19, <1>20, <1>21, <1>22 DEF IInv

LEMMA CloseConnIInv == ASSUME IInv, CloseConn PROVE IInv'
<1>0. /\ TypeInv /\ TableInv /\ WatchInv /\ destroyer.st = "close" /\ destroyer.todo # {}
      /\ UNCHANGED <<peerVars, acceptor, callbacks_, poll, jobq_, worker, conns_>>
  BY DEF IInv, CloseConn
<1>1. PICK fd : fd = Least(destroyer.todo)
  OBVIOUS
<1>2. PICK k : k = table[fd]
  OBVIOUS
<1>3. CASE conn[k].dead_
  <2>1. Drop(fd) /\ UNCHANGED <<rfds_, wfds_, pending_change_>>
    BY <1>1, <1>2, <1>3 DEF CloseConn
  <2>2. UNCHANGED <<peerVars, acceptor, rfds_, wfds_, pending_change_, poll, jobq_, worker, conns_>>
        /\ callbacks_' = callbacks_
    BY <1>0, <2>1
  <2>3. callbacks_' \in [Fds -> 0..Len(conn)] /\ conn[table[fd]].dead_ /\ destroyer.st \in {"close", "removed"}
    BY <1>0, <1>2, <1>3, <2>2 DEF TypeInv
  <2>4. /\ TypeInv' /\ RefInv' /\ FdInv' /\ TableInv' /\ DispatchInv' /\ PollInv' /\ WriterInv' /\ PoolInv'
        /\ Calm(conn, conn')
    BY <1>0, <1>1, <2>1, <2>2, <2>3, DropFrame
  <2>5. Still(conn, conn') /\ Keeps(worker, worker') /\ DestroyerStays
    BY <1>0, <2>4, CalmIsOnward DEF Keeps, DestroyerStays
  <2>6. WatchInv'
    BY <1>0, <2>2, <2>4, <2>5, WatchFrame
  <2> QED BY <2>4, <2>6 DEF IInv
<1>4. CASE ~conn[k].dead_
  <2>1. /\ conn' = [conn EXCEPT ![k].dead_ = TRUE, ![k].eof = TRUE] /\ RemoveBegin(fd)
        /\ destroyer' = [destroyer EXCEPT !.st = RemoveWait] /\ UNCHANGED table
    BY <1>1, <1>2, <1>4 DEF CloseConn
  <2>2. UNCHANGED <<peerVars, table, acceptor, callbacks_, poll, jobq_, worker, conns_>>
    BY <1>0, <2>1
  <2> QED BY <1>0, <1>1, <1>2, <1>4, <2>1, <2>2, CloseLiveIInv
<1> QED BY <1>3, <1>4

-------------------------------------------------------------------------------
(* The theorems.                                                           *)

LEMMA NextIInv == IInv /\ [Next]_vars => IInv'
<1> SUFFICES ASSUME IInv, [Next]_vars PROVE IInv'
  OBVIOUS
<1>1. CASE \E k \in ConnIds, kind \in Kinds : PeerSends(k, kind)
  BY <1>1, PeerIInv
<1>2. CASE \E k \in ConnIds : PeerCloses(k)
  <2>1. "call" \in Kinds
    BY DEF Kinds
  <2> QED BY <1>2, <2>1, PeerIInv
<1>3. CASE AcceptorStep \/ PollStep
  BY <1>3, AcceptorIInv, PollIInv
<1>4. ASSUME NEW t \in Workers, WorkerStep(t) PROVE IInv'
  BY <1>4, TakeIInv, ArrivedIInv, RanIInv, SendIInv, ResumedIInv DEF WorkerStep
<1>5. CASE Shutdown \/ DestroyerStep
  BY <1>5, ShutdownIInv, JoinedIInv, CloseConnIInv, ClosedIInv, AddPillIInv, DownIInv DEF DestroyerStep
<1>6. CASE UNCHANGED vars
  <2>0. TypeInv /\ RefInv /\ TableInv /\ PoolInv
    BY DEF IInv
  <2>1. UNCHANGED <<peerVars, conn, table, acceptor, pollVars, jobq_, worker, conns_, destroyer>>
    BY <1>6 DEF vars
  <2>2. TypeInv'
    BY <2>0, <2>1 DEF TypeInv, peerVars, pollVars
  <2>3. Held' = Held
    BY <2>0, <2>1, HeldSame
  <2>4. RefInv'
    BY <2>0, <2>1, <2>3 DEF RefInv
  <2>5. Calm(conn, conn') /\ Early(worker, worker')
    BY <2>0, <2>1, ShrinksSelf, ShrinksIsCalm DEF TypeInv, Early
  <2>6. FdInv' /\ TableInv' /\ WatchInv' /\ PollInv' /\ WriterInv'
    BY <2>1, <2>2, <2>4, <2>5, QuietFrame
  <2>7. DispatchInv' /\ PoolInv'
    BY <2>1, PoolFrame DEF IInv, DispatchInv
  <2> QED BY <2>2, <2>4, <2>6, <2>7 DEF IInv
<1> QED BY <1>1, <1>2, <1>3, <1>4, <1>5, <1>6 DEF Next

\* The conjunction of the parts above holds in every state: it is the inductive
\* invariant of the listener, the poll thread, the pool and the destructor.
THEOREM Invariance == Spec => []IInv
BY InitIInv, NextIInv, PTL DEF Spec

\* Every connection's refno_ is the number of those who refer to it plus the leaked
\* ones: no path of accept, dispatch, send, garbage collection or destruction
\* forgets a decref, or gives a reference back twice.
THEOREM RefsExactHolds == Spec => []RefsExact
<1>1. IInv => RefsExact
  <2> SUFFICES ASSUME IInv, NEW k \in Open PROVE conn[k].refno_ = Holders(k) + conn[k].leaked
    BY DEF RefsExact
  <2>1. k \in 1..Len(conn) /\ conn[k] # Gone
    BY DEF Open, IsGone
  <2> QED BY <2>1 DEF IInv, RefInv, RefOK, Held
<1> QED BY <1>1, Invariance, PTL

\* The destructor that decref calls never leaves behind a table entry, a job, a
\* thread, a callback or a watched descriptor of the connection it deletes.
THEOREM NoDanglingHolds == Spec => []NoDangling
<1>1. IInv => NoDangling
  <2> SUFFICES ASSUME IInv PROVE NoDangling
    OBVIOUS
  <2>0. TypeInv /\ RefInv /\ WatchInv /\ PollInv
    BY DEF IInv
  <2>1. \A k \in 1..Len(conn) : IsGone(k) => Holders(k) = 0
    BY <2>0 DEF RefInv, RefOK, Held, IsGone
  <2>2. \A fd \in Fds : callbacks_[fd] # 0 => ~IsGone(callbacks_[fd]) /\ conn[callbacks_[fd]].fd = fd
    BY <2>0, BoundsAssumption DEF WatchInv, IsGone, Gone
  <2>3. (rfds_ \union wfds_) \intersect FreeFds = {}
    BY <2>0 DEF WatchInv, FreeFds
  <2>4. poll.st = "select" => (poll.r \union poll.w) \intersect FreeFds = {}
    BY <2>0 DEF PollInv, Attended, FreeFds
  <2> QED BY <2>1, <2>2, <2>3, <2>4 DEF NoDangling
<1> QED BY <1>1, Invariance, PTL

\* No reused descriptor is read for the connection that had it before: neither
\* VERIFY(errno!=EAGAIN) of readpdu nor the one of add_callback can fail.
THEOREM FreshFdHolds == Spec => []FreshFd
<1>1. IInv => FreshFd
  <2> SUFFICES ASSUME IInv PROVE FreshFd
    OBVIOUS
  <2>0. TypeInv /\ WatchInv /\ PollInv
    BY DEF IInv
  <2>1. poll.st = "ready" => \A fd \in poll.r : Readable(fd)
    BY <2>0 DEF PollInv
  <2>2. \A fd \in FreeFds : callbacks_[fd] = 0
    <3> SUFFICES ASSUME NEW fd \in FreeFds, callbacks_[fd] # 0 PROVE FALSE
      OBVIOUS
    <3>1. fd \in Fds /\ \A k \in Open : conn[k].fd # fd
      BY DEF FreeFds
    <3>2. PICK k \in 1..Len(conn) : k = callbacks_[fd]
      BY <2>0, <3>1 DEF TypeInv
    <3>3. conn[k].fd = fd
      BY <2>0, <3>1, <3>2 DEF WatchInv
    <3>4. k \in Open
      BY <3>1, <3>2, <3>3, BoundsAssumption DEF Open, IsGone, Gone
    <3> QED BY <3>1, <3>3, <3>4
  <2> QED BY <2>1, <2>2 DEF FreshFd
<1> QED BY <1>1, Invariance, PTL

\* The pool ends behind the last request: no job is queued behind a pill, because
\* no connection is alive any more, and when the server is gone so are the jobs and
\* the callbacks.
THEOREM PillsAreLastHolds == Spec => []PillsAreLast
<1>1. IInv => PillsAreLast
  <2> SUFFICES ASSUME IInv PROVE PillsAreLast
    OBVIOUS
  <2>0. TypeInv /\ TableInv /\ WatchInv /\ PoolInv
    BY DEF IInv
  <2>1. \A i, j \in 1..Len(jobq_) : i < j /\ jobq_[i] = Pill => jobq_[j] = Pill
    BY <2>0 DEF PoolInv, Pills
  <2>2. ASSUME Pills # {} \/ Exited # {}, NEW fd \in Fds, callbacks_[fd] # 0
        PROVE  conn[callbacks_[fd]].dead_
    <3>1. destroyer.st \in {"close", "down"} /\ \A f \in Fds : table[f] = 0
      BY <2>0, <2>2 DEF PoolInv
    <3>2. ~Accepting
      BY <2>0, <3>1 DEF TableInv, Accepting
    <3>3. PICK k \in 1..Len(conn) : k = callbacks_[fd]
      BY <2>0, <2>2 DEF TypeInv
    <3>4. conn[k].fd = fd
      BY <2>0, <2>2, <3>3 DEF WatchInv
    <3>5. k \in Open
      BY <3>3, <3>4, BoundsAssumption DEF Open, IsGone, Gone
    <3>6. conn[k].dead_ \/ table[conn[k].fd] = k
      BY <2>0, <3>2, <3>5 DEF TableInv
    <3> QED BY <3>1, <3>3, <3>4, <3>6
  <2>3. Pill \in {jobq_[i] : i \in 1..Len(jobq_)} => Pills # {}
    BY DEF Pills
  <2>4. ASSUME destroyer.st = "down"
        PROVE  jobq_ = <<>> /\ \A fd \in Fds : callbacks_[fd] = 0
    <3>1. Exited = Workers /\ Exited # {} /\ jobq_ = <<>>
      BY <2>0, <2>4, BoundsAssumption DEF PoolInv
    <3>2. ASSUME NEW fd \in Fds, callbacks_[fd] # 0 PROVE FALSE
      <4>1. conn[callbacks_[fd]].dead_
        BY <2>2, <3>1, <3>2
      <4>2. RemovedIn(callbacks_[fd], {"removing", "removed"})
        BY <2>0, <3>2, <4>1 DEF WatchInv
      <4>3. \A t \in Workers : worker[t].st = "exited"
        BY <3>1 DEF Exited
      <4> QED BY <2>4, <4>2, <4>3 DEF RemovedIn
    <3> QED BY <3>1, <3>2
  <2> QED BY <2>1, <2>2, <2>3, <2>4 DEF PillsAreLast
<1> QED BY <1>1, Invariance, PTL

\* Nobody waits for what will not come: block_remove_fd for the loop, a sender for
\* wpdu_ or for send_complete_, a refused request for its descriptor to be looked
\* at, ~ThrPool for its threads.
THEOREM WaitsAnsweredHolds == Spec => []WaitsAnswered
<1>1. IInv => WaitsAnswered
  <2> SUFFICES ASSUME IInv PROVE WaitsAnswered
    OBVIOUS
  <2>0. TypeInv /\ RefInv /\ WatchInv /\ WriterInv /\ PoolInv /\ AllThere
    BY There DEF IInv
  <2>1. destroyer.st = "removing" \/ (\E t \in Workers : worker[t].st = "removing") => pending_change_
    BY <2>0 DEF WriterInv
  <2>2. ASSUME NEW t \in Workers, worker[t].st = "asleep"
        PROVE  conn[worker[t].k].wpdu_ \notin {Nobody, t}
    <3>1. worker[t].k \in Open
      BY <2>0, <2>2 DEF AllThere, IsThere, AtWork
    <3>2. conn[worker[t].k].wpdu_ # Nobody
      BY <2>0, <2>2 DEF WriterInv
    <3>3. worker[conn[worker[t].k].wpdu_].st \in Writing
      BY <2>0, <3>1, <3>2 DEF WriterInv
    <3>4. "asleep" \notin Writing
      BY DEF Writing
    <3> QED BY <2>2, <3>2, <3>3, <3>4
  <2>3. \A k \in Open : ~conn[k].dead_ => conn[k].fd \in rfds_ /\ callbacks_[conn[k].fd] = k
    BY <2>0 DEF WatchInv
  <2>4. ASSUME NEW t \in Workers, worker[t].st = "partial"
        PROVE  \/ conn[worker[t].k].dead_
               \/ conn[worker[t].k].fd \in wfds_ /\ callbacks_[conn[worker[t].k].fd] = worker[t].k
    <3>1. worker[t].k \in Open
      BY <2>0, <2>4 DEF AllThere, IsThere, AtWork
    <3>2. conn[worker[t].k].dead_ \/ conn[worker[t].k].fd \in wfds_
      BY <2>0, <2>4 DEF WriterInv
    <3> QED BY <2>3, <3>1, <3>2
  <2>5. ASSUME destroyer.st = "close"
        PROVE  Count({t \in Workers : worker[t].st # "exited"})
                 = destroyer.pills + Count({i \in 1..Len(jobq_) : jobq_[i] = Pill})
    <3>1. Cardinality(Workers \ Exited) = destroyer.pills + Cardinality(Pills)
      BY <2>0, <2>5 DEF PoolInv, Closing
    <3>2. Workers \ Exited = {t \in Workers : worker[t].st # "exited"}
      BY DEF Exited
    <3> QED BY <3>1, <3>2 DEF Count, Pills
  <2> QED BY <2>1, <2>2, <2>3, <2>4, <2>5 DEF WaitsAnswered
<1> QED BY <1>1, Invariance, PTL

-------------------------------------------------------------------------------
(* The references that are never given back are no more than the requests  *)
(* that came: every request is in the socket, in rpdu_, in the queue, with *)
(* a thread or lost, on the connection it came on.  Only a call changes    *)
(* its connection, when it has run.                                        *)

OldAt(w, t, k) == w[t].st \in AtWork /\ w[t].kind = "old" /\ w[t].k = k
OldPool(w, k) == Cardinality({t \in Workers : OldAt(w, t, k)})

\* What came on connection k, which is r, of queue q and threads w.
Owed(r, q, w, k) == r.leaked + Len(r.in) + One(r.rpdu_ # "none") + InQueue(q, k) + OldPool(w, k)

\* A request for an old instance goes from the queue to its refusal.
OnlyCalls(w) == \A t \in Workers : w[t].st \in {"arrived", "run"} => w[t].kind # "old"

OldInv == /\ OnlyCalls(worker)
          /\ \A k \in Open : Owed(conn[k], jobq_, worker, k) <= came

LEMMA OldPoolNat ==
  ASSUME NEW w, NEW k
  PROVE  IsFiniteSet({t \in Workers : OldAt(w, t, k)}) /\ OldPool(w, k) \in Nat
<1>1. IsFiniteSet({t \in Workers : OldAt(w, t, k)})
  <2>1. {t \in Workers : OldAt(w, t, k)} \in SUBSET Workers
    OBVIOUS
  <2> QED BY <2>1, FS_Subset, BoundsAssumption
<1> QED BY <1>1, FS_CardinalityType DEF OldPool

\* No thread gets a refusal to send, and none but t loses it.
FewerOld(w, x) == \A u \in Workers : \A k : OldAt(x, u, k) => OldAt(w, u, k)
SameOld(w, x, t) == \A u \in Workers \ {t} : \A k : OldAt(x, u, k) <=> OldAt(w, u, k)

LEMMA OldPoolLess ==
  ASSUME NEW w, NEW x, NEW k, FewerOld(w, x)
  PROVE  OldPool(x, k) <= OldPool(w, k)
<1> DEFINE S == {t \in Workers : OldAt(w, t, k)}
           U == {t \in Workers : OldAt(x, t, k)}
<1>1. U \subseteq S
  BY DEF FewerOld
<1>2. IsFiniteSet(S)
  BY OldPoolNat
<1> HIDE DEF S, U
<1>3. U \in SUBSET S
  BY <1>1
<1>4. Cardinality(U) <= Cardinality(S)
  BY <1>2, <1>3, FS_Subset
<1> QED BY <1>4 DEF S, U, OldPool

LEMMA OldPoolStep ==
  ASSUME NEW w, NEW x, NEW t \in Workers, NEW k, SameOld(w, x, t)
  PROVE  OldPool(x, k) + One(OldAt(w, t, k)) = OldPool(w, k) + One(OldAt(x, t, k))
<1> DEFINE S == {u \in Workers : OldAt(w, u, k)}
           U == {u \in Workers : OldAt(x, u, k)}
<1>1. S \ {t} = U \ {t}
  BY DEF SameOld
<1>2. (t \in S <=> OldAt(w, t, k)) /\ (t \in U <=> OldAt(x, t, k))
  OBVIOUS
<1>3. IsFiniteSet(S)
  BY OldPoolNat
<1> HIDE DEF S, U
<1>4. Cardinality(U) + One(t \in S) = Cardinality(S) + One(t \in U)
  BY <1>1, <1>3, Differ
<1>5. One(t \in S) = One(OldAt(w, t, k)) /\ One(t \in U) = One(OldAt(x, t, k))
  BY <1>2 DEF One
<1> QED BY <1>4, <1>5 DEF S, U, OldPool

LEMMA SumNat ==
  ASSUME NEW a \in Nat, NEW b \in Nat, NEW c \in Nat, NEW d \in Nat, NEW e \in Nat
  PROVE  a + b + c + d + e \in Nat
OBVIOUS

\* The counts of Owed are numbers.
LEMMA OwedNat ==
  ASSUME TypeInv, NEW k \in Open
  PROVE  /\ conn[k] \in Conns /\ conn[k].leaked \in Nat /\ Len(conn[k].in) \in Nat
         /\ One(conn[k].rpdu_ # "none") \in Nat
         /\ InQueue(jobq_, k) \in Nat /\ OldPool(worker, k) \in Nat
         /\ Owed(conn[k], jobq_, worker, k) \in Nat /\ came \in Nat
<1>1. conn[k] \in Conns
  BY DEF Open, IsGone, TypeInv
<1>2. conn[k].leaked \in Nat /\ conn[k].in \in Seq(Kinds) /\ came \in Nat
  BY <1>1 DEF Conns, TypeInv
<1>3. Len(conn[k].in) \in Nat
  BY <1>2
<1>4. One(conn[k].rpdu_ # "none") \in Nat
  BY DEF One
<1>5. InQueue(jobq_, k) \in Nat /\ OldPool(worker, k) \in Nat
  BY HoldersType, OldPoolNat
<1>6. Owed(conn[k], jobq_, worker, k) \in Nat
  BY <1>2, <1>3, <1>4, <1>5, SumNat DEF Owed
<1> QED BY <1>1, <1>2, <1>3, <1>4, <1>5, <1>6

LEMMA OwedNatNext ==
  ASSUME TypeInv', NEW k, k \in Open'
  PROVE  /\ conn'[k] \in Conns /\ conn'[k].leaked \in Nat /\ Len(conn'[k].in) \in Nat
         /\ One(conn'[k].rpdu_ # "none") \in Nat
         /\ InQueue(jobq_', k) \in Nat /\ OldPool(worker', k) \in Nat
         /\ Owed(conn'[k], jobq_', worker', k) \in Nat /\ came' \in Nat
<1>1. conn'[k] \in Conns
  BY DEF Open, IsGone, TypeInv
<1>2. conn'[k].leaked \in Nat /\ conn'[k].in \in Seq(Kinds) /\ came' \in Nat
  BY <1>1 DEF Conns, TypeInv
<1>3. Len(conn'[k].in) \in Nat
  BY <1>2
<1>4. One(conn'[k].rpdu_ # "none") \in Nat
  BY DEF One
<1>5. InQueue(jobq_', k) \in Nat
  <2>1. jobq_' \in Seq(Jobs(Len(conn'))) /\ Len(conn') \in Nat
    BY DEF TypeInv, Jobs
  <2>2. k \in 1..Len(conn')
    BY DEF Open
  <2> QED BY <2>1, <2>2, InQueueNat
<1>6. OldPool(worker', k) \in Nat
  BY OldPoolNat
<1>7. Owed(conn'[k], jobq_', worker', k) \in Nat
  BY <1>2, <1>3, <1>4, <1>5, <1>6, SumNat DEF Owed
<1> QED BY <1>1, <1>2, <1>3, <1>4, <1>5, <1>6, <1>7

\* From c to d connections are deleted or keep what came on them.
Untouched(c, d) ==
  /\ Len(d) = Len(c)
  /\ \A k \in 1..Len(c) :
       \/ d[k] = Gone
       \/ c[k] # Gone /\ d[k].leaked = c[k].leaked /\ d[k].in = c[k].in /\ d[k].rpdu_ = c[k].rpdu_

LEMMA OldFrame ==
  ASSUME TypeInv, TypeInv', OldInv, Untouched(conn, conn'), FewerOld(worker, worker'),
         OnlyCalls(worker'), UNCHANGED <<came, jobq_>>
  PROVE  OldInv'
<1> SUFFICES ASSUME NEW k, k \in Open' PROVE Owed(conn'[k], jobq_', worker', k) <= came'
  BY DEF OldInv
<1>1. k \in 1..Len(conn') /\ conn'[k] # Gone /\ Len(conn') = Len(conn)
  BY DEF Open, IsGone, Untouched
<1>2. /\ k \in Open /\ conn'[k].leaked = conn[k].leaked /\ conn'[k].in = conn[k].in
      /\ conn'[k].rpdu_ = conn[k].rpdu_
  BY <1>1 DEF Open, IsGone, Untouched
<1>3. OldPool(worker', k) <= OldPool(worker, k)
  BY OldPoolLess
<1>4. Owed(conn[k], jobq_, worker, k) <= came
  BY <1>2 DEF OldInv
<1>5. /\ conn[k].leaked \in Nat /\ Len(conn[k].in) \in Nat /\ One(conn[k].rpdu_ # "none") \in Nat
      /\ InQueue(jobq_, k) \in Nat /\ OldPool(worker, k) \in Nat /\ OldPool(worker', k) \in Nat
      /\ came \in Nat
  BY <1>2, OwedNat, OldPoolNat
<1>6. PICK a, b, c, d, e, f : /\ a = conn[k].leaked /\ b = Len(conn[k].in) /\ c = One(conn[k].rpdu_ # "none")
                              /\ d = InQueue(jobq_, k) /\ e = OldPool(worker, k) /\ f = OldPool(worker', k)
  OBVIOUS
<1>7. a + b + c + d + e <= came
  BY <1>4, <1>6 DEF Owed
<1>8. Owed(conn'[k], jobq_', worker', k) = a + b + c + d + f
  BY <1>2, <1>6 DEF Owed
<1>9. a \in Nat /\ b \in Nat /\ c \in Nat /\ d \in Nat /\ e \in Nat /\ f \in Nat /\ came \in Nat /\ f <= e
  BY <1>3, <1>5, <1>6
<1> QED BY <1>7, <1>8, <1>9

\* Taking and giving references touches nothing else; refno_ may be any number here.
Loose == {Gone} \union
         [fd : Fds, in : Seq(Kinds), eof : BOOLEAN, rpdu_ : Kinds \union {"none"},
          wpdu_ : Workers \union {Nobody}, dead_ : BOOLEAN, refno_ : Int, leaked : Nat]

LEMMA ConnsLoose == Seq({Gone} \union Conns) \subseteq Seq(Loose)
<1>1. {Gone} \union Conns \subseteq Loose
  BY DEF Conns, Loose
<1> QED BY <1>1

LEMMA UntouchedSelf == \A c : Untouched(c, c)
BY DEF Untouched

LEMMA UntouchedTwice == \A c, d, e : Untouched(c, d) /\ Untouched(d, e) => Untouched(c, e)
BY DEF Untouched

LEMMA LooseRef ==
  ASSUME NEW r \in Loose, NEW v, r # Gone => v \in Int
  PROVE  /\ [r EXCEPT !.refno_ = v] \in Loose
         /\ \/ [r EXCEPT !.refno_ = v] = Gone
            \/ /\ r # Gone /\ [r EXCEPT !.refno_ = v].leaked = r.leaked
               /\ [r EXCEPT !.refno_ = v].in = r.in /\ [r EXCEPT !.refno_ = v].rpdu_ = r.rpdu_
<1>1. CASE r = Gone
  <2>1. [r EXCEPT !.refno_ = v] = Gone
    BY <1>1 DEF Gone
  <2> QED BY <2>1 DEF Loose
<1>2. CASE r # Gone
  BY <1>2 DEF Loose
<1> QED BY <1>1, <1>2

LEMMA LooseUpdate ==
  ASSUME NEW c \in Seq(Loose), NEW k \in 1..Len(c), NEW r \in Loose,
         \/ r = Gone
         \/ c[k] # Gone /\ r.leaked = c[k].leaked /\ r.in = c[k].in /\ r.rpdu_ = c[k].rpdu_
  PROVE  [c EXCEPT ![k] = r] \in Seq(Loose) /\ Untouched(c, [c EXCEPT ![k] = r])
<1>1. /\ [c EXCEPT ![k] = r] \in Seq(Loose) /\ Len([c EXCEPT ![k] = r]) = Len(c)
      /\ [c EXCEPT ![k] = r][k] = r
      /\ \A j \in 1..Len(c) : j # k => [c EXCEPT ![k] = r][j] = c[j]
  OBVIOUS
<1>2. PICK d : d = [c EXCEPT ![k] = r]
  OBVIOUS
<1>3. /\ Len(d) = Len(c) /\ d[k] = r /\ \A j \in 1..Len(c) : j # k => d[j] = c[j]
  BY <1>1, <1>2
<1>4. Untouched(c, d)
  BY <1>3 DEF Untouched
<1> QED BY <1>1, <1>2, <1>4

LEMMA RefsOnly ==
  ASSUME NEW c \in Seq(Loose), NEW k \in 1..Len(c)
  PROVE  /\ Incref(c, k) \in Seq(Loose) /\ Untouched(c, Incref(c, k))
         /\ Decref(c, k) \in Seq(Loose) /\ Untouched(c, Decref(c, k))
<1>1. c[k] \in Loose
  OBVIOUS
<1>2. ASSUME NEW v, c[k] # Gone => v \in Int
      PROVE  /\ [c EXCEPT ![k] = [c[k] EXCEPT !.refno_ = v]] \in Seq(Loose)
             /\ Untouched(c, [c EXCEPT ![k] = [c[k] EXCEPT !.refno_ = v]])
  <2>1. PICK r : r = [c[k] EXCEPT !.refno_ = v]
    OBVIOUS
  <2>2. /\ r \in Loose
        /\ r = Gone \/ (c[k] # Gone /\ r.leaked = c[k].leaked /\ r.in = c[k].in /\ r.rpdu_ = c[k].rpdu_)
    BY <1>1, <1>2, <2>1, LooseRef
  <2>3. [c EXCEPT ![k] = r] \in Seq(Loose) /\ Untouched(c, [c EXCEPT ![k] = r])
    BY <2>2, LooseUpdate
  <2> QED BY <2>1, <2>3
<1>3. [c EXCEPT ![k] = Gone] \in Seq(Loose) /\ Untouched(c, [c EXCEPT ![k] = Gone])
  <2>1. Gone \in Loose
    BY DEF Loose
  <2> QED BY <2>1, LooseUpdate
<1>4. c[k] # Gone => c[k].refno_ + 1 \in Int /\ c[k].refno_ - 1 \in Int
  BY <1>1 DEF Loose
<1>5. Incref(c, k) = [c EXCEPT ![k] = [c[k] EXCEPT !.refno_ = c[k].refno_ + 1]]
  BY DEF Incref
<1>6. \/ Decref(c, k) = [c EXCEPT ![k] = Gone]
      \/ Decref(c, k) = [c EXCEPT ![k] = [c[k] EXCEPT !.refno_ = c[k].refno_ - 1]]
  BY DEF Decref
<1> QED BY <1>2, <1>3, <1>4, <1>5, <1>6

\* Where the threads go without a new refusal to send.
Moved(w, x) == \A u \in Workers :
  \/ x[u] = w[u]
  \/ x[u].st \notin AtWork
  \/ x[u].kind # "old"
  \/ /\ w[u].st \in AtWork /\ x[u].k = w[u].k /\ x[u].kind = w[u].kind
     /\ x[u].st \notin {"arrived", "run"}

LEMMA MovedOld ==
  ASSUME NEW w, NEW x, Moved(w, x), OnlyCalls(w)
  PROVE  FewerOld(w, x) /\ OnlyCalls(x)
<1>1. FewerOld(w, x)
  BY DEF FewerOld, Moved, OldAt
<1>2. {"arrived", "run"} \subseteq AtWork
  BY DEF AtWork
<1>3. OnlyCalls(x)
  BY <1>2 DEF OnlyCalls, Moved
<1> QED BY <1>1, <1>3

LEMMA OldMoved ==
  ASSUME TypeInv, TypeInv', OldInv, Untouched(conn, conn'), Moved(worker, worker'),
         UNCHANGED <<came, jobq_>>
  PROVE  OldInv'
<1>1. FewerOld(worker, worker') /\ OnlyCalls(worker')
  BY MovedOld DEF OldInv
<1> QED BY <1>1, OldFrame

LEMMA OldQuiet ==
  ASSUME TypeInv, TypeInv', OldInv, Untouched(conn, conn'), UNCHANGED <<came, jobq_, worker>>
  PROVE  OldInv'
<1>1. Moved(worker, worker')
  BY DEF Moved
<1> QED BY <1>1, OldMoved

\* Nothing more is owed on the connections other than k.
LEMMA OldElsewhere ==
  ASSUME TypeInv, TypeInv', OldInv, OnlyCalls(worker'), came' >= came, NEW k,
         Len(conn') = Len(conn), \A j \in 1..Len(conn) : j # k => conn'[j] = conn[j],
         \A j \in 1..Len(conn) : j # k => /\ InQueue(jobq_', j) <= InQueue(jobq_, j)
                                          /\ OldPool(worker', j) <= OldPool(worker, j),
         k \in Open' => Owed(conn'[k], jobq_', worker', k) <= came'
  PROVE  OldInv'
<1> SUFFICES ASSUME NEW j, j \in Open', j # k PROVE Owed(conn'[j], jobq_', worker', j) <= came'
  BY DEF OldInv
<1>1. j \in 1..Len(conn) /\ conn'[j] = conn[j] /\ j \in Open
  BY DEF Open, IsGone
<1>2. InQueue(jobq_', j) <= InQueue(jobq_, j) /\ OldPool(worker', j) <= OldPool(worker, j)
  BY <1>1
<1>3. Owed(conn[j], jobq_, worker, j) <= came
  BY <1>1 DEF OldInv
<1>4. /\ conn[j].leaked \in Nat /\ Len(conn[j].in) \in Nat /\ One(conn[j].rpdu_ # "none") \in Nat
      /\ InQueue(jobq_, j) \in Nat /\ OldPool(worker, j) \in Nat /\ came \in Nat
  BY <1>1, OwedNat
<1>5. InQueue(jobq_', j) \in Nat /\ OldPool(worker', j) \in Nat /\ came' \in Nat
  BY OwedNatNext
<1>6. PICK a, b, c, d, e, f, g :
        /\ a = conn[j].leaked /\ b = Len(conn[j].in) /\ c = One(conn[j].rpdu_ # "none")
        /\ d = InQueue(jobq_, j) /\ e = OldPool(worker, j)
        /\ f = InQueue(jobq_', j) /\ g = OldPool(worker', j)
  OBVIOUS
<1>7. a + b + c + d + e <= came
  BY <1>3, <1>6 DEF Owed
<1>8. Owed(conn'[j], jobq_', worker', j) = a + b + c + f + g
  BY <1>1, <1>6 DEF Owed
<1>9. /\ a \in Nat /\ b \in Nat /\ c \in Nat /\ d \in Nat /\ e \in Nat /\ f \in Nat /\ g \in Nat
      /\ came \in Nat /\ came' \in Nat /\ f <= d /\ g <= e
  BY <1>2, <1>4, <1>5, <1>6
<1> QED BY <1>7, <1>8, <1>9

\* The threads owe what they owed.
LEMMA OldPoolKept ==
  ASSUME NEW k, UNCHANGED worker \/ FewerOld(worker, worker')
  PROVE  OldPool(worker', k) <= OldPool(worker, k)
<1>1. FewerOld(worker, worker')
  BY DEF FewerOld
<1> QED BY <1>1, OldPoolLess

LEMMA PeerOld ==
  ASSUME IInv, TypeInv', OldInv, NEW k \in ConnIds, NEW kind \in Kinds, PeerSends(k, kind)
  PROVE  OldInv'
<1>0. TypeInv /\ k \in 1..Len(conn) /\ k \in Open /\ conn[k] \in Conns /\ conn[k].in \in Seq(Kinds)
  BY There DEF IInv, AllThere, PeerSends, Open, IsGone, Conns
<1>1. PICK r : r = [conn[k] EXCEPT !.in = Append(conn[k].in, kind)]
  OBVIOUS
<1>2. /\ conn' = [conn EXCEPT ![k] = r] /\ came' = came + 1
      /\ UNCHANGED <<jobq_, worker>>
  BY <1>1 DEF PeerSends
<1>3. r.leaked = conn[k].leaked /\ r.rpdu_ = conn[k].rpdu_ /\ Len(r.in) = Len(conn[k].in) + 1
  <2>1. r.leaked = conn[k].leaked /\ r.rpdu_ = conn[k].rpdu_ /\ r.in = Append(conn[k].in, kind)
    BY <1>0, <1>1 DEF Conns
  <2>2. Len(Append(conn[k].in, kind)) = Len(conn[k].in) + 1
    BY <1>0
  <2> QED BY <2>1, <2>2
<1>4. /\ Len(conn') = Len(conn) /\ conn'[k] = r
      /\ \A j \in 1..Len(conn) : j # k => conn'[j] = conn[j]
  BY <1>0, <1>2 DEF TypeInv
<1>5. Owed(r, jobq_, worker, k) <= came + 1
  <2>1. Owed(conn[k], jobq_, worker, k) <= came
    BY <1>0 DEF OldInv
  <2>2. /\ conn[k].leaked \in Nat /\ Len(conn[k].in) \in Nat /\ One(conn[k].rpdu_ # "none") \in Nat
        /\ InQueue(jobq_, k) \in Nat /\ OldPool(worker, k) \in Nat /\ came \in Nat
    BY <1>0, OwedNat
  <2>3. PICK a, b, c, d, e : /\ a = conn[k].leaked /\ b = Len(conn[k].in) /\ c = One(conn[k].rpdu_ # "none")
                             /\ d = InQueue(jobq_, k) /\ e = OldPool(worker, k)
    OBVIOUS
  <2>4. a + b + c + d + e <= came
    BY <2>1, <2>3 DEF Owed
  <2>5. Owed(r, jobq_, worker, k) = a + (b + 1) + c + d + e
    BY <1>3, <2>3 DEF Owed
  <2>6. a \in Nat /\ b \in Nat /\ c \in Nat /\ d \in Nat /\ e \in Nat /\ came \in Nat
    BY <2>2, <2>3
  <2> QED BY <2>4, <2>5, <2>6
<1>6. /\ OnlyCalls(worker') /\ came' >= came
      /\ Owed(conn'[k], jobq_', worker', k) <= came'
  <2>1. came' >= came
    BY <1>0, <1>2 DEF TypeInv
  <2> QED BY <1>2, <1>4, <1>5, <2>1 DEF OldInv
<1>7. ASSUME NEW j \in 1..Len(conn)
      PROVE  InQueue(jobq_', j) <= InQueue(jobq_, j) /\ OldPool(worker', j) <= OldPool(worker, j)
  <2>1. InQueue(jobq_, j) \in Nat
    BY <1>0, HoldersType
  <2>2. OldPool(worker, j) \in Nat
    BY OldPoolNat
  <2> QED BY <1>2, <2>1, <2>2
<1> QED BY <1>0, <1>4, <1>6, <1>7, OldElsewhere

LEMMA OfferOld ==
  ASSUME IInv, TypeInv', OldInv, NEW fd \in Fds, NEW k, k = callbacks_[fd], k # 0, ~conn[k].dead_,
         NEW kind \in Kinds, NEW in \in Seq(Kinds), Offer(k, kind, in),
         Len(in) + 1 = Len(conn[k].in) + One(conn[k].rpdu_ # "none"), UNCHANGED <<came, worker>>
  PROVE  OldInv'
<1>0. /\ TypeInv /\ conn \in Seq({Gone} \union Conns)
      /\ jobq_ \in Seq(Jobs(Len(conn))) /\ Len(conn) \in Nat
  <2>1. TypeInv
    BY DEF IInv
  <2>2. /\ conn \in Seq({Gone} \union Conns) /\ jobq_ \in Seq(Jobs(Len(conn))) /\ Len(conn) \in Nat
    BY <2>1 DEF TypeInv, Jobs
  <2> QED BY <2>1, <2>2
<1>1. k \in 1..Len(conn) /\ k \in Open /\ conn[k] \in Conns
  BY CallbackFacts
<1>2. PICK q : q = [k |-> k, kind |-> kind]
  OBVIOUS
<1>3. q \in Jobs(Len(conn)) /\ q.k = k
  BY <1>1, <1>2 DEF Jobs
<1>4. kind # "none"
  BY DEF Kinds
<1>5. PICK r : /\ conn' = [conn EXCEPT ![k] = r] /\ r.leaked = conn[k].leaked /\ r.in = in
               /\ \/ jobq_' = Append(jobq_, q) /\ r.rpdu_ = "none"
                  \/ jobq_' = jobq_ /\ r.rpdu_ # "none"
  <2>1. CASE Len(jobq_) < QMax
    <3>1. jobq_' = Append(jobq_, q)
      BY <1>2, <2>1 DEF Offer
    <3>2. conn' = [[conn EXCEPT ![k].refno_ = @ + 1] EXCEPT ![k].rpdu_ = "none", ![k].in = in]
      BY <2>1 DEF Offer, Incref
    <3>3. PICK r : r = [conn[k] EXCEPT !.refno_ = conn[k].refno_ + 1, !.rpdu_ = "none", !.in = in]
      OBVIOUS
    <3>4. conn' = [conn EXCEPT ![k] = r]
      BY <1>0, <1>1, <3>2, <3>3
    <3>5. r.leaked = conn[k].leaked /\ r.in = in /\ r.rpdu_ = "none"
      BY <1>1, <3>3 DEF Conns
    <3> QED BY <3>1, <3>4, <3>5
  <2>2. CASE ~(Len(jobq_) < QMax)
    <3>1. jobq_' = jobq_
      BY <2>2 DEF Offer
    <3>2. conn' = [conn EXCEPT ![k].rpdu_ = kind, ![k].in = in]
      BY <2>2 DEF Offer
    <3>3. PICK r : r = [conn[k] EXCEPT !.rpdu_ = kind, !.in = in]
      OBVIOUS
    <3>4. conn' = [conn EXCEPT ![k] = r]
      BY <1>0, <1>1, <3>2, <3>3
    <3>5. r.leaked = conn[k].leaked /\ r.in = in /\ r.rpdu_ # "none"
      BY <1>1, <1>4, <3>3 DEF Conns
    <3> QED BY <3>1, <3>4, <3>5
  <2> QED BY <2>1, <2>2
<1>6. /\ Len(conn') = Len(conn) /\ conn'[k] = r
      /\ \A j \in 1..Len(conn) : j # k => conn'[j] = conn[j]
  BY <1>0, <1>1, <1>5
<1>7. ASSUME NEW j \in 1..Len(conn)
      PROVE  /\ InQueue(jobq_', j) = InQueue(jobq_, j) + One(j = k /\ r.rpdu_ = "none")
             /\ InQueue(jobq_, j) \in Nat /\ OldPool(worker, j) \in Nat
  <2>1. InQueue(jobq_, j) \in Nat /\ OldPool(worker, j) \in Nat
    BY <1>0, HoldersType, OldPoolNat
  <2>2. InQueue(Append(jobq_, q), j) = InQueue(jobq_, j) + One(q.k = j)
    BY <1>0, <1>3, InQueueAppend
  <2>3. CASE jobq_' = Append(jobq_, q) /\ r.rpdu_ = "none"
    BY <1>3, <2>1, <2>2, <2>3 DEF One
  <2>4. CASE jobq_' = jobq_ /\ r.rpdu_ # "none"
    BY <2>1, <2>4 DEF One
  <2> QED BY <1>5, <2>1, <2>3, <2>4
<1>8. Owed(r, jobq_', worker, k) <= came
  <2>1. Owed(conn[k], jobq_, worker, k) <= came
    BY <1>1 DEF OldInv
  <2>2. /\ conn[k].leaked \in Nat /\ Len(conn[k].in) \in Nat /\ One(conn[k].rpdu_ # "none") \in Nat
        /\ InQueue(jobq_, k) \in Nat /\ OldPool(worker, k) \in Nat /\ came \in Nat
    BY <1>0, <1>1, OwedNat
  <2>3. PICK a, b, c, d, e, l : /\ a = conn[k].leaked /\ b = Len(conn[k].in) /\ c = One(conn[k].rpdu_ # "none")
                                /\ d = InQueue(jobq_, k) /\ e = OldPool(worker, k) /\ l = Len(in)
    OBVIOUS
  <2>4. a + b + c + d + e <= came /\ l + 1 = b + c
    BY <2>1, <2>3 DEF Owed
  <2>5. /\ a \in Nat /\ b \in Nat /\ c \in Nat /\ d \in Nat /\ e \in Nat /\ came \in Nat
        /\ l \in Nat
    BY <2>2, <2>3
  <2>6. InQueue(jobq_', k) = d + One(r.rpdu_ = "none")
    BY <1>1, <1>7, <2>3 DEF One
  <2>7. Owed(r, jobq_', worker, k) = a + l + One(r.rpdu_ # "none") + (d + One(r.rpdu_ = "none")) + e
    BY <1>5, <2>3, <2>6 DEF Owed
  <2> QED BY <2>4, <2>5, <2>7 DEF One
<1>9. OnlyCalls(worker') /\ came' >= came /\ Owed(conn'[k], jobq_', worker', k) <= came'
  <2>1. came' >= came
    BY <1>0 DEF TypeInv
  <2> QED BY <1>6, <1>8, <2>1 DEF OldInv
<1>10. ASSUME NEW j \in 1..Len(conn), j # k
       PROVE  InQueue(jobq_', j) <= InQueue(jobq_, j) /\ OldPool(worker', j) <= OldPool(worker, j)
  <2>1. One(j = k /\ r.rpdu_ = "none") = 0
    BY <1>10 DEF One
  <2> QED BY <1>7, <2>1
<1> QED BY <1>0, <1>6, <1>9, <1>10, OldElsewhere

\* A refusal that is over leaves its reference behind.
LEMMA LeaveOld ==
  ASSUME IInv, TypeInv', OldInv, NEW t \in Workers, worker[t].st \in AtWork, worker[t].kind = "old",
         NEW k, k = worker[t].k, NEW c, c \in Seq(Loose), Len(c) = Len(conn), c[k] # Gone,
         c[k].leaked = conn[k].leaked, c[k].in = conn[k].in, c[k].rpdu_ = conn[k].rpdu_,
         \A j \in 1..Len(conn) : j # k => c[j] = conn[j],
         conn' = Leave(c, worker[t]), worker'[t] = Idle,
         Moved(worker, worker'), SameOld(worker, worker', t), UNCHANGED <<came, jobq_>>
  PROVE  OldInv'
<1>0. TypeInv /\ k \in 1..Len(conn) /\ k \in Open
  BY There DEF IInv, AllThere, IsThere, Open
<1>1. c[k] \in Loose /\ c[k] # Gone
  BY <1>0
<1>2. PICK r : r = [c[k] EXCEPT !.leaked = c[k].leaked + 1]
  OBVIOUS
<1>3. conn' = [c EXCEPT ![k] = r]
  BY <1>0, <1>2 DEF Leave
<1>4. r.leaked = conn[k].leaked + 1 /\ r.in = conn[k].in /\ r.rpdu_ = conn[k].rpdu_
  BY <1>1, <1>2 DEF Loose
<1>5. /\ Len(conn') = Len(conn) /\ conn'[k] = r
      /\ \A j \in 1..Len(conn) : j # k => conn'[j] = conn[j]
  BY <1>0, <1>3
<1>6. FewerOld(worker, worker') /\ OnlyCalls(worker')
  BY MovedOld DEF OldInv
<1>7. OldPool(worker', k) + 1 = OldPool(worker, k)
  <2>1. OldPool(worker', k) + One(OldAt(worker, t, k)) = OldPool(worker, k) + One(OldAt(worker', t, k))
    BY OldPoolStep
  <2>2. OldAt(worker, t, k) /\ ~OldAt(worker', t, k)
    BY DEF OldAt, Idle, AtWork
  <2>3. One(OldAt(worker, t, k)) = 1 /\ One(OldAt(worker', t, k)) = 0
    BY <2>2 DEF One
  <2>4. OldPool(worker, k) \in Nat /\ OldPool(worker', k) \in Nat
    BY OldPoolNat
  <2> QED BY <2>1, <2>3, <2>4
<1>8. Owed(r, jobq_, worker', k) <= came
  <2>1. Owed(conn[k], jobq_, worker, k) <= came
    BY <1>0 DEF OldInv
  <2>2. /\ conn[k].leaked \in Nat /\ Len(conn[k].in) \in Nat /\ One(conn[k].rpdu_ # "none") \in Nat
        /\ InQueue(jobq_, k) \in Nat /\ OldPool(worker, k) \in Nat /\ OldPool(worker', k) \in Nat
        /\ came \in Nat
    BY <1>0, OwedNat, OldPoolNat
  <2>3. PICK a, b, f, d, e, g : /\ a = conn[k].leaked /\ b = Len(conn[k].in) /\ f = One(conn[k].rpdu_ # "none")
                                /\ d = InQueue(jobq_, k) /\ e = OldPool(worker, k) /\ g = OldPool(worker', k)
    OBVIOUS
  <2>4. a + b + f + d + e <= came
    BY <2>1, <2>3 DEF Owed
  <2>5. Owed(r, jobq_, worker', k) = (a + 1) + b + f + d + g
    BY <1>4, <2>3 DEF Owed
  <2>6. /\ a \in Nat /\ b \in Nat /\ f \in Nat /\ d \in Nat /\ e \in Nat /\ g \in Nat /\ came \in Nat
        /\ g + 1 = e
    BY <1>7, <2>2, <2>3
  <2> QED BY <2>4, <2>5, <2>6
<1>9. came' >= came /\ Owed(conn'[k], jobq_', worker', k) <= came'
  <2>1. came' >= came
    BY <1>0 DEF TypeInv
  <2> QED BY <1>5, <1>8, <2>1
<1>10. ASSUME NEW j \in 1..Len(conn)
       PROVE  InQueue(jobq_', j) <= InQueue(jobq_, j) /\ OldPool(worker', j) <= OldPool(worker, j)
  <2>1. InQueue(jobq_, j) \in Nat
    BY <1>0, HoldersType
  <2>2. OldPool(worker', j) <= OldPool(worker, j)
    BY <1>6, OldPoolLess
  <2> QED BY <2>1, <2>2
<1> QED BY <1>0, <1>5, <1>6, <1>9, <1>10, OldElsewhere

LEMMA TakeOld ==
  ASSUME IInv, TypeInv', OldInv, NEW t \in Workers, TakeJob(t)
  PROVE  OldInv'
<1>0. TypeInv /\ worker[t].st = "idle" /\ UNCHANGED <<came, conn>>
  BY DEF IInv, TakeJob, peerVars
<1>1. /\ jobq_ \in Seq(Jobs(Len(conn))) /\ jobq_ # <<>> /\ jobq_' = Tail(jobq_) /\ Len(conn) \in Nat
      /\ worker \in [Workers -> Threads(Len(conn))]
  <2>1. worker \in [Workers -> Threads(Len(conn))]
    BY <1>0, ThreadType
  <2>2. jobq_ \in Seq(Jobs(Len(conn))) /\ Len(conn) \in Nat
    BY <1>0 DEF TypeInv, Jobs
  <2> QED BY <2>1, <2>2 DEF TakeJob
<1>2. PICK j : j = Head(jobq_)
  OBVIOUS
<1>3. j \in Jobs(Len(conn))
  BY <1>1, <1>2
<1>4. \A k \in 1..Len(conn) : /\ InQueue(jobq_, k) = InQueue(jobq_', k) + One(j.k = k)
                              /\ InQueue(jobq_', k) \in Nat
  <2>1. Tail(jobq_) \in Seq(Jobs(Len(conn)))
    BY <1>1
  <2> QED BY <1>1, <1>2, <2>1, InQueueTail, InQueueNat
<1>5. \A k \in 1..Len(conn) : InQueue(jobq_', k) <= InQueue(jobq_, k)
  BY <1>4 DEF One
<1>6. /\ \A u \in Workers : u # t => worker'[u] = worker[u]
      /\ j = Pill => worker'[t] = [st |-> "exited"]
      /\ j # Pill => worker'[t] = [st |-> IF j.kind = "old" THEN "send" ELSE "arrived",
                                   k |-> j.k, kind |-> j.kind]
  BY <1>1, <1>2 DEF TakeJob
<1>7. came \in Nat
  BY <1>0 DEF TypeInv
<1>8. CASE j = Pill \/ j.kind # "old"
  <2>1. worker'[t].st \notin AtWork \/ worker'[t].kind # "old"
    BY <1>6, <1>8 DEF AtWork
  <2>2. Moved(worker, worker')
    BY <1>6, <2>1 DEF Moved
  <2>3. FewerOld(worker, worker') /\ OnlyCalls(worker')
    BY <2>2, MovedOld DEF OldInv
  <2>4. \A k \in 1..Len(conn) : OldPool(worker', k) <= OldPool(worker, k)
    BY <2>3, OldPoolLess
  <2>5. 0 \notin Open' /\ Len(conn') = Len(conn) /\ \A k \in 1..Len(conn) : conn'[k] = conn[k]
    BY <1>0 DEF Open
  <2>6. came' >= came
    BY <1>0, <1>7
  <2> QED BY <1>0, <1>5, <2>3, <2>4, <2>5, <2>6, OldElsewhere
<1>9. CASE j # Pill /\ j.kind = "old"
  <2>1. PICK k \in 1..Len(conn) : k = j.k
    BY <1>3, <1>9 DEF Jobs
  <2>2. worker'[t].st = "send" /\ worker'[t].k = k /\ worker'[t].kind = "old"
    BY <1>6, <1>9, <2>1
  <2>3. SameOld(worker, worker', t)
    BY <1>6 DEF SameOld, OldAt
  <2>4. OnlyCalls(worker')
    BY <1>6, <2>2 DEF OnlyCalls, OldInv
  <2>5. ASSUME NEW i \in 1..Len(conn)
        PROVE  OldPool(worker', i) = OldPool(worker, i) + One(i = k) /\ OldPool(worker, i) \in Nat
    <3>1. OldPool(worker', i) + One(OldAt(worker, t, i)) = OldPool(worker, i) + One(OldAt(worker', t, i))
      BY <2>3, OldPoolStep
    <3>2. ~OldAt(worker, t, i)
      BY <1>0 DEF OldAt, AtWork
    <3>3. OldAt(worker', t, i) <=> i = k
      BY <2>2 DEF OldAt, AtWork
    <3>4. One(OldAt(worker, t, i)) = 0 /\ One(OldAt(worker', t, i)) = One(i = k)
      BY <3>2, <3>3 DEF One
    <3>5. OldPool(worker, i) \in Nat /\ OldPool(worker', i) \in Nat
      BY OldPoolNat
    <3> QED BY <3>1, <3>4, <3>5
  <2>6. ASSUME k \in Open' PROVE Owed(conn'[k], jobq_', worker', k) <= came'
    <3>1. k \in Open
      BY <1>0, <2>6 DEF Open, IsGone
    <3>2. Owed(conn[k], jobq_, worker, k) <= came
      BY <3>1 DEF OldInv
    <3>3. /\ conn[k].leaked \in Nat /\ Len(conn[k].in) \in Nat /\ One(conn[k].rpdu_ # "none") \in Nat
          /\ OldPool(worker, k) \in Nat
      BY <1>0, <3>1, OwedNat
    <3>4. PICK a, b, c, d, e : /\ a = conn[k].leaked /\ b = Len(conn[k].in) /\ c = One(conn[k].rpdu_ # "none")
                               /\ d = InQueue(jobq_', k) /\ e = OldPool(worker, k)
      OBVIOUS
    <3>5. d \in Nat /\ InQueue(jobq_, k) = d + 1 /\ OldPool(worker', k) = e + 1
      BY <1>4, <2>1, <2>5, <3>4 DEF One
    <3>6. a + b + c + (d + 1) + e <= came
      BY <3>2, <3>4, <3>5 DEF Owed
    <3>7. Owed(conn'[k], jobq_', worker', k) = a + b + c + d + (e + 1)
      BY <1>0, <3>4, <3>5 DEF Owed
    <3>8. a \in Nat /\ b \in Nat /\ c \in Nat /\ d \in Nat /\ e \in Nat /\ came' = came
      BY <1>0, <3>3, <3>4, <3>5
    <3> QED BY <1>7, <3>6, <3>7, <3>8
  <2>7. \A i \in 1..Len(conn) : i # k => OldPool(worker', i) <= OldPool(worker, i)
    BY <2>5 DEF One
  <2>8. came' >= came /\ Len(conn') = Len(conn) /\ \A i \in 1..Len(conn) : conn'[i] = conn[i]
    BY <1>0, <1>7
  <2> QED BY <1>0, <1>5, <2>4, <2>6, <2>7, <2>8, OldElsewhere
<1> QED BY <1>8, <1>9

LEMMA AddPillOld ==
  ASSUME IInv, TypeInv', OldInv, AddPill
  PROVE  OldInv'
<1>0. TypeInv /\ jobq_' = Append(jobq_, Pill) /\ UNCHANGED <<came, conn, worker>>
  BY DEF IInv, AddPill, peerVars
<1>1. jobq_ \in Seq(Jobs(Len(conn))) /\ Len(conn) \in Nat /\ Pill \in Jobs(Len(conn)) /\ came \in Nat
  BY <1>0 DEF TypeInv, Jobs
<1>2. ASSUME NEW j \in 1..Len(conn)
      PROVE  InQueue(jobq_', j) <= InQueue(jobq_, j) /\ OldPool(worker', j) <= OldPool(worker, j)
  <2>1. InQueue(Append(jobq_, Pill), j) = InQueue(jobq_, j) + One(Pill.k = j)
    BY <1>1, InQueueAppend
  <2>2. One(Pill.k = j) = 0
    BY DEF One, Pill
  <2>3. InQueue(jobq_, j) \in Nat /\ OldPool(worker, j) \in Nat
    BY <1>0, HoldersType, OldPoolNat
  <2> QED BY <1>0, <2>1, <2>2, <2>3
<1>3. 0 \notin Open' /\ Len(conn') = Len(conn) /\ \A k \in 1..Len(conn) : conn'[k] = conn[k]
  BY <1>0 DEF Open
<1>4. came' >= came /\ OnlyCalls(worker')
  BY <1>0, <1>1 DEF OldInv
<1> QED BY <1>0, <1>2, <1>3, <1>4, OldElsewhere

LEMMA AcceptOld ==
  ASSUME IInv, TypeInv', OldInv, Accept
  PROVE  OldInv'
<1>0. /\ TypeInv /\ UNCHANGED <<came, jobq_, worker>>
      /\ conn \in Seq({Gone} \union Conns) /\ Len(conn) \in Nat /\ came \in Nat
  <2>1. TypeInv /\ UNCHANGED <<came, jobq_, worker>>
    BY DEF IInv, Accept, peerVars
  <2> QED BY <2>1 DEF TypeInv
<1>1. CASE FreeFds = {}
  <2>1. conn' = conn
    BY <1>1 DEF Accept
  <2> QED BY <1>0, <2>1, UntouchedSelf, OldQuiet
<1>2. CASE FreeFds # {}
  <2>1. PICK fd : conn' = Append(conn, NewConn(fd))
    BY <1>2 DEF Accept
  <2>2. PICK k : k = Len(conn) + 1
    OBVIOUS
  <2>3. /\ Len(conn') = k /\ conn'[k] = NewConn(fd)
        /\ \A j \in 1..Len(conn) : conn'[j] = conn[j]
    BY <1>0, <2>1, <2>2
  <2>4. ASSUME NEW j, j \in Open', j # k PROVE Owed(conn'[j], jobq_', worker', j) <= came'
    <3>1. j \in Open /\ conn'[j] = conn[j]
      BY <1>0, <2>2, <2>3, <2>4 DEF Open, IsGone
    <3> QED BY <1>0, <3>1 DEF OldInv
  <2>5. Owed(NewConn(fd), jobq_, worker, k) <= came
    <3>1. k \notin 0..Len(conn)
      BY <1>0, <2>2
    <3>2. InQueue(jobq_, k) = 0 /\ InPool(worker, k) = 0
      BY <1>0, <3>1, NobodyHolds
    <3>3. {t \in Workers : OldAt(worker, t, k)} = {}
      <4> SUFFICES ASSUME NEW t \in Workers, OldAt(worker, t, k) PROVE FALSE
        OBVIOUS
      <4>1. worker[t].st \in AtWork /\ worker[t].k = k
        BY DEF OldAt
      <4> QED BY <1>0, <3>1, <4>1, ThreadType
    <3>4. OldPool(worker, k) = 0
      BY <3>3, FS_EmptySet DEF OldPool
    <3>5. NewConn(fd).leaked = 0 /\ NewConn(fd).in = <<>> /\ One(NewConn(fd).rpdu_ # "none") = 0
      BY DEF NewConn, One
    <3>6. Owed(NewConn(fd), jobq_, worker, k) = 0
      BY <3>2, <3>4, <3>5 DEF Owed
    <3> QED BY <1>0, <3>6
  <2>6. OnlyCalls(worker')
    BY <1>0 DEF OldInv
  <2>7. \A j \in Open' : Owed(conn'[j], jobq_', worker', j) <= came'
    BY <1>0, <2>3, <2>4, <2>5
  <2> QED BY <2>6, <2>7 DEF OldInv
<1> QED BY <1>1, <1>2

\* The table's references.
LEMMA TableOld ==
  ASSUME IInv, TypeInv', OldInv, NEW fd \in Fds, table[fd] # 0, conn' = Decref(conn, table[fd]),
         UNCHANGED <<came, jobq_, worker>>
  PROVE  OldInv'
<1>0. TypeInv /\ conn \in Seq(Loose) /\ table[fd] \in 1..Len(conn)
  <2>1. TypeInv
    BY DEF IInv
  <2>2. conn \in Seq({Gone} \union Conns) /\ table[fd] \in 1..Len(conn)
    BY <2>1 DEF TypeInv
  <2> QED BY <2>1, <2>2, ConnsLoose
<1>1. Untouched(conn, conn')
  BY <1>0, RefsOnly
<1> QED BY <1>0, <1>1, OldQuiet

LEMMA AcceptorOld ==
  ASSUME IInv, TypeInv', OldInv, AcceptorStep
  PROVE  OldInv'
<1>0. TypeInv /\ TableInv
  BY DEF IInv
<1>1. CASE Accept
  BY <1>1, AcceptOld
<1>2. CASE GcCheck \/ Insert \/ AcceptorStops
  <2>1. UNCHANGED <<came, conn, jobq_, worker>>
    BY <1>2 DEF GcCheck, Insert, AcceptorStops, peerVars
  <2>2. Untouched(conn, conn')
    BY <2>1, UntouchedSelf
  <2> QED BY <1>0, <2>1, <2>2, OldQuiet
<1>3. CASE GcCollect
  <2>1. Accepting /\ acceptor.todo # {} /\ acceptor.todo \subseteq Fds
    BY <1>0, <1>3 DEF GcCollect, TableInv, TypeInv, Accepting
  <2>2. PICK fd \in Fds : fd = Least(acceptor.todo) /\ fd \in acceptor.todo
    BY <2>1, LeastIn
  <2>3. table[fd] # 0
    BY <1>0, <2>1, <2>2 DEF TableInv
  <2>4. conn' = Decref(conn, table[fd]) /\ UNCHANGED <<came, jobq_, worker>>
    BY <1>3, <2>2 DEF GcCollect, peerVars
  <2> QED BY <2>3, <2>4, TableOld
<1> QED BY <1>1, <1>2, <1>3 DEF AcceptorStep

\* One connection changes in what is not counted here.
LEMMA UpdateUntouched ==
  ASSUME TypeInv, NEW k \in 1..Len(conn), conn[k] # Gone, NEW r, conn' = [conn EXCEPT ![k] = r],
         r.leaked = conn[k].leaked, r.in = conn[k].in, r.rpdu_ = conn[k].rpdu_
  PROVE  Untouched(conn, conn')
<1>1. /\ Len(conn') = Len(conn) /\ conn'[k] = r
      /\ \A j \in 1..Len(conn) : j # k => conn'[j] = conn[j]
  BY DEF TypeInv
<1> QED BY <1>1 DEF Untouched

\* Threads at work change their state to s.
LEMMA StateMoved ==
  ASSUME TypeInv, NEW s, s \notin {"arrived", "run"},
         \A u \in Workers : \/ worker'[u] = worker[u]
                            \/ worker[u].st \in AtWork /\ worker'[u] = [worker[u] EXCEPT !.st = s]
  PROVE  Moved(worker, worker')
<1> SUFFICES ASSUME NEW u \in Workers, worker[u].st \in AtWork, worker'[u] = [worker[u] EXCEPT !.st = s]
             PROVE  /\ worker'[u].k = worker[u].k /\ worker'[u].kind = worker[u].kind
                    /\ worker'[u].st \notin {"arrived", "run"}
  BY DEF Moved
<1>1. worker[u] \in [st : AtWork, k : 1..Len(conn), kind : Kinds]
  <2>1. worker[u] \in Threads(Len(conn))
    BY ThreadType
  <2> QED BY <2>1 DEF Threads, AtWork
<1> QED BY <1>1

\* The poll thread finds the end of connection k, or a failed write.
LEMMA PollKillsOld ==
  ASSUME IInv, TypeInv', OldInv, NEW fd \in Fds, NEW k, k = callbacks_[fd], k # 0, ~conn[k].dead_,
         conn' = [conn EXCEPT ![k].dead_ = TRUE], SignalComplete(k), UNCHANGED <<came, jobq_>>
  PROVE  OldInv'
<1>0. TypeInv /\ k \in 1..Len(conn) /\ conn[k] \in Conns /\ conn[k] # Gone
  BY CallbackFacts DEF IInv
<1>1. PICK r : r = [conn[k] EXCEPT !.dead_ = TRUE]
  OBVIOUS
<1>2. conn' = [conn EXCEPT ![k] = r]
  BY <1>0, <1>1
<1>3. r.leaked = conn[k].leaked /\ r.in = conn[k].in /\ r.rpdu_ = conn[k].rpdu_
  BY <1>0, <1>1 DEF Conns
<1>4. Untouched(conn, conn')
  BY <1>0, <1>2, <1>3, UpdateUntouched
<1>5. Moved(worker, worker')
  <2>1. \A u \in Workers : \/ worker'[u] = worker[u]
                           \/ worker[u].st \in AtWork /\ worker'[u] = [worker[u] EXCEPT !.st = "resumed"]
    BY DEF SignalComplete, AtWork
  <2> QED BY <1>0, <2>1, StateMoved
<1> QED BY <1>0, <1>4, <1>5, OldMoved

LEMMA ReadCbOld ==
  ASSUME IInv, TypeInv', OldInv, ReadCb
  PROVE  OldInv'
<1>0. TypeInv /\ UNCHANGED came /\ poll.r # {} /\ poll.r \in SUBSET Fds
  <2>1. TypeInv /\ UNCHANGED came /\ poll.r # {}
    BY DEF IInv, ReadCb, peerVars
  <2> QED BY <2>1 DEF TypeInv
<1>1. PICK fd \in Fds : fd = Least(poll.r)
  BY <1>0, LeastIn
<1>2. PICK k : k = callbacks_[fd]
  OBVIOUS
<1>3. CASE UNCHANGED <<conn, jobq_, worker>>
  BY <1>0, <1>3, UntouchedSelf, OldQuiet
<1>4. CASE /\ k # 0 /\ ~conn[k].dead_ /\ conn[k].rpdu_ # "none"
           /\ Offer(k, conn[k].rpdu_, conn[k].in) /\ UNCHANGED worker
  <2>1. conn[k] \in Conns
    BY <1>1, <1>2, <1>4, CallbackFacts
  <2>2. conn[k].rpdu_ \in Kinds /\ conn[k].in \in Seq(Kinds)
    BY <1>4, <2>1 DEF Conns
  <2>3. Len(conn[k].in) + 1 = Len(conn[k].in) + One(conn[k].rpdu_ # "none")
    BY <1>4 DEF One
  <2>4. PICK x \in Kinds, in \in Seq(Kinds) : x = conn[k].rpdu_ /\ in = conn[k].in
    BY <2>2
  <2>5. Offer(k, x, in) /\ Len(in) + 1 = Len(conn[k].in) + One(conn[k].rpdu_ # "none")
    BY <1>4, <2>3, <2>4
  <2> QED BY <1>0, <1>1, <1>2, <1>4, <2>5, OfferOld
<1>5. CASE /\ k # 0 /\ ~conn[k].dead_ /\ conn[k].rpdu_ = "none" /\ conn[k].in # <<>>
           /\ Offer(k, Head(conn[k].in), Tail(conn[k].in)) /\ UNCHANGED worker
  <2>1. conn[k] \in Conns
    BY <1>1, <1>2, <1>5, CallbackFacts
  <2>2. conn[k].in \in Seq(Kinds) /\ conn[k].in # <<>>
    BY <1>5, <2>1 DEF Conns
  <2>3. Head(conn[k].in) \in Kinds /\ Tail(conn[k].in) \in Seq(Kinds)
        /\ Len(Tail(conn[k].in)) + 1 = Len(conn[k].in) /\ Len(conn[k].in) \in Nat
    BY <2>2
  <2>4. PICK x \in Kinds, in \in Seq(Kinds) : x = Head(conn[k].in) /\ in = Tail(conn[k].in)
    BY <2>3
  <2>5. Offer(k, x, in) /\ Len(in) + 1 = Len(conn[k].in) + One(conn[k].rpdu_ # "none")
    BY <1>5, <2>3, <2>4 DEF One
  <2> QED BY <1>0, <1>1, <1>2, <1>5, <2>5, OfferOld
<1>6. CASE /\ k # 0 /\ ~conn[k].dead_ /\ conn' = [conn EXCEPT ![k].dead_ = TRUE]
           /\ SignalComplete(k) /\ UNCHANGED jobq_
  BY <1>0, <1>1, <1>2, <1>6, PollKillsOld
<1> QED BY <1>1, <1>2, <1>3, <1>4, <1>5, <1>6 DEF ReadCb

LEMMA WriteCbOld ==
  ASSUME IInv, TypeInv', OldInv, NEW fails \in BOOLEAN, WriteCb(fails)
  PROVE  OldInv'
<1>0. TypeInv /\ UNCHANGED <<came, jobq_>> /\ poll.w # {} /\ poll.w \in SUBSET Fds
  <2>1. TypeInv /\ UNCHANGED <<came, jobq_>> /\ poll.w # {}
    BY DEF IInv, WriteCb, peerVars
  <2> QED BY <2>1 DEF TypeInv
<1>1. PICK fd \in Fds : fd = Least(poll.w)
  BY <1>0, LeastIn
<1>2. PICK k : k = callbacks_[fd]
  OBVIOUS
<1>3. CASE UNCHANGED <<conn, worker>>
  BY <1>0, <1>3, UntouchedSelf, OldQuiet
<1>4. CASE SignalComplete(k) /\ UNCHANGED conn
  <2>1. \A u \in Workers : \/ worker'[u] = worker[u]
                           \/ worker[u].st \in AtWork /\ worker'[u] = [worker[u] EXCEPT !.st = "resumed"]
    BY <1>4 DEF SignalComplete, AtWork
  <2>2. Moved(worker, worker')
    BY <1>0, <2>1, StateMoved
  <2> QED BY <1>0, <1>4, <2>2, UntouchedSelf, OldMoved
<1>5. CASE /\ k # 0 /\ ~conn[k].dead_ /\ conn' = [conn EXCEPT ![k].dead_ = TRUE]
           /\ SignalComplete(k)
  BY <1>0, <1>1, <1>2, <1>5, PollKillsOld
<1> QED BY <1>1, <1>2, <1>3, <1>4, <1>5 DEF WriteCb

LEMMA PollOld ==
  ASSUME IInv, TypeInv', OldInv, PollStep
  PROVE  OldInv'
<1>0. TypeInv
  BY DEF IInv
<1>1. CASE LoopTop
  <2>1. UNCHANGED <<came, conn, jobq_>>
    BY <1>1 DEF LoopTop, peerVars
  <2>2. \A u \in Workers : \/ worker'[u] = worker[u]
                           \/ worker[u].st \in AtWork /\ worker'[u] = [worker[u] EXCEPT !.st = "removed"]
    BY <1>1 DEF LoopTop, AtWork
  <2>3. Moved(worker, worker')
    BY <1>0, <2>2, StateMoved
  <2> QED BY <1>0, <2>1, <2>3, UntouchedSelf, OldMoved
<1>2. ASSUME NEW ws \in SUBSET Fds, Select(ws) PROVE OldInv'
  <2>1. UNCHANGED <<came, conn, jobq_, worker>>
    BY <1>2 DEF Select, peerVars
  <2> QED BY <1>0, <2>1, UntouchedSelf, OldQuiet
<1> QED BY <1>1, <1>2, ReadCbOld, WriteCbOld DEF PollStep

LEMMA ArrivedOld ==
  ASSUME IInv, TypeInv', OldInv, NEW t \in Workers, NEW v, Arrived(t, v)
  PROVE  OldInv'
<1>0. TypeInv /\ RefInv /\ worker[t].st = "arrived" /\ worker[t].st \in AtWork
      /\ UNCHANGED <<came, jobq_>>
  BY DEF IInv, Arrived, peerVars, AtWork
<1>1. /\ worker \in [Workers -> Threads(Len(conn))]
      /\ worker[t] \in [st : AtWork, k : 1..Len(conn), kind : Kinds]
  <2>1. worker \in [Workers -> Threads(Len(conn))] /\ worker[t] \in Threads(Len(conn))
    BY <1>0, ThreadType
  <2> QED BY <1>0, <2>1 DEF Threads, AtWork
<1>2. PICK k \in 1..Len(conn) : k = worker[t].k
  BY <1>1
<1>3. worker[t].kind # "old"
  BY <1>0 DEF OldInv, OnlyCalls
<1>4. conn \in Seq(Loose) /\ conns_ \in 0..Len(conn)
  <2>1. conn \in Seq({Gone} \union Conns) /\ conns_ \in 0..Len(conn)
    BY <1>0 DEF TypeInv
  <2> QED BY <2>1, ConnsLoose
<1>5. PICK c : c = NoteConn(k)
  OBVIOUS
<1>6. c \in Seq(Loose) /\ Untouched(conn, c)
  <2>1. CASE conns_ = 0
    BY <1>4, <1>5, <2>1, RefsOnly DEF NoteConn
  <2>2. CASE conns_ # 0 /\ conns_ < k
    <3>1. PICK d : d = Decref(conn, conns_)
      OBVIOUS
    <3>2. d \in Seq(Loose) /\ Untouched(conn, d)
      BY <1>4, <2>2, <3>1, RefsOnly
    <3>3. k \in 1..Len(d)
      BY <3>2 DEF Untouched
    <3>4. Incref(d, k) \in Seq(Loose) /\ Untouched(d, Incref(d, k))
      BY <3>2, <3>3, RefsOnly
    <3>5. c = Incref(d, k)
      BY <1>5, <2>2, <3>1 DEF NoteConn
    <3> QED BY <3>2, <3>4, <3>5, UntouchedTwice
  <2>3. CASE conns_ # 0 /\ ~(conns_ < k)
    BY <1>4, <1>5, <2>3, UntouchedSelf DEF NoteConn
  <2> QED BY <2>1, <2>2, <2>3
<1>7. CASE v = "INPROGRESS"
  <2>1. conn' = Decref(c, k) /\ worker' = [worker EXCEPT ![t] = Idle]
    BY <1>2, <1>3, <1>5, <1>7 DEF Arrived, Leave
  <2>2. k \in 1..Len(c)
    BY <1>6 DEF Untouched
  <2>3. Untouched(c, conn')
    BY <1>6, <2>1, <2>2, RefsOnly
  <2>4. Untouched(conn, conn')
    BY <1>6, <2>3, UntouchedTwice
  <2>5. Moved(worker, worker')
    BY <1>1, <2>1 DEF Moved, Idle, AtWork
  <2> QED BY <1>0, <2>4, <2>5, OldMoved
<1>8. CASE v # "INPROGRESS"
  <2>1. /\ conn' = c
        /\ worker' = [worker EXCEPT ![t].st = IF v = "NEW" THEN "run" ELSE "send"]
    BY <1>2, <1>5, <1>8 DEF Arrived
  <2>2. worker'[t].kind # "old" /\ \A u \in Workers : u # t => worker'[u] = worker[u]
    BY <1>1, <1>3, <2>1
  <2>3. Moved(worker, worker')
    BY <2>2 DEF Moved
  <2> QED BY <1>0, <1>6, <2>1, <2>3, OldMoved
<1> QED BY <1>7, <1>8

LEMMA RanOld ==
  ASSUME IInv, TypeInv', OldInv, NEW t \in Workers, Ran(t)
  PROVE  OldInv'
<1>0. /\ TypeInv /\ RefInv /\ worker[t].st = "run" /\ worker[t].st \in AtWork
      /\ UNCHANGED <<came, jobq_>>
  BY DEF IInv, Ran, peerVars, AtWork
<1>1. /\ worker \in [Workers -> Threads(Len(conn))]
      /\ worker[t] \in [st : AtWork, k : 1..Len(conn), kind : Kinds]
  <2>1. worker \in [Workers -> Threads(Len(conn))] /\ worker[t] \in Threads(Len(conn))
    BY <1>0, ThreadType
  <2> QED BY <1>0, <2>1 DEF Threads, AtWork
<1>2. PICK k \in 1..Len(conn) : k = worker[t].k
  BY <1>1
<1>3. worker[t].kind # "old"
  BY <1>0 DEF OldInv, OnlyCalls
<1>4. conn \in Seq(Loose) /\ conns_ \in 1..Len(conn)
  <2>1. conn \in Seq({Gone} \union Conns) /\ conns_ \in 0..Len(conn)
    BY <1>0 DEF TypeInv
  <2>2. k <= conns_
    BY <1>0, <1>2 DEF IInv, DispatchInv
  <2> QED BY <2>1, <2>2, ConnsLoose
<1>5. PICK d : d = Decref(conn, k)
  OBVIOUS
<1>6. d \in Seq(Loose) /\ Untouched(conn, d)
  BY <1>4, <1>5, RefsOnly
<1>7. conns_ \in 1..Len(d)
  BY <1>4, <1>6 DEF Untouched
<1>8. Untouched(d, Incref(d, conns_))
  BY <1>6, <1>7, RefsOnly
<1>9. conn' = Incref(d, conns_) \/ conn' = conn
  BY <1>2, <1>5 DEF Ran
<1>10. Untouched(conn, conn')
  BY <1>6, <1>8, <1>9, UntouchedTwice, UntouchedSelf
<1>11. worker'[t].kind # "old" /\ \A u \in Workers : u # t => worker'[u] = worker[u]
  BY <1>1, <1>3 DEF Ran
<1>12. Moved(worker, worker')
  BY <1>11 DEF Moved
<1> QED BY <1>0, <1>10, <1>12, OldMoved

\* A send is over: of a reply, or of the refusal of an old request.
LEMMA SentOld ==
  ASSUME IInv, TypeInv', OldInv, NEW t \in Workers, worker[t].st \in AtWork,
         NEW k \in 1..Len(conn), k = worker[t].k, conn[k] # Gone,
         NEW c, c \in Seq(Loose), Len(c) = Len(conn), c[k] # Gone,
         c[k].leaked = conn[k].leaked, c[k].in = conn[k].in, c[k].rpdu_ = conn[k].rpdu_,
         \A j \in 1..Len(conn) : j # k => c[j] = conn[j],
         conn' = Leave(c, worker[t]), worker'[t] = Idle,
         Moved(worker, worker'), SameOld(worker, worker', t), UNCHANGED <<came, jobq_>>
  PROVE  OldInv'
<1>1. CASE worker[t].kind = "old"
  BY <1>1, LeaveOld
<1>2. CASE worker[t].kind # "old"
  <2>1. conn' = Decref(c, k)
    BY <1>2 DEF Leave
  <2>2. Untouched(c, conn')
    BY <2>1, RefsOnly
  <2>3. Untouched(conn, c)
    BY DEF Untouched
  <2>4. Untouched(conn, conn')
    BY <2>2, <2>3, UntouchedTwice
  <2>5. TypeInv
    BY DEF IInv
  <2> QED BY <2>4, <2>5, OldMoved
<1> QED BY <1>1, <1>2

LEMMA SendOld ==
  ASSUME IInv, TypeInv', OldInv, NEW t \in Workers, NEW o, Send(t, o)
  PROVE  OldInv'
<1>0. /\ TypeInv /\ RefInv /\ worker[t].st = "send" /\ worker[t].st \in AtWork
      /\ UNCHANGED <<came, jobq_>>
  BY DEF IInv, Send, peerVars, AtWork
<1>1. /\ worker \in [Workers -> Threads(Len(conn))]
      /\ worker[t] \in [st : AtWork, k : 1..Len(conn), kind : Kinds]
  <2>1. worker \in [Workers -> Threads(Len(conn))] /\ worker[t] \in Threads(Len(conn))
    BY <1>0, ThreadType
  <2> QED BY <1>0, <2>1 DEF Threads, AtWork
<1>2. PICK k \in 1..Len(conn) : k = worker[t].k /\ conn[k] # Gone
  BY <1>0, <1>1, There DEF AllThere, IsThere, Open, IsGone
<1>3. conn \in Seq(Loose) /\ conn[k] \in Conns
  <2>1. conn \in Seq({Gone} \union Conns)
    BY <1>0 DEF TypeInv
  <2>2. conn[k] \in Conns
    BY <1>2, <2>1
  <2> QED BY <2>1, <2>2, ConnsLoose
<1>4. CASE conn' = Leave(conn, worker[t]) /\ worker' = [worker EXCEPT ![t] = Idle]
  <2>1. worker'[t] = Idle /\ \A u \in Workers : u # t => worker'[u] = worker[u]
    BY <1>1, <1>4
  <2>2. Moved(worker, worker')
    BY <2>1 DEF Moved, Idle, AtWork
  <2>3. SameOld(worker, worker', t)
    BY <2>1 DEF SameOld, OldAt
  <2> QED BY <1>0, <1>2, <1>3, <1>4, <2>1, <2>2, <2>3, SentOld
<1>5. ASSUME NEW s, s \notin {"arrived", "run"}, worker' = [worker EXCEPT ![t].st = s],
             NEW r, conn' = [conn EXCEPT ![k] = r],
             r.leaked = conn[k].leaked, r.in = conn[k].in, r.rpdu_ = conn[k].rpdu_
      PROVE  OldInv'
  <2>1. Untouched(conn, conn')
    BY <1>0, <1>2, <1>5, UpdateUntouched
  <2>2. \A u \in Workers : \/ worker'[u] = worker[u]
                           \/ worker[u].st \in AtWork /\ worker'[u] = [worker[u] EXCEPT !.st = s]
    BY <1>0, <1>1, <1>5
  <2>3. Moved(worker, worker')
    BY <1>0, <1>5, <2>2, StateMoved
  <2> QED BY <1>0, <2>1, <2>3, OldMoved
<1>6. CASE worker' = [worker EXCEPT ![t].st = "asleep"] /\ conn' = conn
  <2>1. conn' = [conn EXCEPT ![k] = conn[k]]
    BY <1>3, <1>6
  <2>2. "asleep" \notin {"arrived", "run"}
    OBVIOUS
  <2> QED BY <1>5, <1>6, <2>1, <2>2, Zenon
<1>7. CASE /\ worker' = [worker EXCEPT ![t].st = "partial"]
           /\ conn' = [conn EXCEPT ![k].wpdu_ = t]
  <2>1. PICK r : r = [conn[k] EXCEPT !.wpdu_ = t]
    OBVIOUS
  <2>2. r.leaked = conn[k].leaked /\ r.in = conn[k].in /\ r.rpdu_ = conn[k].rpdu_
    BY <1>3, <2>1 DEF Conns
  <2>3. conn' = [conn EXCEPT ![k] = r]
    BY <1>3, <1>7, <2>1
  <2>4. "partial" \notin {"arrived", "run"}
    OBVIOUS
  <2> QED BY <1>5, <1>7, <2>2, <2>3, <2>4, Zenon
<1>8. CASE /\ worker' = [worker EXCEPT ![t].st = "removing"]
           /\ conn' = [conn EXCEPT ![k].wpdu_ = t, ![k].dead_ = TRUE]
  <2>1. PICK r : r = [conn[k] EXCEPT !.wpdu_ = t, !.dead_ = TRUE]
    OBVIOUS
  <2>2. r.leaked = conn[k].leaked /\ r.in = conn[k].in /\ r.rpdu_ = conn[k].rpdu_
    BY <1>3, <2>1 DEF Conns
  <2>3. conn' = [conn EXCEPT ![k] = r]
    BY <1>2, <1>3, <1>8, <2>1
  <2>4. "removing" \notin {"arrived", "run"}
    OBVIOUS
  <2> QED BY <1>5, <1>8, <2>2, <2>3, <2>4, Zenon
<1> QED BY <1>2, <1>4, <1>6, <1>7, <1>8 DEF Send, RemoveWait

LEMMA ResumedOld ==
  ASSUME IInv, TypeInv', OldInv, NEW t \in Workers, Resumed(t)
  PROVE  OldInv'
<1>0. /\ TypeInv /\ RefInv /\ worker[t].st \in AtWork /\ UNCHANGED <<came, jobq_>>
  BY DEF IInv, Resumed, peerVars, AtWork
<1>1. \A u \in Workers : worker[u].st \in AtWork =>
        worker[u] \in [st : AtWork, k : 1..Len(conn), kind : Kinds]
  <2> SUFFICES ASSUME NEW u \in Workers, worker[u].st \in AtWork
               PROVE  worker[u] \in [st : AtWork, k : 1..Len(conn), kind : Kinds]
    OBVIOUS
  <2>1. worker[u] \in Threads(Len(conn))
    BY <1>0, ThreadType
  <2> QED BY <2>1 DEF Threads, AtWork
<1>2. PICK k \in 1..Len(conn) : k = worker[t].k /\ conn[k] # Gone
  BY <1>0, <1>1, There DEF AllThere, IsThere, Open, IsGone
<1>3. conn \in Seq(Loose) /\ conn[k] \in Conns
  <2>1. conn \in Seq({Gone} \union Conns)
    BY <1>0 DEF TypeInv
  <2>2. conn[k] \in Conns
    BY <1>2, <2>1
  <2> QED BY <2>1, <2>2, ConnsLoose
<1>4. PICK r : r = [conn[k] EXCEPT !.wpdu_ = Nobody]
  OBVIOUS
<1>5. /\ r \in Loose /\ r # Gone
      /\ r.leaked = conn[k].leaked /\ r.in = conn[k].in /\ r.rpdu_ = conn[k].rpdu_
  <2>1. /\ r \in Conns
        /\ r.leaked = conn[k].leaked /\ r.in = conn[k].in /\ r.rpdu_ = conn[k].rpdu_
    BY <1>3, <1>4 DEF Conns
  <2>2. r # Gone
    BY <2>1, ConnsNotGone
  <2>3. r \in Loose
    BY <2>1 DEF Loose, Conns
  <2> QED BY <2>1, <2>2, <2>3
<1>6. PICK c : c = [conn EXCEPT ![k] = r]
  OBVIOUS
<1>7. /\ c \in Seq(Loose) /\ Len(c) = Len(conn) /\ c[k] = r
      /\ \A j \in 1..Len(conn) : j # k => c[j] = conn[j]
  BY <1>3, <1>5, <1>6
<1>8. conn' = Leave(c, worker[t])
  <2>1. c = [conn EXCEPT ![k].wpdu_ = Nobody]
    BY <1>3, <1>4, <1>6
  <2> QED BY <1>2, <2>1 DEF Resumed
<1>9. /\ worker'[t] = Idle
      /\ \A u \in Workers : u # t => \/ worker'[u] = worker[u]
                                     \/ /\ worker[u].st = "asleep"
                                        /\ worker'[u] = [worker[u] EXCEPT !.st = "send"]
  BY DEF Resumed
<1>10. \A u \in Workers : u # t => \/ worker'[u] = worker[u]
                                   \/ /\ worker[u].st \in AtWork /\ worker'[u].st = "send"
                                      /\ worker'[u].k = worker[u].k /\ worker'[u].kind = worker[u].kind
  <2> SUFFICES ASSUME NEW u \in Workers, worker[u].st = "asleep",
                      worker'[u] = [worker[u] EXCEPT !.st = "send"]
               PROVE  /\ worker[u].st \in AtWork /\ worker'[u].st = "send"
                      /\ worker'[u].k = worker[u].k /\ worker'[u].kind = worker[u].kind
    BY <1>9
  <2>1. worker[u].st \in AtWork
    BY DEF AtWork
  <2>2. worker[u] \in [st : AtWork, k : 1..Len(conn), kind : Kinds]
    BY <1>1, <2>1
  <2> QED BY <2>1, <2>2
<1>11. Moved(worker, worker')
  BY <1>9, <1>10 DEF Moved, Idle, AtWork
<1>12. SameOld(worker, worker', t)
  BY <1>10 DEF SameOld, OldAt, AtWork
<1> QED BY <1>0, <1>2, <1>5, <1>7, <1>8, <1>9, <1>11, <1>12, SentOld

LEMMA DestroyerOld ==
  ASSUME IInv, TypeInv', OldInv, DestroyerStep \/ Shutdown
  PROVE  OldInv'
<1>0. TypeInv /\ TableInv /\ AllThere
  BY There DEF IInv
<1>1. CASE Shutdown \/ Joined \/ Down
  <2>1. UNCHANGED <<came, conn, jobq_, worker>>
    BY <1>1 DEF Shutdown, Joined, Down, peerVars
  <2> QED BY <1>0, <2>1, UntouchedSelf, OldQuiet
<1>2. CASE CloseConn \/ Closed
  <2>1. /\ Closing /\ destroyer.todo # {} /\ destroyer.todo \in SUBSET Fds
        /\ UNCHANGED <<came, jobq_, worker>>
    <3>1. Closing /\ destroyer.todo # {} /\ UNCHANGED <<came, jobq_, worker>>
      BY <1>0, <1>2 DEF CloseConn, Closed, Closing, TableInv, peerVars
    <3> QED BY <1>0, <3>1 DEF TypeInv, Closing
  <2>2. PICK fd \in Fds : fd = Least(destroyer.todo) /\ fd \in destroyer.todo
    BY <2>1, LeastIn
  <2>3. table[fd] # 0
    BY <1>0, <2>1, <2>2 DEF TableInv
  <2>4. CASE conn' = Decref(conn, table[fd])
    BY <2>1, <2>3, <2>4, TableOld
  <2>5. CASE conn' = [conn EXCEPT ![table[fd]].dead_ = TRUE, ![table[fd]].eof = TRUE]
    <3>1. PICK k \in 1..Len(conn) : k = table[fd]
      BY <1>0, <2>3 DEF TypeInv
    <3>2. conn[k] # Gone /\ conn[k] \in Conns
      BY <1>0, <2>3, <3>1 DEF AllThere, IsThere, Open, IsGone
    <3>3. PICK r : r = [conn[k] EXCEPT !.dead_ = TRUE, !.eof = TRUE]
      OBVIOUS
    <3>4. r.leaked = conn[k].leaked /\ r.in = conn[k].in /\ r.rpdu_ = conn[k].rpdu_
      BY <3>2, <3>3 DEF Conns
    <3>5. conn' = [conn EXCEPT ![k] = r]
      <4>1. conn \in Seq({Gone} \union Conns)
        BY <1>0 DEF TypeInv
      <4> QED BY <2>5, <3>1, <3>3, <4>1
    <3>6. Untouched(conn, conn')
      BY <1>0, <3>2, <3>4, <3>5, UpdateUntouched
    <3> QED BY <1>0, <2>1, <3>6, OldQuiet
  <2> QED BY <1>2, <2>2, <2>4, <2>5 DEF CloseConn, Closed, Drop
<1> QED BY <1>1, <1>2, AddPillOld DEF DestroyerStep

LEMMA PeerClosesOld ==
  ASSUME IInv, TypeInv', OldInv, NEW k \in ConnIds, PeerCloses(k)
  PROVE  OldInv'
<1>0. TypeInv /\ k \in 1..Len(conn) /\ conn[k] \in Conns /\ conn[k] # Gone
      /\ UNCHANGED <<came, jobq_, worker>>
  BY There DEF IInv, AllThere, PeerCloses, Open, IsGone
<1>1. PICK r : r = [conn[k] EXCEPT !.eof = TRUE]
  OBVIOUS
<1>2. r.leaked = conn[k].leaked /\ r.in = conn[k].in /\ r.rpdu_ = conn[k].rpdu_
  BY <1>0, <1>1 DEF Conns
<1>3. conn' = [conn EXCEPT ![k] = r]
  BY <1>0, <1>1 DEF PeerCloses
<1>4. Untouched(conn, conn')
  BY <1>0, <1>2, <1>3, UpdateUntouched
<1> QED BY <1>0, <1>4, OldQuiet

LEMMA InitOld == Init => OldInv
BY DEF Init, OldInv, OnlyCalls, Open, Idle

LEMMA NextOld == IInv /\ OldInv /\ [Next]_vars => OldInv'
<1> SUFFICES ASSUME IInv, OldInv, [Next]_vars PROVE OldInv'
  OBVIOUS
<1>0. TypeInv /\ TypeInv'
  BY NextIInv DEF IInv
<1>1. CASE \E k \in ConnIds, kind \in Kinds : PeerSends(k, kind)
  BY <1>0, <1>1, PeerOld
<1>2. CASE \E k \in ConnIds : PeerCloses(k)
  BY <1>0, <1>2, PeerClosesOld
<1>3. CASE AcceptorStep \/ PollStep
  BY <1>0, <1>3, AcceptorOld, PollOld
<1>4. ASSUME NEW t \in Workers, WorkerStep(t) PROVE OldInv'
  BY <1>0, <1>4, TakeOld, ArrivedOld, RanOld, SendOld, ResumedOld DEF WorkerStep
<1>5. CASE Shutdown \/ DestroyerStep
  BY <1>0, <1>5, DestroyerOld
<1>6. CASE UNCHANGED vars
  <2>1. UNCHANGED <<came, conn, jobq_, worker>>
    BY <1>6 DEF vars, peerVars
  <2> QED BY <1>0, <2>1, UntouchedSelf, OldQuiet
<1> QED BY <1>1, <1>2, <1>3, <1>4, <1>5, <1>6 DEF Next

\* Every variable stays in its domain; in particular the references that refusals
\* of old requests keep are never more than the requests, and the queue never has
\* more than max_ entries.
THEOREM TypeCorrect == Spec => []TypeOK
<1>1. TypeInv /\ OldInv => TypeOK
  <2> SUFFICES ASSUME TypeInv, OldInv PROVE TypeOK
    OBVIOUS
  <2> DEFINE Bounded == [fd : Fds, in : Seq(Kinds), eof : BOOLEAN, rpdu_ : Kinds \union {"none"},
                         wpdu_ : Workers \union {Nobody}, dead_ : BOOLEAN, refno_ : Nat,
                         leaked : 0..MaxReq]
  <2>1. conn \in Seq({Gone} \union Conns) /\ came \in 0..MaxReq /\ MaxReq \in Nat
    BY BoundsAssumption DEF TypeInv
  <2>2. ASSUME NEW k \in 1..Len(conn) PROVE conn[k] \in {Gone} \union Bounded
    <3>1. CASE conn[k] = Gone
      BY <3>1
    <3>2. CASE conn[k] # Gone
      <4>1. k \in Open
        BY <3>2 DEF Open, IsGone
      <4>2. /\ conn[k] \in Conns /\ conn[k].leaked \in Nat /\ Len(conn[k].in) \in Nat
            /\ One(conn[k].rpdu_ # "none") \in Nat
            /\ InQueue(jobq_, k) \in Nat /\ OldPool(worker, k) \in Nat /\ came \in Nat
        BY <4>1, OwedNat
      <4>3. Owed(conn[k], jobq_, worker, k) <= came
        BY <4>1 DEF OldInv
      <4>4. conn[k].leaked <= came
        BY <4>2, <4>3 DEF Owed
      <4>5. conn[k].leaked \in 0..MaxReq
        BY <2>1, <4>2, <4>4
      <4> QED BY <4>2, <4>5 DEF Conns
    <3> QED BY <3>1, <3>2
  <2>3. conn \in Seq({Gone} \union Bounded)
    BY <2>1, <2>2
  <2> QED BY <2>3 DEF TypeOK, TypeInv, AtWork
<1>2. IInv => TypeInv
  BY DEF IInv
<1> QED BY <1>1, <1>2, InitIInv, NextIInv, InitOld, NextOld, PTL DEF Spec
==============================================================================
