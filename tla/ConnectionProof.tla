-------------------------- MODULE ConnectionProof --------------------------
(***************************************************************************)
(* Proofs about Connection, for any number of senders and closers, PDUs of *)
(* any size and any peer.                                                  *)
(***************************************************************************)
EXTENDS Connection, FiniteSetTheorems, TLAPS

Stages == {"idle", "ready", "wait", "awake", "partial", "resumed", "remove", "removing",
           "removed", "failed", "sent", "out", "closed", "was_dead"}

\* Where a sender has wpdu_.
Writing == {"partial", "resumed", "remove", "removing", "removed", "failed"}

\* Where the thread is that found the connection alive and killed it.
Removers == {"remove", "removing", "removed", "failed", "closed"}

\* Where a sender has written nothing yet.
Before == {"idle", "ready", "wait", "awake"}

Pdus == {NoPdu} \union [buf : Senders, sz : {Size}, solong : 0..Size]
                \union [buf : Senders, sz : {0}, solong : {-1}]

\* TypeOK but for the count of references.
TypeInv ==
  /\ dead_ \in BOOLEAN /\ owned \in BOOLEAN /\ deleted \in BOOLEAN
  /\ rfds_ \in BOOLEAN /\ wfds_ \in BOOLEAN /\ callbacks_ \in BOOLEAN
  /\ pending_change_ \in BOOLEAN /\ tr \in BOOLEAN /\ tw \in BOOLEAN
  /\ errno \in BOOLEAN /\ room \in BOOLEAN /\ aborted \in BOOLEAN
  /\ wpdu_ \in Pdus
  /\ rpdu_ \in {"none", "partial", "full"}
  /\ pipe \in Nat /\ avail \in 0..came /\ came \in 0..MaxIn
  /\ poll \in {"top", "copy", "select", "ready", "read_cb", "write_cb"}
  /\ wire \in {"up", "fin", "reset", "shut"}
  /\ pc \in [Threads -> Stages]
  /\ ret \in [Senders -> BOOLEAN]
  /\ out \in Seq(Senders)

\* wpdu_ belongs to the one sender that is writing; a failed write kills the
\* connection.
WriterInv ==
  /\ \A s \in Senders : pc[s] \in Writing <=> wpdu_.buf = s
  /\ ~dead_ /\ wpdu_.buf # Nobody => wpdu_.sz = Size
  /\ \A s \in Senders : pc[s] \notin {"closed", "was_dead"}
  /\ \A t \in Closers : pc[t] \in {"idle", "remove", "removing", "removed", "closed", "was_dead"}

\* A connection is killed once: one thread at most removes the descriptor.
RemoveInv ==
  /\ \A t \in Threads : pc[t] \in Removers => dead_
  /\ \A t, u \in Threads : pc[t] \in Removers /\ pc[u] \in Removers => t = u

Nowhere(S) == \A t \in Threads : pc[t] \notin S

\* No callback runs, and none will come of what the loop has in hand.
Quiet == /\ poll \notin {"read_cb", "write_cb"}
         /\ ~(poll = "select" /\ (tr \/ tw))
         /\ poll = "ready" => ~callbacks_ \/ (~tr /\ ~tw)

\* How far the descriptor of a dead connection is out of use depends on how far
\* the thread that removes it has come; read_cb and write_cb do it at once.
WatchInv ==
  dead_ => /\ Nowhere({"remove"}) => ~rfds_ /\ ~wfds_
           /\ Nowhere({"remove", "removing"}) => Quiet
           /\ Nowhere({"remove", "removing", "removed"}) => ~callbacks_

Holding == {s \in Senders : pc[s] \notin {"idle", "out"}}

\* The count is exact; a closer keeps the owner, which waits for it, from
\* dropping its reference.
RefInv ==
  /\ refno_ = Cardinality(Holding) + (IF owned THEN 1 ELSE 0)
  /\ deleted => refno_ = 0 /\ dead_
  /\ \A t \in Closers : pc[t] \in {"remove", "removing", "removed"} => owned

\* What was written: whole PDUs and, while the connection lives, what wpdu_ says
\* of the last one; nothing of a sender that has not begun.
Base == Len(out) - wpdu_.solong

Aligned(b) == b % Size = 0

FrameInv ==
  /\ FramesIntact
  /\ \A i \in 1..Len(out) : pc[out[i]] \notin Before
  /\ ~dead_ => /\ Base >= 0 /\ Aligned(Base)
               /\ \A i \in 1..Len(out) : out[i] = wpdu_.buf <=> i > Base

WholeOf(s) == \E b \in Nat :
  /\ b + Size <= Len(out)
  /\ \A i \in 1..Len(out) : out[i] = s <=> b < i /\ i <= b + Size

ReturnInv == \A s \in Senders : ret[s] => pc[s] \in {"sent", "out"} /\ WholeOf(s)

IInv == /\ TypeInv /\ WriterInv /\ RemoveInv /\ WatchInv /\ RefInv /\ FrameInv /\ ReturnInv

-----------------------------------------------------------------------------
(* Facts about numbers, sequences and the state.                           *)

LEMMA SameFrame ==
  ASSUME NEW n \in Nat \ {0}, NEW b \in Nat, b % n = 0, NEW i \in Nat, i <= b + n, 1 <= i
  PROVE  (i - 1) \div n = b \div n <=> i > b
<1> DEFINE q == b \div n
           p == (i - 1) \div n
           r == (i - 1) % n
<1>1. q \in Nat /\ b = n * q
  OBVIOUS
<1>2. p \in Nat /\ r \in Nat /\ r < n /\ i - 1 = n * p + r
  OBVIOUS
<1> HIDE DEF p, q, r
<1>3. CASE p < q
  <2>1. n * (p + 1) <= n * q
    BY <1>1, <1>2, <1>3
  <2> QED BY <1>1, <1>2, <1>3, <2>1
<1>4. CASE p > q
  <2>1. n * (q + 1) <= n * p
    BY <1>1, <1>2, <1>4
  <2> QED BY <1>1, <1>2, <1>4, <2>1
<1>5. CASE p = q
  BY <1>1, <1>2, <1>5
<1> QED BY <1>1, <1>2, <1>3, <1>4, <1>5 DEF p, q

LEMMA NextFrame ==
  ASSUME NEW n \in Nat \ {0}, NEW b \in Nat, b % n = 0
  PROVE  (b + n) % n = 0
<1>1. PICK q \in Nat : b = n * q
  OBVIOUS
<1> DEFINE k == (b + n) \div n
           r == (b + n) % n
<1>2. k \in Nat /\ r \in Nat /\ r < n /\ b + n = n * k + r
  OBVIOUS
<1> HIDE DEF k, r
<1>3. n * (q + 1) = n * k + r
  BY <1>1, <1>2
<1>4. CASE k < q + 1
  <2>1. n * (k + 1) <= n * (q + 1)
    BY <1>1, <1>2, <1>4
  <2> QED BY <1>2, <1>3, <2>1
<1>5. CASE k > q + 1
  <2>1. n * (q + 2) <= n * k
    BY <1>1, <1>2, <1>5
  <2> QED BY <1>1, <1>2, <1>3, <2>1
<1>6. CASE k = q + 1
  BY <1>1, <1>2, <1>3, <1>6
<1>7. r = 0
  BY <1>1, <1>2, <1>4, <1>5, <1>6
<1> QED BY <1>7 DEF r

LEMMA Facts ==
  ASSUME IInv
  PROVE  /\ Size \in Nat \ {0} /\ MaxIn \in Nat
         /\ Senders \subseteq Threads /\ Closers \subseteq Threads
         /\ \A s \in Senders : s \notin Closers /\ s # Nobody
         /\ Len(out) \in Nat /\ \A i \in 1..Len(out) : out[i] \in Senders
         /\ \A t \in Threads : pc[t] \in Stages
         /\ avail \in Nat /\ came \in Nat /\ avail <= came /\ came <= MaxIn
         /\ IsFiniteSet(Senders)
BY SizeAssumption, ThreadAssumption DEF Threads, IInv, TypeInv

LEMMA PduFacts ==
  ASSUME IInv
  PROVE  /\ wpdu_ = [buf |-> wpdu_.buf, sz |-> wpdu_.sz, solong |-> wpdu_.solong]
         /\ wpdu_.buf \in Senders \union {Nobody}
         /\ wpdu_.buf = Nobody <=> wpdu_ = NoPdu
         /\ wpdu_.sz \in {0, Size} /\ wpdu_.solong \in Int /\ wpdu_.solong <= Size
         /\ wpdu_.buf = Nobody => wpdu_.sz = 0 /\ wpdu_.solong = 0
         /\ wpdu_.sz = Size => wpdu_.solong \in 0..Size /\ wpdu_.buf \in Senders
         /\ wpdu_.sz # Size /\ wpdu_.buf # Nobody => wpdu_.solong = -1
<1>1. wpdu_ \in Pdus /\ Size \in Nat \ {0} /\ Nobody \notin Senders
  BY Facts, ThreadAssumption DEF IInv, TypeInv
<1>2. CASE wpdu_ = NoPdu
  BY <1>1, <1>2 DEF NoPdu
<1>3. CASE wpdu_ \in [buf : Senders, sz : {Size}, solong : 0..Size]
  BY <1>1, <1>3 DEF NoPdu
<1>4. CASE wpdu_ \in [buf : Senders, sz : {0}, solong : {-1}]
  BY <1>1, <1>4 DEF NoPdu
<1> QED BY <1>1, <1>2, <1>3, <1>4 DEF Pdus

\* Moves of a thread that change nothing for the others: to and from its waits,
\* and along block_remove_fd.
Along(t) ==
  \/ pc'[t] = pc[t]
  \/ {pc[t], pc'[t]} \subseteq {"ready", "wait", "awake"}
  \/ {pc[t], pc'[t]} \subseteq {"partial", "resumed"}
  \/ pc[t] = "remove" /\ pc'[t] = "removing"
  \/ pc[t] = "removing" /\ pc'[t] = "removed"
  \/ pc[t] = "removed" /\ pc'[t] = IF t \in Closers THEN "closed" ELSE "failed"

Onward == pc' \in [Threads -> Stages] /\ \A t \in Threads : Along(t)

LEMMA OnwardWriter ==
  ASSUME IInv, Onward, wpdu_' = wpdu_, dead_ => dead_'
  PROVE  WriterInv'
BY Facts DEF IInv, TypeInv, WriterInv, Onward, Along, Writing, Stages

LEMMA OnwardRemove ==
  ASSUME IInv, Onward, dead_ => dead_'
  PROVE  RemoveInv'
<1>1. \A t \in Threads : pc'[t] \in Removers => pc[t] \in Removers
  BY DEF Onward, Along, Removers
<1> QED BY <1>1 DEF IInv, RemoveInv

LEMMA OnwardRef ==
  ASSUME IInv, Onward, UNCHANGED refVars, dead_ => dead_'
  PROVE  RefInv'
<1>1. Holding' = Holding
  BY Facts DEF Onward, Along, Holding
<1>2. \A t \in Closers : pc'[t] \in {"remove", "removing", "removed"} =>
                          pc[t] \in {"remove", "removing", "removed"}
  BY Facts DEF Onward, Along
<1> QED BY <1>1, <1>2 DEF IInv, RefInv, refVars

LEMMA OnwardFrame ==
  ASSUME IInv, Onward, UNCHANGED <<wpdu_, out>>, dead_ => dead_'
  PROVE  FrameInv'
<1>1. \A t \in Threads : pc[t] \notin Before => pc'[t] \notin Before
  BY DEF Onward, Along, Before
<1>2. FramesIntact'
  BY DEF IInv, FrameInv, FramesIntact
<1> QED BY <1>1, <1>2, Facts DEF IInv, FrameInv, Base

LEMMA OnwardReturn ==
  ASSUME IInv, Onward, UNCHANGED <<ret, out>>
  PROVE  ReturnInv'
<1>1. \A t \in Threads : pc[t] \in {"sent", "out"} => pc'[t] \in {"sent", "out"}
  BY DEF Onward, Along
<1> QED BY <1>1, Facts DEF IInv, ReturnInv, WholeOf

LEMMA OnwardInv ==
  ASSUME IInv, Onward, UNCHANGED <<wpdu_, refVars, ret, out>>, dead_ => dead_'
  PROVE  WriterInv' /\ RemoveInv' /\ RefInv' /\ FrameInv' /\ ReturnInv'
BY OnwardWriter, OnwardRemove, OnwardRef, OnwardFrame, OnwardReturn

LEMMA StayOnward ==
  ASSUME IInv, pc' = pc
  PROVE  Onward
BY DEF IInv, TypeInv, Onward, Along

LEMMA StayWatch ==
  ASSUME IInv, UNCHANGED <<dead_, pc, watchVars, poll, tr, tw>>
  PROVE  WatchInv'
BY DEF IInv, WatchInv, Nowhere, Quiet, watchVars

-----------------------------------------------------------------------------
(* The socket and the loop.                                                *)

LEMMA EnvironmentIInv ==
  ASSUME IInv, Environment
  PROVE  IInv'
<1>1. UNCHANGED <<connVars, refVars, watchVars, pending_change_, loopVars, pc, ret, out, aborted>>
  BY DEF Environment
<1>2. TypeInv'
  <2>1. CASE PeerSends
    BY <1>1, <2>1, Facts DEF PeerSends, IInv, TypeInv, connVars, refVars, watchVars, loopVars
  <2>2. CASE PeerCloses
    BY <1>1, <2>2 DEF PeerCloses, IInv, TypeInv, connVars, refVars, watchVars, loopVars
  <2>3. CASE PeerResets
    BY <1>1, <2>3, Facts DEF PeerResets, IInv, TypeInv, connVars, refVars, watchVars, loopVars
  <2>4. CASE Drain
    BY <1>1, <2>4 DEF Drain, IInv, TypeInv, connVars, refVars, watchVars, loopVars
  <2> QED BY <2>1, <2>2, <2>3, <2>4 DEF Environment
<1>3. WriterInv' /\ RemoveInv' /\ RefInv' /\ FrameInv' /\ ReturnInv'
  BY <1>1, StayOnward, OnwardInv DEF connVars
<1>4. WatchInv'
  BY <1>1, StayWatch DEF connVars, loopVars
<1> QED BY <1>2, <1>3, <1>4 DEF IInv

LEMMA LoopTopIInv ==
  ASSUME IInv, LoopTop
  PROVE  IInv'
<1>1. /\ UNCHANGED <<connVars, refVars, watchVars, tr, tw, errno, sockVars, ret, out, aborted>>
      /\ pending_change_' = FALSE /\ poll' = "copy" /\ poll = "top"
      /\ pc' = [t \in Threads |-> IF pending_change_ /\ pc[t] = "removing"
                                  THEN "removed" ELSE pc[t]]
  BY DEF LoopTop
<1>2. Onward
  BY <1>1, Facts DEF Onward, Along, Stages
<1>3. TypeInv'
  <2>1. pending_change_' \in BOOLEAN
    BY <1>1
  <2> QED BY <1>1, <1>2, <2>1 DEF IInv, TypeInv, Onward, connVars, refVars, watchVars, sockVars
<1>4. WriterInv' /\ RemoveInv' /\ RefInv' /\ FrameInv' /\ ReturnInv'
  BY <1>1, <1>2, OnwardInv DEF connVars
<1>5. WatchInv'
  <2> SUFFICES ASSUME dead_ PROVE WatchInv'
    BY <1>1 DEF WatchInv, connVars
  <2>1. Quiet'
    BY <1>1 DEF Quiet
  <2>2. Nowhere({"remove"})' => Nowhere({"remove"})
    BY <1>1 DEF Nowhere
  <2>3. Nowhere({"remove", "removing", "removed"})' => Nowhere({"remove", "removing", "removed"})
    BY <1>1 DEF Nowhere
  <2> QED BY <1>1, <2>1, <2>2, <2>3 DEF IInv, WatchInv, connVars, watchVars
<1> QED BY <1>3, <1>4, <1>5 DEF IInv

LEMMA CopySetsIInv ==
  ASSUME IInv, CopySets
  PROVE  IInv'
<1>1. /\ UNCHANGED <<connVars, refVars, watchVars, pending_change_, errno, sockVars, pc, ret,
                     out, aborted>>
      /\ tr' = rfds_ /\ tw' = wfds_ /\ poll' = "select"
  BY DEF CopySets
<1>2. TypeInv'
  BY <1>1 DEF IInv, TypeInv, connVars, refVars, watchVars, sockVars
<1>3. WriterInv' /\ RemoveInv' /\ RefInv' /\ FrameInv' /\ ReturnInv'
  BY <1>1, StayOnward, OnwardInv DEF connVars
<1>4. WatchInv'
  BY <1>1 DEF IInv, TypeInv, WatchInv, Nowhere, Quiet, connVars, watchVars
<1> QED BY <1>2, <1>3, <1>4 DEF IInv

LEMMA SelectIInv ==
  ASSUME IInv, Select
  PROVE  IInv'
<1>1. /\ UNCHANGED <<connVars, refVars, rfds_, wfds_, callbacks_, pending_change_, errno,
                     sockVars, pc, ret, out, aborted>>
      /\ poll = "select" /\ poll' \in {"ready", "top"}
      /\ tr' = (tr /\ (avail > 0 \/ Eof)) /\ tw' = (tw /\ (room \/ Fails))
      /\ poll' = "ready" => tr' \/ tw'
      /\ pipe' = IF pipe > 0 THEN pipe - 1 ELSE 0
  BY DEF Select
<1>2. TypeInv'
  BY <1>1 DEF IInv, TypeInv, connVars, refVars, sockVars, Eof, Fails
<1>3. WriterInv' /\ RemoveInv' /\ RefInv' /\ FrameInv' /\ ReturnInv'
  BY <1>1, StayOnward, OnwardInv DEF connVars
<1>4. WatchInv'
  BY <1>1 DEF IInv, TypeInv, WatchInv, Nowhere, Quiet, connVars
<1> QED BY <1>2, <1>3, <1>4 DEF IInv

LEMMA TestCallbackIInv ==
  ASSUME IInv, TestCallback
  PROVE  IInv'
<1>1. /\ UNCHANGED <<connVars, refVars, watchVars, pending_change_, errno, sockVars, pc, ret,
                     out, aborted>>
      /\ poll = "ready" /\ tr' = FALSE /\ tw' = (tw /\ tr)
      /\ poll' = IF ~tr /\ ~tw THEN "top"
                 ELSE IF ~callbacks_ THEN (IF tr THEN "ready" ELSE "top")
                 ELSE IF tr THEN "read_cb" ELSE "write_cb"
  BY DEF TestCallback
<1>2. TypeInv'
  <2>1. tr' \in BOOLEAN /\ tw' \in BOOLEAN
    BY <1>1
  <2> QED BY <1>1, <2>1 DEF IInv, TypeInv, connVars, refVars, watchVars, sockVars
<1>3. WriterInv' /\ RemoveInv' /\ RefInv' /\ FrameInv' /\ ReturnInv'
  BY <1>1, StayOnward, OnwardInv DEF connVars
<1>4. WatchInv'
  BY <1>1 DEF IInv, TypeInv, WatchInv, Nowhere, Quiet, connVars, watchVars
<1> QED BY <1>2, <1>3, <1>4 DEF IInv

LEMMA RemoveBeginIInv ==
  ASSUME IInv, NEW t \in Threads, RemoveBegin(t)
  PROVE  IInv'
<1>1. /\ UNCHANGED <<connVars, refVars, callbacks_, loopVars, sockVars, ret, out, aborted>>
      /\ pc[t] = "remove" /\ pc' = [pc EXCEPT ![t] = "removing"]
      /\ rfds_' = FALSE /\ wfds_' = FALSE /\ pipe' = pipe + 1 /\ pending_change_' = TRUE
  BY DEF RemoveBegin
<1>2. Onward
  BY <1>1 DEF IInv, TypeInv, Onward, Along, Stages
<1>3. TypeInv'
  <2>1. rfds_' \in BOOLEAN /\ wfds_' \in BOOLEAN /\ pending_change_' \in BOOLEAN
    BY <1>1
  <2> QED BY <1>1, <1>2, <2>1 DEF IInv, TypeInv, Onward, connVars, refVars, loopVars, sockVars
<1>4. WriterInv' /\ RemoveInv' /\ RefInv' /\ FrameInv' /\ ReturnInv'
  BY <1>1, <1>2, OnwardInv DEF connVars
<1>5. ~Nowhere({"remove", "removing"})' /\ ~Nowhere({"remove", "removing", "removed"})'
  BY <1>1 DEF IInv, TypeInv, Nowhere
<1>6. WatchInv'
  BY <1>1, <1>5 DEF WatchInv
<1> QED BY <1>3, <1>4, <1>6 DEF IInv

LEMMA RemoveEndIInv ==
  ASSUME IInv, NEW t \in Threads, RemoveEnd(t)
  PROVE  IInv'
<1>1. /\ UNCHANGED <<connVars, refVars, rfds_, wfds_, pipe, pending_change_, loopVars, sockVars,
                     ret, out, aborted>>
      /\ pc[t] = "removed" /\ callbacks_' = FALSE
      /\ pc' = [pc EXCEPT ![t] = IF t \in Closers THEN "closed" ELSE "failed"]
  BY DEF RemoveEnd
<1>2. Onward
  BY <1>1 DEF IInv, TypeInv, Onward, Along, Stages
<1>3. TypeInv'
  <2>1. callbacks_' \in BOOLEAN
    BY <1>1
  <2> QED BY <1>1, <1>2, <2>1 DEF IInv, TypeInv, Onward, connVars, refVars, loopVars, sockVars
<1>4. WriterInv' /\ RemoveInv' /\ RefInv' /\ FrameInv' /\ ReturnInv'
  BY <1>1, <1>2, OnwardInv DEF connVars
<1>5. Nowhere({"remove"}) /\ Nowhere({"remove", "removing"})
  BY <1>1 DEF IInv, RemoveInv, Removers, Nowhere
<1>6. WatchInv'
  BY <1>1, <1>5 DEF IInv, WatchInv, Quiet, connVars, loopVars
<1> QED BY <1>3, <1>4, <1>6 DEF IInv

LEMMA SpuriousIInv ==
  ASSUME IInv, NEW s \in Senders, Spurious(s)
  PROVE  IInv'
<1>1. /\ UNCHANGED <<connVars, refVars, watchVars, pending_change_, loopVars, sockVars, ret, out,
                     aborted>>
      /\ pc[s] \in {"wait", "partial"}
      /\ pc' = [pc EXCEPT ![s] = IF pc[s] = "wait" THEN "awake" ELSE "resumed"]
  BY DEF Spurious
<1>2. Onward
  BY <1>1, Facts DEF IInv, TypeInv, Onward, Along, Stages
<1>3. TypeInv'
  BY <1>1, <1>2 DEF IInv, TypeInv, Onward, connVars, refVars, watchVars, loopVars, sockVars
<1>4. WriterInv' /\ RemoveInv' /\ RefInv' /\ FrameInv' /\ ReturnInv'
  BY <1>1, <1>2, OnwardInv DEF connVars
<1>5. WatchInv'
  BY <1>1, Facts DEF IInv, TypeInv, WatchInv, Nowhere, Quiet, connVars, watchVars, loopVars
<1> QED BY <1>3, <1>4, <1>5 DEF IInv

-----------------------------------------------------------------------------
(* References and the end of a connection.                                 *)

LEMMA SameRemover ==
  ASSUME IInv, UNCHANGED <<dead_, watchVars, poll, tr, tw>>,
         \A t \in Threads : pc[t] \in {"remove", "removing", "removed"} => pc'[t] = pc[t]
  PROVE  WatchInv'
<1>1. \A S \in SUBSET {"remove", "removing", "removed"} : Nowhere(S)' => Nowhere(S)
  BY DEF Nowhere
<1>2. Quiet => Quiet'
  BY DEF Quiet, watchVars
<1> QED BY <1>1, <1>2 DEF IInv, WatchInv, watchVars

LEMMA GetRefIInv ==
  ASSUME IInv, NEW s \in Senders, GetRef(s)
  PROVE  IInv'
<1>1. /\ UNCHANGED <<connVars, owned, deleted, watchVars, pending_change_, loopVars, sockVars, ret,
                     out, aborted>>
      /\ pc[s] = "idle" /\ owned /\ ~dead_ /\ refno_' = refno_ + 1
      /\ pc' = [pc EXCEPT ![s] = "ready"]
  BY DEF GetRef
<1>2. /\ pc' \in [Threads -> Stages] /\ pc'[s] = "ready"
      /\ \A t \in Threads : t # s => pc'[t] = pc[t]
  BY <1>1, Facts DEF IInv, TypeInv, Stages
<1>3. TypeInv'
  BY <1>1, <1>2 DEF IInv, TypeInv, connVars, watchVars, loopVars, sockVars
<1>4. WriterInv'
  BY <1>1, <1>2, Facts DEF IInv, WriterInv, Writing, connVars
<1>5. RemoveInv'
  BY <1>1, <1>2 DEF IInv, RemoveInv, Removers, connVars
<1>6. WatchInv'
  BY <1>1 DEF WatchInv, connVars
<1>7. RefInv'
  <2>1. Holding' = Holding \union {s} /\ s \notin Holding /\ IsFiniteSet(Holding)
    BY <1>1, <1>2, Facts, FS_Subset DEF Holding
  <2>2. Cardinality(Holding') = Cardinality(Holding) + 1 /\ Cardinality(Holding) \in Nat
    BY <2>1, FS_AddElement, FS_CardinalityType
  <2>3. ~deleted'
    BY <1>1 DEF IInv, RefInv
  <2> QED BY <1>1, <1>2, <2>2, <2>3, Facts DEF IInv, RefInv
<1>8. FrameInv'
  <2>1. \A t \in Threads : pc[t] \notin Before => pc'[t] \notin Before
    BY <1>1, <1>2 DEF Before
  <2>2. FramesIntact'
    BY <1>1 DEF IInv, FrameInv, FramesIntact
  <2> QED BY <1>1, <2>1, <2>2, Facts DEF IInv, FrameInv, Base, connVars
<1>9. ReturnInv'
  BY <1>1, <1>2, Facts DEF IInv, ReturnInv, WholeOf
<1> QED BY <1>3, <1>4, <1>5, <1>6, <1>7, <1>8, <1>9 DEF IInv

LEMMA PutRefIInv ==
  ASSUME IInv, NEW s \in Senders, PutRef(s)
  PROVE  IInv'
<1>1. /\ UNCHANGED <<connVars, owned, watchVars, pending_change_, loopVars, sockVars, ret, out,
                     aborted>>
      /\ pc[s] = "sent" /\ refno_' = refno_ - 1 /\ deleted' = (refno_ - 1 = 0 /\ dead_)
      /\ pc' = [pc EXCEPT ![s] = "out"]
  BY DEF PutRef, Released
<1>2. /\ pc' \in [Threads -> Stages] /\ pc'[s] = "out"
      /\ \A t \in Threads : t # s => pc'[t] = pc[t]
  BY <1>1, Facts DEF IInv, TypeInv, Stages
<1>3. TypeInv'
  <2>1. deleted' \in BOOLEAN
    BY <1>1
  <2> QED BY <1>1, <1>2, <2>1 DEF IInv, TypeInv, connVars, watchVars, loopVars, sockVars
<1>4. WriterInv'
  BY <1>1, <1>2, Facts DEF IInv, WriterInv, Writing, connVars
<1>5. RemoveInv'
  BY <1>1, <1>2 DEF IInv, RemoveInv, Removers, connVars
<1>6. WatchInv'
  BY <1>1, <1>2, SameRemover DEF connVars, loopVars
<1>7. RefInv'
  <2>1. Holding' = Holding \ {s} /\ s \in Holding /\ IsFiniteSet(Holding)
    BY <1>1, <1>2, Facts, FS_Subset DEF Holding
  <2>2. Cardinality(Holding') = Cardinality(Holding) - 1 /\ Cardinality(Holding) \in Nat
    BY <2>1, FS_RemoveElement, FS_CardinalityType
  <2>3. deleted' => refno_' = 0 /\ dead_'
    BY <1>1 DEF connVars
  <2>4. refno_' = Cardinality(Holding') + (IF owned' THEN 1 ELSE 0)
    BY <1>1, <2>2 DEF IInv, RefInv
  <2>5. \A t \in Closers : pc'[t] \in {"remove", "removing", "removed"} => owned'
    BY <1>1, <1>2, Facts DEF IInv, RefInv
  <2> QED BY <2>3, <2>4, <2>5 DEF RefInv
<1>8. FrameInv'
  <2>1. \A t \in Threads : pc[t] \notin Before => pc'[t] \notin Before
    BY <1>1, <1>2 DEF Before
  <2>2. FramesIntact'
    BY <1>1 DEF IInv, FrameInv, FramesIntact
  <2> QED BY <1>1, <2>1, <2>2, Facts DEF IInv, FrameInv, Base, connVars
<1>9. ReturnInv'
  BY <1>1, <1>2, Facts DEF IInv, ReturnInv, WholeOf
<1> QED BY <1>3, <1>4, <1>5, <1>6, <1>7, <1>8, <1>9 DEF IInv

LEMMA DropDeadIInv ==
  ASSUME IInv, DropDead
  PROVE  IInv'
<1>1. /\ UNCHANGED <<connVars, watchVars, pending_change_, loopVars, sockVars, pc, ret, out, aborted>>
      /\ owned /\ dead_ /\ \A t \in Closers : pc[t] \in {"idle", "closed", "was_dead"}
      /\ owned' = FALSE /\ refno_' = refno_ - 1 /\ deleted' = (refno_ - 1 = 0 /\ dead_)
  BY DEF DropDead, Released
<1>2. TypeInv'
  <2>1. deleted' \in BOOLEAN /\ owned' \in BOOLEAN
    BY <1>1
  <2> QED BY <1>1, <2>1 DEF IInv, TypeInv, connVars, watchVars, loopVars, sockVars
<1>3. WriterInv' /\ RemoveInv' /\ FrameInv' /\ ReturnInv'
  BY <1>1, StayOnward, OnwardWriter, OnwardRemove, OnwardFrame, OnwardReturn DEF connVars
<1>4. WatchInv'
  BY <1>1, StayWatch DEF connVars, loopVars
<1>5. RefInv'
  <2>1. Holding' = Holding /\ Cardinality(Holding) \in Nat
    BY <1>1, Facts, FS_Subset, FS_CardinalityType DEF Holding
  <2>2. deleted' => refno_' = 0 /\ dead_'
    BY <1>1 DEF connVars
  <2>3. refno_' = Cardinality(Holding') + (IF owned' THEN 1 ELSE 0)
    BY <1>1, <2>1 DEF IInv, RefInv
  <2> QED BY <1>1, <2>2, <2>3 DEF RefInv
<1> QED BY <1>2, <1>3, <1>4, <1>5 DEF IInv

LEMMA CloseConnIInv ==
  ASSUME IInv, NEW t \in Closers, CloseConn(t)
  PROVE  IInv'
<1>1. /\ UNCHANGED <<wpdu_, rpdu_, refVars, watchVars, pending_change_, loopVars, room, avail, came,
                     ret, out, aborted>>
      /\ pc[t] = "idle" /\ owned
      /\ \/ dead_ /\ pc' = [pc EXCEPT ![t] = "was_dead"] /\ UNCHANGED <<dead_, wire>>
         \/ ~dead_ /\ dead_' = TRUE /\ wire' = "shut" /\ pc' = [pc EXCEPT ![t] = "remove"]
  BY DEF CloseConn, connVars
<1>2. /\ pc' \in [Threads -> Stages] /\ t \in Threads /\ t \notin Senders
      /\ pc'[t] = IF dead_ THEN "was_dead" ELSE "remove"
      /\ \A u \in Threads : u # t => pc'[u] = pc[u]
  BY <1>1, Facts DEF IInv, TypeInv, Stages
<1>3. dead_' \in BOOLEAN /\ (dead_ => dead_')
  <2>1. dead_ \in BOOLEAN
    BY DEF IInv, TypeInv
  <2>2. CASE dead_' = dead_
    BY <2>1, <2>2
  <2>3. CASE dead_' = TRUE
    BY <2>3
  <2> QED BY <1>1, <2>2, <2>3
<1>4. TypeInv'
  BY <1>1, <1>2, <1>3 DEF IInv, TypeInv, refVars, watchVars, loopVars
<1>5. WriterInv'
  BY <1>1, <1>2, <1>3, Facts DEF IInv, WriterInv, Writing
<1>6. RemoveInv'
  BY <1>1, <1>2, <1>3 DEF IInv, RemoveInv, Removers
<1>7. WatchInv'
  <2>1. CASE dead_
    BY <1>1, <1>2, <2>1, SameRemover DEF loopVars
  <2>2. CASE ~dead_
    BY <1>2, <2>2 DEF WatchInv, Nowhere
  <2> QED BY <2>1, <2>2
<1>8. RefInv'
  <2>1. Holding' = Holding
    BY <1>2, Facts DEF Holding
  <2> QED BY <1>1, <1>2, <1>3, <2>1, Facts DEF IInv, RefInv, refVars
<1>9. FrameInv'
  <2>1. \A i \in 1..Len(out) : pc'[out[i]] = pc[out[i]]
    BY <1>2, Facts
  <2>2. FramesIntact'
    BY <1>1 DEF IInv, FrameInv, FramesIntact
  <2> QED BY <1>1, <1>3, <2>1, <2>2 DEF IInv, FrameInv, Base
<1>10. ReturnInv'
  BY <1>1, <1>2, Facts DEF IInv, ReturnInv, WholeOf
<1> QED BY <1>4, <1>5, <1>6, <1>7, <1>8, <1>9, <1>10 DEF IInv

\* What a read can do.
LEMMA ReadOutcomeFacts ==
  ASSUME IInv, NEW o \in ReadOutcomes
  PROVE  o.ok \in BOOLEAN /\ o.pdu \in {"none", "partial", "full"} /\ o.avail \in 0..avail
         /\ o.errno \in BOOLEAN
<1>1. errno \in BOOLEAN /\ avail \in Nat
  BY Facts DEF IInv, TypeInv
<1>2. \A a \in Nat : /\ ReadBody(a).ok \in BOOLEAN /\ ReadBody(a).pdu \in {"none", "partial", "full"}
                      /\ ReadBody(a).avail \in 0..a /\ ReadBody(a).errno \in BOOLEAN
  <2> SUFFICES ASSUME NEW a \in Nat
               PROVE  /\ ReadBody(a).ok \in BOOLEAN /\ ReadBody(a).pdu \in {"none", "partial", "full"}
                      /\ ReadBody(a).avail \in 0..a /\ ReadBody(a).errno \in BOOLEAN
    OBVIOUS
  <2>1. CASE a > 0
    BY <1>1, <2>1 DEF ReadBody
  <2>2. CASE ~(a > 0)
    BY <1>1, <2>2 DEF ReadBody
  <2> QED BY <2>1, <2>2
<1>3. CASE o = ReadBody(avail)
  BY <1>1, <1>2, <1>3
<1>4. CASE avail > 0 /\ o = ReadBody(avail - 1)
  BY <1>1, <1>2, <1>4
<1>5. CASE o = [ok |-> FALSE, pdu |-> "none", avail |-> IF avail > 0 THEN avail - 1 ELSE 0,
                errno |-> errno /\ wire # "reset"]
  BY <1>1, <1>5
<1> QED BY <1>3, <1>4, <1>5 DEF ReadOutcomes

LEMMA SignalOnward ==
  ASSUME IInv, SignalComplete
  PROVE  Onward
BY Facts DEF SignalComplete, Asleep, Onward, Along, Stages

LEMMA ReadCbIInv ==
  ASSUME IInv, NEW taken \in BOOLEAN, ReadCb(taken)
  PROVE  IInv'
<1>1. /\ UNCHANGED <<refVars, pending_change_, tr, tw, wire, room, came, ret, out, aborted>>
      /\ poll = "read_cb" /\ poll' = "ready"
  BY DEF ReadCb
<1>2. CASE dead_
  <2>1. UNCHANGED <<connVars, watchVars, errno, avail, pc>>
    BY <1>2 DEF ReadCb
  <2>2. TypeInv'
    BY <1>1, <2>1 DEF IInv, TypeInv, connVars, refVars, watchVars
  <2>3. WriterInv' /\ RemoveInv' /\ RefInv' /\ FrameInv' /\ ReturnInv'
    BY <1>1, <2>1, StayOnward, OnwardInv DEF connVars
  <2>4. ~Nowhere({"remove", "removing"})
    BY <1>1, <1>2 DEF IInv, WatchInv, Quiet
  <2>5. WatchInv'
    BY <1>1, <1>2, <2>1, <2>4 DEF IInv, WatchInv, Nowhere, connVars, watchVars
  <2> QED BY <2>2, <2>3, <2>5 DEF IInv
<1>3. CASE ~dead_
  <2>1. PICK o \in IF rpdu_ = "full"
                   THEN {[ok |-> TRUE, pdu |-> "full", avail |-> avail, errno |-> errno]}
                   ELSE ReadOutcomes :
          /\ rpdu_' = IF taken THEN "none" ELSE o.pdu
          /\ avail' = o.avail /\ errno' = o.errno /\ dead_' = ~o.ok
          /\ IF o.ok THEN UNCHANGED <<watchVars, pc>> ELSE Unwatch /\ SignalComplete
          /\ UNCHANGED wpdu_
    BY <1>3 DEF ReadCb
  <2>2. /\ o.ok \in BOOLEAN /\ o.pdu \in {"none", "partial", "full"} /\ o.avail \in 0..avail
        /\ o.errno \in BOOLEAN
    <3>1. errno \in BOOLEAN /\ avail \in Nat
      BY Facts DEF IInv, TypeInv
    <3>2. CASE rpdu_ = "full"
      <4>1. o = [ok |-> TRUE, pdu |-> "full", avail |-> avail, errno |-> errno]
        BY <3>2
      <4>2. o.ok \in BOOLEAN
        BY <4>1
      <4> QED BY <3>1, <4>1, <4>2
    <3>3. CASE rpdu_ # "full"
      BY <3>3, ReadOutcomeFacts
    <3> QED BY <3>2, <3>3
  <2>3. Onward
    BY <2>1, <2>2, StayOnward, SignalOnward
  <2>4. WriterInv' /\ RemoveInv' /\ RefInv' /\ FrameInv' /\ ReturnInv'
    BY <1>1, <1>3, <2>1, <2>3, OnwardInv
  <2>5. dead_' \in BOOLEAN
    BY <2>1
  <2>6. CASE o.ok
    <3>1. UNCHANGED <<watchVars, pc>> /\ ~dead_'
      BY <2>1, <2>6
    <3>2. TypeInv'
      BY <1>1, <2>1, <2>2, <2>5, <3>1, Facts DEF IInv, TypeInv, refVars, watchVars
    <3> QED BY <2>4, <3>1, <3>2 DEF IInv, WatchInv
  <2>7. CASE ~o.ok
    <3>1. /\ rfds_' = FALSE /\ wfds_' = FALSE /\ callbacks_' = FALSE /\ pipe' = pipe + 1
      BY <2>1, <2>7 DEF Unwatch
    <3>2. rfds_' \in BOOLEAN /\ wfds_' \in BOOLEAN /\ callbacks_' \in BOOLEAN
      BY <3>1
    <3>3. pc' \in [Threads -> Stages]
      BY <2>3 DEF Onward
    <3>4. TypeInv'
      BY <1>1, <2>1, <2>2, <2>5, <3>1, <3>2, <3>3, Facts DEF IInv, TypeInv, refVars
    <3>5. WatchInv'
      BY <1>1, <3>1 DEF WatchInv, Quiet
    <3> QED BY <2>4, <3>4, <3>5 DEF IInv
  <2> QED BY <2>2, <2>6, <2>7
<1> QED BY <1>2, <1>3

-----------------------------------------------------------------------------
(* Writing.                                                                *)

LEMMA Copies ==
  ASSUME NEW S, NEW x \in S, NEW n \in Nat, NEW e, e = [i \in 1..n |-> x]
  PROVE  e \in Seq(S) /\ Len(e) = n /\ \A i \in 1..n : e[i] = x
OBVIOUS

LEMMA Appended ==
  ASSUME IInv, NEW e \in Seq(Senders), out' = out \o e
  PROVE  /\ out' \in Seq(Senders) /\ Len(out') = Len(out) + Len(e)
         /\ \A i \in 1..Len(out) : out'[i] = out[i]
         /\ \A i \in 1..(Len(out) + Len(e)) : i > Len(out) => out'[i] = e[i - Len(out)]
<1>1. out \in Seq(Senders)
  BY DEF IInv, TypeInv
<1> QED BY <1>1

LEMMA AppendedCopies ==
  ASSUME IInv, NEW s \in Senders, NEW n \in Nat, NEW e \in Seq(Senders), Len(e) = n,
         \A i \in 1..n : e[i] = s, out' = out \o e
  PROVE  /\ out' \in Seq(Senders) /\ Len(out') = Len(out) + n
         /\ \A i \in 1..Len(out) : out'[i] = out[i]
         /\ \A i \in 1..(Len(out) + n) : i > Len(out) => out'[i] = s
<1>1. /\ out' \in Seq(Senders) /\ Len(out') = Len(out) + Len(e)
      /\ \A i \in 1..Len(out) : out'[i] = out[i]
      /\ \A i \in 1..(Len(out) + Len(e)) : i > Len(out) => out'[i] = e[i - Len(out)]
  BY Appended, Zenon
<1>2. \A i \in 1..(Len(out) + n) : i > Len(out) => i - Len(out) \in 1..n
  BY Facts
<1> QED BY <1>1, <1>2, Zenon

\* n more chunks of s, whose PDU began behind b.
LEMMA Emitted ==
  ASSUME IInv, NEW s \in Senders, NEW n \in Nat, NEW b \in Nat,
         Aligned(b), b <= Len(out), Len(out) + n <= b + Size,
         \A i \in 1..Len(out) : out[i] = s <=> i > b,
         Len(out') = Len(out) + n, \A i \in 1..Len(out) : out'[i] = out[i],
         \A i \in 1..(Len(out) + n) : i > Len(out) => out'[i] = s
  PROVE  /\ \A i \in 1..Len(out') : out'[i] = s <=> i > b
         /\ FramesIntact'
         /\ \A r \in Senders : r # s /\ WholeOf(r) => WholeOf(r)'
<1> DEFINE l == Len(out)
<1>2. l \in Nat /\ Size \in Nat \ {0}
  BY Facts
<1>4. Len(out') = l + n /\ \A i \in 1..l : out'[i] = out[i]
  OBVIOUS
<1>5. \A i \in 1..(l + n) : i > l => out'[i] = s
  OBVIOUS
<1> HIDE DEF l
<1>6. \A i \in 1..(l + n) : out'[i] = s <=> i > b
  <2> SUFFICES ASSUME NEW i \in 1..(l + n) PROVE out'[i] = s <=> i > b
    OBVIOUS
  <2>1. CASE i > l
    BY <1>2, <1>5, <2>1 DEF l
  <2>2. CASE i <= l
    BY <1>2, <1>4, <2>2 DEF l
  <2> QED BY <1>2, <2>1, <2>2
<1>7. FramesIntact'
  <2> DEFINE F(i) == (i - 1) \div Size
  <2>1. \A i, j \in 1..l : out[i] = out[j] <=> F(i) = F(j)
    BY DEF IInv, FrameInv, FramesIntact, l
  <2>2. \A i \in 1..(l + n) : F(i) = b \div Size <=> i > b
    <3> SUFFICES ASSUME NEW i \in 1..(l + n)
                 PROVE  (i - 1) \div Size = b \div Size <=> i > b
      OBVIOUS
    <3>1. i \in Nat /\ 1 <= i /\ i <= b + Size
      BY <1>2 DEF l
    <3>2. b % Size = 0
      BY DEF Aligned
    <3> QED BY <1>2, <3>1, <3>2, SameFrame
  <2> SUFFICES ASSUME NEW i \in 1..(l + n), NEW j \in 1..(l + n)
               PROVE  out'[i] = out'[j] <=> F(i) = F(j)
    BY <1>4 DEF FramesIntact
  <2> HIDE DEF F
  <2>3. CASE i <= l /\ j <= l
    <3>1. i \in 1..l /\ j \in 1..l
      BY <1>2, <2>3
    <3> QED BY <1>4, <2>1, <3>1
  <2>4. CASE i > l
    <3>1. out'[i] = s /\ F(i) = b \div Size
      BY <1>2, <1>5, <2>2, <2>4 DEF l
    <3>2. (out'[j] = s <=> j > b) /\ (F(j) = b \div Size <=> j > b)
      BY <1>6, <2>2
    <3> QED BY <3>1, <3>2
  <2>5. CASE j > l
    <3>1. out'[j] = s /\ F(j) = b \div Size
      BY <1>2, <1>5, <2>2, <2>5 DEF l
    <3>2. (out'[i] = s <=> i > b) /\ (F(i) = b \div Size <=> i > b)
      BY <1>6, <2>2
    <3> QED BY <3>1, <3>2
  <2> QED BY <1>2, <2>3, <2>4, <2>5
<1>8. ASSUME NEW r \in Senders, r # s, WholeOf(r)
      PROVE  WholeOf(r)'
  <2>1. PICK a \in Nat : /\ a + Size <= l
                         /\ \A i \in 1..l : out[i] = r <=> a < i /\ i <= a + Size
    BY <1>8 DEF WholeOf, l
  <2>2. ASSUME NEW i \in 1..(l + n)
        PROVE  out'[i] = r <=> a < i /\ i <= a + Size
    <3>1. CASE i > l
      BY <1>2, <1>5, <1>8, <2>1, <3>1
    <3>2. CASE i <= l
      <4>1. i \in 1..l
        BY <1>2, <3>2
      <4>2. out'[i] = out[i] /\ (out[i] = r <=> a < i /\ i <= a + Size)
        BY <1>4, <2>1, <4>1
      <4> QED BY <4>2
    <3> QED BY <1>2, <3>1, <3>2
  <2>3. a + Size <= Len(out')
    BY <1>2, <1>4, <2>1
  <2>4. \A i \in 1..Len(out') : out'[i] = r <=> a < i /\ i <= a + Size
    BY <1>4, <2>2
  <2> QED BY <2>3, <2>4 DEF WholeOf
<1> QED BY <1>4, <1>6, <1>7, <1>8

\* One write on the PDU p.
LEMMA WriteFacts ==
  ASSUME IInv, NEW p \in [buf : Senders, sz : {Size}, solong : 0..Size], NEW o \in WriteOutcomes(p)
  PROVE  /\ o.n \in Nat /\ p.solong + o.n <= Size
         /\ o.room \in BOOLEAN /\ o.fails \in BOOLEAN /\ (o.fails => o.n = 0)
         /\ ~o.fails => Written(p, o) = [buf |-> p.buf, sz |-> Size, solong |-> p.solong + o.n]
         /\ o.fails => Written(p, o) = [buf |-> p.buf, sz |-> 0, solong |-> -1]
<1>1. room \in BOOLEAN /\ Size \in Nat
  BY Facts DEF IInv, TypeInv
<1>2. p = [buf |-> p.buf, sz |-> Size, solong |-> p.solong] /\ p.sz = Size /\ p.solong \in 0..Size
  OBVIOUS
<1>3. /\ o.n \in Nat /\ p.solong + o.n <= Size
      /\ o.room \in BOOLEAN /\ o.fails \in BOOLEAN /\ (o.fails => o.n = 0)
  <2>1. CASE o = [n |-> 0, room |-> room, fails |-> FALSE]
    <3>1. o.fails \in BOOLEAN
      BY <2>1
    <3> QED BY <1>1, <1>2, <2>1, <3>1
  <2>2. CASE o = [n |-> 0, room |-> room, fails |-> TRUE]
    <3>1. o.fails \in BOOLEAN
      BY <2>2
    <3> QED BY <1>1, <1>2, <2>2, <3>1
  <2>3. CASE \E k \in 1..(p.sz - p.solong) : o = [n |-> k, room |-> k = p.sz - p.solong, fails |-> FALSE]
    <3>1. PICK k \in 1..(p.sz - p.solong) : o = [n |-> k, room |-> k = p.sz - p.solong, fails |-> FALSE]
      BY <2>3
    <3>2. o.fails \in BOOLEAN /\ ~o.fails /\ o.room \in BOOLEAN
      BY <3>1
    <3>3. o.n = k
      BY <3>1
    <3> QED BY <1>1, <1>2, <3>2, <3>3
  <2>4. CASE o = [n |-> 0, room |-> FALSE, fails |-> FALSE]
    <3>1. o.fails \in BOOLEAN /\ o.room \in BOOLEAN
      BY <2>4
    <3> QED BY <1>1, <1>2, <2>4, <3>1
  <2> QED BY <2>1, <2>2, <2>3, <2>4 DEF WriteOutcomes
<1>4. ASSUME ~o.fails
      PROVE  Written(p, o) = [buf |-> p.buf, sz |-> Size, solong |-> p.solong + o.n]
  BY <1>2, <1>4 DEF Written
<1>5. ASSUME o.fails
      PROVE  Written(p, o) = [buf |-> p.buf, sz |-> 0, solong |-> -1]
  BY <1>2, <1>5 DEF Written
<1> QED BY <1>3, <1>4, <1>5

\* While the connection lives, what is on the wire of the PDU in wpdu_.
LEMMA Underway ==
  ASSUME IInv, ~dead_
  PROVE  /\ Base \in Nat /\ Aligned(Base) /\ Base = Len(out) - wpdu_.solong
         /\ \A i \in 1..Len(out) : out[i] = wpdu_.buf <=> i > Base
         /\ wpdu_.buf = Nobody => Base = Len(out)
         /\ wpdu_.buf # Nobody =>
              /\ wpdu_ \in [buf : Senders, sz : {Size}, solong : 0..Size]
              /\ pc[wpdu_.buf] \in {"partial", "resumed"}
              /\ Base <= Len(out) /\ Len(out) <= Base + Size
<1>1. /\ Base >= 0 /\ Aligned(Base) /\ Base = Len(out) - wpdu_.solong
      /\ \A i \in 1..Len(out) : out[i] = wpdu_.buf <=> i > Base
  BY DEF IInv, FrameInv, Base
<1>2. Len(out) \in Nat /\ wpdu_.solong \in Int /\ Size \in Nat
  BY Facts, PduFacts
<1>3. Base \in Nat
  BY <1>1, <1>2
<1>4. ASSUME wpdu_.buf = Nobody PROVE Base = Len(out)
  BY <1>1, <1>2, <1>4, PduFacts
<1>5. ASSUME wpdu_.buf # Nobody
      PROVE  /\ wpdu_ \in [buf : Senders, sz : {Size}, solong : 0..Size]
             /\ pc[wpdu_.buf] \in {"partial", "resumed"}
             /\ Base <= Len(out) /\ Len(out) <= Base + Size
  <2>1. wpdu_.sz = Size /\ wpdu_.buf \in Senders /\ wpdu_.solong \in 0..Size
    BY <1>5, PduFacts DEF IInv, WriterInv
  <2>2. wpdu_ \in [buf : Senders, sz : {Size}, solong : 0..Size]
    BY <2>1, PduFacts
  <2>3. pc[wpdu_.buf] \in Writing /\ pc[wpdu_.buf] \notin Removers
    BY <2>1, Facts DEF IInv, WriterInv, RemoveInv
  <2>4. pc[wpdu_.buf] \in {"partial", "resumed"}
    BY <2>3 DEF Writing, Removers
  <2> HIDE DEF Base
  <2> QED BY <1>1, <1>2, <2>1, <2>2, <2>4
<1> QED BY <1>1, <1>3, <1>4, <1>5

LEMMA WriteCbIInv ==
  ASSUME IInv, WriteCb
  PROVE  IInv'
<1>1. /\ UNCHANGED <<refVars, pending_change_, tr, tw, wire, avail, came, ret, aborted>>
      /\ poll = "write_cb" /\ poll' = "top" /\ ~dead_
  BY DEF WriteCb
<1>2. CASE wpdu_.sz = 0
  <2>1. /\ UNCHANGED <<connVars, errno, room, pc, out, rfds_, pipe>>
        /\ wfds_' = FALSE /\ callbacks_' = (callbacks_ /\ rfds_)
    BY <1>2 DEF WriteCb, UnwatchWrite
  <2>2. wfds_' \in BOOLEAN /\ callbacks_' \in BOOLEAN
    BY <2>1
  <2>3. TypeInv'
    BY <1>1, <2>1, <2>2 DEF IInv, TypeInv, connVars, refVars
  <2>4. WriterInv' /\ RemoveInv' /\ RefInv' /\ FrameInv' /\ ReturnInv'
    BY <1>1, <2>1, StayOnward, OnwardInv DEF connVars
  <2>5. WatchInv'
    BY <1>1, <2>1 DEF WatchInv, connVars
  <2> QED BY <2>3, <2>4, <2>5 DEF IInv
<1>3. CASE wpdu_.sz # 0
  <2>1. PICK o \in WriteOutcomes(wpdu_) :
          /\ wpdu_' = Written(wpdu_, o) /\ room' = o.room /\ Emit(wpdu_, o)
          /\ errno' = ((errno \/ (o.n = 0 /\ wpdu_.solong < wpdu_.sz)) /\ ~o.fails)
          /\ dead_' = o.fails
          /\ IF o.fails THEN Unwatch ELSE UNCHANGED watchVars
          /\ IF o.fails \/ wpdu_'.solong = wpdu_'.sz THEN SignalComplete ELSE UNCHANGED pc
          /\ UNCHANGED rpdu_
    BY <1>3 DEF WriteCb
  <2>2. wpdu_.buf # Nobody
    BY <1>3, PduFacts
  <2>3. wpdu_ \in [buf : Senders, sz : {Size}, solong : 0..Size]
    BY <1>1, <2>2, Underway
  <2>4. PICK s \in Senders : s = wpdu_.buf
    BY <2>3
  <2>5. PICK b \in Nat : b = Base
    BY <1>1, Underway
  <2>6. /\ o.n \in Nat /\ wpdu_.solong + o.n <= Size
        /\ o.room \in BOOLEAN /\ o.fails \in BOOLEAN /\ (o.fails => o.n = 0)
        /\ ~o.fails => wpdu_' = [buf |-> s, sz |-> Size, solong |-> wpdu_.solong + o.n]
        /\ o.fails => wpdu_' = [buf |-> s, sz |-> 0, solong |-> -1]
    BY <2>1, <2>3, <2>4, WriteFacts
  <2>7. /\ out \in Seq(Senders) /\ Len(out) \in Nat /\ Size \in Nat \ {0}
        /\ wpdu_.solong \in 0..Size
    BY <2>3, Facts DEF IInv, TypeInv
  <2> PICK n \in Nat : n = o.n
    BY <2>6
  <2> PICK e : e = [i \in 1..n |-> s]
    OBVIOUS
  <2>8. /\ e \in Seq(Senders) /\ Len(e) = n /\ \A i \in 1..n : e[i] = s
        /\ out' = out \o e
    BY <2>1, <2>4, Copies DEF Emit
  <2>9. /\ out' \in Seq(Senders) /\ Len(out') = Len(out) + n
        /\ \A i \in 1..Len(out) : out'[i] = out[i]
        /\ \A i \in 1..(Len(out) + n) : i > Len(out) => out'[i] = s
    BY <2>8, AppendedCopies, Zenon
  <2>10. /\ Aligned(b) /\ b = Len(out) - wpdu_.solong /\ b <= Len(out)
         /\ \A i \in 1..Len(out) : out[i] = s <=> i > b
    BY <1>1, <2>2, <2>4, <2>5, Underway
  <2>11. Len(out) + n <= b + Size
    BY <2>6, <2>7, <2>10
  <2>12. /\ \A i \in 1..Len(out') : out'[i] = s <=> i > b
         /\ FramesIntact'
         /\ \A r \in Senders : r # s /\ WholeOf(r) => WholeOf(r)'
    BY <2>9, <2>10, <2>11, Emitted, Zenon
  <2>13. Onward
    BY <2>1, StayOnward, SignalOnward
  <2>14. wpdu_'.buf = s /\ wpdu_' \in Pdus /\ dead_' \in BOOLEAN /\ (~dead_' => ~o.fails)
    <3>1. dead_' \in BOOLEAN /\ (~dead_' => ~o.fails)
      BY <2>1, <2>6
    <3>2. CASE o.fails
      BY <2>6, <3>1, <3>2 DEF Pdus
    <3>3. CASE ~o.fails
      BY <2>6, <2>7, <3>1, <3>3 DEF Pdus
    <3> QED BY <3>2, <3>3
  <2>15. TypeInv'
    <3>1. errno' \in BOOLEAN
      BY <2>1
    <3>2. rfds_' \in BOOLEAN /\ wfds_' \in BOOLEAN /\ callbacks_' \in BOOLEAN
      <4>1. CASE o.fails
        BY <2>1, <4>1 DEF Unwatch
      <4>2. CASE ~o.fails
        BY <2>1, <4>2 DEF IInv, TypeInv, watchVars
      <4> QED BY <4>1, <4>2
    <3>3. pipe' \in Nat
      <4>1. pipe \in Nat
        BY DEF IInv, TypeInv
      <4>2. pipe' = pipe \/ pipe' = pipe + 1
        BY <2>1 DEF Unwatch, watchVars
      <4> QED BY <4>1, <4>2
    <3>4. pc' \in [Threads -> Stages]
      BY <2>13 DEF Onward
    <3> QED BY <1>1, <2>1, <2>6, <2>9, <2>14, <3>1, <3>2, <3>3, <3>4 DEF IInv, TypeInv, refVars
  <2>16. WriterInv'
    <3>1. \A r \in Senders : pc'[r] \in Writing <=> pc[r] \in Writing
      BY <2>13, Facts DEF Onward, Along, Writing
    <3>2. \A r \in Senders : pc[r] \in Writing <=> r = s
      BY <2>4 DEF IInv, WriterInv
    <3>3. ~dead_' => wpdu_'.sz = Size
      BY <2>6, <2>14
    <3>4. \A r \in Senders : pc'[r] \notin {"closed", "was_dead"}
      BY <2>13, Facts DEF Onward, Along, IInv, WriterInv
    <3>5. \A t \in Closers : pc'[t] \in {"idle", "remove", "removing", "removed", "closed", "was_dead"}
      BY <2>13, Facts DEF Onward, Along, IInv, WriterInv
    <3> QED BY <2>14, <3>1, <3>2, <3>3, <3>4, <3>5 DEF WriterInv
  <2>17. RemoveInv' /\ RefInv'
    BY <1>1, <2>13, OnwardRemove, OnwardRef
  <2>18. WatchInv'
    BY <1>1, <2>1, <2>14 DEF WatchInv, Unwatch, Quiet
  <2>19. FrameInv'
    <3>1. ASSUME NEW i \in 1..Len(out') PROVE pc'[out'[i]] \notin Before
      <4>1. \A t \in Threads : pc[t] \notin Before => pc'[t] \notin Before
        BY <2>13 DEF Onward, Along, Before
      <4>2. pc[s] \notin Before /\ s \in Threads
        BY <1>1, <2>2, <2>4, Underway, Facts DEF Before
      <4>3. CASE i > Len(out)
        BY <2>9, <4>1, <4>2, <4>3
      <4>4. CASE i <= Len(out)
        <5>1. i \in 1..Len(out)
          BY <2>7, <4>4
        <5> QED BY <2>9, <4>1, <5>1, Facts DEF IInv, FrameInv
      <4> QED BY <2>6, <2>7, <2>9, <4>3, <4>4
    <3>2. ASSUME ~dead_' PROVE Base' = b
      <4>1. wpdu_'.solong = wpdu_.solong + o.n
        BY <2>6, <2>14, <3>2
      <4> QED BY <2>6, <2>7, <2>9, <2>10, <4>1 DEF Base
    <3> HIDE DEF Base
    <3> QED BY <2>10, <2>12, <2>14, <3>1, <3>2 DEF FrameInv, Aligned
  <2>20. ReturnInv'
    <3>1. pc[s] \notin {"sent", "out"}
      BY <1>1, <2>2, <2>4, Underway
    <3>2. \A t \in Threads : pc[t] \in {"sent", "out"} => pc'[t] \in {"sent", "out"}
      BY <2>13 DEF Onward, Along
    <3> QED BY <1>1, <2>12, <3>1, <3>2, Facts DEF IInv, ReturnInv
  <2> QED BY <2>15, <2>16, <2>17, <2>18, <2>19, <2>20 DEF IInv
<1> QED BY <1>2, <1>3

\* A step of sender s that does no more to the others than to wake those who wait
\* for wpdu_.
Others(s) == /\ pc' \in [Threads -> Stages]
             /\ \A t \in Threads : t # s => pc'[t] = pc[t] \/ (pc[t] = "wait" /\ pc'[t] = "awake")

LEMMA OthersFacts ==
  ASSUME IInv, NEW s \in Senders, Others(s), pc[s] \notin {"idle", "out"},
         pc'[s] \in {"wait", "sent", "remove", "partial"}
  PROVE  /\ \A r \in Senders : r # s => (pc'[r] \in Writing <=> pc[r] \in Writing)
         /\ \A r \in Senders : pc'[r] \notin {"closed", "was_dead"}
         /\ \A t \in Closers : pc'[t] = pc[t]
         /\ \A t \in Threads : t # s => (pc'[t] \in Removers <=> pc[t] \in Removers)
         /\ \A t \in Threads : t # s /\ pc[t] \notin Before => pc'[t] \notin Before
         /\ \A t \in Threads : t # s /\ pc[t] \in {"sent", "out"} => pc'[t] \in {"sent", "out"}
         /\ \A t \in Threads : t # s /\ pc[t] \in {"remove", "removing", "removed"} =>
                                pc'[t] = pc[t]
         /\ Holding' = Holding
<1>1. \A t \in Threads : t # s => pc'[t] = pc[t] \/ (pc[t] = "wait" /\ pc'[t] = "awake")
  BY DEF Others
<1>2. \A t \in Closers : pc[t] # "wait" /\ t # s /\ t \in Threads
  BY Facts DEF IInv, WriterInv
<1>3. \A r \in Senders : pc[r] \notin {"closed", "was_dead"} /\ r \in Threads
  BY Facts DEF IInv, WriterInv
<1>4. Holding' = Holding
  BY <1>1, <1>3 DEF Holding
<1> QED BY <1>1, <1>2, <1>3, <1>4 DEF Writing, Removers, Before

LEMMA OthersRef ==
  ASSUME IInv, NEW s \in Senders, Others(s), pc[s] \notin {"idle", "out"},
         pc'[s] \in {"wait", "sent", "remove", "partial"}, UNCHANGED refVars, dead_ => dead_'
  PROVE  RefInv'
BY OthersFacts, Facts DEF IInv, RefInv, refVars

\* pthread_cond_broadcast(&send_wait_) at the end of send.
LEMMA WakeOthers ==
  ASSUME IInv, NEW s \in Senders, WakeWaiters(s, "sent")
  PROVE  Others(s) /\ pc'[s] = "sent"
BY Facts DEF WakeWaiters, Asleep, Others, Stages

LEMMA ResumeIInv ==
  ASSUME IInv, NEW s \in Senders, Resume(s)
  PROVE  IInv'
<1>1. UNCHANGED <<dead_, rpdu_, refVars, watchVars, pending_change_, loopVars, sockVars, out, aborted>>
  BY DEF Resume
<1>2. CASE pc[s] = "resumed" /\ pc' = [pc EXCEPT ![s] = "partial"] /\ UNCHANGED <<wpdu_, ret>>
  <2>1. Onward
    BY <1>2, Facts DEF IInv, TypeInv, Onward, Along, Stages
  <2>2. TypeInv'
    BY <1>1, <1>2, <2>1 DEF IInv, TypeInv, Onward, refVars, watchVars, loopVars, sockVars
  <2>3. WriterInv' /\ RemoveInv' /\ RefInv' /\ FrameInv' /\ ReturnInv'
    BY <1>1, <1>2, <2>1, OnwardInv
  <2>4. WatchInv'
    BY <1>1, <1>2, SameRemover, Facts DEF IInv, TypeInv, loopVars
  <2> QED BY <2>2, <2>3, <2>4 DEF IInv
<1>3. CASE /\ pc[s] \in {"failed", "resumed"} /\ Finish(s, wpdu_, dead_)
           /\ pc[s] = "resumed" => dead_ \/ wpdu_.solong < 0 \/ wpdu_.solong = wpdu_.sz
  <2>1. /\ ret' = [ret EXCEPT ![s] = ~dead_ /\ wpdu_.solong = wpdu_.sz]
        /\ wpdu_' = NoPdu /\ Others(s) /\ pc'[s] = "sent"
    BY <1>3, WakeOthers DEF Finish
  <2>2. wpdu_.buf = s
    BY <1>3 DEF IInv, WriterInv, Writing
  <2>3. NoPdu.buf = Nobody /\ NoPdu.solong = 0 /\ s # Nobody
    BY Facts DEF NoPdu
  <2>4. TypeInv'
    <3>1. ret' \in [Senders -> BOOLEAN] /\ wpdu_' \in Pdus /\ pc' \in [Threads -> Stages]
      BY <2>1 DEF IInv, TypeInv, Others, Pdus
    <3> QED BY <1>1, <3>1 DEF IInv, TypeInv, refVars, watchVars, loopVars, sockVars
  <2>5. WriterInv'
    <3>1. \A r \in Senders : pc'[r] \notin Writing
      BY <1>3, <2>1, <2>2, OthersFacts DEF IInv, WriterInv, Writing
    <3>2. \A r \in Senders : wpdu_'.buf # r
      BY <2>1, <2>3, Facts
    <3>3. wpdu_'.buf = Nobody
      BY <2>1, <2>3
    <3> QED BY <1>3, <2>1, <3>1, <3>2, <3>3, OthersFacts DEF IInv, WriterInv
  <2>6. RemoveInv'
    <3>1. \A t \in Threads : pc'[t] \in Removers => pc[t] \in Removers
      BY <1>3, <2>1, OthersFacts DEF Removers
    <3> QED BY <1>1, <3>1 DEF IInv, RemoveInv
  <2>7. WatchInv'
    BY <1>1, <1>3, <2>1, OthersFacts, SameRemover DEF loopVars
  <2>8. RefInv'
    BY <1>1, <1>3, <2>1, OthersRef
  <2>9. ASSUME ~dead_
        PROVE  /\ Base \in Nat /\ Aligned(Base) /\ Base + Size = Len(out)
               /\ wpdu_.solong = Size /\ wpdu_.sz = Size
               /\ \A i \in 1..Len(out) : out[i] = s <=> i > Base
    <3>1. wpdu_.solong \in 0..Size /\ wpdu_.sz = Size /\ pc[s] = "resumed"
      BY <1>3, <2>2, <2>3, <2>9, Underway
    <3>2. wpdu_.solong = Size
      BY <1>3, <2>9, <3>1, Facts
    <3>3. /\ Base \in Nat /\ Aligned(Base) /\ Base = Len(out) - wpdu_.solong
          /\ \A i \in 1..Len(out) : out[i] = s <=> i > Base
      BY <2>2, <2>9, Underway
    <3> HIDE DEF Base
    <3>4. Base + Size = Len(out)
      BY <3>2, <3>3, Facts
    <3> QED BY <3>1, <3>2, <3>3, <3>4
  <2>10. FrameInv'
    <3>1. FramesIntact'
      BY <1>1 DEF IInv, FrameInv, FramesIntact
    <3>2. \A i \in 1..Len(out) : pc'[out[i]] \notin Before
      BY <1>3, <2>1, OthersFacts, Facts DEF IInv, FrameInv, Before
    <3>3. ASSUME ~dead_' PROVE Base' = Len(out) /\ Aligned(Len(out))
      <4>1. Base' = Len(out)
        BY <1>1, <2>1, <2>3, Facts DEF Base
      <4>2. Base \in Nat /\ Aligned(Base) /\ Base + Size = Len(out)
        BY <1>1, <2>9, <3>3
      <4> HIDE DEF Base
      <4> QED BY <4>1, <4>2, NextFrame, Facts DEF Aligned
    <3>4. \A i \in 1..Len(out) : out[i] # Nobody /\ ~(i > Len(out))
      BY Facts
    <3>5. wpdu_'.buf = Nobody /\ out' = out
      BY <1>1, <2>1, <2>3
    <3> HIDE DEF Base
    <3>6. ~dead_' => /\ Base' >= 0 /\ Aligned(Base)'
                     /\ \A i \in 1..Len(out') : out'[i] = wpdu_'.buf <=> i > Base'
      BY <3>3, <3>4, <3>5, Facts DEF Aligned
    <3> QED BY <3>1, <3>2, <3>5, <3>6 DEF FrameInv
  <2>11. ReturnInv'
    <3>1. ASSUME ret'[s] PROVE WholeOf(s)'
      <4>1. ret \in [Senders -> BOOLEAN]
        BY DEF IInv, TypeInv
      <4>2. ~dead_
        BY <2>1, <3>1, <4>1
      <4>3. PICK b \in Nat : b = Base
        BY <2>9, <4>2
      <4>4. b + Size = Len(out) /\ \A i \in 1..Len(out) : out[i] = s <=> i > b
        BY <2>9, <4>2, <4>3
      <4>5. \A i \in 1..Len(out) : out[i] = s <=> b < i /\ i <= b + Size
        BY <4>4, Facts
      <4>6. b + Size <= Len(out)
        BY <4>4, Facts
      <4> QED BY <1>1, <4>5, <4>6 DEF WholeOf
    <3>2. \A r \in Senders : r # s => ret'[r] = ret[r]
      BY <2>1 DEF IInv, TypeInv
    <3>3. \A r \in Senders : WholeOf(r) => WholeOf(r)'
      BY <1>1 DEF WholeOf
    <3> QED BY <1>3, <2>1, <3>1, <3>2, <3>3, OthersFacts, Facts DEF IInv, ReturnInv
  <2> QED BY <2>4, <2>5, <2>6, <2>7, <2>8, <2>10, <2>11 DEF IInv
<1> QED BY <1>2, <1>3 DEF Resume

\* A PDU of s, begun on an idle live connection: what one write leaves.  st is
\* where s goes: "remove", "sent" or "partial".
LEMMA BeginPdu ==
  ASSUME IInv, NEW s \in Senders, NEW n \in Nat, n <= Size, NEW e \in Seq(Senders), Len(e) = n,
         \A i \in 1..n : e[i] = s, out' = out \o e,
         pc[s] \in {"ready", "awake"}, ~dead_, wpdu_.buf = Nobody, UNCHANGED refVars,
         Others(s), dead_' \in BOOLEAN,
         \/ pc'[s] = "remove" /\ dead_' /\ n = 0
            /\ wpdu_' = [buf |-> s, sz |-> 0, solong |-> -1] /\ ret' = ret
         \/ pc'[s] = "sent" /\ ~dead_' /\ n = Size /\ wpdu_' = NoPdu
            /\ ret' = [ret EXCEPT ![s] = TRUE]
         \/ pc'[s] = "partial" /\ ~dead_'
            /\ wpdu_' = [buf |-> s, sz |-> Size, solong |-> n] /\ ret' = ret
  PROVE  /\ out' \in Seq(Senders) /\ wpdu_' \in Pdus /\ ret' \in [Senders -> BOOLEAN]
         /\ WriterInv' /\ RemoveInv' /\ WatchInv' /\ RefInv' /\ FrameInv' /\ ReturnInv'
<1>1. pc'[s] \in {"remove", "sent", "partial"} /\ pc[s] \in Before /\ s \in Threads /\ s # Nobody
  BY Facts DEF Before
<1>2. /\ \A r \in Senders : r # s => (pc'[r] \in Writing <=> pc[r] \in Writing)
      /\ \A r \in Senders : pc'[r] \notin {"closed", "was_dead"}
      /\ \A t \in Closers : pc'[t] = pc[t]
      /\ \A t \in Threads : t # s => (pc'[t] \in Removers <=> pc[t] \in Removers)
      /\ \A t \in Threads : t # s /\ pc[t] \notin Before => pc'[t] \notin Before
      /\ \A t \in Threads : t # s /\ pc[t] \in {"sent", "out"} => pc'[t] \in {"sent", "out"}
  BY <1>1, OthersFacts
<1>3. /\ out' \in Seq(Senders) /\ Len(out') = Len(out) + n
      /\ \A i \in 1..Len(out) : out'[i] = out[i]
      /\ \A i \in 1..(Len(out) + n) : i > Len(out) => out'[i] = s
  BY AppendedCopies, Zenon
<1>4. wpdu_' \in Pdus /\ (wpdu_'.buf = s <=> pc'[s] # "sent") /\ (wpdu_'.buf \in {s, Nobody})
      /\ (pc'[s] = "partial" => wpdu_'.sz = Size /\ wpdu_'.solong = n)
      /\ (pc'[s] = "sent" => wpdu_'.buf = Nobody /\ wpdu_'.solong = 0)
  <2>1. CASE pc'[s] = "remove"
    BY <1>1, <2>1 DEF Pdus
  <2>2. CASE pc'[s] = "sent"
    BY <1>1, <2>2 DEF Pdus, NoPdu
  <2>3. CASE pc'[s] = "partial"
    BY <1>1, <2>3, Facts DEF Pdus
  <2> QED BY <1>1, <2>1, <2>2, <2>3
<1>5. /\ dead_' <=> pc'[s] = "remove"
      /\ pc'[s] = "sent" => n = Size /\ ret' = [ret EXCEPT ![s] = TRUE]
      /\ pc'[s] # "sent" => ret' = ret
  OBVIOUS
<1>6. ret \in [Senders -> BOOLEAN] /\ ret' \in [Senders -> BOOLEAN]
      /\ \A r \in Senders : r # s => ret'[r] = ret[r]
  BY <1>1, <1>5 DEF IInv, TypeInv
<1>7. PICK b \in Nat : b = Len(out)
  BY Facts
<1>8. Aligned(b) /\ \A i \in 1..Len(out) : out[i] # s
  <2>1. Aligned(b)
    BY <1>7, Underway DEF Aligned
  <2>2. \A i \in 1..Len(out) : pc[out[i]] \notin Before
    BY DEF IInv, FrameInv
  <2> QED BY <1>1, <2>1, <2>2
<1>9. /\ \A i \in 1..Len(out') : out'[i] = s <=> i > b
      /\ FramesIntact'
      /\ \A r \in Senders : r # s /\ WholeOf(r) => WholeOf(r)'
  <2>1. b <= Len(out) /\ Len(out) + n <= b + Size
    BY <1>7, Facts
  <2>2. \A i \in 1..Len(out) : out[i] = s <=> i > b
    BY <1>7, <1>8, Facts
  <2> QED BY <1>3, <1>8, <2>1, <2>2, Emitted, Zenon
<1>10. WriterInv'
  <2>1. \A r \in Senders : pc[r] \notin Writing
    BY Facts DEF IInv, WriterInv
  <2>2. pc'[s] \in Writing <=> pc'[s] # "sent"
    BY <1>1 DEF Writing
  <2>3. \A r \in Senders : pc'[r] \in Writing <=> wpdu_'.buf = r
    BY <1>2, <1>4, <2>1, <2>2, Facts
  <2>4. ~dead_' /\ wpdu_'.buf # Nobody => wpdu_'.sz = Size
    BY <1>1, <1>4, <1>5
  <2> QED BY <1>2, <2>3, <2>4 DEF IInv, WriterInv
<1>11. RemoveInv'
  <2>1. \A t \in Threads : pc[t] \notin Removers
    BY DEF IInv, RemoveInv
  <2>2. \A t \in Threads : pc'[t] \in Removers => t = s
    BY <1>2, <2>1
  <2>3. pc'[s] \in Removers => dead_'
    BY <1>1, <1>5 DEF Removers
  <2> QED BY <2>2, <2>3 DEF RemoveInv
<1>12. WatchInv'
  BY <1>1, <1>5 DEF WatchInv, Nowhere
<1>13. RefInv'
  BY <1>1, OthersRef
<1>14. FrameInv'
  <2>1. ASSUME NEW i \in 1..Len(out') PROVE pc'[out'[i]] \notin Before
    <3>1. CASE i > Len(out)
      BY <1>1, <1>3, <3>1 DEF Before
    <3>2. CASE i <= Len(out)
      <4>1. i \in 1..Len(out)
        BY <1>3, <3>2, Facts
      <4>2. out'[i] = out[i] /\ out[i] # s /\ out[i] \in Threads /\ pc[out[i]] \notin Before
        BY <1>3, <1>8, <4>1, Facts DEF IInv, FrameInv
      <4> QED BY <1>2, <4>2
    <3> QED BY <1>3, <3>1, <3>2, Facts
  <2>2. ASSUME ~dead_'
        PROVE  /\ Base' >= 0 /\ Aligned(Base)'
               /\ \A i \in 1..Len(out') : out'[i] = wpdu_'.buf <=> i > Base'
    <3>1. CASE pc'[s] = "partial"
      <4>1. Base' = b
        BY <1>3, <1>4, <1>7, <3>1, Facts DEF Base
      <4> HIDE DEF Base
      <4> QED BY <1>4, <1>8, <1>9, <3>1, <4>1 DEF Aligned
    <3>2. CASE pc'[s] = "sent"
      <4>1. Base' = b + Size /\ Len(out') = b + Size
        BY <1>3, <1>4, <1>5, <1>7, <3>2, Facts DEF Base
      <4>2. Aligned(b + Size)
        BY <1>8, NextFrame, Facts DEF Aligned
      <4>3. \A i \in 1..Len(out') : out'[i] \in Senders /\ out'[i] # Nobody
        BY <1>3, Facts
      <4> HIDE DEF Base
      <4> QED BY <1>4, <3>2, <4>1, <4>2, <4>3, Facts DEF Aligned
    <3> QED BY <1>1, <1>5, <2>2, <3>1, <3>2
  <2> QED BY <1>9, <2>1, <2>2 DEF FrameInv
<1>15. ReturnInv'
  <2>1. ASSUME ret'[s] PROVE pc'[s] = "sent" /\ WholeOf(s)'
    <3>1. ~ret[s]
      BY DEF IInv, ReturnInv
    <3>2. pc'[s] = "sent"
      BY <1>5, <2>1, <3>1
    <3>3. Len(out') = b + Size
      BY <1>3, <1>5, <1>7, <3>2
    <3>4. \A i \in 1..Len(out') : out'[i] = s <=> b < i /\ i <= b + Size
      BY <1>9, <3>3, Facts
    <3>5. b + Size <= Len(out')
      BY <3>3, Facts
    <3>6. WholeOf(s)'
      BY <3>4, <3>5 DEF WholeOf
    <3> QED BY <3>2, <3>6
  <2> QED BY <1>2, <1>6, <1>9, <2>1, Facts DEF IInv, ReturnInv
<1> QED BY <1>3, <1>4, <1>6, <1>10, <1>11, <1>12, <1>13, <1>14, <1>15

LEMMA SendIInv ==
  ASSUME IInv, NEW s \in Senders, NEW lossy \in BOOLEAN, Send(s, lossy)
  PROVE  IInv'
<1>1. /\ UNCHANGED <<refVars, pending_change_, loopVars, aborted>>
      /\ pc[s] \in {"ready", "awake"} /\ s \in Threads
  BY Facts DEF Send
<1>2. CASE /\ dead_ /\ pc' = [pc EXCEPT ![s] = "sent"]
           /\ UNCHANGED <<connVars, watchVars, sockVars, ret, out>>
  <2>1. Others(s) /\ pc'[s] = "sent"
    BY <1>1, <1>2 DEF IInv, TypeInv, Others, Stages
  <2>2. TypeInv'
    BY <1>1, <1>2, <2>1 DEF IInv, TypeInv, Others, connVars, refVars, watchVars, loopVars, sockVars
  <2>3. WriterInv'
    BY <1>1, <1>2, <2>1, OthersFacts DEF IInv, WriterInv, Writing, connVars
  <2>4. RemoveInv'
    BY <1>1, <1>2, <2>1, OthersFacts DEF IInv, RemoveInv, Removers, connVars
  <2>5. WatchInv'
    BY <1>1, <1>2, <2>1, OthersFacts, SameRemover DEF connVars, loopVars
  <2>6. RefInv'
    BY <1>1, <1>2, <2>1, OthersRef DEF connVars
  <2>7. FrameInv'
    <3>1. FramesIntact'
      BY <1>2 DEF IInv, FrameInv, FramesIntact
    <3>2. \A i \in 1..Len(out) : pc'[out[i]] \notin Before
      BY <1>1, <2>1, OthersFacts, Facts DEF IInv, FrameInv, Before
    <3> QED BY <1>2, <3>1, <3>2 DEF FrameInv, connVars
  <2>8. ReturnInv'
    BY <1>1, <1>2, <2>1, OthersFacts, Facts DEF IInv, ReturnInv, WholeOf
  <2> QED BY <2>2, <2>3, <2>4, <2>5, <2>6, <2>7, <2>8 DEF IInv
<1>3. CASE /\ pc' = [pc EXCEPT ![s] = "wait"]
           /\ UNCHANGED <<connVars, watchVars, sockVars, ret, out>>
  <2>1. Onward
    BY <1>1, <1>3 DEF IInv, TypeInv, Onward, Along, Stages
  <2>2. TypeInv'
    BY <1>1, <1>3, <2>1 DEF IInv, TypeInv, Onward, connVars, refVars, watchVars, loopVars, sockVars
  <2>3. WriterInv' /\ RemoveInv' /\ RefInv' /\ FrameInv' /\ ReturnInv'
    BY <1>1, <1>3, <2>1, OnwardInv DEF connVars
  <2>4. WatchInv'
    BY <1>1, <1>3, SameRemover DEF IInv, TypeInv, connVars, loopVars
  <2> QED BY <2>2, <2>3, <2>4 DEF IInv
<1>4. ASSUME ~dead_, wpdu_.buf = Nobody
      PROVE  IInv'
  <2> DEFINE p == [buf |-> s, sz |-> Size, solong |-> 0]
  <2>1. PICK o \in IF lossy THEN {[n |-> 0, room |-> room, fails |-> TRUE]} ELSE WriteOutcomes(p) :
          /\ room' = o.room /\ Emit(p, o)
          /\ \/ /\ o.fails /\ dead_' = TRUE /\ wpdu_' = Written(p, o)
                /\ pc' = [pc EXCEPT ![s] = "remove"] /\ UNCHANGED <<watchVars, ret>>
             \/ /\ ~o.fails /\ Written(p, o).solong = Written(p, o).sz
                /\ Finish(s, Written(p, o), FALSE) /\ UNCHANGED <<dead_, watchVars>>
             \/ /\ ~o.fails /\ Written(p, o).solong < Written(p, o).sz /\ wpdu_' = Written(p, o)
                /\ WatchWrite /\ pc' = [pc EXCEPT ![s] = "partial"] /\ UNCHANGED <<dead_, ret>>
    BY <1>4 DEF Send
  <2>2. wire' = (IF lossy THEN "shut" ELSE wire) /\ UNCHANGED <<rpdu_, avail, came>>
    BY <1>4 DEF Send
  <2>3. p \in [buf : Senders, sz : {Size}, solong : 0..Size] /\ p.buf = s /\ p.solong = 0 /\ p.sz = Size
    BY Facts
  <2>4. /\ o.n \in Nat /\ o.n <= Size
        /\ o.room \in BOOLEAN /\ o.fails \in BOOLEAN /\ (o.fails => o.n = 0)
        /\ ~o.fails => Written(p, o) = [buf |-> s, sz |-> Size, solong |-> o.n]
        /\ o.fails => Written(p, o) = [buf |-> s, sz |-> 0, solong |-> -1]
    <3>1. CASE lossy
      <4>1. o = [n |-> 0, room |-> room, fails |-> TRUE]
        BY <3>1
      <4>2. o.room \in BOOLEAN /\ o.fails \in BOOLEAN /\ o.fails
        BY <4>1 DEF IInv, TypeInv
      <4>3. o.n = 0
        BY <4>1
      <4>4. Written(p, o) = [buf |-> s, sz |-> 0, solong |-> -1]
        BY <4>2 DEF Written
      <4> QED BY <4>2, <4>3, <4>4, Facts
    <3>2. CASE ~lossy
      <4> HIDE DEF p
      <4>1. o \in WriteOutcomes(p)
        BY <3>2
      <4>2. /\ o.n \in Nat /\ p.solong + o.n <= Size
            /\ o.room \in BOOLEAN /\ o.fails \in BOOLEAN /\ (o.fails => o.n = 0)
            /\ ~o.fails => Written(p, o) = [buf |-> p.buf, sz |-> Size, solong |-> p.solong + o.n]
            /\ o.fails => Written(p, o) = [buf |-> p.buf, sz |-> 0, solong |-> -1]
        BY <2>3, <4>1, WriteFacts
      <4>3. p.solong + o.n = o.n
        BY <2>3, <4>2
      <4> QED BY <2>3, <4>2, <4>3
    <3> QED BY <3>1, <3>2
  <2>5. PICK n \in Nat : n = o.n
    BY <2>4
  <2>6. PICK e : e = [i \in 1..n |-> s]
    OBVIOUS
  <2>7. /\ e \in Seq(Senders) /\ Len(e) = n /\ \A i \in 1..n : e[i] = s
        /\ out' = out \o e
    BY <2>1, <2>3, <2>5, <2>6, Copies DEF Emit
  <2> HIDE DEF p
  <2>8. /\ Others(s) /\ dead_' \in BOOLEAN
        /\ \/ pc'[s] = "remove" /\ dead_' /\ n = 0
              /\ wpdu_' = [buf |-> s, sz |-> 0, solong |-> -1] /\ ret' = ret
           \/ pc'[s] = "sent" /\ ~dead_' /\ n = Size /\ wpdu_' = NoPdu
              /\ ret' = [ret EXCEPT ![s] = TRUE]
           \/ pc'[s] = "partial" /\ ~dead_'
              /\ wpdu_' = [buf |-> s, sz |-> Size, solong |-> n] /\ ret' = ret
    <3>1. pc \in [Threads -> Stages] /\ dead_ \in BOOLEAN
      BY DEF IInv, TypeInv
    <3>2. CASE o.fails
      <4>1. /\ dead_' = TRUE /\ wpdu_' = Written(p, o)
            /\ pc' = [pc EXCEPT ![s] = "remove"] /\ ret' = ret
        BY <2>1, <3>2
      <4>2. Others(s) /\ pc'[s] = "remove"
        BY <1>1, <3>1, <4>1 DEF Others, Stages
      <4> QED BY <2>4, <2>5, <3>2, <4>1, <4>2
    <3>3. CASE ~o.fails /\ Finish(s, Written(p, o), FALSE) /\ UNCHANGED <<dead_, watchVars>>
              /\ Written(p, o).solong = Written(p, o).sz
      <4>1. Written(p, o).solong = n /\ Written(p, o).sz = Size
        BY <2>4, <2>5, <3>3
      <4>2. n = Size
        BY <3>3, <4>1
      <4>3. Others(s) /\ pc'[s] = "sent" /\ wpdu_' = NoPdu
        BY <3>3, WakeOthers DEF Finish
      <4>4. ret' = [ret EXCEPT ![s] = TRUE]
        BY <3>3 DEF Finish
      <4> QED BY <1>4, <3>1, <3>3, <4>2, <4>3, <4>4
    <3>4. CASE ~o.fails /\ wpdu_' = Written(p, o) /\ pc' = [pc EXCEPT ![s] = "partial"]
              /\ UNCHANGED <<dead_, ret>>
      <4>1. Others(s) /\ pc'[s] = "partial"
        BY <1>1, <3>1, <3>4 DEF Others, Stages
      <4> QED BY <1>4, <2>4, <2>5, <3>1, <3>4, <4>1
    <3> QED BY <2>1, <3>2, <3>3, <3>4
  <2>9. /\ out' \in Seq(Senders) /\ wpdu_' \in Pdus /\ ret' \in [Senders -> BOOLEAN]
        /\ WriterInv' /\ RemoveInv' /\ WatchInv' /\ RefInv' /\ FrameInv' /\ ReturnInv'
    <3>1. n <= Size
      BY <2>4, <2>5
    <3> QED BY <1>1, <1>4, <2>7, <2>8, <3>1, BeginPdu, Zenon
  <2>10. TypeInv'
    <3>1. rfds_' \in BOOLEAN /\ wfds_' \in BOOLEAN /\ callbacks_' \in BOOLEAN
      <4>1. CASE UNCHANGED watchVars
        BY <4>1 DEF IInv, TypeInv, watchVars
      <4>2. CASE WatchWrite
        BY <4>2 DEF IInv, TypeInv, WatchWrite
      <4> QED BY <2>1, <4>1, <4>2
    <3>2. pipe' \in Nat
      <4>1. pipe \in Nat
        BY DEF IInv, TypeInv
      <4>2. pipe' = pipe \/ pipe' = pipe + 1
        BY <2>1 DEF WatchWrite, watchVars
      <4> QED BY <4>1, <4>2
    <3>3. pc' \in [Threads -> Stages] /\ dead_' \in BOOLEAN
      BY <2>8 DEF Others
    <3>4. room' \in BOOLEAN /\ wire' \in {"up", "fin", "reset", "shut"}
      BY <2>1, <2>2, <2>4 DEF IInv, TypeInv
    <3> QED BY <1>1, <2>2, <2>9, <3>1, <3>2, <3>3, <3>4 DEF IInv, TypeInv, refVars, loopVars
  <2> QED BY <2>9, <2>10 DEF IInv
<1> QED BY <1>2, <1>3, <1>4 DEF Send

-----------------------------------------------------------------------------

LEMMA InitIInv == Init => IInv
<1> SUFFICES ASSUME Init PROVE IInv
  OBVIOUS
<1>1. Size \in Nat \ {0} /\ MaxIn \in Nat /\ IsFiniteSet(Senders) /\ Nobody \notin Senders
  BY SizeAssumption, ThreadAssumption
<1>2. out = <<>> /\ Len(out) = 0 /\ out \in Seq(Senders)
  BY DEF Init
<1>3. TypeInv
  <2>1. /\ dead_ \in BOOLEAN /\ owned \in BOOLEAN /\ deleted \in BOOLEAN
        /\ rfds_ \in BOOLEAN /\ wfds_ \in BOOLEAN /\ callbacks_ \in BOOLEAN
        /\ pending_change_ \in BOOLEAN /\ tr \in BOOLEAN /\ tw \in BOOLEAN
        /\ errno \in BOOLEAN /\ room \in BOOLEAN /\ aborted \in BOOLEAN
    BY DEF Init
  <2>2. ret \in [Senders -> BOOLEAN]
    BY DEF Init
  <2> QED BY <1>1, <1>2, <2>1, <2>2 DEF Init, TypeInv, Pdus, Stages
<1>4. WriterInv
  BY <1>1 DEF Init, WriterInv, Writing, NoPdu, Threads
<1>5. RemoveInv /\ WatchInv
  BY DEF Init, RemoveInv, WatchInv, Removers
<1>6. RefInv
  <2>1. Holding = {}
    BY DEF Init, Holding, Threads
  <2> QED BY <2>1, FS_EmptySet DEF Init, RefInv, Threads
<1>7. FrameInv
  <2>1. Base = 0
    BY <1>2 DEF Init, Base, NoPdu
  <2>2. Aligned(0)
    BY <1>1 DEF Aligned
  <2> HIDE DEF Base
  <2> QED BY <1>2, <2>1, <2>2 DEF FrameInv, FramesIntact
<1>8. ReturnInv
  BY DEF Init, ReturnInv
<1> QED BY <1>3, <1>4, <1>5, <1>6, <1>7, <1>8 DEF IInv

LEMMA AbortIInv ==
  ASSUME IInv, WriteCbDead
  PROVE  IInv'
<1>1. /\ aborted' = TRUE
      /\ UNCHANGED <<connVars, refVars, watchVars, pending_change_, loopVars, sockVars, pc, ret, out>>
  BY DEF WriteCbDead, Abort
<1>2. TypeInv'
  <2>1. aborted' \in BOOLEAN
    BY <1>1
  <2> QED BY <1>1, <2>1 DEF IInv, TypeInv, connVars, refVars, watchVars, loopVars, sockVars
<1>3. WriterInv' /\ RemoveInv' /\ RefInv' /\ FrameInv' /\ ReturnInv'
  BY <1>1, StayOnward, OnwardInv DEF connVars
<1>4. WatchInv'
  BY <1>1, StayWatch DEF connVars, loopVars
<1> QED BY <1>2, <1>3, <1>4 DEF IInv

LEMMA NextIInv == IInv /\ [Next]_vars => IInv'
<1> SUFFICES ASSUME IInv, [Next]_vars PROVE IInv'
  OBVIOUS
<1>1. CASE Environment
  BY <1>1, EnvironmentIInv
<1>2. CASE Poll
  BY <1>2, LoopTopIInv, CopySetsIInv, SelectIInv, TestCallbackIInv, WriteCbIInv, AbortIInv, ReadCbIInv
  DEF Poll
<1>3. CASE \E s \in Senders : GetRef(s) \/ Sending(s) \/ Spurious(s)
  BY <1>3, GetRefIInv, SendIInv, ResumeIInv, PutRefIInv, SpuriousIInv DEF Sending
<1>4. CASE \E t \in Threads : RemoveBegin(t) \/ RemoveEnd(t)
  BY <1>4, RemoveBeginIInv, RemoveEndIInv
<1>5. CASE \E t \in Closers : CloseConn(t)
  BY <1>5, CloseConnIInv
<1>6. CASE DropDead
  BY <1>6, DropDeadIInv
<1>7. CASE UNCHANGED vars
  <2>1. UNCHANGED <<connVars, refVars, watchVars, pending_change_, loopVars, sockVars, pc, ret, out,
                    aborted>>
    BY <1>7 DEF vars
  <2>2. TypeInv'
    BY <2>1 DEF IInv, TypeInv, connVars, refVars, watchVars, loopVars, sockVars
  <2>3. WriterInv' /\ RemoveInv' /\ RefInv' /\ FrameInv' /\ ReturnInv'
    BY <2>1, StayOnward, OnwardInv DEF connVars
  <2>4. WatchInv'
    BY <2>1, StayWatch DEF connVars, loopVars
  <2> QED BY <2>2, <2>3, <2>4 DEF IInv
<1> QED BY <1>1, <1>2, <1>3, <1>4, <1>5, <1>6, <1>7 DEF Next

\* The inductive invariant holds throughout.
THEOREM Invariance == Spec => []IInv
BY InitIInv, NextIInv, PTL DEF Spec

\* The variables of the connection, the loop, the socket and the threads stay in
\* their domains: the count of references between 0 and one for each sender and the
\* owner, solong between 0 and sz.
THEOREM TypeCorrect == Spec => []TypeOK
<1>1. IInv => TypeOK
  <2> SUFFICES ASSUME IInv PROVE TypeOK
    OBVIOUS
  <2>1. Cardinality(Holding) \in Nat /\ Cardinality(Holding) <= Cardinality(Senders)
        /\ Cardinality(Senders) \in Nat
    BY Facts, FS_Subset, FS_CardinalityType DEF Holding
  <2>2. refno_ \in 0..(Cardinality(Senders) + 1)
    BY <2>1 DEF IInv, RefInv
  <2>3. {dead_, owned, deleted, rfds_, wfds_, callbacks_, pending_change_, tr, tw, errno,
         room, aborted} \subseteq BOOLEAN
    BY Zenon DEF IInv, TypeInv
  <2>4. \/ wpdu_ = NoPdu
        \/ wpdu_.buf \in Senders /\ wpdu_.sz = Size /\ wpdu_.solong \in 0..Size
        \/ wpdu_.buf \in Senders /\ wpdu_.sz = 0 /\ wpdu_.solong = -1
    BY DEF IInv, TypeInv, Pdus
  <2> QED BY <2>2, <2>3, <2>4 DEF IInv, TypeInv, TypeOK, Stages
<1> QED BY <1>1, Invariance, PTL

\* send and write_cb between them write whole PDUs one after the other.
THEOREM FramesIntactHolds == Spec => []FramesIntact
<1>1. IInv => FramesIntact
  BY DEF IInv, FrameInv
<1> QED BY <1>1, Invariance, PTL

\* A send that returned true has all its chunks on the wire.
THEOREM TrueMeansSentHolds == Spec => []TrueMeansSent
<1>1. IInv => TrueMeansSent
  <2> SUFFICES ASSUME IInv, NEW s \in Senders, ret[s]
               PROVE  Cardinality({i \in 1..Len(out) : out[i] = s}) = Size
    BY DEF TrueMeansSent
  <2>1. PICK b \in Nat : /\ b + Size <= Len(out)
                         /\ \A i \in 1..Len(out) : out[i] = s <=> b < i /\ i <= b + Size
    BY DEF IInv, ReturnInv, WholeOf
  <2>2. {i \in 1..Len(out) : out[i] = s} = (b + 1)..(b + Size)
    BY <2>1, Facts
  <2>3. Cardinality((b + 1)..(b + Size)) = Size
    <3>1. b + 1 \in Int /\ b + Size \in Int /\ ~(b + 1 > b + Size)
      BY Facts
    <3>2. Cardinality((b + 1)..(b + Size)) = (b + Size) - (b + 1) + 1
      BY <3>1, FS_Interval
    <3> QED BY <3>2, Facts
  <2> QED BY <2>2, <2>3
<1> QED BY <1>1, Invariance, PTL

\* After block_remove_fd no callback on the descriptor runs, and none will.
THEOREM RemovedIsQuietHolds == Spec => []RemovedIsQuiet
<1>1. IInv => RemovedIsQuiet
  <2> SUFFICES ASSUME IInv, NEW t \in Threads, pc[t] \in {"removed", "failed", "closed"}
               PROVE  ~rfds_ /\ ~wfds_ /\ poll \notin {"read_cb", "write_cb"}
    BY DEF RemovedIsQuiet
  <2>1. dead_ /\ \A u \in Threads : pc[u] \in Removers => u = t
    BY DEF IInv, RemoveInv, Removers
  <2>2. Nowhere({"remove"}) /\ Nowhere({"remove", "removing"})
    BY <2>1 DEF Nowhere, Removers
  <2> QED BY <2>1, <2>2 DEF IInv, WatchInv, Quiet
<1> QED BY <1>1, Invariance, PTL

\* Nobody is left who could touch a connection that decref has deleted.
THEOREM DeletedIsUnreachableHolds == Spec => []DeletedIsUnreachable
<1>1. IInv => DeletedIsUnreachable
  <2> SUFFICES ASSUME IInv, deleted
               PROVE  /\ wpdu_.buf = Nobody
                      /\ ~rfds_ /\ ~wfds_ /\ ~callbacks_
                      /\ poll \notin {"read_cb", "write_cb"} /\ ~(poll = "select" /\ (tr \/ tw))
                      /\ \A t \in Threads : pc[t] \in {"idle", "out", "closed", "was_dead"}
    BY DEF DeletedIsUnreachable
  <2>1. IsFiniteSet(Holding) /\ Cardinality(Holding) \in Nat
    BY Facts, FS_Subset, FS_CardinalityType DEF Holding
  <2>2. dead_ /\ ~owned /\ Cardinality(Holding) = 0
    BY <2>1 DEF IInv, RefInv
  <2>3. Holding = {}
    BY <2>1, <2>2, FS_EmptySet
  <2>4. \A s \in Senders : pc[s] \in {"idle", "out"}
    BY <2>3 DEF Holding
  <2>5. \A t \in Closers : pc[t] \in {"idle", "closed", "was_dead"}
    BY <2>2 DEF IInv, RefInv, WriterInv
  <2>6. \A t \in Threads : pc[t] \in {"idle", "out", "closed", "was_dead"}
    BY <2>4, <2>5 DEF Threads
  <2>7. /\ Nowhere({"remove"}) /\ Nowhere({"remove", "removing"})
        /\ Nowhere({"remove", "removing", "removed"})
    BY <2>6 DEF Nowhere
  <2>8. wpdu_.buf = Nobody
    BY <2>4, PduFacts DEF IInv, WriterInv, Writing
  <2> QED BY <2>2, <2>6, <2>7, <2>8 DEF IInv, WatchInv, Quiet
<1> QED BY <1>1, Invariance, PTL

============================================================================
