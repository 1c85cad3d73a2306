# A TLA+ development of the lock server and its RPC library

The repository is a lock service built on an RPC library of its own: a lock
server (`lock_server.cc`) whose handlers block, client stubs (`lock_client.cc`),
an RPC layer that retransmits and promises at-most-once execution (`rpc/rpc.cc`),
a connection object shared by senders and a poll thread (`rpc/connection.cc`,
`rpc/pollmgr.cc`) and a pool of dispatch threads (`rpc/thr_pool.cc`,
`rpc/fifo.h`), and templates that turn C++ calls into bytes and back (`rpc/rpc.h`,
`rpc/marshall.h`). This directory models these parts, checks the models with TLC on
small instances and proves their safety properties with TLAPS for every instance.

    tlc -workers 2 -config LockServer.cfg MCLockServer
    tlapm LockServerProof.tla

## 1. Inventory

| Component | State | Operations | Interaction |
|---|---|---|---|
| `lock_server` | `lock_map_` (lock to client), one mutex, one condition variable | `acquire` (blocks), `release`, `stat` | handlers run on pool threads |
| `lock_client` | an `rpcc` | `acquire` (repeats on RETRY), `release` | several threads may share one |
| `ThrPool`, `fifo` | job queue of 100 jobs per thread, 6 threads in `rpcs` | `addJob` (refuses when full), `takeJob`, poison pills | filled by the poll thread |
| `rpcc` | `xid_`, `calls_`, `xid_rep_window_`, `chan_`, `srv_nonce_` | `bind`, `call1`, `cancel`, `got_pdu` | callers' threads and the poll thread meet at `caller` |
| `rpcs` | `nonce_`, per client `reply_window_`, `reply_set_`, `reply_lower_bound_`, `conns_` | `got_pdu`, `dispatch`, `checkduplicate_and_update`, `add_reply` | poll thread queues, pool threads dispatch |
| `connection` | `dead_`, `wpdu_`, `rpdu_`, `refno_`, two condition variables | `send`, `closeconn`, `read_cb`, `write_cb`, `incref`, `decref` | senders, closers and the poll thread |
| `PollMgr`, `SelectAIO` | `callbacks_`, `pending_change_`, descriptor sets, wake-up pipe | `add_callback`, `del_callback`, `block_remove_fd`, `wait_loop` | one thread calls back into all connections |
| `tcpsconn` | connections by descriptor | accept, collect dead ones, close all | creates the server's connections |
| `marshall`, `unmarshall` | buffer, cursor, `_ok` | `<<`, `>>` by type, pack and unpack the headers | used by the templates, `call1`, `dispatch` and `got_pdu` |
| `call`, `call_m`, `reg` | none | arguments to bytes, bytes to arguments, result back | caller and handler agree on types only by convention |
| timespec helpers | none | `add_timespec`, `cmp_timespec` | the waits of `call1` |
| locks, threads, logging | none of their own | | |

What is hard here:

- *Interleaving*: pool threads in blocking handlers, several callers per client,
  several senders per connection, the poll thread that runs callbacks without
  PollMgr's lock.
- *Failure*: connections break with data in flight; either end finds out at its
  own time; the server restarts without memory.
- *Order*: requests, retransmissions and acknowledgements (`xid_rep`) arrive late
  and out of order; replies are saved in the order handlers end.
- *Time*: calls retransmit only on a new connection and give up at a deadline.
- *Memory*: a connection and a reply buffer must outlive every thread using them.

The correctness of each part: mutual exclusion and progress of waiters (locks);
at-most-once execution, replies kept until acknowledged (server); a call is
acknowledged only when nobody waits for it, success means execution, every call
returns (client); frames are whole, `send` tells the truth, nobody touches a
deleted connection (connection); references are counted exactly, a descriptor is
never read for a connection it no longer belongs to, shutdown leaves nothing behind
(the server's connections); what is marshalled is what is unmarshalled; a call
gives up at its timeout. `PROJECT.json` lists the hazards line by line
with the properties that cover them.

## 2. Modules

| Module | What it is |
|---|---|
| `AbstractLock` | what a lock service promises: one owner, entered after the grant, freed after the leave |
| `LockServer` | server, stubs and pool; the RPC in between executes a call once and does not time out |
| `LockServerProof` | its theorems |
| `ReplyWindow` | the data structure behind at-most-once, as operators |
| `ReplyWindowProof` | what the operators of both windows do to a list of any length |
| `RpcServer` | dispatch threads sharing reply windows, against clients and a network that may do anything with the requests |
| `RpcServerProof` | its theorems |
| `XidRepWindow`, `XidRepList` | the client's window of replied xids: as a record, and the code's list algorithm run beside it |
| `Rpc` | client, connections and server together, with failures and restarts; refines `RpcServer` |
| `RpcProof` | its theorems, the refinement among them |
| `Connection` | one connection object, its senders and closers, the poll thread and the socket |
| `ConnectionProof` | its theorems |
| `RpcClient` | one `rpcc` under concurrent calls, `cancel` and the lossy mode's late duplicate |
| `RpcClientProof` | its theorems |
| `ServerConns` | all connections of one `rpcs`: listener, poll thread, bounded queue, dispatch threads, destructor |
| `ServerConnsProof` | its theorems |
| `Marshall` | buffers, integers, strings and containers as bytes, both headers, as operators |
| `CallData` | the data of one call, from `call` through `dispatch` and the handler back to `call_m` |
| `Deadline` | the clock of `call1` and the arithmetic on `struct timespec` |
| `DataProof` | the theorems of `Deadline`, `XidRepList` and `CallData` |
| `MC*` | instances for TLC; `MCData` puts `CallData`, `Deadline` and `XidRepList`, which share nothing, side by side |

`Rpc`, `RpcClient` and `RpcServer` share `ReplyWindow`, the first two `XidRepWindow`
too. `RpcServer` abstracts `Rpc`'s client and network; `RpcClient` abstracts `Rpc`'s
network and pool and adds what the client does besides. `ServerConns` abstracts the
inside of `Connection` (a PDU comes in one piece) and adds what happens between
connections.

Correspondence with the code (`PROJECT.json`, "map", has the lines):

- **Granularity.** What the code does under one mutex is one step. In `LockServer`
  a handler's section under `lock_map_mutex_`, from entry or wakeup to return or
  sleep; in `RpcServer` and `Rpc` `checkduplicate_and_update`, `add_reply`,
  `got_pdu`, the header of `call1` each; in `Connection` a section under
  `connection::m_` with the PollMgr sections nested in it. Where the code lets go
  of a mutex (`send` before `block_remove_fd`, `wait_loop` between copying the
  sets and `select`, the test of `callbacks_`) there are two steps.
- **Condition variables.** A waiter is parked by its control state; a signal picks
  any waiter, a broadcast moves all; a spurious wakeup is an action. The exception
  is `changedone_c_`, on which `block_remove_fd` waits without a predicate: the
  models let only the broadcast end that wait, and the properties of removal
  (`RemovedIsQuiet`, `FreshFd`, `NoDangling`) hold under that assumption; the hazard of a
  spurious wakeup there is listed without a property.
- **LockServer.** `pc` follows a call from stub to queue, handler, `cond`,
  `signaled` and reply. `held` is history: what acquire returned for. A thread that
  shares its stub with others releases only what it holds; others may release
  anything. `StrayRelease` is that misuse.
- **RpcServer.** `sent[c][x]` is the `xid_rep` that client c's call x carries, any
  value between that of the call before and the number of calls made: exactly what
  `update_xid_rep` can give (a call that times out counts as replied). `Deliver`
  brings any copy of any request to an idle thread at any time.
- **Rpc.** A request is its xid, `hdr` its header. A connection has two directions
  that lose a suffix when it breaks, and two ends that notice separately. The order
  of creation, which `connection::compare` reads off `create_time_`, is the number
  of the connection. `final` says that the next deadline is the final one.
  The client has a nonzero nonce and `RPC_LOSSY` is not set.
- **Connection.** A PDU to write is `Size` chunks; one to read is a size word and a
  body. `poll` is where `wait_loop` is; `tr` and `tw` are the copied sets, then
  `select`'s result. `errno` is whether the poll thread's errno is still EAGAIN,
  since `readpdu` looks at it also after a read of length 0. `aborted` is a failed
  VERIFY. References that `rpcs::conns_` keeps are in `ServerConns`: here a user of
  the connection has a reference taken while it was alive.
- **RpcClient.** The network is two sets: a request once transmitted reaches the
  server any number of times, a reply once sent reaches the client any number of
  times, which covers every loss, delay and retransmission. `calls_` is the map's
  keys, `rep[x]` the `xid_rep` of the header of call x. The model starts when `bind`
  has just returned, so the request kept at first is bind's. One thread at a time is
  in `cancel`. A caller that has a connection goes from `Transmit` into `connection::send`
  (`InSend`) and comes back with `Sent`; from `Transmit` on its requests may arrive. That
  a wait ends because the call is done is part of `Finish`, the caller's next step.
- **ServerConns.** `conn[k]` is the k-th connection accepted, `Gone` when it is
  deleted; `Fds` are descriptors, and accept takes the lowest free one. `table` is
  `tcpsconn::conns_`, `conns_` that of `rpcs` for the only client, which reconnects.
  A job in the queue and a dispatch thread have a connection each; `Leave` counts in
  `leaked` the reference that the early return for an old server instance keeps.
  `RemoveBegin`, the wait for `LoopTop` and `RemoveEnd` are `block_remove_fd`. The
  destructor's steps are `Shutdown`, `Joined`, `CloseConn`, `Closed`, `AddPill`,
  `Down`.
- **Marshall, CallData.** A byte has `B` values instead of 256; an int still has four
  bytes, so carries, sign bits and wrapped sums all occur. A buffer's capacity is its
  length, a byte nobody wrote is `Junk`, and `past` marks the copy behind the end
  that the unsigned test of `unmarshall::rawbytes` lets through. The cursor and the
  capacity, ints in the code, are unbounded, which differs from 2^30 bytes on; that
  `readpdu` refuses a PDU of more than 10 MB (`MAX_PDU`) is left out. Caller's arguments,
  handler's signature and caller's result type are chosen independently.
- **Deadline.** Seconds, nanoseconds and milliseconds as in the code. A timespec with
  a second or more of nanoseconds is refused by `pthread_cond_timedwait`, and the
  loop, which leaves only at ETIMEDOUT, spins. `curr_to`, an int that doubles every
  round, is unbounded: it would overflow after some weeks of waiting.
- **XidRepList.** The list as the code keeps it, next to `XidRepWindow`'s record and the
  number of times each xid was reported. `PopFront` is the inner loop of
  `update_xid_rep`, chosen by where it stops; `Compress` is the outer one.

## 3. Runs

| Run | Bounds | Shows |
|---|---|---|
| `lock` | 4 threads, 3 stubs (one shared by two), 1 lock, pool of 4 | mutual exclusion, the table agrees with the callers, no refused release, no lost wakeup, progress of waiters and releases, refinement of `AbstractLock` |
| `lock_lost_wakeup` | 3 threads, 2 locks | *violated*: progress, when two locks are contended |
| `lock_pool` | 7 threads, pool of 6 | *violated*: a release can be stuck behind the acquires that wait for it |
| `rpc_server` | 1 client, 4 calls, 3 dispatch threads | at-most-once, sorted window, replies kept until acknowledged, monotone bound |
| `rpc` | 1 caller, 2 dispatch threads, bind and 2 calls, 2 connections, 1 restart | at-most-once over restarts, success is genuine, the composition refines `RpcServer` |
| `rpc_client` | 2 callers, 3 calls after bind, a thread that cancels | nobody who waits is acknowledged or told "forgotten", the late duplicate is really forgotten, every call and every cancel returns unless a thread stays in `send` for ever |
| `rpc_buffer` | 2 callers, bind and 2 calls, 2 connections | *violated*: a reply buffer is freed while it is to be sent |
| `rpc_lost_reply` | 1 caller without deadlines, one failure | *violated*: a call stays unanswered on a working network |
| `conn` | 2 senders, 1 closer, PDUs of 2 chunks, 1 incoming PDU | whole frames, truthful and terminating `send`, safe deletion and removal, end of stream noticed |
| `conn_write_cb` | 2 senders | *violated*: the assertion at the head of `write_cb` |
| `server_conns` | 4 connections on 3 descriptors, 2 dispatch threads, 3 requests (1 for an old instance), 2 closes by the peer, a queue of 2 | exact references, no dangling connection, no stale descriptor, pills are last, no wait without somebody to end it |
| `data` | up to 2 arguments of 11 types, 6 wrong signatures; clocks around a second; 6 xids reported up to 3 times in any order | arguments and results arrive, calls give up at their timeout, the front of the list is exact |

Why these bounds are enough for the cases that matter. *Locks*: with three waiters
a signal has a choice and a newcomer can overtake the one woken; the fourth thread
shares a stub. Two locks are needed, and suffice, for the wrong wakeup. *Server*:
with four calls and three threads a duplicate, its original and the
acknowledgement of both are dispatched at once; windows of one client never touch
those of another. *Client*: bind and two calls overlap a reconnection and a restart
(`rpc`); three calls of two threads answer out of order, so that the window has a
gap, the kept request becomes due and a cancel meets calls in every state
(`rpc_client`). *Connection*: two senders contend, a PDU of two chunks can be cut by
the socket's buffer, a peer's PDU by its two parts. *Server's connections*: three
descriptors and four connections let a connection that was served be replaced, collected
and its descriptor reused, and let accept run out of descriptors; three requests
fill the queue of two, so that one is refused and jobs and pills stand behind each other.
Connections, requests and closes are bounded together (`Load`): three requests go with
up to three connections, a fourth connection with two requests and one close, two closes
with two requests on two connections (`MaxLoad`); a shutdown meets three requests on two
connections, a close in the middle of two requests, or three connections whose listener
has already ended (`MaxDown`). *Data*: an int of base 4 has
the sign bit and all carries, the buffer of 28 bytes doubles and, with a string of
29, grows by what is copied; the wrong signatures reach both aborts and the
wrapped bound, and read a map out of other types. With six xids and repeated reports
the list has several gaps at once.

Symmetry is used where only safety is checked and the model treats callers, dispatch
threads, senders or lock threads alike (`rpc`, `server_conns`, `lock_pool`,
`conn_write_cb`). Deadlock is checked for `lock`, `lock_pool` and `rpc_server`; the
other models stop when their bounded calls, connections or reports are used up.

Each property of a passing run has a mutant, a plausible bug of the code written as
an operator ahead of the definition it replaces (the comment says "Mutant"), under
which TLC finds the property violated.

### Fairness

- `LockServer`: weak fairness of the pool threads, each handler and the reply path
  (threads are scheduled, mutexes are given in the end). None for the
  application, which need not release, nor for spurious wakeups.
- `RpcClient`: weak fairness of the callers' steps and of the thread that was woken
  in `cancel`, and strong fairness of the step in which the clock reaches a call's
  final deadline: `curr_to` doubles every round, so the loop of `call1` comes round
  finitely often before it, whatever the connection does (`DeadlineKept`). The callers'
  steps include `get_refconn`, whose connect ends because the kernel gives up. They do
  not include the return from `send`, which has no timeout: a peer that is there but
  takes nothing keeps a caller in it beyond its deadline, and a `cancel` waiting for that
  caller. `CallReturns` and `CancelReturns` have this as their only hypothesis (no
  thread stays in `send` for ever); `SendReturns` is when it holds. Nothing is assumed of
  what arrives, the server or spurious wakeups.
- `Rpc`: none for `rpc` and `rpc_buffer`. For `rpc_lost_reply` calls have no final
  deadline, callers and dispatch threads run, and both ends of every connection read
  what arrives and notice its end in the end.
- `Connection`: the poll thread and the senders run, and a peer that is there
  takes what it is sent (`Drain`). Nothing makes the peer send, close or reset.

### What the violated properties say

1. One `pthread_cond_signal` on a condition variable shared by all locks can wake
   the wrong handler; the stub's assertion then fails when the call times out.
2. The tests' comment counts on ten dispatch threads; there are six, and seven
   blocking calls stop the server.
3. `dispatch` sends from a buffer of the reply window without its mutex, while
   another thread that handles an acknowledgement may free it.
4. A retransmission dropped as INPROGRESS, with the reply then sent on a connection
   whose failure the server has not noticed, leaves the call to its deadline.
5. A write callback left over from an earlier partial send can meet `dead_`.

Remarks in passing, on behaviour the models have and no run reports as violated:

- The comment over `checkduplicate_and_update` says that requests up to and including
  `xid_rep` are deleted; the code keeps the reply of `xid_rep` itself.
- A second late copy of a forgotten request is reported INPROGRESS, since the first
  one was entered in `reply_set_`. It is dropped unanswered, which no live caller can
  notice (`NeverForgotten`).
- `add_timespec` carries only above a second. When a timeout that is not a whole
  number of seconds ends exactly on a second, the wait is refused and the call hangs
  with its mutex; `DeadlineKept` says that this is the only case. All timeouts in the
  repository are whole seconds.
- `closeconn` does not signal `send_complete_`: a sender in the middle of a PDU stays
  asleep, and the destructor of `rpcs` with it (`WaitsAnswered` and `SendReturns`
  except this case and no other).
- The early return for an old instance keeps a reference for ever (`leaked`).
- When the process has no free descriptor the accept thread ends for good.
- `send` has no timeout, so a call's deadline, and `cancel`, wait for a peer that has
  stopped reading (`CallReturns`, `CancelReturns`).
- Two threads in `cancel` at a time: each finishing call signals one of them, and when
  the last has finished the other may sleep on.
- `operator>>` for vectors appends to what the object already holds.
- Of several pairs with one key a map keeps one. A handler with a map in its signature
  that is sent something else can so run on arguments that stand for fewer bytes than
  came; with the caller's types it cannot happen (`RoundTrip`).

## 4. Proofs

All theorems hold for every value of the constants under the named assumptions of
the modules:

- `LockServer`: every thread has a stub, the pool has at least one thread, `NoClient`
  and `NoLock` are no clients, threads or locks;
- `RpcServer`, `RpcClient`, `Rpc`: a client may make at least one call, the other
  bounds are numbers;
- `Connection`: a PDU has at least one chunk, senders are finitely many, not closers
  and not `Nobody`;
- `ServerConns`: descriptors are finitely many positive numbers, the pool has
  finitely many threads and at least one, the queue room for one job;
- `Marshall`: a byte has an even, positive number of values, a new buffer has room for
  the headers (the code's 256 and 1024 do);
- `CallData`: arguments, results and headers are values of their declared types;
- `XidRepList`: its bounds are numbers;
- `Deadline`: the clock is past the epoch's first second (`tv_sec = 0` is the code's
  mark for "no final deadline yet"), timeouts and delays are not negative.

Each invariant that a proof rests on was checked by TLC on the run's instance
before it was proved. Where a proof module has `IInv`, `InitIInv` and `NextIInv` are
the two halves of the induction, with one lemma `...IInv` per action (or per branch
of a long one) in between.

**LockServerProof.** The inductive invariant is `TypeOK /\ QueueInv /\ CallInv /\
OwnerInv /\ HeldReleaseOK`. `OwnerInv` carries the argument: ownership (`Owns`) is
defined from the grant by the server to the execution of the release, both while
the messages are in flight, and the entry of the table is the client of the one
thread that owns. It is not inductive alone: that the entry is erased only by its
owner (`DropIsOwn`) needs `CallInv`, which says that a release by a thread that does
not hold the lock comes from a stub nobody shares, and `QueueInv`, without which
`TakeJob` could move a call that is not queued. From the invariant follow
`MutualExclusionHolds`, `OwnerCorrect`, `HeldReleaseCorrect`. `NoLostWakeupOneLock`
adds the hypothesis that a single lock is in use; the run `lock_lost_wakeup` shows
that it cannot be dropped. `Refinement` maps ownership and being inside to
`AbstractLock`: every step is a grant, an entry, a leave, a release or a stutter.

**ReplyWindowProof.** The loops of the code appear as `CountBelow`, chosen by what
it satisfies. `CountBelowIs` shows that the choice exists, by the well-ordering of
the naturals; `DropBelowIs` and `AddReplyIs` that dropping from the front of a
strictly increasing list removes exactly the smaller elements, and that insertion
keeps it increasing and adds one element; `RaiseIs` and `UpdateIs` say the same of
the window. `UpdateXidRepIs` is the client's counterpart: a report moves the front
only over reported calls, and never back.

**RpcServerProof.** At-most-once is not inductive: one must know why a second copy
cannot look new. `SeenInv` says that every call that was started is in the set or
below the bound; `WorkInv` and `OneWorker` extend it to calls between the verdict
NEW and the saved reply, and make the thread that holds one unique; `SavedInv` ties
the saved replies to executed calls, so that `add_reply` never meets its own xid
(its VERIFY). With `WindowSorted` and `CachedUntilAcked` they form the invariant,
preserved action by action (`CheckIInv` is the heart). `BoundMonotoneHolds` is an
action property from the same invariant.

**RpcClientProof.** A chain of bounds links the caller to the server. A call that
waits is beyond the front and not reported (`WaitingInv`, which needs `UniqueXids`:
nobody else can report it); a header's `xid_rep` is at most the front (`HeaderInv`);
the server's bound is at most some header's `xid_rep` (`ServerInv`). So the bound
never reaches a waiting call, which is `AckedIsOver`, and `atmostonce_failure` is
only ever sent for calls that are over (`AnsweredInv`), which is `NeverForgotten`.
`DupIsForgotten` goes the other way: the server has seen the header of every call that
was answered (`DoneInv`), so its bound is at least what the client thinks it is when it
sends the kept request again. A cancel breaks that, and the property excepts it.

**RpcProof.** The same window argument as in `RpcServerProof`, but a server now forgets
everything in a restart and its requests come from a real client over real
connections. The types carry much of it: replies under way, calls that took one and
requests at a thread are drawn from sets (`Answers`, `Calls`, `Requests`) whose
members are genuine, that is, say "ok" only of a call that ran in the instance its
header names. `RunsInv` restricts `SeenInv` to calls of the current instance
(`Current`), the only ones `dispatch` lets through; a restart makes it vacuous, and
since no header names an instance to come (`ClientInv`), it stays true.
`Refinement` shows that between two restarts every step is one of `RpcServer`'s or a
stutter: a call of the client is `Call`, with an `xid_rep` in the range `RpcServer`
allows; a request that passes the test of the nonce is `Deliver`; `dispatch` goes
through the same `Check`, `Run`, `Save` and `Send`; connections and retransmissions
are invisible.
`WaitersRememberedHolds` carries the chain of bounds of `RpcClientProof` over to
connections and restarts: a call without a reply is beyond the client's front and not
reported (`WaitersInv`), the server's bound is behind the front (`BehindClient`), and a
thread or a reply that says "forgotten" is about a call at or below the front
(`Requests`, `Answers`), so it never finds a caller who waits. `AckForward` is an action
property: neither end's idea of what is acknowledged moves back, except that a restart
forgets the server's.

**DataProof.** Induction over data is done by hand: `UpTo` is induction up to n for a set of
numbers, by the least one that is missing, and `RunExists` shows that the loops, which
the models write as recursive functions, have the runs their definitions describe.

*Deadline.* `add_timespec` and `cmp_timespec` are shown to agree with addition
and order on pairs of milliseconds and a rest below a millisecond, carry and
uncarried whole second included. The invariant says where the two deadlines are in
those terms at every point of the loop (`FinalInv`, `WaitInv`, `ExpiredInv`), and that a
wait is refused in the one case `DeadlineKept` names (`SpinInv`).

*XidRepList.* `InsertIs`, `PopFrontIs`, `FrontMoves` and `CompressIs` say what the three
loops do to a sorted list: the front ends at the last element of the unbroken run it
starts. `XidInv` is the list sorted, front + 1 not in it, and the reported xids those up
to the front and those in the list. It gives `WindowIsExactHolds`, which is also why the
record may stand for the list in `Rpc` and `RpcClient`, and the action property
`AckMonotone`.

*CallData.* A wire format is stated by offset, independently of reader and writer:
`Holds` (these bytes are that value), `IsReqHeader`, `IsReplyHeader`. `WrotePut` shows that
`<<` leaves the value there and everything before it alone, through every growth of the
buffer, `GetBack` that `>>` takes it from there, for each type: digits and sign for the
integers (`Digits`, `SignedBack`), the loops for strings and containers (`VectorTurns`,
`MapTurns`). `GetAny` is for types that do not agree: whatever the bytes, a `>>` that nothing
went wrong in read a value that accounts for the bytes it took, a map for no more than
those. The invariant `DataInv` goes by where
the call is: `RoundTrip` compares values at its two ends, so one must know in between
what the buffer carries from which offset on, how many arguments are still to be read
and that nothing unread is left when the handler runs.

**ConnectionProof.** `WriterInv`: `wpdu_` is that of the one sender in the middle of a
PDU. `FrameInv` is the strengthening that `FramesIntact` needs: what is written is whole
PDUs and then as much of the last as `wpdu_` says, as long as the connection
lives; `ReturnInv` adds that `send` returns true only behind a whole PDU
(`TrueMeansSent`). `RemoveInv` makes the thread that kills the connection unique, and
`WatchInv` ties how far the descriptor is out of use (sets, the loop's copies, callback)
to how far that thread has come: at its end this is `RemovedIsQuiet`. With exact
references (`RefInv`) it gives `DeletedIsUnreachable`.

**ServerConnsProof.** The largest proof: nine parts that hold only together.
`RefInv` is `RefsExact` with the deleted connections; its steps count the members of the
table, the queue and the pool before and after (`InTableStep`, `InQueueAppend`,
`InQueueTail`, `InPoolStep`). `There` is what it is used for: whoever has the number of
a connection finds it. `FdInv` (no descriptor twice) and `TableInv` (every live connection
is in the table under its descriptor, or about to be) locate connections; `WatchInv`
and `PollInv` say that callbacks, descriptor sets and the loop's lists are about
connections that live, or whose killer is still in `block_remove_fd` and so holds a
reference: this is why descriptors are not reused too early (`FreshFd`, `NoDangling`).
`WriterInv` is the order at `wpdu_` and at the loop, `PoolInv` the count of pills against
threads; from them follow `WaitsAnswered` and `PillsAreLast`. `DispatchInv` says that a
handler's reply has a connection to move to. The bound in `TypeOK` of the references
that refusals keep takes a second invariant, `OldInv`: every request that came on a
connection is in one place on it, and only a call changes its connection.

Only model-checked is all liveness (`WaiterProgress`, `ReleaseServed`, `CallReturns`,
`CancelReturns`, `SendReturns`, `EofNoticed`): fairness and `ENABLED` are out of the
prover's reach.

## 5. Not modelled

- `EPollAIO`: never instantiated.
- Logging, `make_sockaddr`, socket options, `method_thread.h`: no state. A `ScopedLock`
  is the extent of a step; a failed VERIFY is a state where one is possible.
- `set_reachable`: a switch for tests, changed without a lock (with a race at
  `rpc.cc:453` that the hazards list notes). `updatestat`: statistics.
- `take_content`, `get_content`, `str`, `diff_timespec`: no code but tests uses them.
- Clients with nonce 0: `dispatch` has a branch for them, no code makes one.
- Wrap-around of xids after 2^32 calls.
- Timeouts of lock calls: `LockServer` assumes that RPCs complete. An acquire that fails
  ends the client at the stub's VERIFY. `lock_client::release` has no VERIFY: a release
  that times out returns its failure, and a client that does not look at it goes on while
  the lock stays taken.
- The end of a shutdown as a liveness property: the state space of `ServerConns` is
  too large for TLC's liveness check. `WaitsAnswered` states its safety part: every
  thread that waits has somebody to end the wait.

## 6. Plan

Done: the modules of section 2 and, in section 4, a theorem for every safety property
of a passing run. What is left are the hazards that `PROJECT.json` lists without a
property, each with its reason, above all:

1. `set_reachable` and clients with nonce 0, as further actions of `ServerConns`;
2. timeouts of lock calls, which would compose `LockServer` with `RpcClient`;
3. two threads in `cancel`, with a property that the second one returns.
