----------------------------- MODULE AbstractLock -----------------------------
(***************************************************************************)
(* What the lock service promises its callers, whatever the server does    *)
(* inside: a lock has at most one owner, a thread that acquire returned to *)
(* is that owner until it calls release.                                   *)
(***************************************************************************)
CONSTANTS Threads, Locks, Nobody

VARIABLES owner,  \* the thread a lock is granted to, or Nobody
          inside  \* the locks a thread may rely on: acquire has returned and
                  \* release has not been called

Init == /\ owner = [l \in Locks |-> Nobody]
        /\ inside = [t \in Threads |-> {}]

\* The service decides for t.
Grant(t, l) == /\ owner[l] = Nobody
               /\ owner' = [owner EXCEPT ![l] = t]
               /\ UNCHANGED inside

\* acquire returns.
Enter(t, l) == /\ owner[l] = t
               /\ l \notin inside[t]
               /\ inside' = [inside EXCEPT ![t] = @ \union {l}]
               /\ UNCHANGED owner

\* release is called.
Leave(t, l) == /\ l \in inside[t]
               /\ inside' = [inside EXCEPT ![t] = @ \ {l}]
               /\ UNCHANGED owner

\* The service takes the lock back.
Free(t, l) == /\ owner[l] = t
              /\ l \notin inside[t]
              /\ owner' = [owner EXCEPT ![l] = Nobody]
              /\ UNCHANGED inside

Next == \E t \in Threads, l \in Locks :
          Grant(t, l) \/ Enter(t, l) \/ Leave(t, l) \/ Free(t, l)

Spec == Init /\ [][Next]_<<owner, inside>>

===============================================================================
