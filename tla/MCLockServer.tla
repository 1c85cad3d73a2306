---------------------------- MODULE MCLockServer ----------------------------
(***************************************************************************)
(* Instances of LockServer for TLC: lock_clients shared by several threads *)
(* (lock_tester's test4 and test5) and private ones (test2 and test3).     *)
(***************************************************************************)
EXTENDS LockServer, TLC

CONSTANTS t1, t2, t3, t4, c1, c2, c3

\* t1 and t2 share a lock_client, t3 has its own.
MixedClt == (t1 :> c1) @@ (t2 :> c1) @@ (t3 :> c2)

\* As MixedClt, and a fourth thread with a third lock_client.
MixedClt4 == MixedClt @@ (t4 :> c3)

\* All threads call through one lock_client.
SharedClt == [t \in Threads |-> c1]

ThreadSymmetry == Permutations(Threads)
=============================================================================
