----------------------------- MODULE XidRepWindow -----------------------------
(***************************************************************************)
(* rpcc::xid_rep_window_, from whose front a client tells the server up to *)
(* which xid it has all replies.  The code keeps a sorted list of unsigned *)
(* ints with repetitions; what the rest of the client can see of it is the *)
(* front and which xids beyond the front are in it, kept here as a record. *)
(* XidRepList runs the list algorithm itself beside this definition.       *)
(***************************************************************************)
EXTENDS Naturals

\* The constructor's push_back(0): xids start with 1.
EmptyXidRep == [front |-> 0, above |-> {}]

XidRepType == [front : Nat, above : SUBSET Nat]

\* Mutant: the front moves to the largest xid replied to.
UpdateToLargest(w, xid) == IF xid <= w.front THEN w ELSE [w EXCEPT !.front = xid]

\* rpcc::update_xid_rep: xid is replied to, and the front moves to the end of
\* the run of consecutive xids it now starts.
UpdateXidRep(w, xid) ==
  IF xid <= w.front THEN w
  ELSE LET seen == w.above \union {xid}
           runs == {n \in seen \union {w.front} : \A m \in (w.front + 1)..n : m \in seen}
           end == CHOOSE n \in runs : \A m \in runs : m <= n
       IN  [front |-> end, above |-> {n \in seen : n > end}]
===============================================================================
