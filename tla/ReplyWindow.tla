----------------------------- MODULE ReplyWindow -----------------------------
(***************************************************************************)
(* What rpcs remembers of one client to run each of its calls at most      *)
(* once: its slots of reply_window_, reply_set_ and reply_lower_bound_     *)
(* (rpc.cc, checkduplicate_and_update and add_reply).  Both functions run  *)
(* under reply_window_m_ from end to end, so here they are operators.      *)
(*                                                                         *)
(*   list   the saved replies' xids, in list order (a reply's buffer is    *)
(*          the one entry for its xid);                                    *)
(*   set    the xids seen and not erased;                                  *)
(*   bound  the largest xid_rep received, NoBound before the first.        *)
(***************************************************************************)
EXTENDS Integers, Sequences

NoBound == -1

EmptyWindow == [list |-> <<>>, set |-> {}, bound |-> NoBound]

WindowType == [list : Seq(Nat), set : SUBSET Nat, bound : Nat \union {NoBound}]

Elements(s) == {s[i] : i \in 1..Len(s)}

Increasing(s) == \A i, j \in 1..Len(s) : i < j => s[i] < s[j]

Saved(w) == Elements(w.list)

\* The number of elements of s ahead of the first that is at least x.
CountBelow(s, x) == CHOOSE n \in 0..Len(s) : /\ \A i \in 1..n : s[i] < x
                                             /\ n < Len(s) => s[n+1] >= x

\* Mutant: one pop too many.
DropOneMore(s, x) == SubSeq(s, CountBelow(s, x) + 2, Len(s))

\* The loop that frees and pops entries off the front of the list.
DropBelow(s, x) == SubSeq(s, CountBelow(s, x) + 1, Len(s))

\* Mutant: the bound follows every header, a late one too.
RaiseAlways(w, xid_rep) ==
  [list |-> DropBelow(w.list, xid_rep),
   set |-> IF xid_rep \in w.set THEN {x \in w.set : x >= xid_rep} ELSE w.set,
   bound |-> xid_rep]

\* The client's xid_rep arrives.  The list and the set shrink only when the
\* bound grows, the set only when it holds xid_rep itself.
Raise(w, xid_rep) ==
  IF w.bound = NoBound THEN [w EXCEPT !.bound = xid_rep]
  ELSE IF w.bound < xid_rep
  THEN [list |-> DropBelow(w.list, xid_rep),
        set |-> IF xid_rep \in w.set THEN {x \in w.set : x >= xid_rep} ELSE w.set,
        bound |-> xid_rep]
  ELSE w

\* checkduplicate_and_update's effect: xid is remembered whatever the verdict.
Update(w, xid, xid_rep) ==
  [Raise(w, xid_rep) EXCEPT !.set = @ \union {xid}]

\* Mutant: the set of xids in progress is not looked at.
VerdictNoSet(w, xid, xid_rep) ==
  LET r == Raise(w, xid_rep)
  IN  IF xid \in Saved(r) THEN "DONE"
      ELSE IF xid <= r.bound THEN "FORGOTTEN"
      ELSE "NEW"

\* checkduplicate_and_update's return value.
Verdict(w, xid, xid_rep) ==
  LET r == Raise(w, xid_rep)
  IN  IF xid \in Saved(r) THEN "DONE"
      ELSE IF xid \in r.set THEN "INPROGRESS"
      ELSE IF xid <= r.bound THEN "FORGOTTEN"
      ELSE "NEW"

\* Mutant: at the end of the list.
AddReplyAtEnd(w, xid) == [w EXCEPT !.list = Append(@, xid)]

\* add_reply: ahead of the first entry that is not smaller.
AddReply(w, xid) ==
  LET n == CountBelow(w.list, xid)
  IN  [w EXCEPT !.list = SubSeq(@, 1, n) \o <<xid>> \o SubSeq(@, n + 1, Len(@))]
==============================================================================
