---------------------------- MODULE XidRepList -------------------------------
(***************************************************************************)
(* update_xid_rep as the code has it, one list operation after the other,  *)
(* run beside XidRepWindow on the same replies: every xid is reported up   *)
(* to MaxReports times (a reply, a second reply, the end of the call), in  *)
(* any order, as concurrent calls and retransmissions do.                  *)
(***************************************************************************)
EXTENDS XidRepWindow, Sequences

CONSTANTS MaxXid, MaxReports

ASSUME XidAssumption == MaxXid \in Nat /\ MaxReports \in Nat

VARIABLES xid_rep_window_,  \* the code's list
          window,           \* the abstraction of it
          reports           \* times each xid has been reported

xidVars == <<xid_rep_window_, window, reports>>

\* The first loop: ahead of the first larger element, else at the end.
Insert(l, xid) ==
  LET larger == {i \in 1..Len(l) : l[i] > xid}
  IN  IF larger = {} THEN Append(l, xid)
      ELSE LET i == CHOOSE i \in larger : \A j \in larger : i <= j
           IN  SubSeq(l, 1, i - 1) \o <<xid>> \o SubSeq(l, i, Len(l))

\* Mutant of PopFront: a gap of one is closed too.
PopOverGap(l, front, it) == CHOOSE p \in front..it : /\ l[p] >= l[it] \/ l[p] + 2 < l[it]
                                                     /\ \A q \in front..(p - 1) : l[q] + 2 >= l[it]

\* The inner while: the front is popped as long as it is one less than *it, so
\* that what `it` refers to is never popped.
PopFront(l, front, it) == CHOOSE p \in front..it : /\ l[p] + 1 # l[it]
                                                   /\ \A q \in front..(p - 1) : l[q] + 1 = l[it]

\* The outer for: where the front is when `it` has passed every element.
Compress(l) ==
  LET front[it \in 1..Len(l)] == IF it = 1 THEN 1 ELSE PopFront(l, front[it - 1], it)
  IN  SubSeq(l, front[Len(l)], Len(l))

update_xid_rep(l, xid) == IF xid <= Head(l) THEN l
                          ELSE Compress(Insert(l, xid))

XidInit == /\ xid_rep_window_ = <<0>>
           /\ window = EmptyXidRep
           /\ reports = [x \in 1..MaxXid |-> 0]

Report(x) == /\ reports[x] < MaxReports
             /\ reports' = [reports EXCEPT ![x] = @ + 1]
             /\ xid_rep_window_' = update_xid_rep(xid_rep_window_, x)
             /\ window' = UpdateXidRep(window, x)

XidNext == \E x \in 1..MaxXid : Report(x)

XidSpec == XidInit /\ [][XidNext]_xidVars

\* The list's front, what requests carry as xid_rep, is the last xid of the
\* unbroken run of replied xids: never one whose reply is outstanding, and
\* never short of one, also after xids were reported twice out of order; and
\* the record agrees with the list on everything a caller can see.
WindowIsExact ==
  LET f == Head(xid_rep_window_)
  IN  /\ \A x \in 1..f : reports[x] > 0
      /\ f < MaxXid => reports[f + 1] = 0
      /\ window.front = f
      /\ window.above = {xid_rep_window_[i] : i \in 1..Len(xid_rep_window_)} \ {f}
===============================================================================
