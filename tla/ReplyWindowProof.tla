-------------------------- MODULE ReplyWindowProof --------------------------
(***************************************************************************)
(* What the operators of the two windows do, whatever their size: the list *)
(* operations of the server's reply window on a sorted list, and the moves *)
(* of the client's window of replied xids.                                 *)
(***************************************************************************)
EXTENDS ReplyWindow, XidRepWindow, WellFoundedInduction, SequenceTheorems, TLAPS

\* A non-empty set of naturals has a least element.
LEMMA LeastNatural ==
  ASSUME NEW T, T \subseteq Nat, T # {}
  PROVE  \E x \in T : \A y \in T : x <= y
<1>1. PICK x \in T : \A y \in T : ~(<<y, x>> \in OpToRel(<, Nat))
      BY NatLessThanWellFounded, WFMin
<1>2. \A y \in T : y \in Nat /\ x \in Nat /\ ~(y < x)
      BY <1>1 DEF OpToRel
<1>3. \A y \in T : x <= y
      BY <1>2
<1> QED BY <1>1, <1>3

\* The loops of checkduplicate_and_update and of add_reply stop at a definite
\* place: behind the elements below x at the front of the list.
LEMMA CountBelowIs ==
  ASSUME NEW s \in Seq(Nat), NEW x \in Nat
  PROVE  /\ CountBelow(s, x) \in 0..Len(s)
         /\ \A i \in 1..CountBelow(s, x) : s[i] < x
         /\ CountBelow(s, x) < Len(s) => s[CountBelow(s, x) + 1] >= x
<1> DEFINE T == {i \in 1..(Len(s) + 1) : i <= Len(s) => s[i] >= x}
           P(n) == /\ \A i \in 1..n : s[i] < x
                   /\ n < Len(s) => s[n+1] >= x
<1>1. T \subseteq Nat /\ Len(s) + 1 \in T
      OBVIOUS
<1>2. PICK m \in T : \A y \in T : m <= y
      BY <1>1, LeastNatural
<1>3. m - 1 \in 0..Len(s)
      OBVIOUS
<1>4. \A i \in 1..(m - 1) : s[i] < x
  <2> SUFFICES ASSUME NEW i \in 1..(m - 1), ~(s[i] < x) PROVE FALSE
      OBVIOUS
  <2>1. i \in 1..Len(s) /\ s[i] \in Nat
        BY <1>3
  <2>2. i \in T
        BY <2>1
  <2> QED BY <1>2, <2>2
<1>5. m - 1 < Len(s) => s[(m - 1) + 1] >= x
      OBVIOUS
<1>6. \E n \in 0..Len(s) : P(n)
      BY <1>3, <1>4, <1>5
<1>7. CountBelow(s, x) = CHOOSE n \in 0..Len(s) : P(n)
      BY DEF CountBelow
<1> QED BY <1>6, <1>7

\* Dropping entries from the front of a sorted list drops those below x.
LEMMA DropBelowIs ==
  ASSUME NEW s \in Seq(Nat), NEW x \in Nat, Increasing(s)
  PROVE  /\ DropBelow(s, x) \in Seq(Nat)
         /\ Increasing(DropBelow(s, x))
         /\ Elements(DropBelow(s, x)) = {e \in Elements(s) : e >= x}
<1> DEFINE n == CountBelow(s, x)
           d == DropBelow(s, x)
           L == Len(s)
<1>0. /\ L \in Nat /\ n \in 0..L /\ n \in Nat
      /\ \A i \in 1..L : s[i] \in Nat
      /\ \A i \in 1..n : s[i] < x
      /\ n < L => s[n + 1] >= x
  <2>1. /\ n \in 0..L
        /\ \A i \in 1..n : s[i] < x
        /\ n < L => s[n + 1] >= x
        BY CountBelowIs
  <2>2. L \in Nat /\ \A i \in 1..L : s[i] \in Nat
        OBVIOUS
  <2> HIDE DEF n, L
  <2> QED BY <2>1, <2>2
<1>1. /\ d \in Seq(Nat) /\ Len(d) = L - n
      /\ \A i \in 1..(L - n) : d[i] = s[i + n]
  <2>1. /\ SubSeq(s, n + 1, L) \in Seq(Nat)
        /\ Len(SubSeq(s, n + 1, L)) = IF n + 1 <= L THEN L - (n + 1) + 1 ELSE 0
        /\ \A i \in 1..(L - (n + 1) + 1) : SubSeq(s, n + 1, L)[i] = s[(n + 1) + i - 1]
        BY <1>0, SubSeqProperties
  <2>2. d = SubSeq(s, n + 1, L)
        BY DEF DropBelow
  <2> HIDE DEF d, n, L
  <2>3. L - (n + 1) + 1 = L - n /\ \A i \in 1..(L - n) : (n + 1) + i - 1 = i + n
        BY <1>0
  <2> QED BY <1>0, <2>1, <2>2, <2>3
<1>s. \A i, j \in 1..L : i < j => s[i] < s[j]
      BY DEF Increasing
<1> HIDE DEF n, d, L
<1>2. Increasing(d)
  <2> SUFFICES ASSUME NEW i \in 1..(L - n), NEW j \in 1..(L - n), i < j PROVE d[i] < d[j]
      BY <1>1 DEF Increasing
  <2>1. i + n \in 1..L /\ j + n \in 1..L /\ i + n < j + n
        BY <1>0
  <2> QED BY <1>1, <1>s, <2>1
<1>3. \A i \in 1..L : i > n => s[i] >= x
  <2> SUFFICES ASSUME NEW i \in 1..L, i > n PROVE s[i] >= x
      OBVIOUS
  <2>1. n + 1 \in 1..L /\ s[n + 1] >= x /\ s[n + 1] \in Nat /\ s[i] \in Nat
        BY <1>0
  <2>2. i = n + 1 \/ s[n + 1] < s[i]
        BY <1>0, <1>s, <2>1
  <2> QED BY <2>1, <2>2
<1>4. ASSUME NEW e \in Elements(d) PROVE e \in Elements(s) /\ e >= x
  <2>1. PICK i \in 1..(L - n) : e = d[i]
        BY <1>1, <1>4 DEF Elements
  <2>2. i + n \in 1..L /\ i + n > n /\ e = s[i + n]
        BY <1>0, <1>1, <2>1
  <2> QED BY <1>3, <2>2 DEF Elements, L
<1>5. ASSUME NEW e \in Elements(s), e >= x PROVE e \in Elements(d)
  <2>1. PICK i \in 1..L : e = s[i]
        BY <1>5 DEF Elements, L
  <2>2. i > n
        BY <1>0, <1>5, <2>1
  <2>3. i - n \in 1..(L - n) /\ (i - n) + n = i
        BY <1>0, <2>2
  <2> QED BY <1>1, <2>1, <2>3 DEF Elements
<1>6. Elements(d) = {e \in Elements(s) : e >= x}
      BY <1>4, <1>5
<1> QED BY <1>1, <1>2, <1>6 DEF d

\* d is the sorted array s of length L with x put behind its first n elements.
Insertion(s, d, L, n, x) ==
  /\ \A i \in 1..L : s[i] \in Nat
  /\ \A i, j \in 1..L : i < j => s[i] < s[j]
  /\ \A i \in 1..n : s[i] < x
  /\ \A i \in (n + 1)..L : s[i] > x
  /\ \A i \in 1..n : d[i] = s[i]
  /\ d[n + 1] = x
  /\ \A i \in (n + 1)..L : d[i + 1] = s[i]

Ascends(d, k) == \A i, j \in 1..k : i < j => d[i] < d[j]

Image(d, k) == {d[i] : i \in 1..k}

\* Such an array is sorted and holds x besides what s holds.
LEMMA InsertionIs ==
  ASSUME NEW L \in Nat, NEW n \in 0..L, NEW s, NEW d, NEW x \in Nat,
         Insertion(s, d, L, n, x)
  PROVE  Ascends(d, L + 1) /\ Image(d, L + 1) = Image(s, L) \union {x}
<1> USE DEF Insertion, Ascends, Image
<1>1. \A j \in (n + 2)..(L + 1) : j - 1 \in (n + 1)..L /\ d[j] = s[j - 1]
  <2> SUFFICES ASSUME NEW j \in (n + 2)..(L + 1)
               PROVE  j - 1 \in (n + 1)..L /\ d[j] = s[j - 1]
      OBVIOUS
  <2>1. j - 1 \in (n + 1)..L /\ (j - 1) + 1 = j
        OBVIOUS
  <2> QED BY <2>1
<1>2. ASSUME NEW i \in 1..(L + 1), NEW j \in 1..(L + 1), i < j PROVE d[i] < d[j]
  <2>1. CASE j <= n
    <3>1. i \in 1..n /\ j \in 1..n /\ i \in 1..L /\ j \in 1..L
          BY <1>2, <2>1
    <3> QED BY <1>2, <3>1
  <2>2. CASE j = n + 1
    <3>1. i \in 1..n
          BY <1>2, <2>2
    <3> QED BY <2>2, <3>1
  <2>3. CASE j > n + 1
    <3>1. j \in (n + 2)..(L + 1)
          BY <2>3
    <3>2. d[j] = s[j - 1] /\ j - 1 \in (n + 1)..L /\ j - 1 \in 1..L
          BY <1>1, <3>1
    <3>3. CASE i <= n
      <4>1. i \in 1..n /\ i \in 1..L /\ i < j - 1
            BY <2>3, <3>3
      <4> QED BY <3>2, <4>1
    <3>4. CASE i = n + 1
          BY <3>2, <3>4
    <3>5. CASE i > n + 1
      <4>1. i \in (n + 2)..(L + 1)
            BY <3>5
      <4>2. d[i] = s[i - 1] /\ i - 1 \in 1..L /\ i - 1 < j - 1
            BY <1>1, <1>2, <4>1
      <4> QED BY <3>2, <4>2
    <3> QED BY <3>3, <3>4, <3>5
  <2> QED BY <2>1, <2>2, <2>3
<1>3. ASSUME NEW i \in 1..(L + 1) PROVE d[i] \in {s[k] : k \in 1..L} \union {x}
  <2>1. CASE i <= n
    <3>1. i \in 1..n /\ i \in 1..L
          BY <2>1
    <3> QED BY <3>1
  <2>2. CASE i = n + 1
        BY <2>2
  <2>3. CASE i > n + 1
    <3>1. i \in (n + 2)..(L + 1)
          BY <2>3
    <3>2. d[i] = s[i - 1] /\ i - 1 \in 1..L
          BY <1>1, <3>1
    <3> QED BY <3>2
  <2> QED BY <2>1, <2>2, <2>3
<1>4. ASSUME NEW k \in 1..L PROVE s[k] \in {d[i] : i \in 1..(L + 1)}
  <2>1. CASE k <= n
    <3>1. k \in 1..n /\ k \in 1..(L + 1)
          BY <2>1
    <3> QED BY <3>1
  <2>2. CASE k > n
    <3>1. k \in (n + 1)..L /\ k + 1 \in 1..(L + 1)
          BY <2>2
    <3> QED BY <3>1
  <2> QED BY <2>1, <2>2
<1>5. x \in {d[i] : i \in 1..(L + 1)}
  <2>1. n + 1 \in 1..(L + 1)
        OBVIOUS
  <2> QED BY <2>1
<1> QED BY <1>2, <1>3, <1>4, <1>5

\* add_reply inserts a new xid so that the list stays sorted.
LEMMA AddReplyIs ==
  ASSUME NEW w \in WindowType, NEW x \in Nat, Increasing(w.list), x \notin Saved(w)
  PROVE  /\ AddReply(w, x) \in WindowType
         /\ Increasing(AddReply(w, x).list)
         /\ Saved(AddReply(w, x)) = Saved(w) \union {x}
         /\ AddReply(w, x).set = w.set /\ AddReply(w, x).bound = w.bound
<1> DEFINE s == w.list
           n == CountBelow(s, x)
           L == Len(s)
           a == SubSeq(s, 1, n)
           b == SubSeq(s, n + 1, L)
           ax == a \o <<x>>
           d == ax \o b
<1>0. s \in Seq(Nat)
      BY DEF WindowType
<1>1. /\ L \in Nat /\ n \in 0..L /\ n \in Nat
      /\ \A i \in 1..L : s[i] \in Nat
      /\ \A i \in 1..n : s[i] < x
      /\ n < L => s[n + 1] >= x
  <2> HIDE DEF s
  <2>1. /\ n \in 0..L
        /\ \A i \in 1..n : s[i] < x
        /\ n < L => s[n + 1] >= x
        BY <1>0, CountBelowIs
  <2>2. L \in Nat /\ \A i \in 1..L : s[i] \in Nat
        BY <1>0
  <2> HIDE DEF n, L
  <2> QED BY <2>1, <2>2
<1>2. AddReply(w, x) = [w EXCEPT !.list = d]
      BY DEF AddReply
<1>s. \A i, j \in 1..L : i < j => s[i] < s[j]
      BY DEF Increasing
<1>e. \A i \in 1..L : s[i] # x
      BY DEF Saved, Elements
<1>t. s = w.list /\ Saved(w) = {s[i] : i \in 1..L}
      BY DEF Saved, Elements
<1>a. a \in Seq(Nat) /\ Len(a) = n /\ \A i \in 1..n : a[i] = s[i]
  <2>1. /\ a \in Seq(Nat)
        /\ Len(a) = IF 1 <= n THEN n - 1 + 1 ELSE 0
        /\ \A i \in 1..(n - 1 + 1) : a[i] = s[1 + i - 1]
    <3>1. \A i \in 1..n : s[i] \in Nat
          BY <1>1
    <3>2. 1 \in Int /\ n \in Int
          BY <1>1
    <3> HIDE DEF s, n
    <3> QED BY <3>1, <3>2, SubSeqProperties
  <2> HIDE DEF a, n, s, L
  <2>2. n - 1 + 1 = n /\ \A i \in 1..n : 1 + i - 1 = i
        BY <1>1
  <2> QED BY <1>1, <2>1, <2>2
<1>b. b \in Seq(Nat) /\ Len(b) = L - n /\ \A i \in 1..(L - n) : b[i] = s[i + n]
  <2>1. /\ b \in Seq(Nat)
        /\ Len(b) = IF n + 1 <= L THEN L - (n + 1) + 1 ELSE 0
        /\ \A i \in 1..(L - (n + 1) + 1) : b[i] = s[(n + 1) + i - 1]
    <3>1. \A i \in (n + 1)..L : s[i] \in Nat
          BY <1>1
    <3>2. n + 1 \in Int /\ L \in Int
          BY <1>1
    <3> HIDE DEF s, n, L
    <3> QED BY <3>1, <3>2, SubSeqProperties
  <2> HIDE DEF b, n, s, L
  <2>2. L - (n + 1) + 1 = L - n /\ \A i \in 1..(L - n) : (n + 1) + i - 1 = i + n
        BY <1>1
  <2> QED BY <1>1, <2>1, <2>2
<1> HIDE DEF a, b, n, L, s
<1>c. /\ ax \in Seq(Nat) /\ Len(ax) = n + 1
      /\ \A i \in 1..n : ax[i] = s[i]
      /\ ax[n + 1] = x
      BY <1>1, <1>a
<1> HIDE DEF ax
<1>d. /\ d \in Seq(Nat) /\ Len(d) = L + 1
      /\ \A i \in 1..(L + 1) : d[i] = IF i <= n + 1 THEN ax[i] ELSE b[i - (n + 1)]
  <2>1. /\ d \in Seq(Nat) /\ Len(d) = Len(ax) + Len(b)
        /\ \A i \in 1..(Len(ax) + Len(b)) : d[i] = IF i <= Len(ax) THEN ax[i] ELSE b[i - Len(ax)]
        BY <1>b, <1>c, ConcatProperties
  <2>2. Len(ax) + Len(b) = L + 1
        BY <1>1, <1>b, <1>c
  <2> HIDE DEF d
  <2> QED BY <1>c, <2>1, <2>2
<1> HIDE DEF d
<1>f. /\ \A i \in 1..n : d[i] = s[i]
      /\ d[n + 1] = x
      /\ \A i \in (n + 1)..L : d[i + 1] = s[i]
  <2>1. ASSUME NEW i \in 1..n PROVE d[i] = s[i]
    <3>1. i \in 1..(L + 1) /\ i <= n + 1
          BY <1>1
    <3> QED BY <1>c, <1>d, <3>1
  <2>2. d[n + 1] = x
    <3>1. n + 1 \in 1..(L + 1) /\ n + 1 <= n + 1
          BY <1>1
    <3> QED BY <1>c, <1>d, <3>1
  <2>3. ASSUME NEW i \in (n + 1)..L PROVE d[i + 1] = s[i]
    <3>1. i + 1 \in 1..(L + 1) /\ ~(i + 1 <= n + 1) /\ (i + 1) - (n + 1) = i - n
          BY <1>1
    <3>2. i - n \in 1..(L - n) /\ (i - n) + n = i
          BY <1>1
    <3> QED BY <1>b, <1>d, <3>1, <3>2
  <2> QED BY <2>1, <2>2, <2>3
<1>g. \A i \in (n + 1)..L : s[i] > x
  <2> SUFFICES ASSUME NEW i \in (n + 1)..L PROVE s[i] > x
      OBVIOUS
  <2>1. n + 1 \in 1..L /\ i \in 1..L /\ n < L
        BY <1>1
  <2>2. s[n + 1] > x /\ s[n + 1] \in Nat /\ s[i] \in Nat
        BY <1>1, <1>e, <2>1
  <2>3. i = n + 1 \/ s[n + 1] < s[i]
        BY <1>1, <1>s, <2>1
  <2> QED BY <2>2, <2>3
<1>3. Ascends(d, L + 1) /\ Image(d, L + 1) = Image(s, L) \union {x}
  <2>1. Insertion(s, d, L, n, x)
        BY <1>1, <1>s, <1>f, <1>g DEF Insertion
  <2>2. L \in Nat /\ n \in 0..L
        BY <1>1
  <2> QED BY <2>1, <2>2, InsertionIs
<1>4. Increasing(d) /\ Elements(d) = Saved(w) \union {x}
      BY <1>d, <1>t, <1>3 DEF Increasing, Elements, Ascends, Image
<1>5. AddReply(w, x) \in WindowType
      BY <1>2, <1>d DEF WindowType
<1>6. /\ AddReply(w, x).list = d /\ AddReply(w, x).set = w.set
      /\ AddReply(w, x).bound = w.bound
      BY <1>2 DEF WindowType
<1> QED BY <1>4, <1>5, <1>6 DEF Saved

\* What an arriving xid_rep may take out of the window is below the new bound.
LEMMA RaiseIs ==
  ASSUME NEW w \in WindowType, NEW r \in Nat, Increasing(w.list)
  PROVE  /\ Raise(w, r) \in WindowType
         /\ Increasing(Raise(w, r).list)
         /\ Raise(w, r).bound \in Nat /\ Raise(w, r).bound >= w.bound
         /\ Saved(Raise(w, r)) \subseteq Saved(w)
         /\ \A e \in Saved(w) : e \in Saved(Raise(w, r)) \/ e < Raise(w, r).bound
         /\ \A e \in w.set : e \in Raise(w, r).set \/ e < Raise(w, r).bound
<1>1. /\ w.list \in Seq(Nat) /\ w.set \in SUBSET Nat
      /\ w.bound \in Nat \union {-1}
      BY DEF WindowType, NoBound
<1>2. CASE w.bound = NoBound
  <2>1. Raise(w, r) = [w EXCEPT !.bound = r]
        BY <1>2 DEF Raise
  <2> QED BY <1>1, <1>2, <2>1 DEF WindowType, NoBound, Saved
<1>3. CASE w.bound # NoBound /\ w.bound < r
  <2> DEFINE d == DropBelow(w.list, r)
             t == IF r \in w.set THEN {x \in w.set : x >= r} ELSE w.set
  <2>1. Raise(w, r) = [list |-> d, set |-> t, bound |-> r]
        BY <1>3 DEF Raise
  <2>2. /\ d \in Seq(Nat) /\ Increasing(d)
        /\ Elements(d) = {e \in Elements(w.list) : e >= r}
        BY <1>1, DropBelowIs
  <2>3. t \in SUBSET Nat /\ \A e \in w.set : e \in t \/ e < r
        BY <1>1
  <2>4. \A e \in Elements(w.list) : e \in Nat
        BY <1>1 DEF Elements
  <2> HIDE DEF d, t
  <2>5. \A e \in Elements(w.list) : e \in Elements(d) \/ e < r
        BY <2>2, <2>4
  <2> QED BY <1>1, <1>3, <2>1, <2>2, <2>3, <2>5 DEF WindowType, Saved
<1>4. CASE w.bound # NoBound /\ ~(w.bound < r)
      BY <1>1, <1>4 DEF Raise, NoBound
<1> QED BY <1>2, <1>3, <1>4

\* A call judged NEW was neither in the set nor below the bound, and whatever
\* was remembered of another call is still there or below the new bound.
LEMMA UpdateIs ==
  ASSUME NEW w \in WindowType, NEW x \in Nat, NEW r \in Nat, Increasing(w.list)
  PROVE  /\ Update(w, x, r) \in WindowType
         /\ Increasing(Update(w, x, r).list)
         /\ Update(w, x, r).bound \in Nat /\ Update(w, x, r).bound >= w.bound
         /\ Saved(Update(w, x, r)) \subseteq Saved(w)
         /\ \A e \in Saved(w) : e \in Saved(Update(w, x, r)) \/ e < Update(w, x, r).bound
         /\ \A e \in w.set : e \in Update(w, x, r).set \/ e < Update(w, x, r).bound
         /\ x \in Update(w, x, r).set
         /\ Verdict(w, x, r) = "NEW" => x \notin w.set /\ ~(x < w.bound)
<1> DEFINE v == Raise(w, r)
<1>1. /\ v \in WindowType /\ Increasing(v.list)
      /\ v.bound \in Nat /\ v.bound >= w.bound
      /\ Saved(v) \subseteq Saved(w)
      /\ \A e \in Saved(w) : e \in Saved(v) \/ e < v.bound
      /\ \A e \in w.set : e \in v.set \/ e < v.bound
      BY RaiseIs
<1>2. Update(w, x, r) = [v EXCEPT !.set = v.set \union {x}]
      BY DEF Update
<1>3. Verdict(w, x, r) = "NEW" => x \notin v.set /\ ~(x <= v.bound)
      BY DEF Verdict
<1>4. w.bound \in Nat \union {-1} /\ w.set \in SUBSET Nat
      BY DEF WindowType, NoBound
<1> HIDE DEF v
<1>5. /\ Update(w, x, r).list = v.list /\ Update(w, x, r).set = v.set \union {x}
      /\ Update(w, x, r).bound = v.bound /\ Update(w, x, r) \in WindowType
      BY <1>1, <1>2 DEF WindowType
<1>6. Saved(Update(w, x, r)) = Saved(v)
      BY <1>5 DEF Saved
<1>7. Verdict(w, x, r) = "NEW" => x \notin w.set /\ ~(x < w.bound)
      BY <1>1, <1>3, <1>4
<1> QED BY <1>1, <1>5, <1>6, <1>7

\* The bound is the largest xid_rep received; a NEW call has no saved reply, a
\* FORGOTTEN one is not beyond the bound.
LEMMA VerdictIs ==
  ASSUME NEW w \in WindowType, NEW x \in Nat, NEW r \in Nat
  PROVE  /\ Update(w, x, r).bound \in {w.bound, r} /\ Update(w, x, r).bound >= r
         /\ Verdict(w, x, r) = "NEW" => x \notin Saved(Update(w, x, r))
         /\ Verdict(w, x, r) = "FORGOTTEN" => x <= Update(w, x, r).bound
<1> DEFINE v == Raise(w, r)
           u == [v EXCEPT !.set = v.set \union {x}]
<1>1. Update(w, x, r) = u
      BY DEF Update
<1>2. w = [list |-> w.list, set |-> w.set, bound |-> w.bound] /\ w.bound \in Nat \union {-1}
      BY DEF WindowType, NoBound
<1>3. v = [list |-> v.list, set |-> v.set, bound |-> v.bound]
      BY <1>2 DEF Raise
<1>4. v.bound \in {w.bound, r} /\ v.bound >= r
      BY <1>2 DEF Raise, NoBound
<1>5. /\ Verdict(w, x, r) = "NEW" => x \notin Saved(v)
      /\ Verdict(w, x, r) = "FORGOTTEN" => x <= v.bound
      BY DEF Verdict
<1> HIDE DEF v
<1>6. u.bound = v.bound /\ u.list = v.list
      BY <1>3
<1> HIDE DEF u
<1> QED BY <1>1, <1>4, <1>5, <1>6 DEF Saved

\* A set of naturals up to n has a largest element.
LEMMA LargestUpTo ==
  ASSUME NEW n \in Nat, NEW T, T \subseteq 0..n, T # {}
  PROVE  \E x \in T : \A y \in T : y <= x
<1> DEFINE U == {k \in 0..n : n - k \in T}
<1>1. U \subseteq Nat /\ U # {}
  <2>1. PICK t \in T : TRUE
        OBVIOUS
  <2>2. n - t \in 0..n /\ n - (n - t) = t
        OBVIOUS
  <2> QED BY <2>1, <2>2
<1>2. PICK k \in U : \A j \in U : k <= j
      BY <1>1, LeastNatural
<1>3. ASSUME NEW y \in T PROVE y <= n - k
  <2>1. y \in 0..n /\ n - y \in 0..n /\ n - (n - y) = y
        OBVIOUS
  <2>2. n - y \in U
        BY <2>1
  <2>3. k \in 0..n /\ k <= n - y
        BY <1>2, <2>2
  <2> QED BY <2>1, <2>3
<1> QED BY <1>3

\* update_xid_rep: the front moves forward over xids that were reported and over
\* no others, and it moves as far as that goes; nothing reported is forgotten.
LEMMA UpdateXidRepIs ==
  ASSUME NEW w \in XidRepType, NEW n \in Nat, NEW x \in 1..n,
         w.front <= n, w.above \subseteq 1..n
  PROVE  /\ UpdateXidRep(w, x) \in XidRepType
         /\ UpdateXidRep(w, x).front <= n /\ UpdateXidRep(w, x).above \subseteq 1..n
         /\ w.front <= UpdateXidRep(w, x).front
         /\ \A y \in Nat : y <= UpdateXidRep(w, x).front =>
                             y <= w.front \/ y \in w.above \union {x}
         /\ UpdateXidRep(w, x).above \subseteq w.above \union {x}
         /\ \A y \in w.above \union {x} :
              y <= UpdateXidRep(w, x).front \/ y \in UpdateXidRep(w, x).above
<1> DEFINE seen == w.above \union {x}
           runs == {m \in seen \union {w.front} : \A k \in (w.front + 1)..m : k \in seen}
           end == CHOOSE m \in runs : \A k \in runs : k <= m
<1>0. w.front \in Nat /\ w.above \in SUBSET Nat /\ x \in Nat
      BY DEF XidRepType
<1>1. CASE x <= w.front
  <2>1. UpdateXidRep(w, x) = w
        BY <1>1 DEF UpdateXidRep
  <2> QED BY <1>0, <1>1, <2>1
<1>2. CASE ~(x <= w.front)
  <2>1. UpdateXidRep(w, x) = [front |-> end, above |-> {m \in seen : m > end}]
        BY <1>2 DEF UpdateXidRep
  <2>2. w.front \in runs /\ runs \subseteq 0..n
        BY <1>0
  <2>3. end \in runs /\ \A k \in runs : k <= end
    <3> HIDE DEF runs
    <3>1. \E m \in runs : \A k \in runs : k <= m
          BY <2>2, LargestUpTo
    <3> QED BY <3>1
  <2>4. end \in Nat /\ end <= n /\ w.front <= end
        BY <2>2, <2>3
  <2>5. \A k \in (w.front + 1)..end : k \in seen
        BY <2>3
  <2>6. seen \subseteq 1..n
        OBVIOUS
  <2>7. UpdateXidRep(w, x).front = end /\ UpdateXidRep(w, x).above = {m \in seen : m > end}
        BY <2>1
  <2> HIDE DEF end, seen
  <2>8. UpdateXidRep(w, x) \in XidRepType
    <3>0. seen \subseteq Nat
          BY <2>6
    <3>1. {m \in seen : m > end} \in SUBSET Nat
          BY <3>0
    <3> QED BY <2>1, <2>4, <3>1 DEF XidRepType
  <2>9. \A y \in Nat : y <= end => y <= w.front \/ y \in seen
        BY <1>0, <2>4, <2>5
  <2>10. \A y \in seen : y <= end \/ y > end
        BY <2>4, <2>6
  <2> QED BY <2>4, <2>6, <2>7, <2>8, <2>9, <2>10 DEF seen
<1> QED BY <1>1, <1>2
=============================================================================
