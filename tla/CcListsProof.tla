----------------------------- MODULE CcListsProof -----------------------------
(* The links implement sequences, for any number of boxes: every list is the *)
(* sequence that the operations of CcSequences make of it, and the links, the *)
(* marks and the size are what add, remove and poll rely on.                 *)
EXTENDS CcLists, FiniteSetTheorems, SequenceTheorems, WellFoundedInduction, TLAPS

-----------------------------------------------------------------------------
(* Induction over numbers, from the well-foundedness of strict inclusion.    *)

LEMMA LeastNumber ==
    ASSUME NEW T \in SUBSET Nat, T # {}
    PROVE  \E n \in T : \A m \in T : ~(m < n)
<1> DEFINE W == {1..n : n \in T}
<1>1. W \subseteq FiniteSubsetsOf(Nat) /\ W # {}
  <2>1. \A n \in T : 1..n \subseteq Nat /\ IsFiniteSet(1..n)
    BY FS_Interval
  <2> QED BY <2>1 DEF FiniteSubsetsOf
<1>2. \E x \in W : \A y \in W : ~(<<y, x>> \in StrictSubsetOrdering(Nat))
  BY <1>1, FS_StrictSubsetOrderingWellFounded, WFMin
<1>3. PICK n \in T : \A m \in T : ~(<<1..m, 1..n>> \in StrictSubsetOrdering(Nat))
  BY <1>2
<1>4. ASSUME NEW m \in T, m < n PROVE FALSE
  <2>1. 1..m \subseteq 1..n /\ n \in 1..n /\ n \notin 1..m /\ 1..m \subseteq Nat /\ 1..n \subseteq Nat
    BY <1>4
  <2>2. <<1..m, 1..n>> \in StrictSubsetOrdering(Nat)
    BY <2>1 DEF StrictSubsetOrdering
  <2> QED BY <2>2, <1>3
<1> QED BY <1>4

LEMMA Induction ==
    ASSUME NEW S, 0 \in S, \A n \in Nat : n \in S => n + 1 \in S
    PROVE  \A n \in Nat : n \in S
<1> SUFFICES ASSUME Nat \ S # {} PROVE FALSE
  OBVIOUS
<1>1. PICK n \in Nat \ S : \A m \in Nat \ S : ~(m < n)
  BY LeastNumber
<1> QED BY <1>1, n - 1 \in Nat, n # 0

-----------------------------------------------------------------------------
(* The walk over a list *)

Boxes == Cardinality(Objects)

LEMMA BoxesType == Boxes \in Nat
BY FiniteAssumption, FS_CardinalityType DEF Boxes

(* A sequence that names no box twice is no longer than there are boxes.      *)
LEMMA ShortEnough ==
    ASSUME NEW s \in Seq(Objects), \A i, j \in 1..Len(s) : s[i] = s[j] => i = j
    PROVE  Len(s) \in Nat /\ Len(s) <= Boxes
<1>1. Len(s) \in Nat /\ s \in [1..Len(s) -> Objects]
  BY LenProperties
<1>2. s \in Injection(1..Len(s), Objects)
  BY <1>1 DEF Injection, IsInjective
<1>3. Cardinality(1..Len(s)) = Len(s)
  BY <1>1, FS_Interval
<1> QED BY <1>1, <1>2, <1>3, FS_Injection, FiniteAssumption DEF Boxes

At(s, i) == IF i \in 1..Len(s) THEN s[i] ELSE None

(* The links next of h lead from f through s. *)
Chain(h, f, s) ==
    /\ s \in Seq(Objects)
    /\ \A i, j \in 1..Len(s) : s[i] = s[j] => i = j
    /\ f = At(s, 1)
    /\ \A i \in 1..Len(s) : h.next[s[i]] = At(s, i + 1)

IsFollow(a, h, f) ==
    a = [i \in 0..Boxes |-> IF i = 0 THEN f
                            ELSE IF a[i - 1] = None THEN None
                            ELSE h.next[a[i - 1]]]

LEMMA FollowTells ==
    ASSUME NEW h, NEW f, NEW s, Chain(h, f, s)
    PROVE  Follow(h, f) = [i \in 0..Boxes |-> At(s, i + 1)]
<1> DEFINE b == [i \in 0..Boxes |-> At(s, i + 1)]
           a == Follow(h, f)
<1>0. Len(s) \in Nat /\ Boxes \in Nat /\ \A i \in 1..Len(s) : s[i] \in Objects
  BY LenProperties, BoxesType DEF Chain
<1>1. \A i \in 1..Boxes : b[i - 1] = At(s, i)
  BY <1>0
<1>2. \A i \in 1..Boxes : b[i] = IF At(s, i) = None THEN None ELSE h.next[At(s, i)]
  BY <1>0, NoneAssumption DEF Chain, At
<1>3. 0 \in 0..Boxes /\ b[0] = f
  BY <1>0 DEF Chain
<1> HIDE DEF b
<1>4. b = [i \in 0..Boxes |-> b[i]]
  BY DEF b
<1>5. IsFollow(b, h, f)
  <2>1. \A i \in 0..Boxes : b[i] = IF i = 0 THEN f
                                   ELSE IF b[i - 1] = None THEN None
                                   ELSE h.next[b[i - 1]]
    BY <1>0, <1>1, <1>2, <1>3
  <2> QED BY <2>1, <1>4 DEF IsFollow
<1>6. IsFollow(a, h, f)
  BY <1>5 DEF Follow, IsFollow, Boxes
<1> HIDE DEF a
<1> DEFINE S == {n \in Nat : n \in 0..Boxes => a[n] = b[n]}
<1>7. 0 \in S
  BY <1>3, <1>6 DEF IsFollow
<1>8. ASSUME NEW n \in Nat, n \in S PROVE n + 1 \in S
  <2>1. CASE n + 1 \in 0..Boxes
    <3>1. n \in 0..Boxes /\ n + 1 # 0 /\ n + 1 - 1 = n
      BY <2>1, <1>0
    <3>2. a[n] = b[n]
      BY <1>8, <3>1
    <3>3. a[n + 1] = IF a[n] = None THEN None ELSE h.next[a[n]]
      BY <1>6, <2>1, <3>1 DEF IsFollow
    <3>4. b[n + 1] = IF b[n] = None THEN None ELSE h.next[b[n]]
      BY <1>5, <2>1, <3>1 DEF IsFollow
    <3> QED BY <3>2, <3>3, <3>4
  <2> QED BY <2>1
<1>9. \A n \in Nat : n \in S
  BY <1>7, <1>8, Induction
<1>10. a = [i \in 0..Boxes |-> a[i]]
  BY <1>6 DEF IsFollow
<1> QED BY <1>0, <1>4, <1>9, <1>10 DEF a, b

LEMMA WalkTells ==
    ASSUME NEW h, NEW f, NEW s, Chain(h, f, s)
    PROVE  Walk(h, f) = s
<1> DEFINE a == Follow(h, f)
           K == {k \in DOMAIN a : a[k] # None}
<1>1. /\ Len(s) \in Nat /\ Boxes \in Nat /\ Len(s) <= Boxes
      /\ s \in [1..Len(s) -> Objects]
  BY LenProperties, BoxesType, ShortEnough DEF Chain
<1>2. Walk(h, f) = [i \in 1..Cardinality(K) |-> a[i - 1]]
  BY DEF Walk
<1>3. a = [i \in 0..Boxes |-> At(s, i + 1)]
  BY FollowTells
<1> HIDE DEF a
<1>4. DOMAIN a = 0..Boxes /\ \A i \in 0..Boxes : a[i] = At(s, i + 1)
  BY <1>3
<1>5. \A i \in 0..Boxes : a[i] # None <=> i <= Len(s) - 1
  BY <1>1, <1>4, NoneAssumption DEF At
<1>6. K = 0..(Len(s) - 1)
  BY <1>1, <1>4, <1>5
<1> HIDE DEF K
<1>7. Cardinality(K) = Len(s)
  <2>1. 0 \in Int /\ Len(s) - 1 \in Int
    BY <1>1
  <2>2. Cardinality(0..(Len(s) - 1)) = IF 0 > Len(s) - 1 THEN 0 ELSE Len(s) - 1 - 0 + 1
    BY <2>1, FS_Interval
  <2> QED BY <1>1, <1>6, <2>2
<1>8. \A i \in 1..Len(s) : a[i - 1] = s[i]
  BY <1>1, <1>4 DEF At
<1>9. Walk(h, f) = [i \in 1..Len(s) |-> s[i]]
  BY <1>2, <1>7, <1>8
<1> QED BY <1>1, <1>9

-----------------------------------------------------------------------------
(* The links of h are those of the lists s, and no box of A outside of them   *)
(* has links.                                                                 *)

Heaps == [next : [Objects -> Links], prev : [Objects -> Links], mark : [Objects -> Marks],
          first : [ListNames -> Links], last : Links, size : Nat]

Apart(s) ==
    \A l, k \in ListNames : \A i \in 1..Len(s[l]), j \in 1..Len(s[k]) :
        s[l][i] = s[k][j] => l = k /\ i = j

Outside(s, o) == \A l \in ListNames : \A i \in 1..Len(s[l]) : s[l][i] # o

NextLinks(h, s) ==
    \A l \in ListNames : \A i \in 1..Len(s[l]) : h.next[s[l][i]] = At(s[l], i + 1)

PrevLinks(h, s) ==
    \A l \in ListNames : \A i \in 1..Len(s[l]) :
        h.prev[s[l][i]] = IF l = "queue" THEN None ELSE At(s[l], i - 1)

NoLinks(h, s, A) == \A o \in A : Outside(s, o) => h.next[o] = None /\ h.prev[o] = None

Linked(h, s, A) ==
    /\ h \in Heaps /\ A \subseteq Objects
    /\ s \in [ListNames -> Seq(A)]
    /\ Apart(s)
    /\ \A l \in ListNames : h.first[l] = At(s[l], 1)
    /\ h.last = At(s["queue"], Len(s["queue"]))
    /\ NextLinks(h, s) /\ PrevLinks(h, s) /\ NoLinks(h, s, A)

LEMMA ListsType ==
    ASSUME NEW A \in SUBSET Objects, NEW s \in [ListNames -> Seq(A)], NEW l \in ListNames
    PROVE  /\ s[l] \in Seq(A) /\ s[l] \in Seq(Objects) /\ Len(s[l]) \in Nat
           /\ \A i \in 1..Len(s[l]) : s[l][i] \in A /\ s[l][i] \in Objects
<1>1. s[l] \in Seq(A)
  OBVIOUS
<1> QED BY <1>1, LenProperties, SeqMonotonic

(* What add puts in front of a list t0, remove takes out of it at k, and       *)
(* LinkedQueue::add puts at its end.                                           *)
Fronted(t, o, t0) ==
    /\ Len(t) = Len(t0) + 1 /\ t[1] = o
    /\ \A i \in 1..Len(t0) : t[i + 1] = t0[i]

Removed(t, t0, k) ==
    /\ Len(t) = Len(t0) - 1
    /\ \A i \in 1..(Len(t0) - 1) : t[i] = t0[IF i < k THEN i ELSE i + 1]

Appended(t, t0, o) ==
    /\ Len(t) = Len(t0) + 1 /\ t[Len(t0) + 1] = o
    /\ \A i \in 1..Len(t0) : t[i] = t0[i]

LEMMA FrontedTells ==
    ASSUME NEW A, NEW t0 \in Seq(A), NEW o \in A
    PROVE  <<o>> \o t0 \in Seq(A) /\ Fronted(<<o>> \o t0, o, t0)
<1>1. <<o>> \in Seq(A) /\ Len(<<o>>) = 1 /\ <<o>>[1] = o /\ Len(t0) \in Nat
  BY LenProperties
<1> QED BY <1>1, ConcatProperties DEF Fronted

LEMMA RemovedTells ==
    ASSUME NEW A, NEW t0 \in Seq(A), NEW k \in 1..Len(t0)
    PROVE  RemoveAt(t0, k) \in Seq(A) /\ Removed(RemoveAt(t0, k), t0, k)
<1> DEFINE u == SubSeq(t0, 1, k - 1)
           v == SubSeq(t0, k + 1, Len(t0))
<1>1. Len(t0) \in Nat /\ k \in Nat /\ k >= 1 /\ k <= Len(t0) /\ t0 \in [1..Len(t0) -> A]
  BY LenProperties
<1>2. u \in Seq(A) /\ Len(u) = k - 1 /\ \A i \in 1..(k - 1) : u[i] = t0[i]
  <2>1. 1 \in Int /\ k - 1 \in Int /\ \A i \in 1..(k - 1) : t0[i] \in A
    BY <1>1
  <2>2. /\ u \in Seq(A) /\ Len(u) = IF 1 <= k - 1 THEN (k - 1) - 1 + 1 ELSE 0
        /\ \A i \in 1..((k - 1) - 1 + 1) : u[i] = t0[1 + i - 1]
    BY <2>1, SubSeqProperties
  <2> QED BY <1>1, <2>2
<1>3. v \in Seq(A) /\ Len(v) = Len(t0) - k /\ \A i \in 1..(Len(t0) - k) : v[i] = t0[k + i]
  <2>1. k + 1 \in Int /\ Len(t0) \in Int /\ \A i \in (k + 1)..Len(t0) : t0[i] \in A
    BY <1>1
  <2>2. /\ v \in Seq(A) /\ Len(v) = IF k + 1 <= Len(t0) THEN Len(t0) - (k + 1) + 1 ELSE 0
        /\ \A i \in 1..(Len(t0) - (k + 1) + 1) : v[i] = t0[(k + 1) + i - 1]
    BY <2>1, SubSeqProperties
  <2> QED BY <1>1, <2>2
<1> HIDE DEF u, v
<1>4. /\ u \o v \in Seq(A) /\ Len(u \o v) = Len(u) + Len(v)
      /\ \A i \in 1..(Len(u) + Len(v)) : (u \o v)[i] = IF i <= Len(u) THEN u[i] ELSE v[i - Len(u)]
  BY <1>2, <1>3, ConcatProperties
<1>5. RemoveAt(t0, k) = u \o v
  BY DEF RemoveAt, u, v
<1> DEFINE w == u \o v
<1>6. Len(w) = Len(t0) - 1
  BY <1>1, <1>2, <1>3, <1>4
<1>7. ASSUME NEW i \in 1..(Len(t0) - 1)
      PROVE  w[i] = t0[IF i < k THEN i ELSE i + 1]
  <2>1. w[i] = IF i <= k - 1 THEN u[i] ELSE v[i - (k - 1)]
    BY <1>1, <1>2, <1>3, <1>4
  <2>2. CASE i < k
    BY <1>1, <1>2, <2>1, <2>2
  <2>3. CASE i >= k
    <3>1. i - (k - 1) \in 1..(Len(t0) - k) /\ k + (i - (k - 1)) = i + 1 /\ ~(i <= k - 1)
      BY <1>1, <2>3
    <3>2. v[i - (k - 1)] = t0[k + (i - (k - 1))]
      BY <1>3, <3>1
    <3> QED BY <2>1, <2>3, <3>1, <3>2
  <2>4. i < k \/ i >= k
    BY <1>1
  <2> QED BY <2>2, <2>3, <2>4
<1> HIDE DEF w
<1>8. Removed(w, t0, k)
  BY <1>6, <1>7 DEF Removed
<1> QED BY <1>4, <1>5, <1>8 DEF w

LEMMA TailRemoves ==
    ASSUME NEW A, NEW t0 \in Seq(A), Len(t0) > 0
    PROVE  Tail(t0) \in Seq(A) /\ Removed(Tail(t0), t0, 1)
<1>1. t0 # <<>> /\ Len(t0) \in Nat
  BY LenProperties, EmptySeq
<1> QED BY <1>1, HeadTailProperties DEF Removed

LEMMA AppendedTells ==
    ASSUME NEW A, NEW t0 \in Seq(A), NEW o \in A
    PROVE  Append(t0, o) \in Seq(A) /\ Appended(Append(t0, o), t0, o)
BY AppendProperties DEF Appended

-----------------------------------------------------------------------------
(* What the operations do to the links *)

LEMMA AddFirstFields ==
    ASSUME NEW h \in Heaps, NEW l \in ListNames, NEW o \in Objects, h.next[o] = None
    PROVE  LET g == AddFirst(h, l, o) IN
           /\ g \in Heaps /\ g.mark = h.mark /\ g.size = h.size /\ g.last = h.last
           /\ \A k \in ListNames : g.first[k] = IF k = l THEN o ELSE h.first[k]
           /\ \A x \in Objects : /\ g.next[x] = IF x = o THEN h.first[l] ELSE h.next[x]
                                 /\ g.prev[x] = IF x = h.first[l] THEN o ELSE h.prev[x]
<1>1. h.first[l] = None \/ h.first[l] \in Objects
  BY DEF Heaps, Links
<1> QED BY <1>1, NoneAssumption DEF AddFirst, Heaps, Links

LEMMA UnlinkFields ==
    ASSUME NEW h \in Heaps, NEW l \in ListNames, NEW o \in Objects
    PROVE  LET g == Unlink(h, l, o)
               n == h.next[o]
               p == h.prev[o] IN
           /\ g \in Heaps /\ g.mark = h.mark /\ g.size = h.size /\ g.last = h.last
           /\ \A k \in ListNames :
                g.first[k] = IF k = l /\ p = None THEN n ELSE h.first[k]
           /\ \A x \in Objects :
                /\ g.next[x] = IF x = o THEN None ELSE IF x = p THEN n ELSE h.next[x]
                /\ g.prev[x] = IF x = o THEN None ELSE IF x = n THEN p ELSE h.prev[x]
BY DEF Unlink, Heaps, Links

LEMMA RemoveFirstFields ==
    ASSUME NEW h \in Heaps, NEW l \in ListNames, NEW o \in Objects, h.first[l] = o
    PROVE  LET g == ListRemoveFirst(h, l)
               n == h.next[o] IN
           /\ g \in Heaps /\ g.size = h.size /\ g.last = h.last
           /\ \A k \in ListNames : g.first[k] = IF k = l THEN n ELSE h.first[k]
           /\ \A x \in Objects :
                /\ g.next[x] = IF x = o THEN None ELSE h.next[x]
                /\ g.prev[x] = IF x = n THEN None ELSE h.prev[x]
                /\ g.mark[x] = IF x = o THEN "NonMarked" ELSE h.mark[x]
BY DEF ListRemoveFirst, Heaps, Links, Marks

LEMMA EnqueueFields ==
    ASSUME NEW h \in Heaps, NEW o \in Objects
    PROVE  LET g == Enqueue(h, o) IN
           /\ g \in Heaps /\ g.mark = h.mark /\ g.size = h.size /\ g.prev = h.prev
           /\ g.last = o
           /\ \A k \in ListNames :
                g.first[k] = IF k = "queue" /\ h.last = None THEN o ELSE h.first[k]
           /\ \A x \in Objects : g.next[x] = IF x = h.last THEN o ELSE h.next[x]
<1>1. h.last = None \/ h.last \in Objects
  BY DEF Heaps, Links
<1>2. "queue" \in ListNames
  BY DEF ListNames
<1> QED BY <1>1, <1>2, NoneAssumption DEF Enqueue, Heaps, Links

LEMMA PollFields ==
    ASSUME NEW h \in Heaps, NEW o \in Objects, h.first["queue"] = o
    PROVE  LET g == Poll(h)
               n == h.next[o] IN
           /\ g \in Heaps /\ g.size = h.size /\ g.prev = h.prev
           /\ g.last = IF n = None THEN None ELSE h.last
           /\ \A k \in ListNames : g.first[k] = IF k = "queue" THEN n ELSE h.first[k]
           /\ \A x \in Objects :
                /\ g.next[x] = IF x = o THEN None ELSE h.next[x]
                /\ g.mark[x] = IF x = o THEN "NonMarked" ELSE h.mark[x]
<1>1. "queue" \in ListNames
  BY DEF ListNames
<1> QED BY <1>1 DEF Poll, Heaps, Links, Marks

-----------------------------------------------------------------------------
(* The operations keep the lists linked. *)

LEMMA LinkedTells ==
    ASSUME NEW h, NEW s, NEW A, Linked(h, s, A), NEW l \in ListNames
    PROVE  /\ Len(s[l]) \in Nat
           /\ \A i \in 1..Len(s[l]) : s[l][i] \in A /\ s[l][i] \in Objects /\ s[l][i] # None
           /\ h.first[l] = None <=> Len(s[l]) = 0
           /\ Len(s[l]) > 0 => h.first[l] = s[l][1]
           /\ None \notin A
<1>1. A \in SUBSET Objects /\ s \in [ListNames -> Seq(A)] /\ h.first[l] = At(s[l], 1)
  BY DEF Linked
<1>2. /\ Len(s[l]) \in Nat
      /\ \A i \in 1..Len(s[l]) : s[l][i] \in A /\ s[l][i] \in Objects
  BY <1>1, ListsType
<1> QED BY <1>1, <1>2, NoneAssumption DEF At

(* What a lemma on an operation knows of the lists before it *)
LEMMA LinkedFacts ==
    ASSUME NEW h, NEW s, NEW A, Linked(h, s, A)
    PROVE  /\ h \in Heaps /\ A \in SUBSET Objects /\ s \in [ListNames -> Seq(A)] /\ None \notin A
           /\ \A k \in ListNames :
                /\ Len(s[k]) \in Nat
                /\ \A i \in 1..Len(s[k]) : s[k][i] \in A /\ s[k][i] \in Objects /\ s[k][i] # None
                /\ h.first[k] = IF Len(s[k]) = 0 THEN None ELSE s[k][1]
                /\ \A i \in 1..Len(s[k]) :
                     /\ h.next[s[k][i]] = IF i = Len(s[k]) THEN None ELSE s[k][i + 1]
                     /\ h.prev[s[k][i]] = IF k = "queue" \/ i = 1 THEN None ELSE s[k][i - 1]
           /\ \A k, m \in ListNames : \A i \in 1..Len(s[k]), j \in 1..Len(s[m]) :
                s[k][i] = s[m][j] => k = m /\ i = j
           /\ h.last = LET q == s["queue"] IN IF Len(q) = 0 THEN None ELSE q[Len(q)]
           /\ "queue" \in ListNames
<1>1. h \in Heaps /\ A \in SUBSET Objects /\ s \in [ListNames -> Seq(A)] /\ None \notin A
  BY NoneAssumption DEF Linked
<1>2. "queue" \in ListNames
  BY DEF ListNames
<1>3. \A k \in ListNames :
        /\ Len(s[k]) \in Nat
        /\ \A i \in 1..Len(s[k]) : s[k][i] \in A /\ s[k][i] \in Objects /\ s[k][i] # None
  BY LinkedTells
<1>4. ASSUME NEW k \in ListNames
      PROVE  /\ h.first[k] = IF Len(s[k]) = 0 THEN None ELSE s[k][1]
             /\ \A i \in 1..Len(s[k]) :
                  /\ h.next[s[k][i]] = IF i = Len(s[k]) THEN None ELSE s[k][i + 1]
                  /\ h.prev[s[k][i]] = IF k = "queue" \/ i = 1 THEN None ELSE s[k][i - 1]
  BY <1>3 DEF Linked, NextLinks, PrevLinks, At
<1>5. h.last = LET q == s["queue"] IN IF Len(q) = 0 THEN None ELSE q[Len(q)]
  BY <1>2, <1>3 DEF Linked, At
<1>6. \A k, m \in ListNames : \A i \in 1..Len(s[k]), j \in 1..Len(s[m]) :
        s[k][i] = s[m][j] => k = m /\ i = j
  BY DEF Linked, Apart
<1> QED BY <1>1, <1>2, <1>3, <1>4, <1>5, <1>6

(* What it has to show of the lists after it *)
LEMMA LinkedNow ==
    ASSUME NEW g \in Heaps, NEW A \in SUBSET Objects, NEW u \in [ListNames -> Seq(A)],
           \A k, m \in ListNames : \A i \in 1..Len(u[k]), j \in 1..Len(u[m]) :
                u[k][i] = u[m][j] => k = m /\ i = j,
           \A k \in ListNames :
                /\ g.first[k] = IF Len(u[k]) = 0 THEN None ELSE u[k][1]
                /\ \A i \in 1..Len(u[k]) :
                     /\ g.next[u[k][i]] = IF i = Len(u[k]) THEN None ELSE u[k][i + 1]
                     /\ g.prev[u[k][i]] = IF k = "queue" \/ i = 1 THEN None ELSE u[k][i - 1],
           g.last = IF Len(u["queue"]) = 0 THEN None ELSE u["queue"][Len(u["queue"])],
           NoLinks(g, u, A)
    PROVE  Linked(g, u, A)
<1>1. "queue" \in ListNames
  BY DEF ListNames
<1>2. \A k \in ListNames : Len(u[k]) \in Nat
  BY ListsType
<1> QED BY <1>1, <1>2 DEF Linked, Apart, NextLinks, PrevLinks, At

LEMMA AddFirstLinked ==
    ASSUME NEW h, NEW s, NEW A, Linked(h, s, A),
           NEW l \in ListNames \ {"queue"}, NEW o \in A, Outside(s, o),
           NEW t \in Seq(A), Fronted(t, o, s[l])
    PROVE  Linked(AddFirst(h, l, o), [s EXCEPT ![l] = t], A)
<1> DEFINE u == [s EXCEPT ![l] = t]
           g == AddFirst(h, l, o)
<1>1. /\ h \in Heaps /\ A \in SUBSET Objects /\ s \in [ListNames -> Seq(A)] /\ None \notin A
      /\ "queue" \in ListNames
  BY LinkedFacts
<1>2. \A k \in ListNames :
        /\ Len(s[k]) \in Nat
        /\ \A i \in 1..Len(s[k]) : s[k][i] \in A /\ s[k][i] \in Objects /\ s[k][i] # None
        /\ h.first[k] = IF Len(s[k]) = 0 THEN None ELSE s[k][1]
  BY LinkedFacts
<1>3. \A k \in ListNames : \A i \in 1..Len(s[k]) :
        /\ h.next[s[k][i]] = IF i = Len(s[k]) THEN None ELSE s[k][i + 1]
        /\ h.prev[s[k][i]] = IF k = "queue" \/ i = 1 THEN None ELSE s[k][i - 1]
  BY LinkedFacts
<1>4. \A k, m \in ListNames : \A i \in 1..Len(s[k]), j \in 1..Len(s[m]) :
        s[k][i] = s[m][j] => k = m /\ i = j
  BY LinkedFacts
<1>5. o \in Objects /\ o # None /\ \A k \in ListNames : \A i \in 1..Len(s[k]) : s[k][i] # o
  BY <1>1 DEF Outside
<1>6. h.next[o] = None /\ h.prev[o] = None
  BY DEF Linked, NoLinks
<1>7. /\ g \in Heaps /\ g.last = h.last
      /\ \A k \in ListNames : g.first[k] = IF k = l THEN o ELSE h.first[k]
      /\ \A x \in Objects : /\ g.next[x] = IF x = o THEN h.first[l] ELSE h.next[x]
                            /\ g.prev[x] = IF x = h.first[l] THEN o ELSE h.prev[x]
  BY <1>1, <1>5, <1>6, AddFirstFields
<1>8. u \in [ListNames -> Seq(A)] /\ u[l] = t /\ \A k \in ListNames \ {l} : u[k] = s[k]
  BY <1>1
<1>9. /\ Len(t) = Len(s[l]) + 1 /\ t[1] = o
      /\ \A i \in 1..Len(t) : i # 1 => i - 1 \in 1..Len(s[l]) /\ t[i] = s[l][i - 1]
  BY <1>2 DEF Fronted
<1> HIDE DEF u, g
<1>10. ASSUME NEW k \in ListNames, NEW m \in ListNames, NEW i \in 1..Len(u[k]), NEW j \in 1..Len(u[m]),
              u[k][i] = u[m][j]
       PROVE  k = m /\ i = j
  <2>1. ASSUME NEW n \in ListNames, NEW p \in 1..Len(u[n])
        PROVE  \/ n = l /\ p = 1 /\ u[n][p] = o
               \/ \E p0 \in 1..Len(s[n]) : u[n][p] = s[n][p0] /\ u[n][p] # o /\ p = IF n = l THEN p0 + 1 ELSE p0
    <3>1. CASE n # l
      BY <1>5, <1>8, <3>1
    <3>2. CASE n = l /\ p # 1
      <4>1. p - 1 \in 1..Len(s[l]) /\ t[p] = s[l][p - 1] /\ p = (p - 1) + 1
        BY <1>8, <1>9, <3>2
      <4> QED BY <1>5, <1>8, <3>2, <4>1
    <3>3. CASE n = l /\ p = 1
      BY <1>8, <1>9, <3>3
    <3> QED BY <3>1, <3>2, <3>3
  <2>2. CASE u[k][i] = o
    <3>1. k = l /\ i = 1
      BY <2>1, <2>2
    <3>2. u[m][j] = o
      BY <1>10, <2>2
    <3>3. m = l /\ j = 1
      BY <2>1, <3>2
    <3> QED BY <3>1, <3>3
  <2>3. CASE u[k][i] # o
    <3>1. PICK i0 \in 1..Len(s[k]) : u[k][i] = s[k][i0] /\ i = IF k = l THEN i0 + 1 ELSE i0
      BY <2>1, <2>3
    <3>2. PICK j0 \in 1..Len(s[m]) : u[m][j] = s[m][j0] /\ j = IF m = l THEN j0 + 1 ELSE j0
      BY <1>10, <2>1, <2>3
    <3>3. s[k][i0] = s[m][j0]
      BY <1>10, <3>1, <3>2
    <3>4. k = m /\ i0 = j0
      BY <1>4, <3>3
    <3> QED BY <3>1, <3>2, <3>4
  <2> QED BY <2>2, <2>3
<1>11. ASSUME NEW k \in ListNames
       PROVE  g.first[k] = IF Len(u[k]) = 0 THEN None ELSE u[k][1]
  BY <1>2, <1>7, <1>8, <1>9
<1>12. ASSUME NEW k \in ListNames, NEW i \in 1..Len(u[k])
       PROVE  /\ g.next[u[k][i]] = IF i = Len(u[k]) THEN None ELSE u[k][i + 1]
              /\ g.prev[u[k][i]] = IF k = "queue" \/ i = 1 THEN None ELSE u[k][i - 1]
  <2>1. CASE k # l
    <3>1. /\ u[k] = s[k] /\ i \in 1..Len(s[k]) /\ s[k][i] # o /\ s[k][i] \in Objects
          /\ s[k][i] # h.first[l]
      <4>1. u[k] = s[k] /\ i \in 1..Len(s[k]) /\ s[k][i] # o /\ s[k][i] \in Objects /\ s[k][i] # None
        BY <1>2, <1>5, <1>8, <2>1
      <4>2. Len(s[l]) # 0 => 1 \in 1..Len(s[l])
        BY <1>2
      <4> QED BY <1>2, <1>4, <2>1, <4>1, <4>2
    <3> QED BY <1>3, <1>7, <3>1
  <2>2. CASE k = l /\ i = 1
    <3>1. o # h.first[l]
      BY <1>2, <1>5
    <3>2. u[k] = t /\ u[k][i] = o /\ k # "queue"
      BY <1>8, <1>9, <2>2
    <3>3. g.prev[o] = None
      BY <1>5, <1>6, <1>7, <3>1
    <3>4. h.first[l] = IF i = Len(t) THEN None ELSE t[i + 1]
      <4>1. Len(s[l]) # 0 => 2 \in 1..Len(t) /\ t[2] = s[l][1]
        BY <1>2, <1>9
      <4> QED BY <1>2, <1>9, <2>2, <4>1
    <3> QED BY <1>5, <1>7, <2>2, <3>2, <3>3, <3>4
  <2>3. CASE k = l /\ i # 1
    <3>1. i - 1 \in 1..Len(s[l]) /\ u[k][i] = s[l][i - 1] /\ i \in Int /\ k # "queue"
      BY <1>8, <1>9, <2>3
    <3>2. s[l][i - 1] = h.first[l] <=> i = 2
      <4>1. h.first[l] = s[l][1] /\ 1 \in 1..Len(s[l])
        BY <1>2, <3>1
      <4> QED BY <1>4, <3>1, <4>1
    <3>3. /\ h.next[s[l][i - 1]] = IF i - 1 = Len(s[l]) THEN None ELSE s[l][i]
          /\ h.prev[s[l][i - 1]] = IF i - 1 = 1 THEN None ELSE s[l][i - 2]
      <4>1. i - 1 + 1 = i /\ i - 1 - 1 = i - 2
        BY <3>1
      <4>2. l \in ListNames /\ l # "queue"
        OBVIOUS
      <4> DEFINE j == i - 1
      <4>3. /\ h.next[s[l][j]] = IF j = Len(s[l]) THEN None ELSE s[l][j + 1]
            /\ h.prev[s[l][j]] = IF j = 1 THEN None ELSE s[l][j - 1]
        BY <1>3, <3>1, <4>2
      <4> QED BY <4>1, <4>3
    <3>4. s[l][i - 1] # o /\ s[l][i - 1] \in Objects
      BY <1>2, <1>5, <3>1
    <3>5. i # 2 => t[i - 1] = s[l][i - 2]
      <4>1. i # 2 => i - 1 \in 1..Len(t) /\ i - 1 # 1 /\ i - 1 - 1 = i - 2
        BY <1>2, <1>9, <3>1
      <4> QED BY <1>9, <4>1
    <3>6. i # Len(t) => t[i + 1] = s[l][i]
      <4>1. i # Len(t) => i + 1 \in 1..Len(t) /\ i + 1 # 1 /\ i + 1 - 1 = i
        BY <1>2, <1>9, <1>8, <3>1, <2>3
      <4> QED BY <1>9, <4>1
    <3>7. i - 1 = Len(s[l]) <=> i = Len(t)
      BY <1>2, <1>9, <3>1
    <3>8. u[k] = t /\ (i = 2 => t[i - 1] = o)
      BY <1>8, <1>9, <2>3
    <3> QED BY <1>7, <2>3, <3>1, <3>2, <3>3, <3>4, <3>5, <3>6, <3>7, <3>8
  <2> QED BY <2>1, <2>2, <2>3
<1>13. g.last = IF Len(u["queue"]) = 0 THEN None ELSE u["queue"][Len(u["queue"])]
  BY <1>1, <1>7, <1>8, LinkedFacts
<1>14. NoLinks(g, u, A)
  <2> SUFFICES ASSUME NEW x \in A, Outside(u, x) PROVE g.next[x] = None /\ g.prev[x] = None
    BY DEF NoLinks
  <2>1. x # o /\ x \in Objects /\ x # None
    BY <1>1, <1>2, <1>8, <1>9 DEF Outside
  <2>2. ASSUME NEW k \in ListNames, NEW i \in 1..Len(s[k]) PROVE s[k][i] # x
    <3>1. CASE k # l
      BY <1>8, <3>1 DEF Outside
    <3>2. CASE k = l
      <4>1. i + 1 \in 1..Len(t) /\ t[i + 1] = s[l][i]
        BY <1>2, <3>2 DEF Fronted
      <4> QED BY <1>8, <3>2, <4>1 DEF Outside
    <3> QED BY <3>1, <3>2
  <2>3. x # h.first[l]
    BY <1>2, <2>1, <2>2
  <2>4. h.next[x] = None /\ h.prev[x] = None
    BY <2>2 DEF Linked, NoLinks, Outside
  <2> QED BY <1>7, <2>1, <2>3, <2>4
<1>15. Linked(g, u, A)
  BY <1>1, <1>7, <1>8, <1>10, <1>11, <1>12, <1>13, <1>14, LinkedNow
<1> QED BY <1>15 DEF u, g

(* The links, the first and the last elements of g are those of h, but for the *)
(* element of a list at e: its neighbours are linked to each other.            *)
TakesOut(g, h, s, l, e) ==
    /\ \A k \in ListNames : g.first[k] = IF k = l /\ e = 1 THEN At(s[l], e + 1) ELSE h.first[k]
    /\ g.last = IF l = "queue" /\ Len(s[l]) = 1 THEN None ELSE h.last
    /\ \A x \in Objects :
         /\ g.next[x] = IF x = s[l][e] THEN None
                        ELSE IF x = At(s[l], e - 1) THEN At(s[l], e + 1) ELSE h.next[x]
         /\ g.prev[x] = IF x = s[l][e] THEN None
                        ELSE IF l # "queue" /\ x = At(s[l], e + 1) THEN At(s[l], e - 1) ELSE h.prev[x]

(* An element at any place of a list with prev links, and the first of any    *)
(* list, is taken out by linking its neighbours to each other.                *)
LEMMA RemovalLinked ==
    ASSUME NEW h, NEW s, NEW A, Linked(h, s, A),
           NEW l \in ListNames, NEW e \in 1..Len(s[l]), l = "queue" => e = 1,
           NEW t \in Seq(A), Removed(t, s[l], e),
           NEW g \in Heaps,
           TakesOut(g, h, s, l, e)
    PROVE  Linked(g, [s EXCEPT ![l] = t], A)
<1> DEFINE u == [s EXCEPT ![l] = t]
           o == s[l][e]
           n == At(s[l], e + 1)
           p == At(s[l], e - 1)
<1>1. /\ h \in Heaps /\ A \in SUBSET Objects /\ s \in [ListNames -> Seq(A)] /\ None \notin A
      /\ "queue" \in ListNames
  BY LinkedFacts
<1>2. \A k \in ListNames :
        /\ Len(s[k]) \in Nat
        /\ \A i \in 1..Len(s[k]) : s[k][i] \in A /\ s[k][i] \in Objects /\ s[k][i] # None
        /\ h.first[k] = IF Len(s[k]) = 0 THEN None ELSE s[k][1]
  BY LinkedFacts
<1>3. \A k \in ListNames : \A i \in 1..Len(s[k]) :
        /\ h.next[s[k][i]] = IF i = Len(s[k]) THEN None ELSE s[k][i + 1]
        /\ h.prev[s[k][i]] = IF k = "queue" \/ i = 1 THEN None ELSE s[k][i - 1]
  BY LinkedFacts
<1>4. \A k, m \in ListNames : \A i \in 1..Len(s[k]), j \in 1..Len(s[m]) :
        s[k][i] = s[m][j] => k = m /\ i = j
  BY LinkedFacts
<1>5. /\ \A k \in ListNames : g.first[k] = IF k = l /\ e = 1 THEN n ELSE h.first[k]
      /\ \A x \in Objects :
           /\ g.next[x] = IF x = o THEN None ELSE IF x = p THEN n ELSE h.next[x]
           /\ g.prev[x] = IF x = o THEN None ELSE IF l # "queue" /\ x = n THEN p ELSE h.prev[x]
  BY DEF TakesOut
<1>6. /\ e \in Nat /\ 1 <= e /\ e <= Len(s[l]) /\ Len(s[l]) \in Nat
      /\ n = IF e = Len(s[l]) THEN None ELSE s[l][e + 1]
      /\ p = IF e = 1 THEN None ELSE s[l][e - 1]
      /\ e # Len(s[l]) => e + 1 \in 1..Len(s[l])
      /\ e # 1 => e - 1 \in 1..Len(s[l])
      /\ o \in Objects /\ o # None
  BY <1>2 DEF At
<1>7. u \in [ListNames -> Seq(A)] /\ u[l] = t /\ \A k \in ListNames \ {l} : u[k] = s[k]
  BY <1>1
<1>8. Len(t) = Len(s[l]) - 1 /\ Len(t) \in Nat
  BY LenProperties DEF Removed
<1>9. ASSUME NEW i \in 1..Len(t)
      PROVE  /\ i < e => i \in 1..Len(s[l]) /\ t[i] = s[l][i]
             /\ i >= e => i + 1 \in 1..Len(s[l]) /\ t[i] = s[l][i + 1]
             /\ i < e \/ i >= e
             /\ i \in Nat /\ 1 <= i /\ i <= Len(t)
  BY <1>6, <1>8 DEF Removed
<1> HIDE DEF u, o, n, p
<1>10. ASSUME NEW k \in ListNames, NEW i \in 1..Len(u[k])
       PROVE  \E i0 \in 1..Len(s[k]) :
                /\ u[k][i] = s[k][i0] /\ u[k][i] \in Objects /\ u[k][i] # None /\ u[k][i] # o
                /\ i0 = IF k # l \/ i < e THEN i ELSE i + 1
  <2>1. CASE k # l
    <3>1. u[k] = s[k] /\ i \in 1..Len(s[k])
      BY <1>7, <2>1
    <3>2. s[k][i] # o
      BY <1>4, <2>1, <3>1 DEF o
    <3> QED BY <1>2, <2>1, <3>1, <3>2
  <2>2. CASE k = l /\ i < e
    <3>1. u[k] = t /\ i \in 1..Len(s[l]) /\ t[i] = s[l][i] /\ i # e
      BY <1>7, <1>9, <2>2
    <3>2. s[l][i] # o
      BY <1>4, <3>1 DEF o
    <3> QED BY <1>2, <2>2, <3>1, <3>2
  <2>3. CASE k = l /\ i >= e
    <3>1. u[k] = t /\ i + 1 \in 1..Len(s[l]) /\ t[i] = s[l][i + 1] /\ i + 1 # e /\ ~(i < e)
      BY <1>6, <1>7, <1>9, <2>3
    <3>2. s[l][i + 1] # o
      BY <1>4, <3>1 DEF o
    <3> QED BY <1>2, <2>3, <3>1, <3>2
  <2> QED BY <1>7, <1>9, <2>1, <2>2, <2>3
<1>11. ASSUME NEW k \in ListNames, NEW m \in ListNames, NEW i \in 1..Len(u[k]), NEW j \in 1..Len(u[m]),
              u[k][i] = u[m][j]
       PROVE  k = m /\ i = j
  <2>1. PICK i0 \in 1..Len(s[k]) : u[k][i] = s[k][i0] /\ i0 = IF k # l \/ i < e THEN i ELSE i + 1
    BY <1>10
  <2>2. PICK j0 \in 1..Len(s[m]) : u[m][j] = s[m][j0] /\ j0 = IF m # l \/ j < e THEN j ELSE j + 1
    BY <1>10
  <2>3. s[k][i0] = s[m][j0]
    BY <1>11, <2>1, <2>2
  <2>4. k = m /\ i0 = j0
    BY <1>4, <2>3
  <2>5. k = l => i \in Nat /\ j \in Nat
    BY <1>7, <1>9, <2>4
  <2> QED BY <1>6, <2>1, <2>2, <2>4, <2>5
<1>12. ASSUME NEW k \in ListNames
       PROVE  g.first[k] = IF Len(u[k]) = 0 THEN None ELSE u[k][1]
  <2>1. CASE k # l
    BY <1>2, <1>5, <1>7, <2>1
  <2>2. CASE k = l /\ e = 1
    <3>1. e # Len(s[l]) => e <= Len(t)
      BY <1>6, <1>8
    <3>2. e # Len(s[l]) => 1 \in 1..Len(t) /\ 1 >= e
      BY <1>8, <2>2, <3>1
    <3> QED BY <1>5, <1>6, <1>7, <1>8, <1>9, <2>2, <3>2
  <2>3. CASE k = l /\ e # 1
    <3>1. 1 \in 1..Len(t) /\ 1 < e
      BY <1>6, <1>8, <2>3
    <3> QED BY <1>2, <1>5, <1>6, <1>7, <1>8, <1>9, <2>3, <3>1
  <2> QED BY <2>1, <2>2, <2>3
<1>13. ASSUME NEW k \in ListNames, k # l, NEW i \in 1..Len(u[k])
       PROVE  /\ g.next[u[k][i]] = IF i = Len(u[k]) THEN None ELSE u[k][i + 1]
              /\ g.prev[u[k][i]] = IF k = "queue" \/ i = 1 THEN None ELSE u[k][i - 1]
  <2>1. /\ u[k] = s[k] /\ i \in 1..Len(s[k]) /\ s[k][i] # o /\ s[k][i] \in Objects /\ s[k][i] # None
    BY <1>7, <1>10, <1>13
  <2>2. s[k][i] # n /\ s[k][i] # p
    BY <1>4, <1>6, <1>13, <2>1
  <2>3. g.next[s[k][i]] = h.next[s[k][i]] /\ g.prev[s[k][i]] = h.prev[s[k][i]]
    BY <1>5, <2>1, <2>2
  <2> QED BY <1>3, <2>1, <2>3
<1>14. ASSUME NEW i \in 1..Len(t)
       PROVE  /\ g.next[t[i]] = IF i = Len(t) THEN None ELSE t[i + 1]
              /\ g.prev[t[i]] = IF l = "queue" \/ i = 1 THEN None ELSE t[i - 1]
  <2>1. /\ t[i] \in Objects /\ t[i] # None /\ t[i] # o
    BY <1>7, <1>10
  <2>2. i # Len(t) => i + 1 \in 1..Len(t)
    BY <1>9
  <2>3. i # 1 => i - 1 \in 1..Len(t)
    BY <1>9
  <2>4. CASE i < e
    <3>1. i \in 1..Len(s[l]) /\ t[i] = s[l][i] /\ i \in Nat
      BY <1>9, <2>4
    <3>2. t[i] # n
      BY <1>4, <1>6, <2>1, <2>4, <3>1
    <3>3. t[i] = p <=> i = e - 1
      BY <1>4, <1>6, <2>1, <2>4, <3>1
    <3>4. h.next[t[i]] = s[l][i + 1]
      BY <1>3, <1>6, <2>4, <3>1
    <3>5. h.prev[t[i]] = IF l = "queue" \/ i = 1 THEN None ELSE s[l][i - 1]
      BY <1>3, <3>1
    <3>6. i # e - 1 => i # Len(t) /\ t[i + 1] = s[l][i + 1]
      BY <1>6, <1>8, <1>9, <2>2, <2>4, <3>1
    <3>7. i = e - 1 => (i = Len(t) <=> e = Len(s[l])) /\ (i # Len(t) => t[i + 1] = s[l][e + 1])
      BY <1>6, <1>8, <1>9, <2>2, <2>4, <3>1
    <3>8. i # 1 => t[i - 1] = s[l][i - 1]
      BY <1>6, <1>9, <2>3, <2>4, <3>1
    <3> QED BY <1>5, <1>6, <2>1, <3>2, <3>3, <3>4, <3>5, <3>6, <3>7, <3>8
  <2>5. CASE i >= e
    <3>1. i + 1 \in 1..Len(s[l]) /\ t[i] = s[l][i + 1] /\ i \in Nat
      BY <1>9, <2>5
    <3>2. t[i] # p
      BY <1>4, <1>6, <2>1, <2>5, <3>1
    <3>3. t[i] = n <=> i = e
      BY <1>4, <1>6, <2>1, <2>5, <3>1
    <3>4. h.next[t[i]] = IF i = Len(t) THEN None ELSE s[l][i + 2]
      <4>1. i + 1 = Len(s[l]) <=> i = Len(t)
        BY <1>6, <1>8, <3>1
      <4>2. (i + 1) + 1 = i + 2
        BY <3>1
      <4> DEFINE j == i + 1
      <4>3. h.next[s[l][j]] = IF j = Len(s[l]) THEN None ELSE s[l][j + 1]
        BY <1>3, <3>1
      <4> QED BY <3>1, <4>1, <4>2, <4>3
    <3>5. h.prev[t[i]] = IF l = "queue" THEN None ELSE s[l][i]
      <4> DEFINE j == i + 1
      <4>1. h.prev[s[l][j]] = IF l = "queue" \/ j = 1 THEN None ELSE s[l][j - 1]
        BY <1>3, <3>1
      <4>2. j # 1 /\ j - 1 = i
        BY <1>6, <2>5, <3>1
      <4> QED BY <3>1, <4>1, <4>2
    <3>6. i # Len(t) => t[i + 1] = s[l][i + 2]
      <4>1. i + 1 >= e /\ (i + 1) + 1 = i + 2
        BY <1>6, <2>5, <3>1
      <4> QED BY <1>9, <2>2, <4>1
    <3>7. i # e => i # 1 /\ t[i - 1] = s[l][i]
      <4>1. i # e => i # 1 /\ i - 1 >= e /\ (i - 1) + 1 = i
        BY <1>6, <2>5, <3>1
      <4> QED BY <1>9, <2>3, <4>1
    <3>8. i = e => (i # 1 => t[i - 1] = s[l][e - 1]) /\ (i = 1 <=> e = 1)
      <4>1. i = e /\ i # 1 => i - 1 < e
        BY <1>6, <3>1
      <4> QED BY <1>9, <2>3, <4>1
    <3> QED BY <1>5, <1>6, <2>1, <3>2, <3>3, <3>4, <3>5, <3>6, <3>7, <3>8
  <2> QED BY <1>9, <2>4, <2>5
<1>15. g.last = IF Len(u["queue"]) = 0 THEN None ELSE u["queue"][Len(u["queue"])]
  <2>1. h.last = IF Len(s["queue"]) = 0 THEN None ELSE s["queue"][Len(s["queue"])]
    BY LinkedFacts
  <2>2. CASE l # "queue"
    BY <1>1, <1>7, <2>1, <2>2 DEF TakesOut
  <2>3. CASE l = "queue"
    <3>1. e = 1
      BY <2>3
    <3>2. Len(s[l]) # 1 => Len(t) \in 1..Len(t) /\ Len(t) >= e /\ Len(t) + 1 = Len(s[l]) /\ Len(t) # 0
      BY <1>6, <1>8, <3>1
    <3>3. Len(s[l]) # 1 => t[Len(t)] = s[l][Len(s[l])]
      BY <1>9, <3>2
    <3> QED BY <1>6, <1>7, <1>8, <2>1, <2>3, <3>2, <3>3 DEF TakesOut
  <2> QED BY <2>2, <2>3
<1>16. NoLinks(g, u, A)
  <2> SUFFICES ASSUME NEW x \in A, Outside(u, x) PROVE g.next[x] = None /\ g.prev[x] = None
    BY DEF NoLinks
  <2>1. x \in Objects /\ x # None
    BY <1>1
  <2>2. CASE x = o
    BY <1>5, <2>1, <2>2
  <2>3. CASE x # o
    <3>1. ASSUME NEW k \in ListNames, NEW i \in 1..Len(s[k]) PROVE s[k][i] # x
      <4>1. CASE k # l
        BY <1>7, <4>1 DEF Outside
      <4>2. CASE k = l /\ i = e
        BY <2>3, <4>2 DEF o
      <4>3. CASE k = l /\ i < e
        <5>1. i \in 1..Len(t)
          BY <1>6, <1>8, <4>3
        <5>2. t[i] = s[l][i]
          BY <1>9, <4>3, <5>1
        <5> QED BY <1>7, <4>3, <5>1, <5>2 DEF Outside
      <4>4. CASE k = l /\ i > e
        <5>1. i - 1 \in 1..Len(t) /\ i - 1 >= e /\ (i - 1) + 1 = i
          BY <1>6, <1>8, <4>4
        <5>2. t[i - 1] = s[l][i]
          BY <1>9, <5>1
        <5> QED BY <1>7, <4>4, <5>1, <5>2 DEF Outside
      <4>5. k = l => i = e \/ i < e \/ i > e
        BY <1>6
      <4> QED BY <4>1, <4>2, <4>3, <4>4, <4>5
    <3>2. x # n /\ x # p
      BY <1>6, <2>1, <3>1
    <3>3. h.next[x] = None /\ h.prev[x] = None
      BY <3>1 DEF Linked, NoLinks, Outside
    <3> QED BY <1>5, <2>1, <2>3, <3>2, <3>3
  <2> QED BY <2>2, <2>3
<1>17. ASSUME NEW k \in ListNames, NEW i \in 1..Len(u[k])
       PROVE  /\ g.next[u[k][i]] = IF i = Len(u[k]) THEN None ELSE u[k][i + 1]
              /\ g.prev[u[k][i]] = IF k = "queue" \/ i = 1 THEN None ELSE u[k][i - 1]
  <2>1. CASE k = l
    BY <1>7, <1>14, <2>1
  <2>2. CASE k # l
    BY <1>13, <2>2
  <2> QED BY <2>1, <2>2
<1>18. Linked(g, u, A)
  <2>1. \A k, m \in ListNames : \A i \in 1..Len(u[k]), j \in 1..Len(u[m]) :
            u[k][i] = u[m][j] => k = m /\ i = j
    BY <1>11
  <2>2. \A k \in ListNames :
          /\ g.first[k] = IF Len(u[k]) = 0 THEN None ELSE u[k][1]
          /\ \A i \in 1..Len(u[k]) :
               /\ g.next[u[k][i]] = IF i = Len(u[k]) THEN None ELSE u[k][i + 1]
               /\ g.prev[u[k][i]] = IF k = "queue" \/ i = 1 THEN None ELSE u[k][i - 1]
    BY <1>12, <1>17
  <2>3. A \in SUBSET Objects /\ u \in [ListNames -> Seq(A)]
    BY <1>1, <1>7
  <2> QED BY <1>15, <1>16, <2>1, <2>2, <2>3, LinkedNow
<1> QED BY <1>18 DEF u

(* The neighbours of an element, by its links *)
LEMMA Neighbours ==
    ASSUME NEW h, NEW s, NEW A, Linked(h, s, A), NEW l \in ListNames, NEW e \in 1..Len(s[l])
    PROVE  /\ s[l][e] \in Objects /\ s[l][e] \in A /\ s[l][e] # None
           /\ h.next[s[l][e]] = At(s[l], e + 1)
           /\ l # "queue" => h.prev[s[l][e]] = At(s[l], e - 1)
           /\ At(s[l], e + 1) # None <=> e + 1 \in 1..Len(s[l])
           /\ At(s[l], e - 1) # None <=> e # 1
           /\ At(s[l], e + 1) # s[l][e] /\ At(s[l], e - 1) # s[l][e]
<1>1. /\ Len(s[l]) \in Nat
      /\ \A i \in 1..Len(s[l]) : s[l][i] \in A /\ s[l][i] \in Objects /\ s[l][i] # None
      /\ \A i, j \in 1..Len(s[l]) : s[l][i] = s[l][j] => i = j
  BY LinkedFacts
<1>2. /\ h.next[s[l][e]] = At(s[l], e + 1)
      /\ l # "queue" => h.prev[s[l][e]] = At(s[l], e - 1)
  BY DEF Linked, NextLinks, PrevLinks
<1>3. e \in Int /\ e + 1 # e /\ e - 1 # e /\ (e # 1 <=> e - 1 \in 1..Len(s[l]))
  BY <1>1
<1>4. At(s[l], e + 1) # None <=> e + 1 \in 1..Len(s[l])
  BY <1>1 DEF At
<1>5. At(s[l], e - 1) # None <=> e # 1
  BY <1>1, <1>3 DEF At
<1>6. At(s[l], e + 1) # s[l][e] /\ At(s[l], e - 1) # s[l][e]
  BY <1>1, <1>3 DEF At
<1> QED BY <1>1, <1>2, <1>4, <1>5, <1>6

LEMMA UnlinkLinked ==
    ASSUME NEW h, NEW s, NEW A, Linked(h, s, A),
           NEW l \in ListNames \ {"queue"}, NEW e \in 1..Len(s[l])
    PROVE  Linked(Unlink(h, l, s[l][e]), [s EXCEPT ![l] = RemoveAt(@, e)], A)
<1> DEFINE o == s[l][e]
           n == At(s[l], e + 1)
           p == At(s[l], e - 1)
           g == Unlink(h, l, o)
<1>1. h \in Heaps /\ s \in [ListNames -> Seq(A)] /\ s[l] \in Seq(A)
  BY DEF Linked
<1>2. o \in Objects /\ h.next[o] = n /\ h.prev[o] = p /\ (p = None <=> e = 1)
  BY Neighbours
<1>3. /\ g \in Heaps /\ g.last = h.last
      /\ \A k \in ListNames : g.first[k] = IF k = l /\ p = None THEN n ELSE h.first[k]
      /\ \A x \in Objects :
           /\ g.next[x] = IF x = o THEN None ELSE IF x = p THEN n ELSE h.next[x]
           /\ g.prev[x] = IF x = o THEN None ELSE IF x = n THEN p ELSE h.prev[x]
  BY <1>1, <1>2, UnlinkFields
<1>4. RemoveAt(s[l], e) \in Seq(A) /\ Removed(RemoveAt(s[l], e), s[l], e)
  BY <1>1, RemovedTells
<1>5. [s EXCEPT ![l] = RemoveAt(@, e)] = [s EXCEPT ![l] = RemoveAt(s[l], e)]
  BY <1>1
<1> HIDE DEF g
<1>6. TakesOut(g, h, s, l, e)
  BY <1>2, <1>3 DEF TakesOut
<1>7. Linked(g, [s EXCEPT ![l] = RemoveAt(s[l], e)], A)
  BY <1>3, <1>4, <1>6, RemovalLinked
<1> QED BY <1>5, <1>7 DEF g

LEMMA RemoveFirstLinked ==
    ASSUME NEW h, NEW s, NEW A, Linked(h, s, A), NEW l \in ListNames \ {"queue"}, h.first[l] # None
    PROVE  LET g == ListRemoveFirst(h, l)
               o == h.first[l] IN
           /\ Linked(g, [s EXCEPT ![l] = Tail(@)], A) /\ g.size = h.size
           /\ 1 \in 1..Len(s[l]) /\ o = s[l][1] /\ o \in A
           /\ \A x \in Objects : g.mark[x] = IF x = o THEN "NonMarked" ELSE h.mark[x]
<1>1. h \in Heaps /\ s \in [ListNames -> Seq(A)] /\ s[l] \in Seq(A)
  BY DEF Linked
<1>2. 1 \in 1..Len(s[l]) /\ h.first[l] = s[l][1] /\ Len(s[l]) > 0
  BY LinkedTells
<1>3. PICK e \in 1..Len(s[l]) : e = 1
  BY <1>2
<1> DEFINE o == h.first[l]
           n == At(s[l], e + 1)
           p == At(s[l], e - 1)
           g == ListRemoveFirst(h, l)
<1>4. o = s[l][e] /\ o \in Objects /\ o \in A /\ h.next[o] = n /\ h.prev[o] = None /\ p = None /\ n # o
  BY <1>2, <1>3, Neighbours
<1>5. /\ g \in Heaps /\ g.size = h.size /\ g.last = h.last
      /\ \A k \in ListNames : g.first[k] = IF k = l THEN n ELSE h.first[k]
      /\ \A x \in Objects :
           /\ g.next[x] = IF x = o THEN None ELSE h.next[x]
           /\ g.prev[x] = IF x = n THEN None ELSE h.prev[x]
           /\ g.mark[x] = IF x = o THEN "NonMarked" ELSE h.mark[x]
  BY <1>1, <1>4, RemoveFirstFields
<1>6. Tail(s[l]) \in Seq(A) /\ Removed(Tail(s[l]), s[l], e)
  BY <1>1, <1>2, <1>3, TailRemoves
<1>7. [s EXCEPT ![l] = Tail(@)] = [s EXCEPT ![l] = Tail(s[l])]
  BY <1>1
<1> HIDE DEF g
<1>8. TakesOut(g, h, s, l, e)
  BY <1>3, <1>4, <1>5, NoneAssumption DEF TakesOut
<1>9. Linked(g, [s EXCEPT ![l] = Tail(s[l])], A)
  BY <1>5, <1>6, <1>8, RemovalLinked
<1> QED BY <1>2, <1>4, <1>5, <1>7, <1>9 DEF g

LEMMA PollLinked ==
    ASSUME NEW h, NEW s, NEW A, Linked(h, s, A), h.first["queue"] # None
    PROVE  LET g == Poll(h)
               o == h.first["queue"] IN
           /\ Linked(g, [s EXCEPT !["queue"] = Tail(@)], A) /\ g.size = h.size
           /\ 1 \in 1..Len(s["queue"]) /\ o = s["queue"][1] /\ o \in A
           /\ \A x \in Objects : g.mark[x] = IF x = o THEN "NonMarked" ELSE h.mark[x]
<1>1. h \in Heaps /\ s \in [ListNames -> Seq(A)] /\ "queue" \in ListNames /\ s["queue"] \in Seq(A)
  BY DEF Linked, ListNames
<1>2. /\ 1 \in 1..Len(s["queue"]) /\ h.first["queue"] = s["queue"][1]
      /\ Len(s["queue"]) > 0 /\ Len(s["queue"]) \in Nat
  BY <1>1, LinkedTells
<1>3. PICK e \in 1..Len(s["queue"]) : e = 1
  BY <1>2
<1> DEFINE l == "queue"
           o == h.first[l]
           n == At(s[l], e + 1)
           p == At(s[l], e - 1)
           g == Poll(h)
<1>4. o = s[l][e] /\ o \in Objects /\ o \in A /\ h.next[o] = n /\ p = None
  BY <1>1, <1>2, <1>3, Neighbours
<1>5. h.prev[o] = None /\ (n = None <=> e = Len(s[l]))
  <2>1. h.prev[s[l][e]] = None
    BY <1>1, LinkedFacts
  <2>2. n # None <=> e + 1 \in 1..Len(s[l])
    BY <1>1, Neighbours
  <2>3. e + 1 \in 1..Len(s[l]) <=> e # Len(s[l])
    BY <1>2
  <2> QED BY <1>4, <2>1, <2>2, <2>3
<1>6. /\ g \in Heaps /\ g.size = h.size /\ g.prev = h.prev
      /\ g.last = IF n = None THEN None ELSE h.last
      /\ \A k \in ListNames : g.first[k] = IF k = l THEN n ELSE h.first[k]
      /\ \A x \in Objects :
           /\ g.next[x] = IF x = o THEN None ELSE h.next[x]
           /\ g.mark[x] = IF x = o THEN "NonMarked" ELSE h.mark[x]
  BY <1>1, <1>4, PollFields
<1>7. Tail(s[l]) \in Seq(A) /\ Removed(Tail(s[l]), s[l], e)
  BY <1>1, <1>2, <1>3, TailRemoves
<1>8. [s EXCEPT ![l] = Tail(@)] = [s EXCEPT ![l] = Tail(s[l])]
  BY <1>1
<1> HIDE DEF g
<1>9. TakesOut(g, h, s, l, e)
  BY <1>3, <1>4, <1>5, <1>6, NoneAssumption DEF TakesOut
<1>10. l = "queue" => e = 1
  BY <1>3
<1> HIDE DEF l
<1>11. Linked(g, [s EXCEPT ![l] = Tail(s[l])], A)
  BY <1>1, <1>6, <1>7, <1>9, <1>10, RemovalLinked DEF l
<1> QED BY <1>2, <1>4, <1>6, <1>8, <1>11 DEF g, l

LEMMA EnqueueLinked ==
    ASSUME NEW h, NEW s, NEW A, Linked(h, s, A), NEW o \in A, Outside(s, o)
    PROVE  LET g == Enqueue(h, o) IN
           /\ Linked(g, [s EXCEPT !["queue"] = Append(@, o)], A)
           /\ g.size = h.size /\ g.mark = h.mark
<1> DEFINE q == s["queue"]
           t == Append(q, o)
           u == [s EXCEPT !["queue"] = t]
           g == Enqueue(h, o)
<1>1. /\ h \in Heaps /\ A \in SUBSET Objects /\ s \in [ListNames -> Seq(A)] /\ None \notin A
      /\ "queue" \in ListNames
  BY LinkedFacts
<1>2. \A k \in ListNames :
        /\ Len(s[k]) \in Nat
        /\ \A i \in 1..Len(s[k]) : s[k][i] \in A /\ s[k][i] \in Objects /\ s[k][i] # None
        /\ h.first[k] = IF Len(s[k]) = 0 THEN None ELSE s[k][1]
  BY LinkedFacts
<1>3. \A k \in ListNames : \A i \in 1..Len(s[k]) :
        /\ h.next[s[k][i]] = IF i = Len(s[k]) THEN None ELSE s[k][i + 1]
        /\ h.prev[s[k][i]] = IF k = "queue" \/ i = 1 THEN None ELSE s[k][i - 1]
  BY LinkedFacts
<1>4. \A k, m \in ListNames : \A i \in 1..Len(s[k]), j \in 1..Len(s[m]) :
        s[k][i] = s[m][j] => k = m /\ i = j
  BY LinkedFacts
<1>5. o \in Objects /\ o # None /\ \A k \in ListNames : \A i \in 1..Len(s[k]) : s[k][i] # o
  BY <1>1 DEF Outside
<1>6. h.next[o] = None /\ h.prev[o] = None
  BY DEF Linked, NoLinks
<1>7. h.last = IF Len(q) = 0 THEN None ELSE q[Len(q)]
  BY LinkedFacts
<1>8. t \in Seq(A) /\ Len(t) = Len(q) + 1 /\ t[Len(q) + 1] = o /\ \A i \in 1..Len(q) : t[i] = q[i]
  BY <1>1, AppendedTells DEF Appended
<1>9. u \in [ListNames -> Seq(A)] /\ u["queue"] = t /\ \A k \in ListNames \ {"queue"} : u[k] = s[k]
  BY <1>1, <1>8
<1>10. /\ g \in Heaps /\ g.mark = h.mark /\ g.size = h.size /\ g.prev = h.prev
       /\ g.last = o
       /\ \A k \in ListNames :
            g.first[k] = IF k = "queue" /\ h.last = None THEN o ELSE h.first[k]
       /\ \A x \in Objects : g.next[x] = IF x = h.last THEN o ELSE h.next[x]
  BY <1>1, <1>5, EnqueueFields
<1>11. h.last = None <=> Len(q) = 0
  BY <1>1, <1>2, <1>7
<1>12. ASSUME NEW i \in 1..Len(t) PROVE i \in 1..Len(q) \/ i = Len(q) + 1
  BY <1>1, <1>2, <1>8
<1> HIDE DEF u, g, t, q
<1>13. ASSUME NEW k \in ListNames, NEW i \in 1..Len(u[k])
       PROVE  \/ k = "queue" /\ i = Len(q) + 1 /\ u[k][i] = o
              \/ i \in 1..Len(s[k]) /\ u[k][i] = s[k][i] /\ u[k][i] # o
  <2>1. CASE k # "queue"
    BY <1>5, <1>9, <2>1
  <2>2. CASE k = "queue"
    BY <1>1, <1>5, <1>8, <1>9, <1>12, <2>2 DEF q
  <2> QED BY <2>1, <2>2
<1>14. ASSUME NEW k \in ListNames, NEW m \in ListNames, NEW i \in 1..Len(u[k]), NEW j \in 1..Len(u[m]),
              u[k][i] = u[m][j]
       PROVE  k = m /\ i = j
  <2>1. CASE u[k][i] = o
    <3>1. k = "queue" /\ i = Len(q) + 1
      BY <1>13, <2>1
    <3>2. u[m][j] = o
      BY <1>14, <2>1
    <3>3. m = "queue" /\ j = Len(q) + 1
      BY <1>13, <3>2
    <3> QED BY <3>1, <3>3
  <2>2. CASE u[k][i] # o
    <3>1. i \in 1..Len(s[k]) /\ u[k][i] = s[k][i]
      BY <1>13, <2>2
    <3>2. j \in 1..Len(s[m]) /\ u[m][j] = s[m][j]
      <4>1. u[m][j] # o
        BY <1>14, <2>2
      <4> QED BY <1>13, <4>1
    <3>3. s[k][i] = s[m][j]
      BY <1>14, <3>1, <3>2
    <3> QED BY <1>4, <3>1, <3>2, <3>3
  <2> QED BY <2>1, <2>2
<1>15. ASSUME NEW k \in ListNames
       PROVE  g.first[k] = IF Len(u[k]) = 0 THEN None ELSE u[k][1]
  <2>1. CASE k # "queue"
    BY <1>2, <1>9, <1>10, <2>1
  <2>2. CASE k = "queue" /\ Len(q) = 0
    <3>1. Len(q) + 1 = 1
      BY <2>2
    <3>2. Len(t) = 1 /\ t[1] = o
      BY <1>8, <3>1
    <3>3. Len(u[k]) # 0 /\ u[k][1] = o
      BY <1>9, <2>2, <3>2
    <3> QED BY <1>10, <1>11, <2>2, <3>3
  <2>3. CASE k = "queue" /\ Len(q) # 0
    <3>1. 1 \in 1..Len(q) /\ Len(t) # 0
      BY <1>1, <1>2, <1>8, <2>3 DEF q
    <3> QED BY <1>1, <1>2, <1>8, <1>9, <1>10, <1>11, <2>3, <3>1 DEF q
  <2> QED BY <2>1, <2>2, <2>3
<1>16. ASSUME NEW k \in ListNames, NEW i \in 1..Len(u[k])
       PROVE  /\ g.next[u[k][i]] = IF i = Len(u[k]) THEN None ELSE u[k][i + 1]
              /\ g.prev[u[k][i]] = IF k = "queue" \/ i = 1 THEN None ELSE u[k][i - 1]
  <2>1. Len(q) # 0 => Len(q) \in 1..Len(q) /\ h.last = q[Len(q)]
    BY <1>1, <1>2, <1>7 DEF q
  <2>2. CASE k # "queue"
    <3>1. u[k] = s[k] /\ i \in 1..Len(s[k]) /\ s[k][i] \in Objects /\ s[k][i] # None
      BY <1>2, <1>9, <2>2
    <3>2. s[k][i] # h.last
      BY <1>1, <1>4, <1>11, <2>1, <2>2, <3>1 DEF q
    <3> QED BY <1>3, <1>10, <3>1, <3>2
  <2>3. CASE k = "queue" /\ i = Len(q) + 1
    <3>1. u[k][i] = o /\ i = Len(u[k])
      BY <1>8, <1>9, <2>3
    <3>2. o # h.last
      BY <1>1, <1>5, <1>11, <2>1 DEF q
    <3> QED BY <1>5, <1>6, <1>10, <2>3, <3>1, <3>2
  <2>4. CASE k = "queue" /\ i # Len(q) + 1
    <3>1. /\ i \in 1..Len(q) /\ i # Len(t) /\ u[k][i] = q[i] /\ q[i] \in Objects
          /\ u[k] = t
      BY <1>1, <1>2, <1>8, <1>9, <1>12, <2>4 DEF q
    <3>2. h.next[q[i]] = (IF i = Len(q) THEN None ELSE q[i + 1]) /\ h.prev[q[i]] = None
      BY <1>1, <1>3, <3>1 DEF q
    <3>3. q[i] = h.last <=> i = Len(q)
      BY <1>1, <1>4, <2>1, <3>1 DEF q
    <3>4. IF i = Len(q) THEN t[i + 1] = o ELSE t[i + 1] = q[i + 1]
      <4>1. i # Len(q) => i + 1 \in 1..Len(q)
        BY <1>1, <1>2, <3>1 DEF q
      <4> QED BY <1>8, <4>1
    <3> QED BY <1>10, <2>4, <3>1, <3>2, <3>3, <3>4
  <2> QED BY <2>2, <2>3, <2>4
<1>17. g.last = IF Len(u["queue"]) = 0 THEN None ELSE u["queue"][Len(u["queue"])]
  <2>1. Len(t) # 0 /\ t[Len(t)] = o
    BY <1>1, <1>2, <1>8 DEF q
  <2> QED BY <1>9, <1>10, <2>1
<1>18. NoLinks(g, u, A)
  <2> SUFFICES ASSUME NEW x \in A, Outside(u, x) PROVE g.next[x] = None /\ g.prev[x] = None
    BY DEF NoLinks
  <2>1. x \in Objects /\ x # None
    BY <1>1
  <2>2. ASSUME NEW k \in ListNames, NEW i \in 1..Len(s[k]) PROVE s[k][i] # x
    <3>1. CASE k # "queue"
      BY <1>9, <3>1 DEF Outside
    <3>2. CASE k = "queue"
      <4>1. i \in 1..Len(t) /\ t[i] = s["queue"][i]
        BY <1>1, <1>2, <1>8, <3>2 DEF q
      <4> QED BY <1>1, <1>9, <3>2, <4>1 DEF Outside
    <3> QED BY <3>1, <3>2
  <2>3. x # h.last
    <3>1. Len(q) # 0 => Len(q) \in 1..Len(q)
      BY <1>1, <1>2 DEF q
    <3> QED BY <1>1, <1>7, <2>1, <2>2, <3>1 DEF q
  <2>4. h.next[x] = None /\ h.prev[x] = None
    BY <2>2 DEF Linked, NoLinks, Outside
  <2> QED BY <1>10, <2>1, <2>3, <2>4
<1>19. Linked(g, u, A)
  BY <1>1, <1>9, <1>10, <1>14, <1>15, <1>16, <1>17, <1>18, LinkedNow
<1>20. [s EXCEPT !["queue"] = Append(@, o)] = u
  BY <1>1 DEF u, t, q
<1> QED BY <1>10, <1>19, <1>20 DEF g

-----------------------------------------------------------------------------
(* The inductive invariant, of a memory h, the boxes A, the phase, the traced *)
(* object cur, the cursor, the count n of an iteration, the contents s of the *)
(* lists, and what the iteration over non_root_list has still to visit, r.    *)

In(x, t) == \E i \in 1..Len(t) : t[i] = x

Forgotten(h) == [h EXCEPT !.first["nonRoot"] = None]

(* While non_root_list is freed, only its elements know of each other.        *)
Linkage(h, A, ph, cur, csr, s, r) ==
    IF ph = "freeing"
    THEN /\ Linked(Forgotten(h), [s EXCEPT !["nonRoot"] = <<>>], A \ ToSet(r))
         /\ h \in Heaps /\ A \subseteq Objects /\ s \in [ListNames -> Seq(A)]
         /\ Chain(h, csr, r)
    ELSE Linked(h, s, A)

MarkTells(m, o, ph, cur, s) ==
    /\ m = "PossibleCycles" <=> In(o, s["pc"])
    /\ m = "InList" <=> In(o, s["root"]) \/ In(o, s["nonRoot"])
    /\ m = "InQueue" <=> In(o, s["queue"]) \/ (ph = "counting" /\ o = cur)

MarksTell(mark, A, ph, cur, s) == \A o \in A : MarkTells(mark[o], o, ph, cur, s)

(* r is the end of t. *)
Rest(r, t) ==
    /\ Len(r) <= Len(t)
    /\ \A i \in 1..Len(r) : r[i] = t[Len(t) - Len(r) + i]

(* When which list is used *)
Pace(A, ph, cur, csr, n, s, r) ==
    /\ ph \in Phases
    /\ r \in Seq(A) /\ csr = At(r, 1) /\ Rest(r, s["nonRoot"])
    /\ cur # None => ph \in {"counting", "roots"} /\ cur \in A /\ Outside(s, cur)
    /\ ph \notin {"counting", "roots"} => s["root"] = <<>> /\ s["queue"] = <<>>
    /\ ph \in {"idle", "ended"} => s["nonRoot"] = <<>>
    /\ ph = "ended" => s["pc"] = <<>>
    /\ ph = "freeing" => r = s["nonRoot"]
    /\ ph \notin {"finalizing", "dropping", "freeing"} => r = <<>>
    /\ n = IF ph = "finalizing" THEN Len(s["nonRoot"]) - Len(r) ELSE 0

Shape(h, A, ph, cur, csr, n, s, r) ==
    /\ Linkage(h, A, ph, cur, csr, s, r)
    /\ h.size = Len(s["pc"])
    /\ MarksTell(h.mark, A, ph, cur, s)
    /\ Pace(A, ph, cur, csr, n, s, r)

ListsInv == Shape(mem, alloc, phase, current, cursor, listSize, Contents, Walk(mem, cursor))

-----------------------------------------------------------------------------
(* Who is in a list after it changed *)

LEMMA InFronted ==
    ASSUME NEW A, NEW t0 \in Seq(A), NEW o \in A
    PROVE  /\ <<o>> \o t0 \in Seq(A) /\ Len(<<o>> \o t0) = Len(t0) + 1
           /\ \A x : In(x, <<o>> \o t0) <=> x = o \/ In(x, t0)
<1> DEFINE t == <<o>> \o t0
<1>1. t \in Seq(A) /\ Fronted(t, o, t0) /\ Len(t0) \in Nat
  BY FrontedTells, LenProperties
<1> HIDE DEF t
<1>2. Len(t) = Len(t0) + 1 /\ t[1] = o /\ 1 \in 1..Len(t)
  BY <1>1 DEF Fronted
<1>3. \A i \in 1..Len(t0) : i + 1 \in 1..Len(t) /\ t[i + 1] = t0[i]
  BY <1>1 DEF Fronted
<1>4. ASSUME NEW i \in 1..Len(t), i # 1 PROVE \E j \in 1..Len(t0) : t[i] = t0[j]
  <2>1. i - 1 \in 1..Len(t0) /\ (i - 1) + 1 = i
    BY <1>1, <1>2, <1>4
  <2> QED BY <1>3, <2>1
<1>5. \A x : In(x, t) => x = o \/ In(x, t0)
  BY <1>2, <1>4 DEF In
<1>6. \A x : x = o \/ In(x, t0) => In(x, t)
  BY <1>2, <1>3 DEF In
<1> QED BY <1>1, <1>2, <1>5, <1>6 DEF t

LEMMA InAppended ==
    ASSUME NEW A, NEW t0 \in Seq(A), NEW o \in A
    PROVE  /\ Append(t0, o) \in Seq(A) /\ Len(Append(t0, o)) = Len(t0) + 1
           /\ \A x : In(x, Append(t0, o)) <=> x = o \/ In(x, t0)
<1> DEFINE t == Append(t0, o)
<1>1. t \in Seq(A) /\ Appended(t, t0, o) /\ Len(t0) \in Nat
  BY AppendedTells, LenProperties
<1> HIDE DEF t
<1>2. Len(t) = Len(t0) + 1 /\ t[Len(t0) + 1] = o /\ Len(t0) + 1 \in 1..Len(t)
  BY <1>1 DEF Appended
<1>3. \A i \in 1..Len(t0) : i \in 1..Len(t) /\ t[i] = t0[i]
  BY <1>1 DEF Appended
<1>4. \A i \in 1..Len(t) : i \in 1..Len(t0) \/ i = Len(t0) + 1
  BY <1>1, <1>2
<1>5. \A x : In(x, t) => x = o \/ In(x, t0)
  BY <1>2, <1>3, <1>4 DEF In
<1>6. \A x : x = o \/ In(x, t0) => In(x, t)
  BY <1>2, <1>3 DEF In
<1> QED BY <1>1, <1>2, <1>5, <1>6 DEF t

LEMMA InRemoved ==
    ASSUME NEW A, NEW t0 \in Seq(A), NEW t \in Seq(A), NEW e \in 1..Len(t0), Removed(t, t0, e),
           \A i, j \in 1..Len(t0) : t0[i] = t0[j] => i = j
    PROVE  \A x : In(x, t) <=> x # t0[e] /\ In(x, t0)
<1>1. Len(t0) \in Nat /\ Len(t) = Len(t0) - 1 /\ e \in Nat /\ 1 <= e /\ e <= Len(t0)
  BY LenProperties DEF Removed
<1>2. ASSUME NEW i \in 1..Len(t) PROVE \E j \in 1..Len(t0) : j # e /\ t[i] = t0[j]
  <2>1. t[i] = t0[IF i < e THEN i ELSE i + 1]
    BY <1>1 DEF Removed
  <2>2. CASE i < e
    BY <1>1, <2>1, <2>2
  <2>3. CASE ~(i < e)
    <3>1. i + 1 \in 1..Len(t0) /\ i + 1 # e
      BY <1>1, <2>3
    <3> QED BY <2>1, <2>3, <3>1
  <2> QED BY <2>2, <2>3
<1>3. ASSUME NEW j \in 1..Len(t0), j # e PROVE \E i \in 1..Len(t) : t[i] = t0[j]
  <2>1. CASE j < e
    <3>1. j \in 1..Len(t)
      BY <1>1, <2>1
    <3> QED BY <1>1, <2>1, <3>1 DEF Removed
  <2>2. CASE j > e
    <3>1. j - 1 \in 1..Len(t) /\ ~(j - 1 < e) /\ (j - 1) + 1 = j
      BY <1>1, <2>2
    <3>2. t[j - 1] = t0[IF j - 1 < e THEN j - 1 ELSE (j - 1) + 1]
      BY <1>1, <3>1 DEF Removed
    <3> QED BY <3>1, <3>2
  <2> QED BY <1>1, <1>3, <2>1, <2>2
<1>4. ASSUME NEW x PROVE In(x, t) => x # t0[e] /\ In(x, t0)
  BY <1>2 DEF In
<1>5. ASSUME NEW x PROVE x # t0[e] /\ In(x, t0) => In(x, t)
  BY <1>3 DEF In
<1> QED BY <1>4, <1>5

LEMMA InRemoveAt ==
    ASSUME NEW A, NEW t0 \in Seq(A), NEW e \in 1..Len(t0),
           \A i, j \in 1..Len(t0) : t0[i] = t0[j] => i = j
    PROVE  /\ RemoveAt(t0, e) \in Seq(A) /\ Len(RemoveAt(t0, e)) = Len(t0) - 1
           /\ \A x : In(x, RemoveAt(t0, e)) <=> x # t0[e] /\ In(x, t0)
<1>1. RemoveAt(t0, e) \in Seq(A) /\ Removed(RemoveAt(t0, e), t0, e)
  BY RemovedTells
<1>2. Len(RemoveAt(t0, e)) = Len(t0) - 1
  BY <1>1 DEF Removed
<1> QED BY <1>1, <1>2, InRemoved

LEMMA InTail ==
    ASSUME NEW A, NEW t0 \in Seq(A), 1 \in 1..Len(t0),
           \A i, j \in 1..Len(t0) : t0[i] = t0[j] => i = j
    PROVE  /\ Tail(t0) \in Seq(A) /\ Len(Tail(t0)) = Len(t0) - 1
           /\ \A x : In(x, Tail(t0)) <=> x # t0[1] /\ In(x, t0)
<1>1. Len(t0) > 0 /\ Len(t0) \in Nat
  BY LenProperties
<1>2. Tail(t0) \in Seq(A) /\ Removed(Tail(t0), t0, 1)
  BY <1>1, TailRemoves
<1>3. Len(Tail(t0)) = Len(t0) - 1
  BY <1>2 DEF Removed
<1>4. PICK e \in 1..Len(t0) : e = 1
  OBVIOUS
<1>5. \A x : In(x, Tail(t0)) <=> x # t0[e] /\ In(x, t0)
  BY <1>2, <1>4, InRemoved
<1> QED BY <1>2, <1>3, <1>4, <1>5

LEMMA InEmpty == Len(<<>>) = 0 /\ \A x : ~In(x, <<>>)
<1>1. Len(<<>>) = 0
  BY EmptySeq
<1> QED BY <1>1 DEF In

LEMMA InToSet ==
    ASSUME NEW A, NEW t \in Seq(A)
    PROVE  /\ Len(t) \in Nat /\ ToSet(t) \subseteq A
           /\ \A x : x \in ToSet(t) <=> In(x, t)
           /\ \A x : In(x, t) => x \in A
           /\ (t = <<>>) <=> (Len(t) = 0)
<1>1. Len(t) \in Nat /\ DOMAIN t = 1..Len(t) /\ t \in [1..Len(t) -> A]
  BY LenProperties
<1>2. (t = <<>>) <=> (Len(t) = 0)
  BY EmptySeq
<1>3. \A x : x \in ToSet(t) <=> In(x, t)
  BY <1>1 DEF ToSet, In
<1> QED BY <1>1, <1>2, <1>3 DEF In

LEMMA OutsideIn ==
    ASSUME NEW s, NEW o
    PROVE  Outside(s, o) <=> \A l \in ListNames : ~In(o, s[l])
BY DEF Outside, In

-----------------------------------------------------------------------------
(* Marks, sizes and boxes *)

LEMMA SameLinked ==
    ASSUME NEW h, NEW s, NEW A, Linked(h, s, A),
           NEW g \in Heaps, g.next = h.next, g.prev = h.prev, g.first = h.first, g.last = h.last
    PROVE  Linked(g, s, A)
BY DEF Linked, NextLinks, PrevLinks, NoLinks

LEMMA SetMarkLinked ==
    ASSUME NEW h, NEW s, NEW A, Linked(h, s, A), NEW o \in Objects, NEW m \in Marks
    PROVE  LET g == SetMark(h, o, m) IN
           /\ Linked(g, s, A) /\ g.size = h.size /\ g.first = h.first /\ g.last = h.last
           /\ \A x \in Objects : g.mark[x] = IF x = o THEN m ELSE h.mark[x]
<1> DEFINE g == SetMark(h, o, m)
<1>1. h \in Heaps
  BY DEF Linked
<1>2. /\ g \in Heaps /\ g.next = h.next /\ g.prev = h.prev /\ g.first = h.first
      /\ g.last = h.last /\ g.size = h.size
      /\ \A x \in Objects : g.mark[x] = IF x = o THEN m ELSE h.mark[x]
  BY <1>1 DEF SetMark, Heaps
<1> HIDE DEF g
<1>3. Linked(g, s, A)
  BY <1>2, SameLinked
<1> QED BY <1>2, <1>3 DEF g

LEMMA SizedLinked ==
    ASSUME NEW h, NEW s, NEW A, Linked(h, s, A), NEW n \in Nat
    PROVE  LET g == [h EXCEPT !.size = n] IN
           /\ Linked(g, s, A) /\ g.size = n /\ g.mark = h.mark /\ g.first = h.first
<1> DEFINE g == [h EXCEPT !.size = n]
<1>1. h \in Heaps
  BY DEF Linked
<1>2. /\ g \in Heaps /\ g.next = h.next /\ g.prev = h.prev /\ g.first = h.first
      /\ g.last = h.last /\ g.size = n /\ g.mark = h.mark
  BY <1>1 DEF Heaps
<1> HIDE DEF g
<1>3. Linked(g, s, A)
  BY <1>2, SameLinked
<1> QED BY <1>2, <1>3 DEF g

(* A box in no list goes. *)
LEMMA FewerLinked ==
    ASSUME NEW h, NEW s, NEW A, Linked(h, s, A), NEW B \in SUBSET A,
           \A x \in A \ B : Outside(s, x)
    PROVE  Linked(h, s, B)
<1>1. A \in SUBSET Objects /\ s \in [ListNames -> Seq(A)]
  BY DEF Linked
<1>2. ASSUME NEW l \in ListNames PROVE s[l] \in Seq(B)
  <2>1. s[l] \in Seq(A) /\ Len(s[l]) \in Nat /\ DOMAIN s[l] = 1..Len(s[l])
        /\ s[l] \in [1..Len(s[l]) -> A]
    BY <1>1, LenProperties
  <2>2. \A i \in 1..Len(s[l]) : s[l][i] \in B
    BY <2>1 DEF Outside
  <2>3. s[l] \in [1..Len(s[l]) -> B]
    BY <2>1, <2>2
  <2> QED BY <2>1, <2>3, SeqDef
<1>3. s \in [ListNames -> Seq(B)]
  BY <1>1, <1>2
<1> QED BY <1>1, <1>3 DEF Linked, NoLinks

(* A box comes, in no list. *)
Fresh(h, o) == [h EXCEPT !.next[o] = None, !.prev[o] = None, !.mark[o] = "NonMarked"]

LEMMA NewBoxLinked ==
    ASSUME NEW h, NEW s, NEW A, Linked(h, s, A), NEW o \in Objects \ A
    PROVE  LET g == Fresh(h, o) IN
           /\ Linked(g, s, A \cup {o}) /\ g.size = h.size /\ Outside(s, o)
           /\ \A x \in Objects : g.mark[x] = IF x = o THEN "NonMarked" ELSE h.mark[x]
<1> DEFINE g == Fresh(h, o)
           B == A \cup {o}
<1>1. h \in Heaps /\ A \in SUBSET Objects /\ s \in [ListNames -> Seq(A)]
  BY DEF Linked
<1>2. /\ g \in Heaps /\ g.first = h.first /\ g.last = h.last /\ g.size = h.size
      /\ \A x \in Objects :
           /\ g.next[x] = IF x = o THEN None ELSE h.next[x]
           /\ g.prev[x] = IF x = o THEN None ELSE h.prev[x]
           /\ g.mark[x] = IF x = o THEN "NonMarked" ELSE h.mark[x]
  BY <1>1 DEF Fresh, Heaps, Links, Marks
<1> HIDE DEF g
<1>3. \A l \in ListNames : \A i \in 1..Len(s[l]) : s[l][i] \in Objects /\ s[l][i] # o
  BY <1>1, ListsType
<1>4. s \in [ListNames -> Seq(B)] /\ B \subseteq Objects
  <2>1. \A l \in ListNames : s[l] \in Seq(B)
    BY <1>1, SeqMonotonic
  <2> QED BY <1>1, <2>1
<1>5. NextLinks(g, s) /\ PrevLinks(g, s)
  BY <1>2, <1>3 DEF Linked, NextLinks, PrevLinks
<1>6. NoLinks(g, s, B)
  BY <1>1, <1>2 DEF Linked, NoLinks
<1>7. Linked(g, s, B) /\ Outside(s, o)
  BY <1>2, <1>3, <1>4, <1>5, <1>6 DEF Linked, Outside
<1> QED BY <1>2, <1>7 DEF g

-----------------------------------------------------------------------------
(* The links tell the lists. *)

LEMMA ListChain ==
    ASSUME NEW h, NEW s, NEW A, Linked(h, s, A), NEW l \in ListNames
    PROVE  Chain(h, h.first[l], s[l])
<1>1. s[l] \in Seq(Objects)
  BY ListsType DEF Linked
<1>2. \A i, j \in 1..Len(s[l]) : s[l][i] = s[l][j] => i = j
  BY DEF Linked, Apart
<1> QED BY <1>1, <1>2 DEF Linked, Chain, NextLinks

LEMMA RestChain ==
    ASSUME NEW h, NEW s, NEW A, Linked(h, s, A), NEW r \in Seq(A), Rest(r, s["nonRoot"])
    PROVE  Chain(h, At(r, 1), r)
<1> DEFINE t == s["nonRoot"]
           d == Len(t) - Len(r)
<1>1. "nonRoot" \in ListNames /\ A \in SUBSET Objects /\ s \in [ListNames -> Seq(A)]
  BY DEF Linked, ListNames
<1>2. Len(t) \in Nat /\ \A i, j \in 1..Len(t) : t[i] = t[j] => i = j
  BY <1>1, ListsType DEF Linked, Apart
<1>3. r \in Seq(Objects) /\ Len(r) \in Nat /\ Len(r) <= Len(t)
  BY <1>1, SeqMonotonic, LenProperties DEF Rest
<1>4. \A i \in 1..Len(r) : d + i \in 1..Len(t) /\ r[i] = t[d + i]
  BY <1>2, <1>3 DEF Rest
<1>5. ASSUME NEW i \in 1..Len(r), NEW j \in 1..Len(r), r[i] = r[j] PROVE i = j
  <2>1. t[d + i] = t[d + j]
    BY <1>4, <1>5
  <2>2. d + i = d + j
    BY <1>2, <1>4, <2>1
  <2> QED BY <1>2, <1>3, <2>2
<1>6. ASSUME NEW i \in 1..Len(r) PROVE h.next[r[i]] = At(r, i + 1)
  <2>1. h.next[t[d + i]] = At(t, (d + i) + 1)
    BY <1>1, <1>4 DEF Linked, NextLinks
  <2>2. (d + i) + 1 = d + (i + 1)
    <3>1. d \in Int /\ i \in Int
      BY <1>2, <1>3
    <3> HIDE DEF d
    <3> QED BY <3>1
  <2>3. i + 1 \in 1..Len(r) <=> d + (i + 1) \in 1..Len(t)
    <3>1. d \in Nat /\ i \in Nat /\ i >= 1 /\ Len(t) = d + Len(r)
      BY <1>2, <1>3
    <3> HIDE DEF d, t
    <3>2. i + 1 \in 1..Len(r) <=> i + 1 <= Len(r)
      BY <1>3, <3>1
    <3>3. d + (i + 1) \in 1..Len(t) <=> d + (i + 1) <= Len(t)
      BY <1>2, <3>1
    <3>4. i + 1 <= Len(r) <=> d + (i + 1) <= Len(t)
      BY <1>3, <3>1
    <3> QED BY <3>2, <3>3, <3>4
  <2>4. i + 1 \in 1..Len(r) => r[i + 1] = t[d + (i + 1)]
    BY <1>4
  <2> QED BY <1>4, <2>1, <2>2, <2>3, <2>4 DEF At
<1> QED BY <1>3, <1>5, <1>6 DEF Chain

LEMMA ChainsTell ==
    ASSUME NEW h, NEW A, NEW ph, NEW cur, NEW csr, NEW n, NEW s, NEW r,
           Shape(h, A, ph, cur, csr, n, s, r)
    PROVE  /\ Walk(h, csr) = r
           /\ s = [l \in ListNames |-> IF l = "nonRoot" /\ ph = "freeing"
                                       THEN Walk(h, csr) ELSE Walk(h, h.first[l])]
<1>1. CASE ph # "freeing"
  <2>1. Linked(h, s, A) /\ s \in [ListNames -> Seq(A)]
    BY <1>1 DEF Shape, Linkage, Linked
  <2>2. Chain(h, csr, r)
    BY <2>1, RestChain DEF Shape, Pace
  <2>3. \A l \in ListNames : Walk(h, h.first[l]) = s[l]
    BY <2>1, ListChain, WalkTells
  <2> QED BY <1>1, <2>1, <2>2, <2>3, WalkTells
<1>2. CASE ph = "freeing"
  <2> DEFINE g == Forgotten(h)
             u == [s EXCEPT !["nonRoot"] = <<>>]
  <2>1. /\ Linked(g, u, A \ ToSet(r)) /\ h \in Heaps /\ Chain(h, csr, r)
        /\ s \in [ListNames -> Seq(A)] /\ r = s["nonRoot"]
    BY <1>2 DEF Shape, Linkage, Pace
  <2>2. Walk(h, csr) = r
    BY <2>1, WalkTells
  <2>3. g.next = h.next /\ \A l \in ListNames \ {"nonRoot"} : g.first[l] = h.first[l] /\ u[l] = s[l]
    BY <2>1 DEF Forgotten, Heaps
  <2> HIDE DEF g, u
  <2>4. ASSUME NEW l \in ListNames \ {"nonRoot"} PROVE Walk(h, h.first[l]) = s[l]
    <3>1. Chain(g, g.first[l], u[l])
      BY <2>1, ListChain
    <3>2. Chain(h, h.first[l], s[l])
      BY <2>3, <3>1 DEF Chain
    <3> QED BY <3>2, WalkTells
  <2> QED BY <1>2, <2>1, <2>2, <2>4
<1> QED BY <1>1, <1>2

-----------------------------------------------------------------------------
(* A list is dropped. *)

Taken(g, h, s, l) ==
    /\ g.size = IF l = "pc" THEN Len(s["pc"]) - 1 ELSE h.size
    /\ 1 \in 1..Len(s[l]) /\ h.first[l] = s[l][1]
    /\ \A x \in Objects : g.mark[x] = IF x = s[l][1] THEN "NonMarked" ELSE h.mark[x]

LEMMA TakeFirstLinked ==
    ASSUME NEW h, NEW s, NEW A, Linked(h, s, A), NEW l \in ListNames, h.first[l] # None,
           l = "pc" => h.size = Len(s["pc"])
    PROVE  /\ Linked(TakeFirst(h, l), [s EXCEPT ![l] = Tail(@)], A)
           /\ Taken(TakeFirst(h, l), h, s, l)
<1>1. CASE l = "queue"
  <2>1. TakeFirst(h, l) = Poll(h)
    BY <1>1 DEF TakeFirst
  <2> QED BY <1>1, <2>1, PollLinked DEF Taken
<1>2. CASE l # "queue"
  <2> DEFINE b == ListRemoveFirst(h, l)
  <2>1. /\ Linked(b, [s EXCEPT ![l] = Tail(@)], A) /\ b.size = h.size
        /\ 1 \in 1..Len(s[l]) /\ h.first[l] = s[l][1]
        /\ \A x \in Objects : b.mark[x] = IF x = s[l][1] THEN "NonMarked" ELSE h.mark[x]
    BY <1>2, RemoveFirstLinked
  <2>2. CASE l # "pc"
    <3>1. TakeFirst(h, l) = b
      BY <1>2, <2>2 DEF TakeFirst
    <3> HIDE DEF b
    <3> QED BY <2>1, <2>2, <3>1 DEF Taken
  <2>3. CASE l = "pc"
    <3> DEFINE n == Len(s["pc"]) - 1
    <3>1. TakeFirst(h, l) = [b EXCEPT !.size = @ - 1]
      BY <2>3 DEF TakeFirst, PcRemoveFirst
    <3> HIDE DEF b
    <3>2. b \in Heaps /\ b.size = Len(s["pc"])
      BY <2>1, <2>3 DEF Linked
    <3>3. TakeFirst(h, l) = [b EXCEPT !.size = n]
      BY <3>1, <3>2
    <3>4. n \in Nat
      <4>1. Len(s["pc"]) \in Nat
        BY <2>3, LinkedTells
      <4> QED BY <2>1, <2>3, <4>1
    <3> HIDE DEF n
    <3>5. /\ Linked([b EXCEPT !.size = n], [s EXCEPT ![l] = Tail(@)], A)
          /\ [b EXCEPT !.size = n].size = n /\ [b EXCEPT !.size = n].mark = b.mark
      BY <2>1, <3>4, SizedLinked
    <3> DEFINE g == [b EXCEPT !.size = n]
    <3>6. TakeFirst(h, l) = g
      BY <3>3
    <3>7. /\ Linked(g, [s EXCEPT ![l] = Tail(@)], A) /\ g.size = n
          /\ \A x \in Objects : g.mark[x] = IF x = s[l][1] THEN "NonMarked" ELSE h.mark[x]
      BY <2>1, <3>5
    <3> HIDE DEF g
    <3> QED BY <2>1, <2>3, <3>6, <3>7 DEF n, Taken
  <2> QED BY <2>2, <2>3
<1> QED BY <1>1, <1>2

IsDrop(a, m, h, l) ==
    a = [i \in 0..m |-> IF i = 0 THEN h
                        ELSE IF a[i - 1].first[l] = None THEN a[i - 1]
                        ELSE TakeFirst(a[i - 1], l)]

LEMMA DropExists ==
    ASSUME NEW h, NEW l
    PROVE  \A m \in Nat : \E a : IsDrop(a, m, h, l)
<1> DEFINE S == {m \in Nat : \E a : IsDrop(a, m, h, l)}
<1>1. 0 \in S
  <2>1. IsDrop([i \in 0..0 |-> h], 0, h, l)
    BY DEF IsDrop
  <2> QED BY <2>1
<1>2. ASSUME NEW m \in Nat, m \in S PROVE m + 1 \in S
  <2>1. PICK a : IsDrop(a, m, h, l)
    BY <1>2
  <2> DEFINE z == IF a[m].first[l] = None THEN a[m] ELSE TakeFirst(a[m], l)
             b == [i \in 0..(m + 1) |-> IF i = m + 1 THEN z ELSE a[i]]
  <2>2. \A i \in 0..m : a[i] = IF i = 0 THEN h
                               ELSE IF a[i - 1].first[l] = None THEN a[i - 1]
                               ELSE TakeFirst(a[i - 1], l)
    BY <2>1 DEF IsDrop
  <2>3. b[m + 1] = z /\ \A i \in 0..m : b[i] = a[i]
    BY <1>2
  <2> HIDE DEF z
  <2>4. b = [i \in 0..(m + 1) |-> b[i]]
    OBVIOUS
  <2> HIDE DEF b
  <2>5. ASSUME NEW i \in 0..(m + 1)
        PROVE  b[i] = IF i = 0 THEN h
                      ELSE IF b[i - 1].first[l] = None THEN b[i - 1]
                      ELSE TakeFirst(b[i - 1], l)
    <3>1. CASE i = m + 1
      <4>1. i # 0 /\ i - 1 = m /\ m \in 0..m
        BY <1>2, <3>1
      <4>2. b[i - 1] = a[m]
        BY <2>3, <4>1
      <4> QED BY <2>3, <3>1, <4>1, <4>2 DEF z
    <3>2. CASE i = 0
      <4>1. i \in 0..m
        BY <1>2, <3>2
      <4> QED BY <2>2, <2>3, <3>2, <4>1
    <3>3. CASE i # 0 /\ i # m + 1
      <4>1. i \in 0..m /\ i - 1 \in 0..m
        BY <1>2, <3>3
      <4>2. b[i] = a[i] /\ b[i - 1] = a[i - 1]
        BY <2>3, <4>1
      <4> QED BY <2>2, <3>3, <4>1, <4>2
    <3> QED BY <3>1, <3>2, <3>3
  <2>6. IsDrop(b, m + 1, h, l)
    BY <2>4, <2>5 DEF IsDrop
  <2> QED BY <2>6
<1>3. \A m \in Nat : m \in S
  BY <1>1, <1>2, Induction
<1> QED BY <1>3

(* After some removals the end t of the list is left. *)
Left(b, i, t, h, s, A, l) ==
    /\ Linked(b, [s EXCEPT ![l] = t], A)
    /\ b.size = IF l = "pc" THEN Len(t) ELSE h.size
    /\ Len(t) = 0 \/ Len(t) + i = Len(s[l])
    /\ \A x : In(x, t) => In(x, s[l])
    /\ \A x \in Objects :
         b.mark[x] = IF In(x, s[l]) /\ ~In(x, t) THEN "NonMarked" ELSE h.mark[x]

LEMMA DropListLinked ==
    ASSUME NEW h, NEW s, NEW A, Linked(h, s, A), NEW l \in ListNames,
           l = "pc" => h.size = Len(s["pc"])
    PROVE  LET g == DropList(h, l) IN
           /\ Linked(g, [s EXCEPT ![l] = <<>>], A)
           /\ g.size = IF l = "pc" THEN 0 ELSE h.size
           /\ \A x \in Objects : g.mark[x] = IF In(x, s[l]) THEN "NonMarked" ELSE h.mark[x]
<1> DEFINE a == CHOOSE b : IsDrop(b, Boxes, h, l)
<1>1. DropList(h, l) = a[Boxes]
  BY DEF DropList, IsDrop, Boxes
<1>2. Boxes \in Nat
  BY BoxesType
<1>3. IsDrop(a, Boxes, h, l)
  BY <1>2, DropExists
<1> HIDE DEF a
<1>4. \A i \in 0..Boxes : a[i] = IF i = 0 THEN h
                                 ELSE IF a[i - 1].first[l] = None THEN a[i - 1]
                                 ELSE TakeFirst(a[i - 1], l)
  BY <1>3 DEF IsDrop
<1>5. s \in [ListNames -> Seq(A)] /\ s[l] \in Seq(A) /\ Len(s[l]) \in Nat
  BY ListsType DEF Linked
<1> DEFINE P(i) == i \in 0..Boxes => \E t \in Seq(A) : Left(a[i], i, t, h, s, A, l)
           S == {i \in Nat : P(i)}
<1>6. P(0)
  <2>1. a[0] = h
    BY <1>2, <1>4
  <2>2. [s EXCEPT ![l] = s[l]] = s
    BY <1>5
  <2>3. Left(h, 0, s[l], h, s, A, l)
    <3>1. Linked(h, [s EXCEPT ![l] = s[l]], A)
      BY <2>2
    <3>2. Len(s[l]) + 0 = Len(s[l])
      BY <1>5
    <3> QED BY <3>1, <3>2 DEF Left
  <2> QED BY <1>5, <2>1, <2>3
<1>7. ASSUME NEW i \in Nat, P(i) PROVE P(i + 1)
  <2> SUFFICES ASSUME i + 1 \in 0..Boxes
               PROVE  \E t \in Seq(A) : Left(a[i + 1], i + 1, t, h, s, A, l)
    OBVIOUS
  <2>1. i \in 0..Boxes /\ i + 1 # 0 /\ (i + 1) - 1 = i
    BY <1>2
  <2>2. PICK t \in Seq(A) : Left(a[i], i, t, h, s, A, l)
    BY <1>7, <2>1
  <2> DEFINE b == a[i]
             u == [s EXCEPT ![l] = t]
  <2>3. a[i + 1] = IF b.first[l] = None THEN b ELSE TakeFirst(b, l)
    BY <1>4, <2>1
  <2>4. /\ Linked(b, u, A) /\ u[l] = t
        /\ b.size = IF l = "pc" THEN Len(t) ELSE h.size
        /\ Len(t) = 0 \/ Len(t) + i = Len(s[l])
        /\ \A x : In(x, t) => In(x, s[l])
        /\ \A x \in Objects :
             b.mark[x] = IF In(x, s[l]) /\ ~In(x, t) THEN "NonMarked" ELSE h.mark[x]
    BY <1>5, <2>2 DEF Left
  <2> HIDE DEF b, u
  <2>5. b.first[l] = None <=> Len(t) = 0
    BY <2>4, LinkedTells
  <2>6. CASE Len(t) = 0
    <3>1. a[i + 1] = b
      BY <2>3, <2>5, <2>6
    <3>2. Left(b, i + 1, t, h, s, A, l)
      BY <2>4, <2>6 DEF Left, u
    <3> QED BY <3>1, <3>2
  <2>7. CASE Len(t) # 0
    <3> DEFINE g == TakeFirst(b, l)
               v == Tail(t)
    <3>1. a[i + 1] = g
      BY <2>3, <2>5, <2>7
    <3>2. b.first[l] # None /\ (l = "pc" => b.size = Len(u["pc"]))
      BY <2>4, <2>5, <2>7
    <3>3. /\ Linked(g, [u EXCEPT ![l] = Tail(@)], A)
          /\ g.size = IF l = "pc" THEN Len(u["pc"]) - 1 ELSE b.size
          /\ 1 \in 1..Len(t)
          /\ \A x \in Objects : g.mark[x] = IF x = t[1] THEN "NonMarked" ELSE b.mark[x]
      <4>1. /\ Linked(g, [u EXCEPT ![l] = Tail(@)], A)
            /\ g.size = IF l = "pc" THEN Len(u["pc"]) - 1 ELSE b.size
            /\ 1 \in 1..Len(u[l])
            /\ \A x \in Objects : g.mark[x] = IF x = u[l][1] THEN "NonMarked" ELSE b.mark[x]
        BY <2>4, <3>2, TakeFirstLinked DEF Taken
      <4> QED BY <2>4, <4>1
    <3>4. [u EXCEPT ![l] = Tail(@)] = [s EXCEPT ![l] = v]
      BY <1>5 DEF u
    <3>5. \A j, k \in 1..Len(t) : t[j] = t[k] => j = k
      <4>1. \A j, k \in 1..Len(u[l]) : u[l][j] = u[l][k] => j = k
        BY <2>4 DEF Linked, Apart
      <4> QED BY <2>4, <4>1
    <3>6. v \in Seq(A) /\ Len(v) = Len(t) - 1 /\ \A x : In(x, v) <=> x # t[1] /\ In(x, t)
      BY <3>3, <3>5, InTail
    <3>7. In(t[1], t)
      BY <3>3 DEF In
    <3> HIDE DEF g, v
    <3>8. Len(v) + (i + 1) = Len(s[l])
      <4>1. Len(t) \in Nat
        BY LenProperties
      <4> QED BY <2>4, <2>7, <3>6, <4>1
    <3>9. \A x \in Objects :
             g.mark[x] = IF In(x, s[l]) /\ ~In(x, v) THEN "NonMarked" ELSE h.mark[x]
      BY <2>4, <3>3, <3>6, <3>7
    <3>10. l = "pc" => u["pc"] = t
      BY <2>4
    <3>11. g.size = IF l = "pc" THEN Len(v) ELSE h.size
      BY <2>4, <3>3, <3>6, <3>10
    <3>12. Linked(g, [s EXCEPT ![l] = v], A)
      BY <3>3, <3>4
    <3>13. \A x : In(x, v) => In(x, s[l])
      BY <2>4, <3>6
    <3>14. Left(g, i + 1, v, h, s, A, l)
      BY <3>8, <3>9, <3>11, <3>12, <3>13 DEF Left
    <3> QED BY <3>1, <3>6, <3>14
  <2> QED BY <2>6, <2>7
<1>8. \A i \in Nat : P(i)
  <2> HIDE DEF P
  <2>1. 0 \in S /\ \A i \in Nat : i \in S => i + 1 \in S
    BY <1>6, <1>7
  <2> HIDE DEF S
  <2>2. \A i \in Nat : i \in S
    BY <2>1, Induction
  <2> QED BY <2>2 DEF S
<1>9. PICK t \in Seq(A) : Left(a[Boxes], Boxes, t, h, s, A, l)
  <2>1. P(Boxes) /\ Boxes \in 0..Boxes
    BY <1>2, <1>8
  <2> QED BY <2>1
<1>10. Len(s[l]) <= Boxes
  <2>1. s[l] \in Seq(Objects) /\ \A i, j \in 1..Len(s[l]) : s[l][i] = s[l][j] => i = j
    BY ListsType DEF Linked, Apart
  <2> QED BY <2>1, ShortEnough
<1>11. Len(t) = 0 /\ t = <<>> /\ \A x : ~In(x, t)
  <2>1. Len(t) \in Nat /\ (Len(t) = 0 \/ Len(t) + Boxes = Len(s[l]))
    BY <1>9, LenProperties DEF Left
  <2>2. Len(t) = 0
    BY <1>2, <1>5, <1>10, <2>1
  <2> QED BY <2>2, EmptySeq DEF In
<1> QED BY <1>1, <1>9, <1>11 DEF Left

-----------------------------------------------------------------------------
(* non_root_list goes back to the buffer. *)

LEMMA SwapLinked ==
    ASSUME NEW h, NEW s, NEW A, Linked(h, s, A), NEW n \in Nat
    PROVE  LET g == SwapList(h, n) IN
           /\ Linked(g, [s EXCEPT !["pc"] = s["nonRoot"], !["nonRoot"] = s["pc"]], A)
           /\ g.size = n /\ g.mark = h.mark
<1> DEFINE g == SwapList(h, n)
           v == [s EXCEPT !["pc"] = s["nonRoot"], !["nonRoot"] = s["pc"]]
           Other(k) == IF k = "pc" THEN "nonRoot" ELSE IF k = "nonRoot" THEN "pc" ELSE k
<1>1. /\ h \in Heaps /\ A \in SUBSET Objects /\ s \in [ListNames -> Seq(A)]
      /\ \A k \in ListNames :
           /\ h.first[k] = IF Len(s[k]) = 0 THEN None ELSE s[k][1]
           /\ \A i \in 1..Len(s[k]) :
                /\ h.next[s[k][i]] = IF i = Len(s[k]) THEN None ELSE s[k][i + 1]
                /\ h.prev[s[k][i]] = IF k = "queue" \/ i = 1 THEN None ELSE s[k][i - 1]
      /\ \A k, m \in ListNames : \A i \in 1..Len(s[k]), j \in 1..Len(s[m]) :
           s[k][i] = s[m][j] => k = m /\ i = j
      /\ h.last = IF Len(s["queue"]) = 0 THEN None ELSE s["queue"][Len(s["queue"])]
  BY LinkedFacts
<1>2. "pc" \in ListNames /\ "nonRoot" \in ListNames /\ "queue" \in ListNames
  BY DEF ListNames
<1>3. /\ g \in Heaps /\ g.next = h.next /\ g.prev = h.prev /\ g.last = h.last
      /\ g.size = n /\ g.mark = h.mark
      /\ \A k \in ListNames : g.first[k] = h.first[Other(k)]
  BY <1>1, <1>2 DEF SwapList, Heaps
<1>4. \A k \in ListNames : /\ Other(k) \in ListNames /\ v[k] = s[Other(k)]
                           /\ (Other(k) = "queue") <=> (k = "queue")
  BY <1>1, <1>2
<1>5. \A k, m \in ListNames : Other(k) = Other(m) => k = m
  OBVIOUS
<1>6. v \in [ListNames -> Seq(A)]
  BY <1>1, <1>2
<1>7. v["queue"] = s["queue"]
  BY <1>1, <1>2
<1> HIDE DEF g, v, Other
<1>8. ASSUME NEW k \in ListNames, NEW m \in ListNames, NEW i \in 1..Len(v[k]), NEW j \in 1..Len(v[m]),
             v[k][i] = v[m][j]
      PROVE  k = m /\ i = j
  <2>1. /\ Other(k) \in ListNames /\ i \in 1..Len(s[Other(k)])
        /\ Other(m) \in ListNames /\ j \in 1..Len(s[Other(m)])
        /\ s[Other(k)][i] = s[Other(m)][j]
    BY <1>4, <1>8
  <2>2. Other(k) = Other(m) /\ i = j
    BY <1>1, <2>1
  <2> QED BY <1>5, <2>2
<1>9. ASSUME NEW k \in ListNames
      PROVE  /\ g.first[k] = IF Len(v[k]) = 0 THEN None ELSE v[k][1]
             /\ \A i \in 1..Len(v[k]) :
                  /\ g.next[v[k][i]] = IF i = Len(v[k]) THEN None ELSE v[k][i + 1]
                  /\ g.prev[v[k][i]] = IF k = "queue" \/ i = 1 THEN None ELSE v[k][i - 1]
  BY <1>1, <1>3, <1>4
<1>10. g.last = IF Len(v["queue"]) = 0 THEN None ELSE v["queue"][Len(v["queue"])]
  BY <1>1, <1>3, <1>7
<1>11. NoLinks(g, v, A)
  <2> SUFFICES ASSUME NEW x \in A, Outside(v, x) PROVE g.next[x] = None /\ g.prev[x] = None
    BY DEF NoLinks
  <2>1. ASSUME NEW k \in ListNames PROVE \E m \in ListNames : s[k] = v[m]
    <3>1. Other(k) \in ListNames /\ Other(Other(k)) = k
      BY <1>4 DEF Other
    <3> QED BY <1>4, <3>1
  <2>2. Outside(s, x)
    BY <2>1 DEF Outside
  <2>3. h.next[x] = None /\ h.prev[x] = None
    BY <2>2 DEF Linked, NoLinks
  <2> QED BY <1>3, <2>3
<1>12. Linked(g, v, A)
  BY <1>1, <1>3, <1>6, <1>8, <1>9, <1>10, <1>11, LinkedNow
<1> QED BY <1>3, <1>12 DEF g, v

(* What joining two lists means for an index *)
LEMMA JoinTells ==
    ASSUME NEW A, NEW p \in Seq(A), NEW b \in Seq(A)
    PROVE  /\ p \o b \in Seq(A) /\ Len(p \o b) = Len(p) + Len(b) /\ Len(p) \in Nat /\ Len(b) \in Nat
           /\ \A i \in 1..Len(p) : i \in 1..Len(p \o b) /\ (p \o b)[i] = p[i]
           /\ \A i \in 1..Len(b) : Len(p) + i \in 1..Len(p \o b) /\ (p \o b)[Len(p) + i] = b[i]
           /\ \A i \in 1..Len(p \o b) : i \in 1..Len(p) \/ \E j \in 1..Len(b) : i = Len(p) + j
           /\ \A x : In(x, p \o b) <=> In(x, p) \/ In(x, b)
<1> DEFINE t == p \o b
<1>1. Len(p) \in Nat /\ Len(b) \in Nat
  BY LenProperties
<1>2. /\ t \in Seq(A) /\ Len(t) = Len(p) + Len(b)
      /\ \A i \in 1..(Len(p) + Len(b)) : t[i] = IF i <= Len(p) THEN p[i] ELSE b[i - Len(p)]
  BY ConcatProperties
<1> HIDE DEF t
<1>3. \A i \in 1..Len(p) : i \in 1..Len(t) /\ t[i] = p[i]
  BY <1>1, <1>2
<1>4. ASSUME NEW i \in 1..Len(b) PROVE Len(p) + i \in 1..Len(t) /\ t[Len(p) + i] = b[i]
  <2>1. Len(p) + i \in 1..(Len(p) + Len(b)) /\ ~(Len(p) + i <= Len(p)) /\ (Len(p) + i) - Len(p) = i
    BY <1>1
  <2> QED BY <1>2, <2>1
<1>5. ASSUME NEW i \in 1..Len(t) PROVE i \in 1..Len(p) \/ \E j \in 1..Len(b) : i = Len(p) + j
  <2>1. CASE i <= Len(p)
    BY <1>1, <1>2, <2>1
  <2>2. CASE ~(i <= Len(p))
    <3>1. i - Len(p) \in 1..Len(b) /\ i = Len(p) + (i - Len(p))
      BY <1>1, <1>2, <2>2
    <3> QED BY <3>1
  <2> QED BY <2>1, <2>2
<1>6. ASSUME NEW x PROVE In(x, t) => In(x, p) \/ In(x, b)
  <2> SUFFICES ASSUME NEW i \in 1..Len(t), t[i] = x PROVE In(x, p) \/ In(x, b)
    BY DEF In
  <2>1. CASE i \in 1..Len(p)
    BY <1>3, <2>1 DEF In
  <2>2. ASSUME NEW j \in 1..Len(b), i = Len(p) + j PROVE In(x, b)
    BY <1>4, <2>2 DEF In
  <2> QED BY <1>5, <2>1, <2>2
<1>7. ASSUME NEW x PROVE In(x, p) \/ In(x, b) => In(x, t)
  BY <1>3, <1>4 DEF In
<1> QED BY <1>1, <1>2, <1>3, <1>4, <1>5, <1>6, <1>7 DEF t

(* The fields of the memory in which two lists are joined *)
LEMMA JoinFields ==
    ASSUME NEW h, NEW s, NEW A, Linked(h, s, A), NEW m \in Marks, NEW n \in Nat
    PROVE  LET g == MarkSelfAndAppend(h, m, n)
               own == s["pc"]
               f == h.first["nonRoot"]
               e == At(own, Len(own)) IN
           /\ g \in Heaps /\ g.size = h.size + n /\ g.last = h.last
           /\ \A x \in Objects : g.mark[x] = IF In(x, own) THEN m ELSE h.mark[x]
           /\ \A k \in ListNames :
                g.first[k] = IF k = "nonRoot" THEN None
                             ELSE IF k = "pc" /\ Len(own) = 0 THEN f ELSE h.first[k]
           /\ \A x \in Objects :
                /\ g.next[x] = IF f # None /\ x = e THEN f ELSE h.next[x]
                /\ g.prev[x] = IF Len(own) # 0 /\ x = f THEN e ELSE h.prev[x]
<1> DEFINE own == s["pc"]
           f == h.first["nonRoot"]
           e == At(own, Len(own))
           marked == [h EXCEPT !.mark = [x \in Objects |-> IF x \in ToSet(own) THEN m ELSE @[x]]]
           appended == IF own = <<>> THEN [marked EXCEPT !.first["pc"] = f]
                       ELSE IF f = None THEN marked
                       ELSE [marked EXCEPT !.next[own[Len(own)]] = f, !.prev[f] = own[Len(own)]]
           g == MarkSelfAndAppend(h, m, n)
<1>1. h \in Heaps /\ "pc" \in ListNames /\ "nonRoot" \in ListNames
      /\ s \in [ListNames -> Seq(A)] /\ A \in SUBSET Objects
  BY DEF Linked, ListNames
<1>2. Content(h, "pc") = own
  BY <1>1, ListChain, WalkTells DEF Content
<1>3. g = [appended EXCEPT !.size = @ + n, !.first["nonRoot"] = None]
  <2> DEFINE New(q) ==
        LET c == [h EXCEPT !.mark = [x \in Objects |-> IF x \in ToSet(q) THEN m ELSE @[x]]]
            d == IF q = <<>> THEN [c EXCEPT !.first["pc"] = h.first["nonRoot"]]
                 ELSE IF h.first["nonRoot"] = None THEN c
                 ELSE [c EXCEPT !.next[q[Len(q)]] = h.first["nonRoot"],
                                !.prev[h.first["nonRoot"]] = q[Len(q)]]
        IN  [d EXCEPT !.size = @ + n, !.first["nonRoot"] = None]
  <2>1. g = New(Content(h, "pc"))
    BY Zenon DEF MarkSelfAndAppend
  <2>2. New(Content(h, "pc")) = New(own)
    <3> HIDE DEF New, own
    <3> QED BY <1>2
  <2> QED BY <2>1, <2>2, Zenon
<1>4. /\ Len(own) \in Nat
      /\ \A i \in 1..Len(own) : own[i] \in Objects /\ own[i] # None
      /\ (own = <<>>) <=> (Len(own) = 0)
      /\ \A x : x \in ToSet(own) <=> In(x, own)
  BY <1>1, LinkedTells, InToSet
<1>5. /\ f \in Objects \/ f = None
      /\ Len(own) # 0 => e \in Objects /\ e = own[Len(own)]
      /\ Len(own) = 0 => e = None
  BY <1>1, <1>4 DEF Heaps, Links, At
<1>6. /\ marked \in Heaps /\ marked.next = h.next /\ marked.prev = h.prev
      /\ marked.first = h.first /\ marked.last = h.last /\ marked.size = h.size
      /\ \A x \in Objects : marked.mark[x] = IF In(x, own) THEN m ELSE h.mark[x]
  BY <1>1, <1>4 DEF Heaps
<1> HIDE DEF marked, own, f, e
<1>7. /\ appended \in Heaps /\ appended.size = h.size /\ appended.last = h.last
      /\ appended.mark = marked.mark
      /\ \A k \in ListNames : appended.first[k] = IF k = "pc" /\ Len(own) = 0 THEN f ELSE h.first[k]
      /\ \A x \in Objects :
           /\ appended.next[x] = IF f # None /\ x = e THEN f ELSE h.next[x]
           /\ appended.prev[x] = IF Len(own) # 0 /\ x = f THEN e ELSE h.prev[x]
  <2>1. CASE Len(own) = 0
    BY <1>1, <1>4, <1>5, <1>6, <2>1, NoneAssumption DEF Heaps, Links
  <2>2. CASE Len(own) # 0 /\ f = None
    BY <1>1, <1>4, <1>5, <1>6, <2>2, NoneAssumption DEF Heaps, Links
  <2>3. CASE Len(own) # 0 /\ f # None
    <3>1. appended = [marked EXCEPT !.next[e] = f, !.prev[f] = e]
      BY <1>4, <1>5, <2>3
    <3> HIDE DEF appended
    <3> QED BY <1>1, <1>5, <1>6, <2>3, <3>1 DEF Heaps, Links
  <2> QED BY <2>1, <2>2, <2>3
<1> HIDE DEF appended, g
<1>8. /\ g \in Heaps /\ g.size = h.size + n /\ g.last = h.last /\ g.mark = appended.mark
      /\ g.next = appended.next /\ g.prev = appended.prev
      /\ \A k \in ListNames : g.first[k] = IF k = "nonRoot" THEN None ELSE appended.first[k]
  <2> DEFINE z == h.size + n
  <2>1. z \in Nat
    BY <1>1 DEF Heaps
  <2>2. g = [appended EXCEPT !.size = z, !.first["nonRoot"] = None]
    BY <1>3, <1>7
  <2> HIDE DEF z
  <2>3. /\ g \in Heaps /\ g.size = z /\ g.last = appended.last /\ g.mark = appended.mark
        /\ g.next = appended.next /\ g.prev = appended.prev
        /\ \A k \in ListNames : g.first[k] = IF k = "nonRoot" THEN None ELSE appended.first[k]
    BY <1>1, <1>7, <2>1, <2>2 DEF Heaps, Links
  <2> QED BY <1>7, <2>3 DEF z
<1> QED BY <1>6, <1>7, <1>8 DEF g, own, f, e

(* The list without root is appended to the buffer. *)
Merged(s) == [s EXCEPT !["pc"] = @ \o s["nonRoot"], !["nonRoot"] = <<>>]

LEMMA JoinLinked ==
    ASSUME NEW h, NEW s, NEW A, Linked(h, s, A), NEW m \in Marks, NEW n \in Nat
    PROVE  LET g == MarkSelfAndAppend(h, m, n) IN
           /\ Linked(g, Merged(s), A)
           /\ g.size = h.size + n
           /\ \A x \in Objects : g.mark[x] = IF In(x, s["pc"]) THEN m ELSE h.mark[x]
<1> DEFINE g == MarkSelfAndAppend(h, m, n)
           own == s["pc"]
           b == s["nonRoot"]
           t == own \o b
           u == [s EXCEPT !["pc"] = t, !["nonRoot"] = <<>>]
           f == h.first["nonRoot"]
           e == At(own, Len(own))
<1>1. /\ h \in Heaps /\ A \in SUBSET Objects /\ s \in [ListNames -> Seq(A)] /\ None \notin A
      /\ \A k \in ListNames :
           /\ Len(s[k]) \in Nat
           /\ \A i \in 1..Len(s[k]) : s[k][i] \in A /\ s[k][i] \in Objects /\ s[k][i] # None
           /\ h.first[k] = IF Len(s[k]) = 0 THEN None ELSE s[k][1]
      /\ h.last = IF Len(s["queue"]) = 0 THEN None ELSE s["queue"][Len(s["queue"])]
  BY LinkedFacts
<1>2. \A k \in ListNames : \A i \in 1..Len(s[k]) :
        /\ h.next[s[k][i]] = IF i = Len(s[k]) THEN None ELSE s[k][i + 1]
        /\ h.prev[s[k][i]] = IF k = "queue" \/ i = 1 THEN None ELSE s[k][i - 1]
  BY LinkedFacts
<1>3. \A k, j \in ListNames : \A i \in 1..Len(s[k]), i2 \in 1..Len(s[j]) :
        s[k][i] = s[j][i2] => k = j /\ i = i2
  BY LinkedFacts
<1>4. /\ "pc" \in ListNames /\ "nonRoot" \in ListNames /\ "queue" \in ListNames
      /\ own \in Seq(A) /\ b \in Seq(A)
  BY <1>1 DEF ListNames
<1>5. /\ g \in Heaps /\ g.size = h.size + n /\ g.last = h.last
      /\ \A x \in Objects : g.mark[x] = IF In(x, own) THEN m ELSE h.mark[x]
      /\ \A k \in ListNames :
           g.first[k] = IF k = "nonRoot" THEN None
                        ELSE IF k = "pc" /\ Len(own) = 0 THEN f ELSE h.first[k]
      /\ \A x \in Objects :
           /\ g.next[x] = IF f # None /\ x = e THEN f ELSE h.next[x]
           /\ g.prev[x] = IF Len(own) # 0 /\ x = f THEN e ELSE h.prev[x]
  BY JoinFields
<1>6. /\ t \in Seq(A) /\ Len(t) = Len(own) + Len(b) /\ Len(own) \in Nat /\ Len(b) \in Nat
      /\ \A i \in 1..Len(own) : i \in 1..Len(t) /\ t[i] = own[i]
      /\ \A i \in 1..Len(b) : Len(own) + i \in 1..Len(t) /\ t[Len(own) + i] = b[i]
      /\ \A i \in 1..Len(t) : i \in 1..Len(own) \/ \E j \in 1..Len(b) : i = Len(own) + j
  <2> HIDE DEF own, b
  <2> QED BY <1>4, JoinTells
<1>7. /\ u \in [ListNames -> Seq(A)] /\ u["pc"] = t /\ u["nonRoot"] = <<>>
      /\ u["queue"] = s["queue"]
      /\ \A k \in ListNames \ {"pc", "nonRoot"} : u[k] = s[k]
  <2>1. <<>> \in Seq(A)
    BY EmptySeq
  <2> QED BY <1>1, <1>4, <1>6, <2>1
<1>8. /\ f = IF Len(b) = 0 THEN None ELSE b[1]
      /\ Len(b) # 0 => 1 \in 1..Len(b) /\ f # None
      /\ Len(own) # 0 => Len(own) \in 1..Len(own) /\ e = own[Len(own)]
      /\ Len(own) = 0 => e = None
  BY <1>1, <1>4, <1>6 DEF At
<1>9. Len(<<>>) = 0
  BY EmptySeq
<1>10. /\ \A i \in 1..Len(own) : own[i] \in Objects /\ own[i] # None
       /\ \A i \in 1..Len(b) : b[i] \in Objects /\ b[i] # None
  BY <1>1, <1>4
<1>11. /\ \A i \in 1..Len(own) : /\ h.next[own[i]] = IF i = Len(own) THEN None ELSE own[i + 1]
                                 /\ h.prev[own[i]] = IF i = 1 THEN None ELSE own[i - 1]
       /\ \A i \in 1..Len(b) : /\ h.next[b[i]] = IF i = Len(b) THEN None ELSE b[i + 1]
                               /\ h.prev[b[i]] = IF i = 1 THEN None ELSE b[i - 1]
  BY <1>2, <1>4
<1>12. /\ \A i, j \in 1..Len(own) : own[i] = own[j] => i = j
       /\ \A i, j \in 1..Len(b) : b[i] = b[j] => i = j
       /\ \A i \in 1..Len(own), j \in 1..Len(b) : own[i] # b[j]
  BY <1>3, <1>4
<1> HIDE DEF g, own, b, t, u, f, e
<1>13. ASSUME NEW k \in ListNames, NEW i \in 1..Len(u[k])
       PROVE  \E j \in ListNames : \E i0 \in 1..Len(s[j]) :
                /\ u[k][i] = s[j][i0]
                /\ \/ k = "pc" /\ j = "nonRoot" /\ i = Len(own) + i0
                   \/ k = "pc" /\ j = "pc" /\ i = i0 /\ i <= Len(own)
                   \/ k \notin {"pc", "nonRoot"} /\ j = k /\ i = i0
  <2>1. CASE k = "pc"
    <3>1. u[k] = t /\ i \in 1..Len(t)
      BY <1>7, <2>1
    <3>2. CASE i \in 1..Len(own)
      <4>1. u[k][i] = s["pc"][i] /\ i \in 1..Len(s["pc"])
        BY <1>6, <3>1, <3>2 DEF own
      <4>2. i <= Len(own)
        BY <1>6, <3>2
      <4> QED BY <1>4, <2>1, <4>1, <4>2
    <3>3. ASSUME NEW j \in 1..Len(b), i = Len(own) + j
          PROVE  u[k][i] = s["nonRoot"][j] /\ j \in 1..Len(s["nonRoot"])
      BY <1>6, <3>1, <3>3 DEF b
    <3> QED BY <1>4, <1>6, <2>1, <3>1, <3>2, <3>3 DEF b
  <2>2. CASE k = "nonRoot"
    BY <1>7, <1>9, <2>2
  <2>3. CASE k \notin {"pc", "nonRoot"}
    BY <1>7, <2>3
  <2> QED BY <2>1, <2>2, <2>3
<1>14. ASSUME NEW k \in ListNames, NEW k2 \in ListNames, NEW i \in 1..Len(u[k]), NEW i2 \in 1..Len(u[k2]),
              u[k][i] = u[k2][i2]
       PROVE  k = k2 /\ i = i2
  <2>1. PICK j \in ListNames : \E i0 \in 1..Len(s[j]) :
                /\ u[k][i] = s[j][i0]
                /\ \/ k = "pc" /\ j = "nonRoot" /\ i = Len(own) + i0
                   \/ k = "pc" /\ j = "pc" /\ i = i0 /\ i <= Len(own)
                   \/ k \notin {"pc", "nonRoot"} /\ j = k /\ i = i0
    BY <1>13
  <2>10. PICK i0 \in 1..Len(s[j]) :
                /\ u[k][i] = s[j][i0]
                /\ \/ k = "pc" /\ j = "nonRoot" /\ i = Len(own) + i0
                   \/ k = "pc" /\ j = "pc" /\ i = i0 /\ i <= Len(own)
                   \/ k \notin {"pc", "nonRoot"} /\ j = k /\ i = i0
    BY <2>1
  <2>2. PICK j2 \in ListNames : \E i3 \in 1..Len(s[j2]) :
                /\ u[k2][i2] = s[j2][i3]
                /\ \/ k2 = "pc" /\ j2 = "nonRoot" /\ i2 = Len(own) + i3
                   \/ k2 = "pc" /\ j2 = "pc" /\ i2 = i3 /\ i2 <= Len(own)
                   \/ k2 \notin {"pc", "nonRoot"} /\ j2 = k2 /\ i2 = i3
    BY <1>13
  <2>20. PICK i3 \in 1..Len(s[j2]) :
                /\ u[k2][i2] = s[j2][i3]
                /\ \/ k2 = "pc" /\ j2 = "nonRoot" /\ i2 = Len(own) + i3
                   \/ k2 = "pc" /\ j2 = "pc" /\ i2 = i3 /\ i2 <= Len(own)
                   \/ k2 \notin {"pc", "nonRoot"} /\ j2 = k2 /\ i2 = i3
    BY <2>2
  <2>3. s[j][i0] = s[j2][i3]
    BY <1>14, <2>10, <2>20
  <2>4. j = j2 /\ i0 = i3
    BY <1>3, <2>3
  <2> QED BY <2>10, <2>20, <2>4
<1>15. ASSUME NEW k \in ListNames
       PROVE  g.first[k] = IF Len(u[k]) = 0 THEN None ELSE u[k][1]
  <2>1. CASE k = "pc" /\ Len(own) = 0
    <3>1. Len(b) # 0 => t[1] = b[1]
      <4>1. Len(own) + 1 = 1
        BY <2>1
      <4> QED BY <1>6, <1>8, <4>1
    <3>2. Len(t) = Len(b)
      BY <1>6, <2>1
    <3> QED BY <1>5, <1>7, <1>8, <2>1, <3>1, <3>2
  <2>2. CASE k = "pc" /\ Len(own) # 0
    <3>1. 1 \in 1..Len(own) /\ Len(t) # 0
      BY <1>6, <2>2
    <3>2. h.first[k] = own[1]
      BY <1>1, <2>2 DEF own
    <3> QED BY <1>5, <1>6, <1>7, <2>2, <3>1, <3>2
  <2>3. CASE k = "nonRoot"
    BY <1>5, <1>7, <1>9, <2>3
  <2>4. CASE k \notin {"pc", "nonRoot"}
    BY <1>1, <1>5, <1>7, <2>4
  <2> QED BY <2>1, <2>2, <2>3, <2>4
<1>16. ASSUME NEW i \in 1..Len(t)
       PROVE  /\ g.next[t[i]] = IF i = Len(t) THEN None ELSE t[i + 1]
              /\ g.prev[t[i]] = IF i = 1 THEN None ELSE t[i - 1]
  <2>1. CASE i \in 1..Len(own)
    <3>1. t[i] = own[i] /\ own[i] \in Objects /\ own[i] # None /\ own[i] # f /\ Len(own) # 0
      BY <1>6, <1>8, <1>10, <1>12, <2>1
    <3>2. own[i] = e <=> i = Len(own)
      BY <1>8, <1>12, <2>1, <3>1
    <3>3. i # Len(own) => t[i + 1] = own[i + 1] /\ i # Len(t)
      BY <1>6, <2>1
    <3>4. i # 1 => t[i - 1] = own[i - 1]
      <4>1. i # 1 => i - 1 \in 1..Len(own)
        BY <1>6, <2>1
      <4> QED BY <1>6, <4>1
    <3>5. i = Len(own) => (i = Len(t) <=> Len(b) = 0) /\ (Len(b) # 0 => t[i + 1] = b[1])
      BY <1>6, <1>8
    <3> QED BY <1>5, <1>8, <1>11, <2>1, <3>1, <3>2, <3>3, <3>4, <3>5
  <2>2. ASSUME NEW j \in 1..Len(b), i = Len(own) + j
        PROVE  /\ g.next[t[i]] = IF i = Len(t) THEN None ELSE t[i + 1]
               /\ g.prev[t[i]] = IF i = 1 THEN None ELSE t[i - 1]
    <3>1. t[i] = b[j] /\ b[j] \in Objects /\ b[j] # None /\ b[j] # e /\ j \in Nat /\ f = b[1] /\ Len(b) # 0
      BY <1>6, <1>8, <1>10, <1>12, <2>2
    <3>2. b[j] = f <=> j = 1
      BY <1>8, <1>12, <3>1
    <3>3. /\ i = Len(t) <=> j = Len(b)
          /\ j # Len(b) => t[i + 1] = b[j + 1]
      <4>1. i + 1 = Len(own) + (j + 1) /\ (j # Len(b) => j + 1 \in 1..Len(b))
        BY <1>6, <2>2
      <4>2. i = Len(t) <=> j = Len(b)
        <5>1. Len(t) = Len(own) + Len(b) /\ Len(own) \in Nat /\ Len(b) \in Nat /\ j \in Nat
          BY <1>6
        <5> QED BY <2>2, <5>1
      <4> QED BY <1>6, <4>1, <4>2
    <3>4. j # 1 => i # 1 /\ t[i - 1] = b[j - 1]
      <4>1. j # 1 => i # 1 /\ i - 1 = Len(own) + (j - 1) /\ j - 1 \in 1..Len(b)
        BY <1>6, <2>2
      <4> QED BY <1>6, <4>1
    <3>5. j = 1 => (i = 1 <=> Len(own) = 0) /\ (Len(own) # 0 => t[i - 1] = e)
      <4>1. j = 1 => i - 1 = Len(own) /\ (i = 1 <=> Len(own) = 0)
        BY <1>6, <2>2
      <4> QED BY <1>6, <1>8, <4>1
    <3>6. h.next[b[j]] = IF j = Len(b) THEN None ELSE b[j + 1]
      BY <1>11
    <3>7. h.prev[b[j]] = IF j = 1 THEN None ELSE b[j - 1]
      BY <1>11
    <3>8. g.next[t[i]] = h.next[b[j]]
      BY <1>5, <3>1
    <3>9. g.prev[t[i]] = IF Len(own) # 0 /\ j = 1 THEN e ELSE h.prev[b[j]]
      BY <1>5, <3>1, <3>2
    <3>10. g.next[t[i]] = IF i = Len(t) THEN None ELSE t[i + 1]
      BY <3>3, <3>6, <3>8
    <3>11. g.prev[t[i]] = IF i = 1 THEN None ELSE t[i - 1]
      BY <3>4, <3>5, <3>7, <3>9
    <3> QED BY <3>10, <3>11
  <2> QED BY <1>6, <2>1, <2>2
<1>17. ASSUME NEW k \in ListNames, NEW i \in 1..Len(u[k])
       PROVE  /\ g.next[u[k][i]] = IF i = Len(u[k]) THEN None ELSE u[k][i + 1]
              /\ g.prev[u[k][i]] = IF k = "queue" \/ i = 1 THEN None ELSE u[k][i - 1]
  <2>1. CASE k = "pc"
    BY <1>7, <1>16, <2>1
  <2>2. CASE k = "nonRoot"
    BY <1>7, <1>9, <2>2
  <2>3. CASE k \notin {"pc", "nonRoot"}
    <3>1. u[k] = s[k] /\ i \in 1..Len(s[k]) /\ s[k][i] \in Objects /\ s[k][i] # None
      BY <1>1, <1>7, <2>3
    <3>2. s[k][i] # e
      <4>1. Len(own) # 0 => s[k][i] # own[Len(own)]
        BY <1>3, <1>4, <1>8, <2>3, <3>1 DEF own
      <4> QED BY <1>6, <1>8, <3>1, <4>1
    <3>3. s[k][i] # f
      <4>1. Len(b) # 0 => s[k][i] # b[1]
        BY <1>3, <1>4, <1>8, <2>3, <3>1 DEF b
      <4> QED BY <1>8, <3>1, <4>1
    <3> QED BY <1>2, <1>5, <3>1, <3>2, <3>3
  <2> QED BY <2>1, <2>2, <2>3
<1>18. g.last = IF Len(u["queue"]) = 0 THEN None ELSE u["queue"][Len(u["queue"])]
  BY <1>1, <1>5, <1>7
<1>19. NoLinks(g, u, A)
  <2> SUFFICES ASSUME NEW x \in A, Outside(u, x) PROVE g.next[x] = None /\ g.prev[x] = None
    BY DEF NoLinks
  <2>1. x \in Objects /\ x # None
    BY <1>1
  <2>2. /\ \A i \in 1..Len(own) : own[i] # x
        /\ \A i \in 1..Len(b) : b[i] # x
    <3>1. \A i \in 1..Len(t) : t[i] # x
      BY <1>4, <1>7 DEF Outside
    <3> QED BY <1>6, <3>1
  <2>3. ASSUME NEW k \in ListNames, NEW i \in 1..Len(s[k]) PROVE s[k][i] # x
    <3>1. CASE k = "pc"
      BY <2>2, <3>1 DEF own
    <3>2. CASE k = "nonRoot"
      BY <2>2, <3>2 DEF b
    <3>3. CASE k \notin {"pc", "nonRoot"}
      BY <1>7, <3>3 DEF Outside
    <3> QED BY <3>1, <3>2, <3>3
  <2>4. x # e /\ x # f
    BY <1>6, <1>8, <2>1, <2>2
  <2>5. h.next[x] = None /\ h.prev[x] = None
    BY <2>3 DEF Linked, NoLinks, Outside
  <2> QED BY <1>5, <2>1, <2>4, <2>5
<1>20. Linked(g, u, A)
  BY <1>1, <1>5, <1>7, <1>14, <1>15, <1>17, <1>18, <1>19, LinkedNow
<1>21. Merged(s) = u
  BY <1>1 DEF Merged, u, t, own, b
<1> QED BY <1>5, <1>20, <1>21 DEF g, own

-----------------------------------------------------------------------------
(* What the operations do to the lists, in terms of who is in which *)

Typed(s, A) == s \in [ListNames -> Seq(A)] /\ \A k \in ListNames : Len(s[k]) \in Nat

LEMMA LinkedMembers ==
    ASSUME NEW h, NEW s, NEW A, Linked(h, s, A)
    PROVE  /\ h \in Heaps /\ A \in SUBSET Objects /\ None \notin A /\ Typed(s, A)
           /\ {"pc", "root", "nonRoot", "queue"} = ListNames
           /\ \A k \in ListNames : \A x : In(x, s[k]) => x \in A
           /\ \A k, m \in ListNames : \A x : In(x, s[k]) /\ In(x, s[m]) => k = m
           /\ \A k \in ListNames : /\ \A i, j \in 1..Len(s[k]) : s[k][i] = s[k][j] => i = j
                                   /\ \A i \in 1..Len(s[k]) : In(s[k][i], s[k])
                                   /\ (s[k] = <<>>) <=> (h.first[k] = None)
                                   /\ (s[k] = <<>>) <=> (Len(s[k]) = 0)
                                   /\ h.first[k] = At(s[k], 1)
<1>1. h \in Heaps /\ A \in SUBSET Objects /\ s \in [ListNames -> Seq(A)] /\ None \notin A
  BY NoneAssumption DEF Linked
<1>2. \A k \in ListNames : /\ Len(s[k]) \in Nat
                           /\ \A i \in 1..Len(s[k]) : s[k][i] \in A
                           /\ h.first[k] = None <=> Len(s[k]) = 0
  BY LinkedTells
<1>3. \A k \in ListNames : (s[k] = <<>>) <=> (Len(s[k]) = 0)
  BY <1>1, EmptySeq
<1>4. \A k \in ListNames : \A x : In(x, s[k]) => x \in A
  BY <1>2 DEF In
<1>5. ASSUME NEW k \in ListNames, NEW m \in ListNames, NEW x, In(x, s[k]), In(x, s[m]) PROVE k = m
  BY <1>5 DEF Linked, Apart, In
<1>6. \A k \in ListNames : /\ \A i, j \in 1..Len(s[k]) : s[k][i] = s[k][j] => i = j
                           /\ h.first[k] = At(s[k], 1)
  BY DEF Linked, Apart
<1>7. \A k \in ListNames : \A i \in 1..Len(s[k]) : In(s[k][i], s[k])
  BY DEF In
<1>8. {"pc", "root", "nonRoot", "queue"} = ListNames
  BY DEF ListNames
<1> QED BY <1>1, <1>2, <1>3, <1>4, <1>5, <1>6, <1>7, <1>8 DEF Typed

(* No object is in two lists, nor twice in one. *)
LEMMA LinkedApart ==
    ASSUME NEW h, NEW s, NEW A, Linked(h, s, A)
    PROVE  /\ \A k \in ListNames : \A x : In(x, s[k]) => x \in A
           /\ \A k, m \in ListNames : \A x : In(x, s[k]) /\ In(x, s[m]) => k = m
           /\ \A k \in ListNames : \A i, j \in 1..Len(s[k]) : s[k][i] = s[k][j] => i = j
<1>1. \A k \in ListNames : \A x : In(x, s[k]) => x \in A
  BY LinkedMembers
<1>2. \A k, m \in ListNames : \A x : In(x, s[k]) /\ In(x, s[m]) => k = m
  BY LinkedMembers
<1>3. \A k \in ListNames : \A i, j \in 1..Len(s[k]) : s[k][i] = s[k][j] => i = j
  BY LinkedMembers
<1> QED BY <1>1, <1>2, <1>3

(* The lists after an operation *)
Ahead(s, l, o) == [s EXCEPT ![l] = <<o>> \o @]
Out(s, l, e) == [s EXCEPT ![l] = RemoveAt(@, e)]
Behind(s, l) == [s EXCEPT ![l] = Tail(@)]
Queued(s, o) == [s EXCEPT !["queue"] = Append(@, o)]
Emptied(s, l) == [s EXCEPT ![l] = <<>>]

Longer(t, t0) == Len(t) = Len(t0) + 1
Shorter(t, t0) == Len(t) = Len(t0) - 1

(* An element came to a list, or went from its list. *)
Gained(u, s, l, o) ==
    /\ \A k \in ListNames : k # l => u[k] = s[k]
    /\ \A k \in ListNames : \A x : In(x, u[k]) <=> In(x, s[k]) \/ (k = l /\ x = o)

Lost(u, s, l, o) ==
    /\ \A k \in ListNames : k # l => u[k] = s[k]
    /\ \A k \in ListNames : \A x : In(x, u[k]) <=> In(x, s[k]) /\ x # o

Cleared(u, s, l) ==
    /\ u[l] = <<>> /\ \A k \in ListNames : k # l => u[k] = s[k]
    /\ \A k \in ListNames : \A x : In(x, u[k]) <=> In(x, s[k]) /\ k # l

(* The elements of t are marked m. *)
Marked(g, h, t, m) == \A x \in Objects : g.mark[x] = IF In(x, t) THEN m ELSE h.mark[x]

LEMMA FrontEffect ==
    ASSUME NEW h, NEW s, NEW A, Linked(h, s, A),
           NEW l \in ListNames \ {"queue"}, NEW o \in A, Outside(s, o)
    PROVE  LET g == AddFirst(h, l, o)
               u == Ahead(s, l, o) IN
           /\ Linked(g, u, A) /\ g.mark = h.mark /\ g.size = h.size
           /\ Longer(u[l], s[l]) /\ Gained(u, s, l, o)
<1> DEFINE g == AddFirst(h, l, o)
           t == <<o>> \o s[l]
           u == [s EXCEPT ![l] = t]
<1>1. s \in [ListNames -> Seq(A)] /\ h \in Heaps /\ A \in SUBSET Objects /\ h.next[o] = None
  BY DEF Linked, NoLinks
<1>2. t \in Seq(A) /\ Fronted(t, o, s[l])
  BY <1>1, FrontedTells
<1>3. Len(t) = Len(s[l]) + 1 /\ \A x : In(x, t) <=> x = o \/ In(x, s[l])
  BY <1>1, InFronted
<1>4. g.mark = h.mark /\ g.size = h.size
  BY <1>1, AddFirstFields
<1>5. Ahead(s, l, o) = u
  BY <1>1 DEF Ahead
<1> HIDE DEF t
<1>6. Linked(g, u, A)
  BY <1>2, AddFirstLinked
<1>7. u[l] = t /\ \A k \in ListNames : k # l => u[k] = s[k]
  BY <1>1
<1> HIDE DEF u, g
<1> QED BY <1>3, <1>4, <1>5, <1>6, <1>7 DEF g, Longer, Gained

LEMMA UnlinkEffect ==
    ASSUME NEW h, NEW s, NEW A, Linked(h, s, A),
           NEW l \in ListNames \ {"queue"}, NEW e \in 1..Len(s[l]), NEW o, o = s[l][e]
    PROVE  LET g == Unlink(h, l, o)
               u == Out(s, l, e) IN
           /\ Linked(g, u, A) /\ g.mark = h.mark /\ g.size = h.size /\ o \in A
           /\ Outside(u, o)
           /\ Shorter(u[l], s[l]) /\ Lost(u, s, l, o)
<1> DEFINE g == Unlink(h, l, o)
           t == RemoveAt(s[l], e)
           u == [s EXCEPT ![l] = t]
<1>1. /\ s \in [ListNames -> Seq(A)] /\ h \in Heaps /\ A \in SUBSET Objects
      /\ \A i, j \in 1..Len(s[l]) : s[l][i] = s[l][j] => i = j
      /\ \A k, m \in ListNames : \A x : In(x, s[k]) /\ In(x, s[m]) => k = m
      /\ In(o, s[l]) /\ o \in A
  <2>1. /\ h \in Heaps /\ A \in SUBSET Objects /\ Typed(s, A)
        /\ \A k \in ListNames : \A x : In(x, s[k]) => x \in A
        /\ \A k, m \in ListNames : \A x : In(x, s[k]) /\ In(x, s[m]) => k = m
        /\ \A k \in ListNames : /\ \A i, j \in 1..Len(s[k]) : s[k][i] = s[k][j] => i = j
                                /\ \A i \in 1..Len(s[k]) : In(s[k][i], s[k])
    BY LinkedMembers
  <2>2. In(o, s[l])
    BY <2>1
  <2> QED BY <2>1, <2>2 DEF Typed
<1>2. Len(t) = Len(s[l]) - 1 /\ \A x : In(x, t) <=> x # o /\ In(x, s[l])
  BY <1>1, InRemoveAt
<1>3. g.mark = h.mark /\ g.size = h.size
  BY <1>1, UnlinkFields
<1>4. [s EXCEPT ![l] = RemoveAt(@, e)] = u /\ Out(s, l, e) = u
  BY <1>1 DEF Out
<1>5. Linked(g, u, A)
  BY <1>4, UnlinkLinked
<1> HIDE DEF t
<1>6. u[l] = t /\ \A k \in ListNames : k # l => u[k] = s[k]
  BY <1>1
<1> HIDE DEF u, g
<1>7. \A k \in ListNames : \A x : In(x, u[k]) <=> In(x, s[k]) /\ x # o
  BY <1>1, <1>2, <1>6
<1>8. Outside(u, o)
  BY <1>7, OutsideIn
<1> QED BY <1>1, <1>2, <1>3, <1>4, <1>5, <1>6, <1>7, <1>8 DEF g, Shorter, Lost

LEMMA TakeEffect ==
    ASSUME NEW h, NEW s, NEW A, Linked(h, s, A), NEW l \in ListNames, h.first[l] # None,
           l = "pc" => h.size = Len(s["pc"])
    PROVE  LET g == TakeFirst(h, l)
               u == Behind(s, l)
               o == h.first[l] IN
           /\ Linked(g, u, A) /\ o \in A /\ In(o, s[l]) /\ Outside(u, o)
           /\ g.size = IF l = "pc" THEN Len(u["pc"]) ELSE h.size
           /\ \A x \in Objects : g.mark[x] = IF x = o THEN "NonMarked" ELSE h.mark[x]
           /\ Lost(u, s, l, o)
<1> DEFINE o == h.first[l]
           g == TakeFirst(h, l)
           t == Tail(s[l])
           u == [s EXCEPT ![l] = t]
<1>1. /\ s \in [ListNames -> Seq(A)] /\ h \in Heaps /\ A \in SUBSET Objects
      /\ \A i, j \in 1..Len(s[l]) : s[l][i] = s[l][j] => i = j
      /\ \A k, m \in ListNames : \A x : In(x, s[k]) /\ In(x, s[m]) => k = m
      /\ \A i \in 1..Len(s[l]) : In(s[l][i], s[l]) /\ s[l][i] \in A
  <2>1. /\ h \in Heaps /\ A \in SUBSET Objects /\ Typed(s, A)
        /\ \A k \in ListNames : \A x : In(x, s[k]) => x \in A
        /\ \A k, m \in ListNames : \A x : In(x, s[k]) /\ In(x, s[m]) => k = m
        /\ \A k \in ListNames : /\ \A i, j \in 1..Len(s[k]) : s[k][i] = s[k][j] => i = j
                                /\ \A i \in 1..Len(s[k]) : In(s[k][i], s[k])
    BY LinkedMembers
  <2>2. \A i \in 1..Len(s[l]) : In(s[l][i], s[l])
    BY <2>1
  <2> QED BY <2>1, <2>2 DEF Typed
<1>2. [s EXCEPT ![l] = Tail(@)] = u /\ Behind(s, l) = u
  BY <1>1 DEF Behind
<1>3. /\ Linked(g, u, A)
      /\ g.size = IF l = "pc" THEN Len(s["pc"]) - 1 ELSE h.size
      /\ 1 \in 1..Len(s[l]) /\ o = s[l][1]
      /\ \A x \in Objects : g.mark[x] = IF x = o THEN "NonMarked" ELSE h.mark[x]
  <2>1. Linked(g, [s EXCEPT ![l] = Tail(@)], A)
    BY TakeFirstLinked
  <2>2. Taken(g, h, s, l)
    BY TakeFirstLinked
  <2> HIDE DEF g, u
  <2> QED BY <1>2, <2>1, <2>2 DEF Taken
<1>4. Len(t) = Len(s[l]) - 1 /\ \A x : In(x, t) <=> x # o /\ In(x, s[l])
  BY <1>1, <1>3, InTail
<1> HIDE DEF t
<1>5. u[l] = t /\ \A k \in ListNames : k # l => u[k] = s[k]
  BY <1>1
<1>6. In(o, s[l]) /\ o \in A
  BY <1>1, <1>3
<1> HIDE DEF u, g, o
<1>7. \A k \in ListNames : \A x : In(x, u[k]) <=> In(x, s[k]) /\ x # o
  BY <1>1, <1>4, <1>5, <1>6
<1>8. Outside(u, o)
  BY <1>7, OutsideIn
<1>9. g.size = IF l = "pc" THEN Len(u["pc"]) ELSE h.size
  BY <1>3, <1>4, <1>5
<1> QED BY <1>2, <1>3, <1>5, <1>6, <1>7, <1>8, <1>9 DEF g, o, Lost

LEMMA QueueEffect ==
    ASSUME NEW h, NEW s, NEW A, Linked(h, s, A), NEW o \in A, Outside(s, o)
    PROVE  LET g == Enqueue(h, o)
               u == Queued(s, o) IN
           /\ Linked(g, u, A) /\ g.mark = h.mark /\ g.size = h.size
           /\ Gained(u, s, "queue", o)
<1> DEFINE g == Enqueue(h, o)
           t == Append(s["queue"], o)
           u == [s EXCEPT !["queue"] = t]
<1>1. s \in [ListNames -> Seq(A)] /\ "queue" \in ListNames
  BY DEF Linked, ListNames
<1>2. \A x : In(x, t) <=> x = o \/ In(x, s["queue"])
  BY <1>1, InAppended
<1>3. [s EXCEPT !["queue"] = Append(@, o)] = u /\ Queued(s, o) = u
  BY <1>1 DEF Queued
<1>4. Linked(g, u, A) /\ g.mark = h.mark /\ g.size = h.size
  BY <1>3, EnqueueLinked
<1> HIDE DEF t
<1>5. u["queue"] = t /\ \A k \in ListNames : k # "queue" => u[k] = s[k]
  BY <1>1
<1> HIDE DEF u, g
<1> QED BY <1>2, <1>3, <1>4, <1>5 DEF g, Gained

LEMMA DropEffect ==
    ASSUME NEW h, NEW s, NEW A, Linked(h, s, A), NEW l \in ListNames,
           l = "pc" => h.size = Len(s["pc"])
    PROVE  LET g == DropList(h, l)
               u == Emptied(s, l) IN
           /\ Linked(g, u, A) /\ g.size = IF l = "pc" THEN 0 ELSE h.size
           /\ Marked(g, h, s[l], "NonMarked") /\ Cleared(u, s, l)
<1> DEFINE g == DropList(h, l)
           u == Emptied(s, l)
<1>1. s \in [ListNames -> Seq(A)]
  BY DEF Linked
<1>2. u[l] = <<>> /\ \A k \in ListNames : k # l => u[k] = s[k]
  BY <1>1 DEF Emptied
<1>3. /\ Linked(g, u, A) /\ g.size = IF l = "pc" THEN 0 ELSE h.size
      /\ \A x \in Objects : g.mark[x] = IF In(x, s[l]) THEN "NonMarked" ELSE h.mark[x]
  BY DropListLinked DEF Emptied
<1> HIDE DEF u, g
<1>4. \A k \in ListNames : \A x : In(x, u[k]) <=> In(x, s[k]) /\ k # l
  BY <1>2, InEmpty
<1> QED BY <1>2, <1>3, <1>4 DEF g, u, Marked, Cleared

-----------------------------------------------------------------------------
(* Every step keeps the invariant.  One lemma for each action says what the   *)
(* lists and the rest of the iteration are after it.                          *)

Now(s, r) == Shape(mem, alloc, phase, current, cursor, listSize, s, r)
Then(s, r) == Shape(mem', alloc', phase', current', cursor', listSize', s, r)

LEMMA NowFacts ==
    ASSUME NEW s, NEW r, Now(s, r), phase # "freeing"
    PROVE  /\ Linked(mem, s, alloc) /\ mem.size = Len(s["pc"]) /\ mem \in Heaps
           /\ alloc \in SUBSET Objects /\ None \notin alloc /\ Typed(s, alloc)
           /\ MarksTell(mem.mark, alloc, phase, current, s)
           /\ Pace(alloc, phase, current, cursor, listSize, s, r)
           /\ {"pc", "root", "nonRoot", "queue"} = ListNames
           /\ \A k \in ListNames : \A x : In(x, s[k]) => x \in alloc
           /\ \A k, m \in ListNames : \A x : In(x, s[k]) /\ In(x, s[m]) => k = m
           /\ \A k \in ListNames : /\ (s[k] = <<>>) <=> (mem.first[k] = None)
                                   /\ mem.first[k] = At(s[k], 1)
<1>1. Linked(mem, s, alloc)
  BY DEF Now, Shape, Linkage
<1>2. /\ mem \in Heaps /\ alloc \in SUBSET Objects /\ None \notin alloc /\ Typed(s, alloc)
      /\ {"pc", "root", "nonRoot", "queue"} = ListNames
  BY <1>1, LinkedMembers
<1>3. /\ \A k \in ListNames : \A x : In(x, s[k]) => x \in alloc
      /\ \A k, m \in ListNames : \A x : In(x, s[k]) /\ In(x, s[m]) => k = m
  BY <1>1, LinkedApart
<1>4. \A k \in ListNames : /\ (s[k] = <<>>) <=> (mem.first[k] = None)
                           /\ mem.first[k] = At(s[k], 1)
  BY <1>1, LinkedMembers
<1>5. /\ mem.size = Len(s["pc"]) /\ MarksTell(mem.mark, alloc, phase, current, s)
      /\ Pace(alloc, phase, current, cursor, listSize, s, r)
  BY DEF Now, Shape
<1> QED BY <1>1, <1>2, <1>3, <1>4, <1>5

(* An object whose mark names no list, and that is not traced, is in none.    *)
LEMMA NonMarkedOutside ==
    ASSUME NEW s, NEW r, Now(s, r), phase # "freeing", NEW o \in alloc, mem.mark[o] = "NonMarked"
    PROVE  Outside(s, o) /\ (phase = "counting" => o # current)
<1>1. ~In(o, s["pc"]) /\ ~In(o, s["root"]) /\ ~In(o, s["nonRoot"]) /\ ~In(o, s["queue"])
      /\ (phase = "counting" => o # current)
  BY NowFacts DEF MarksTell, MarkTells
<1> QED BY <1>1, NowFacts, OutsideIn

LEMMA SameNonRoot ==
    ASSUME NEW A, NEW ph, NEW cur, NEW csr, NEW n, NEW s, NEW r, NEW u, NEW c,
           Pace(A, ph, cur, csr, n, s, r), u["nonRoot"] = s["nonRoot"],
           c # None => ph \in {"counting", "roots"} /\ c \in A /\ Outside(u, c),
           ph \notin {"counting", "roots"} => u["root"] = <<>> /\ u["queue"] = <<>>,
           ph = "ended" => u["pc"] = <<>>
    PROVE  Pace(A, ph, c, csr, n, u, r)
BY DEF Pace

LEMMA NewBoxKeeps ==
    ASSUME NEW s, NEW r, Now(s, r), NEW o \in Objects, NewBox(o)
    PROVE  Then(s, r)
<1>1. /\ phase \in {"idle", "finalizing", "dropping", "ended"} /\ o \notin alloc
      /\ alloc' = alloc \cup {o}
      /\ mem' = [mem EXCEPT !.next[o] = None, !.prev[o] = None, !.mark[o] = "NonMarked"]
      /\ UNCHANGED <<phase, current, cursor, listSize>>
  BY DEF NewBox, UserRuns
<1>2. /\ Linked(mem, s, alloc) /\ mem.size = Len(s["pc"]) /\ alloc \in SUBSET Objects
      /\ MarksTell(mem.mark, alloc, phase, current, s)
      /\ Pace(alloc, phase, current, cursor, listSize, s, r)
      /\ {"pc", "root", "nonRoot", "queue"} = ListNames
  BY <1>1, NowFacts
<1>3. /\ Linked(mem', s, alloc') /\ mem'.size = mem.size /\ Outside(s, o)
      /\ \A x \in Objects : mem'.mark[x] = IF x = o THEN "NonMarked" ELSE mem.mark[x]
  <2>1. o \in Objects \ alloc
    BY <1>1
  <2> DEFINE g == Fresh(mem, o)
  <2>2. /\ Linked(g, s, alloc \cup {o}) /\ g.size = mem.size /\ Outside(s, o)
        /\ \A x \in Objects : g.mark[x] = IF x = o THEN "NonMarked" ELSE mem.mark[x]
    <3>1. Linked(mem, s, alloc)
      BY <1>2
    <3> QED BY <3>1, <2>1, NewBoxLinked
  <2> HIDE DEF g
  <2>3. mem' = g
    BY <1>1 DEF g, Fresh
  <2> QED BY <1>1, <2>2, <2>3
<1>4. \A k \in ListNames : ~In(o, s[k])
  BY <1>3, OutsideIn
<1>5. MarksTell(mem'.mark, alloc', phase', current', s)
  <2> SUFFICES ASSUME NEW x \in alloc'
               PROVE  /\ mem'.mark[x] = "PossibleCycles" <=> In(x, s["pc"])
                      /\ mem'.mark[x] = "InList" <=> In(x, s["root"]) \/ In(x, s["nonRoot"])
                      /\ mem'.mark[x] = "InQueue" <=> In(x, s["queue"]) \/ (phase' = "counting" /\ x = current')
    BY DEF MarksTell, MarkTells
  <2>1. CASE x = o
    BY <1>1, <1>2, <1>3, <1>4, <2>1
  <2>2. CASE x # o
    BY <1>1, <1>2, <1>3, <2>2 DEF MarksTell, MarkTells
  <2> QED BY <2>1, <2>2
<1>6. Pace(alloc', phase', current', cursor', listSize', s, r)
  <2>1. r \in Seq(alloc')
    BY <1>1, <1>2, SeqMonotonic DEF Pace
  <2> QED BY <1>1, <1>2, <2>1 DEF Pace
<1> QED BY <1>1, <1>2, <1>3, <1>5, <1>6 DEF Then, Shape, Linkage

Bigger(g) == [g EXCEPT !.size = @ + 1]
Smaller(g) == [g EXCEPT !.size = @ - 1]

LEMMA LongerSize ==
    ASSUME NEW g, NEW u, NEW A, Linked(g, u, A), NEW t0, g.size = Len(t0), Longer(u["pc"], t0)
    PROVE  LET b == Bigger(g) IN
           Linked(b, u, A) /\ b.size = Len(u["pc"]) /\ b.mark = g.mark
<1> DEFINE n == Len(u["pc"])
           b == [g EXCEPT !.size = n]
<1>1. Bigger(g) = b /\ n \in Nat
  BY DEF Linked, Heaps, Longer, Bigger
<1> HIDE DEF n
<1>2. Linked(b, u, A) /\ b.size = n /\ b.mark = g.mark
  BY <1>1, SizedLinked
<1> QED BY <1>1, <1>2 DEF n

LEMMA ShorterSize ==
    ASSUME NEW g, NEW u, NEW A, Linked(g, u, A), NEW t0, g.size = Len(t0), Shorter(u["pc"], t0)
    PROVE  LET b == Smaller(g) IN
           Linked(b, u, A) /\ b.size = Len(u["pc"]) /\ b.mark = g.mark
<1> DEFINE n == Len(u["pc"])
           b == [g EXCEPT !.size = n]
<1>1. Smaller(g) = b
  BY DEF Linked, Heaps, Shorter, Smaller
<1>2. n \in Nat
  BY LinkedMembers DEF Typed
<1> HIDE DEF n
<1>3. Linked(b, u, A) /\ b.size = n /\ b.mark = g.mark
  BY <1>2, SizedLinked
<1> QED BY <1>1, <1>3 DEF n

LEMMA AddToListKeeps ==
    ASSUME NEW s, NEW r, Now(s, r), NEW o \in Objects, AddToList(o)
    PROVE  /\ Then(Ahead(s, "pc", o), r)
           /\ o \in alloc /\ Outside(s, o)
<1> DEFINE u == Ahead(s, "pc", o)
           g == AddFirst(mem, "pc", o)
           b == Bigger(g)
<1>1. /\ phase \in {"idle", "finalizing", "dropping"} /\ o \in alloc /\ mem.mark[o] = "NonMarked"
      /\ mem' = SetMark(PcAdd(mem, o), o, "PossibleCycles")
      /\ UNCHANGED <<alloc, phase, current, cursor, listSize>>
  BY DEF AddToList, UserRuns
<1>2. /\ Linked(mem, s, alloc) /\ mem.size = Len(s["pc"]) /\ alloc \in SUBSET Objects
      /\ MarksTell(mem.mark, alloc, phase, current, s)
      /\ Pace(alloc, phase, current, cursor, listSize, s, r)
      /\ {"pc", "root", "nonRoot", "queue"} = ListNames
  BY <1>1, NowFacts
<1>3. Outside(s, o)
  BY <1>1, NonMarkedOutside
<1>4. /\ Linked(g, u, alloc) /\ g.mark = mem.mark /\ g.size = mem.size
      /\ Longer(u["pc"], s["pc"]) /\ Gained(u, s, "pc", o)
  <2>1. "pc" \in ListNames \ {"queue"} /\ o \in alloc /\ Linked(mem, s, alloc)
    BY <1>1, <1>2
  <2> QED BY <1>3, <2>1, FrontEffect
<1>5. PcAdd(mem, o) = b
  BY DEF PcAdd, Bigger
<1> HIDE DEF g, u
<1>6. Linked(b, u, alloc) /\ b.size = Len(u["pc"]) /\ b.mark = mem.mark
  BY <1>2, <1>4, LongerSize
<1> HIDE DEF b
<1>7. /\ Linked(mem', u, alloc) /\ mem'.size = Len(u["pc"])
      /\ \A x \in Objects : mem'.mark[x] = IF x = o THEN "PossibleCycles" ELSE mem.mark[x]
  <2>1. "PossibleCycles" \in Marks /\ mem' = SetMark(b, o, "PossibleCycles")
    BY <1>1, <1>5 DEF Marks
  <2> QED BY <1>6, <2>1, SetMarkLinked
<1>8. MarksTell(mem'.mark, alloc', phase', current', u)
  <2> SUFFICES ASSUME NEW x \in alloc
               PROVE  /\ mem'.mark[x] = "PossibleCycles" <=> In(x, u["pc"])
                      /\ mem'.mark[x] = "InList" <=> In(x, u["root"]) \/ In(x, u["nonRoot"])
                      /\ mem'.mark[x] = "InQueue" <=> In(x, u["queue"]) \/ (phase = "counting" /\ x = current)
    BY <1>1 DEF MarksTell, MarkTells
  <2>1. /\ mem.mark[x] = "PossibleCycles" <=> In(x, s["pc"])
        /\ mem.mark[x] = "InList" <=> In(x, s["root"]) \/ In(x, s["nonRoot"])
        /\ mem.mark[x] = "InQueue" <=> In(x, s["queue"]) \/ (phase = "counting" /\ x = current)
    BY <1>2 DEF MarksTell, MarkTells
  <2>2. x = o => ~In(x, s["root"]) /\ ~In(x, s["nonRoot"]) /\ ~In(x, s["queue"])
    BY <1>2, <1>3, OutsideIn
  <2> QED BY <1>1, <1>2, <1>4, <1>7, <2>1, <2>2 DEF Gained
<1>9. Pace(alloc', phase', current', cursor', listSize', u, r)
  <2>1. u["nonRoot"] = s["nonRoot"] /\ u["root"] = s["root"] /\ u["queue"] = s["queue"]
    BY <1>2, <1>4 DEF Gained
  <2>2. current = None /\ s["root"] = <<>> /\ s["queue"] = <<>> /\ phase # "ended"
    BY <1>1, <1>2 DEF Pace
  <2> QED BY <1>1, <1>2, <2>1, <2>2, SameNonRoot
<1>10. Then(u, r)
  BY <1>1, <1>7, <1>8, <1>9 DEF Then, Shape, Linkage
<1> QED BY <1>1, <1>3, <1>10 DEF u

LEMMA RemoveFromListKeeps ==
    ASSUME NEW s, NEW r, Now(s, r), NEW o \in Objects, RemoveFromList(o)
    PROVE  \E e \in 1..Len(s["pc"]) : Then(Out(s, "pc", e), r)
<1>1. /\ phase \in {"idle", "finalizing", "dropping", "ended"} /\ o \in alloc
      /\ mem.mark[o] = "PossibleCycles"
      /\ mem' = PcRemove(SetMark(mem, o, "NonMarked"), o)
      /\ UNCHANGED <<alloc, phase, current, cursor, listSize>>
  BY DEF RemoveFromList, UserRuns
<1>2. /\ Linked(mem, s, alloc) /\ mem.size = Len(s["pc"]) /\ alloc \in SUBSET Objects
      /\ MarksTell(mem.mark, alloc, phase, current, s)
      /\ Pace(alloc, phase, current, cursor, listSize, s, r)
      /\ {"pc", "root", "nonRoot", "queue"} = ListNames
      /\ \A k, m \in ListNames : \A x : In(x, s[k]) /\ In(x, s[m]) => k = m
  BY <1>1, NowFacts
<1>3. In(o, s["pc"])
  BY <1>1, <1>2 DEF MarksTell, MarkTells
<1>4. PICK e \in 1..Len(s["pc"]) : s["pc"][e] = o
  BY <1>3 DEF In
<1> DEFINE u == Out(s, "pc", e)
           h == SetMark(mem, o, "NonMarked")
           g == Unlink(h, "pc", o)
           b == Smaller(g)
<1>5. /\ Linked(h, s, alloc) /\ h.size = mem.size
      /\ \A x \in Objects : h.mark[x] = IF x = o THEN "NonMarked" ELSE mem.mark[x]
  <2>1. Linked(mem, s, alloc) /\ "NonMarked" \in Marks
    BY <1>2 DEF Marks
  <2> QED BY <2>1, SetMarkLinked
<1>6. mem' = b
  BY <1>1 DEF PcRemove, Smaller
<1> HIDE DEF h
<1>7. /\ Linked(g, u, alloc) /\ g.mark = h.mark /\ g.size = h.size /\ Shorter(u["pc"], s["pc"])
      /\ Lost(u, s, "pc", o)
  <2>1. "pc" \in ListNames \ {"queue"} /\ Linked(h, s, alloc)
    BY <1>2, <1>5
  <2>2. e \in 1..Len(s["pc"]) /\ o = s["pc"][e]
    BY <1>4
  <2> QED BY <2>1, <2>2, UnlinkEffect
<1> HIDE DEF g, u
<1>8. Linked(b, u, alloc) /\ b.size = Len(u["pc"]) /\ b.mark = h.mark
  <2>1. Linked(g, u, alloc) /\ g.size = Len(s["pc"]) /\ g.mark = h.mark
    BY <1>2, <1>5, <1>7
  <2> QED BY <1>7, <2>1, ShorterSize
<1> HIDE DEF b
<1>9. MarksTell(mem'.mark, alloc', phase', current', u)
  <2> SUFFICES ASSUME NEW x \in alloc
               PROVE  /\ mem'.mark[x] = "PossibleCycles" <=> In(x, u["pc"])
                      /\ mem'.mark[x] = "InList" <=> In(x, u["root"]) \/ In(x, u["nonRoot"])
                      /\ mem'.mark[x] = "InQueue" <=> In(x, u["queue"]) \/ (phase = "counting" /\ x = current)
    BY <1>1 DEF MarksTell, MarkTells
  <2>1. /\ mem.mark[x] = "PossibleCycles" <=> In(x, s["pc"])
        /\ mem.mark[x] = "InList" <=> In(x, s["root"]) \/ In(x, s["nonRoot"])
        /\ mem.mark[x] = "InQueue" <=> In(x, s["queue"]) \/ (phase = "counting" /\ x = current)
    BY <1>2 DEF MarksTell, MarkTells
  <2>2. phase # "counting" /\ x \in Objects
    BY <1>1, <1>2
  <2>3. mem'.mark[x] = IF x = o THEN "NonMarked" ELSE mem.mark[x]
    BY <1>5, <1>6, <1>8, <2>2
  <2>4. "pc" \in ListNames /\ "root" \in ListNames /\ "nonRoot" \in ListNames /\ "queue" \in ListNames
    BY <1>2
  <2> QED BY <1>7, <2>1, <2>2, <2>3, <2>4 DEF Lost
<1>10. Pace(alloc', phase', current', cursor', listSize', u, r)
  <2>1. u["nonRoot"] = s["nonRoot"] /\ u["root"] = s["root"] /\ u["queue"] = s["queue"]
    BY <1>2, <1>7 DEF Lost
  <2>2. current = None /\ s["root"] = <<>> /\ s["queue"] = <<>>
    BY <1>1, <1>2 DEF Pace
  <2>3. phase # "ended"
    <3>1. Len(s["pc"]) # 0
      BY <1>4
    <3> QED BY <1>2, <3>1, EmptySeq DEF Pace
  <2> QED BY <1>1, <1>2, <2>1, <2>2, <2>3, SameNonRoot
<1>11. Then(u, r)
  BY <1>1, <1>6, <1>8, <1>9, <1>10 DEF Then, Shape, Linkage
<1> QED BY <1>4, <1>11 DEF u

LEMMA RestType ==
    ASSUME NEW A, NEW B, NEW r \in Seq(A), NEW t \in Seq(B), Rest(r, t)
    PROVE  r \in Seq(B)
<1>1. /\ Len(r) \in Nat /\ r \in [1..Len(r) -> A]
      /\ Len(t) \in Nat /\ \A i \in 1..Len(t) : t[i] \in B
  BY LenProperties
<1>2. ASSUME NEW i \in 1..Len(r) PROVE r[i] \in B
  <2>1. Len(t) - Len(r) + i \in 1..Len(t)
    BY <1>1 DEF Rest
  <2> QED BY <1>1, <2>1 DEF Rest
<1>3. r \in [1..Len(r) -> B]
  BY <1>1, <1>2
<1> QED BY <1>1, <1>3, SeqDef

LEMMA NoRest ==
    ASSUME NEW A, NEW t \in Seq(A)
    PROVE  <<>> \in Seq(A) /\ At(<<>>, 1) = None /\ Rest(<<>>, t)
<1>1. <<>> \in Seq(A) /\ Len(<<>>) = 0 /\ Len(t) \in Nat
  BY EmptySeq, LenProperties
<1> QED BY <1>1 DEF At, Rest

(* The phases in which nothing iterates over non_root_list *)
Quiet == {"idle", "counting", "roots", "ended"}

LEMMA QuietPace ==
    ASSUME NEW A, NEW ph \in Quiet, NEW cur, NEW s, Typed(s, A),
           cur # None => ph \in {"counting", "roots"} /\ cur \in A /\ Outside(s, cur),
           ph \in {"idle", "ended"} => s["root"] = <<>> /\ s["queue"] = <<>> /\ s["nonRoot"] = <<>>,
           ph = "ended" => s["pc"] = <<>>
    PROVE  Pace(A, ph, cur, None, 0, s, <<>>)
<1>1. s["nonRoot"] \in Seq(A)
  BY DEF Typed, ListNames
<1>2. <<>> \in Seq(A) /\ At(<<>>, 1) = None /\ Rest(<<>>, s["nonRoot"])
  BY <1>1, NoRest
<1> QED BY <1>2 DEF Pace, Quiet, Phases

LEMMA IsQuiet ==
    ASSUME NEW A, NEW ph \in Quiet, NEW cur, NEW csr, NEW n, NEW s, NEW r,
           Pace(A, ph, cur, csr, n, s, r)
    PROVE  r = <<>> /\ csr = None /\ n = 0
<1>1. r = <<>> /\ csr = At(r, 1) /\ n = 0
  BY DEF Pace, Quiet
<1>2. Len(<<>>) = 0
  BY EmptySeq
<1> QED BY <1>1, <1>2 DEF At

LEMMA FreeBoxKeeps ==
    ASSUME NEW s, NEW r, Now(s, r), NEW o \in Objects, FreeBox(o)
    PROVE  Then(s, r) /\ o \in alloc /\ Outside(s, o)
<1>1. /\ phase \in {"idle", "finalizing", "dropping", "ended"} /\ o \in alloc
      /\ mem.mark[o] = "NonMarked" /\ alloc' = alloc \ {o}
      /\ UNCHANGED <<mem, phase, current, cursor, listSize>>
  BY DEF FreeBox, UserRuns
<1>2. /\ Linked(mem, s, alloc) /\ mem.size = Len(s["pc"]) /\ alloc \in SUBSET Objects
      /\ MarksTell(mem.mark, alloc, phase, current, s)
      /\ Pace(alloc, phase, current, cursor, listSize, s, r)
      /\ {"pc", "root", "nonRoot", "queue"} = ListNames
  BY <1>1, NowFacts
<1>3. Outside(s, o)
  BY <1>1, NonMarkedOutside
<1>4. Linked(mem, s, alloc')
  <2>1. Linked(mem, s, alloc) /\ alloc' \in SUBSET alloc /\ \A x \in alloc \ alloc' : Outside(s, x)
    BY <1>1, <1>2, <1>3
  <2> QED BY <2>1, FewerLinked
<1>5. MarksTell(mem.mark, alloc', phase, current, s)
  BY <1>1, <1>2 DEF MarksTell
<1>6. Pace(alloc', phase, current, cursor, listSize, s, r)
  <2>1. s["nonRoot"] \in Seq(alloc')
    BY <1>4, <1>2, LinkedMembers DEF Typed
  <2>2. r \in Seq(alloc')
    BY <1>2, <2>1, RestType DEF Pace
  <2>3. current = None
    BY <1>1, <1>2 DEF Pace
  <2> QED BY <1>2, <2>2, <2>3 DEF Pace
<1> QED BY <1>1, <1>2, <1>3, <1>4, <1>5, <1>6 DEF Then, Shape, Linkage

LEMMA EndThreadKeeps ==
    ASSUME NEW s, NEW r, Now(s, r), EndThread
    PROVE  Then(Emptied(s, "pc"), <<>>) /\ r = <<>>
<1> DEFINE u == Emptied(s, "pc")
<1>1. /\ phase = "idle" /\ phase' = "ended" /\ mem' = DropList(mem, "pc")
      /\ UNCHANGED <<alloc, current, cursor, listSize>>
  BY DEF EndThread
<1>2. /\ Linked(mem, s, alloc) /\ mem.size = Len(s["pc"]) /\ alloc \in SUBSET Objects
      /\ MarksTell(mem.mark, alloc, phase, current, s)
      /\ Pace(alloc, phase, current, cursor, listSize, s, r)
      /\ {"pc", "root", "nonRoot", "queue"} = ListNames /\ None \notin alloc
  BY <1>1, NowFacts
<1>3. /\ Linked(mem', u, alloc) /\ mem'.size = 0
      /\ Marked(mem', mem, s["pc"], "NonMarked") /\ Cleared(u, s, "pc")
  <2>1. Linked(mem, s, alloc) /\ "pc" \in ListNames /\ mem.size = Len(s["pc"])
    BY <1>2
  <2> QED BY <1>1, <2>1, DropEffect
<1> HIDE DEF u
<1>4. r = <<>> /\ cursor = None /\ listSize = 0
  BY <1>1, <1>2, IsQuiet DEF Quiet
<1>5. current = None /\ s["root"] = <<>> /\ s["queue"] = <<>> /\ s["nonRoot"] = <<>>
  BY <1>1, <1>2 DEF Pace
<1>6. MarksTell(mem'.mark, alloc', phase', current', u)
  <2> SUFFICES ASSUME NEW x \in alloc PROVE MarkTells(mem'.mark[x], x, phase', current', u)
    BY <1>1 DEF MarksTell
  <2>1. MarkTells(mem.mark[x], x, phase, current, s)
    BY <1>2 DEF MarksTell
  <2> QED BY <1>1, <1>2, <1>3, <2>1 DEF MarkTells, Marked, Cleared
<1>7. Pace(alloc', phase', current', cursor', listSize', u, <<>>)
  <2>1. Typed(u, alloc)
    BY <1>3, LinkedMembers
  <2>2. u["root"] = <<>> /\ u["queue"] = <<>> /\ u["nonRoot"] = <<>> /\ u["pc"] = <<>>
    BY <1>2, <1>3, <1>5 DEF Cleared
  <2>3. "ended" \in Quiet
    BY DEF Quiet
  <2>4. Pace(alloc, "ended", None, None, 0, u, <<>>)
    BY <2>1, <2>2, <2>3, QuietPace
  <2> QED BY <1>1, <1>4, <1>5, <2>4
<1>8. Len(u["pc"]) = 0
  BY <1>3, EmptySeq DEF Cleared
<1>9. Then(u, <<>>)
  BY <1>1, <1>3, <1>6, <1>7, <1>8 DEF Then, Shape, Linkage
<1> QED BY <1>4, <1>9 DEF u

LEMMA StartCountingKeeps ==
    ASSUME NEW s, NEW r, Now(s, r), StartCounting
    PROVE  Then(s, r) /\ r = <<>>
<1>1. phase = "idle" /\ phase' = "counting" /\ UNCHANGED <<mem, alloc, current, cursor, listSize>>
  BY DEF StartCounting
<1>2. /\ Linked(mem, s, alloc) /\ mem.size = Len(s["pc"]) /\ None \notin alloc
      /\ MarksTell(mem.mark, alloc, phase, current, s) /\ Typed(s, alloc)
      /\ Pace(alloc, phase, current, cursor, listSize, s, r)
  BY <1>1, NowFacts
<1>3. r = <<>> /\ cursor = None /\ listSize = 0
  BY <1>1, <1>2, IsQuiet DEF Quiet
<1>4. current = None
  BY <1>1, <1>2 DEF Pace
<1>5. MarksTell(mem.mark, alloc, "counting", None, s)
  BY <1>1, <1>2, <1>4 DEF MarksTell, MarkTells
<1>6. Pace(alloc, "counting", None, None, 0, s, <<>>)
  BY <1>2, QuietPace DEF Quiet
<1> QED BY <1>1, <1>2, <1>3, <1>4, <1>5, <1>6 DEF Then, Shape, Linkage

(* The first object of a list is taken out, to be traced. *)
LEMMA TakeKeeps ==
    ASSUME NEW s, NEW r, Now(s, r), phase \in {"counting", "roots"}, NEW l \in ListNames,
           mem.first[l] # None, phase = "counting" => current = None,
           NEW m \in Marks, m = IF phase = "counting" THEN "InQueue" ELSE "NonMarked",
           mem' = SetMark(TakeFirst(mem, l), mem.first[l], m), current' = mem.first[l],
           UNCHANGED <<alloc, phase, cursor, listSize>>
    PROVE  Then(Behind(s, l), <<>>) /\ r = <<>> /\ s[l] # <<>>
<1> DEFINE f == mem.first[l]
           u == Behind(s, l)
           g == TakeFirst(mem, l)
<1>1. /\ Linked(mem, s, alloc) /\ mem.size = Len(s["pc"]) /\ alloc \in SUBSET Objects
      /\ MarksTell(mem.mark, alloc, phase, current, s) /\ None \notin alloc
      /\ Pace(alloc, phase, current, cursor, listSize, s, r)
      /\ {"pc", "root", "nonRoot", "queue"} = ListNames
      /\ \A k, j \in ListNames : \A x : In(x, s[k]) /\ In(x, s[j]) => k = j
      /\ s[l] # <<>>
  BY NowFacts
<1>2. /\ Linked(g, u, alloc) /\ f \in alloc /\ In(f, s[l]) /\ Outside(u, f)
      /\ g.size = IF l = "pc" THEN Len(u["pc"]) ELSE mem.size
      /\ \A x \in Objects : g.mark[x] = IF x = f THEN "NonMarked" ELSE mem.mark[x]
      /\ Lost(u, s, l, f)
  <2>1. Linked(mem, s, alloc) /\ (l = "pc" => mem.size = Len(s["pc"]))
    BY <1>1
  <2> QED BY <2>1, TakeEffect
<1> HIDE DEF g, u, f
<1>3. /\ Linked(mem', u, alloc) /\ mem'.size = g.size
      /\ \A x \in Objects : mem'.mark[x] = IF x = f THEN m ELSE g.mark[x]
  <2>1. f \in Objects /\ mem' = SetMark(g, f, m)
    BY <1>1, <1>2 DEF g, f
  <2> QED BY <1>2, <2>1, SetMarkLinked
<1>4. mem'.size = Len(u["pc"])
  BY <1>1, <1>2, <1>3 DEF Lost
<1>5. r = <<>> /\ cursor = None /\ listSize = 0
  BY <1>1, IsQuiet DEF Quiet
<1>6. MarksTell(mem'.mark, alloc', phase', current', u)
  <2> SUFFICES ASSUME NEW x \in alloc PROVE MarkTells(mem'.mark[x], x, phase, f, u)
    BY DEF MarksTell, f
  <2>1. MarkTells(mem.mark[x], x, phase, current, s)
    BY <1>1 DEF MarksTell
  <2>2. mem'.mark[x] = IF x = f THEN m ELSE mem.mark[x]
    BY <1>1, <1>2, <1>3
  <2>3. \A k \in ListNames : In(x, u[k]) <=> In(x, s[k]) /\ x # f
    BY <1>2 DEF Lost
  <2>4. CASE x = f
    <3>1. ~In(x, u["pc"]) /\ ~In(x, u["root"]) /\ ~In(x, u["nonRoot"]) /\ ~In(x, u["queue"])
      BY <1>1, <2>3, <2>4
    <3> QED BY <2>2, <2>4, <3>1 DEF MarkTells
  <2>5. CASE x # f
    <3>1. /\ In(x, u["pc"]) <=> In(x, s["pc"])
          /\ In(x, u["root"]) <=> In(x, s["root"])
          /\ In(x, u["nonRoot"]) <=> In(x, s["nonRoot"])
          /\ In(x, u["queue"]) <=> In(x, s["queue"])
      BY <1>1, <2>3, <2>5
    <3>2. ~(phase = "counting" /\ x = current)
      BY <1>1
    <3> QED BY <2>1, <2>2, <2>5, <3>1, <3>2 DEF MarkTells
  <2> QED BY <2>4, <2>5
<1>7. Pace(alloc, phase, f, None, 0, u, <<>>)
  <2>1. Typed(u, alloc)
    BY <1>2, LinkedMembers
  <2>2. phase \in Quiet
    BY DEF Quiet
  <2>3. f # None => phase \in {"counting", "roots"} /\ f \in alloc /\ Outside(u, f)
    BY <1>2
  <2>4. phase \notin {"idle", "ended"}
    OBVIOUS
  <2> QED BY <2>1, <2>2, <2>3, <2>4, QuietPace
<1>8. Then(u, <<>>)
  BY <1>3, <1>4, <1>5, <1>6, <1>7 DEF Then, Shape, Linkage, f
<1> QED BY <1>1, <1>5, <1>8 DEF u

(* SetMark does nothing to a box that has the mark. *)
LEMMA SameMark ==
    ASSUME NEW h \in Heaps, NEW o \in Objects, h.mark[o] = "NonMarked"
    PROVE  SetMark(h, o, "NonMarked") = h
BY DEF SetMark, Heaps

LEMMA TakingKeeps ==
    ASSUME NEW s, NEW r, Now(s, r), TakeBuffered \/ TakeQueued \/ TakeRoot \/ TakeReached
    PROVE  \E l \in ListNames : Then(Behind(s, l), <<>>) /\ r = <<>> /\ s[l] # <<>>
<1>1. "pc" \in ListNames /\ "root" \in ListNames /\ "queue" \in ListNames
  BY DEF ListNames
<1>2. CASE TakeBuffered
  <2>1. /\ current = None /\ mem.first["pc"] # None /\ phase = "counting"
        /\ mem' = SetMark(TakeFirst(mem, "pc"), mem.first["pc"], "InQueue")
        /\ current' = mem.first["pc"]
        /\ UNCHANGED <<alloc, phase, cursor, listSize>>
    BY <1>2 DEF TakeBuffered, Tracing, TakeFirst
  <2>2. "InQueue" \in Marks
    BY DEF Marks
  <2> QED BY <1>1, <2>1, <2>2, TakeKeeps
<1>3. CASE TakeQueued
  <2>1. /\ current = None /\ mem.first["queue"] # None /\ phase = "counting"
        /\ mem' = SetMark(TakeFirst(mem, "queue"), mem.first["queue"], "InQueue")
        /\ current' = mem.first["queue"]
        /\ UNCHANGED <<alloc, phase, cursor, listSize>>
    BY <1>3 DEF TakeQueued, Tracing, TakeFirst
  <2>2. "InQueue" \in Marks
    BY DEF Marks
  <2> QED BY <1>1, <2>1, <2>2, TakeKeeps
<1>4. ASSUME NEW l \in {"root", "queue"}, phase = "roots", mem.first[l] # None,
             mem' = TakeFirst(mem, l), current' = mem.first[l],
             UNCHANGED <<alloc, phase, cursor, listSize>>
      PROVE  Then(Behind(s, l), <<>>) /\ r = <<>> /\ s[l] # <<>>
  <2>1. l \in ListNames /\ "NonMarked" \in Marks /\ l # "pc"
    BY <1>1 DEF Marks
  <2>2. Linked(mem, s, alloc) /\ alloc \in SUBSET Objects
    BY <1>4, NowFacts
  <2>3. /\ Linked(mem', Behind(s, l), alloc) /\ mem.first[l] \in alloc
        /\ \A x \in Objects :
             TakeFirst(mem, l).mark[x] = IF x = mem.first[l] THEN "NonMarked" ELSE mem.mark[x]
    BY <1>4, <2>1, <2>2, TakeEffect
  <2>4. mem.first[l] \in Objects /\ mem' \in Heaps /\ mem'.mark[mem.first[l]] = "NonMarked"
    BY <1>4, <2>2, <2>3 DEF Linked
  <2>5. mem' = SetMark(TakeFirst(mem, l), mem.first[l], "NonMarked")
    BY <1>4, <2>4, SameMark
  <2> QED BY <1>4, <2>1, <2>5, TakeKeeps
<1>5. CASE TakeRoot
  <2>1. /\ mem.first["root"] # None /\ phase = "roots" /\ mem' = TakeFirst(mem, "root")
        /\ current' = mem.first["root"] /\ UNCHANGED <<alloc, phase, cursor, listSize>>
    BY <1>5 DEF TakeRoot, Tracing, TakeFirst
  <2> QED BY <1>1, <1>4, <2>1
<1>6. CASE TakeReached
  <2>1. /\ mem.first["queue"] # None /\ phase = "roots" /\ mem' = TakeFirst(mem, "queue")
        /\ current' = mem.first["queue"] /\ UNCHANGED <<alloc, phase, cursor, listSize>>
    BY <1>6 DEF TakeReached, Tracing, TakeFirst
  <2> QED BY <1>1, <1>4, <2>1
<1> QED BY <1>2, <1>3, <1>5, <1>6

LEMMA QueueNewKeeps ==
    ASSUME NEW s, NEW r, Now(s, r), NEW o \in Objects, QueueNew(o)
    PROVE  Then(Queued(s, o), <<>>) /\ r = <<>> /\ o \in alloc /\ Outside(s, o)
<1> DEFINE u == Queued(s, o)
           g == Enqueue(mem, o)
<1>1. /\ phase = "counting" /\ current # None /\ o \in alloc /\ mem.mark[o] = "NonMarked"
      /\ mem' = SetMark(Enqueue(mem, o), o, "InQueue") /\ current' = current
      /\ UNCHANGED <<alloc, phase, cursor, listSize>>
  BY DEF QueueNew, Tracing
<1>2. /\ Linked(mem, s, alloc) /\ mem.size = Len(s["pc"]) /\ alloc \in SUBSET Objects
      /\ MarksTell(mem.mark, alloc, phase, current, s)
      /\ Pace(alloc, phase, current, cursor, listSize, s, r)
      /\ {"pc", "root", "nonRoot", "queue"} = ListNames
  BY <1>1, NowFacts
<1>3. Outside(s, o) /\ o # current
  BY <1>1, NonMarkedOutside
<1>4. Linked(g, u, alloc) /\ g.mark = mem.mark /\ g.size = mem.size /\ Gained(u, s, "queue", o)
  <2>1. Linked(mem, s, alloc) /\ o \in alloc
    BY <1>1, <1>2
  <2> QED BY <1>3, <2>1, QueueEffect
<1> HIDE DEF g, u
<1>5. /\ Linked(mem', u, alloc) /\ mem'.size = mem.size
      /\ \A x \in Objects : mem'.mark[x] = IF x = o THEN "InQueue" ELSE mem.mark[x]
  <2>1. "InQueue" \in Marks /\ mem' = SetMark(g, o, "InQueue")
    BY <1>1 DEF Marks, g
  <2> QED BY <1>4, <2>1, SetMarkLinked
<1>6. r = <<>> /\ cursor = None /\ listSize = 0
  BY <1>1, <1>2, IsQuiet DEF Quiet
<1>7. \A k \in ListNames : ~In(o, s[k]) /\ ~In(current, s[k])
  BY <1>1, <1>2, <1>3, OutsideIn DEF Pace
<1>8. MarksTell(mem'.mark, alloc', phase', current', u)
  <2> SUFFICES ASSUME NEW x \in alloc PROVE MarkTells(mem'.mark[x], x, phase, current, u)
    BY <1>1 DEF MarksTell
  <2>1. MarkTells(mem.mark[x], x, phase, current, s)
    BY <1>2 DEF MarksTell
  <2>2. mem'.mark[x] = IF x = o THEN "InQueue" ELSE mem.mark[x]
    BY <1>2, <1>5
  <2>3. /\ In(x, u["pc"]) <=> In(x, s["pc"])
        /\ In(x, u["root"]) <=> In(x, s["root"])
        /\ In(x, u["nonRoot"]) <=> In(x, s["nonRoot"])
        /\ In(x, u["queue"]) <=> In(x, s["queue"]) \/ x = o
    BY <1>2, <1>4 DEF Gained
  <2>4. x = o => ~In(x, s["pc"]) /\ ~In(x, s["root"]) /\ ~In(x, s["nonRoot"])
    BY <1>2, <1>7
  <2> QED BY <2>1, <2>2, <2>3, <2>4 DEF MarkTells
<1>9. Pace(alloc, phase, current, None, 0, u, <<>>)
  <2>1. Typed(u, alloc)
    BY <1>4, LinkedMembers
  <2>2. \A k \in ListNames : ~In(current, u[k])
    BY <1>3, <1>4, <1>7 DEF Gained
  <2>3. current \in alloc /\ Outside(u, current)
    BY <1>1, <1>2, <2>2, OutsideIn DEF Pace
  <2> QED BY <1>1, <2>1, <2>3, QuietPace DEF Quiet
<1>10. u["pc"] = s["pc"]
  BY <1>2, <1>4 DEF Gained
<1>11. Then(u, <<>>)
  BY <1>1, <1>2, <1>5, <1>6, <1>8, <1>9, <1>10 DEF Then, Shape, Linkage
<1> QED BY <1>1, <1>3, <1>6, <1>11 DEF u

(* What the walk over a list finds is what is in it. *)
LEMMA ContentTells ==
    ASSUME NEW s, NEW r, Now(s, r), phase # "freeing", NEW l \in ListNames
    PROVE  \A x : x \in ToSet(Content(mem, l)) <=> In(x, s[l])
<1>1. Linked(mem, s, alloc) /\ Typed(s, alloc)
  BY NowFacts
<1>2. Content(mem, l) = s[l]
  <2>1. Chain(mem, mem.first[l], s[l])
    BY <1>1, ListChain
  <2> QED BY <2>1, WalkTells DEF Content
<1>3. s[l] \in Seq(alloc)
  BY <1>1 DEF Typed
<1> QED BY <1>2, <1>3, InToSet

LEMMA PromoteKeeps ==
    ASSUME NEW s, NEW r, Now(s, r), NEW o \in Objects, Promote(o)
    PROVE  /\ r = <<>>
           /\ \E e \in 1..Len(s["root"]) :
                o = s["root"][e] /\ Then(Ahead(Out(s, "root", e), "nonRoot", o), <<>>)
<1>1. /\ phase = "counting" /\ current # None /\ o \in ToSet(Content(mem, "root"))
      /\ mem' = AddFirst(Unlink(mem, "root", o), "nonRoot", o) /\ current' = current
      /\ UNCHANGED <<alloc, phase, cursor, listSize>>
  BY DEF Promote, Tracing
<1>2. /\ Linked(mem, s, alloc) /\ mem.size = Len(s["pc"]) /\ alloc \in SUBSET Objects
      /\ MarksTell(mem.mark, alloc, phase, current, s)
      /\ Pace(alloc, phase, current, cursor, listSize, s, r)
      /\ {"pc", "root", "nonRoot", "queue"} = ListNames
      /\ \A k, m \in ListNames : \A x : In(x, s[k]) /\ In(x, s[m]) => k = m
  BY <1>1, NowFacts
<1>3. "root" \in ListNames /\ "nonRoot" \in ListNames
  BY DEF ListNames
<1>4. In(o, s["root"])
  BY <1>1, <1>3, ContentTells
<1>5. PICK e \in 1..Len(s["root"]) : s["root"][e] = o
  BY <1>4 DEF In
<1> DEFINE v == Out(s, "root", e)
           b == Unlink(mem, "root", o)
           u == Ahead(v, "nonRoot", o)
<1>6. /\ Linked(b, v, alloc) /\ b.mark = mem.mark /\ b.size = mem.size /\ o \in alloc
      /\ Outside(v, o) /\ Lost(v, s, "root", o)
  <2>1. Linked(mem, s, alloc)
    BY <1>2
  <2>2. "root" \in ListNames \ {"queue"} /\ o = s["root"][e]
    BY <1>3, <1>5
  <2> QED BY <1>5, <2>1, <2>2, UnlinkEffect
<1> HIDE DEF b, v
<1>7. /\ Linked(mem', u, alloc) /\ mem'.mark = mem.mark /\ mem'.size = mem.size
      /\ Gained(u, v, "nonRoot", o)
  <2>1. mem' = AddFirst(b, "nonRoot", o)
    BY <1>1 DEF b
  <2>2. "nonRoot" \in ListNames \ {"queue"}
    BY <1>3
  <2> QED BY <1>6, <2>1, <2>2, FrontEffect
<1> HIDE DEF u
<1>8. r = <<>> /\ cursor = None /\ listSize = 0
  BY <1>1, <1>2, IsQuiet DEF Quiet
<1>9. /\ u["pc"] = s["pc"] /\ u["queue"] = s["queue"]
      /\ \A x : /\ In(x, u["root"]) <=> In(x, s["root"]) /\ x # o
                /\ In(x, u["nonRoot"]) <=> (In(x, s["nonRoot"]) /\ x # o) \/ x = o
                /\ In(x, u["pc"]) <=> In(x, s["pc"])
                /\ In(x, u["queue"]) <=> In(x, s["queue"])
  BY <1>2, <1>6, <1>7 DEF Lost, Gained
<1>10. MarksTell(mem'.mark, alloc', phase', current', u)
  <2> SUFFICES ASSUME NEW x \in alloc PROVE MarkTells(mem'.mark[x], x, phase, current, u)
    BY <1>1 DEF MarksTell
  <2>1. MarkTells(mem.mark[x], x, phase, current, s)
    BY <1>2 DEF MarksTell
  <2> QED BY <1>4, <1>7, <1>9, <2>1 DEF MarkTells
<1>11. Pace(alloc, phase, current, None, 0, u, <<>>)
  <2>1. Typed(u, alloc)
    BY <1>7, LinkedMembers
  <2>2. current \in alloc /\ \A k \in ListNames : ~In(current, s[k])
    BY <1>1, <1>2, OutsideIn DEF Pace
  <2>3. current # o
    BY <1>3, <1>4, <2>2
  <2>4. \A k \in ListNames : ~In(current, u[k])
    BY <1>2, <1>9, <2>2, <2>3
  <2>5. Outside(u, current)
    BY <2>4, OutsideIn
  <2> QED BY <1>1, <2>1, <2>2, <2>5, QuietPace DEF Quiet
<1>12. Then(u, <<>>)
  BY <1>1, <1>2, <1>7, <1>8, <1>9, <1>10, <1>11 DEF Then, Shape, Linkage
<1> QED BY <1>5, <1>8, <1>12 DEF u, v

LEMMA FileKeeps ==
    ASSUME NEW s, NEW r, Now(s, r), NEW l \in {"root", "nonRoot"}, File(l)
    PROVE  /\ r = <<>> /\ current \in alloc /\ Outside(s, current)
           /\ Then(Ahead(s, l, current), <<>>)
<1> DEFINE u == Ahead(s, l, current)
           g == AddFirst(mem, l, current)
<1>1. /\ phase = "counting" /\ current # None /\ current' = None
      /\ mem' = SetMark(AddFirst(mem, l, current), current, "InList")
      /\ UNCHANGED <<alloc, phase, cursor, listSize>>
  BY DEF File, Tracing
<1>2. /\ Linked(mem, s, alloc) /\ mem.size = Len(s["pc"]) /\ alloc \in SUBSET Objects
      /\ MarksTell(mem.mark, alloc, phase, current, s) /\ None \notin alloc
      /\ Pace(alloc, phase, current, cursor, listSize, s, r)
      /\ {"pc", "root", "nonRoot", "queue"} = ListNames
  BY <1>1, NowFacts
<1>3. current \in alloc /\ Outside(s, current)
  BY <1>1, <1>2 DEF Pace
<1>4. Linked(g, u, alloc) /\ g.mark = mem.mark /\ g.size = mem.size /\ Gained(u, s, l, current)
  <2>1. Linked(mem, s, alloc)
    BY <1>2
  <2>2. l \in ListNames \ {"queue"}
    BY DEF ListNames
  <2> QED BY <1>3, <2>1, <2>2, FrontEffect
<1> HIDE DEF g, u
<1>5. /\ Linked(mem', u, alloc) /\ mem'.size = mem.size
      /\ \A x \in Objects : mem'.mark[x] = IF x = current THEN "InList" ELSE mem.mark[x]
  <2>1. "InList" \in Marks /\ mem' = SetMark(g, current, "InList") /\ current \in Objects
    BY <1>1, <1>2, <1>3 DEF Marks, g
  <2> QED BY <1>4, <2>1, SetMarkLinked
<1>6. r = <<>> /\ cursor = None /\ listSize = 0
  BY <1>1, <1>2, IsQuiet DEF Quiet
<1>7. \A k \in ListNames : ~In(current, s[k])
  BY <1>3, OutsideIn
<1>8. MarksTell(mem'.mark, alloc, phase, None, u)
  <2> SUFFICES ASSUME NEW x \in alloc PROVE MarkTells(mem'.mark[x], x, phase, None, u)
    BY DEF MarksTell
  <2>1. MarkTells(mem.mark[x], x, phase, current, s)
    BY <1>2 DEF MarksTell
  <2>2. mem'.mark[x] = IF x = current THEN "InList" ELSE mem.mark[x]
    BY <1>2, <1>5
  <2>3. /\ In(x, u["pc"]) <=> In(x, s["pc"])
        /\ In(x, u["queue"]) <=> In(x, s["queue"])
        /\ In(x, u["root"]) \/ In(x, u["nonRoot"]) <=> In(x, s["root"]) \/ In(x, s["nonRoot"]) \/ x = current
    BY <1>2, <1>4 DEF Gained
  <2>4. x = current => ~In(x, s["pc"]) /\ ~In(x, s["queue"])
    BY <1>2, <1>7
  <2>5. x # None
    BY <1>2
  <2> QED BY <1>1, <2>1, <2>2, <2>3, <2>4, <2>5 DEF MarkTells
<1>9. Pace(alloc, phase, None, None, 0, u, <<>>)
  <2>1. Typed(u, alloc)
    BY <1>4, LinkedMembers
  <2> QED BY <1>1, <2>1, QuietPace DEF Quiet
<1>10. u["pc"] = s["pc"]
  BY <1>2, <1>4 DEF Gained
<1>11. Then(u, <<>>)
  BY <1>1, <1>2, <1>5, <1>6, <1>8, <1>9, <1>10 DEF Then, Shape, Linkage
<1> QED BY <1>3, <1>6, <1>11 DEF u

LEMMA StartRootsKeeps ==
    ASSUME NEW s, NEW r, Now(s, r), StartRoots
    PROVE  Then(s, r)
<1>1. /\ phase = "counting" /\ current = None /\ phase' = "roots"
      /\ UNCHANGED <<mem, alloc, current, cursor, listSize>>
  BY DEF StartRoots
<1>2. /\ Linked(mem, s, alloc) /\ mem.size = Len(s["pc"]) /\ None \notin alloc
      /\ MarksTell(mem.mark, alloc, phase, current, s) /\ Typed(s, alloc)
      /\ Pace(alloc, phase, current, cursor, listSize, s, r)
  BY <1>1, NowFacts
<1>3. r = <<>> /\ cursor = None /\ listSize = 0
  BY <1>1, <1>2, IsQuiet DEF Quiet
<1>4. MarksTell(mem.mark, alloc, "roots", None, s)
  BY <1>1, <1>2 DEF MarksTell, MarkTells
<1>5. Pace(alloc, "roots", None, None, 0, s, <<>>)
  BY <1>2, QuietPace DEF Quiet
<1> QED BY <1>1, <1>2, <1>3, <1>4, <1>5 DEF Then, Shape, Linkage

LEMMA RequeueKeeps ==
    ASSUME NEW s, NEW r, Now(s, r), NEW o \in Objects, Requeue(o)
    PROVE  /\ r = <<>>
           /\ \E e \in 1..Len(s["nonRoot"]) :
                o = s["nonRoot"][e] /\ Then(Queued(Out(s, "nonRoot", e), o), <<>>)
<1> DEFINE a == SetMark(mem, o, "NonMarked")
           b == Unlink(a, "nonRoot", o)
           c == Enqueue(b, o)
<1>1. /\ phase = "roots" /\ current # None /\ o \in ToSet(Content(mem, "nonRoot"))
      /\ mem' = SetMark(c, o, "InQueue") /\ current' = current
      /\ UNCHANGED <<alloc, phase, cursor, listSize>>
  BY DEF Requeue, Tracing
<1>2. /\ Linked(mem, s, alloc) /\ mem.size = Len(s["pc"]) /\ alloc \in SUBSET Objects
      /\ MarksTell(mem.mark, alloc, phase, current, s)
      /\ Pace(alloc, phase, current, cursor, listSize, s, r)
      /\ {"pc", "root", "nonRoot", "queue"} = ListNames
      /\ \A k, m \in ListNames : \A x : In(x, s[k]) /\ In(x, s[m]) => k = m
  BY <1>1, NowFacts
<1>3. "nonRoot" \in ListNames
  BY DEF ListNames
<1>4. In(o, s["nonRoot"])
  BY <1>1, <1>3, ContentTells
<1>5. PICK e \in 1..Len(s["nonRoot"]) : s["nonRoot"][e] = o
  BY <1>4 DEF In
<1> DEFINE v == Out(s, "nonRoot", e)
           u == Queued(v, o)
<1>6. /\ Linked(a, s, alloc) /\ a.size = mem.size
      /\ \A x \in Objects : a.mark[x] = IF x = o THEN "NonMarked" ELSE mem.mark[x]
  <2>1. Linked(mem, s, alloc) /\ "NonMarked" \in Marks
    BY <1>2 DEF Marks
  <2> QED BY <2>1, SetMarkLinked
<1> HIDE DEF a, v
<1>7. /\ Linked(b, v, alloc) /\ b.mark = a.mark /\ b.size = a.size /\ o \in alloc
      /\ Outside(v, o) /\ Lost(v, s, "nonRoot", o)
  <2>1. Linked(a, s, alloc)
    BY <1>6
  <2>2. "nonRoot" \in ListNames \ {"queue"} /\ o = s["nonRoot"][e]
    BY <1>3, <1>5
  <2> QED BY <1>5, <2>1, <2>2, UnlinkEffect DEF v
<1> HIDE DEF b
<1>8. Linked(c, u, alloc) /\ c.mark = b.mark /\ c.size = b.size /\ Gained(u, v, "queue", o)
  BY <1>7, QueueEffect
<1> HIDE DEF c, u
<1>9. /\ Linked(mem', u, alloc) /\ mem'.size = c.size
      /\ \A x \in Objects : mem'.mark[x] = IF x = o THEN "InQueue" ELSE c.mark[x]
  <2>1. "InQueue" \in Marks /\ Linked(c, u, alloc)
    BY <1>8 DEF Marks
  <2> QED BY <1>1, <2>1, SetMarkLinked
<1>10. r = <<>> /\ cursor = None /\ listSize = 0
  BY <1>1, <1>2, IsQuiet DEF Quiet
<1>11. /\ u["pc"] = s["pc"] /\ u["root"] = s["root"]
       /\ \A x : /\ In(x, u["root"]) <=> In(x, s["root"])
                 /\ In(x, u["nonRoot"]) <=> In(x, s["nonRoot"]) /\ x # o
                 /\ In(x, u["pc"]) <=> In(x, s["pc"])
                 /\ In(x, u["queue"]) <=> (In(x, s["queue"]) /\ x # o) \/ x = o
  BY <1>2, <1>7, <1>8 DEF Lost, Gained
<1>12. ~In(o, s["pc"]) /\ ~In(o, s["root"])
  BY <1>2, <1>4
<1>13. MarksTell(mem'.mark, alloc', phase', current', u)
  <2> SUFFICES ASSUME NEW x \in alloc PROVE MarkTells(mem'.mark[x], x, phase, current, u)
    BY <1>1 DEF MarksTell
  <2>1. MarkTells(mem.mark[x], x, phase, current, s)
    BY <1>2 DEF MarksTell
  <2>2. mem'.mark[x] = IF x = o THEN "InQueue" ELSE mem.mark[x]
    BY <1>2, <1>6, <1>7, <1>8, <1>9
  <2> QED BY <1>1, <1>4, <1>11, <1>12, <2>1, <2>2 DEF MarkTells
<1>14. Pace(alloc, phase, current, None, 0, u, <<>>)
  <2>1. Typed(u, alloc)
    BY <1>9, LinkedMembers
  <2>2. current \in alloc /\ \A k \in ListNames : ~In(current, s[k])
    BY <1>1, <1>2, OutsideIn DEF Pace
  <2>3. current # o
    BY <1>3, <1>4, <2>2
  <2>4. \A k \in ListNames : ~In(current, u[k])
    BY <1>2, <1>11, <2>2, <2>3
  <2>5. Outside(u, current)
    BY <2>4, OutsideIn
  <2> QED BY <1>1, <2>1, <2>2, <2>5, QuietPace DEF Quiet
<1>15. Then(u, <<>>)
  <2>1. mem'.size = Len(u["pc"])
    BY <1>2, <1>6, <1>7, <1>8, <1>9, <1>11
  <2> QED BY <1>1, <1>9, <1>10, <1>13, <1>14, <2>1 DEF Then, Shape, Linkage
<1> QED BY <1>5, <1>10, <1>15 DEF u, v

Abandoned(s) == Emptied(Emptied(Emptied(s, "queue"), "root"), "nonRoot")

LEMMA TracePanicKeeps ==
    ASSUME NEW s, NEW r, Now(s, r), TracePanic
    PROVE  Then(Abandoned(s), <<>>)
<1> DEFINE a == IF phase = "counting" THEN SetMark(mem, current, "NonMarked") ELSE mem
           b == DropList(a, "queue")
           c == DropList(b, "root")
           s1 == Emptied(s, "queue")
           s2 == Emptied(s1, "root")
           u == Emptied(s2, "nonRoot")
<1>1. /\ phase \in {"counting", "roots"} /\ current # None /\ phase' = "idle" /\ current' = None
      /\ mem' = DropList(c, "nonRoot")
      /\ UNCHANGED <<alloc, cursor, listSize>>
  BY DEF TracePanic
<1>2. /\ Linked(mem, s, alloc) /\ mem.size = Len(s["pc"]) /\ alloc \in SUBSET Objects
      /\ MarksTell(mem.mark, alloc, phase, current, s) /\ None \notin alloc
      /\ Pace(alloc, phase, current, cursor, listSize, s, r)
      /\ {"pc", "root", "nonRoot", "queue"} = ListNames
      /\ \A k, m \in ListNames : \A x : In(x, s[k]) /\ In(x, s[m]) => k = m
  BY <1>1, NowFacts
<1>3. "root" \in ListNames /\ "nonRoot" \in ListNames /\ "queue" \in ListNames
  BY DEF ListNames
<1>4. current \in alloc /\ Outside(s, current) /\ current \in Objects
  BY <1>1, <1>2 DEF Pace
<1>5. /\ Linked(a, s, alloc) /\ a.size = mem.size
      /\ \A x \in Objects : a.mark[x] = IF phase = "counting" /\ x = current
                                        THEN "NonMarked" ELSE mem.mark[x]
  <2>1. Linked(mem, s, alloc) /\ "NonMarked" \in Marks
    BY <1>2 DEF Marks
  <2>2. CASE phase = "counting"
    BY <1>4, <2>1, <2>2, SetMarkLinked
  <2>3. CASE phase # "counting"
    BY <2>1, <2>3
  <2> QED BY <2>2, <2>3
<1> HIDE DEF a
<1>6. /\ Linked(b, s1, alloc) /\ b.size = a.size
      /\ Marked(b, a, s["queue"], "NonMarked") /\ Cleared(s1, s, "queue")
  <2>1. Linked(a, s, alloc)
    BY <1>5
  <2> QED BY <1>3, <2>1, DropEffect
<1> HIDE DEF b, s1
<1>7. /\ Linked(c, s2, alloc) /\ c.size = b.size
      /\ Marked(c, b, s1["root"], "NonMarked") /\ Cleared(s2, s1, "root")
  <2>1. Linked(b, s1, alloc)
    BY <1>6
  <2> QED BY <1>3, <2>1, DropEffect
<1> HIDE DEF c, s2
<1>8. /\ Linked(mem', u, alloc) /\ mem'.size = c.size
      /\ Marked(mem', c, s2["nonRoot"], "NonMarked") /\ Cleared(u, s2, "nonRoot")
  <2>1. Linked(c, s2, alloc)
    BY <1>7
  <2> QED BY <1>1, <1>3, <2>1, DropEffect
<1> HIDE DEF u
<1>9. s1["root"] = s["root"] /\ s2["nonRoot"] = s["nonRoot"]
  BY <1>3, <1>6, <1>7 DEF Cleared
<1>10. u["pc"] = s["pc"] /\ u["root"] = <<>> /\ u["nonRoot"] = <<>> /\ u["queue"] = <<>>
  BY <1>2, <1>6, <1>7, <1>8 DEF Cleared
<1>11. r = <<>> /\ cursor = None /\ listSize = 0
  BY <1>1, <1>2, IsQuiet DEF Quiet
<1>12. MarksTell(mem'.mark, alloc, "idle", None, u)
  <2> SUFFICES ASSUME NEW x \in alloc PROVE MarkTells(mem'.mark[x], x, "idle", None, u)
    BY DEF MarksTell
  <2>1. MarkTells(mem.mark[x], x, phase, current, s) /\ x \in Objects
    BY <1>2 DEF MarksTell
  <2>2. mem'.mark[x] = IF In(x, s["queue"]) \/ In(x, s["root"]) \/ In(x, s["nonRoot"])
                          \/ (phase = "counting" /\ x = current)
                       THEN "NonMarked" ELSE mem.mark[x]
    BY <1>5, <1>6, <1>7, <1>8, <1>9, <2>1 DEF Marked
  <2>3. ~In(x, u["root"]) /\ ~In(x, u["nonRoot"]) /\ ~In(x, u["queue"])
    BY <1>10, InEmpty
  <2>4. In(x, s["pc"]) => ~In(x, s["root"]) /\ ~In(x, s["nonRoot"]) /\ ~In(x, s["queue"])
    BY <1>2
  <2>5. In(x, s["pc"]) => x # current
    BY <1>2, <1>4, OutsideIn
  <2> QED BY <1>10, <2>1, <2>2, <2>3, <2>4, <2>5 DEF MarkTells
<1>13. Pace(alloc, "idle", None, None, 0, u, <<>>)
  <2>1. Typed(u, alloc)
    BY <1>8, LinkedMembers
  <2> QED BY <1>10, <2>1, QuietPace DEF Quiet
<1>14. Then(u, <<>>)
  <2>1. mem'.size = Len(u["pc"])
    BY <1>2, <1>5, <1>6, <1>7, <1>8, <1>10
  <2> QED BY <1>1, <1>8, <1>11, <1>12, <1>13, <2>1 DEF Then, Shape, Linkage
<1> QED BY <1>14 DEF u, s1, s2, Abandoned

(* All of a list is its own end. *)
LEMMA WholeRest ==
    ASSUME NEW A, NEW t \in Seq(A)
    PROVE  Rest(t, t)
<1>1. Len(t) \in Nat
  BY LenProperties
<1> QED BY <1>1 DEF Rest

LEMMA EndTracingKeeps ==
    ASSUME NEW s, NEW r, Now(s, r), EndTracing
    PROVE  Then(s, s["nonRoot"]) /\ r = <<>>
<1> DEFINE t == s["nonRoot"]
<1>1. /\ phase = "roots" /\ mem.first["root"] = None /\ mem.first["queue"] = None
      /\ current' = None /\ cursor' = mem.first["nonRoot"] /\ listSize' = 0
      /\ phase' = IF mem.first["nonRoot"] = None THEN "idle" ELSE "finalizing"
      /\ UNCHANGED <<mem, alloc>>
  BY DEF EndTracing
<1>2. /\ Linked(mem, s, alloc) /\ mem.size = Len(s["pc"]) /\ None \notin alloc
      /\ MarksTell(mem.mark, alloc, phase, current, s) /\ Typed(s, alloc)
      /\ Pace(alloc, phase, current, cursor, listSize, s, r)
      /\ {"pc", "root", "nonRoot", "queue"} = ListNames
      /\ \A k \in ListNames : /\ (s[k] = <<>>) <=> (mem.first[k] = None)
                              /\ mem.first[k] = At(s[k], 1)
  BY <1>1, NowFacts
<1>3. s["root"] = <<>> /\ s["queue"] = <<>> /\ cursor' = At(t, 1)
      /\ (t = <<>> <=> mem.first["nonRoot"] = None)
  BY <1>1, <1>2
<1>4. r = <<>>
  BY <1>1, <1>2, IsQuiet DEF Quiet
<1>5. phase' = IF t = <<>> THEN "idle" ELSE "finalizing"
  BY <1>1, <1>3
<1>6. MarksTell(mem.mark, alloc, phase', None, s)
  BY <1>1, <1>2, <1>5 DEF MarksTell, MarkTells
<1>7. Pace(alloc, phase', None, cursor', 0, s, t)
  <2>1. t \in Seq(alloc) /\ Len(t) \in Nat
    BY <1>2 DEF Typed
  <2>2. Rest(t, t)
    BY <2>1, WholeRest
  <2>3. Len(t) - Len(t) = 0
    BY <2>1
  <2> HIDE DEF t
  <2>4. Rest(t, s["nonRoot"]) /\ s["nonRoot"] = t
    BY <2>2 DEF t
  <2> QED BY <1>3, <1>5, <2>1, <2>3, <2>4 DEF Pace, Phases
<1>8. phase' # "freeing"
  BY <1>5
<1> QED BY <1>1, <1>2, <1>4, <1>6, <1>7, <1>8 DEF Then, Shape, Linkage

(* An iteration moves on. *)
LEMMA TailChain ==
    ASSUME NEW h, NEW f, NEW A, NEW r \in Seq(A), Chain(h, f, r), f # None
    PROVE  /\ r # <<>> /\ Len(r) \in Nat /\ Len(r) > 0 /\ f = r[1] /\ In(f, r) /\ Head(r) = f
           /\ h.next[f] = At(Tail(r), 1) /\ Tail(r) \in Seq(A) /\ Chain(h, h.next[f], Tail(r))
           /\ Len(Tail(r)) = Len(r) - 1 /\ \A i \in 1..(Len(r) - 1) : Tail(r)[i] = r[i + 1]
           /\ \A x : In(x, Tail(r)) <=> x # f /\ In(x, r)
<1>1. /\ Len(r) \in Nat /\ r \in Seq(Objects) /\ f = At(r, 1)
      /\ \A i, j \in 1..Len(r) : r[i] = r[j] => i = j
      /\ \A i \in 1..Len(r) : h.next[r[i]] = At(r, i + 1)
  BY LenProperties DEF Chain
<1>2. 1 \in 1..Len(r) /\ f = r[1]
  BY <1>1 DEF At
<1>3. Len(r) > 0 /\ r # <<>>
  BY <1>1, <1>2, EmptySeq
<1>4. PICK e \in 1..Len(r) : e = 1
  BY <1>2
<1>5. In(f, r)
  BY <1>2, <1>4 DEF In
<1>6. Head(r) = f /\ Tail(r) \in Seq(A) /\ Tail(r) \in Seq(Objects)
      /\ Len(Tail(r)) = Len(r) - 1 /\ \A i \in 1..(Len(r) - 1) : Tail(r)[i] = r[i + 1]
  <2>1. /\ Head(r) = r[1] /\ Tail(r) \in Seq(A)
        /\ Len(Tail(r)) = Len(r) - 1 /\ \A i \in 1..Len(Tail(r)) : Tail(r)[i] = r[i + 1]
    BY <1>3, HeadTailProperties
  <2>2. Tail(r) \in Seq(Objects)
    BY <1>1, <1>3, HeadTailProperties
  <2> QED BY <1>2, <2>1, <2>2
<1>7. \A x : In(x, Tail(r)) <=> x # f /\ In(x, r)
  BY <1>1, <1>2, InTail
<1> DEFINE t == Tail(r)
<1>8. /\ t \in Seq(A) /\ t \in Seq(Objects) /\ Len(t) = Len(r) - 1
      /\ \A i \in 1..(Len(r) - 1) : t[i] = r[i + 1]
  BY <1>6
<1> HIDE DEF t
<1>9. ASSUME NEW i \in 1..Len(r) PROVE At(t, i) = At(r, i + 1)
  <2>1. i \in 1..Len(t) <=> i + 1 \in 1..Len(r)
    BY <1>1, <1>8
  <2>2. i \in 1..Len(t) => t[i] = r[i + 1]
    BY <1>1, <1>8
  <2> QED BY <2>1, <2>2 DEF At
<1>10. h.next[f] = At(t, 1)
  BY <1>1, <1>2, <1>4, <1>9
<1>11. ASSUME NEW i \in 1..Len(t) PROVE h.next[t[i]] = At(t, i + 1)
  <2>1. i + 1 \in 1..Len(r) /\ t[i] = r[i + 1]
    BY <1>1, <1>8
  <2> QED BY <1>1, <1>9, <2>1
<1>12. ASSUME NEW i \in 1..Len(t), NEW j \in 1..Len(t), t[i] = t[j] PROVE i = j
  <2>1. /\ i + 1 \in 1..Len(r) /\ t[i] = r[i + 1]
        /\ j + 1 \in 1..Len(r) /\ t[j] = r[j + 1]
    BY <1>1, <1>8
  <2>2. i + 1 = j + 1
    BY <1>1, <1>12, <2>1
  <2> QED BY <2>2
<1>13. Chain(h, h.next[f], t)
  BY <1>8, <1>10, <1>11, <1>12 DEF Chain
<1> QED BY <1>1, <1>2, <1>3, <1>5, <1>6, <1>7, <1>10, <1>13 DEF t

LEMMA TailRest ==
    ASSUME NEW A, NEW t \in Seq(A), NEW r, NEW q, Rest(r, t), Len(r) \in Nat, Len(r) > 0,
           Len(q) = Len(r) - 1, \A i \in 1..(Len(r) - 1) : q[i] = r[i + 1]
    PROVE  Rest(q, t)
<1>1. Len(t) \in Nat /\ Len(r) <= Len(t) /\ \A i \in 1..Len(r) : r[i] = t[Len(t) - Len(r) + i]
  BY LenProperties DEF Rest
<1>2. ASSUME NEW i \in 1..Len(q) PROVE q[i] = t[Len(t) - Len(q) + i]
  <2>1. i + 1 \in 1..Len(r) /\ q[i] = r[i + 1]
    BY <1>1
  <2>2. Len(t) - Len(r) + (i + 1) = Len(t) - Len(q) + i
    BY <1>1
  <2> QED BY <1>1, <2>1, <2>2
<1> QED BY <1>1, <1>2 DEF Rest

LEMMA VisitKeeps ==
    ASSUME NEW s, NEW r, Now(s, r), Visit
    PROVE  Then(s, Tail(r)) /\ r # <<>>
<1>1. /\ phase \in {"finalizing", "dropping"} /\ cursor # None /\ cursor' = mem.next[cursor]
      /\ listSize' = IF phase = "finalizing" THEN listSize + 1 ELSE listSize
      /\ UNCHANGED <<mem, alloc, phase, current>>
  BY DEF Visit
<1>2. /\ Linked(mem, s, alloc) /\ mem.size = Len(s["pc"]) /\ Typed(s, alloc)
      /\ MarksTell(mem.mark, alloc, phase, current, s)
      /\ Pace(alloc, phase, current, cursor, listSize, s, r)
      /\ "nonRoot" \in ListNames
  BY <1>1, NowFacts DEF ListNames
<1>3. r \in Seq(alloc) /\ Rest(r, s["nonRoot"]) /\ Chain(mem, cursor, r)
  <2>1. r \in Seq(alloc) /\ Rest(r, s["nonRoot"]) /\ cursor = At(r, 1)
    BY <1>2 DEF Pace
  <2> QED BY <1>2, <2>1, RestChain
<1> DEFINE q == Tail(r)
<1>4. /\ r # <<>> /\ Len(r) \in Nat /\ Len(r) > 0 /\ cursor' = At(q, 1) /\ q \in Seq(alloc)
      /\ Len(q) = Len(r) - 1 /\ \A i \in 1..(Len(r) - 1) : q[i] = r[i + 1]
  BY <1>1, <1>3, TailChain
<1> HIDE DEF q
<1>5. Rest(q, s["nonRoot"]) /\ Len(s["nonRoot"]) \in Nat
  <2>1. s["nonRoot"] \in Seq(alloc) /\ Len(s["nonRoot"]) \in Nat
    BY <1>2 DEF Typed
  <2> QED BY <1>3, <1>4, <2>1, TailRest
<1>6. listSize' = IF phase = "finalizing" THEN Len(s["nonRoot"]) - Len(q) ELSE 0
  BY <1>1, <1>2, <1>4, <1>5 DEF Pace
<1>7. Pace(alloc, phase, current, cursor', listSize', s, q)
  BY <1>1, <1>2, <1>4, <1>5, <1>6 DEF Pace
<1>8. Then(s, q)
  BY <1>1, <1>2, <1>7 DEF Then, Shape, Linkage
<1> QED BY <1>4, <1>8 DEF q

LEMMA UserPanicKeeps ==
    ASSUME NEW s, NEW r, Now(s, r), UserPanic
    PROVE  Then(Emptied(s, "nonRoot"), <<>>) /\ s["root"] = <<>> /\ s["queue"] = <<>>
<1> DEFINE u == Emptied(s, "nonRoot")
<1>1. /\ phase \in {"finalizing", "dropping"} /\ phase' = "idle"
      /\ mem' = DropList(mem, "nonRoot") /\ cursor' = None /\ listSize' = 0
      /\ UNCHANGED <<alloc, current>>
  BY DEF UserPanic
<1>2. /\ Linked(mem, s, alloc) /\ mem.size = Len(s["pc"]) /\ alloc \in SUBSET Objects
      /\ MarksTell(mem.mark, alloc, phase, current, s) /\ None \notin alloc
      /\ Pace(alloc, phase, current, cursor, listSize, s, r)
      /\ {"pc", "root", "nonRoot", "queue"} = ListNames
      /\ \A k, m \in ListNames : \A x : In(x, s[k]) /\ In(x, s[m]) => k = m
  BY <1>1, NowFacts
<1>3. /\ Linked(mem', u, alloc) /\ mem'.size = mem.size
      /\ Marked(mem', mem, s["nonRoot"], "NonMarked") /\ Cleared(u, s, "nonRoot")
  <2>1. Linked(mem, s, alloc) /\ "nonRoot" \in ListNames
    BY <1>2
  <2> QED BY <1>1, <2>1, DropEffect
<1> HIDE DEF u
<1>4. current = None /\ s["root"] = <<>> /\ s["queue"] = <<>>
  BY <1>1, <1>2 DEF Pace
<1>5. u["pc"] = s["pc"] /\ u["root"] = <<>> /\ u["queue"] = <<>> /\ u["nonRoot"] = <<>>
  BY <1>2, <1>3, <1>4 DEF Cleared
<1>6. MarksTell(mem'.mark, alloc, "idle", None, u)
  <2> SUFFICES ASSUME NEW x \in alloc PROVE MarkTells(mem'.mark[x], x, "idle", None, u)
    BY DEF MarksTell
  <2>1. MarkTells(mem.mark[x], x, phase, current, s) /\ x \in Objects
    BY <1>2 DEF MarksTell
  <2>2. mem'.mark[x] = IF In(x, s["nonRoot"]) THEN "NonMarked" ELSE mem.mark[x]
    BY <1>3, <2>1 DEF Marked
  <2>3. ~In(x, u["root"]) /\ ~In(x, u["nonRoot"]) /\ ~In(x, u["queue"])
        /\ ~In(x, s["root"]) /\ ~In(x, s["queue"])
    BY <1>4, <1>5, InEmpty
  <2>4. In(x, s["pc"]) => ~In(x, s["nonRoot"])
    BY <1>2
  <2> QED BY <1>1, <1>4, <1>5, <2>1, <2>2, <2>3, <2>4 DEF MarkTells
<1>7. Pace(alloc, "idle", None, None, 0, u, <<>>)
  <2>1. Typed(u, alloc)
    BY <1>3, LinkedMembers
  <2> QED BY <1>5, <2>1, QuietPace DEF Quiet
<1>8. Then(u, <<>>)
  BY <1>1, <1>2, <1>3, <1>4, <1>5, <1>6, <1>7 DEF Then, Shape, Linkage
<1> QED BY <1>4, <1>8 DEF u

(* What is left of an iteration whose cursor is None *)
LEMMA AtEnd ==
    ASSUME NEW A, None \notin A, NEW r \in Seq(A), At(r, 1) = None
    PROVE  r = <<>> /\ Len(r) = 0
<1>1. Len(r) \in Nat /\ \A i \in 1..Len(r) : r[i] \in A
  BY LenProperties
<1>2. Len(r) = 0
  BY <1>1 DEF At
<1> QED BY <1>2, EmptySeq

LEMMA StartDroppingKeeps ==
    ASSUME NEW s, NEW r, Now(s, r), StartDropping
    PROVE  Then(s, s["nonRoot"]) /\ r = <<>>
<1> DEFINE t == s["nonRoot"]
<1>1. /\ phase = "finalizing" /\ cursor = None /\ phase' = "dropping"
      /\ cursor' = mem.first["nonRoot"] /\ listSize' = 0
      /\ UNCHANGED <<mem, alloc, current>>
  BY DEF StartDropping
<1>2. /\ Linked(mem, s, alloc) /\ mem.size = Len(s["pc"]) /\ None \notin alloc
      /\ MarksTell(mem.mark, alloc, phase, current, s) /\ Typed(s, alloc)
      /\ Pace(alloc, phase, current, cursor, listSize, s, r)
      /\ {"pc", "root", "nonRoot", "queue"} = ListNames
      /\ \A k \in ListNames : mem.first[k] = At(s[k], 1)
  BY <1>1, NowFacts
<1>3. cursor' = At(t, 1) /\ t \in Seq(alloc) /\ Rest(t, t)
  <2>1. cursor' = At(t, 1) /\ t \in Seq(alloc)
    BY <1>1, <1>2 DEF Typed
  <2> QED BY <2>1, WholeRest
<1>4. r = <<>>
  <2>1. r \in Seq(alloc) /\ At(r, 1) = None
    BY <1>1, <1>2 DEF Pace
  <2> QED BY <1>2, <2>1, AtEnd
<1>5. MarksTell(mem.mark, alloc, "dropping", current, s)
  BY <1>1, <1>2 DEF MarksTell, MarkTells
<1>6. Pace(alloc, "dropping", current, cursor', 0, s, t)
  BY <1>1, <1>2, <1>3 DEF Pace, Phases
<1> QED BY <1>1, <1>2, <1>4, <1>5, <1>6 DEF Then, Shape, Linkage

(* swap_list and mark_self_and_append together put non_root_list in front of  *)
(* the buffer.                                                               *)
Joined(s) == [s EXCEPT !["pc"] = s["nonRoot"] \o @, !["nonRoot"] = <<>>]

LEMMA PutEffect ==
    ASSUME NEW h, NEW s, NEW A, Linked(h, s, A), NEW n \in Nat, NEW k \in Nat,
           n = Len(s["nonRoot"]), k = Len(s["pc"])
    PROVE  LET g == MarkSelfAndAppend(SwapList(h, n), "PossibleCycles", k)
               u == Joined(s) IN
           /\ Linked(g, u, A) /\ g.size = Len(u["pc"])
           /\ Marked(g, h, s["nonRoot"], "PossibleCycles")
           /\ u["nonRoot"] = <<>> /\ u["root"] = s["root"] /\ u["queue"] = s["queue"]
           /\ \A x : In(x, u["pc"]) <=> In(x, s["nonRoot"]) \/ In(x, s["pc"])
<1> DEFINE b == SwapList(h, n)
           v == [s EXCEPT !["pc"] = s["nonRoot"], !["nonRoot"] = s["pc"]]
           g == MarkSelfAndAppend(b, "PossibleCycles", k)
           w == [v EXCEPT !["pc"] = @ \o v["nonRoot"], !["nonRoot"] = <<>>]
           t == s["nonRoot"] \o s["pc"]
<1>1. /\ s \in [ListNames -> Seq(A)]
      /\ "pc" \in ListNames /\ "nonRoot" \in ListNames /\ "root" \in ListNames /\ "queue" \in ListNames
  BY DEF Linked, ListNames
<1>2. Linked(b, v, A) /\ b.size = n /\ b.mark = h.mark
  BY SwapLinked
<1>3. v["pc"] = s["nonRoot"] /\ v["nonRoot"] = s["pc"] /\ v \in [ListNames -> Seq(A)]
      /\ v["root"] = s["root"] /\ v["queue"] = s["queue"]
  BY <1>1
<1>4. Joined(s) = w
  BY <1>1 DEF Joined
<1> HIDE DEF b, v
<1>5. /\ Linked(g, w, A) /\ g.size = b.size + k
      /\ \A x \in Objects : g.mark[x] = IF In(x, v["pc"]) THEN "PossibleCycles" ELSE b.mark[x]
  <2>1. "PossibleCycles" \in Marks
    BY DEF Marks
  <2>2. Linked(b, v, A) /\ k \in Nat
    BY <1>2
  <2> HIDE DEF g, w
  <2> DEFINE a == MarkSelfAndAppend(b, "PossibleCycles", k)
  <2>3. Linked(a, Merged(v), A)
    BY <2>1, <2>2, JoinLinked
  <2>4. a.size = b.size + k
    BY <2>1, <2>2, JoinLinked
  <2>5. \A x \in Objects : a.mark[x] = IF In(x, v["pc"]) THEN "PossibleCycles" ELSE b.mark[x]
    BY <2>1, <2>2, JoinLinked
  <2>6. g = a
    BY DEF g
  <2>7. w = Merged(v)
    BY Zenon DEF w, Merged
  <2> HIDE DEF a
  <2> QED BY <2>3, <2>4, <2>5, <2>6, <2>7
<1>6. w["pc"] = t /\ w["nonRoot"] = <<>> /\ w["root"] = s["root"] /\ w["queue"] = s["queue"]
  BY <1>1, <1>3
<1>7. Len(t) = n + k /\ \A x : In(x, t) <=> In(x, s["nonRoot"]) \/ In(x, s["pc"])
  <2>1. s["nonRoot"] \in Seq(A) /\ s["pc"] \in Seq(A)
    BY <1>1
  <2> QED BY <2>1, JoinTells
<1> HIDE DEF g, w, t
<1>8. Marked(g, h, s["nonRoot"], "PossibleCycles")
  BY <1>2, <1>3, <1>5 DEF Marked
<1> QED BY <1>2, <1>4, <1>5, <1>6, <1>7, <1>8 DEF g, b

LEMMA PutBackKeeps ==
    ASSUME NEW s, NEW r, Now(s, r), PutBack
    PROVE  Then(Joined(s), <<>>) /\ r = <<>>
<1> DEFINE u == Joined(s)
<1>1. /\ phase = "finalizing" /\ cursor = None /\ phase' = "idle" /\ listSize' = 0
      /\ mem' = MarkSelfAndAppend(SwapList(mem, listSize), "PossibleCycles", mem.size)
      /\ UNCHANGED <<alloc, current, cursor>>
  BY DEF PutBack
<1>2. /\ Linked(mem, s, alloc) /\ mem.size = Len(s["pc"]) /\ None \notin alloc
      /\ MarksTell(mem.mark, alloc, phase, current, s) /\ Typed(s, alloc)
      /\ Pace(alloc, phase, current, cursor, listSize, s, r) /\ alloc \in SUBSET Objects
      /\ {"pc", "root", "nonRoot", "queue"} = ListNames
  BY <1>1, NowFacts
<1>3. r = <<>> /\ Len(r) = 0
  <2>1. r \in Seq(alloc) /\ At(r, 1) = None
    BY <1>1, <1>2 DEF Pace
  <2> QED BY <1>2, <2>1, AtEnd
<1>4. current = None /\ s["root"] = <<>> /\ s["queue"] = <<>>
  BY <1>1, <1>2 DEF Pace
<1>5. listSize = Len(s["nonRoot"]) /\ listSize \in Nat /\ mem.size \in Nat
  <2>1. Len(s["nonRoot"]) \in Nat /\ Len(s["pc"]) \in Nat
    BY <1>2 DEF Typed
  <2>2. listSize = Len(s["nonRoot"]) - Len(r)
    BY <1>1, <1>2 DEF Pace
  <2> QED BY <1>2, <1>3, <2>1, <2>2
<1>6. /\ Linked(mem', u, alloc) /\ mem'.size = Len(u["pc"])
      /\ Marked(mem', mem, s["nonRoot"], "PossibleCycles")
      /\ u["nonRoot"] = <<>> /\ u["root"] = s["root"] /\ u["queue"] = s["queue"]
      /\ \A x : In(x, u["pc"]) <=> In(x, s["nonRoot"]) \/ In(x, s["pc"])
  <2>1. Linked(mem, s, alloc) /\ mem.size = Len(s["pc"])
    BY <1>2
  <2> DEFINE a == MarkSelfAndAppend(SwapList(mem, listSize), "PossibleCycles", mem.size)
  <2> HIDE DEF u
  <2>2. /\ Linked(a, Joined(s), alloc) /\ a.size = Len(Joined(s)["pc"])
        /\ Marked(a, mem, s["nonRoot"], "PossibleCycles")
    BY <1>5, <2>1, PutEffect
  <2>3. /\ Joined(s)["nonRoot"] = <<>> /\ Joined(s)["root"] = s["root"]
        /\ Joined(s)["queue"] = s["queue"]
    BY <1>5, <2>1, PutEffect
  <2>4. \A x : In(x, Joined(s)["pc"]) <=> In(x, s["nonRoot"]) \/ In(x, s["pc"])
    BY <1>5, <2>1, PutEffect
  <2>5. mem' = a
    BY <1>1
  <2> HIDE DEF a
  <2> QED BY <2>2, <2>3, <2>4, <2>5 DEF u
<1> HIDE DEF u
<1>7. MarksTell(mem'.mark, alloc, "idle", None, u)
  <2> SUFFICES ASSUME NEW x \in alloc PROVE MarkTells(mem'.mark[x], x, "idle", None, u)
    BY DEF MarksTell
  <2>1. MarkTells(mem.mark[x], x, phase, current, s) /\ x \in Objects
    BY <1>2 DEF MarksTell
  <2>2. mem'.mark[x] = IF In(x, s["nonRoot"]) THEN "PossibleCycles" ELSE mem.mark[x]
    BY <1>6, <2>1 DEF Marked
  <2>3. ~In(x, u["root"]) /\ ~In(x, u["nonRoot"]) /\ ~In(x, u["queue"])
        /\ ~In(x, s["root"]) /\ ~In(x, s["queue"])
    BY <1>4, <1>6, InEmpty
  <2>4. In(x, u["pc"]) <=> In(x, s["nonRoot"]) \/ In(x, s["pc"])
    BY <1>6
  <2> QED BY <1>1, <2>1, <2>2, <2>3, <2>4 DEF MarkTells
<1>8. Pace(alloc, "idle", None, None, 0, u, <<>>)
  <2>1. Typed(u, alloc)
    BY <1>6, LinkedMembers
  <2> QED BY <1>4, <1>6, <2>1, QuietPace DEF Quiet
<1>9. Then(u, <<>>)
  BY <1>1, <1>4, <1>6, <1>7, <1>8 DEF Then, Shape, Linkage
<1> QED BY <1>3, <1>9 DEF u

(* The list whose elements are freed is not one of those that are linked.     *)
LEMMA ForgetLinked ==
    ASSUME NEW h, NEW s, NEW A, Linked(h, s, A)
    PROVE  Linked(Forgotten(h), Emptied(s, "nonRoot"), A \ ToSet(s["nonRoot"]))
<1> DEFINE g == Forgotten(h)
           u == Emptied(s, "nonRoot")
           B == A \ ToSet(s["nonRoot"])
<1>1. /\ h \in Heaps /\ A \in SUBSET Objects /\ s \in [ListNames -> Seq(A)]
      /\ \A k \in ListNames :
           /\ Len(s[k]) \in Nat
           /\ \A i \in 1..Len(s[k]) : s[k][i] \in A
           /\ h.first[k] = IF Len(s[k]) = 0 THEN None ELSE s[k][1]
           /\ \A i \in 1..Len(s[k]) :
                /\ h.next[s[k][i]] = IF i = Len(s[k]) THEN None ELSE s[k][i + 1]
                /\ h.prev[s[k][i]] = IF k = "queue" \/ i = 1 THEN None ELSE s[k][i - 1]
      /\ \A k, m \in ListNames : \A i \in 1..Len(s[k]), j \in 1..Len(s[m]) :
           s[k][i] = s[m][j] => k = m /\ i = j
      /\ h.last = (LET q == s["queue"] IN IF Len(q) = 0 THEN None ELSE q[Len(q)])
      /\ "queue" \in ListNames
  BY LinkedFacts
<1>0. "nonRoot" \in ListNames
  BY DEF ListNames
<1>2. /\ g \in Heaps /\ g.next = h.next /\ g.prev = h.prev /\ g.last = h.last
      /\ \A k \in ListNames : g.first[k] = IF k = "nonRoot" THEN None ELSE h.first[k]
  BY <1>1, <1>0 DEF Forgotten, Heaps, Links
<1>3. Len(<<>>) = 0 /\ <<>> \in Seq(B)
  BY EmptySeq
<1>4. /\ u["nonRoot"] = <<>> /\ \A k \in ListNames : k # "nonRoot" => u[k] = s[k]
      /\ u = [k \in ListNames |-> u[k]]
  BY <1>0, <1>1 DEF Emptied
<1>5. \A x : x \in ToSet(s["nonRoot"]) <=> In(x, s["nonRoot"])
  <2>1. s["nonRoot"] \in Seq(A)
    BY <1>0, <1>1
  <2> QED BY <2>1, InToSet
<1> HIDE DEF g, u
<1>6. ASSUME NEW k \in ListNames PROVE u[k] \in Seq(B)
  <2>1. CASE k = "nonRoot"
    BY <1>3, <1>4, <2>1
  <2>2. CASE k # "nonRoot"
    <3>1. s[k] \in Seq(A) /\ Len(s[k]) \in Nat /\ s[k] \in [1..Len(s[k]) -> A]
      BY <1>1, LenProperties
    <3>2. ASSUME NEW i \in 1..Len(s[k]) PROVE s[k][i] \in B
      <4>1. ~In(s[k][i], s["nonRoot"])
        BY <1>0, <1>1, <2>2 DEF In
      <4> QED BY <1>1, <1>5, <4>1
    <3>3. s[k] \in [1..Len(s[k]) -> B]
      BY <3>1, <3>2
    <3>4. s[k] \in Seq(B)
      BY <3>1, <3>3, SeqDef
    <3> QED BY <1>4, <2>2, <3>4
  <2> QED BY <2>1, <2>2
<1>7. u \in [ListNames -> Seq(B)] /\ B \in SUBSET Objects
  BY <1>1, <1>4, <1>6
<1>8. \A k, m \in ListNames : \A i \in 1..Len(u[k]), j \in 1..Len(u[m]) :
        u[k][i] = u[m][j] => k = m /\ i = j
  <2> SUFFICES ASSUME NEW k \in ListNames, NEW m \in ListNames,
                      NEW i \in 1..Len(u[k]), NEW j \in 1..Len(u[m]), u[k][i] = u[m][j]
               PROVE  k = m /\ i = j
    OBVIOUS
  <2>1. k # "nonRoot" /\ m # "nonRoot"
    BY <1>3, <1>4
  <2>2. u[k] = s[k] /\ u[m] = s[m]
    BY <1>4, <2>1
  <2> QED BY <1>1, <2>2
<1>9. ASSUME NEW k \in ListNames
      PROVE  /\ g.first[k] = IF Len(u[k]) = 0 THEN None ELSE u[k][1]
             /\ \A i \in 1..Len(u[k]) :
                  /\ g.next[u[k][i]] = IF i = Len(u[k]) THEN None ELSE u[k][i + 1]
                  /\ g.prev[u[k][i]] = IF k = "queue" \/ i = 1 THEN None ELSE u[k][i - 1]
  BY <1>1, <1>2, <1>3, <1>4
<1>10. g.last = IF Len(u["queue"]) = 0 THEN None ELSE u["queue"][Len(u["queue"])]
  BY <1>1, <1>2, <1>4
<1>11. NoLinks(g, u, B)
  <2> SUFFICES ASSUME NEW o \in B, Outside(u, o) PROVE g.next[o] = None /\ g.prev[o] = None
    BY DEF NoLinks
  <2>1. \A k \in ListNames : ~In(o, u[k])
    BY OutsideIn
  <2>2. \A k \in ListNames : ~In(o, s[k])
    BY <1>4, <1>5, <2>1
  <2>3. Outside(s, o)
    BY <2>2, OutsideIn
  <2> QED BY <1>2, <2>3 DEF Linked, NoLinks
<1>12. Linked(g, u, B)
  <2> HIDE DEF B
  <2> QED BY <1>2, <1>7, <1>8, <1>9, <1>10, <1>11, LinkedNow
<1> QED BY <1>12 DEF g, u

LEMMA StartFreeingKeeps ==
    ASSUME NEW s, NEW r, Now(s, r), StartFreeing
    PROVE  Then(s, s["nonRoot"]) /\ r = <<>>
<1> DEFINE t == s["nonRoot"]
<1>1. /\ phase = "dropping" /\ cursor = None /\ phase' = "freeing"
      /\ cursor' = mem.first["nonRoot"]
      /\ UNCHANGED <<mem, alloc, current, listSize>>
  BY DEF StartFreeing
<1>2. /\ Linked(mem, s, alloc) /\ mem.size = Len(s["pc"]) /\ None \notin alloc
      /\ MarksTell(mem.mark, alloc, phase, current, s) /\ Typed(s, alloc)
      /\ Pace(alloc, phase, current, cursor, listSize, s, r) /\ alloc \in SUBSET Objects
      /\ {"pc", "root", "nonRoot", "queue"} = ListNames
      /\ \A k \in ListNames : mem.first[k] = At(s[k], 1)
  BY <1>1, NowFacts
<1>3. cursor' = At(t, 1) /\ t \in Seq(alloc) /\ Rest(t, t)
  <2>1. cursor' = At(t, 1) /\ t \in Seq(alloc)
    BY <1>1, <1>2 DEF Typed
  <2> QED BY <2>1, WholeRest
<1>4. r = <<>>
  <2>1. r \in Seq(alloc) /\ At(r, 1) = None
    BY <1>1, <1>2 DEF Pace
  <2> QED BY <1>2, <2>1, AtEnd
<1>5. MarksTell(mem.mark, alloc, "freeing", current, s)
  BY <1>1, <1>2 DEF MarksTell, MarkTells
<1>6. Pace(alloc, "freeing", current, cursor', 0, s, t)
  BY <1>1, <1>2, <1>3 DEF Pace, Phases
<1>7. listSize = 0
  BY <1>1, <1>2 DEF Pace
<1>8. Linkage(mem, alloc, "freeing", current, cursor', s, t)
  <2>1. Linked(Forgotten(mem), Emptied(s, "nonRoot"), alloc \ ToSet(t))
    BY <1>2, ForgetLinked
  <2>2. Chain(mem, cursor', t)
    <3>1. "nonRoot" \in ListNames
      BY <1>2
    <3> QED BY <1>1, <1>2, <3>1, ListChain
  <2>3. mem \in Heaps /\ s \in [ListNames -> Seq(alloc)]
    BY <1>2 DEF Linked
  <2> QED BY <1>2, <2>1, <2>2, <2>3 DEF Linkage, Emptied
<1>9. Then(s, t)
  BY <1>1, <1>2, <1>5, <1>6, <1>7, <1>8 DEF Then, Shape
<1> QED BY <1>4, <1>9 DEF t

Given(s, r) == [s EXCEPT !["nonRoot"] = Tail(r)]

LEMMA FreeVisitedKeeps ==
    ASSUME NEW s, NEW r, Now(s, r), FreeVisited
    PROVE  /\ Then(Given(s, r), Tail(r)) /\ r # <<>> /\ alloc' = alloc \ {Head(r)}
           /\ r = s["nonRoot"]
<1> DEFINE q == Tail(r)
           u == Given(s, r)
           B == alloc \ ToSet(r)
           v == Emptied(s, "nonRoot")
<1>1. /\ phase = "freeing" /\ cursor # None /\ alloc' = alloc \ {cursor}
      /\ cursor' = mem.next[cursor]
      /\ UNCHANGED <<mem, phase, current, listSize>>
  BY DEF FreeVisited
<1>2. /\ Linked(Forgotten(mem), v, B) /\ mem.size = Len(s["pc"])
      /\ mem \in Heaps /\ alloc \in SUBSET Objects /\ s \in [ListNames -> Seq(alloc)]
      /\ Chain(mem, cursor, r)
      /\ MarksTell(mem.mark, alloc, phase, current, s)
      /\ Pace(alloc, phase, current, cursor, listSize, s, r)
  BY <1>1 DEF Now, Shape, Linkage, Emptied
<1>3. /\ r \in Seq(alloc) /\ r = s["nonRoot"] /\ current = None /\ listSize = 0
      /\ s["root"] = <<>> /\ s["queue"] = <<>>
  BY <1>1, <1>2 DEF Pace
<1>4. /\ r # <<>> /\ cursor \in alloc /\ Head(r) = cursor /\ In(cursor, r)
      /\ cursor' = At(q, 1) /\ q \in Seq(alloc) /\ Chain(mem, cursor', q)
      /\ \A x : In(x, q) <=> x # cursor /\ In(x, r)
  <2>1. /\ r # <<>> /\ Head(r) = cursor /\ In(cursor, r)
        /\ cursor' = At(q, 1) /\ q \in Seq(alloc) /\ Chain(mem, cursor', q)
        /\ \A x : In(x, q) <=> x # cursor /\ In(x, r)
    BY <1>1, <1>2, <1>3, TailChain
  <2>2. cursor \in alloc
    BY <1>3, <2>1, InToSet
  <2> QED BY <2>1, <2>2
<1> HIDE DEF q
<1>5. \A x : /\ x \in ToSet(r) <=> In(x, r)
             /\ x \in ToSet(q) <=> In(x, q)
  BY <1>3, <1>4, InToSet
<1>6. q \in Seq(alloc')
  <2>1. Len(q) \in Nat /\ q \in [1..Len(q) -> alloc]
    BY <1>4, LenProperties
  <2>2. ASSUME NEW i \in 1..Len(q) PROVE q[i] \in alloc'
    <3>1. In(q[i], q)
      BY DEF In
    <3> QED BY <1>1, <1>4, <2>1, <3>1
  <2>3. q \in [1..Len(q) -> alloc']
    BY <2>1, <2>2
  <2> QED BY <2>1, <2>3, SeqDef
<1>7. alloc' \ ToSet(q) = B
  BY <1>1, <1>4, <1>5
<1>8. v \in [ListNames -> Seq(B)] /\ B \in SUBSET alloc'
  BY <1>1, <1>2, <1>4, <1>5 DEF Linked
<1>9. /\ {"pc", "root", "nonRoot", "queue"} = ListNames
      /\ v["nonRoot"] = <<>> /\ \A k \in ListNames : k # "nonRoot" => v[k] = s[k]
      /\ u["nonRoot"] = q /\ \A k \in ListNames : k # "nonRoot" => u[k] = s[k]
      /\ u = [k \in ListNames |-> u[k]]
      /\ [u EXCEPT !["nonRoot"] = <<>>] = v
  BY <1>2 DEF Emptied, Given, ListNames, q
<1> HIDE DEF u, v, B
<1>10. u \in [ListNames -> Seq(alloc')]
  <2>1. ASSUME NEW k \in ListNames PROVE u[k] \in Seq(alloc')
    <3>1. CASE k = "nonRoot"
      BY <1>6, <1>9, <3>1
    <3>2. CASE k # "nonRoot"
      <4>1. v[k] \in Seq(B)
        BY <1>8
      <4>2. v[k] \in Seq(alloc')
        BY <1>8, <4>1, SeqMonotonic
      <4> QED BY <1>9, <3>2, <4>2
    <3> QED BY <3>1, <3>2
  <2> QED BY <1>9, <2>1
<1>11. Linkage(mem, alloc', "freeing", current, cursor', u, q)
  BY <1>1, <1>2, <1>4, <1>7, <1>9, <1>10 DEF Linkage
<1>12. MarksTell(mem.mark, alloc', "freeing", current, u)
  <2> SUFFICES ASSUME NEW x \in alloc' PROVE MarkTells(mem.mark[x], x, "freeing", current, u)
    BY DEF MarksTell
  <2>1. MarkTells(mem.mark[x], x, "freeing", current, s) /\ x # cursor
    BY <1>1, <1>2 DEF MarksTell
  <2>2. u["pc"] = s["pc"] /\ u["root"] = s["root"] /\ u["queue"] = s["queue"]
        /\ (In(x, u["nonRoot"]) <=> In(x, s["nonRoot"]))
    BY <1>3, <1>4, <1>9, <2>1
  <2> QED BY <2>1, <2>2 DEF MarkTells
<1>13. Pace(alloc', "freeing", current, cursor', 0, u, q)
  <2>1. Rest(q, q)
    BY <1>4, WholeRest
  <2>2. u["root"] = <<>> /\ u["queue"] = <<>> /\ u["nonRoot"] = q
    BY <1>3, <1>9
  <2> QED BY <1>3, <1>4, <1>6, <2>1, <2>2 DEF Pace, Phases
<1>14. u["pc"] = s["pc"]
  BY <1>9
<1>15. Then(u, q)
  BY <1>1, <1>2, <1>3, <1>11, <1>12, <1>13, <1>14 DEF Then, Shape
<1> QED BY <1>1, <1>3, <1>4, <1>15 DEF u, q

LEMMA EndFreeingKeeps ==
    ASSUME NEW s, NEW r, Now(s, r), EndFreeing
    PROVE  Then(s, r)
<1> DEFINE v == Emptied(s, "nonRoot")
<1>1. /\ phase = "freeing" /\ cursor = None /\ phase' = "idle" /\ mem' = Forgotten(mem)
      /\ UNCHANGED <<alloc, current, cursor, listSize>>
  BY DEF EndFreeing, Forgotten
<1>2. /\ Linked(Forgotten(mem), v, alloc \ ToSet(r)) /\ mem.size = Len(s["pc"])
      /\ mem \in Heaps /\ alloc \in SUBSET Objects /\ s \in [ListNames -> Seq(alloc)]
      /\ MarksTell(mem.mark, alloc, phase, current, s)
      /\ Pace(alloc, phase, current, cursor, listSize, s, r)
  BY <1>1 DEF Now, Shape, Linkage, Emptied
<1>3. /\ r \in Seq(alloc) /\ r = s["nonRoot"] /\ current = None /\ listSize = 0
      /\ s["root"] = <<>> /\ s["queue"] = <<>> /\ At(r, 1) = None
  BY <1>1, <1>2 DEF Pace
<1>4. r = <<>>
  <2>1. None \notin alloc
    BY <1>2, NoneAssumption
  <2> QED BY <1>3, <2>1, AtEnd
<1>5. v = s
  BY <1>2, <1>3, <1>4 DEF Emptied
<1>6. alloc \ ToSet(r) = alloc
  <2>1. \A x : x \notin ToSet(r)
    <3>1. \A x : x \in ToSet(r) <=> In(x, r)
      BY <1>3, InToSet
    <3> QED BY <1>4, <3>1, InEmpty
  <2> QED BY <2>1
<1>7. Linked(mem', s, alloc)
  BY <1>1, <1>2, <1>5, <1>6
<1>8. mem'.size = mem.size /\ mem'.mark = mem.mark
  BY <1>1, <1>2 DEF Forgotten, Heaps
<1>9. MarksTell(mem.mark, alloc, "idle", None, s)
  BY <1>1, <1>2, <1>3 DEF MarksTell, MarkTells
<1>10. Pace(alloc, "idle", None, None, 0, s, <<>>)
  <2>1. Typed(s, alloc)
    BY <1>7, LinkedMembers
  <2> QED BY <1>3, <1>4, <2>1, QuietPace DEF Quiet
<1> QED BY <1>1, <1>2, <1>3, <1>4, <1>7, <1>8, <1>9, <1>10 DEF Then, Shape, Linkage

-----------------------------------------------------------------------------
(* The invariant holds of the contents and the rest that the model computes.  *)

LEMMA NowTells ==
    ASSUME NEW s, NEW r, Now(s, r)
    PROVE  /\ Contents = s /\ Walk(mem, cursor) = r /\ mem.size = Len(s["pc"])
           /\ s \in [ListNames -> Seq(alloc)] /\ r \in Seq(alloc)
<1>1. Shape(mem, alloc, phase, current, cursor, listSize, s, r)
  BY DEF Now
<1>2. /\ Walk(mem, cursor) = r
      /\ s = [l \in ListNames |-> IF l = "nonRoot" /\ phase = "freeing"
                                  THEN Walk(mem, cursor) ELSE Walk(mem, mem.first[l])]
  BY <1>1, ChainsTell
<1>3. Contents = s
  BY <1>2 DEF Contents, Content
<1>4. mem.size = Len(s["pc"]) /\ s \in [ListNames -> Seq(alloc)] /\ r \in Seq(alloc)
  BY <1>1 DEF Shape, Linkage, Linked, Pace
<1> QED BY <1>2, <1>3, <1>4

LEMMA ThenTells ==
    ASSUME NEW s, NEW r, Then(s, r)
    PROVE  Contents' = s /\ Walk(mem', cursor') = r /\ mem'.size = Len(s["pc"]) /\ ListsInv'
<1>1. Shape(mem', alloc', phase', current', cursor', listSize', s, r)
  BY DEF Then
<1>2. /\ Walk(mem', cursor') = r
      /\ s = [l \in ListNames |-> IF l = "nonRoot" /\ phase' = "freeing"
                                  THEN Walk(mem', cursor') ELSE Walk(mem', mem'.first[l])]
  BY <1>1, ChainsTell
<1>3. Contents' = s
  BY <1>2 DEF Contents, Content
<1>4. mem'.size = Len(s["pc"])
  BY <1>1 DEF Shape
<1>5. ListsInv'
  BY <1>1, <1>2, <1>3 DEF ListsInv
<1> QED BY <1>2, <1>3, <1>4, <1>5

(* At the beginning there is nothing in the lists. *)
LEMMA InitKeeps ==
    ASSUME Init
    PROVE  ListsInv /\ Sequences_!SeqInit
<1> DEFINE s == [l \in ListNames |-> <<>>]
<1>1. /\ mem = [next |-> [o \in Objects |-> None], prev |-> [o \in Objects |-> None],
                mark |-> [o \in Objects |-> "NonMarked"],
                first |-> [l \in ListNames |-> None], last |-> None, size |-> 0]
      /\ alloc = {} /\ phase = "idle" /\ current = None /\ cursor = None /\ listSize = 0
  BY DEF Init
<1>2. <<>> \in Seq({}) /\ Len(<<>>) = 0
  BY EmptySeq
<1>3. s \in [ListNames -> Seq({})] /\ \A k \in ListNames : s[k] = <<>> /\ Len(s[k]) = 0
  BY <1>2
<1>4. /\ "queue" \in ListNames /\ "pc" \in ListNames /\ "root" \in ListNames
      /\ "nonRoot" \in ListNames
  BY DEF ListNames
<1>5. mem \in Heaps /\ mem.last = None /\ mem.size = 0 /\ \A k \in ListNames : mem.first[k] = None
  BY <1>1 DEF Heaps, Links, Marks
<1> HIDE DEF s
<1>6. Linked(mem, s, {})
  <2>1. NoLinks(mem, s, {})
    BY DEF NoLinks
  <2> QED BY <1>3, <1>4, <1>5, <2>1, LinkedNow
<1>7. Pace({}, "idle", None, None, 0, s, <<>>)
  <2>1. Typed(s, {})
    BY <1>6, LinkedMembers
  <2> QED BY <1>3, <1>4, <2>1, QuietPace DEF Quiet
<1>8. Now(s, <<>>)
  <2>1. MarksTell(mem.mark, {}, "idle", None, s)
    BY DEF MarksTell
  <2>2. mem.size = Len(s["pc"])
    BY <1>3, <1>4, <1>5
  <2>3. Linkage(mem, {}, "idle", None, None, s, <<>>)
    BY <1>6 DEF Linkage
  <2> QED BY <1>1, <1>7, <2>1, <2>2, <2>3 DEF Now, Shape
<1>9. Contents = s /\ Walk(mem, cursor) = <<>>
  BY <1>8, NowTells
<1>10. ListsInv
  BY <1>8, <1>9 DEF ListsInv, Now
<1>11. Sequences_!SeqInit
  <2>1. Contents = [l \in {"pc", "root", "nonRoot", "queue"} |-> <<>>]
    BY <1>9 DEF s, ListNames
  <2> QED BY <1>1, <1>5, <1>9, <2>1 DEF Sequences_!SeqInit, Sequences_!Names
<1> QED BY <1>10, <1>11

-----------------------------------------------------------------------------
(* The steps of CcSequences *)

(* What a step starts from and what it leads to, in the terms of CcSequences  *)
From(s, r) == Contents = s /\ Walk(mem, cursor) = r /\ mem.size = Len(s["pc"])
             /\ s \in [ListNames -> Seq(alloc)]
To(s, r) == Contents' = s /\ Walk(mem', cursor') = r /\ mem'.size = Len(s["pc"])

LEMMA LooseTells ==
    ASSUME NEW s, NEW r, From(s, r), NEW o \in alloc, Outside(s, o)
    PROVE  o \in Sequences_!Loose
<1>1. ASSUME NEW l \in ListNames PROVE o \notin ToSet(s[l])
  <2>1. s[l] \in Seq(alloc) /\ ~In(o, s[l])
    BY OutsideIn DEF From
  <2> QED BY <2>1, InToSet
<1>2. Sequences_!Names = ListNames
  BY DEF Sequences_!Names, ListNames
<1>3. \A l \in ListNames : o \notin ToSet(Contents[l])
  BY <1>1 DEF From
<1>4. o \notin Sequences_!Elements
  <2>1. \A l \in ListNames : Sequences_!ToSet(Contents[l]) = ToSet(Contents[l])
    BY DEF Sequences_!ToSet, ToSet
  <2> QED BY <1>2, <1>3, <2>1 DEF Sequences_!Elements
<1> QED BY <1>4 DEF Sequences_!Loose

LEMMA SameRemoveAt ==
    ASSUME NEW t, NEW e
    PROVE  Sequences_!RemoveAt(t, e) = RemoveAt(t, e)
BY DEF Sequences_!RemoveAt, RemoveAt

LEMMA SameStep ==
    ASSUME NEW s, NEW r, From(s, r), To(s, r), UNCHANGED alloc
    PROVE  UNCHANGED Sequences_!seqVars
BY DEF From, To, Sequences_!seqVars

LEMMA AllocateStep ==
    ASSUME NEW s, NEW r, From(s, r), To(s, r), NEW o \in Objects, o \notin alloc,
           alloc' = alloc \cup {o}
    PROVE  Sequences_!SeqNext
BY DEF From, To, Sequences_!SeqNext, Sequences_!Allocate

LEMMA ReleaseStep ==
    ASSUME NEW s, NEW r, From(s, r), To(s, r), NEW o \in alloc, Outside(s, o),
           alloc' = alloc \ {o}
    PROVE  Sequences_!SeqNext
<1>1. o \in Sequences_!Loose
  BY LooseTells
<1> QED BY <1>1 DEF From, To, Sequences_!SeqNext, Sequences_!Release

LEMMA AddStep ==
    ASSUME NEW s, NEW r, From(s, r), NEW o \in alloc, Outside(s, o), UNCHANGED alloc,
           \/ \E l \in ListNames \ {"queue"} : To(Ahead(s, l, o), r)
           \/ To(Queued(s, o), r)
    PROVE  Sequences_!SeqNext
<1>1. o \in Sequences_!Loose
  BY LooseTells
<1>2. Sequences_!Names = ListNames
  BY DEF Sequences_!Names, ListNames
<1> QED BY <1>1, <1>2 DEF From, To, Ahead, Queued, Sequences_!SeqNext, Sequences_!Add,
                          Sequences_!Sized, Sequences_!InFront

LEMMA TakeStep ==
    ASSUME NEW s, NEW r, From(s, r), UNCHANGED alloc,
           \/ \E l \in ListNames : s[l] # <<>> /\ To(Behind(s, l), r)
           \/ \E e \in 1..Len(s["pc"]) : To(Out(s, "pc", e), r)
    PROVE  Sequences_!SeqNext
<1>1. Sequences_!Names = ListNames
  BY DEF Sequences_!Names, ListNames
<1>2. DOMAIN s["pc"] = 1..Len(s["pc"])
  BY LenProperties DEF From, ListNames
<1>3. UNCHANGED <<alloc, Walk(mem, cursor)>>
  BY DEF From, To
<1>4. CASE \E l \in ListNames : s[l] # <<>> /\ To(Behind(s, l), r)
  <2>1. PICK l \in ListNames : s[l] # <<>> /\ To(Behind(s, l), r)
    BY <1>4
  <2>2. Contents[l] # <<>> /\ Sequences_!Sized([Contents EXCEPT ![l] = Tail(@)])
    BY <2>1 DEF From, To, Behind, Sequences_!Sized
  <2> QED BY <1>1, <1>3, <2>2 DEF Sequences_!SeqNext, Sequences_!TakeOut
<1>5. CASE \E e \in 1..Len(s["pc"]) : To(Out(s, "pc", e), r)
  <2>1. PICK e \in 1..Len(s["pc"]) : To(Out(s, "pc", e), r)
    BY <1>5
  <2>2. e \in DOMAIN Contents["pc"] /\ Sequences_!Sized([Contents EXCEPT !["pc"] = RemoveAt(@, e)])
    BY <1>2, <2>1 DEF From, To, Out, Sequences_!Sized
  <2> QED BY <1>3, <2>2, SameRemoveAt DEF Sequences_!SeqNext, Sequences_!TakeOut
<1> QED BY <1>4, <1>5

LEMMA MoveStep ==
    ASSUME NEW s, NEW r, From(s, r), UNCHANGED alloc,
           \/ \E e \in 1..Len(s["root"]) :
                To(Ahead(Out(s, "root", e), "nonRoot", s["root"][e]), r)
           \/ \E e \in 1..Len(s["nonRoot"]) :
                To(Queued(Out(s, "nonRoot", e), s["nonRoot"][e]), r)
    PROVE  Sequences_!SeqNext
<1>1. DOMAIN s["root"] = 1..Len(s["root"]) /\ DOMAIN s["nonRoot"] = 1..Len(s["nonRoot"])
  BY LenProperties DEF From, ListNames
<1>2. UNCHANGED <<alloc, Walk(mem, cursor)>>
  BY DEF From, To
<1>3. CASE \E e \in 1..Len(s["root"]) :
             To(Ahead(Out(s, "root", e), "nonRoot", s["root"][e]), r)
  <2>1. PICK e \in 1..Len(s["root"]) : To(Ahead(Out(s, "root", e), "nonRoot", s["root"][e]), r)
    BY <1>3
  <2> DEFINE o == s["root"][e]
             u == [s EXCEPT !["root"] = RemoveAt(@, e), !["nonRoot"] = <<o>> \o @]
  <2>2. Ahead(Out(s, "root", e), "nonRoot", o) = u
    BY DEF Ahead, Out
  <2>3. e \in DOMAIN Contents["root"] /\ Sequences_!Sized(u)
    BY <1>1, <2>1, <2>2 DEF From, To, Sequences_!Sized
  <2> QED BY <1>2, <2>3, SameRemoveAt
          DEF From, Sequences_!SeqNext, Sequences_!Move, Sequences_!InFront
<1>4. CASE \E e \in 1..Len(s["nonRoot"]) :
             To(Queued(Out(s, "nonRoot", e), s["nonRoot"][e]), r)
  <2>1. PICK e \in 1..Len(s["nonRoot"]) : To(Queued(Out(s, "nonRoot", e), s["nonRoot"][e]), r)
    BY <1>4
  <2> DEFINE o == s["nonRoot"][e]
             u == [s EXCEPT !["nonRoot"] = RemoveAt(@, e), !["queue"] = Append(@, o)]
  <2>2. Queued(Out(s, "nonRoot", e), o) = u
    BY DEF Queued, Out
  <2>3. e \in DOMAIN Contents["nonRoot"] /\ Sequences_!Sized(u)
    BY <1>1, <2>1, <2>2 DEF From, To, Sequences_!Sized
  <2> QED BY <1>2, <2>3, SameRemoveAt DEF From, Sequences_!SeqNext, Sequences_!Move
<1> QED BY <1>3, <1>4

LEMMA StartStep ==
    ASSUME NEW s, NEW r, From(s, r), To(s, s["nonRoot"]), r = <<>>, UNCHANGED alloc
    PROVE  Sequences_!SeqNext
BY DEF From, To, Sequences_!SeqNext, Sequences_!Start

LEMMA VisitStep ==
    ASSUME NEW s, NEW r, From(s, r), To(s, Tail(r)), r # <<>>, UNCHANGED alloc
    PROVE  Sequences_!SeqNext
BY DEF From, To, Sequences_!SeqNext, Sequences_!Visit

LEMMA PutStep ==
    ASSUME NEW s, NEW r, From(s, r), To(Joined(s), <<>>), r = <<>>, UNCHANGED alloc
    PROVE  Sequences_!SeqNext
BY DEF From, To, Joined, Sequences_!SeqNext, Sequences_!PutInFront, Sequences_!Sized

LEMMA AbandonStep ==
    ASSUME NEW s, NEW r, From(s, r), UNCHANGED alloc,
           NEW u \in [ListNames -> {s["pc"], <<>>}], To(u, <<>>),
           \A k \in ListNames : u[k] = IF k = "pc" THEN s[k] ELSE <<>>
    PROVE  Sequences_!SeqNext
<1>1. Sequences_!Names = ListNames
  BY DEF Sequences_!Names, ListNames
<1>2. u = [k \in ListNames |-> IF k = "pc" THEN s[k] ELSE <<>>]
  OBVIOUS
<1> QED BY <1>1, <1>2 DEF From, To, Sequences_!SeqNext, Sequences_!Abandon, Sequences_!Sized

LEMMA EndStep ==
    ASSUME NEW s, NEW r, From(s, r), To(Emptied(s, "pc"), <<>>), r = <<>>, UNCHANGED alloc
    PROVE  Sequences_!SeqNext
BY DEF From, To, Emptied, Sequences_!SeqNext, Sequences_!End, Sequences_!Sized

LEMMA GiveStep ==
    ASSUME NEW s, NEW r, From(s, r), To(Given(s, r), Tail(r)), r # <<>>, alloc' = alloc \ {Head(r)}
    PROVE  Sequences_!SeqNext
BY DEF From, To, Given, Sequences_!SeqNext, Sequences_!GiveBack, Sequences_!Sized

-----------------------------------------------------------------------------
(* The theorems *)

LEMMA FromNow ==
    ASSUME NEW s, NEW r, Now(s, r)
    PROVE  From(s, r)
BY NowTells DEF From

LEMMA ToThen ==
    ASSUME NEW s, NEW r, Then(s, r)
    PROVE  To(s, r) /\ ListsInv'
BY ThenTells DEF To

(* Code of the program that uses the lists *)
LEMMA UserStep ==
    ASSUME NEW s, NEW r, Now(s, r), NEW o \in Objects,
           NewBox(o) \/ AddToList(o) \/ RemoveFromList(o) \/ FreeBox(o)
    PROVE  ListsInv' /\ Sequences_!SeqNext
<1>1. From(s, r)
  BY FromNow
<1>2. CASE NewBox(o)
  <2>1. Then(s, r)
    BY <1>2, NewBoxKeeps
  <2>2. o \notin alloc /\ alloc' = alloc \cup {o}
    BY <1>2 DEF NewBox
  <2> QED BY <1>1, <2>1, <2>2, ToThen, AllocateStep
<1>3. CASE AddToList(o)
  <2>1. Then(Ahead(s, "pc", o), r) /\ o \in alloc /\ Outside(s, o)
    BY <1>3, AddToListKeeps
  <2>2. UNCHANGED alloc /\ "pc" \in ListNames \ {"queue"}
    BY <1>3 DEF AddToList, ListNames
  <2> QED BY <1>1, <2>1, <2>2, ToThen, AddStep
<1>4. CASE RemoveFromList(o)
  <2>1. PICK e \in 1..Len(s["pc"]) : Then(Out(s, "pc", e), r)
    BY <1>4, RemoveFromListKeeps
  <2>2. UNCHANGED alloc
    BY <1>4 DEF RemoveFromList
  <2> QED BY <1>1, <2>1, <2>2, ToThen, TakeStep
<1>5. CASE FreeBox(o)
  <2>1. Then(s, r) /\ o \in alloc /\ Outside(s, o)
    BY <1>5, FreeBoxKeeps
  <2>2. alloc' = alloc \ {o}
    BY <1>5 DEF FreeBox
  <2> QED BY <1>1, <2>1, <2>2, ToThen, ReleaseStep
<1> QED BY <1>2, <1>3, <1>4, <1>5

(* Tracing moves objects between the lists. *)
LEMMA TracingStep ==
    ASSUME NEW s, NEW r, Now(s, r),
           \/ \E o \in Objects : QueueNew(o) \/ Promote(o) \/ Requeue(o)
           \/ TakeBuffered \/ TakeQueued \/ TakeRoot \/ TakeReached
           \/ \E l \in {"root", "nonRoot"} : File(l)
           \/ TracePanic
    PROVE  ListsInv' /\ Sequences_!SeqNext
<1>1. From(s, r)
  BY FromNow
<1>2. ASSUME NEW o \in Objects, QueueNew(o) PROVE ListsInv' /\ Sequences_!SeqNext
  <2>1. Then(Queued(s, o), r) /\ o \in alloc /\ Outside(s, o)
    BY <1>2, QueueNewKeeps
  <2>2. UNCHANGED alloc
    BY <1>2 DEF QueueNew, Tracing
  <2> QED BY <1>1, <2>1, <2>2, ToThen, AddStep
<1>3. ASSUME NEW o \in Objects, Promote(o) PROVE ListsInv' /\ Sequences_!SeqNext
  <2>1. PICK e \in 1..Len(s["root"]) : Then(Ahead(Out(s, "root", e), "nonRoot", s["root"][e]), r)
    BY <1>3, PromoteKeeps
  <2>2. UNCHANGED alloc
    BY <1>3 DEF Promote, Tracing
  <2> QED BY <1>1, <2>1, <2>2, ToThen, MoveStep
<1>4. ASSUME NEW o \in Objects, Requeue(o) PROVE ListsInv' /\ Sequences_!SeqNext
  <2>1. PICK e \in 1..Len(s["nonRoot"]) : Then(Queued(Out(s, "nonRoot", e), s["nonRoot"][e]), r)
    BY <1>4, RequeueKeeps
  <2>2. UNCHANGED alloc
    BY <1>4 DEF Requeue, Tracing
  <2> QED BY <1>1, <2>1, <2>2, ToThen, MoveStep
<1>5. CASE TakeBuffered \/ TakeQueued \/ TakeRoot \/ TakeReached
  <2>1. PICK l \in ListNames : Then(Behind(s, l), r) /\ s[l] # <<>>
    BY <1>5, TakingKeeps
  <2>2. UNCHANGED alloc
    BY <1>5 DEF TakeBuffered, TakeQueued, TakeRoot, TakeReached, Tracing
  <2> QED BY <1>1, <2>1, <2>2, ToThen, TakeStep
<1>6. ASSUME NEW l \in {"root", "nonRoot"}, File(l) PROVE ListsInv' /\ Sequences_!SeqNext
  <2>1. PICK x : x = current
    OBVIOUS
  <2>2. Then(Ahead(s, l, x), r) /\ x \in alloc /\ Outside(s, x)
    BY <1>6, <2>1, FileKeeps
  <2>3. UNCHANGED alloc /\ l \in ListNames \ {"queue"}
    BY <1>6 DEF File, Tracing, ListNames
  <2> QED BY <1>1, <2>2, <2>3, ToThen, AddStep
<1>7. CASE TracePanic
  <2> DEFINE u == Abandoned(s)
  <2>1. Then(u, <<>>)
    BY <1>7, TracePanicKeeps
  <2>2. /\ u \in [ListNames -> {s["pc"], <<>>}]
        /\ \A k \in ListNames : u[k] = IF k = "pc" THEN s[k] ELSE <<>>
    <3>1. s \in [ListNames -> Seq(alloc)]
      BY <1>1 DEF From
    <3>2. \A k \in ListNames : u[k] = IF k = "pc" THEN s[k] ELSE <<>>
      BY <3>1 DEF Abandoned, Emptied, ListNames
    <3>3. u = [k \in ListNames |-> u[k]]
      BY <3>1 DEF Abandoned, Emptied
    <3> HIDE DEF u
    <3>4. u \in [ListNames -> {s["pc"], <<>>}]
      BY <3>2, <3>3
    <3> QED BY <3>2, <3>4
  <2>3. UNCHANGED alloc
    BY <1>7 DEF TracePanic
  <2> HIDE DEF u
  <2> QED BY <1>1, <2>1, <2>2, <2>3, ToThen, AbandonStep
<1> QED BY <1>2, <1>3, <1>4, <1>5, <1>6, <1>7

(* The iterations over non_root_list *)
LEMMA IterationStep ==
    ASSUME NEW s, NEW r, Now(s, r),
           \/ EndTracing \/ Visit \/ UserPanic \/ PutBack \/ StartDropping \/ StartFreeing
           \/ FreeVisited \/ EndThread
    PROVE  ListsInv' /\ Sequences_!SeqNext
<1>1. From(s, r)
  BY FromNow
<1>2. CASE EndTracing \/ StartDropping \/ StartFreeing
  <2>1. Then(s, s["nonRoot"]) /\ r = <<>>
    BY <1>2, EndTracingKeeps, StartDroppingKeeps, StartFreeingKeeps
  <2>2. UNCHANGED alloc
    BY <1>2 DEF EndTracing, StartDropping, StartFreeing
  <2> QED BY <1>1, <2>1, <2>2, ToThen, StartStep
<1>3. CASE Visit
  <2>1. Then(s, Tail(r)) /\ r # <<>>
    BY <1>3, VisitKeeps
  <2>2. UNCHANGED alloc
    BY <1>3 DEF Visit
  <2> QED BY <1>1, <2>1, <2>2, ToThen, VisitStep
<1>4. CASE UserPanic
  <2> DEFINE u == Emptied(s, "nonRoot")
  <2>1. Then(u, <<>>) /\ s["root"] = <<>> /\ s["queue"] = <<>>
    BY <1>4, UserPanicKeeps
  <2>2. /\ u \in [ListNames -> {s["pc"], <<>>}]
        /\ \A k \in ListNames : u[k] = IF k = "pc" THEN s[k] ELSE <<>>
    <3>1. s \in [ListNames -> Seq(alloc)]
      BY <1>1 DEF From
    <3>2. \A k \in ListNames : u[k] = IF k = "pc" THEN s[k] ELSE <<>>
      BY <2>1, <3>1 DEF Emptied, ListNames
    <3>3. u = [k \in ListNames |-> u[k]]
      BY <3>1 DEF Emptied
    <3> HIDE DEF u
    <3>4. u \in [ListNames -> {s["pc"], <<>>}]
      BY <3>2, <3>3
    <3> QED BY <3>2, <3>4
  <2>3. UNCHANGED alloc
    BY <1>4 DEF UserPanic
  <2> HIDE DEF u
  <2> QED BY <1>1, <2>1, <2>2, <2>3, ToThen, AbandonStep
<1>5. CASE PutBack
  <2>1. Then(Joined(s), <<>>) /\ r = <<>>
    BY <1>5, PutBackKeeps
  <2>2. UNCHANGED alloc
    BY <1>5 DEF PutBack
  <2> QED BY <1>1, <2>1, <2>2, ToThen, PutStep
<1>6. CASE FreeVisited
  <2>1. Then(Given(s, r), Tail(r)) /\ r # <<>> /\ alloc' = alloc \ {Head(r)}
    BY <1>6, FreeVisitedKeeps
  <2> QED BY <1>1, <2>1, ToThen, GiveStep
<1>7. CASE EndThread
  <2>1. Then(Emptied(s, "pc"), <<>>) /\ r = <<>>
    BY <1>7, EndThreadKeeps
  <2>2. UNCHANGED alloc
    BY <1>7 DEF EndThread
  <2> QED BY <1>1, <2>1, <2>2, ToThen, EndStep
<1> QED BY <1>2, <1>3, <1>4, <1>5, <1>6, <1>7

(* What only changes the phase *)
LEMMA QuietStep ==
    ASSUME NEW s, NEW r, Now(s, r), StartCounting \/ StartRoots \/ EndFreeing \/ UNCHANGED vars
    PROVE  ListsInv' /\ UNCHANGED Sequences_!seqVars
<1>1. From(s, r)
  BY FromNow
<1>2. Then(s, r)
  <2>1. CASE UNCHANGED vars
    BY <2>1 DEF Now, Then, vars
  <2> QED BY <2>1, StartCountingKeeps, StartRootsKeeps, EndFreeingKeeps
<1>3. UNCHANGED alloc
  BY DEF StartCounting, StartRoots, EndFreeing, vars
<1> QED BY <1>1, <1>2, <1>3, ToThen, SameStep

LEMMA ListsStep ==
    ASSUME ListsInv, [Next]_vars
    PROVE  ListsInv' /\ [Sequences_!SeqNext]_(Sequences_!seqVars)
<1>1. PICK s, r : s = Contents /\ r = Walk(mem, cursor)
  OBVIOUS
<1>2. Now(s, r)
  BY <1>1 DEF ListsInv, Now
<1>3. \/ \E o \in Objects : NewBox(o) \/ AddToList(o) \/ RemoveFromList(o) \/ FreeBox(o)
      \/ \/ \E o \in Objects : QueueNew(o) \/ Promote(o) \/ Requeue(o)
         \/ TakeBuffered \/ TakeQueued \/ TakeRoot \/ TakeReached
         \/ \E l \in {"root", "nonRoot"} : File(l)
         \/ TracePanic
      \/ \/ EndTracing \/ Visit \/ UserPanic \/ PutBack \/ StartDropping \/ StartFreeing
         \/ FreeVisited \/ EndThread
      \/ StartCounting \/ StartRoots \/ EndFreeing \/ UNCHANGED vars
  BY DEF Next
<1> QED BY <1>2, <1>3, UserStep, TracingStep, IterationStep, QuietStep

(* Every reachable state is as ListsInv says: each list is linked in both      *)
(* directions, the marks tell it, and the iteration is somewhere in it.       *)
THEOREM ListsSound == Spec => []ListsInv
<1>1. Init => ListsInv
  BY InitKeeps
<1>2. ListsInv /\ [Next]_vars => ListsInv'
  BY ListsStep
<1> QED BY <1>1, <1>2, PTL DEF Spec

(* Whatever the program and the collector do with the links (add, remove,     *)
(* remove_first, poll, swap_list, mark_self_and_append, drop and iterate,      *)
(* also when a trace, a finalizer or a destructor panics), the lists change    *)
(* as sequences do, size is the length of the buffer, and an iteration visits  *)
(* every element once and in order.                                           *)
THEOREM ListsImplement == Spec => ListsImplementSequences
<1>1. Init => Sequences_!SeqInit
  BY InitKeeps
<1>2. ListsInv /\ [Next]_vars => [Sequences_!SeqNext]_(Sequences_!seqVars)
  BY ListsStep
<1> QED BY <1>1, <1>2, ListsSound, PTL DEF Spec, ListsImplementSequences, Sequences_!SeqSpec

-----------------------------------------------------------------------------
(* What the invariant says of any phase *)

LEMMA Members ==
    ASSUME NEW s, NEW r, Now(s, r)
    PROVE  /\ mem \in Heaps /\ alloc \in SUBSET Objects /\ None \notin alloc
           /\ {"pc", "root", "nonRoot", "queue"} = ListNames
           /\ \A k \in ListNames : \A x : /\ x \in ToSet(s[k]) <=> In(x, s[k])
                                          /\ In(x, s[k]) => x \in alloc
           /\ \A k, m \in ListNames : \A x : In(x, s[k]) /\ In(x, s[m]) => k = m
           /\ \A k \in ListNames : /\ Len(s[k]) \in Nat /\ DOMAIN s[k] = 1..Len(s[k])
                                   /\ \A i, j \in 1..Len(s[k]) : s[k][i] = s[k][j] => i = j
           /\ \A x : x \in ToSet(r) => x \in ToSet(s["nonRoot"])
<1>1. s \in [ListNames -> Seq(alloc)] /\ r \in Seq(alloc) /\ mem \in Heaps
      /\ alloc \in SUBSET Objects /\ Rest(r, s["nonRoot"])
  BY DEF Now, Shape, Linkage, Linked, Pace
<1>2. None \notin alloc /\ {"pc", "root", "nonRoot", "queue"} = ListNames
  BY <1>1, NoneAssumption DEF ListNames
<1>3. \A k \in ListNames : \A x : /\ x \in ToSet(s[k]) <=> In(x, s[k])
                                  /\ In(x, s[k]) => x \in alloc
  BY <1>1, InToSet
<1>4. \A k \in ListNames : Len(s[k]) \in Nat /\ DOMAIN s[k] = 1..Len(s[k])
  BY <1>1, LenProperties
<1>5. /\ \A k, m \in ListNames : \A x : In(x, s[k]) /\ In(x, s[m]) => k = m
      /\ \A k \in ListNames : \A i, j \in 1..Len(s[k]) : s[k][i] = s[k][j] => i = j
  <2>1. CASE phase # "freeing"
    <3>1. Linked(mem, s, alloc)
      BY <2>1 DEF Now, Shape, Linkage
    <3> QED BY <3>1, LinkedApart
  <2>2. CASE phase = "freeing"
    <3> DEFINE u == Emptied(s, "nonRoot")
               B == alloc \ ToSet(r)
    <3>1. Linked(Forgotten(mem), u, B) /\ Chain(mem, cursor, r) /\ r = s["nonRoot"]
      BY <2>2 DEF Now, Shape, Linkage, Emptied, Pace
    <3>2. u["nonRoot"] = <<>> /\ \A k \in ListNames : k # "nonRoot" => u[k] = s[k]
      BY <1>1, <1>2 DEF Emptied
    <3> HIDE DEF u, B
    <3>3. /\ \A k \in ListNames : \A x : In(x, u[k]) => x \in B
          /\ \A k, m \in ListNames : \A x : In(x, u[k]) /\ In(x, u[m]) => k = m
          /\ \A k \in ListNames : \A i, j \in 1..Len(u[k]) : u[k][i] = u[k][j] => i = j
      BY <3>1, LinkedApart
    <3>4. \A i, j \in 1..Len(r) : r[i] = r[j] => i = j
      BY <3>1 DEF Chain
    <3>5. \A k \in ListNames : \A x : k # "nonRoot" /\ In(x, s[k]) => ~In(x, s["nonRoot"])
      <4>1. \A x : x \in B => x \notin ToSet(r)
        BY DEF B
      <4> QED BY <1>2, <1>3, <3>1, <3>2, <3>3, <4>1
    <3>6. ASSUME NEW k \in ListNames, NEW m \in ListNames, NEW x, In(x, s[k]), In(x, s[m])
          PROVE  k = m
      BY <3>2, <3>3, <3>5, <3>6
    <3>7. ASSUME NEW k \in ListNames, NEW i \in 1..Len(s[k]), NEW j \in 1..Len(s[k]), s[k][i] = s[k][j]
          PROVE  i = j
      BY <3>1, <3>2, <3>3, <3>4, <3>7
    <3> QED BY <3>6, <3>7
  <2> QED BY <2>1, <2>2
<1>6. ASSUME NEW x, x \in ToSet(r) PROVE x \in ToSet(s["nonRoot"])
  <2>1. In(x, r)
    BY <1>1, <1>6, InToSet
  <2>2. PICK i \in 1..Len(r) : r[i] = x
    BY <2>1 DEF In
  <2> DEFINE t == s["nonRoot"]
  <2>3. Len(t) \in Nat /\ Len(r) \in Nat
    BY <1>1, <1>2, <1>4, LenProperties
  <2>4. Len(t) - Len(r) + i \in 1..Len(t) /\ t[Len(t) - Len(r) + i] = x
    <3>1. Rest(r, t)
      BY <1>1
    <3> HIDE DEF t
    <3> QED BY <2>2, <2>3, <3>1 DEF Rest
  <2>5. In(x, t)
    BY <2>4 DEF In
  <2> QED BY <1>2, <1>3, <2>5
<1> QED BY <1>1, <1>2, <1>3, <1>4, <1>5, <1>6

LEMMA TypeTold ==
    ASSUME NEW s, NEW r, Now(s, r)
    PROVE  TypeOK
<1>1. /\ mem \in Heaps /\ alloc \in SUBSET Objects /\ mem.size = Len(s["pc"])
      /\ s \in [ListNames -> Seq(alloc)] /\ Pace(alloc, phase, current, cursor, listSize, s, r)
  BY NowTells, Members DEF Now, Shape
<1>2. \A k \in ListNames : Len(s[k]) \in Nat /\ Len(s[k]) <= Boxes
  <2> SUFFICES ASSUME NEW k \in ListNames PROVE Len(s[k]) \in Nat /\ Len(s[k]) <= Boxes
    OBVIOUS
  <2>1. s[k] \in Seq(Objects)
    BY <1>1, ListsType
  <2>2. \A i, j \in 1..Len(s[k]) : s[k][i] = s[k][j] => i = j
    BY Members
  <2> QED BY <2>1, <2>2, ShortEnough
<1>3. "pc" \in ListNames /\ "nonRoot" \in ListNames
  BY DEF ListNames
<1>4. mem.size \in 0..Boxes
  BY <1>1, <1>2, <1>3
<1>5. mem \in [next : [Objects -> Links], prev : [Objects -> Links],
               mark : [Objects -> Marks], first : [ListNames -> Links],
               last : Links, size : 0..Boxes]
  BY <1>1, <1>4 DEF Heaps
<1>6. phase \in Phases /\ current \in Links
  BY <1>1 DEF Pace, Links
<1>7. cursor \in Links
  <2>1. r \in Seq(alloc) /\ cursor = At(r, 1)
    BY <1>1 DEF Pace
  <2>2. \A i \in 1..Len(r) : r[i] \in alloc
    BY <2>1, LenProperties
  <2> QED BY <1>1, <2>1, <2>2 DEF At, Links
<1>8. listSize \in 0..Boxes
  <2>1. Len(r) \in Nat /\ Len(r) <= Len(s["nonRoot"])
    BY <1>1, LenProperties DEF Pace, Rest
  <2>2. listSize = IF phase = "finalizing" THEN Len(s["nonRoot"]) - Len(r) ELSE 0
    BY <1>1 DEF Pace
  <2> QED BY <1>2, <1>3, <2>1, <2>2, BoxesType
<1> QED BY <1>1, <1>5, <1>6, <1>7, <1>8 DEF TypeOK, Boxes

LEMMA ElementsTold ==
    ASSUME NEW s, NEW r, Now(s, r)
    PROVE  \A o : o \in Elements <=> \E k \in ListNames : In(o, s[k])
<1>1. Contents = s
  BY NowTells
<1>2. \A k \in ListNames : \A x : x \in ToSet(s[k]) <=> In(x, s[k])
  BY Members
<1> QED BY <1>1, <1>2 DEF Elements

LEMMA LinksTold ==
    ASSUME NEW s, NEW r, Now(s, r)
    PROVE  LinksOK
<1>1. Contents = s
  BY NowTells
<1>2. "queue" \in ListNames /\ \A k \in ListNames : Len(s[k]) \in Nat
  BY Members
<1>3. /\ \A o \in alloc : Outside(s, o) => mem.next[o] = None /\ mem.prev[o] = None
      /\ mem.last = At(s["queue"], Len(s["queue"]))
  <2>1. CASE phase # "freeing"
    BY <2>1 DEF Now, Shape, Linkage, Linked, NoLinks
  <2>2. CASE phase = "freeing"
    <3> DEFINE u == Emptied(s, "nonRoot")
               B == alloc \ ToSet(r)
    <3>1. Linked(Forgotten(mem), u, B) /\ r = s["nonRoot"]
      BY <2>2 DEF Now, Shape, Linkage, Emptied, Pace
    <3>2. /\ \A k \in ListNames : k # "nonRoot" => u[k] = s[k]
          /\ u["nonRoot"] = <<>> /\ "nonRoot" \in ListNames
      BY NowTells, Members DEF Emptied
    <3>3. /\ Forgotten(mem).next = mem.next /\ Forgotten(mem).prev = mem.prev
          /\ Forgotten(mem).last = mem.last
      BY Members DEF Forgotten, Heaps
    <3> HIDE DEF u
    <3>4. ASSUME NEW o \in alloc, Outside(s, o) PROVE o \in B /\ Outside(u, o)
      <4>1. \A k \in ListNames : ~In(o, s[k])
        BY <3>4, OutsideIn
      <4>2. o \notin ToSet(r)
        BY <3>1, <3>2, <4>1, Members
      <4>3. \A k \in ListNames : ~In(o, u[k])
        BY <3>2, <4>1, InEmpty
      <4> QED BY <4>2, <4>3, OutsideIn
    <3> HIDE DEF B
    <3> QED BY <1>2, <3>1, <3>2, <3>3, <3>4 DEF Linked, NoLinks
  <2> QED BY <2>1, <2>2
<1>4. \A o \in alloc \ Elements : mem.next[o] = None /\ mem.prev[o] = None
  BY <1>3, ElementsTold, OutsideIn
<1>5. ASSUME phase # "freeing", NEW l \in ListNames \ {"queue"}, NEW i \in 1..Len(s[l])
      PROVE  mem.prev[s[l][i]] = IF i = 1 THEN None ELSE s[l][i - 1]
  <2>1. Linked(mem, s, alloc)
    BY <1>5 DEF Now, Shape, Linkage
  <2> QED BY <2>1, LinkedFacts
<1>6. mem.last = IF s["queue"] = <<>> THEN None ELSE s["queue"][Len(s["queue"])]
  <2>1. s["queue"] \in Seq(alloc)
    BY <1>2, NowTells
  <2>2. s["queue"] = <<>> <=> Len(s["queue"]) = 0
    BY <2>1, EmptySeq
  <2> QED BY <1>2, <1>3, <2>2 DEF At
<1> QED BY <1>1, <1>4, <1>5, <1>6 DEF LinksOK

LEMMA MarksTold ==
    ASSUME NEW s, NEW r, Now(s, r)
    PROVE  MarkTellsList
<1>1. Contents = s /\ {"pc", "root", "nonRoot", "queue"} = ListNames /\ None \notin alloc
      /\ \A k \in ListNames : \A x : x \in ToSet(s[k]) <=> In(x, s[k])
  BY NowTells, Members
<1>2. ASSUME NEW o \in alloc
      PROVE  /\ mem.mark[o] = "PossibleCycles" <=> o \in ToSet(s["pc"])
             /\ mem.mark[o] = "InList" <=> o \in ToSet(s["root"]) \cup ToSet(s["nonRoot"])
             /\ mem.mark[o] = "InQueue" <=> o \in ToSet(s["queue"]) \cup Traced
  <2>1. MarkTells(mem.mark[o], o, phase, current, s)
    BY DEF Now, Shape, MarksTell
  <2>2. o \in Traced <=> phase = "counting" /\ o = current
    BY <1>1 DEF Traced
  <2>3. /\ o \in ToSet(s["pc"]) <=> In(o, s["pc"])
        /\ o \in ToSet(s["root"]) <=> In(o, s["root"])
        /\ o \in ToSet(s["nonRoot"]) <=> In(o, s["nonRoot"])
        /\ o \in ToSet(s["queue"]) <=> In(o, s["queue"])
    BY <1>1
  <2> QED BY <2>1, <2>2, <2>3 DEF MarkTells
<1> QED BY <1>1, <1>2 DEF MarkTellsList

LEMMA DisjointTold ==
    ASSUME NEW s, NEW r, Now(s, r)
    PROVE  ListsDisjoint
<1>1. /\ Contents = s /\ Walk(mem, cursor) = r /\ None \notin alloc /\ "nonRoot" \in ListNames
      /\ \A k \in ListNames : \A x : /\ x \in ToSet(s[k]) <=> In(x, s[k])
                                     /\ In(x, s[k]) => x \in alloc
      /\ \A k, m \in ListNames : \A x : In(x, s[k]) /\ In(x, s[m]) => k = m
      /\ \A k \in ListNames : /\ DOMAIN s[k] = 1..Len(s[k])
                              /\ \A i, j \in 1..Len(s[k]) : s[k][i] = s[k][j] => i = j
      /\ \A x : x \in ToSet(r) => x \in ToSet(s["nonRoot"])
  BY NowTells, Members
<1>2. ASSUME NEW l \in ListNames
      PROVE  /\ IsInjective(s[l]) /\ ToSet(s[l]) \subseteq alloc
             /\ \A k \in ListNames \ {l} : ToSet(s[l]) \cap ToSet(s[k]) = {}
  <2>1. IsInjective(s[l])
    BY <1>1 DEF IsInjective
  <2> QED BY <1>1, <2>1
<1>3. current \notin Elements
  <2>1. current # None => \A k \in ListNames : ~In(current, s[k])
    BY OutsideIn DEF Now, Shape, Pace
  <2> QED BY <1>1, <2>1, ElementsTold
<1> QED BY <1>1, <1>2, <1>3 DEF ListsDisjoint

(* The values of the links, marks and sizes stay in their ranges, and neither  *)
(* the size of the buffer nor the count of an iteration exceeds the number of  *)
(* boxes.                                                                     *)
THEOREM ListsTyped == Spec => []TypeOK
<1>1. ListsInv => TypeOK
  <2> SUFFICES ASSUME ListsInv PROVE TypeOK
    OBVIOUS
  <2>1. PICK s, r : Now(s, r)
    BY DEF ListsInv, Now
  <2> QED BY <2>1, TypeTold
<1> QED BY <1>1, ListsSound, PTL

(* What add, remove and poll find: an allocation in no list has no links, the  *)
(* links of neighbours are inverse to each other, and the queue knows its end. *)
THEOREM LinksSound == Spec => []LinksOK
<1>1. ListsInv => LinksOK
  <2> SUFFICES ASSUME ListsInv PROVE LinksOK
    OBVIOUS
  <2>1. PICK s, r : Now(s, r)
    BY DEF ListsInv, Now
  <2> QED BY <2>1, LinksTold
<1> QED BY <1>1, ListsSound, PTL

(* add_to_list, remove_from_list and CcBox::trace choose a list by the mark    *)
(* of an allocation: it always names the list the allocation is in.           *)
THEOREM MarksSound == Spec => []MarkTellsList
<1>1. ListsInv => MarkTellsList
  <2> SUFFICES ASSUME ListsInv PROVE MarkTellsList
    OBVIOUS
  <2>1. PICK s, r : Now(s, r)
    BY DEF ListsInv, Now
  <2> QED BY <2>1, MarksTold
<1> QED BY <1>1, ListsSound, PTL

(* No allocation is in two lists or twice in one, and what a list or an        *)
(* iteration will read has not been freed.                                    *)
THEOREM DisjointSound == Spec => []ListsDisjoint
<1>1. ListsInv => ListsDisjoint
  <2> SUFFICES ASSUME ListsInv PROVE ListsDisjoint
    OBVIOUS
  <2>1. PICK s, r : Now(s, r)
    BY DEF ListsInv, Now
  <2> QED BY <2>1, DisjointTold
<1> QED BY <1>1, ListsSound, PTL

==============================================================================
