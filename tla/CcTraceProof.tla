------------------------------ MODULE CcTraceProof ------------------------------
(* Which Ccs a Trace implementation visits, for values of any shape: both     *)
(* calls of a tracing phase visit the Ccs of the value in the same order, all *)
(* of them that are not ignored or in a borrowed RefCell, and each once.      *)
EXTENDS CcTrace, FiniteSetTheorems, SequenceTheorems, WellFoundedInduction, TLAPS

-----------------------------------------------------------------------------
(* Induction over numbers, from the well-foundedness of strict inclusion.     *)

LEMMA LeastNumber ==
    ASSUME NEW T \in SUBSET Nat, T # {}
    PROVE  \E n \in T : \A m \in T : ~(m < n)
<1> DEFINE W == {1..n : n \in T}
<1>1. W \subseteq FiniteSubsetsOf(Nat) /\ W # {}
  <2>1. \A n \in T : 1..n \subseteq Nat /\ IsFiniteSet(1..n)
    BY FS_Interval
  <2> QED BY <2>1 DEF FiniteSubsetsOf
<1>2. \E x \in W : \A y \in W : ~(<<y, x>> \in StrictSubsetOrdering(Nat))
  BY <1>1, FS_StrictSubsetOrderingWellFounded, WFMin
<1>3. PICK n \in T : \A m \in T : ~(<<1..m, 1..n>> \in StrictSubsetOrdering(Nat))
  BY <1>2
<1>4. ASSUME NEW m \in T, m < n PROVE FALSE
  <2>1. 1..m \subseteq 1..n /\ n \in 1..n /\ n \notin 1..m /\ 1..m \subseteq Nat /\ 1..n \subseteq Nat
    BY <1>4
  <2>2. <<1..m, 1..n>> \in StrictSubsetOrdering(Nat)
    BY <2>1 DEF StrictSubsetOrdering
  <2> QED BY <2>2, <1>3
<1> QED BY <1>4

LEMMA Induction ==
    ASSUME NEW S, 0 \in S, \A n \in Nat : n \in S => n + 1 \in S
    PROVE  \A n \in Nat : n \in S
<1> SUFFICES ASSUME Nat \ S # {} PROVE FALSE
  OBVIOUS
<1>1. PICK n \in Nat \ S : \A m \in Nat \ S : ~(m < n)
  BY LeastNumber
<1> QED BY <1>1, n - 1 \in Nat, n # 0

-----------------------------------------------------------------------------
(* What is found from a node is the least set that is closed under the edges. *)

Size == Cardinality(Nodes)

LEMMA SizeType == Size \in Nat
BY NodesAssumption, FS_CardinalityType DEF Size

IsFrom(f, n, P) ==
    f = [k \in 0..Cardinality(Nodes) |->
            IF k = 0 THEN {n}
            ELSE LET before == f[k - 1] IN before \cup UNION {P[m] : m \in before}]

(* The walks of k steps from n, some of which may stay where they are.        *)
Walks(n, P, k) ==
    {w \in [0..k -> Nodes] : w[0] = n /\ \A i \in 1..k : w[i] = w[i - 1] \/ w[i] \in P[w[i - 1]]}

Ends(n, P, k) == {w[k] : w \in Walks(n, P, k)}

More(S, P) == S \cup UNION {P[m] : m \in S}

LEMMA EndsStep ==
    ASSUME NEW P \in [Nodes -> SUBSET Nodes], NEW n \in Nodes, NEW k \in Nat, k # 0
    PROVE  Ends(n, P, k) = More(Ends(n, P, k - 1), P)
<1> DEFINE A == {w[k] : w \in Walks(n, P, k)}
           B == {w[k - 1] : w \in Walks(n, P, k - 1)}
<1>1. ASSUME NEW x \in A PROVE x \in B \cup UNION {P[m] : m \in B}
  <2>1. PICK w \in Walks(n, P, k) : x = w[k]
    BY <1>1
  <2> DEFINE u == [i \in 0..(k - 1) |-> w[i]]
  <2>2. /\ w \in [0..k -> Nodes] /\ w[0] = n
        /\ \A i \in 1..k : w[i] = w[i - 1] \/ w[i] \in P[w[i - 1]]
    BY <2>1 DEF Walks
  <2>3. u \in [0..(k - 1) -> Nodes] /\ \A i \in 0..(k - 1) : u[i] = w[i]
    BY <2>2
  <2>4. u[0] = n /\ \A i \in 1..(k - 1) : u[i] = u[i - 1] \/ u[i] \in P[u[i - 1]]
    <3> HIDE DEF u
    <3> QED BY <2>2, <2>3
  <2>5. u \in Walks(n, P, k - 1) /\ u[k - 1] = w[k - 1]
    <3>1. k - 1 \in 0..(k - 1)
      OBVIOUS
    <3> HIDE DEF u
    <3> QED BY <2>3, <2>4, <3>1 DEF Walks
  <2>6. w[k - 1] \in B
    BY <2>5
  <2>7. w[k] = w[k - 1] \/ w[k] \in P[w[k - 1]]
    BY <2>2
  <2> QED BY <2>1, <2>6, <2>7
<1>2. ASSUME NEW m \in B, NEW x, x = m \/ x \in P[m] PROVE x \in A
  <2>1. PICK w \in Walks(n, P, k - 1) : m = w[k - 1]
    BY <1>2
  <2> DEFINE u == [i \in 0..k |-> IF i = k THEN x ELSE w[i]]
  <2>2. /\ w \in [0..(k - 1) -> Nodes] /\ w[0] = n
        /\ \A i \in 1..(k - 1) : w[i] = w[i - 1] \/ w[i] \in P[w[i - 1]]
    BY <2>1 DEF Walks
  <2>3. m \in Nodes /\ x \in Nodes
    BY <1>2, <2>1, <2>2
  <2>4. u \in [0..k -> Nodes] /\ u[k] = x /\ \A i \in 0..(k - 1) : u[i] = w[i]
    BY <2>2, <2>3
  <2>5. u[0] = n /\ \A i \in 1..k : u[i] = u[i - 1] \/ u[i] \in P[u[i - 1]]
    <3> HIDE DEF u
    <3> QED BY <1>2, <2>1, <2>2, <2>4
  <2>6. u \in Walks(n, P, k)
    BY <2>4, <2>5 DEF Walks
  <2> HIDE DEF u
  <2> QED BY <2>4, <2>6
<1> HIDE DEF A, B
<1>3. A = B \cup UNION {P[m] : m \in B}
  BY <1>1, <1>2
<1> QED BY <1>3 DEF A, B, Ends, More

LEMMA FromExists ==
    ASSUME NEW P \in [Nodes -> SUBSET Nodes], NEW n \in Nodes
    PROVE  \E f : IsFrom(f, n, P) /\ From(n, P) = f[Size]
<1> DEFINE f == [k \in 0..Size |-> Ends(n, P, k)]
           g == CHOOSE h : IsFrom(h, n, P)
<1>1. Ends(n, P, 0) = {n}
  <2> DEFINE u == [i \in 0..0 |-> n]
  <2>1. u \in Walks(n, P, 0) /\ u[0] = n
    BY DEF Walks
  <2> HIDE DEF u
  <2> QED BY <2>1 DEF Walks, Ends
<1>2. /\ f = [k \in 0..Size |-> f[k]]
      /\ \A k \in 0..Size : f[k] = Ends(n, P, k)
      /\ \A k \in 0..Size : k # 0 => f[k - 1] = Ends(n, P, k - 1)
  BY SizeType
<1> HIDE DEF f
<1>3. \A k \in 0..Size : k # 0 => f[k] = More(f[k - 1], P)
  BY <1>2, SizeType, EndsStep
<1>4. f[0] = {n}
  BY <1>1, <1>2, SizeType
<1>5. IsFrom(f, n, P)
  BY <1>2, <1>3, <1>4 DEF IsFrom, Size, More
<1>6. IsFrom(g, n, P)
  BY <1>5
<1>7. From(n, P) = g[Size]
  BY DEF From, IsFrom, Size
<1> QED BY <1>6, <1>7

LEMMA FromStages ==
    ASSUME NEW P \in [Nodes -> SUBSET Nodes], NEW n \in Nodes
    PROVE  \E f : /\ From(n, P) = f[Size] /\ f[0] = {n}
                  /\ \A k \in 0..Size : f[k] \subseteq Nodes
                  /\ \A k \in 0..Size : k # 0 => f[k] = More(f[k - 1], P)
<1>1. PICK f : IsFrom(f, n, P) /\ From(n, P) = f[Size]
  BY FromExists
<1>2. f[0] = {n} /\ \A k \in 0..Size : k # 0 => f[k] = More(f[k - 1], P)
  <2>1. \A k \in 0..Size : f[k] = IF k = 0 THEN {n} ELSE More(f[k - 1], P)
    BY <1>1 DEF IsFrom, More, Size
  <2> QED BY <2>1, SizeType
<1> DEFINE S == {k \in Nat : k \in 0..Size => f[k] \subseteq Nodes}
<1>3. 0 \in S
  BY <1>2
<1>4. ASSUME NEW k \in Nat, k \in S PROVE k + 1 \in S
  <2>1. CASE k + 1 \in 0..Size
    <3>1. k \in 0..Size /\ k + 1 # 0 /\ k + 1 - 1 = k
      BY <2>1, SizeType
    <3>2. f[k + 1] = More(f[k], P) /\ f[k] \subseteq Nodes
      BY <1>2, <1>4, <2>1, <3>1
    <3> QED BY <3>2 DEF More
  <2> QED BY <2>1
<1>5. \A k \in Nat : k \in S
  BY <1>3, <1>4, Induction
<1> QED BY <1>1, <1>2, <1>5, SizeType

(* The set of each stage has one more node, or is closed.                      *)
LEMMA FromLeast ==
    ASSUME NEW P \in [Nodes -> SUBSET Nodes], NEW n \in Nodes
    PROVE  /\ From(n, P) \subseteq Nodes /\ n \in From(n, P)
           /\ \A m \in From(n, P) : P[m] \subseteq From(n, P)
           /\ \A T : n \in T /\ (\A m \in T \cap Nodes : P[m] \subseteq T) => From(n, P) \subseteq T
<1>1. PICK f : /\ From(n, P) = f[Size] /\ f[0] = {n}
               /\ \A k \in 0..Size : f[k] \subseteq Nodes
               /\ \A k \in 0..Size : k # 0 => f[k] = More(f[k - 1], P)
  BY FromStages
<1>2. \A k \in Nat : k + 1 \in 0..Size => k \in 0..Size /\ f[k + 1] = More(f[k], P)
  <2> SUFFICES ASSUME NEW k \in Nat, k + 1 \in 0..Size
               PROVE  k \in 0..Size /\ f[k + 1] = More(f[k], P)
    OBVIOUS
  <2>1. k \in 0..Size /\ k + 1 # 0 /\ k + 1 - 1 = k
    BY SizeType
  <2> QED BY <1>1, <2>1
<1>3. n \in From(n, P)
  <2> DEFINE S == {k \in Nat : k \in 0..Size => n \in f[k]}
  <2>1. 0 \in S
    BY <1>1
  <2>2. \A k \in Nat : k \in S => k + 1 \in S
    BY <1>2 DEF More
  <2>3. \A k \in Nat : k \in S
    BY <2>1, <2>2, Induction
  <2> QED BY <1>1, <2>3, SizeType
<1>4. ASSUME NEW T, n \in T, \A m \in T \cap Nodes : P[m] \subseteq T
      PROVE  From(n, P) \subseteq T
  <2> DEFINE S == {k \in Nat : k \in 0..Size => f[k] \subseteq T}
  <2>1. 0 \in S
    BY <1>1, <1>4
  <2>2. ASSUME NEW k \in Nat, k \in S PROVE k + 1 \in S
    <3>1. CASE k + 1 \in 0..Size
      <4>1. f[k + 1] = More(f[k], P) /\ f[k] \subseteq T /\ f[k] \subseteq Nodes
        BY <1>1, <1>2, <2>2, <3>1
      <4> QED BY <1>4, <4>1 DEF More
    <3> QED BY <3>1
  <2>3. \A k \in Nat : k \in S
    BY <2>1, <2>2, Induction
  <2> QED BY <1>1, <2>3, SizeType
<1>5. \A m \in From(n, P) : P[m] \subseteq From(n, P)
  <2> DEFINE Stable(k) == k \in 0..Size /\ \A m \in f[k] : P[m] \subseteq f[k]
             S == {k \in Nat : k \in 0..Size =>
                     Stable(k) \/ (IsFiniteSet(f[k]) /\ Cardinality(f[k]) > k)}
  <2>1. 0 \in S
    <3>1. IsFiniteSet({n}) /\ Cardinality({n}) = 1
      BY FS_Singleton
    <3> QED BY <1>1, <3>1
  <2>2. ASSUME NEW k \in Nat, k \in S PROVE k + 1 \in S
    <3> SUFFICES ASSUME k + 1 \in 0..Size
                 PROVE  Stable(k + 1) \/ (IsFiniteSet(f[k + 1]) /\ Cardinality(f[k + 1]) > k + 1)
      OBVIOUS
    <3>1. /\ k \in 0..Size /\ f[k + 1] = More(f[k], P)
          /\ f[k] \subseteq Nodes /\ f[k + 1] \subseteq Nodes
      BY <1>1, <1>2
    <3>2. CASE f[k + 1] = f[k]
      BY <3>1, <3>2 DEF More
    <3>3. CASE f[k + 1] # f[k] /\ Stable(k)
      BY <3>1, <3>3 DEF More
    <3>4. CASE f[k + 1] # f[k] /\ ~Stable(k)
      <4>1. IsFiniteSet(f[k]) /\ Cardinality(f[k]) > k
        BY <2>2, <3>1, <3>4
      <4>2. PICK m : m \in f[k + 1] \ f[k]
        BY <3>1, <3>4 DEF More
      <4>3. IsFiniteSet(f[k + 1])
        BY <3>1, NodesAssumption, FS_Subset
      <4>4. IsFiniteSet(f[k] \cup {m}) /\ Cardinality(f[k] \cup {m}) = Cardinality(f[k]) + 1
        BY <4>1, <4>2, FS_AddElement
      <4>5. f[k] \cup {m} \subseteq f[k + 1]
        BY <3>1, <4>2 DEF More
      <4>6. Cardinality(f[k] \cup {m}) <= Cardinality(f[k + 1])
        BY <4>3, <4>5, FS_Subset
      <4>7. Cardinality(f[k]) \in Nat /\ Cardinality(f[k + 1]) \in Nat
        BY <4>1, <4>3, FS_CardinalityType
      <4> QED BY <4>1, <4>3, <4>4, <4>6, <4>7
    <3> QED BY <3>2, <3>3, <3>4
  <2>3. \A k \in Nat : k \in S
    BY <2>1, <2>2, Induction
  <2>4. Stable(Size) \/ (IsFiniteSet(f[Size]) /\ Cardinality(f[Size]) > Size)
    BY <2>3, SizeType
  <2>5. Cardinality(f[Size]) \in Nat /\ Cardinality(f[Size]) <= Size
    <3>1. f[Size] \subseteq Nodes
      BY <1>1, SizeType
    <3> QED BY <3>1, NodesAssumption, FS_Subset, FS_CardinalityType DEF Size
  <2>6. Stable(Size)
    BY <2>4, <2>5, SizeType
  <2> QED BY <1>1, <2>6
<1> QED BY <1>1, <1>3, <1>4, <1>5, SizeType

LEMMA FromInside ==
    ASSUME NEW P \in [Nodes -> SUBSET Nodes], NEW n \in Nodes, NEW m \in From(n, P)
    PROVE  From(m, P) \subseteq From(n, P)
<1>1. m \in Nodes
  BY FromLeast
<1> QED BY <1>1, FromLeast

(* What is found from n is n and what is found from what it leads to.          *)
LEMMA FromSplit ==
    ASSUME NEW P \in [Nodes -> SUBSET Nodes], NEW n \in Nodes
    PROVE  \A x : x \in From(n, P) <=> x = n \/ \E m \in P[n] : x \in From(m, P)
<1> DEFINE T == {x \in Nodes : x = n \/ \E m \in P[n] : x \in From(m, P)}
<1>1. \A m \in P[n] : m \in From(n, P) /\ From(m, P) \subseteq From(n, P)
  BY FromLeast, FromInside
<1>2. ASSUME NEW x \in T PROVE P[x] \subseteq T
  <2>1. CASE x = n
    BY <2>1, FromLeast
  <2>2. ASSUME NEW m \in P[n], x \in From(m, P) PROVE P[x] \subseteq T
    BY <2>2, FromLeast
  <2> QED BY <1>2, <2>1, <2>2
<1>3. n \in T
  OBVIOUS
<1>4. From(n, P) \subseteq T
  <2> HIDE DEF T
  <2> QED BY <1>2, <1>3, FromLeast
<1> QED BY <1>1, <1>4, FromLeast

LEMMA FromParent ==
    ASSUME NEW P \in [Nodes -> SUBSET Nodes], NEW n \in Nodes, NEW x \in From(n, P), x # n
    PROVE  \E p \in From(n, P) : x \in P[p]
<1> DEFINE T == {y \in From(n, P) : y = n \/ \E p \in From(n, P) : y \in P[p]}
<1>1. n \in T /\ \A m \in T : P[m] \subseteq T
  BY FromLeast
<1>2. From(n, P) \subseteq T
  <2> HIDE DEF T
  <2> QED BY <1>1, FromLeast
<1> QED BY <1>2

LEMMA FromMore ==
    ASSUME NEW P \in [Nodes -> SUBSET Nodes], NEW Q \in [Nodes -> SUBSET Nodes], NEW n \in Nodes,
           \A m \in From(n, Q) : P[m] \subseteq Q[m]
    PROVE  From(n, P) \subseteq From(n, Q)
BY FromLeast

-----------------------------------------------------------------------------
(* Values are trees. *)

In(value, n) == From(n, PartsIn(value))

Tree(value) == value \in [Nodes -> Seq(Nodes)] /\ IsOwned(value)

LEMMA PartsType ==
    ASSUME NEW value \in [Nodes -> Seq(Nodes)]
    PROVE  /\ PartsIn(value) \in [Nodes -> SUBSET Nodes]
           /\ \A n \in Nodes : Len(value[n]) \in Nat /\ DOMAIN value[n] = 1..Len(value[n])
           /\ \A n \in Nodes : \A i \in 1..Len(value[n]) : value[n][i] \in Nodes
           /\ \A n \in Nodes : \A x :
                x \in PartsIn(value)[n] <=> \E i \in 1..Len(value[n]) : x = value[n][i]
<1>1. \A n \in Nodes : /\ Len(value[n]) \in Nat /\ DOMAIN value[n] = 1..Len(value[n])
                       /\ \A i \in 1..Len(value[n]) : value[n][i] \in Nodes
  BY LenProperties
<1>2. \A n \in Nodes : PartsIn(value)[n] = {value[n][i] : i \in 1..Len(value[n])}
  BY <1>1 DEF PartsIn, ToSet
<1>3. PartsIn(value) = [n \in Nodes |-> PartsIn(value)[n]]
  BY DEF PartsIn
<1>4. PartsIn(value) \in [Nodes -> SUBSET Nodes]
  BY <1>1, <1>2, <1>3
<1> QED BY <1>1, <1>2, <1>4

LEMMA InsideOf ==
    ASSUME NEW value \in [Nodes -> Seq(Nodes)], NEW n \in Nodes
    PROVE  /\ n \in In(value, n) /\ In(value, n) \subseteq Nodes
           /\ \A m \in In(value, n) :
                /\ In(value, m) \subseteq In(value, n)
                /\ \A i \in 1..Len(value[m]) : value[m][i] \in In(value, n)
           /\ \A x : x \in In(value, n) <=>
                \/ x = n
                \/ \E i \in 1..Len(value[n]) : x \in In(value, value[n][i])
<1>1. PartsIn(value) \in [Nodes -> SUBSET Nodes]
  BY PartsType
<1>2. /\ n \in In(value, n) /\ In(value, n) \subseteq Nodes
      /\ \A m \in In(value, n) : PartsIn(value)[m] \subseteq In(value, n)
  BY <1>1, FromLeast DEF In
<1>3. \A m \in In(value, n) : \A i \in 1..Len(value[m]) : value[m][i] \in In(value, n)
  BY <1>2, PartsType
<1>4. \A m \in In(value, n) : In(value, m) \subseteq In(value, n)
  BY <1>1, FromInside DEF In
<1>5. \A x : x \in In(value, n) <=> x = n \/ \E m \in PartsIn(value)[n] : x \in In(value, m)
  BY <1>1, FromSplit DEF In
<1>6. \A x : (\E m \in PartsIn(value)[n] : x \in In(value, m))
               <=> \E i \in 1..Len(value[n]) : x \in In(value, value[n][i])
  <2>1. \A m : m \in PartsIn(value)[n] <=> \E i \in 1..Len(value[n]) : m = value[n][i]
    BY PartsType
  <2> QED BY <2>1
<1> QED BY <1>2, <1>3, <1>4, <1>5, <1>6

(* A closed set that holds n holds what is inside of n.                        *)
LEMMA InsideLeast ==
    ASSUME NEW value \in [Nodes -> Seq(Nodes)], NEW n \in Nodes, NEW T, n \in T,
           \A m \in T \cap In(value, n) : \A i \in 1..Len(value[m]) : value[m][i] \in T
    PROVE  In(value, n) \subseteq T
<1> DEFINE U == T \cap In(value, n)
<1>1. PartsIn(value) \in [Nodes -> SUBSET Nodes]
  BY PartsType
<1>2. n \in U /\ In(value, n) \subseteq Nodes
  BY InsideOf
<1>3. ASSUME NEW m \in U PROVE PartsIn(value)[m] \subseteq U
  <2>1. \A i \in 1..Len(value[m]) : value[m][i] \in T /\ value[m][i] \in In(value, n)
    BY <1>3, InsideOf
  <2>2. \A x : x \in PartsIn(value)[m] <=> \E i \in 1..Len(value[m]) : x = value[m][i]
    BY <1>2, PartsType
  <2>3. ASSUME NEW x \in PartsIn(value)[m] PROVE x \in U
    <3>1. PICK i \in 1..Len(value[m]) : x = value[m][i]
      BY <2>2
    <3> QED BY <2>1, <3>1
  <2> HIDE DEF U
  <2> QED BY <2>3
<1>4. In(value, n) \subseteq U
  <2> HIDE DEF U
  <2> QED BY <1>1, <1>2, <1>3, FromLeast DEF In
<1> QED BY <1>4

(* What contains a node that is inside of n is inside of n, unless it is n.    *)
LEMMA OwnerInside ==
    ASSUME NEW value, Tree(value), NEW n \in Nodes, NEW m \in Nodes, NEW i \in 1..Len(value[m]),
           value[m][i] \in In(value, n), value[m][i] # n
    PROVE  m \in In(value, n)
<1> DEFINE T == {x \in In(value, n) : x = n \/ \E p \in In(value, n) : \E j \in 1..Len(value[p]) : x = value[p][j]}
<1>1. value \in [Nodes -> Seq(Nodes)]
  BY DEF Tree
<1>2. In(value, n) \subseteq T
  <2>1. n \in T
    BY <1>1, InsideOf
  <2>2. \A x \in T : \A j \in 1..Len(value[x]) : value[x][j] \in T
    BY <1>1, InsideOf
  <2> HIDE DEF T
  <2> QED BY <1>1, <2>1, <2>2, InsideLeast
<1>3. PICK p \in In(value, n) : \E j \in 1..Len(value[p]) : value[m][i] = value[p][j]
  BY <1>2
<1>4. p \in Nodes
  BY <1>1, InsideOf
<1>5. p = m
  BY <1>3, <1>4 DEF Tree, IsOwned
<1> QED BY <1>5

LEMMA NotInPart ==
    ASSUME NEW value, Tree(value), NEW n \in Nodes, NEW i \in 1..Len(value[n])
    PROVE  n \notin In(value, value[n][i])
BY DEF Tree, IsOwned, In

(* Two nodes with something in common are one inside of the other.             *)
LEMMA Comparable ==
    ASSUME NEW value, Tree(value), NEW a \in Nodes, NEW b \in Nodes,
           NEW x \in In(value, a), x \in In(value, b)
    PROVE  a \in In(value, b) \/ b \in In(value, a)
<1> DEFINE T == {y \in In(value, a) :
                   y \in In(value, b) => a \in In(value, b) \/ b \in In(value, a)}
<1>1. value \in [Nodes -> Seq(Nodes)]
  BY DEF Tree
<1>2. a \in T
  BY <1>1, InsideOf
<1>3. ASSUME NEW y \in T, NEW i \in 1..Len(value[y]) PROVE value[y][i] \in T
  <2>1. y \in Nodes /\ value[y][i] \in In(value, a)
    BY <1>1, InsideOf
  <2>2. CASE value[y][i] = b
    BY <2>1, <2>2
  <2>3. CASE value[y][i] \in In(value, b) /\ value[y][i] # b
    BY <2>1, <2>3, OwnerInside
  <2> QED BY <2>1, <2>2, <2>3
<1>4. In(value, a) \subseteq T
  <2> HIDE DEF T
  <2> QED BY <1>1, <1>2, <1>3, InsideLeast
<1> QED BY <1>4

LEMMA OneInside ==
    ASSUME NEW value, Tree(value), NEW a \in Nodes, NEW b \in In(value, a), a \in In(value, b)
    PROVE  a = b
<1>1. value \in [Nodes -> Seq(Nodes)]
  BY DEF Tree
<1> SUFFICES ASSUME a # b PROVE FALSE
  OBVIOUS
<1>2. PICK i \in 1..Len(value[a]) : b \in In(value, value[a][i])
  BY <1>1, InsideOf
<1>3. value[a][i] \in Nodes
  BY <1>1, PartsType
<1>4. a \in In(value, value[a][i])
  BY <1>1, <1>2, <1>3, InsideOf
<1> QED BY <1>4, NotInPart

LEMMA PartsApart ==
    ASSUME NEW value, Tree(value), NEW n \in Nodes,
           NEW i \in 1..Len(value[n]), NEW j \in 1..Len(value[n]),
           NEW x, x \in In(value, value[n][i]), x \in In(value, value[n][j])
    PROVE  i = j
<1>1. value \in [Nodes -> Seq(Nodes)]
  BY DEF Tree
<1>2. value[n][i] \in Nodes /\ value[n][j] \in Nodes
  BY <1>1, PartsType
<1>3. value[n][i] = value[n][j] => i = j
  BY DEF Tree, IsOwned
<1>4. CASE value[n][i] \in In(value, value[n][j]) /\ value[n][i] # value[n][j]
  BY <1>2, <1>4, OwnerInside, NotInPart
<1>5. CASE value[n][j] \in In(value, value[n][i]) /\ value[n][i] # value[n][j]
  BY <1>2, <1>5, OwnerInside, NotInPart
<1> QED BY <1>2, <1>3, <1>4, <1>5, Comparable

LEMMA RootOutside ==
    ASSUME NEW value, Tree(value), NEW n \in Nodes, Root \in In(value, n)
    PROVE  n = Root
<1>1. value \in [Nodes -> Seq(Nodes)]
  BY DEF Tree
<1> DEFINE T == {x \in In(value, n) : x = n \/ x # Root}
<1>2. n \in T /\ \A x \in T : \A i \in 1..Len(value[x]) : value[x][i] \in T
  BY <1>1, InsideOf DEF Tree, IsOwned
<1>3. In(value, n) \subseteq T
  <2> HIDE DEF T
  <2> QED BY <1>1, <1>2, InsideLeast
<1> QED BY <1>3

-----------------------------------------------------------------------------
(* The program takes a node out, or puts one in. *)

LEMMA RemoveAtTells ==
    ASSUME NEW s \in Seq(Nodes), NEW i \in 1..Len(s)
    PROVE  /\ RemoveAt(s, i) \in Seq(Nodes) /\ Len(RemoveAt(s, i)) = Len(s) - 1
           /\ \A j \in 1..(Len(s) - 1) : RemoveAt(s, i)[j] = IF j < i THEN s[j] ELSE s[j + 1]
<1> DEFINE a == SubSeq(s, 1, i - 1)
           b == SubSeq(s, i + 1, Len(s))
<1>1. Len(s) \in Nat /\ \A j \in 1..Len(s) : s[j] \in Nodes
  BY LenProperties
<1>2. /\ a \in Seq(Nodes) /\ Len(a) = i - 1
      /\ \A j \in 1..(i - 1) : a[j] = s[j]
  BY <1>1, SubSeqProperties
<1>3. /\ b \in Seq(Nodes) /\ Len(b) = Len(s) - i
      /\ \A j \in 1..(Len(s) - i) : b[j] = s[i + j]
  <2>1. CASE i = Len(s)
    BY <1>1, <2>1, SubSeqProperties
  <2>2. CASE i < Len(s)
    BY <1>1, <2>2, SubSeqProperties
  <2> QED BY <1>1, <2>1, <2>2
<1>4. RemoveAt(s, i) = a \o b
  BY DEF RemoveAt
<1> HIDE DEF a, b
<1>5. a \o b \in Seq(Nodes) /\ Len(a \o b) = Len(s) - 1
  <2>1. a \o b \in Seq(Nodes) /\ Len(a \o b) = Len(a) + Len(b)
    BY <1>2, <1>3, ConcatProperties
  <2> QED BY <1>1, <1>2, <1>3, <2>1
<1>6. \A j \in 1..(Len(s) - 1) : (a \o b)[j] = IF j < i THEN a[j] ELSE b[j - (i - 1)]
  <2>1. \A j \in 1..(Len(a) + Len(b)) : (a \o b)[j] = IF j <= Len(a) THEN a[j] ELSE b[j - Len(a)]
    BY <1>2, <1>3, ConcatProperties
  <2>2. Len(a) + Len(b) = Len(s) - 1 /\ i \in Nat
    BY <1>1, <1>2, <1>3
  <2>3. \A j \in 1..(Len(s) - 1) : (a \o b)[j] = IF j <= i - 1 THEN a[j] ELSE b[j - (i - 1)]
    BY <1>2, <2>1, <2>2
  <2> QED BY <1>1, <2>2, <2>3
<1>7. \A j \in 1..(Len(s) - 1) : ~(j < i) => b[j - (i - 1)] = s[j + 1]
  <2> SUFFICES ASSUME NEW j \in 1..(Len(s) - 1), ~(j < i) PROVE b[j - (i - 1)] = s[j + 1]
    OBVIOUS
  <2>1. j - (i - 1) \in 1..(Len(s) - i) /\ i + (j - (i - 1)) = j + 1
    BY <1>1
  <2> QED BY <1>3, <2>1
<1> QED BY <1>1, <1>2, <1>4, <1>5, <1>6, <1>7

LEMMA DetachedTree ==
    ASSUME NEW value, Tree(value), NEW g \in Nodes, NEW i \in 1..Len(value[g]),
           NEW w, w = [value EXCEPT ![g] = RemoveAt(@, i)]
    PROVE  /\ Tree(w)
           /\ \A x \in Nodes : In(w, x) \subseteq In(value, x)
           /\ \A x \in Nodes : In(value, x) \subseteq In(w, x) \cup In(value, value[g][i])
<1>1. value \in [Nodes -> Seq(Nodes)]
  BY DEF Tree
<1>2. /\ value[g][i] \in Nodes
      /\ \A x \in Nodes : Len(value[x]) \in Nat /\ \A j \in 1..Len(value[x]) : value[x][j] \in Nodes
  BY <1>1, PartsType
<1>3. /\ RemoveAt(value[g], i) \in Seq(Nodes) /\ Len(RemoveAt(value[g], i)) = Len(value[g]) - 1
      /\ \A j \in 1..(Len(value[g]) - 1) :
           RemoveAt(value[g], i)[j] = IF j < i THEN value[g][j] ELSE value[g][j + 1]
  BY <1>1, RemoveAtTells
<1>4. w \in [Nodes -> Seq(Nodes)]
  BY <1>1, <1>3
<1>5. \A x \in Nodes : x # g => w[x] = value[x]
  BY <1>1
<1>6. w[g] = RemoveAt(value[g], i)
  BY <1>1
<1> DEFINE Was(j) == IF j < i THEN j ELSE j + 1
<1>7. \A j \in 1..Len(w[g]) : Was(j) \in 1..Len(value[g]) /\ w[g][j] = value[g][Was(j)]
  BY <1>2, <1>3, <1>6
<1>8. \A x \in Nodes : \A j \in 1..Len(w[x]) : \E k \in 1..Len(value[x]) : w[x][j] = value[x][k]
  <2> SUFFICES ASSUME NEW x \in Nodes, NEW j \in 1..Len(w[x])
               PROVE  \E k \in 1..Len(value[x]) : w[x][j] = value[x][k]
    OBVIOUS
  <2>1. CASE x = g
    <3> HIDE DEF Was
    <3> QED BY <1>7, <2>1
  <2>2. CASE x # g
    BY <1>5, <2>2
  <2> QED BY <2>1, <2>2
<1>9. \A k \in 1..Len(value[g]) : k # i => \E j \in 1..Len(w[g]) : w[g][j] = value[g][k]
  <2> SUFFICES ASSUME NEW k \in 1..Len(value[g]), k # i
               PROVE  \E j \in 1..Len(w[g]) : w[g][j] = value[g][k]
    OBVIOUS
  <2>1. CASE k < i
    <3>1. k \in 1..Len(w[g])
      BY <1>2, <1>3, <1>6, <2>1
    <3> QED BY <1>3, <1>6, <2>1, <3>1
  <2>2. CASE k > i
    <3>1. k - 1 \in 1..Len(w[g]) /\ ~(k - 1 < i) /\ k - 1 + 1 = k
      BY <1>2, <1>3, <1>6, <2>2
    <3> QED BY <1>3, <1>6, <3>1
  <2> QED BY <2>1, <2>2
<1>10. \A x \in Nodes : In(w, x) \subseteq In(value, x)
  <2> SUFFICES ASSUME NEW x \in Nodes PROVE In(w, x) \subseteq In(value, x)
    OBVIOUS
  <2>1. x \in In(value, x)
    BY <1>1, InsideOf
  <2>2. \A m \in In(value, x) \cap In(w, x) : \A j \in 1..Len(w[m]) : w[m][j] \in In(value, x)
    <3> SUFFICES ASSUME NEW m \in In(value, x), NEW j \in 1..Len(w[m]) PROVE w[m][j] \in In(value, x)
      OBVIOUS
    <3>1. m \in Nodes
      BY <1>1, InsideOf
    <3>2. PICK k \in 1..Len(value[m]) : w[m][j] = value[m][k]
      BY <1>8, <3>1
    <3> QED BY <1>1, <3>2, InsideOf
  <2> QED BY <1>4, <2>1, <2>2, InsideLeast
<1>11. \A x \in Nodes : In(value, x) \subseteq In(w, x) \cup In(value, value[g][i])
  <2> SUFFICES ASSUME NEW x \in Nodes
               PROVE  In(value, x) \subseteq In(w, x) \cup In(value, value[g][i])
    OBVIOUS
  <2> DEFINE T == In(w, x) \cup In(value, value[g][i])
  <2>1. x \in T
    BY <1>4, InsideOf
  <2>2. ASSUME NEW m \in In(w, x), NEW j \in 1..Len(value[m]) PROVE value[m][j] \in T
    <3>1. m \in Nodes
      BY <1>4, InsideOf
    <3>2. CASE m = g /\ j = i
      BY <1>1, <1>2, <3>2, InsideOf
    <3>3. CASE ~(m = g /\ j = i)
      <4>1. \E k \in 1..Len(w[m]) : w[m][k] = value[m][j]
        BY <1>5, <1>9, <3>1, <3>3
      <4> QED BY <1>4, <4>1, InsideOf
    <3> QED BY <3>2, <3>3
  <2>3. \A m \in In(value, value[g][i]) : \A j \in 1..Len(value[m]) : value[m][j] \in T
    BY <1>1, <1>2, InsideOf
  <2> HIDE DEF T
  <2>4. \A m \in T \cap In(value, x) : \A j \in 1..Len(value[m]) : value[m][j] \in T
    BY <2>2, <2>3 DEF T
  <2>5. In(value, x) \subseteq T
    BY <1>1, <2>1, <2>4, InsideLeast
  <2> QED BY <2>5 DEF T
<1>12. IsOwned(w)
  <2>1. ASSUME NEW m \in Nodes, NEW n \in Nodes, NEW j \in 1..Len(w[m]), NEW k \in 1..Len(w[n]),
               w[m][j] = w[n][k]
        PROVE  m = n /\ j = k
    <3> DEFINE J == IF m = g THEN Was(j) ELSE j
               K == IF n = g THEN Was(k) ELSE k
    <3>1. J \in 1..Len(value[m]) /\ w[m][j] = value[m][J]
      BY <1>5, <1>7
    <3>2. K \in 1..Len(value[n]) /\ w[n][k] = value[n][K]
      BY <1>5, <1>7
    <3> HIDE DEF J, K
    <3>3. m = n /\ J = K
      <4>1. value[m][J] = value[n][K]
        BY <2>1, <3>1, <3>2
      <4>2. \A y, z \in Nodes : \A p \in 1..Len(value[y]), q \in 1..Len(value[z]) :
              value[y][p] = value[z][q] => y = z /\ p = q
        BY DEF Tree, IsOwned
      <4> QED BY <3>1, <3>2, <4>1, <4>2
    <3>4. Len(w[m]) \in Nat /\ j \in Nat /\ k \in Nat /\ i \in Nat
      BY <1>2, <1>4, PartsType
    <3> QED BY <3>3, <3>4 DEF J, K
  <2>2. ASSUME NEW n \in Nodes, NEW j \in 1..Len(w[n])
        PROVE  w[n][j] # Root /\ n \notin From(w[n][j], PartsIn(w)) /\ Kind[n] \notin {"cc", "leaf"}
    <3>1. PICK k \in 1..Len(value[n]) : w[n][j] = value[n][k]
      BY <1>8
    <3>2. n \notin In(value, value[n][k]) /\ value[n][k] \in Nodes
      BY <1>2, NotInPart
    <3>3. n \notin In(w, w[n][j])
      BY <1>10, <3>1, <3>2
    <3> QED BY <3>1, <3>3 DEF Tree, IsOwned, In
  <2> QED BY <2>1, <2>2 DEF IsOwned
<1> QED BY <1>4, <1>10, <1>11, <1>12 DEF Tree

Unowned(value, n) == \A m \in Nodes : \A j \in 1..Len(value[m]) : value[m][j] # n

LEMMA AttachedTree ==
    ASSUME NEW value, Tree(value), NEW g \in Nodes, NEW n \in Nodes, g \notin In(value, n),
           Unowned(value, n),
           n # Root, Kind[g] \notin {"cc", "leaf"},
           NEW w, w = [value EXCEPT ![g] = Append(@, n)]
    PROVE  /\ Tree(w)
           /\ \A x \in Nodes : In(value, x) \subseteq In(w, x)
           /\ \A x \in Nodes : In(w, x) \subseteq In(value, x) \cup In(value, n)
<1>1. value \in [Nodes -> Seq(Nodes)]
  BY DEF Tree
<1>2. \A x \in Nodes : Len(value[x]) \in Nat /\ \A j \in 1..Len(value[x]) : value[x][j] \in Nodes
  BY <1>1, PartsType
<1>3. /\ Append(value[g], n) \in Seq(Nodes) /\ Len(Append(value[g], n)) = Len(value[g]) + 1
      /\ \A j \in 1..Len(value[g]) : Append(value[g], n)[j] = value[g][j]
      /\ Append(value[g], n)[Len(value[g]) + 1] = n
  BY <1>1, AppendProperties
<1>4. w \in [Nodes -> Seq(Nodes)]
  BY <1>1, <1>3
<1>5. \A x \in Nodes : x # g => w[x] = value[x]
  BY <1>1
<1>6. w[g] = Append(value[g], n)
  BY <1>1
<1>7. \A x \in Nodes : \A j \in 1..Len(w[x]) :
        \/ j \in 1..Len(value[x]) /\ w[x][j] = value[x][j]
        \/ x = g /\ j = Len(value[g]) + 1 /\ w[x][j] = n
  BY <1>2, <1>3, <1>5, <1>6
<1>8. \A x \in Nodes : \A j \in 1..Len(value[x]) : j \in 1..Len(w[x]) /\ w[x][j] = value[x][j]
  BY <1>2, <1>3, <1>5, <1>6
<1>9. \A x \in Nodes : In(value, x) \subseteq In(w, x)
  <2> SUFFICES ASSUME NEW x \in Nodes PROVE In(value, x) \subseteq In(w, x)
    OBVIOUS
  <2>1. x \in In(w, x)
    BY <1>4, InsideOf
  <2>2. \A m \in In(w, x) \cap In(value, x) : \A j \in 1..Len(value[m]) : value[m][j] \in In(w, x)
    <3> SUFFICES ASSUME NEW m \in In(w, x), NEW j \in 1..Len(value[m]) PROVE value[m][j] \in In(w, x)
      OBVIOUS
    <3>1. m \in Nodes
      BY <1>4, InsideOf
    <3>2. j \in 1..Len(w[m]) /\ w[m][j] = value[m][j]
      BY <1>8, <3>1
    <3> QED BY <1>4, <3>2, InsideOf
  <2> QED BY <1>1, <2>1, <2>2, InsideLeast
<1>10. \A x \in Nodes : \A y \in In(w, x) :
         y \in In(value, x) \/ (y \in In(value, n) /\ g \in In(value, x))
  <2> SUFFICES ASSUME NEW x \in Nodes
               PROVE  \A y \in In(w, x) : y \in In(value, x) \/ (y \in In(value, n) /\ g \in In(value, x))
    OBVIOUS
  <2> DEFINE T == {y \in Nodes : y \in In(value, x) \/ (y \in In(value, n) /\ g \in In(value, x))}
  <2>1. x \in T
    BY <1>1, InsideOf
  <2>2. ASSUME NEW m \in T, NEW j \in 1..Len(w[m]) PROVE w[m][j] \in T
    <3>1. CASE j \in 1..Len(value[m]) /\ w[m][j] = value[m][j]
      BY <1>1, <1>2, <3>1, InsideOf
    <3>2. CASE m = g /\ w[m][j] = n
      BY <1>1, <3>2, InsideOf
    <3> QED BY <1>7, <3>1, <3>2
  <2>3. In(w, x) \subseteq T
    <3> HIDE DEF T
    <3> QED BY <1>4, <2>1, <2>2, InsideLeast
  <2> QED BY <2>3
<1>11. IsOwned(w)
  <2>1. ASSUME NEW a \in Nodes, NEW b \in Nodes, NEW j \in 1..Len(w[a]), NEW k \in 1..Len(w[b]),
               w[a][j] = w[b][k]
        PROVE  a = b /\ j = k
    <3>1. CASE j \in 1..Len(value[a]) /\ w[a][j] = value[a][j]
      <4>1. k \in 1..Len(value[b]) /\ w[b][k] = value[b][k]
        BY <1>7, <2>1, <3>1 DEF Unowned
      <4> QED BY <2>1, <3>1, <4>1 DEF Tree, IsOwned
    <3>2. CASE a = g /\ j = Len(value[g]) + 1 /\ w[a][j] = n
      BY <1>7, <2>1, <3>2 DEF Unowned
    <3> QED BY <1>7, <3>1, <3>2
  <2>2. ASSUME NEW m \in Nodes, NEW j \in 1..Len(w[m])
        PROVE  w[m][j] # Root /\ m \notin From(w[m][j], PartsIn(w)) /\ Kind[m] \notin {"cc", "leaf"}
    <3>1. CASE j \in 1..Len(value[m]) /\ w[m][j] = value[m][j]
      <4>1. value[m][j] # Root /\ Kind[m] \notin {"cc", "leaf"} /\ value[m][j] \in Nodes
        BY <1>2, <3>1 DEF Tree, IsOwned
      <4>2. m \notin In(value, value[m][j])
        BY <3>1, NotInPart
      <4>3. ASSUME m \in In(w, value[m][j]) PROVE FALSE
        <5>1. m \in In(value, n) /\ g \in In(value, value[m][j])
          BY <1>10, <4>1, <4>2, <4>3
        <5>2. value[m][j] \in In(value, n)
          BY <1>1, <3>1, <5>1, InsideOf
        <5>3. g \in In(value, n)
          BY <1>1, <5>1, <5>2, InsideOf
        <5> QED BY <5>3
      <4> QED BY <3>1, <4>1, <4>3 DEF In
    <3>2. CASE m = g /\ w[m][j] = n
      <4>1. g \notin In(w, n)
        BY <1>10
      <4> QED BY <3>2, <4>1 DEF In
    <3> QED BY <1>7, <3>1, <3>2
  <2> QED BY <2>1, <2>2 DEF IsOwned
<1> QED BY <1>4, <1>9, <1>10, <1>11 DEF Tree

-----------------------------------------------------------------------------
(* What the calls in progress have to do *)

Tasks == [op : {"trace", "finalize"}, do : {"visit", "release", "run"}, node : Nodes]
Phases == {"idle", "counting", "between", "roots"}

TraceTypes ==
    /\ content \in [Nodes -> Seq(Nodes)]
    /\ flag \in [Cells -> Int] /\ guards \in [Cells -> {"mut", "shared", "none"}]
    /\ agenda \in Seq(Tasks)
    /\ traced \in Seq(Nodes) /\ earlier \in Seq(Nodes)
    /\ phase \in Phases

Lends(A, op, c) == \E i \in 1..Len(A) : A[i] = Task(op, "release", c)

(* Nodes that calls work on are in the value, and what is around them is       *)
(* borrowed by the call.                                                       *)
Placed(A, value) ==
    \A i \in 1..Len(A) :
        /\ A[i].node \in In(value, Root)
        /\ A[i].do = "release" => A[i].node \in Cells
        /\ A[i].do = "run" => A[i].op = "finalize"
        /\ \A c \in Cells \ {A[i].node} :
             A[i].node \in In(value, c) =>
                 \E j \in (i + 1)..Len(A) : A[j] = Task(A[i].op, "release", c)

(* A call meets no node twice. *)
Apart(A, value) ==
    \A i, j \in 1..Len(A) :
        A[i].op = A[j].op /\ i # j =>
            /\ A[i].do = "visit" => A[j].node \notin In(value, A[i].node)
            /\ A[i] = A[j] => A[i].do # "release"

(* A collection runs in the innermost finalizer, which is the one that runs.   *)
Nested(A) ==
    \A i, j \in 1..Len(A) :
        i < j => /\ A[j].op = "trace" => A[i].op = "trace"
                 /\ A[j].do = "run" => A[i].op = "trace"

AgendaOK(A, value) == Placed(A, value) /\ Apart(A, value) /\ Nested(A)

IsEnd(B, A) ==
    /\ B \in Seq(Tasks) /\ Len(B) <= Len(A)
    /\ \A i \in 1..Len(B) : B[i] = A[i + (Len(A) - Len(B))]

IsJoin(C, T, B) ==
    /\ C \in Seq(Tasks) /\ Len(C) = Len(T) + Len(B)
    /\ \A i \in 1..Len(T) : C[i] = T[i]
    /\ \A i \in 1..Len(B) : C[Len(T) + i] = B[i]

LEMMA SeqTells ==
    ASSUME NEW S, NEW A \in Seq(S)
    PROVE  Len(A) \in Nat /\ \A i \in 1..Len(A) : A[i] \in S
BY LenProperties

LEMMA TailEnds ==
    ASSUME NEW A \in Seq(Tasks), A # <<>>
    PROVE  /\ IsEnd(Tail(A), A) /\ Len(Tail(A)) = Len(A) - 1 /\ Len(A) > 0
           /\ \A i \in 1..Len(Tail(A)) : Tail(A)[i] = A[i + 1]
<1>1. Len(A) \in Nat /\ Len(A) > 0
  BY LenProperties, EmptySeq
<1>2. /\ Tail(A) \in Seq(Tasks) /\ Len(Tail(A)) = Len(A) - 1
      /\ \A i \in 1..Len(Tail(A)) : Tail(A)[i] = A[i + 1]
  BY <1>1, HeadTailProperties
<1> QED BY <1>1, <1>2 DEF IsEnd

LEMMA SubSeqEnds ==
    ASSUME NEW A \in Seq(Tasks), NEW k \in 0..Len(A)
    PROVE  IsEnd(SubSeq(A, k + 1, Len(A)), A) /\ Len(SubSeq(A, k + 1, Len(A))) = Len(A) - k
<1> DEFINE B == SubSeq(A, k + 1, Len(A))
<1>1. Len(A) \in Nat /\ \A i \in 1..Len(A) : A[i] \in Tasks
  BY SeqTells
<1>2. B \in Seq(Tasks) /\ Len(B) = Len(A) - k /\ \A i \in 1..(Len(A) - k) : B[i] = A[k + i]
  <2>1. CASE k = Len(A)
    BY <1>1, <2>1, SubSeqProperties
  <2>2. CASE k < Len(A)
    BY <1>1, <2>2, SubSeqProperties
  <2> QED BY <1>1, <2>1, <2>2
<1> HIDE DEF B
<1>3. IsEnd(B, A)
  BY <1>1, <1>2 DEF IsEnd
<1> QED BY <1>2, <1>3 DEF B

LEMMA ConcatJoins ==
    ASSUME NEW T \in Seq(Tasks), NEW B \in Seq(Tasks)
    PROVE  IsJoin(T \o B, T, B)
<1>1. Len(T) \in Nat /\ Len(B) \in Nat
  BY LenProperties
<1>2. /\ T \o B \in Seq(Tasks) /\ Len(T \o B) = Len(T) + Len(B)
      /\ \A i \in 1..(Len(T) + Len(B)) : (T \o B)[i] = IF i <= Len(T) THEN T[i] ELSE B[i - Len(T)]
  BY ConcatProperties
<1>3. \A i \in 1..Len(T) : (T \o B)[i] = T[i]
  BY <1>1, <1>2
<1>4. \A i \in 1..Len(B) : (T \o B)[Len(T) + i] = B[i]
  <2> SUFFICES ASSUME NEW i \in 1..Len(B) PROVE (T \o B)[Len(T) + i] = B[i]
    OBVIOUS
  <2>1. Len(T) + i \in 1..(Len(T) + Len(B)) /\ ~(Len(T) + i <= Len(T)) /\ (Len(T) + i) - Len(T) = i
    BY <1>1
  <2> QED BY <1>2, <2>1
<1> QED BY <1>2, <1>3, <1>4 DEF IsJoin

(* Each task of a join is of one part or of the other.                         *)
LEMMA JoinCases ==
    ASSUME NEW C, NEW T \in Seq(Tasks), NEW B \in Seq(Tasks), IsJoin(C, T, B), NEW i \in 1..Len(C)
    PROVE  \/ i \in 1..Len(T) /\ C[i] = T[i]
           \/ \E j \in 1..Len(B) : i = Len(T) + j /\ C[i] = B[j]
<1>1. Len(T) \in Nat /\ Len(B) \in Nat
  BY LenProperties
<1>2. CASE i <= Len(T)
  BY <1>1, <1>2 DEF IsJoin
<1>3. CASE i > Len(T)
  <2>1. i - Len(T) \in 1..Len(B) /\ i = Len(T) + (i - Len(T))
    BY <1>1, <1>3 DEF IsJoin
  <2> QED BY <2>1 DEF IsJoin
<1> QED BY <1>1, <1>2, <1>3 DEF IsJoin

LEMMA LendsJoin ==
    ASSUME NEW C, NEW T \in Seq(Tasks), NEW B \in Seq(Tasks), IsJoin(C, T, B), NEW op, NEW c
    PROVE  Lends(C, op, c) <=> Lends(T, op, c) \/ Lends(B, op, c)
<1>1. Len(T) \in Nat /\ Len(B) \in Nat
  BY LenProperties
<1>2. \A i \in 1..Len(T) : i \in 1..Len(C) /\ C[i] = T[i]
  BY <1>1 DEF IsJoin
<1>3. \A i \in 1..Len(B) : Len(T) + i \in 1..Len(C) /\ C[Len(T) + i] = B[i]
  BY <1>1 DEF IsJoin
<1>4. Lends(C, op, c) => Lends(T, op, c) \/ Lends(B, op, c)
  BY JoinCases DEF Lends
<1>5. Lends(T, op, c) => Lends(C, op, c)
  BY <1>2 DEF Lends
<1>6. Lends(B, op, c) => Lends(C, op, c)
  BY <1>3 DEF Lends
<1> QED BY <1>4, <1>5, <1>6

LEMMA EndOK ==
    ASSUME NEW A \in Seq(Tasks), NEW B, IsEnd(B, A), NEW value, AgendaOK(A, value)
    PROVE  AgendaOK(B, value)
<1> DEFINE d == Len(A) - Len(B)
<1>1. Len(A) \in Nat /\ Len(B) \in Nat /\ d \in Nat
  BY LenProperties DEF IsEnd
<1>2. \A i \in 1..Len(B) : i + d \in 1..Len(A) /\ B[i] = A[i + d]
  BY <1>1 DEF IsEnd
<1>3. Placed(B, value)
  <2> SUFFICES ASSUME NEW i \in 1..Len(B)
               PROVE  /\ B[i].node \in In(value, Root)
                      /\ B[i].do = "release" => B[i].node \in Cells
                      /\ B[i].do = "run" => B[i].op = "finalize"
                      /\ \A c \in Cells \ {B[i].node} :
                           B[i].node \in In(value, c) =>
                               \E j \in (i + 1)..Len(B) : B[j] = Task(B[i].op, "release", c)
    BY DEF Placed
  <2>1. /\ A[i + d].node \in In(value, Root)
        /\ A[i + d].do = "release" => A[i + d].node \in Cells
        /\ A[i + d].do = "run" => A[i + d].op = "finalize"
    BY <1>2 DEF AgendaOK, Placed
  <2>2. ASSUME NEW c \in Cells \ {B[i].node}, B[i].node \in In(value, c)
        PROVE  \E j \in (i + 1)..Len(B) : B[j] = Task(B[i].op, "release", c)
    <3>1. PICK k \in (i + d + 1)..Len(A) : A[k] = Task(A[i + d].op, "release", c)
      BY <1>2, <2>2 DEF AgendaOK, Placed
    <3>2. k - d \in (i + 1)..Len(B) /\ k - d \in 1..Len(B) /\ k - d + d = k
      BY <1>1, <3>1
    <3>3. B[k - d] = A[k]
      BY <1>2, <3>2
    <3> QED BY <1>2, <3>1, <3>2, <3>3
  <2> QED BY <1>2, <2>1, <2>2
<1>4. Apart(B, value)
  <2> SUFFICES ASSUME NEW i \in 1..Len(B), NEW j \in 1..Len(B), B[i].op = B[j].op, i # j
               PROVE  /\ B[i].do = "visit" => B[j].node \notin In(value, B[i].node)
                      /\ B[i] = B[j] => B[i].do # "release"
    BY DEF Apart
  <2>1. i + d \in 1..Len(A) /\ j + d \in 1..Len(A) /\ i + d # j + d /\ B[i] = A[i + d] /\ B[j] = A[j + d]
    BY <1>1, <1>2
  <2> QED BY <2>1 DEF AgendaOK, Apart
<1>5. Nested(B)
  <2> SUFFICES ASSUME NEW i \in 1..Len(B), NEW j \in 1..Len(B), i < j
               PROVE  /\ B[j].op = "trace" => B[i].op = "trace"
                      /\ B[j].do = "run" => B[i].op = "trace"
    BY DEF Nested
  <2>1. i + d \in 1..Len(A) /\ j + d \in 1..Len(A) /\ i + d < j + d /\ B[i] = A[i + d] /\ B[j] = A[j + d]
    BY <1>1, <1>2
  <2> QED BY <2>1 DEF AgendaOK, Nested
<1> QED BY <1>3, <1>4, <1>5 DEF AgendaOK

(* Tasks to put in front of an agenda, none of which is done elsewhere.        *)
Fits(T, A, value, op) ==
    \A i \in 1..Len(T) :
        /\ T[i].op = op /\ T[i].do = "visit" /\ T[i].node \in In(value, Root)
        /\ \A c \in Cells \ {T[i].node} : T[i].node \in In(value, c) => Lends(A, op, c)
        /\ \A j \in 1..Len(T) : i # j => T[j].node \notin In(value, T[i].node)
        /\ \A j \in 1..Len(A) :
             A[j].op = op => /\ A[j].node \notin In(value, T[i].node)
                             /\ A[j].do = "visit" => T[i].node \notin In(value, A[j].node)

LEMMA JoinOK ==
    ASSUME NEW A \in Seq(Tasks), NEW T \in Seq(Tasks), NEW C, IsJoin(C, T, A),
           NEW value, AgendaOK(A, value), NEW op,
           Fits(T, A, value, op),
           op = "trace" \/ \A j \in 1..Len(A) : A[j].op # "trace" /\ A[j].do # "run"
    PROVE  AgendaOK(C, value)
<1> DEFINE d == Len(T)
<1>1. Len(A) \in Nat /\ d \in Nat /\ Len(C) = d + Len(A)
  BY LenProperties DEF IsJoin
<1>2. \A i \in 1..d : i \in 1..Len(C) /\ C[i] = T[i]
  BY <1>1 DEF IsJoin
<1>3. \A i \in 1..Len(A) : d + i \in 1..Len(C) /\ C[d + i] = A[i]
  BY <1>1 DEF IsJoin
<1>4. \A i \in 1..Len(C) : i \in 1..d \/ (i - d \in 1..Len(A) /\ C[i] = A[i - d])
  <2> SUFFICES ASSUME NEW i \in 1..Len(C), i \notin 1..d
               PROVE  i - d \in 1..Len(A) /\ C[i] = A[i - d]
    OBVIOUS
  <2>1. i - d \in 1..Len(A) /\ d + (i - d) = i
    BY <1>1
  <2> QED BY <1>3, <2>1
<1> HIDE DEF d
<1>5. Placed(C, value)
  <2> SUFFICES ASSUME NEW i \in 1..Len(C)
               PROVE  /\ C[i].node \in In(value, Root)
                      /\ C[i].do = "release" => C[i].node \in Cells
                      /\ C[i].do = "run" => C[i].op = "finalize"
                      /\ \A c \in Cells \ {C[i].node} :
                           C[i].node \in In(value, c) =>
                               \E j \in (i + 1)..Len(C) : C[j] = Task(C[i].op, "release", c)
    BY DEF Placed
  <2>1. CASE i \in 1..d
    <3>1. i \in 1..Len(T) /\ C[i] = T[i]
      BY <1>2, <2>1 DEF d
    <3>2. /\ C[i].op = op /\ C[i].node \in In(value, Root) /\ C[i].do = "visit"
          /\ \A c \in Cells \ {C[i].node} : C[i].node \in In(value, c) => Lends(A, op, c)
      BY <3>1 DEF Fits
    <3>3. ASSUME NEW c, Lends(A, op, c)
          PROVE  \E j \in (i + 1)..Len(C) : C[j] = Task(op, "release", c)
      <4>1. PICK k \in 1..Len(A) : A[k] = Task(op, "release", c)
        BY <3>3 DEF Lends
      <4>2. d + k \in (i + 1)..Len(C) /\ C[d + k] = A[k]
        BY <1>1, <1>3, <2>1
      <4> QED BY <4>1, <4>2
    <3> QED BY <3>2, <3>3
  <2>2. CASE i - d \in 1..Len(A) /\ C[i] = A[i - d]
    <3>1. /\ A[i - d].node \in In(value, Root)
          /\ A[i - d].do = "release" => A[i - d].node \in Cells
          /\ A[i - d].do = "run" => A[i - d].op = "finalize"
      BY <2>2 DEF AgendaOK, Placed
    <3>2. ASSUME NEW c \in Cells \ {C[i].node}, C[i].node \in In(value, c)
          PROVE  \E j \in (i + 1)..Len(C) : C[j] = Task(C[i].op, "release", c)
      <4>1. PICK k \in (i - d + 1)..Len(A) : A[k] = Task(A[i - d].op, "release", c)
        BY <2>2, <3>2 DEF AgendaOK, Placed
      <4>2. k \in 1..Len(A) /\ d + k \in (i + 1)..Len(C)
        BY <1>1, <2>2, <4>1
      <4> QED BY <1>3, <2>2, <4>1, <4>2
    <3> QED BY <2>2, <3>1, <3>2
  <2> QED BY <1>4, <2>1, <2>2
<1>6. Apart(C, value)
  <2> SUFFICES ASSUME NEW i \in 1..Len(C), NEW j \in 1..Len(C), C[i].op = C[j].op, i # j
               PROVE  /\ C[i].do = "visit" => C[j].node \notin In(value, C[i].node)
                      /\ C[i] = C[j] => C[i].do # "release"
    BY DEF Apart
  <2>1. CASE i \in 1..d /\ j \in 1..d
    <3>1. C[i] = T[i] /\ C[j] = T[j] /\ i \in 1..Len(T) /\ j \in 1..Len(T)
      BY <1>2, <2>1 DEF d
    <3> QED BY <3>1 DEF Fits
  <2>2. CASE i \in 1..d /\ j - d \in 1..Len(A) /\ C[j] = A[j - d]
    <3>1. C[i] = T[i] /\ i \in 1..Len(T)
      BY <1>2, <2>2 DEF d
    <3> QED BY <2>2, <3>1 DEF Fits
  <2>3. CASE j \in 1..d /\ i - d \in 1..Len(A) /\ C[i] = A[i - d]
    <3>1. C[j] = T[j] /\ j \in 1..Len(T)
      BY <1>2, <2>3 DEF d
    <3> QED BY <2>3, <3>1 DEF Fits
  <2>4. CASE i - d \in 1..Len(A) /\ C[i] = A[i - d] /\ j - d \in 1..Len(A) /\ C[j] = A[j - d]
    <3>1. i - d # j - d
      BY <1>1
    <3> QED BY <2>4, <3>1 DEF AgendaOK, Apart
  <2> QED BY <1>4, <2>1, <2>2, <2>3, <2>4
<1>7. Nested(C)
  <2> SUFFICES ASSUME NEW i \in 1..Len(C), NEW j \in 1..Len(C), i < j
               PROVE  /\ C[j].op = "trace" => C[i].op = "trace"
                      /\ C[j].do = "run" => C[i].op = "trace"
    BY DEF Nested
  <2>1. CASE i \in 1..d /\ j \in 1..d
    <3>1. C[i] = T[i] /\ C[j] = T[j] /\ i \in 1..Len(T) /\ j \in 1..Len(T)
      BY <1>1, <1>2, <2>1 DEF d
    <3> QED BY <3>1 DEF Fits
  <2>2. CASE i \in 1..d /\ j - d \in 1..Len(A) /\ C[j] = A[j - d]
    <3>1. C[i] = T[i] /\ i \in 1..Len(T)
      BY <1>2, <2>2 DEF d
    <3> QED BY <2>2, <3>1 DEF Fits
  <2>3. CASE j \in 1..d /\ i \notin 1..d
    BY <1>1, <2>3
  <2>4. CASE i - d \in 1..Len(A) /\ C[i] = A[i - d] /\ j - d \in 1..Len(A) /\ C[j] = A[j - d]
    <3>1. i - d < j - d
      BY <1>1
    <3> QED BY <2>4, <3>1 DEF AgendaOK, Nested
  <2> QED BY <1>4, <2>1, <2>2, <2>3, <2>4
<1> QED BY <1>5, <1>6, <1>7 DEF AgendaOK

(* A node is visited, and something remains to be done about it.               *)
LEMMA HeadOK ==
    ASSUME NEW A \in Seq(Tasks), Len(A) > 0, NEW value, AgendaOK(A, value),
           NEW t \in Tasks, t.op = A[1].op, t.node = A[1].node, A[1].do = "visit",
           t.do = "release" => t.node \in Cells, t.do = "run" => t.op = "finalize", t.do # "visit",
           value \in [Nodes -> Seq(Nodes)],
           NEW C, IsJoin(C, <<t>>, Tail(A))
    PROVE  AgendaOK(C, value)
<1> DEFINE B == Tail(A)
<1>1. Len(A) \in Nat /\ A # <<>> /\ \A i \in 1..Len(A) : A[i] \in Tasks
  BY SeqTells, EmptySeq
<1>2. /\ C \in Seq(Tasks) /\ Len(C) = Len(A) /\ C[1] = t
      /\ \A i \in 1..Len(A) : i # 1 => C[i] = A[i]
  <2>1. Len(Tail(A)) = Len(A) - 1 /\ \A i \in 1..Len(Tail(A)) : Tail(A)[i] = A[i + 1]
    BY <1>1, TailEnds
  <2>2. Len(<<t>>) = 1 /\ <<t>>[1] = t
    OBVIOUS
  <2>3. C \in Seq(Tasks) /\ Len(C) = Len(A) /\ C[1] = t
    BY <1>1, <2>1, <2>2 DEF IsJoin
  <2>4. ASSUME NEW i \in 1..Len(A), i # 1 PROVE C[i] = A[i]
    <3>1. i - 1 \in 1..Len(Tail(A)) /\ 1 + (i - 1) = i /\ (i - 1) + 1 = i
      BY <1>1, <2>1, <2>4
    <3> QED BY <2>1, <2>2, <3>1 DEF IsJoin
  <2> QED BY <2>3, <2>4
<1>3. \A i \in 1..Len(A) : C[i].op = A[i].op /\ C[i].node = A[i].node
  BY <1>1, <1>2
<1>4. \A i \in 1..Len(A) : C[i].do = "run" => C[i].op = "finalize"
  BY <1>1, <1>2 DEF AgendaOK, Placed
<1>5. Placed(C, value)
  <2> SUFFICES ASSUME NEW i \in 1..Len(A)
               PROVE  /\ C[i].node \in In(value, Root)
                      /\ C[i].do = "release" => C[i].node \in Cells
                      /\ \A c \in Cells \ {C[i].node} :
                           C[i].node \in In(value, c) =>
                               \E j \in (i + 1)..Len(C) : C[j] = Task(C[i].op, "release", c)
    BY <1>2, <1>4 DEF Placed
  <2>1. C[i].node \in In(value, Root) /\ (C[i].do = "release" => C[i].node \in Cells)
    BY <1>2, <1>3 DEF AgendaOK, Placed
  <2>2. ASSUME NEW c \in Cells \ {C[i].node}, C[i].node \in In(value, c)
        PROVE  \E j \in (i + 1)..Len(C) : C[j] = Task(C[i].op, "release", c)
    <3>1. PICK j \in (i + 1)..Len(A) : A[j] = Task(A[i].op, "release", c)
      BY <1>3, <2>2 DEF AgendaOK, Placed
    <3>2. j \in 1..Len(A) /\ j # 1
      BY <1>1, <3>1
    <3> QED BY <1>2, <1>3, <3>1, <3>2
  <2> QED BY <2>1, <2>2
<1>6. Apart(C, value)
  <2> SUFFICES ASSUME NEW i \in 1..Len(A), NEW j \in 1..Len(A), A[i].op = A[j].op, i # j
               PROVE  /\ C[i].do = "visit" => A[j].node \notin In(value, A[i].node)
                      /\ C[i] = C[j] => C[i].do # "release"
    BY <1>2, <1>3 DEF Apart
  <2>1. C[i].do = "visit" => i # 1
    BY <1>2
  <2>2. C[i].do = "visit" => A[j].node \notin In(value, A[i].node)
    BY <1>2, <2>1 DEF AgendaOK, Apart
  <2>3. CASE i = 1 \/ j = 1
    <3>1. A[i].node # A[j].node
      <4>1. A[1].node \in In(value, A[1].node)
        BY <1>1, InsideOf DEF Tasks
      <4> QED BY <2>3, <4>1 DEF AgendaOK, Apart
    <3> QED BY <1>3, <2>2, <3>1
  <2>4. CASE i # 1 /\ j # 1
    BY <1>2, <2>2, <2>4 DEF AgendaOK, Apart
  <2> QED BY <2>3, <2>4
<1>7. Nested(C)
  <2> SUFFICES ASSUME NEW i \in 1..Len(A), NEW j \in 1..Len(A), i < j
               PROVE  /\ A[j].op = "trace" => A[i].op = "trace"
                      /\ C[j].do = "run" => A[i].op = "trace"
    BY <1>2, <1>3 DEF Nested
  <2>1. C[j] = A[j]
    BY <1>1, <1>2
  <2> QED BY <2>1 DEF AgendaOK, Nested
<1> QED BY <1>5, <1>6, <1>7 DEF AgendaOK

-----------------------------------------------------------------------------
(* A call goes on to what a node contains. *)

(* ns are some elements of s, in their order.                                  *)
IsPart(ns, s) ==
    /\ ns \in Seq(Nodes)
    /\ \E e : \A i, j \in 1..Len(ns) :
         e[i] \in 1..Len(s) /\ ns[i] = s[e[i]] /\ (i < j => e[i] < e[j])

LEMMA WholePart ==
    ASSUME NEW s \in Seq(Nodes) PROVE IsPart(s, s)
<1> DEFINE e == [i \in 1..Len(s) |-> i]
<1>1. \A i, j \in 1..Len(s) : e[i] \in 1..Len(s) /\ s[i] = s[e[i]] /\ (i < j => e[i] < e[j])
  OBVIOUS
<1> QED BY <1>1 DEF IsPart

LEMMA VisitsType ==
    ASSUME NEW op \in {"trace", "finalize"}, NEW ns \in Seq(Nodes)
    PROVE  /\ Visits(op, ns) \in Seq(Tasks) /\ Len(Visits(op, ns)) = Len(ns)
           /\ \A i \in 1..Len(ns) : Visits(op, ns)[i] = Task(op, "visit", ns[i])
<1> DEFINE T == Visits(op, ns)
<1>1. Len(ns) \in Nat /\ \A i \in 1..Len(ns) : ns[i] \in Nodes
  BY SeqTells
<1>2. \A i \in 1..Len(ns) : Task(op, "visit", ns[i]) \in Tasks
  BY <1>1 DEF Task, Tasks
<1>3. T = [i \in 1..Len(ns) |-> Task(op, "visit", ns[i])]
  BY DEF Visits
<1>4. T \in [1..Len(ns) -> Tasks]
  BY <1>2, <1>3
<1>5. T \in Seq(Tasks)
  BY <1>1, <1>4, IsASeq
<1>6. Len(T) = Len(ns)
  BY <1>1, <1>3, <1>5, LenProperties
<1> QED BY <1>3, <1>5, <1>6

LEMMA VisitsOK ==
    ASSUME NEW B \in Seq(Tasks), NEW value, Tree(value), AgendaOK(B, value),
           NEW op \in {"trace", "finalize"}, NEW n \in In(value, Root),
           NEW ns, IsPart(ns, value[n]),
           \A c \in Cells : n \in In(value, c) => Lends(B, op, c),
           \A j \in 1..Len(B) :
             B[j].op = op =>
               /\ B[j].node \notin In(value, n) \/ (B[j].node = n /\ B[j].do = "release")
               /\ B[j].do = "visit" => n \notin In(value, B[j].node),
           op = "trace" \/ \A j \in 1..Len(B) : B[j].op # "trace" /\ B[j].do # "run",
           NEW C, IsJoin(C, Visits(op, ns), B)
    PROVE  AgendaOK(C, value)
<1> DEFINE T == Visits(op, ns)
<1>1. value \in [Nodes -> Seq(Nodes)] /\ n \in Nodes
  BY InsideOf, NodesAssumption DEF Tree
<1>2. /\ ns \in Seq(Nodes) /\ T \in Seq(Tasks) /\ Len(T) = Len(ns)
      /\ \A i \in 1..Len(T) : T[i].op = op /\ T[i].do = "visit" /\ T[i].node = ns[i]
  <2>1. ns \in Seq(Nodes)
    BY DEF IsPart
  <2>2. T \in Seq(Tasks) /\ Len(T) = Len(ns) /\ \A i \in 1..Len(ns) : T[i] = Task(op, "visit", ns[i])
    BY <2>1, VisitsType
  <2> HIDE DEF T
  <2>3. \A x : LET t == Task(op, "visit", x) IN t.op = op /\ t.do = "visit" /\ t.node = x
    BY DEF Task
  <2> QED BY <2>1, <2>2, <2>3
<1>3. \A j \in 1..Len(B) : B[j] \in Tasks
  BY SeqTells
<1>4. PICK e : \A i, j \in 1..Len(ns) :
                 e[i] \in 1..Len(value[n]) /\ ns[i] = value[n][e[i]] /\ (i < j => e[i] < e[j])
  BY DEF IsPart
<1>5. Len(ns) \in Nat /\ Len(value[n]) \in Nat
  BY <1>1, <1>2, SeqTells
<1> HIDE DEF T
<1>6. ASSUME NEW i \in 1..Len(T)
      PROVE  /\ T[i].op = op /\ T[i].do = "visit" /\ T[i].node \in In(value, Root)
             /\ \A c \in Cells \ {T[i].node} : T[i].node \in In(value, c) => Lends(B, op, c)
             /\ \A j \in 1..Len(T) : i # j => T[j].node \notin In(value, T[i].node)
             /\ \A j \in 1..Len(B) :
                  B[j].op = op => /\ B[j].node \notin In(value, T[i].node)
                                  /\ B[j].do = "visit" => T[i].node \notin In(value, B[j].node)
  <2> DEFINE m == T[i].node
  <2>1. m = value[n][e[i]] /\ e[i] \in 1..Len(value[n]) /\ T[i].op = op /\ T[i].do = "visit"
    BY <1>2, <1>4
  <2>2. m \in Nodes
    BY <1>1, <2>1, PartsType
  <2>3. m \in In(value, n) /\ m \in In(value, Root)
    BY <1>1, <2>1, InsideOf, NodesAssumption
  <2> HIDE DEF m
  <2>4. ASSUME NEW c \in Cells \ {m}, m \in In(value, c) PROVE Lends(B, op, c)
    <3>1. c \in Nodes
      BY DEF Cells
    <3>2. n \in In(value, c)
      BY <1>1, <2>1, <2>4, <3>1, OwnerInside
    <3> QED BY <3>2
  <2>5. ASSUME NEW j \in 1..Len(T), i # j PROVE T[j].node \notin In(value, m)
    <3> DEFINE a == e[i]
               b == e[j]
    <3>1. T[j].node = value[n][b] /\ b \in 1..Len(value[n]) /\ m = value[n][a] /\ a \in 1..Len(value[n])
      BY <1>2, <1>4, <2>1
    <3>2. a # b
      <4>1. i \in 1..Len(ns) /\ j \in 1..Len(ns) /\ (i < j \/ j < i)
        BY <1>2, <1>5, <2>5
      <4> QED BY <1>4, <1>5, <4>1
    <3> HIDE DEF a, b
    <3>3. value[n][b] \in Nodes
      BY <1>1, <3>1, PartsType
    <3>4. value[n][b] \in In(value, value[n][b])
      BY <1>1, <3>3, InsideOf
    <3> QED BY <1>1, <3>1, <3>2, <3>4, PartsApart
  <2>6. ASSUME NEW j \in 1..Len(B), B[j].op = op
        PROVE  /\ B[j].node \notin In(value, m)
               /\ B[j].do = "visit" => m \notin In(value, B[j].node)
    <3>1. B[j].node \in Nodes
      BY <1>3 DEF Tasks
    <3>2. B[j].node \notin In(value, m)
      <4>1. CASE B[j].node \notin In(value, n)
        BY <1>1, <2>3, <4>1, InsideOf
      <4>2. CASE B[j].node = n
        BY <1>1, <2>1, <4>2, NotInPart
      <4> QED BY <2>6, <4>1, <4>2
    <3>3. ASSUME B[j].do = "visit", m \in In(value, B[j].node) PROVE FALSE
      <4>1. B[j].node \notin In(value, n) /\ n \notin In(value, B[j].node)
        BY <2>6, <3>3
      <4>2. m # B[j].node
        BY <2>3, <4>1
      <4> QED BY <1>1, <2>1, <3>1, <3>3, <4>1, <4>2, OwnerInside
    <3> QED BY <3>2, <3>3
  <2> QED BY <2>1, <2>3, <2>4, <2>5, <2>6 DEF m
<1>7. T \in Seq(Tasks) /\ IsJoin(C, T, B)
  BY <1>2 DEF T
<1>8. Fits(T, B, value, op)
  BY <1>6 DEF Fits
<1> QED BY <1>7, <1>8, JoinOK

(* The rest of an agenda, once its first node was visited.                     *)
LEMMA RestTells ==
    ASSUME NEW A \in Seq(Tasks), NEW value, AgendaOK(A, value), Len(A) > 0, A[1].do = "visit",
           NEW B, B = Tail(A)
    PROVE  /\ B \in Seq(Tasks) /\ AgendaOK(B, value)
           /\ \A c \in Cells \ {A[1].node} : A[1].node \in In(value, c) => Lends(B, A[1].op, c)
           /\ \A j \in 1..Len(B) :
                B[j].op = A[1].op =>
                  /\ B[j].node \notin In(value, A[1].node)
                  /\ B[j].do = "visit" => A[1].node \notin In(value, B[j].node)
           /\ A[1].op # "trace" => \A j \in 1..Len(B) : B[j].op # "trace" /\ B[j].do # "run"
<1>1. A # <<>> /\ Len(A) \in Nat
  BY LenProperties, EmptySeq
<1>2. /\ IsEnd(B, A) /\ B \in Seq(Tasks) /\ Len(B) = Len(A) - 1
      /\ \A i \in 1..Len(B) : B[i] = A[i + 1]
  BY <1>1, TailEnds DEF IsEnd
<1>3. AgendaOK(B, value)
  BY <1>2, EndOK
<1>4. ASSUME NEW c \in Cells \ {A[1].node}, A[1].node \in In(value, c) PROVE Lends(B, A[1].op, c)
  <2>1. PICK j \in 2..Len(A) : A[j] = Task(A[1].op, "release", c)
    <3>1. 1 \in 1..Len(A) /\ 1 + 1 = 2
      BY <1>1
    <3> QED BY <1>4, <3>1 DEF AgendaOK, Placed
  <2>2. j - 1 \in 1..Len(B) /\ (j - 1) + 1 = j
    BY <1>1, <1>2
  <2> QED BY <1>2, <2>1, <2>2 DEF Lends
<1>5. \A j \in 1..Len(B) : j + 1 \in 1..Len(A) /\ 1 \in 1..Len(A) /\ 1 < j + 1
  BY <1>1, <1>2
<1> QED BY <1>2, <1>3, <1>4, <1>5 DEF AgendaOK, Apart, Nested

-----------------------------------------------------------------------------
(* Borrow flags *)

(* Only a collection traces, and it is started where code of the program runs. *)
PhaseOK(A, ph) ==
    \A i \in 1..Len(A) :
        /\ A[i].op = "trace" => ph \in {"counting", "roots"}
        /\ A[i].op # "trace" /\ ph # "idle" => \E j \in 1..i : A[j].do = "run"

FlagOK(A, f, g, c) ==
    /\ Lends(A, "trace", c) => f = -1 /\ g = "none" /\ ~Lends(A, "finalize", c)
    /\ ~Lends(A, "trace", c) /\ g = "mut" => f = -1 /\ ~Lends(A, "finalize", c)
    /\ ~Lends(A, "trace", c) /\ g # "mut" =>
         f = (IF g = "shared" THEN 1 ELSE 0) + (IF Lends(A, "finalize", c) THEN 1 ELSE 0)

FlagsTell ==
    \A c \in Cells :
        /\ FlagOK(agenda, flag[c], guards[c], c)
        /\ guards[c] # "none" => c \in In(content, Root)

CallsInv ==
    /\ TraceTypes /\ IsOwned(content)
    /\ AgendaOK(agenda, content) /\ PhaseOK(agenda, phase)
    /\ FlagsTell

LEMMA InvTells ==
    ASSUME CallsInv
    PROVE  /\ Tree(content) /\ content \in [Nodes -> Seq(Nodes)]
           /\ agenda \in Seq(Tasks) /\ Len(agenda) \in Nat
           /\ \A i \in 1..Len(agenda) : agenda[i] \in Tasks
           /\ agenda # <<>> <=> Len(agenda) > 0
<1>1. Tree(content) /\ content \in [Nodes -> Seq(Nodes)] /\ agenda \in Seq(Tasks)
  BY DEF CallsInv, TraceTypes, Tree
<1> QED BY <1>1, SeqTells, EmptySeq

LEMMA TaskTells ==
    ASSUME NEW op, NEW do, NEW n
    PROVE  /\ Task(op, do, n).op = op /\ Task(op, do, n).do = do /\ Task(op, do, n).node = n
           /\ \A o, d, m : Task(op, do, n) = Task(o, d, m) => op = o /\ do = d /\ n = m
BY DEF Task

LEMMA TaskIs ==
    ASSUME NEW t \in Tasks
    PROVE  t = Task(t.op, t.do, t.node)
BY DEF Task, Tasks

LEMMA HeadLends ==
    ASSUME NEW A \in Seq(Tasks), Len(A) > 0, NEW op, NEW c
    PROVE  Lends(A, op, c) <=> A[1] = Task(op, "release", c) \/ Lends(Tail(A), op, c)
<1>1. /\ Len(A) \in Nat /\ Len(Tail(A)) = Len(A) - 1
      /\ \A i \in 1..Len(Tail(A)) : Tail(A)[i] = A[i + 1]
  BY SeqTells, EmptySeq, TailEnds
<1>2. ASSUME NEW i \in 1..Len(A), A[i] = Task(op, "release", c), i # 1 PROVE Lends(Tail(A), op, c)
  <2>1. i - 1 \in 1..Len(Tail(A)) /\ (i - 1) + 1 = i
    BY <1>1, <1>2
  <2> QED BY <1>1, <1>2, <2>1 DEF Lends
<1>3. Lends(Tail(A), op, c) => Lends(A, op, c)
  <2>1. \A i \in 1..Len(Tail(A)) : i + 1 \in 1..Len(A)
    BY <1>1
  <2> QED BY <1>1, <2>1 DEF Lends
<1>4. 1 \in 1..Len(A)
  BY <1>1
<1> QED BY <1>2, <1>3, <1>4 DEF Lends

LEMMA VisitsLend ==
    ASSUME NEW op \in {"trace", "finalize"}, NEW ns \in Seq(Nodes), NEW o, NEW c
    PROVE  ~Lends(Visits(op, ns), o, c)
<1> DEFINE T == Visits(op, ns)
<1>1. Len(T) = Len(ns) /\ \A i \in 1..Len(ns) : T[i] = Task(op, "visit", ns[i])
  BY VisitsType
<1> HIDE DEF T
<1>2. ASSUME NEW i \in 1..Len(T), T[i] = Task(o, "release", c) PROVE FALSE
  BY <1>1, <1>2, TaskTells
<1> QED BY <1>2 DEF Lends, T

(* The call whose borrow ends is the only one of its kind.                     *)
LEMMA HeadOnce ==
    ASSUME NEW A \in Seq(Tasks), Len(A) > 0, NEW value, AgendaOK(A, value), A[1].do = "release"
    PROVE  ~Lends(Tail(A), A[1].op, A[1].node)
<1>1. /\ Len(A) \in Nat /\ Len(Tail(A)) = Len(A) - 1 /\ A[1] \in Tasks
      /\ \A i \in 1..Len(Tail(A)) : Tail(A)[i] = A[i + 1]
  BY SeqTells, EmptySeq, TailEnds
<1>2. ASSUME NEW i \in 1..Len(Tail(A)), Tail(A)[i] = Task(A[1].op, "release", A[1].node) PROVE FALSE
  <2>1. i + 1 \in 1..Len(A) /\ 1 \in 1..Len(A) /\ i + 1 # 1
    BY <1>1
  <2>2. A[i + 1] = A[1]
    BY <1>1, <1>2, TaskIs
  <2> QED BY <2>1, <2>2 DEF AgendaOK, Apart
<1> QED BY <1>2 DEF Lends

LEMMA PhaseTail ==
    ASSUME NEW A \in Seq(Tasks), Len(A) > 0, NEW ph, PhaseOK(A, ph), ph = "idle" \/ A[1].do # "run"
    PROVE  PhaseOK(Tail(A), ph)
<1> DEFINE B == Tail(A)
<1>1. Len(A) \in Nat /\ Len(B) = Len(A) - 1 /\ \A i \in 1..Len(B) : B[i] = A[i + 1]
  BY SeqTells, EmptySeq, TailEnds
<1> HIDE DEF B
<1> SUFFICES ASSUME NEW i \in 1..Len(B)
             PROVE  /\ B[i].op = "trace" => ph \in {"counting", "roots"}
                    /\ B[i].op # "trace" /\ ph # "idle" => \E j \in 1..i : B[j].do = "run"
  BY DEF PhaseOK, B
<1>2. i + 1 \in 1..Len(A)
  BY <1>1
<1>3. B[i].op = "trace" => ph \in {"counting", "roots"}
  BY <1>1, <1>2 DEF PhaseOK
<1>4. ASSUME B[i].op # "trace", ph # "idle" PROVE \E j \in 1..i : B[j].do = "run"
  <2>1. PICK j \in 1..(i + 1) : A[j].do = "run"
    BY <1>1, <1>2, <1>4 DEF PhaseOK
  <2>2. j - 1 \in 1..i /\ (j - 1) + 1 = j /\ j - 1 \in 1..Len(B)
    BY <1>1, <1>4, <2>1
  <2> QED BY <1>1, <2>1, <2>2
<1> QED BY <1>3, <1>4

LEMMA PhaseJoin ==
    ASSUME NEW B \in Seq(Tasks), NEW T \in Seq(Tasks), NEW C, IsJoin(C, T, B), NEW ph, PhaseOK(B, ph),
           \A i \in 1..Len(T) : IF T[i].op = "trace" THEN ph \in {"counting", "roots"} ELSE ph = "idle"
    PROVE  PhaseOK(C, ph)
<1>1. Len(B) \in Nat /\ Len(T) \in Nat
  BY SeqTells
<1> SUFFICES ASSUME NEW i \in 1..Len(C)
             PROVE  /\ C[i].op = "trace" => ph \in {"counting", "roots"}
                    /\ C[i].op # "trace" /\ ph # "idle" => \E j \in 1..i : C[j].do = "run"
  BY DEF PhaseOK
<1>2. CASE i \in 1..Len(T) /\ C[i] = T[i]
  BY <1>2
<1>3. ASSUME NEW k \in 1..Len(B), i = Len(T) + k, C[i] = B[k]
      PROVE  /\ C[i].op = "trace" => ph \in {"counting", "roots"}
             /\ C[i].op # "trace" /\ ph # "idle" => \E j \in 1..i : C[j].do = "run"
  <2>1. ASSUME NEW j \in 1..k, B[j].do = "run" PROVE \E l \in 1..i : C[l].do = "run"
    <3>1. j \in 1..Len(B) /\ Len(T) + j \in 1..i
      BY <1>1, <1>3
    <3> QED BY <2>1, <3>1 DEF IsJoin
  <2> QED BY <1>3, <2>1 DEF PhaseOK
<1> QED BY <1>2, <1>3, JoinCases

(* The same borrows, and flags and guards that did not change.                 *)
LEMMA FlagsStay ==
    ASSUME FlagsTell, UNCHANGED <<flag, guards, content>>,
           \A op \in {"trace", "finalize"}, c \in Cells : Lends(agenda', op, c) <=> Lends(agenda, op, c)
    PROVE  FlagsTell'
<1>1. \A c \in Cells : FlagOK(agenda, flag[c], guards[c], c) => FlagOK(agenda', flag[c], guards[c], c)
  BY DEF FlagOK
<1> QED BY <1>1 DEF FlagsTell

-----------------------------------------------------------------------------
(* How the agenda changes *)

(* A task that is not the end of a borrow is done.                             *)
LEMMA PopStep ==
    ASSUME CallsInv, Len(agenda) > 0, agenda[1].do # "release", agenda' = Tail(agenda),
           phase = "idle" \/ agenda[1].do # "run",
           UNCHANGED <<content, flag, guards, phase>>, TraceTypes'
    PROVE  CallsInv'
<1>1. /\ Tree(content) /\ agenda \in Seq(Tasks) /\ Len(agenda) \in Nat /\ agenda # <<>>
      /\ \A i \in 1..Len(agenda) : agenda[i] \in Tasks
  BY InvTells
<1>2. /\ IsEnd(agenda', agenda) /\ Len(agenda') = Len(agenda) - 1
      /\ \A i \in 1..Len(agenda') : agenda'[i] = agenda[i + 1]
  BY <1>1, TailEnds
<1>3. AgendaOK(agenda', content)
  BY <1>1, <1>2, EndOK DEF CallsInv
<1>4. PhaseOK(agenda', phase)
  BY <1>1, PhaseTail DEF CallsInv
<1>5. \A op, c : Lends(agenda', op, c) <=> Lends(agenda, op, c)
  BY <1>1, HeadLends, TaskTells
<1>6. FlagsTell'
  BY <1>5, FlagsStay DEF CallsInv
<1> QED BY <1>3, <1>4, <1>6 DEF CallsInv

(* A node that is not a RefCell is visited, and what it contains is next.      *)
LEMMA VisitStep ==
    ASSUME CallsInv, Len(agenda) > 0, agenda[1].do = "visit", Kind[agenda[1].node] # "cell",
           NEW ns, IsPart(ns, content[agenda[1].node]),
           agenda' = Visits(agenda[1].op, ns) \o Tail(agenda),
           UNCHANGED <<content, flag, guards, phase, traced, earlier>>
    PROVE  CallsInv'
<1> DEFINE A == agenda
           B == Tail(agenda)
           T == Visits(agenda[1].op, ns)
           op == agenda[1].op
           n == agenda[1].node
<1>1. /\ Tree(content) /\ content \in [Nodes -> Seq(Nodes)]
      /\ A \in Seq(Tasks) /\ Len(A) \in Nat /\ A # <<>> /\ A[1] \in Tasks
  BY InvTells
<1>2. op \in {"trace", "finalize"} /\ n \in Nodes /\ ns \in Seq(Nodes)
  BY <1>1 DEF Tasks, IsPart
<1>3. /\ T \in Seq(Tasks) /\ Len(T) = Len(ns)
      /\ \A i \in 1..Len(T) : T[i] = Task(op, "visit", ns[i])
  BY <1>2, VisitsType
<1>4. /\ B \in Seq(Tasks) /\ AgendaOK(B, content)
      /\ \A c \in Cells \ {n} : n \in In(content, c) => Lends(B, op, c)
      /\ \A j \in 1..Len(B) :
           B[j].op = op => /\ B[j].node \notin In(content, n)
                           /\ B[j].do = "visit" => n \notin In(content, B[j].node)
      /\ op # "trace" => \A j \in 1..Len(B) : B[j].op # "trace" /\ B[j].do # "run"
  BY <1>1, RestTells DEF CallsInv
<1>5. n \in In(content, Root)
  BY <1>1 DEF CallsInv, AgendaOK, Placed
<1>6. \A c \in Cells : n \in In(content, c) => Lends(B, op, c)
  BY <1>4 DEF Cells
<1>7. PhaseOK(B, phase)
  BY <1>1, PhaseTail DEF CallsInv
<1>8. IF op = "trace" THEN phase \in {"counting", "roots"} ELSE phase = "idle"
  <2>1. 1 \in 1..Len(A) /\ \A j \in 1..1 : j = 1
    BY <1>1
  <2> QED BY <2>1 DEF CallsInv, PhaseOK
<1>9. IsPart(ns, content[n]) /\ agenda' = T \o B
  OBVIOUS
<1> HIDE DEF B, T, op, n
<1>10. IsJoin(agenda', T, B)
  BY <1>3, <1>4, <1>9, ConcatJoins
<1>11. AgendaOK(agenda', content)
  <2>1. T = Visits(op, ns)
    BY DEF T, op
  <2>2. op = "trace" \/ \A j \in 1..Len(B) : B[j].op # "trace" /\ B[j].do # "run"
    BY <1>4
  <2> QED BY <1>1, <1>2, <1>4, <1>5, <1>6, <1>9, <1>10, <2>1, <2>2, VisitsOK
<1>12. PhaseOK(agenda', phase)
  <2>1. \A i \in 1..Len(T) : T[i].op = op
    BY <1>3, TaskTells
  <2> QED BY <1>3, <1>4, <1>7, <1>8, <1>10, <2>1, PhaseJoin
<1>13. \A o, c : Lends(agenda', o, c) <=> Lends(A, o, c)
  <2>1. \A o, c : ~Lends(T, o, c)
    BY <1>2, VisitsLend DEF T, op
  <2>2. \A o, c : Lends(agenda', o, c) <=> Lends(B, o, c)
    <3>1. T \in Seq(Tasks) /\ B \in Seq(Tasks)
      BY <1>3, <1>4
    <3>2. \A o, c : Lends(agenda', o, c) <=> Lends(T, o, c) \/ Lends(B, o, c)
      BY <1>10, <3>1, LendsJoin
    <3> QED BY <2>1, <3>2
  <2>3. \A o, c : A[1] # Task(o, "release", c)
    BY TaskTells
  <2> QED BY <1>1, <2>2, <2>3, HeadLends DEF B
<1>14. FlagsTell'
  BY <1>13, FlagsStay DEF CallsInv
<1>15. TraceTypes'
  BY <1>10 DEF CallsInv, TraceTypes, IsJoin
<1> QED BY <1>11, <1>12, <1>14, <1>15 DEF CallsInv

(* A finalizer of the program is called.                                       *)
LEMMA RunStep ==
    ASSUME CallsInv, FinalizeStruct
    PROVE  CallsInv'
<1> DEFINE A == agenda
           B == Tail(agenda)
           t == Task("finalize", "run", agenda[1].node)
<1>1. /\ Tree(content) /\ content \in [Nodes -> Seq(Nodes)]
      /\ A \in Seq(Tasks) /\ Len(A) \in Nat /\ A # <<>> /\ Len(A) > 0 /\ A[1] \in Tasks
      /\ A[1].op = "finalize" /\ A[1].do = "visit"
  BY InvTells DEF FinalizeStruct, Visiting
<1>2. /\ t \in Tasks /\ t.op = "finalize" /\ t.do = "run" /\ t.node = A[1].node
      /\ \A o, c : t # Task(o, "release", c)
  <2>1. A[1].node \in Nodes
    BY <1>1 DEF Tasks
  <2> QED BY <2>1, TaskTells DEF Task, Tasks
<1>3. agenda' = <<t>> \o B /\ UNCHANGED <<content, flag, guards, traced, earlier, phase>>
  BY DEF FinalizeStruct, Calls, Visited, valueVars, phaseVars
<1>4. B \in Seq(Tasks)
  BY <1>1, TailEnds DEF IsEnd
<1>5. PhaseOK(B, phase)
  BY <1>1, PhaseTail DEF CallsInv
<1>6. phase = "idle"
  <2>1. 1 \in 1..Len(A) /\ \A j \in 1..1 : j = 1
    BY <1>1
  <2> QED BY <1>1, <2>1 DEF CallsInv, PhaseOK
<1> HIDE DEF t
<1> DEFINE T == <<t>>
<1>7. T \in Seq(Tasks) /\ Len(T) = 1 /\ \A i \in 1..Len(T) : T[i] = t
  BY <1>2
<1>8. agenda' = T \o B
  BY <1>3
<1> HIDE DEF T
<1>9. IsJoin(agenda', T, B)
  BY <1>4, <1>7, <1>8, ConcatJoins
<1>10. AgendaOK(agenda', content)
  BY <1>1, <1>2, <1>9, HeadOK DEF CallsInv, T
<1>11. PhaseOK(agenda', phase)
  BY <1>2, <1>4, <1>5, <1>6, <1>7, <1>9, PhaseJoin
<1>12. \A o, c : Lends(agenda', o, c) <=> Lends(A, o, c)
  <2>1. \A o, c : ~Lends(T, o, c)
    BY <1>2, <1>7 DEF Lends
  <2>2. \A o, c : Lends(agenda', o, c) <=> Lends(B, o, c)
    BY <1>4, <1>7, <1>9, <2>1, LendsJoin
  <2>3. \A o, c : A[1] # Task(o, "release", c)
    BY <1>1, TaskTells
  <2> QED BY <1>1, <2>2, <2>3, HeadLends
<1>13. FlagsTell'
  BY <1>3, <1>12, FlagsStay DEF CallsInv
<1>14. TraceTypes'
  BY <1>3, <1>9 DEF CallsInv, TraceTypes, IsJoin
<1> QED BY <1>3, <1>10, <1>11, <1>13, <1>14 DEF CallsInv

(* A RefCell is visited and lends its content to the call.                     *)
LEMMA CellStep ==
    ASSUME CallsInv, Len(agenda) > 0, agenda[1].do = "visit", NEW n \in Cells, n = agenda[1].node,
           NEW op, op = agenda[1].op,
           agenda' = Append(Visits(op, content[n]), Task(op, "release", n)) \o Tail(agenda),
           IF op = "trace" THEN flag[n] = 0 /\ flag' = [flag EXCEPT ![n] = -1]
                           ELSE flag[n] >= 0 /\ flag' = [flag EXCEPT ![n] = @ + 1],
           UNCHANGED <<content, guards, phase, traced, earlier>>
    PROVE  CallsInv'
<1> DEFINE A == agenda
           B == Tail(agenda)
           T == Visits(op, content[n])
           r == Task(op, "release", n)
           R == <<r>>
           M == R \o B
<1>1. /\ Tree(content) /\ content \in [Nodes -> Seq(Nodes)]
      /\ A \in Seq(Tasks) /\ Len(A) \in Nat /\ A # <<>> /\ A[1] \in Tasks
  BY InvTells
<1>2. op \in {"trace", "finalize"} /\ n \in Nodes /\ content[n] \in Seq(Nodes) /\ Kind[n] = "cell"
  BY <1>1 DEF Tasks, Cells
<1>3. /\ T \in Seq(Tasks) /\ Len(T) = Len(content[n])
      /\ \A i \in 1..Len(T) : T[i] = Task(op, "visit", content[n][i])
  BY <1>2, VisitsType
<1>4. /\ B \in Seq(Tasks) /\ AgendaOK(B, content)
      /\ \A c \in Cells \ {n} : n \in In(content, c) => Lends(B, op, c)
      /\ \A j \in 1..Len(B) :
           B[j].op = op => /\ B[j].node \notin In(content, n)
                           /\ B[j].do = "visit" => n \notin In(content, B[j].node)
      /\ op # "trace" => \A j \in 1..Len(B) : B[j].op # "trace" /\ B[j].do # "run"
  BY <1>1, RestTells DEF CallsInv
<1>5. r \in Tasks /\ r.op = op /\ r.do = "release" /\ r.node = n
  BY <1>2, TaskTells DEF Task, Tasks
<1>6. agenda' = Append(T, r) \o B
  OBVIOUS
<1>7. n \in In(content, n) /\ n \in In(content, Root)
  BY <1>1, <1>2, InsideOf DEF CallsInv, AgendaOK, Placed
<1>8. PhaseOK(B, phase)
  BY <1>1, PhaseTail DEF CallsInv
<1>9. IF op = "trace" THEN phase \in {"counting", "roots"} ELSE phase = "idle"
  <2>1. 1 \in 1..Len(A) /\ \A j \in 1..1 : j = 1
    BY <1>1
  <2> QED BY <2>1 DEF CallsInv, PhaseOK
<1>10. r = Task(op, "release", n)
  OBVIOUS
<1>11. T = Visits(op, content[n])
  OBVIOUS
<1> HIDE DEF B, T, r
<1>12. R \in Seq(Tasks) /\ Len(R) = 1 /\ \A i \in 1..Len(R) : R[i] = r
  BY <1>5
<1>13. M = R \o B
  OBVIOUS
<1> HIDE DEF M, R
<1>14. IsJoin(M, R, B)
  BY <1>4, <1>12, <1>13, ConcatJoins
<1>15. AgendaOK(M, content)
  BY <1>1, <1>5, <1>14, HeadOK DEF CallsInv, R, B
<1>16. Len(B) \in Nat /\ M \in Seq(Tasks) /\ Len(M) = 1 + Len(B)
  BY <1>4, <1>12, <1>14, SeqTells DEF IsJoin
<1>17. M[1] = r /\ \A i \in 1..Len(B) : M[1 + i] = B[i]
  <2>1. 1 \in 1..Len(R)
    BY <1>12
  <2> QED BY <1>12, <1>14, <2>1 DEF IsJoin
<1>18. \A j \in 1..Len(M) : M[j] = r \/ \E i \in 1..Len(B) : M[j] = B[i]
  BY <1>4, <1>12, <1>14, JoinCases
<1>19. IsJoin(agenda', T, M)
  <2> DEFINE L == Append(T, r)
  <2>1. /\ Len(T) \in Nat /\ L \in Seq(Tasks) /\ Len(L) = Len(T) + 1
        /\ \A i \in 1..Len(T) : L[i] = T[i]
        /\ L[Len(T) + 1] = r
    BY <1>3, <1>5, SeqTells, AppendProperties
  <2>2. agenda' = L \o B
    BY <1>6
  <2> HIDE DEF L
  <2>3. IsJoin(agenda', L, B)
    BY <1>4, <2>1, <2>2, ConcatJoins
  <2>4. agenda' \in Seq(Tasks) /\ Len(agenda') = Len(T) + Len(M)
    <3>1. agenda' \in Seq(Tasks) /\ Len(agenda') = Len(L) + Len(B)
      BY <2>3 DEF IsJoin
    <3> HIDE DEF M, B, T
    <3> QED BY <1>16, <2>1, <3>1
  <2>5. \A i \in 1..Len(T) : agenda'[i] = T[i]
    <3>1. \A i \in 1..Len(T) : i \in 1..Len(L)
      BY <2>1
    <3> QED BY <2>1, <2>3, <3>1 DEF IsJoin
  <2>6. ASSUME NEW i \in 1..Len(M) PROVE agenda'[Len(T) + i] = M[i]
    <3>1. CASE i = 1
      <4>1. Len(T) + 1 \in 1..Len(L)
        BY <2>1
      <4> QED BY <1>17, <2>1, <2>3, <3>1, <4>1 DEF IsJoin
    <3>2. CASE i # 1
      <4>1. i - 1 \in 1..Len(B) /\ 1 + (i - 1) = i /\ Len(L) + (i - 1) = Len(T) + i
        BY <1>16, <2>1, <3>2
      <4>2. agenda'[Len(L) + (i - 1)] = B[i - 1]
        BY <2>3, <4>1 DEF IsJoin
      <4>3. M[i] = B[i - 1]
        BY <1>17, <4>1
      <4> QED BY <4>1, <4>2, <4>3
    <3> QED BY <3>1, <3>2
  <2> QED BY <2>4, <2>5, <2>6 DEF IsJoin
<1>20. AgendaOK(agenda', content)
  <2>1. \A c \in Cells : n \in In(content, c) => Lends(M, op, c)
    <3>1. Lends(M, op, n)
      <4>1. 1 \in 1..Len(M)
        BY <1>16
      <4> QED BY <1>10, <1>17, <4>1 DEF Lends
    <3>2. \A o, c : Lends(M, o, c) <=> Lends(R, o, c) \/ Lends(B, o, c)
      BY <1>4, <1>12, <1>14, LendsJoin
    <3> QED BY <1>4, <3>1, <3>2
  <2>2. \A j \in 1..Len(M) :
          M[j].op = op =>
            /\ M[j].node \notin In(content, n) \/ (M[j].node = n /\ M[j].do = "release")
            /\ M[j].do = "visit" => n \notin In(content, M[j].node)
    BY <1>4, <1>5, <1>18
  <2>3. op = "trace" \/ \A j \in 1..Len(M) : M[j].op # "trace" /\ M[j].do # "run"
    BY <1>4, <1>5, <1>18
  <2>4. IsPart(content[n], content[n])
    BY <1>2, WholePart
  <2>5. IsJoin(agenda', Visits(op, content[n]), M)
    BY <1>11, <1>19
  <2> QED BY <1>1, <1>2, <1>7, <1>15, <1>16, <2>1, <2>2, <2>3, <2>4, <2>5, VisitsOK
<1>21. PhaseOK(agenda', phase)
  <2>1. PhaseOK(M, phase)
    BY <1>4, <1>5, <1>8, <1>9, <1>12, <1>14, PhaseJoin
  <2>2. \A i \in 1..Len(T) : T[i].op = op
    BY <1>3, TaskTells
  <2> QED BY <1>3, <1>9, <1>16, <1>19, <2>1, <2>2, PhaseJoin
<1>22. \A o, c : Lends(agenda', o, c) <=> Lends(A, o, c) \/ (o = op /\ c = n)
  <2>1. \A o, c : ~Lends(T, o, c)
    BY <1>2, <1>11, VisitsLend
  <2>2. \A o, c : Lends(agenda', o, c) <=> Lends(M, o, c)
    <3>1. T \in Seq(Tasks) /\ M \in Seq(Tasks)
      BY <1>3, <1>16
    <3>2. \A o, c : Lends(agenda', o, c) <=> Lends(T, o, c) \/ Lends(M, o, c)
      BY <1>19, <3>1, LendsJoin
    <3> QED BY <2>1, <3>2
  <2>3. \A o, c : Lends(R, o, c) <=> o = op /\ c = n
    <3>1. 1 \in 1..Len(R) /\ R[1] = r
      BY <1>12
    <3>2. \A o, c : r = Task(o, "release", c) => o = op /\ c = n
      BY <1>10, TaskTells
    <3> QED BY <1>10, <1>12, <3>1, <3>2 DEF Lends
  <2>4. \A o, c : Lends(M, o, c) <=> Lends(R, o, c) \/ Lends(B, o, c)
    BY <1>4, <1>12, <1>14, LendsJoin
  <2>5. \A o, c : Lends(A, o, c) <=> Lends(B, o, c)
    <3>1. \A o, c : A[1] # Task(o, "release", c)
      BY TaskTells
    <3> QED BY <1>1, <3>1, HeadLends DEF B
  <2> QED BY <2>2, <2>3, <2>4, <2>5
<1>23. ~Lends(A, op, n)
  <2>1. A[1] # Task(op, "release", n)
    BY TaskTells
  <2>2. ASSUME Lends(B, op, n) PROVE FALSE
    <3>1. PICK j \in 1..Len(B) : B[j] = Task(op, "release", n)
      BY <2>2 DEF Lends
    <3> QED BY <1>4, <1>7, <3>1, TaskTells
  <2> QED BY <1>1, <2>1, <2>2, HeadLends DEF B
<1>24. flag \in [Cells -> Int] /\ flag' \in [Cells -> Int] /\ \A c \in Cells \ {n} : flag'[c] = flag[c]
  BY DEF CallsInv, TraceTypes
<1>25. flag'[n] = IF op = "trace" THEN -1 ELSE flag[n] + 1
  BY <1>24
<1>26. FlagsTell'
  <2> SUFFICES ASSUME NEW c \in Cells PROVE FlagOK(agenda', flag'[c], guards[c], c)
    BY DEF FlagsTell, CallsInv
  <2>1. FlagOK(A, flag[c], guards[c], c) /\ flag[c] \in Int
    BY <1>24 DEF CallsInv, FlagsTell
  <2>2. CASE c # n
    BY <1>22, <1>24, <2>1, <2>2 DEF FlagOK
  <2>3. CASE c = n /\ op = "trace"
    <3>1. ~Lends(A, "trace", c) /\ ~Lends(A, "finalize", c) /\ guards[c] = "none"
      <4>1. guards[c] \in {"mut", "shared", "none"}
        BY DEF CallsInv, TraceTypes
      <4> QED BY <2>1, <2>3, <4>1 DEF FlagOK
    <3>2. ~Lends(agenda', "finalize", c) /\ flag'[c] = -1
      BY <1>22, <1>25, <2>3, <3>1
    <3> QED BY <1>22, <2>3, <3>1, <3>2 DEF FlagOK
  <2>4. CASE c = n /\ op # "trace"
    <3>1. ~Lends(A, "trace", c) /\ guards[c] # "mut" /\ op = "finalize" /\ ~Lends(A, "finalize", c)
      BY <1>2, <1>23, <2>1, <2>4 DEF FlagOK
    <3>2. flag[c] = IF guards[c] = "shared" THEN 1 ELSE 0
      BY <2>1, <3>1 DEF FlagOK
    <3>3. ~Lends(agenda', "trace", c) /\ Lends(agenda', "finalize", c)
      BY <1>22, <2>4, <3>1
    <3>4. flag'[c] = flag[c] + 1
      BY <1>25, <2>4
    <3> QED BY <3>1, <3>2, <3>3, <3>4 DEF FlagOK
  <2> QED BY <2>2, <2>3, <2>4
<1>27. TraceTypes'
  BY <1>19, <1>24 DEF CallsInv, TraceTypes, IsJoin
<1> QED BY <1>20, <1>21, <1>26, <1>27 DEF CallsInv

(* The borrow of a call ends.                                                  *)
LEMMA ReleaseStep ==
    ASSUME CallsInv, Len(agenda) > 0, agenda[1].do = "release", agenda' = Tail(agenda),
           NEW n, n = agenda[1].node,
           flag' = [flag EXCEPT ![n] = IF agenda[1].op = "trace" THEN 0 ELSE @ - 1],
           UNCHANGED <<content, guards, phase, traced, earlier>>
    PROVE  CallsInv'
<1> DEFINE op == agenda[1].op
<1>1. /\ Tree(content) /\ agenda \in Seq(Tasks) /\ Len(agenda) \in Nat /\ agenda # <<>>
      /\ agenda[1] \in Tasks /\ 1 \in 1..Len(agenda)
  BY InvTells
<1>2. op \in {"trace", "finalize"} /\ n \in Cells
  BY <1>1 DEF Tasks, CallsInv, AgendaOK, Placed
<1>3. IsEnd(agenda', agenda)
  BY <1>1, TailEnds
<1>4. AgendaOK(agenda', content) /\ PhaseOK(agenda', phase)
  BY <1>1, <1>3, EndOK, PhaseTail DEF CallsInv
<1>5. agenda[1] = Task(op, "release", n)
  BY <1>1, TaskIs
<1> HIDE DEF op
<1>6. ~Lends(agenda', op, n)
  BY <1>1, HeadOnce DEF CallsInv, op
<1>7. Lends(agenda, op, n)
  BY <1>1, <1>5 DEF Lends
<1>8. \A o, c : ~(o = op /\ c = n) => (Lends(agenda', o, c) <=> Lends(agenda, o, c))
  <2>1. \A o, c : Task(op, "release", n) = Task(o, "release", c) => op = o /\ n = c
    BY TaskTells
  <2>2. \A o, c : agenda[1] = Task(o, "release", c) => o = op /\ c = n
    BY <1>5, <2>1
  <2> QED BY <1>1, <2>2, HeadLends
<1>9. flag \in [Cells -> Int] /\ flag' \in [Cells -> Int] /\ \A c \in Cells \ {n} : flag'[c] = flag[c]
  BY <1>2 DEF CallsInv, TraceTypes
<1>10. flag'[n] = IF op = "trace" THEN 0 ELSE flag[n] - 1
  BY <1>2, <1>9 DEF op
<1>11. FlagsTell'
  <2> SUFFICES ASSUME NEW c \in Cells PROVE FlagOK(agenda', flag'[c], guards[c], c)
    BY DEF FlagsTell, CallsInv
  <2>1. FlagOK(agenda, flag[c], guards[c], c) /\ flag[c] \in Int
    BY <1>9 DEF CallsInv, FlagsTell
  <2>2. CASE c # n
    BY <1>8, <1>9, <2>1, <2>2 DEF FlagOK
  <2>3. CASE c = n /\ op = "trace"
    <3>1. guards[c] = "none" /\ ~Lends(agenda, "finalize", c)
      BY <1>7, <2>1, <2>3 DEF FlagOK
    <3>2. ~Lends(agenda', "finalize", c) /\ ~Lends(agenda', "trace", c) /\ flag'[c] = 0
      BY <1>6, <1>8, <1>10, <2>3, <3>1
    <3> QED BY <3>1, <3>2 DEF FlagOK
  <2>4. CASE c = n /\ op = "finalize"
    <3>1. Lends(agenda, "finalize", c) /\ ~Lends(agenda, "trace", c) /\ guards[c] # "mut"
      BY <1>7, <2>1, <2>4 DEF FlagOK
    <3>2. flag[c] = (IF guards[c] = "shared" THEN 1 ELSE 0) + 1
      BY <2>1, <3>1 DEF FlagOK
    <3>3. ~Lends(agenda', "finalize", c) /\ ~Lends(agenda', "trace", c) /\ flag'[c] = flag[c] - 1
      BY <1>6, <1>8, <1>10, <2>4, <3>1
    <3> QED BY <3>1, <3>2, <3>3 DEF FlagOK
  <2> QED BY <1>2, <2>2, <2>3, <2>4
<1>12. TraceTypes'
  BY <1>3, <1>9 DEF CallsInv, TraceTypes, IsEnd
<1> QED BY <1>4, <1>11, <1>12 DEF CallsInv

(* When control is back in the program, no call of trace is in progress.       *)
LEMMA NoTrace ==
    ASSUME NEW A \in Seq(Tasks), NEW value, AgendaOK(A, value), A # <<>> => A[1].do = "run"
    PROVE  \A i \in 1..Len(A) : A[i].op = "finalize" /\ \E j \in 1..i : A[j].do = "run"
<1>1. Len(A) \in Nat /\ \A i \in 1..Len(A) : A[i] \in Tasks
  BY SeqTells
<1> SUFFICES ASSUME NEW i \in 1..Len(A)
             PROVE  A[i].op = "finalize" /\ \E j \in 1..i : A[j].do = "run"
  OBVIOUS
<1>2. A # <<>> /\ 1 \in 1..Len(A) /\ 1 \in 1..i
  BY <1>1, EmptySeq
<1>3. A[1].do = "run" /\ A[1].op = "finalize"
  BY <1>2 DEF AgendaOK, Placed
<1>4. A[i].op # "trace"
  <2>1. CASE i = 1
    BY <1>3, <2>1
  <2>2. CASE 1 < i
    BY <1>2, <1>3, <2>2 DEF AgendaOK, Nested
  <2> QED BY <1>1, <2>1, <2>2
<1> QED BY <1>1, <1>2, <1>3, <1>4 DEF Tasks

LEMMA NoTracePhase ==
    ASSUME NEW A \in Seq(Tasks), NEW value, AgendaOK(A, value), A # <<>> => A[1].do = "run",
           NEW ph
    PROVE  PhaseOK(A, ph)
BY NoTrace DEF PhaseOK

(* A value is traced.                                                          *)
LEMMA TraceRootStep ==
    ASSUME CallsInv, \A i \in 1..Len(agenda) : agenda[i].op # "trace",
           phase' \in {"counting", "roots"}, PhaseOK(agenda, phase'),
           agenda' = <<Task("trace", "visit", Root)>> \o agenda,
           UNCHANGED <<content, flag, guards>>, traced' \in Seq(Nodes), earlier' \in Seq(Nodes)
    PROVE  CallsInv'
<1> DEFINE t == Task("trace", "visit", Root)
           T == <<t>>
<1>1. Tree(content) /\ content \in [Nodes -> Seq(Nodes)] /\ agenda \in Seq(Tasks)
  BY InvTells
<1>2. /\ t \in Tasks /\ t.op = "trace" /\ t.do = "visit" /\ t.node = Root
      /\ \A o, c : t # Task(o, "release", c)
  BY TaskTells, NodesAssumption DEF Task, Tasks
<1>3. agenda' = T \o agenda
  OBVIOUS
<1> HIDE DEF t
<1>4. T \in Seq(Tasks) /\ Len(T) = 1 /\ \A i \in 1..Len(T) : T[i] = t
  BY <1>2
<1> HIDE DEF T
<1>5. IsJoin(agenda', T, agenda)
  BY <1>1, <1>3, <1>4, ConcatJoins
<1>6. Fits(T, agenda, content, "trace")
  <2>1. Root \in In(content, Root)
    BY <1>1, InsideOf, NodesAssumption
  <2>2. \A c \in Cells : Root \in In(content, c) => c = Root
    BY <1>1, RootOutside DEF Cells
  <2>3. \A i, j \in 1..Len(T) : i = j
    BY <1>4
  <2> QED BY <1>2, <1>4, <2>1, <2>2, <2>3 DEF Fits
<1>7. AgendaOK(agenda', content)
  BY <1>1, <1>4, <1>5, <1>6, JoinOK DEF CallsInv
<1>8. PhaseOK(agenda', phase')
  BY <1>1, <1>2, <1>4, <1>5, PhaseJoin
<1>9. FlagsTell'
  <2>1. \A o, c : ~Lends(T, o, c)
    BY <1>2, <1>4 DEF Lends
  <2>2. \A o, c : Lends(agenda', o, c) <=> Lends(T, o, c) \/ Lends(agenda, o, c)
    BY <1>1, <1>4, <1>5, LendsJoin
  <2> QED BY <2>1, <2>2, FlagsStay DEF CallsInv
<1>10. TraceTypes'
  BY <1>5 DEF CallsInv, TraceTypes, IsJoin, Phases
<1> QED BY <1>7, <1>8, <1>9, <1>10 DEF CallsInv

LEMMA FinalizeRootStep ==
    ASSUME CallsInv, StartFinalize
    PROVE  CallsInv'
<1> DEFINE t == Task("finalize", "visit", Root)
           A == <<>>
           T == <<t>>
<1>1. /\ Tree(content) /\ content \in [Nodes -> Seq(Nodes)]
      /\ agenda = A /\ A \in Seq(Tasks) /\ Len(A) = 0
  BY InvTells DEF StartFinalize
<1>2. /\ t \in Tasks /\ t.op = "finalize" /\ t.do = "visit" /\ t.node = Root
      /\ \A o, c : t # Task(o, "release", c)
  BY TaskTells, NodesAssumption DEF Task, Tasks
<1>3. /\ agenda' = T /\ phase = "idle"
      /\ UNCHANGED <<content, flag, guards, phase, traced, earlier>>
  BY DEF StartFinalize, valueVars, phaseVars
<1> HIDE DEF t
<1>4. T \in Seq(Tasks) /\ Len(T) = 1 /\ \A i \in 1..Len(T) : T[i] = t
  BY <1>2
<1> HIDE DEF T, A
<1>5. IsJoin(agenda', T, A)
  BY <1>1, <1>3, <1>4 DEF IsJoin
<1>6. Fits(T, A, content, "finalize")
  <2>1. Root \in In(content, Root)
    BY <1>1, InsideOf, NodesAssumption
  <2>2. \A c \in Cells : Root \in In(content, c) => c = Root
    BY <1>1, RootOutside DEF Cells
  <2>3. \A i, j \in 1..Len(T) : i = j
    BY <1>4
  <2>4. \A j \in 1..Len(A) : FALSE
    BY <1>1
  <2> QED BY <1>2, <1>4, <2>1, <2>2, <2>3, <2>4 DEF Fits
<1>7. AgendaOK(agenda', content)
  <2>1. \A j \in 1..Len(A) : FALSE
    BY <1>1
  <2>2. AgendaOK(A, content)
    BY <1>1 DEF CallsInv
  <2> QED BY <1>1, <1>4, <1>5, <1>6, <2>1, <2>2, JoinOK
<1>8. PhaseOK(agenda', phase')
  BY <1>2, <1>3, <1>4 DEF PhaseOK
<1>9. FlagsTell'
  <2>1. \A o, c : ~Lends(agenda', o, c)
    BY <1>2, <1>3, <1>4 DEF Lends
  <2>2. \A o, c : ~Lends(agenda, o, c)
    BY <1>1 DEF Lends
  <2> QED BY <1>3, <2>1, <2>2, FlagsStay DEF CallsInv
<1>10. TraceTypes'
  BY <1>3, <1>4 DEF CallsInv, TraceTypes
<1> QED BY <1>3, <1>7, <1>8, <1>9, <1>10 DEF CallsInv

(* A panic unwinds to where code of the program runs.                          *)
LEMMA UnwindStep ==
    ASSUME CallsInv, NEW k \in 1..Len(agenda), k < Len(agenda) => agenda[k + 1].do = "run",
           Unwind(k), phase' = "idle", UNCHANGED <<content, guards>>,
           traced' \in Seq(Nodes), earlier' \in Seq(Nodes)
    PROVE  CallsInv'
<1>1. /\ Tree(content) /\ agenda \in Seq(Tasks) /\ Len(agenda) \in Nat
  BY InvTells
<1>2. agenda' = SubSeq(agenda, k + 1, Len(agenda))
  BY DEF Unwind
<1>3. /\ IsEnd(agenda', agenda) /\ agenda' \in Seq(Tasks) /\ Len(agenda') = Len(agenda) - k
      /\ \A i \in 1..Len(agenda') : agenda'[i] = agenda[i + k]
  <2>1. k \in 0..Len(agenda)
    BY <1>1
  <2>2. IsEnd(agenda', agenda) /\ Len(agenda') = Len(agenda) - k
    BY <1>1, <1>2, <2>1, SubSeqEnds
  <2>3. Len(agenda) - Len(agenda') = k
    BY <1>1, <2>2
  <2> QED BY <2>2, <2>3 DEF IsEnd
<1>4. AgendaOK(agenda', content)
  BY <1>1, <1>3, EndOK DEF CallsInv
<1>5. agenda' # <<>> => agenda'[1].do = "run"
  <2> SUFFICES ASSUME agenda' # <<>> PROVE agenda'[1].do = "run"
    OBVIOUS
  <2>1. Len(agenda') > 0
    BY <1>3, SeqTells, EmptySeq
  <2>2. k < Len(agenda) /\ 1 \in 1..Len(agenda')
    BY <1>1, <1>3, <2>1
  <2> QED BY <1>3, <2>2
<1>6. PhaseOK(agenda', phase')
  BY <1>3, <1>4, <1>5, NoTracePhase
<1>7. \A c : ~Lends(agenda', "trace", c)
  <2>1. \A i \in 1..Len(agenda') : agenda'[i].op = "finalize"
    BY <1>3, <1>4, <1>5, NoTrace
  <2>2. \A c : Task("trace", "release", c).op = "trace"
    BY TaskTells
  <2> QED BY <2>1, <2>2 DEF Lends
<1> DEFINE left == {agenda[i] : i \in 1..k}
<1>8. flag' = [c \in Cells |->
                 IF Task("trace", "release", c) \in left THEN 0
                 ELSE IF Task("finalize", "release", c) \in left THEN flag[c] - 1
                 ELSE flag[c]]
  BY DEF Unwind
<1>9. \A o, c : Lends(agenda, o, c) <=> Task(o, "release", c) \in left \/ Lends(agenda', o, c)
  <2>1. ASSUME NEW o, NEW c, Lends(agenda, o, c)
        PROVE  Task(o, "release", c) \in left \/ Lends(agenda', o, c)
    <3>1. PICK i \in 1..Len(agenda) : agenda[i] = Task(o, "release", c)
      BY <2>1 DEF Lends
    <3>2. CASE i <= k
      <4>1. i \in 1..k
        BY <1>1, <3>2
      <4> QED BY <3>1, <4>1
    <3>3. CASE i > k
      <4>1. i - k \in 1..Len(agenda') /\ (i - k) + k = i
        BY <1>1, <1>3, <3>3
      <4>2. agenda'[i - k] = agenda[i]
        BY <1>3, <4>1
      <4> QED BY <3>1, <4>1, <4>2 DEF Lends
    <3> QED BY <1>1, <3>2, <3>3
  <2>2. ASSUME NEW o, NEW c, Task(o, "release", c) \in left PROVE Lends(agenda, o, c)
    <3>1. PICK i \in 1..k : agenda[i] = Task(o, "release", c)
      BY <2>2
    <3>2. i \in 1..Len(agenda)
      BY <1>1
    <3> QED BY <3>1, <3>2 DEF Lends
  <2>3. ASSUME NEW o, NEW c, Lends(agenda', o, c) PROVE Lends(agenda, o, c)
    <3>1. PICK i \in 1..Len(agenda') : agenda'[i] = Task(o, "release", c)
      BY <2>3 DEF Lends
    <3>2. i + k \in 1..Len(agenda)
      BY <1>1, <1>3
    <3> QED BY <1>3, <3>1, <3>2 DEF Lends
  <2> HIDE DEF left
  <2> QED BY <2>1, <2>2, <2>3
<1>10. ASSUME NEW o, NEW c, Task(o, "release", c) \in left PROVE ~Lends(agenda', o, c)
  <2>1. PICK i \in 1..k : agenda[i] = Task(o, "release", c)
    BY <1>10
  <2>2. ASSUME NEW j \in 1..Len(agenda'), agenda'[j] = Task(o, "release", c) PROVE FALSE
    <3>1. i \in 1..Len(agenda) /\ j + k \in 1..Len(agenda) /\ i # j + k
      BY <1>1, <1>3
    <3>2. agenda[i] = agenda[j + k]
      BY <1>3, <2>1, <2>2
    <3>3. agenda[i].do = "release"
      BY <2>1, TaskTells
    <3> QED BY <3>1, <3>2, <3>3 DEF CallsInv, AgendaOK, Apart
  <2> QED BY <2>2 DEF Lends
<1> HIDE DEF left
<1>11. flag \in [Cells -> Int]
  BY DEF CallsInv, TraceTypes
<1>12. flag' \in [Cells -> Int] /\ \A c \in Cells : flag'[c] =
                 IF Task("trace", "release", c) \in left THEN 0
                 ELSE IF Task("finalize", "release", c) \in left THEN flag[c] - 1
                 ELSE flag[c]
  BY <1>8, <1>11
<1>13. FlagsTell'
  <2> SUFFICES ASSUME NEW c \in Cells PROVE FlagOK(agenda', flag'[c], guards[c], c)
    BY DEF FlagsTell, CallsInv
  <2>1. FlagOK(agenda, flag[c], guards[c], c) /\ flag[c] \in Int
    BY <1>11 DEF CallsInv, FlagsTell
  <2>2. CASE Task("trace", "release", c) \in left
    <3>1. Lends(agenda, "trace", c) /\ ~Lends(agenda', "trace", c) /\ flag'[c] = 0
      BY <1>7, <1>9, <1>12, <2>2
    <3>2. guards[c] = "none" /\ ~Lends(agenda', "finalize", c)
      BY <1>9, <2>1, <3>1 DEF FlagOK
    <3> QED BY <3>1, <3>2 DEF FlagOK
  <2>3. CASE Task("trace", "release", c) \notin left /\ Task("finalize", "release", c) \in left
    <3>1. ~Lends(agenda, "trace", c) /\ ~Lends(agenda', "trace", c) /\ flag'[c] = flag[c] - 1
      BY <1>7, <1>9, <1>12, <2>3
    <3>2. Lends(agenda, "finalize", c) /\ ~Lends(agenda', "finalize", c)
      BY <1>9, <1>10, <2>3
    <3>3. guards[c] # "mut" /\ flag[c] = (IF guards[c] = "shared" THEN 1 ELSE 0) + 1
      BY <2>1, <3>1, <3>2 DEF FlagOK
    <3> QED BY <3>1, <3>2, <3>3 DEF FlagOK
  <2>4. CASE Task("trace", "release", c) \notin left /\ Task("finalize", "release", c) \notin left
    <3>1. /\ Lends(agenda, "trace", c) <=> Lends(agenda', "trace", c)
          /\ Lends(agenda, "finalize", c) <=> Lends(agenda', "finalize", c)
          /\ flag'[c] = flag[c]
      BY <1>9, <1>12, <2>4
    <3> QED BY <2>1, <3>1 DEF FlagOK
  <2> QED BY <2>2, <2>3, <2>4
<1>14. TraceTypes'
  BY <1>3, <1>12 DEF CallsInv, TraceTypes, Phases
<1> QED BY <1>4, <1>6, <1>13, <1>14 DEF CallsInv

LEMMA BorrowStep ==
    ASSUME CallsInv, NEW c \in Cells, Borrow(c)
    PROVE  CallsInv'
<1>1. /\ flag \in [Cells -> Int] /\ guards \in [Cells -> {"mut", "shared", "none"}]
      /\ guards[c] = "none" /\ c \in In(content, Root)
      /\ UNCHANGED <<content, agenda, traced, earlier, phase>>
  BY DEF Borrow, CallsInv, TraceTypes, phaseVars, Inside, In
<1>2. \/ /\ flag[c] = 0
         /\ flag' = [flag EXCEPT ![c] = -1] /\ guards' = [guards EXCEPT ![c] = "mut"]
      \/ /\ flag[c] >= 0
         /\ flag' = [flag EXCEPT ![c] = @ + 1] /\ guards' = [guards EXCEPT ![c] = "shared"]
  BY DEF Borrow
<1>3. flag' \in [Cells -> Int] /\ guards' \in [Cells -> {"mut", "shared", "none"}]
  BY <1>1, <1>2
<1>4. \A d \in Cells \ {c} : flag'[d] = flag[d] /\ guards'[d] = guards[d]
  BY <1>1, <1>2
<1>5. FlagOK(agenda, flag[c], guards[c], c) /\ flag[c] \in Int
  BY <1>1 DEF CallsInv, FlagsTell
<1>6. FlagOK(agenda, flag'[c], guards'[c], c)
  <2>1. CASE flag[c] = 0 /\ flag'[c] = -1 /\ guards'[c] = "mut"
    BY <1>1, <1>5, <2>1 DEF FlagOK
  <2>2. CASE flag[c] >= 0 /\ flag'[c] = flag[c] + 1 /\ guards'[c] = "shared"
    BY <1>1, <1>5, <2>2 DEF FlagOK
  <2> QED BY <1>1, <1>2, <2>1, <2>2
<1>7. FlagsTell'
  BY <1>1, <1>4, <1>6 DEF CallsInv, FlagsTell
<1> QED BY <1>1, <1>3, <1>7 DEF CallsInv, TraceTypes

LEMMA DropGuardStep ==
    ASSUME CallsInv, NEW c \in Cells, DropGuard(c)
    PROVE  CallsInv'
<1>1. /\ flag \in [Cells -> Int] /\ guards \in [Cells -> {"mut", "shared", "none"}]
      /\ guards[c] # "none"
      /\ UNCHANGED <<content, agenda, traced, earlier, phase>>
      /\ flag' = [flag EXCEPT ![c] = IF guards[c] = "mut" THEN 0 ELSE @ - 1]
      /\ guards' = [guards EXCEPT ![c] = "none"]
  BY DEF DropGuard, Guarded, CallsInv, TraceTypes, phaseVars
<1>2. flag' \in [Cells -> Int] /\ guards' \in [Cells -> {"mut", "shared", "none"}]
  BY <1>1
<1>3. \A d \in Cells \ {c} : flag'[d] = flag[d] /\ guards'[d] = guards[d]
  BY <1>1
<1>4. flag'[c] = (IF guards[c] = "mut" THEN 0 ELSE flag[c] - 1) /\ guards'[c] = "none"
  BY <1>1
<1>5. FlagOK(agenda, flag[c], guards[c], c) /\ flag[c] \in Int
  BY <1>1 DEF CallsInv, FlagsTell
<1>6. FlagOK(agenda, flag'[c], guards'[c], c)
  <2>1. CASE guards[c] = "mut"
    BY <1>4, <1>5, <2>1 DEF FlagOK
  <2>2. CASE guards[c] = "shared"
    BY <1>4, <1>5, <2>2 DEF FlagOK
  <2> QED BY <1>1, <2>1, <2>2
<1>7. FlagsTell'
  BY <1>1, <1>3, <1>4, <1>6 DEF CallsInv, FlagsTell
<1> QED BY <1>1, <1>2, <1>7 DEF CallsInv, TraceTypes

(* Only the content of a RefCell that the program borrows for mutation changes. *)
LEMMA MutableTells ==
    ASSUME CallsInv, NEW g \in Nodes, Mutable(g)
    PROVE  \E c \in Cells : /\ guards[c] = "mut" /\ g \in In(content, c) /\ c \in In(content, Root)
                            /\ \A op \in {"trace", "finalize"} : ~Lends(agenda, op, c)
<1>1. PICK c \in Cells : guards[c] = "mut" /\ g \in In(content, c)
  BY DEF Mutable, Inside, In
<1>2. FlagOK(agenda, flag[c], guards[c], c) /\ c \in In(content, Root)
  BY <1>1 DEF CallsInv, FlagsTell
<1> QED BY <1>1, <1>2 DEF FlagOK

LEMMA DetachStep ==
    ASSUME CallsInv, NEW g \in Nodes, NEW i \in 1..Len(content[g]), Detach(g, i)
    PROVE  CallsInv'
<1> DEFINE m == content[g][i]
           w == content'
<1>1. /\ Tree(content) /\ content \in [Nodes -> Seq(Nodes)]
      /\ agenda \in Seq(Tasks) /\ Len(agenda) \in Nat
      /\ \A k \in 1..Len(agenda) : agenda[k] \in Tasks
  BY InvTells
<1>2. /\ content' = [content EXCEPT ![g] = RemoveAt(@, i)]
      /\ UNCHANGED <<flag, guards, agenda, traced, earlier, phase>>
      /\ \A c \in Cells : c \in In(content, m) => flag[c] = 0
  BY DEF Detach, phaseVars, Inside, In
<1>3. /\ Tree(w)
      /\ \A x \in Nodes : In(w, x) \subseteq In(content, x)
      /\ \A x \in Nodes : In(content, x) \subseteq In(w, x) \cup In(content, m)
  BY <1>1, <1>2, DetachedTree
<1>4. m \in Nodes /\ m \in In(content, g)
  BY <1>1, PartsType, InsideOf
<1>5. PICK c \in Cells : /\ guards[c] = "mut" /\ g \in In(content, c)
                         /\ \A op \in {"trace", "finalize"} : ~Lends(agenda, op, c)
  BY MutableTells DEF Detach
<1>6. c \in Nodes /\ In(content, m) \subseteq In(content, c) /\ c \notin In(content, m)
  <2>1. c \in Nodes
    BY DEF Cells
  <2>2. In(content, m) \subseteq In(content, c)
    BY <1>1, <1>4, <1>5, <2>1, InsideOf
  <2>3. ASSUME c \in In(content, m) PROVE FALSE
    <3>1. g \in In(content, m)
      BY <1>1, <1>4, <1>5, <2>3, InsideOf
    <3> QED BY <1>1, <3>1, NotInPart
  <2> QED BY <2>1, <2>2, <2>3
<1> HIDE DEF m, w
<1>7. \A k \in 1..Len(agenda) : agenda[k].node \notin In(content, m)
  <2> SUFFICES ASSUME NEW k \in 1..Len(agenda), agenda[k].node \in In(content, m) PROVE FALSE
    OBVIOUS
  <2>1. c \in Cells \ {agenda[k].node} /\ agenda[k].node \in In(content, c)
    BY <1>6
  <2>2. PICK j \in (k + 1)..Len(agenda) : agenda[j] = Task(agenda[k].op, "release", c)
    BY <2>1 DEF CallsInv, AgendaOK, Placed
  <2>3. j \in 1..Len(agenda) /\ agenda[k].op \in {"trace", "finalize"}
    BY <1>1, <2>2 DEF Tasks
  <2> QED BY <1>5, <2>2, <2>3 DEF Lends
<1>8. AgendaOK(agenda, w)
  <2>1. \A k \in 1..Len(agenda) : agenda[k].node \in Nodes
    BY <1>1 DEF Tasks
  <2>2. \A k \in 1..Len(agenda) : agenda[k].node \in In(w, Root)
    BY <1>3, <1>7, NodesAssumption DEF CallsInv, AgendaOK, Placed
  <2>3. \A d \in Cells : In(w, d) \subseteq In(content, d)
    BY <1>3 DEF Cells
  <2>4. Placed(agenda, w)
    BY <2>2, <2>3 DEF CallsInv, AgendaOK, Placed
  <2>5. Apart(agenda, w)
    <3> SUFFICES ASSUME NEW k \in 1..Len(agenda), NEW j \in 1..Len(agenda),
                        agenda[k].op = agenda[j].op, k # j
                 PROVE  /\ agenda[k].do = "visit" => agenda[j].node \notin In(w, agenda[k].node)
                        /\ agenda[k] = agenda[j] => agenda[k].do # "release"
      BY DEF Apart
    <3>1. In(w, agenda[k].node) \subseteq In(content, agenda[k].node)
      BY <1>3, <2>1
    <3> QED BY <3>1 DEF CallsInv, AgendaOK, Apart
  <2> QED BY <2>4, <2>5 DEF CallsInv, AgendaOK
<1>9. \A d \in Cells : guards[d] # "none" => d \in In(w, Root)
  <2> SUFFICES ASSUME NEW d \in Cells, guards[d] # "none" PROVE d \in In(w, Root)
    OBVIOUS
  <2>1. FlagOK(agenda, flag[d], guards[d], d) /\ d \in In(content, Root)
    BY DEF CallsInv, FlagsTell
  <2>2. guards[d] \in {"mut", "shared"}
    BY DEF CallsInv, TraceTypes
  <2>3. flag[d] # 0
    BY <2>1, <2>2 DEF FlagOK
  <2>4. d \notin In(content, m)
    BY <1>2, <2>3 DEF m
  <2> QED BY <1>3, <2>1, <2>4, NodesAssumption
<1>10. FlagsTell'
  BY <1>2, <1>9 DEF CallsInv, FlagsTell, w
<1>11. TraceTypes' /\ IsOwned(content')
  BY <1>2, <1>3 DEF CallsInv, TraceTypes, Tree, w
<1>12. AgendaOK(agenda', content') /\ PhaseOK(agenda', phase')
  BY <1>2, <1>8 DEF CallsInv, w
<1> QED BY <1>10, <1>11, <1>12 DEF CallsInv

LEMMA AttachStep ==
    ASSUME CallsInv, NEW g \in Nodes, NEW n \in Nodes, Attach(g, n)
    PROVE  CallsInv'
<1> DEFINE w == content'
<1>1. /\ Tree(content) /\ content \in [Nodes -> Seq(Nodes)]
      /\ agenda \in Seq(Tasks) /\ Len(agenda) \in Nat
      /\ \A k \in 1..Len(agenda) : agenda[k] \in Tasks
  BY InvTells
<1>2. /\ content' = [content EXCEPT ![g] = Append(@, n)]
      /\ UNCHANGED <<flag, guards, agenda, traced, earlier, phase>>
      /\ n # Root /\ Kind[g] \notin {"cc", "leaf"}
  BY DEF Attach, Mutable, phaseVars
<1>3. Unowned(content, n)
  <2>1. \A m \in Nodes : n \notin PartsIn(content)[m]
    BY DEF Attach, Parts, PartsIn
  <2>2. \A m \in Nodes : \A x :
          x \in PartsIn(content)[m] <=> \E j \in 1..Len(content[m]) : x = content[m][j]
    BY <1>1, PartsType
  <2> QED BY <2>1, <2>2 DEF Unowned
<1>4. n \notin In(content, Root)
  <2> SUFFICES ASSUME n \in In(content, Root) PROVE FALSE
    OBVIOUS
  <2>1. PartsIn(content) \in [Nodes -> SUBSET Nodes]
    BY <1>1, PartsType
  <2>2. PICK p \in In(content, Root) : n \in PartsIn(content)[p]
    BY <1>2, <2>1, FromParent, NodesAssumption DEF In
  <2>3. p \in Nodes
    BY <1>1, InsideOf, NodesAssumption
  <2>4. \A x : x \in PartsIn(content)[p] <=> \E j \in 1..Len(content[p]) : x = content[p][j]
    BY <1>1, <2>3, PartsType
  <2> QED BY <1>3, <2>2, <2>3, <2>4 DEF Unowned
<1>5. \A x \in In(content, Root) : x \notin In(content, n)
  <2> SUFFICES ASSUME NEW x \in In(content, Root), x \in In(content, n) PROVE FALSE
    OBVIOUS
  <2>1. n \in In(content, Root) \/ Root \in In(content, n)
    BY <1>1, Comparable, NodesAssumption
  <2> QED BY <1>1, <1>2, <1>4, <2>1, RootOutside
<1>6. g \notin In(content, n)
  <2>1. PICK c \in Cells : g \in In(content, c) /\ c \in In(content, Root)
    BY MutableTells DEF Attach
  <2>2. g \in In(content, Root)
    BY <1>1, <2>1, InsideOf, NodesAssumption
  <2> QED BY <1>5, <2>2
<1>7. /\ Tree(w)
      /\ \A x \in Nodes : In(content, x) \subseteq In(w, x)
      /\ \A x \in Nodes : In(w, x) \subseteq In(content, x) \cup In(content, n)
  <2>1. w = [content EXCEPT ![g] = Append(@, n)] /\ n # Root /\ Kind[g] \notin {"cc", "leaf"}
    BY <1>2
  <2> HIDE DEF w
  <2>2. Tree(content)
    BY <1>1
  <2>3. \A v : v = [content EXCEPT ![g] = Append(@, n)] =>
          /\ Tree(v)
          /\ \A x \in Nodes : In(content, x) \subseteq In(v, x)
          /\ \A x \in Nodes : In(v, x) \subseteq In(content, x) \cup In(content, n)
    <3>1. n # Root /\ Kind[g] \notin {"cc", "leaf"}
      BY <2>1
    <3> QED BY ONLY g \in Nodes, n \in Nodes, <1>3, <1>6, <3>1, <2>2, AttachedTree
  <2> QED BY <2>1, <2>3
<1> HIDE DEF w
<1>8. \A x \in In(content, Root) : \A y \in Nodes : x \in In(w, y) <=> x \in In(content, y)
  BY <1>5, <1>7
<1>9. AgendaOK(agenda, w)
  <2>1. \A k \in 1..Len(agenda) : agenda[k].node \in Nodes /\ agenda[k].node \in In(content, Root)
    BY <1>1 DEF Tasks, CallsInv, AgendaOK, Placed
  <2>2. \A k \in 1..Len(agenda) : agenda[k].node \in In(w, Root)
    BY <1>8, <2>1, NodesAssumption
  <2>3. \A k \in 1..Len(agenda) : \A d \in Cells :
          agenda[k].node \in In(w, d) => agenda[k].node \in In(content, d)
    BY <1>8, <2>1 DEF Cells
  <2>4. Placed(agenda, w)
    BY <2>2, <2>3 DEF CallsInv, AgendaOK, Placed
  <2>5. \A k, j \in 1..Len(agenda) :
          agenda[j].node \in In(w, agenda[k].node) => agenda[j].node \in In(content, agenda[k].node)
    BY <1>8, <2>1
  <2>6. Apart(agenda, w)
    BY <2>5 DEF CallsInv, AgendaOK, Apart
  <2> QED BY <2>4, <2>6 DEF CallsInv, AgendaOK
<1>10. FlagsTell'
  <2>1. \A d \in Cells : d \in In(content, Root) => d \in In(w, Root)
    BY <1>7, NodesAssumption
  <2> QED BY <1>2, <2>1 DEF CallsInv, FlagsTell, w
<1>11. TraceTypes' /\ IsOwned(content')
  BY <1>2, <1>7 DEF CallsInv, TraceTypes, Tree, w
<1>12. AgendaOK(agenda', content') /\ PhaseOK(agenda', phase')
  BY <1>2, <1>9 DEF CallsInv, w
<1> QED BY <1>10, <1>11, <1>12 DEF CallsInv

-----------------------------------------------------------------------------
(* A derived implementation goes on to the fields that are not ignored. *)

KeptIn(f, s, k) ==
    f = [j \in 0..k |->
            IF j = 0 THEN <<>>
            ELSE IF AttrContainsIgnore(s[j]) THEN f[j - 1] ELSE Append(f[j - 1], s[j])]

LEMMA KeptExists ==
    ASSUME NEW s, NEW n \in Nat
    PROVE  \E f : KeptIn(f, s, n)
<1> DEFINE S == {k \in Nat : \E f : KeptIn(f, s, k)}
<1>1. 0 \in S
  <2> DEFINE f == [j \in 0..0 |-> <<>>]
  <2>1. KeptIn(f, s, 0)
    BY DEF KeptIn
  <2> QED BY <2>1
<1>2. ASSUME NEW k \in Nat, k \in S PROVE k + 1 \in S
  <2>1. PICK f : KeptIn(f, s, k)
    BY <1>2
  <2> DEFINE Next1(g, j) ==
               IF j = 0 THEN <<>>
               ELSE IF AttrContainsIgnore(s[j]) THEN g[j - 1] ELSE Append(g[j - 1], s[j])
             h == [j \in 0..(k + 1) |-> IF j = k + 1 THEN Next1(f, j) ELSE f[j]]
  <2>2. \A j \in 0..k : f[j] = Next1(f, j)
    BY <2>1 DEF KeptIn
  <2>3. \A j \in 0..k : h[j] = f[j]
    OBVIOUS
  <2>4. h[k + 1] = Next1(f, k + 1)
    OBVIOUS
  <2>5. h = [j \in 0..(k + 1) |-> h[j]]
    OBVIOUS
  <2> HIDE DEF h
  <2>6. \A j \in 0..(k + 1) : Next1(h, j) = Next1(f, j)
    <3>1. \A j \in 0..(k + 1) : j # 0 => h[j - 1] = f[j - 1]
      BY <2>3
    <3> QED BY <3>1
  <2> HIDE DEF Next1
  <2>7. \A j \in 0..(k + 1) : h[j] = Next1(h, j)
    BY <2>2, <2>3, <2>4, <2>6
  <2>8. h = [j \in 0..(k + 1) |-> Next1(h, j)]
    BY <2>5, <2>7
  <2>9. KeptIn(h, s, k + 1)
    BY <2>8 DEF KeptIn, Next1
  <2> QED BY <2>9
<1>3. \A k \in Nat : k \in S
  <2> HIDE DEF S
  <2>1. \A k \in Nat : k \in S => k + 1 \in S
    BY <1>2
  <2> QED BY <1>1, <2>1, Induction
<1> QED BY <1>3

(* ns are the first k elements of s without those that are ignored.            *)
KeptOf(ns, s, k) ==
    /\ ns \in Seq(Nodes)
    /\ \E e : \A i, j \in 1..Len(ns) :
         e[i] \in 1..k /\ ns[i] = s[e[i]] /\ (i < j => e[i] < e[j])
    /\ \A x : (\E i \in 1..Len(ns) : ns[i] = x)
                <=> ~AttrContainsIgnore(x) /\ \E i \in 1..k : s[i] = x

LEMMA KeptStep ==
    ASSUME NEW s \in Seq(Nodes), NEW k \in Nat, k + 1 <= Len(s), NEW ns, KeptOf(ns, s, k)
    PROVE  KeptOf(IF AttrContainsIgnore(s[k + 1]) THEN ns ELSE Append(ns, s[k + 1]), s, k + 1)
<1>1. Len(s) \in Nat /\ s[k + 1] \in Nodes /\ ns \in Seq(Nodes) /\ Len(ns) \in Nat
  BY SeqTells DEF KeptOf
<1>2. PICK e : \A i, j \in 1..Len(ns) :
                 e[i] \in 1..k /\ ns[i] = s[e[i]] /\ (i < j => e[i] < e[j])
  BY DEF KeptOf
<1>3. \A x : (\E i \in 1..Len(ns) : ns[i] = x)
               <=> ~AttrContainsIgnore(x) /\ \E i \in 1..k : s[i] = x
  BY DEF KeptOf
<1>4. \A x : (\E i \in 1..(k + 1) : s[i] = x) <=> s[k + 1] = x \/ \E i \in 1..k : s[i] = x
  <2>1. \A i : i \in 1..(k + 1) <=> i = k + 1 \/ i \in 1..k
    OBVIOUS
  <2> QED BY <2>1
<1>5. CASE AttrContainsIgnore(s[k + 1])
  <2>1. \A i, j \in 1..Len(ns) :
          e[i] \in 1..(k + 1) /\ ns[i] = s[e[i]] /\ (i < j => e[i] < e[j])
    BY <1>2
  <2>2. \A x : (\E i \in 1..Len(ns) : ns[i] = x)
               <=> ~AttrContainsIgnore(x) /\ \E i \in 1..(k + 1) : s[i] = x
    BY <1>3, <1>4, <1>5
  <2>3. KeptOf(ns, s, k + 1)
    BY <1>1, <2>1, <2>2 DEF KeptOf
  <2> QED BY <1>5, <2>3
<1>6. CASE ~AttrContainsIgnore(s[k + 1])
  <2> DEFINE l == Len(ns) + 1
             ms == Append(ns, s[k + 1])
             d == [i \in 1..l |-> IF i = l THEN k + 1 ELSE e[i]]
  <2>1. ms \in Seq(Nodes) /\ Len(ms) = l /\ ms[l] = s[k + 1] /\ \A i \in 1..Len(ns) : ms[i] = ns[i]
    BY <1>1, AppendProperties
  <2>2. l \in Nat /\ (\A i : i \in 1..l <=> i = l \/ i \in 1..Len(ns)) /\ \A i \in 1..Len(ns) : i < l
    BY <1>1
  <2>3. d[l] = k + 1 /\ \A i \in 1..Len(ns) : d[i] = e[i]
    BY <2>2
  <2> HIDE DEF ms, l, d
  <2>4. \A i, j \in 1..Len(ms) :
          d[i] \in 1..(k + 1) /\ ms[i] = s[d[i]] /\ (i < j => d[i] < d[j])
    <3> SUFFICES ASSUME NEW i \in 1..l, NEW j \in 1..l
                 PROVE  d[i] \in 1..(k + 1) /\ ms[i] = s[d[i]] /\ (i < j => d[i] < d[j])
      BY <2>1
    <3>1. CASE i = l
      <4>1. ~(i < j)
        BY <2>2, <3>1
      <4> QED BY <2>1, <2>3, <3>1, <4>1
    <3>2. CASE i \in 1..Len(ns)
      <4>1. d[i] \in 1..k /\ ms[i] = s[d[i]]
        BY <1>2, <2>1, <2>3, <3>2
      <4>2. CASE j = l
        BY <2>3, <4>1, <4>2
      <4>3. CASE j \in 1..Len(ns)
        BY <1>2, <2>3, <3>2, <4>1, <4>3
      <4> QED BY <2>2, <4>2, <4>3
    <3> QED BY <2>2, <3>1, <3>2
  <2>5. \A x : (\E i \in 1..Len(ms) : ms[i] = x) <=> s[k + 1] = x \/ \E i \in 1..Len(ns) : ns[i] = x
    BY <2>1, <2>2
  <2>6. \A x : (\E i \in 1..Len(ms) : ms[i] = x)
               <=> ~AttrContainsIgnore(x) /\ \E i \in 1..(k + 1) : s[i] = x
    BY <1>3, <1>4, <1>6, <2>5
  <2>7. KeptOf(ms, s, k + 1)
    BY <2>1, <2>4, <2>6 DEF KeptOf
  <2> QED BY <1>6, <2>7 DEF ms
<1> QED BY <1>5, <1>6

LEMMA DerivedTells ==
    ASSUME NEW s \in Seq(Nodes)
    PROVE  KeptOf(Derived(s), s, Len(s))
<1>1. Len(s) \in Nat
  BY SeqTells
<1> DEFINE f == CHOOSE g : KeptIn(g, s, Len(s))
           S == {k \in Nat : k <= Len(s) => KeptOf(f[k], s, k)}
<1>2. KeptIn(f, s, Len(s))
  BY <1>1, KeptExists
<1>3. Derived(s) = f[Len(s)]
  BY DEF Derived, KeptIn
<1> HIDE DEF f
<1>4. \A k \in 0..Len(s) :
        f[k] = IF k = 0 THEN <<>>
               ELSE IF AttrContainsIgnore(s[k]) THEN f[k - 1] ELSE Append(f[k - 1], s[k])
  BY <1>2 DEF KeptIn
<1>5. 0 \in S
  <2>1. f[0] = <<>>
    BY <1>1, <1>4
  <2>2. KeptOf(<<>>, s, 0)
    BY DEF KeptOf
  <2> QED BY <2>1, <2>2
<1>6. ASSUME NEW k \in Nat, k \in S PROVE k + 1 \in S
  <2> SUFFICES ASSUME k + 1 <= Len(s) PROVE KeptOf(f[k + 1], s, k + 1)
    OBVIOUS
  <2>1. KeptOf(f[k], s, k)
    BY <1>1, <1>6
  <2>2. f[k + 1] = IF AttrContainsIgnore(s[k + 1]) THEN f[k] ELSE Append(f[k], s[k + 1])
    <3>1. k + 1 \in 0..Len(s) /\ k + 1 # 0 /\ (k + 1) - 1 = k
      BY <1>1
    <3> QED BY <1>4, <3>1
  <2> QED BY <2>1, <2>2, KeptStep
<1>7. \A k \in Nat : k \in S
  <2> HIDE DEF S
  <2>1. \A k \in Nat : k \in S => k + 1 \in S
    BY <1>6
  <2> QED BY <1>5, <2>1, Induction
<1> QED BY <1>1, <1>3, <1>7

LEMMA DerivedPart ==
    ASSUME NEW s \in Seq(Nodes)
    PROVE  IsPart(Derived(s), s)
BY DerivedTells DEF KeptOf, IsPart

-----------------------------------------------------------------------------
(* The calls in progress *)

LEMMA CallsInit == Init => CallsInv
<1> SUFFICES ASSUME Init PROVE CallsInv
  OBVIOUS
<1>1. content \in [Nodes -> Seq(Nodes)] /\ IsOwned(content)
  BY ValuesAssumption DEF Init
<1>2. agenda = <<>> /\ agenda \in Seq(Tasks) /\ Len(agenda) = 0
  BY DEF Init
<1>3. TraceTypes
  BY <1>1, <1>2 DEF Init, TraceTypes, Phases
<1>4. AgendaOK(agenda, content) /\ PhaseOK(agenda, phase)
  BY <1>2 DEF AgendaOK, Placed, Apart, Nested, PhaseOK
<1>5. FlagsTell
  <2>1. \A op, c : ~Lends(agenda, op, c)
    BY <1>2 DEF Lends
  <2> QED BY <2>1 DEF Init, FlagsTell, FlagOK
<1> QED BY <1>1, <1>3, <1>4, <1>5 DEF CallsInv

LEMMA AgendaTells ==
    ASSUME CallsInv, agenda # <<>>
    PROVE  Len(agenda) > 0 /\ agenda[1] \in Tasks /\ agenda[1].node \in Nodes
<1>1. 1 \in 1..Len(agenda)
  BY InvTells
<1> QED BY <1>1, InvTells DEF Tasks

LEMMA UserCalls ==
    ASSUME CallsInv, UserStep
    PROVE  CallsInv'
<1>1. CASE \E c \in Cells : Borrow(c) \/ DropGuard(c)
  BY <1>1, BorrowStep, DropGuardStep
<1>2. CASE \E g \in Nodes : \E i \in 1..Len(content[g]) : Detach(g, i)
  BY <1>2, DetachStep
<1>3. CASE \E g, n \in Nodes : Attach(g, n)
  BY <1>3, AttachStep
<1>4. CASE EndFinalizer
  <2>1. /\ phase = "idle" /\ agenda[1].do = "run" /\ Len(agenda) > 0
        /\ UNCHANGED <<content, flag, guards, traced, earlier, phase>>
    BY <1>4, AgendaTells DEF EndFinalizer, UserRuns, Returned, valueVars, phaseVars
  <2>2. agenda' = Tail(agenda) /\ agenda' \in Seq(Tasks)
    <3>1. agenda' = <<>> \o Tail(agenda) /\ Tail(agenda) \in Seq(Tasks)
      BY <1>4, InvTells, TailEnds DEF EndFinalizer, Calls, IsEnd
    <3> QED BY <3>1, ConcatEmptySeq
  <2>3. TraceTypes'
    BY <2>1, <2>2 DEF CallsInv, TraceTypes
  <2> QED BY <2>1, <2>2, <2>3, PopStep
<1>5. CASE FinalizerPanic
  <2>1. Len(agenda) \in 1..Len(agenda)
    BY <1>5, InvTells DEF FinalizerPanic
  <2>2. /\ Unwind(Len(agenda)) /\ phase' = "idle" /\ UNCHANGED <<content, guards>>
        /\ traced' \in Seq(Nodes) /\ earlier' \in Seq(Nodes)
    BY <1>5 DEF FinalizerPanic, UserRuns, phaseVars, CallsInv, TraceTypes
  <2>3. ~(Len(agenda) < Len(agenda))
    BY InvTells
  <2> QED BY <2>1, <2>2, <2>3, UnwindStep
<1> QED BY <1>1, <1>2, <1>3, <1>4, <1>5 DEF UserStep

(* A node is visited that has nothing to visit.                                *)
LEMMA NothingStep ==
    ASSUME CallsInv, NEW op, NEW kinds, Visiting(op, kinds), Calls(<<>>),
           UNCHANGED <<content, flag, guards, phase>>, traced' \in Seq(Nodes), earlier' \in Seq(Nodes)
    PROVE  CallsInv'
<1>1. Len(agenda) > 0 /\ agenda[1].do = "visit" /\ agenda # <<>>
  BY AgendaTells DEF Visiting
<1>2. agenda' = Tail(agenda) /\ agenda' \in Seq(Tasks)
  <2>1. agenda' = <<>> \o Tail(agenda) /\ Tail(agenda) \in Seq(Tasks)
    BY <1>1, InvTells, TailEnds DEF Calls, IsEnd
  <2> QED BY <2>1, ConcatEmptySeq
<1>3. TraceTypes'
  BY <1>2 DEF CallsInv, TraceTypes
<1> QED BY <1>1, <1>2, <1>3, PopStep

LEMMA ForwardStep ==
    ASSUME CallsInv, NEW op, Forward(op), UNCHANGED <<content, flag, guards, phase, traced, earlier>>
    PROVE  CallsInv'
<1> DEFINE n == agenda[1].node
<1>1. /\ Len(agenda) > 0 /\ agenda[1].do = "visit" /\ agenda[1].op = op
      /\ Kind[n] # "cell" /\ n \in Nodes
      /\ agenda' = Visits(op, content[n]) \o Tail(agenda)
  BY AgendaTells DEF Forward, Visiting, Visited, Calls
<1>2. IsPart(content[n], content[n])
  BY <1>1, InvTells, WholePart
<1> QED BY <1>1, <1>2, VisitStep

LEMMA StructStep ==
    ASSUME CallsInv, TraceStruct
    PROVE  CallsInv'
<1> DEFINE n == agenda[1].node
<1>1. /\ Len(agenda) > 0 /\ agenda[1].do = "visit" /\ agenda[1].op = "trace"
      /\ Kind[n] # "cell" /\ n \in Nodes
      /\ agenda' = Visits("trace", Derived(content[n])) \o Tail(agenda)
      /\ UNCHANGED <<content, flag, guards, phase, traced, earlier>>
  BY AgendaTells DEF TraceStruct, Visiting, Visited, Calls, valueVars, phaseVars
<1>2. IsPart(Derived(content[n]), content[n])
  BY <1>1, InvTells, DerivedPart
<1> QED BY <1>1, <1>2, VisitStep

LEMMA VisitedCell ==
    ASSUME CallsInv, NEW op, Visiting(op, {"cell"})
    PROVE  /\ Len(agenda) > 0 /\ agenda[1].do = "visit" /\ agenda[1].op = op
           /\ agenda[1].node \in Cells
BY AgendaTells DEF Visiting, Visited, Cells

LEMMA TraceCellStep ==
    ASSUME CallsInv, TraceCell
    PROVE  CallsInv'
<1> DEFINE n == agenda[1].node
<1>1. /\ Len(agenda) > 0 /\ agenda[1].do = "visit" /\ agenda[1].op = "trace" /\ n \in Cells
      /\ Visiting("trace", {"cell"})
      /\ UNCHANGED <<content, guards, phase, traced, earlier>>
      /\ traced' \in Seq(Nodes) /\ earlier' \in Seq(Nodes)
  BY VisitedCell DEF TraceCell, phaseVars, CallsInv, TraceTypes
<1>2. CASE flag[n] = 0
  <2>1. /\ flag' = [flag EXCEPT ![n] = -1]
        /\ agenda' = Append(Visits("trace", content[n]), Task("trace", "release", n)) \o Tail(agenda)
    BY <1>2 DEF TraceCell, Visited, Calls
  <2> QED BY <1>1, <1>2, <2>1, CellStep
<1>3. CASE flag[n] # 0
  <2>1. Calls(<<>>) /\ UNCHANGED flag
    BY <1>3 DEF TraceCell, Visited
  <2> QED BY <1>1, <2>1, NothingStep
<1> QED BY <1>2, <1>3

LEMMA FinalizeCellStep ==
    ASSUME CallsInv, FinalizeCell
    PROVE  CallsInv'
<1> DEFINE n == agenda[1].node
<1>1. /\ Len(agenda) > 0 /\ agenda[1].do = "visit" /\ agenda[1].op = "finalize" /\ n \in Cells
      /\ Visiting("finalize", {"cell"})
      /\ UNCHANGED <<content, guards, phase, traced, earlier>>
      /\ traced' \in Seq(Nodes) /\ earlier' \in Seq(Nodes)
  BY VisitedCell DEF FinalizeCell, phaseVars, CallsInv, TraceTypes
<1>2. CASE flag[n] >= 0
  <2>1. /\ flag' = [flag EXCEPT ![n] = @ + 1]
        /\ agenda' = Append(Visits("finalize", content[n]), Task("finalize", "release", n)) \o Tail(agenda)
    BY <1>2 DEF FinalizeCell, Visited, Calls
  <2> QED BY <1>1, <1>2, <2>1, CellStep
<1>3. CASE ~(flag[n] >= 0)
  <2>1. Calls(<<>>) /\ UNCHANGED flag
    BY <1>3 DEF FinalizeCell, Visited
  <2> QED BY <1>1, <2>1, NothingStep
<1> QED BY <1>2, <1>3

LEMMA EndCellStep ==
    ASSUME CallsInv, EndTraceCell \/ EndFinalizeCell
    PROVE  CallsInv'
<1> DEFINE n == agenda[1].node
<1>1. /\ Len(agenda) > 0 /\ agenda[1].do = "release" /\ agenda # <<>>
      /\ UNCHANGED <<content, guards, phase, traced, earlier>>
      /\ flag' = [flag EXCEPT ![n] = IF agenda[1].op = "trace" THEN 0 ELSE @ - 1]
  <2>1. CASE EndTraceCell
    BY <2>1, AgendaTells DEF EndTraceCell, Visited, phaseVars
  <2>2. CASE EndFinalizeCell
    BY <2>2, AgendaTells DEF EndFinalizeCell, Visited, phaseVars
  <2> QED BY <2>1, <2>2
<1>2. agenda' = Tail(agenda)
  <2>1. agenda' = <<>> \o Tail(agenda) /\ Tail(agenda) \in Seq(Tasks)
    BY <1>1, InvTells, TailEnds DEF EndTraceCell, EndFinalizeCell, Calls, IsEnd
  <2> QED BY <2>1, ConcatEmptySeq
<1> QED BY <1>1, <1>2, ReleaseStep

LEMMA PhaseCalls ==
    ASSUME CallsInv, StartCounting \/ EndCounting \/ StartRoots \/ EndPhase
    PROVE  CallsInv'
<1>1. /\ agenda \in Seq(Tasks) /\ AgendaOK(agenda, content) /\ PhaseOK(agenda, phase) /\ TraceTypes
      /\ <<>> \in Seq(Nodes)
  BY InvTells DEF CallsInv
<1>2. CASE StartCounting
  <2>1. agenda # <<>> => agenda[1].do = "run"
    BY <1>2 DEF StartCounting, UserRuns, Returned
  <2>2. \A i \in 1..Len(agenda) : agenda[i].op # "trace"
    BY <1>1, <2>1, NoTrace
  <2>3. PhaseOK(agenda, "counting")
    BY <1>1, <2>1, NoTracePhase
  <2>4. /\ phase' = "counting" /\ traced' = <<>> /\ earlier' = <<>>
        /\ agenda' = <<Task("trace", "visit", Root)>> \o agenda
        /\ UNCHANGED <<content, flag, guards>>
    BY <1>2 DEF StartCounting, valueVars
  <2> QED BY <1>1, <2>2, <2>3, <2>4, TraceRootStep
<1>3. CASE StartRoots
  <2>1. /\ phase = "between" /\ phase' = "roots" /\ traced' = <<>> /\ earlier' = earlier
        /\ agenda' = <<Task("trace", "visit", Root)>> \o agenda
        /\ UNCHANGED <<content, flag, guards>>
    BY <1>3 DEF StartRoots, valueVars
  <2>2. \A i \in 1..Len(agenda) : agenda[i].op # "trace"
    BY <1>1, <2>1 DEF PhaseOK
  <2>3. PhaseOK(agenda, "roots")
    BY <1>1, <2>1 DEF PhaseOK
  <2>4. earlier \in Seq(Nodes)
    BY <1>1 DEF TraceTypes
  <2> QED BY <1>1, <2>1, <2>2, <2>3, <2>4, TraceRootStep
<1>4. CASE EndCounting \/ EndPhase
  <2>1. /\ UNCHANGED <<content, flag, guards, agenda>>
        /\ traced' \in Seq(Nodes) /\ earlier' \in Seq(Nodes) /\ phase' \in {"between", "idle"}
        /\ phase = "between" \/ Returned
    BY <1>1, <1>4 DEF EndCounting, EndPhase, valueVars, TraceTypes
  <2>2. PhaseOK(agenda, phase')
    <3>1. CASE Returned
      BY <1>1, <3>1, NoTracePhase DEF Returned
    <3>2. CASE ~Returned
      <4>1. phase = "between" /\ phase' = "idle"
        BY <1>4, <2>1, <3>2 DEF EndCounting, EndPhase
      <4> QED BY <1>1, <4>1 DEF PhaseOK
    <3> QED BY <3>1, <3>2
  <2>3. TraceTypes' /\ IsOwned(content')
    BY <1>1, <2>1 DEF TraceTypes, CallsInv, Phases
  <2>4. FlagsTell'
    BY <2>1, FlagsStay DEF CallsInv
  <2> QED BY <1>1, <2>1, <2>2, <2>3, <2>4 DEF CallsInv
<1> QED BY <1>2, <1>3, <1>4

LEMMA TraceCalls ==
    ASSUME CallsInv, TraceStep
    PROVE  CallsInv'
<1>1. CASE StartCounting \/ EndCounting \/ StartRoots \/ EndPhase
  BY <1>1, PhaseCalls
<1>2. CASE TraceCc
  <2>1. /\ Visiting("trace", {"cc"}) /\ Calls(<<>>)
        /\ UNCHANGED <<content, flag, guards, phase, earlier>>
        /\ traced' = Append(traced, agenda[1].node)
    BY <1>2 DEF TraceCc, Visited, valueVars
  <2>2. agenda[1].node \in Nodes /\ traced \in Seq(Nodes) /\ earlier \in Seq(Nodes)
    BY <2>1, AgendaTells DEF Visiting, CallsInv, TraceTypes
  <2>3. traced' \in Seq(Nodes) /\ earlier' \in Seq(Nodes)
    BY <2>1, <2>2, AppendProperties
  <2> QED BY <2>1, <2>3, NothingStep
<1>3. CASE TraceNothing
  <2>1. /\ Visiting("trace", {"leaf"}) /\ Calls(<<>>)
        /\ UNCHANGED <<content, flag, guards, phase>>
        /\ traced' \in Seq(Nodes) /\ earlier' \in Seq(Nodes)
    BY <1>3 DEF TraceNothing, valueVars, phaseVars, CallsInv, TraceTypes
  <2> QED BY <2>1, NothingStep
<1>4. CASE TraceForward
  <2>1. Forward("trace") /\ UNCHANGED <<content, flag, guards, phase, traced, earlier>>
    BY <1>4 DEF TraceForward, valueVars, phaseVars
  <2> QED BY <2>1, ForwardStep
<1>5. CASE TraceStruct
  BY <1>5, StructStep
<1>6. CASE TraceCell
  BY <1>6, TraceCellStep
<1>7. CASE EndTraceCell
  BY <1>7, EndCellStep
<1>8. CASE TracePanic
  <2>1. PICK k \in 1..Len(agenda) : Unwind(k) /\ (k < Len(agenda) => agenda[k + 1].do = "run")
    BY <1>8 DEF TracePanic
  <2>2. /\ phase' = "idle" /\ UNCHANGED <<content, guards>>
        /\ traced' \in Seq(Nodes) /\ earlier' \in Seq(Nodes)
    BY <1>8 DEF TracePanic
  <2> QED BY <2>1, <2>2, UnwindStep
<1> QED BY <1>1, <1>2, <1>3, <1>4, <1>5, <1>6, <1>7, <1>8 DEF TraceStep

LEMMA FinalizeCalls ==
    ASSUME CallsInv, FinalizeStep
    PROVE  CallsInv'
<1>1. CASE StartFinalize
  BY <1>1, FinalizeRootStep
<1>2. CASE FinalizeNothing
  <2>1. /\ Visiting("finalize", {"cc", "leaf"}) /\ Calls(<<>>)
        /\ UNCHANGED <<content, flag, guards, phase>>
        /\ traced' \in Seq(Nodes) /\ earlier' \in Seq(Nodes)
    BY <1>2 DEF FinalizeNothing, valueVars, phaseVars, CallsInv, TraceTypes
  <2> QED BY <2>1, NothingStep
<1>3. CASE FinalizeForward
  <2>1. Forward("finalize") /\ UNCHANGED <<content, flag, guards, phase, traced, earlier>>
    BY <1>3 DEF FinalizeForward, valueVars, phaseVars
  <2> QED BY <2>1, ForwardStep
<1>4. CASE FinalizeStruct
  BY <1>4, RunStep
<1>5. CASE FinalizeCell
  BY <1>5, FinalizeCellStep
<1>6. CASE EndFinalizeCell
  BY <1>6, EndCellStep
<1> QED BY <1>1, <1>2, <1>3, <1>4, <1>5, <1>6 DEF FinalizeStep

LEMMA CallsStep == CallsInv /\ [Next]_vars => CallsInv'
<1> SUFFICES ASSUME CallsInv, [Next]_vars PROVE CallsInv'
  OBVIOUS
<1>1. CASE Next
  BY <1>1, UserCalls, TraceCalls, FinalizeCalls DEF Next
<1>2. CASE UNCHANGED vars
  <2>1. UNCHANGED <<content, flag, guards, agenda, traced, earlier, phase>>
    BY <1>2 DEF vars, valueVars, phaseVars
  <2>2. TraceTypes' /\ IsOwned(content') /\ AgendaOK(agenda', content') /\ PhaseOK(agenda', phase')
    BY <2>1 DEF CallsInv, TraceTypes
  <2>3. FlagsTell'
    BY <2>1, FlagsStay DEF CallsInv
  <2> QED BY <2>2, <2>3 DEF CallsInv
<1> QED BY <1>1, <1>2

LEMMA CallsAlways == Spec => []CallsInv
<1>1. Init => CallsInv
  BY CallsInit
<1>2. CallsInv /\ [Next]_vars => CallsInv'
  BY CallsStep
<1> QED BY <1>1, <1>2, PTL DEF Spec

(* What a call of trace or finalize has still to visit stays where it is,      *)
(* whatever finalizers, nested collections and panics do (trace.rs).           *)
THEOREM Visited_Stays == Spec => []VisitedStays
<1>1. CallsInv => VisitedStays
  <2> SUFFICES ASSUME CallsInv, NEW i \in 1..Len(agenda)
               PROVE  /\ agenda[i].node \in Inside(Root)
                      /\ agenda[i].do = "visit" =>
                           \A c \in Around(agenda[i].node) : guards[c] # "mut"
    BY DEF VisitedStays
  <2>1. agenda[i].node \in Inside(Root)
    BY DEF CallsInv, AgendaOK, Placed, In, Inside
  <2>2. ASSUME NEW c \in Around(agenda[i].node) PROVE guards[c] # "mut"
    <3>1. c \in Cells \ {agenda[i].node} /\ agenda[i].node \in In(content, c)
      BY DEF Around, Inside, In
    <3>2. PICK j \in (i + 1)..Len(agenda) : agenda[j] = Task(agenda[i].op, "release", c)
      BY <3>1 DEF CallsInv, AgendaOK, Placed
    <3>3. j \in 1..Len(agenda) /\ agenda[i].op \in {"trace", "finalize"}
      BY <3>2, InvTells DEF Tasks
    <3>4. Lends(agenda, "trace", c) \/ Lends(agenda, "finalize", c)
      BY <3>2, <3>3 DEF Lends
    <3>5. FlagOK(agenda, flag[c], guards[c], c)
      BY <3>1 DEF CallsInv, FlagsTell
    <3> QED BY <3>4, <3>5 DEF FlagOK
  <2> QED BY <2>1, <2>2
<1> QED BY <1>1, CallsAlways, PTL

-----------------------------------------------------------------------------
(* What a tracing call visits *)

(* The cells that were borrowed when the tracing phase began. *)
ShutBy(A, fl) == {c \in Cells : fl[c] # 0 /\ ~Lends(A, "trace", c)}
Shut == ShutBy(agenda, flag)

(* What a tracing call visits of n, and which Ccs it finds from n on.          *)
Edges(value, shut) ==
    [n \in Nodes |->
        IF Kind[n] = "struct" THEN PartsIn(value)[n] \ Ignored
        ELSE IF n \in shut THEN {} ELSE PartsIn(value)[n]]

Found(value, shut, n) == {m \in From(n, Edges(value, shut)) : Kind[m] = "cc"}

(* The order in which the nodes of a value are met. *)
Before(value, m, n) ==
    \E v \in Nodes : \E i, j \in 1..Len(value[v]) :
        i < j /\ m \in In(value, value[v][i]) /\ n \in In(value, value[v][j])

NodeBefore(value, m, n) ==
    \A x \in In(value, m), y \in In(value, n) : Before(value, x, y)

SeqBefore(s, value, n) ==
    \A i \in 1..Len(s) : \A x \in In(value, n) : Before(value, s[i], x)

Ascending(s, value) ==
    \A i, j \in 1..Len(s) : i < j => Before(value, s[i], s[j])

Traces(t) == t.op = "trace" /\ t.do = "visit"

(* The Ccs that were visited are followed by those that will be. *)
Ordered(s, A, value) ==
    /\ Ascending(s, value)
    /\ \A k \in 1..Len(A) : Traces(A[k]) => SeqBefore(s, value, A[k].node)
    /\ \A k, l \in 1..Len(A) :
         k < l /\ Traces(A[k]) /\ Traces(A[l]) => NodeBefore(value, A[k].node, A[l].node)

Covers(s, A, value, shut) ==
    \A x : x \in Found(value, shut, Root) <=>
             \/ \E i \in 1..Len(s) : x = s[i]
             \/ \E k \in 1..Len(A) : Traces(A[k]) /\ x \in Found(value, shut, A[k].node)

Onward(s, A, value, shut) == Ordered(s, A, value) /\ Covers(s, A, value, shut)

TracedInv ==
    /\ phase \in {"counting", "roots"} => Onward(traced, agenda, content, Shut)
    /\ phase \in {"between", "roots"} => Onward(earlier, <<>>, content, Shut)

LEMMA BeforeOnce ==
    ASSUME NEW value, Tree(value), NEW m, NEW n, Before(value, m, n), Before(value, n, m)
    PROVE  FALSE
<1>1. value \in [Nodes -> Seq(Nodes)]
  BY DEF Tree
<1>2. PICK v \in Nodes : \E i, j \in 1..Len(value[v]) :
             i < j /\ m \in In(value, value[v][i]) /\ n \in In(value, value[v][j])
  BY DEF Before
<1>3. PICK i \in 1..Len(value[v]), j \in 1..Len(value[v]) :
             i < j /\ m \in In(value, value[v][i]) /\ n \in In(value, value[v][j])
  BY <1>2
<1>4. PICK w \in Nodes : \E k, l \in 1..Len(value[w]) :
             k < l /\ n \in In(value, value[w][k]) /\ m \in In(value, value[w][l])
  BY DEF Before
<1>5. PICK k \in 1..Len(value[w]), l \in 1..Len(value[w]) :
             k < l /\ n \in In(value, value[w][k]) /\ m \in In(value, value[w][l])
  BY <1>4
<1>6. m \in In(value, v) /\ n \in In(value, v) /\ m \in In(value, w) /\ n \in In(value, w)
  BY <1>1, <1>3, <1>5, InsideOf
<1>7. Len(value[v]) \in Nat /\ Len(value[w]) \in Nat
  BY <1>1, PartsType
<1>8. CASE v = w
  <2>1. i = l
    BY <1>3, <1>5, <1>8, PartsApart
  <2>2. j = k
    BY <1>3, <1>5, <1>8, PartsApart
  <2> QED BY <1>3, <1>5, <1>7, <2>1, <2>2
<1>9. ASSUME v # w, v \in In(value, w) PROVE FALSE
  <2>1. PICK p \in 1..Len(value[w]) : v \in In(value, value[w][p])
    BY <1>1, <1>9, InsideOf
  <2>2. value[w][p] \in Nodes
    BY <1>1, PartsType
  <2>3. m \in In(value, value[w][p]) /\ n \in In(value, value[w][p])
    BY <1>1, <1>6, <2>1, <2>2, InsideOf
  <2>4. p = l
    BY <1>5, <2>3, PartsApart
  <2>5. p = k
    BY <1>5, <2>3, PartsApart
  <2> QED BY <1>5, <1>7, <2>4, <2>5
<1>10. ASSUME v # w, w \in In(value, v) PROVE FALSE
  <2>1. PICK p \in 1..Len(value[v]) : w \in In(value, value[v][p])
    BY <1>1, <1>10, InsideOf
  <2>2. value[v][p] \in Nodes
    BY <1>1, PartsType
  <2>3. m \in In(value, value[v][p]) /\ n \in In(value, value[v][p])
    BY <1>1, <1>6, <2>1, <2>2, InsideOf
  <2>4. p = i
    BY <1>3, <2>3, PartsApart
  <2>5. p = j
    BY <1>3, <2>3, PartsApart
  <2> QED BY <1>3, <1>7, <2>4, <2>5
<1> QED BY <1>6, <1>8, <1>9, <1>10, Comparable

LEMMA EdgesType ==
    ASSUME NEW value, Tree(value), NEW shut
    PROVE  /\ Edges(value, shut) \in [Nodes -> SUBSET Nodes]
           /\ \A n \in Nodes : Edges(value, shut)[n] \subseteq PartsIn(value)[n]
<1>1. PartsIn(value) \in [Nodes -> SUBSET Nodes]
  BY PartsType DEF Tree
<1> DEFINE E(n) == IF Kind[n] = "struct" THEN PartsIn(value)[n] \ Ignored
                   ELSE IF n \in shut THEN {} ELSE PartsIn(value)[n]
<1>2. \A n \in Nodes : E(n) \subseteq PartsIn(value)[n]
  OBVIOUS
<1>3. Edges(value, shut) = [n \in Nodes |-> E(n)]
  BY DEF Edges
<1> HIDE DEF E
<1>4. \A n \in Nodes : Edges(value, shut)[n] = E(n)
  BY <1>3
<1>5. Edges(value, shut) \in [Nodes -> SUBSET Nodes]
  BY <1>1, <1>2, <1>3
<1> QED BY <1>2, <1>4, <1>5

LEMMA PartsTell ==
    ASSUME NEW value, Tree(value), NEW n \in Nodes
    PROVE  \A x : x \in PartsIn(value)[n] <=> \E i \in 1..Len(value[n]) : value[n][i] = x
<1>1. \A x : x \in PartsIn(value)[n] <=> \E i \in 1..Len(value[n]) : x = value[n][i]
  BY PartsType DEF Tree
<1> QED BY <1>1

LEMMA EdgesTell ==
    ASSUME NEW value, NEW shut, NEW n \in Nodes
    PROVE  /\ Kind[n] = "struct" => Edges(value, shut)[n] = PartsIn(value)[n] \ Ignored
           /\ Kind[n] # "struct" /\ n \in shut => Edges(value, shut)[n] = {}
           /\ Kind[n] # "struct" /\ n \notin shut => Edges(value, shut)[n] = PartsIn(value)[n]
BY DEF Edges

LEMMA FoundTells ==
    ASSUME NEW value, Tree(value), NEW shut, NEW n \in Nodes
    PROVE  /\ Found(value, shut, n) \subseteq In(value, n)
           /\ Kind[n] # "cc" =>
                \A x : x \in Found(value, shut, n) <=>
                         \E m \in Edges(value, shut)[n] : x \in Found(value, shut, m)
           /\ Kind[n] = "cc" => Found(value, shut, n) = {n}
<1> DEFINE E == Edges(value, shut)
<1>1. /\ E \in [Nodes -> SUBSET Nodes] /\ PartsIn(value) \in [Nodes -> SUBSET Nodes]
      /\ \A m \in Nodes : E[m] \subseteq PartsIn(value)[m]
  BY EdgesType, PartsType DEF Tree
<1>2. \A m, x : x \in Found(value, shut, m) <=> x \in From(m, E) /\ Kind[x] = "cc"
  BY DEF Found
<1> HIDE DEF E
<1>3. \A x : x \in From(n, E) <=> x = n \/ \E m \in E[n] : x \in From(m, E)
  BY <1>1, FromSplit
<1>4. Found(value, shut, n) \subseteq In(value, n)
  <2>1. In(value, n) \subseteq Nodes
    BY InsideOf DEF Tree
  <2>2. \A m \in From(n, PartsIn(value)) : E[m] \subseteq PartsIn(value)[m]
    BY <1>1, <2>1 DEF In
  <2>3. From(n, E) \subseteq From(n, PartsIn(value))
    BY <1>1, <2>2, FromMore
  <2> QED BY <1>2, <2>3 DEF In
<1>5. ASSUME Kind[n] = "cc" PROVE Found(value, shut, n) = {n}
  <2>1. Len(value[n]) \in Nat /\ \A i \in 1..Len(value[n]) : FALSE
    BY <1>5, PartsType DEF Tree, IsOwned
  <2>2. PartsIn(value)[n] = {}
    BY <2>1, PartsType DEF Tree
  <2>3. E[n] = {}
    BY <1>1, <2>2
  <2> QED BY <1>2, <1>3, <1>5, <2>3
<1>6. ASSUME Kind[n] # "cc", NEW x
      PROVE  x \in Found(value, shut, n) <=> \E m \in E[n] : x \in Found(value, shut, m)
  BY <1>2, <1>3, <1>6
<1> QED BY <1>4, <1>5, <1>6 DEF E

(* A task is done that visits nothing. *)
LEMMA OnwardTail ==
    ASSUME NEW A \in Seq(Tasks), Len(A) > 0, ~Traces(A[1]), NEW s, NEW value, NEW shut,
           Onward(s, A, value, shut)
    PROVE  Onward(s, Tail(A), value, shut)
<1> DEFINE B == Tail(A)
<1>1. Len(A) \in Nat /\ Len(B) = Len(A) - 1 /\ \A i \in 1..Len(B) : B[i] = A[i + 1]
  BY SeqTells, EmptySeq, TailEnds
<1> HIDE DEF B
<1>2. \A i \in 1..Len(B) : i + 1 \in 1..Len(A) /\ B[i] = A[i + 1]
  BY <1>1
<1>3. \A i \in 1..Len(A) : i # 1 => i - 1 \in 1..Len(B) /\ B[i - 1] = A[i]
  <2> SUFFICES ASSUME NEW i \in 1..Len(A), i # 1 PROVE i - 1 \in 1..Len(B) /\ B[i - 1] = A[i]
    OBVIOUS
  <2>1. i - 1 \in 1..Len(B) /\ (i - 1) + 1 = i
    BY <1>1
  <2> QED BY <1>1, <2>1
<1>4. Ordered(s, B, value)
  <2>1. \A k \in 1..Len(B) : Traces(B[k]) => SeqBefore(s, value, B[k].node)
    BY <1>2 DEF Onward, Ordered
  <2>2. \A k, l \in 1..Len(B) :
          k < l /\ Traces(B[k]) /\ Traces(B[l]) => NodeBefore(value, B[k].node, B[l].node)
    <3> SUFFICES ASSUME NEW k \in 1..Len(B), NEW l \in 1..Len(B), k < l, Traces(B[k]), Traces(B[l])
                 PROVE  NodeBefore(value, B[k].node, B[l].node)
      OBVIOUS
    <3>1. k + 1 \in 1..Len(A) /\ l + 1 \in 1..Len(A) /\ k + 1 < l + 1 /\ B[k] = A[k + 1] /\ B[l] = A[l + 1]
      BY <1>1, <1>2
    <3> QED BY <3>1 DEF Onward, Ordered
  <2> QED BY <2>1, <2>2 DEF Onward, Ordered
<1>5. Covers(s, B, value, shut)
  <2> SUFFICES ASSUME NEW x
               PROVE  (\E k \in 1..Len(B) : Traces(B[k]) /\ x \in Found(value, shut, B[k].node))
                        <=> \E k \in 1..Len(A) : Traces(A[k]) /\ x \in Found(value, shut, A[k].node)
    BY DEF Onward, Covers
  <2>1. ASSUME NEW k \in 1..Len(B), Traces(B[k]) /\ x \in Found(value, shut, B[k].node)
        PROVE  \E l \in 1..Len(A) : Traces(A[l]) /\ x \in Found(value, shut, A[l].node)
    BY <1>2, <2>1
  <2>2. ASSUME NEW k \in 1..Len(A), Traces(A[k]) /\ x \in Found(value, shut, A[k].node)
        PROVE  \E l \in 1..Len(B) : Traces(B[l]) /\ x \in Found(value, shut, B[l].node)
    BY <1>3, <2>2
  <2> QED BY <2>1, <2>2
<1> QED BY <1>4, <1>5 DEF Onward, B

(* What n leads to is visited by the tasks T, in order. *)
Finds(T, value, shut, n) ==
    /\ \A i \in 1..Len(T) : Traces(T[i]) => In(value, T[i].node) \subseteq In(value, n)
    /\ \A i, j \in 1..Len(T) :
         i < j /\ Traces(T[i]) /\ Traces(T[j]) => NodeBefore(value, T[i].node, T[j].node)
    /\ \A x : x \in Found(value, shut, n) <=>
                \E i \in 1..Len(T) : Traces(T[i]) /\ x \in Found(value, shut, T[i].node)

(* A node is visited: the calls that are next find what it would find, in     *)
(* order, or it is a Cc.                                                       *)
LEMMA OnwardVisit ==
    ASSUME NEW A \in Seq(Tasks), Len(A) > 0, Traces(A[1]), NEW n \in Nodes, n = A[1].node,
           NEW s, NEW value, Tree(value), NEW shut, Onward(s, A, value, shut),
           NEW T \in Seq(Tasks), NEW C, IsJoin(C, T, Tail(A)),
           Finds(T, value, shut, n)
    PROVE  Onward(s, C, value, shut)
<1> DEFINE B == Tail(A)
<1>1. /\ Len(A) \in Nat /\ Len(B) = Len(A) - 1 /\ B \in Seq(Tasks) /\ 1 \in 1..Len(A)
      /\ \A i \in 1..Len(B) : B[i] = A[i + 1]
  BY SeqTells, EmptySeq, TailEnds DEF IsEnd
<1> HIDE DEF B
<1>2. \A i \in 1..Len(B) : i + 1 \in 1..Len(A) /\ B[i] = A[i + 1] /\ 1 < i + 1
  BY <1>1
<1>3. \A i \in 1..Len(A) : i = 1 \/ (i - 1 \in 1..Len(B) /\ B[i - 1] = A[i])
  <2> SUFFICES ASSUME NEW i \in 1..Len(A), i # 1 PROVE i - 1 \in 1..Len(B) /\ B[i - 1] = A[i]
    OBVIOUS
  <2>1. i - 1 \in 1..Len(B) /\ (i - 1) + 1 = i
    BY <1>1
  <2> QED BY <1>1, <2>1
<1>4. Len(T) \in Nat /\ Len(C) = Len(T) + Len(B)
  BY SeqTells DEF IsJoin, B
<1>5. \A i \in 1..Len(C) :
        (i \in 1..Len(T) /\ C[i] = T[i]) \/ \E j \in 1..Len(B) : i = Len(T) + j /\ C[i] = B[j]
  BY <1>1, JoinCases DEF B
<1>6. \A i \in 1..Len(T) : i \in 1..Len(C) /\ C[i] = T[i]
  BY <1>1, <1>4 DEF IsJoin
<1>7. \A i \in 1..Len(B) : Len(T) + i \in 1..Len(C) /\ C[Len(T) + i] = B[i]
  BY <1>1, <1>4 DEF IsJoin, B
<1>8. SeqBefore(s, value, n)
  BY <1>1 DEF Onward, Ordered
<1>9. \A i \in 1..Len(B) : Traces(B[i]) => SeqBefore(s, value, B[i].node) /\ NodeBefore(value, n, B[i].node)
  BY <1>1, <1>2 DEF Onward, Ordered
<1>10. \A i, j \in 1..Len(B) :
         i < j /\ Traces(B[i]) /\ Traces(B[j]) => NodeBefore(value, B[i].node, B[j].node)
  <2> SUFFICES ASSUME NEW k \in 1..Len(B), NEW l \in 1..Len(B), k < l, Traces(B[k]), Traces(B[l])
               PROVE  NodeBefore(value, B[k].node, B[l].node)
    OBVIOUS
  <2>1. k + 1 \in 1..Len(A) /\ l + 1 \in 1..Len(A) /\ k + 1 < l + 1 /\ B[k] = A[k + 1] /\ B[l] = A[l + 1]
    BY <1>1, <1>2
  <2> QED BY <2>1 DEF Onward, Ordered
<1>11. Ordered(s, C, value)
  <2>1. ASSUME NEW k \in 1..Len(C), Traces(C[k]) PROVE SeqBefore(s, value, C[k].node)
    <3>1. CASE k \in 1..Len(T) /\ C[k] = T[k]
      BY <1>8, <2>1, <3>1 DEF SeqBefore, Finds
    <3>2. CASE \E j \in 1..Len(B) : C[k] = B[j]
      BY <1>9, <2>1, <3>2
    <3> QED BY <1>5, <3>1, <3>2
  <2>2. ASSUME NEW k \in 1..Len(C), NEW l \in 1..Len(C), k < l, Traces(C[k]), Traces(C[l])
        PROVE  NodeBefore(value, C[k].node, C[l].node)
    <3>1. CASE k \in 1..Len(T) /\ C[k] = T[k] /\ l \in 1..Len(T) /\ C[l] = T[l]
      BY <2>2, <3>1 DEF Finds
    <3>2. ASSUME k \in 1..Len(T), C[k] = T[k], NEW j \in 1..Len(B), C[l] = B[j]
          PROVE  NodeBefore(value, C[k].node, C[l].node)
      BY <1>9, <2>2, <3>2 DEF NodeBefore, Finds
    <3>3. ASSUME NEW i \in 1..Len(B), k = Len(T) + i, C[k] = B[i],
                 NEW j \in 1..Len(B), l = Len(T) + j, C[l] = B[j]
          PROVE  NodeBefore(value, C[k].node, C[l].node)
      <4>1. i < j
        BY <1>1, <1>4, <2>2, <3>3
      <4> QED BY <1>10, <2>2, <3>3, <4>1
    <3>4. ASSUME NEW i \in 1..Len(B), k = Len(T) + i, l \in 1..Len(T) PROVE FALSE
      BY <1>1, <1>4, <2>2, <3>4
    <3> QED BY <1>5, <3>1, <3>2, <3>3, <3>4
  <2> QED BY <2>1, <2>2 DEF Onward, Ordered
<1>12. Covers(s, C, value, shut)
  <2> DEFINE At(t, x) == Traces(t) /\ x \in Found(value, shut, t.node)
  <2> SUFFICES ASSUME NEW x
               PROVE  (\E k \in 1..Len(C) : At(C[k], x)) <=> \E k \in 1..Len(A) : At(A[k], x)
    BY DEF Onward, Covers
  <2>1. At(A[1], x) <=> \E i \in 1..Len(T) : At(T[i], x)
    BY DEF Finds
  <2> HIDE DEF At
  <2>2. (\E k \in 1..Len(A) : At(A[k], x)) <=> At(A[1], x) \/ \E i \in 1..Len(B) : At(B[i], x)
    <3>1. ASSUME NEW k \in 1..Len(A), At(A[k], x)
          PROVE  At(A[1], x) \/ \E i \in 1..Len(B) : At(B[i], x)
      BY <1>3, <3>1
    <3>2. ASSUME NEW i \in 1..Len(B), At(B[i], x) PROVE \E k \in 1..Len(A) : At(A[k], x)
      BY <1>2, <3>2
    <3> QED BY <1>1, <3>1, <3>2
  <2>3. (\E k \in 1..Len(C) : At(C[k], x))
          <=> (\E i \in 1..Len(T) : At(T[i], x)) \/ \E i \in 1..Len(B) : At(B[i], x)
    <3>1. ASSUME NEW k \in 1..Len(C), At(C[k], x)
          PROVE  (\E i \in 1..Len(T) : At(T[i], x)) \/ \E i \in 1..Len(B) : At(B[i], x)
      BY <1>5, <3>1
    <3>2. ASSUME NEW i \in 1..Len(T), At(T[i], x) PROVE \E k \in 1..Len(C) : At(C[k], x)
      BY <1>6, <3>2
    <3>3. ASSUME NEW i \in 1..Len(B), At(B[i], x) PROVE \E k \in 1..Len(C) : At(C[k], x)
      BY <1>7, <3>3
    <3> QED BY <3>1, <3>2, <3>3
  <2> QED BY <2>1, <2>2, <2>3
<1> QED BY <1>11, <1>12 DEF Onward

LEMMA OnwardCc ==
    ASSUME NEW A \in Seq(Tasks), Len(A) > 0, Traces(A[1]), NEW n \in Nodes, n = A[1].node, Kind[n] = "cc",
           NEW s \in Seq(Nodes), NEW value, Tree(value), NEW shut, Onward(s, A, value, shut)
    PROVE  Onward(Append(s, n), Tail(A), value, shut)
<1> DEFINE B == Tail(A)
           q == Append(s, n)
<1>1. /\ Len(A) \in Nat /\ Len(B) = Len(A) - 1 /\ B \in Seq(Tasks) /\ 1 \in 1..Len(A)
      /\ \A i \in 1..Len(B) : B[i] = A[i + 1]
  BY SeqTells, EmptySeq, TailEnds DEF IsEnd
<1>2. /\ Len(s) \in Nat /\ Len(q) = Len(s) + 1 /\ q[Len(s) + 1] = n
      /\ \A i \in 1..Len(s) : q[i] = s[i]
  BY SeqTells, AppendProperties
<1> HIDE DEF B, q
<1>3. \A i \in 1..Len(B) : i + 1 \in 1..Len(A) /\ B[i] = A[i + 1] /\ 1 < i + 1
  BY <1>1
<1>4. \A i \in 1..Len(A) : i = 1 \/ (i - 1 \in 1..Len(B) /\ B[i - 1] = A[i])
  <2> SUFFICES ASSUME NEW i \in 1..Len(A), i # 1 PROVE i - 1 \in 1..Len(B) /\ B[i - 1] = A[i]
    OBVIOUS
  <2>1. i - 1 \in 1..Len(B) /\ (i - 1) + 1 = i
    BY <1>1
  <2> QED BY <1>1, <2>1
<1>5. \A i \in 1..Len(q) : (i \in 1..Len(s) /\ q[i] = s[i]) \/ (i = Len(s) + 1 /\ q[i] = n)
  BY <1>2
<1>6. n \in In(value, n)
  BY InsideOf DEF Tree
<1>7. Ascending(q, value)
  <2> SUFFICES ASSUME NEW i \in 1..Len(q), NEW j \in 1..Len(q), i < j
               PROVE  Before(value, q[i], q[j])
    BY DEF Ascending
  <2>1. i \in 1..Len(s) /\ q[i] = s[i]
    BY <1>2
  <2>2. CASE j \in 1..Len(s) /\ q[j] = s[j]
    BY <2>1, <2>2 DEF Onward, Ordered, Ascending
  <2>3. CASE q[j] = n
    BY <1>1, <1>6, <2>1, <2>3 DEF Onward, Ordered, SeqBefore
  <2> QED BY <1>5, <2>2, <2>3
<1>8. ASSUME NEW k \in 1..Len(B), Traces(B[k]) PROVE SeqBefore(q, value, B[k].node)
  <2>1. NodeBefore(value, n, B[k].node) /\ SeqBefore(s, value, B[k].node)
    BY <1>1, <1>3, <1>8 DEF Onward, Ordered
  <2> SUFFICES ASSUME NEW i \in 1..Len(q), NEW x \in In(value, B[k].node)
               PROVE  Before(value, q[i], x)
    BY DEF SeqBefore
  <2>2. CASE i \in 1..Len(s) /\ q[i] = s[i]
    BY <2>1, <2>2 DEF SeqBefore
  <2>3. CASE q[i] = n
    BY <1>6, <2>1, <2>3 DEF NodeBefore
  <2> QED BY <1>5, <2>2, <2>3
<1>9. ASSUME NEW k \in 1..Len(B), NEW l \in 1..Len(B), k < l, Traces(B[k]), Traces(B[l])
      PROVE  NodeBefore(value, B[k].node, B[l].node)
  <2>1. k + 1 \in 1..Len(A) /\ l + 1 \in 1..Len(A) /\ k + 1 < l + 1 /\ B[k] = A[k + 1] /\ B[l] = A[l + 1]
    BY <1>1, <1>3, <1>9
  <2> QED BY <1>9, <2>1 DEF Onward, Ordered
<1>10. Ordered(q, B, value)
  BY <1>7, <1>8, <1>9 DEF Ordered
<1>11. Covers(q, B, value, shut)
  <2> DEFINE At(t, x) == Traces(t) /\ x \in Found(value, shut, t.node)
  <2> SUFFICES ASSUME NEW x
               PROVE  ((\E i \in 1..Len(q) : x = q[i]) \/ \E k \in 1..Len(B) : At(B[k], x))
                        <=> ((\E i \in 1..Len(s) : x = s[i]) \/ \E k \in 1..Len(A) : At(A[k], x))
    BY DEF Onward, Covers
  <2>1. At(A[1], x) <=> x = n
    BY FoundTells
  <2> HIDE DEF At
  <2>2. (\E i \in 1..Len(q) : x = q[i]) <=> x = n \/ \E i \in 1..Len(s) : x = s[i]
    <3>1. \A i \in 1..Len(s) : i \in 1..Len(q)
      BY <1>2
    <3>2. Len(s) + 1 \in 1..Len(q)
      BY <1>2
    <3> QED BY <1>2, <1>5, <3>1, <3>2
  <2>3. (\E k \in 1..Len(A) : At(A[k], x)) <=> At(A[1], x) \/ \E i \in 1..Len(B) : At(B[i], x)
    <3>1. ASSUME NEW k \in 1..Len(A), At(A[k], x)
          PROVE  At(A[1], x) \/ \E i \in 1..Len(B) : At(B[i], x)
      BY <1>4, <3>1
    <3>2. ASSUME NEW i \in 1..Len(B), At(B[i], x) PROVE \E k \in 1..Len(A) : At(A[k], x)
      BY <1>3, <3>2
    <3> QED BY <1>1, <3>1, <3>2
  <2> QED BY <2>1, <2>2, <2>3
<1> QED BY <1>10, <1>11 DEF Onward, B, q

(* The nodes ns are what n leads to, and T visits them. *)
LeadsTo(value, shut, n, ns) ==
    /\ IsPart(ns, value[n])
    /\ \A x : x \in Edges(value, shut)[n] <=> \E i \in 1..Len(ns) : ns[i] = x

Follows(T, ns) ==
    /\ T \in Seq(Tasks)
    /\ \A i \in 1..Len(T) : T[i].op = "trace"
    /\ \A i \in 1..Len(T) : Traces(T[i]) => i \in 1..Len(ns) /\ T[i].node = ns[i]
    /\ \A i \in 1..Len(ns) : i \in 1..Len(T) /\ Traces(T[i])

(* The parts of a node are met in the order they are visited in.               *)
LEMMA PartsOnward ==
    ASSUME NEW value, Tree(value), NEW n \in Nodes, Kind[n] # "cc", NEW shut,
           NEW ns, LeadsTo(value, shut, n, ns), NEW T, Follows(T, ns)
    PROVE  Finds(T, value, shut, n)
<1>1. value \in [Nodes -> Seq(Nodes)]
  BY DEF Tree
<1>2. PICK e : \A i, j \in 1..Len(ns) :
                 e[i] \in 1..Len(value[n]) /\ ns[i] = value[n][e[i]] /\ (i < j => e[i] < e[j])
  BY DEF LeadsTo, IsPart
<1>3. \A k \in 1..Len(value[n]) : value[n][k] \in Nodes /\ value[n][k] \in In(value, n)
  BY <1>1, PartsType, InsideOf
<1>4. ASSUME NEW i \in 1..Len(T), Traces(T[i]) PROVE In(value, T[i].node) \subseteq In(value, n)
  <2>1. T[i].node \in In(value, n)
    BY <1>2, <1>3, <1>4 DEF Follows
  <2> QED BY <1>1, <2>1, InsideOf
<1>5. ASSUME NEW i \in 1..Len(T), NEW j \in 1..Len(T), i < j, Traces(T[i]), Traces(T[j])
      PROVE  NodeBefore(value, T[i].node, T[j].node)
  <2> DEFINE a == e[i]
             b == e[j]
  <2>1. /\ a \in 1..Len(value[n]) /\ T[i].node = value[n][a]
        /\ b \in 1..Len(value[n]) /\ T[j].node = value[n][b] /\ a < b
    BY <1>2, <1>5 DEF Follows
  <2> HIDE DEF a, b
  <2> QED BY <2>1 DEF NodeBefore, Before
<1>6. ASSUME NEW x
      PROVE  x \in Found(value, shut, n) <=>
               \E i \in 1..Len(T) : Traces(T[i]) /\ x \in Found(value, shut, T[i].node)
  <2>1. x \in Found(value, shut, n) <=> \E m \in Edges(value, shut)[n] : x \in Found(value, shut, m)
    BY FoundTells
  <2>2. (\E m \in Edges(value, shut)[n] : x \in Found(value, shut, m))
          <=> \E i \in 1..Len(ns) : x \in Found(value, shut, ns[i])
    BY DEF LeadsTo
  <2>3. (\E i \in 1..Len(ns) : x \in Found(value, shut, ns[i]))
          <=> \E i \in 1..Len(T) : Traces(T[i]) /\ x \in Found(value, shut, T[i].node)
    <3>1. \A i \in 1..Len(ns) : i \in 1..Len(T) /\ Traces(T[i]) /\ T[i].node = ns[i]
      BY DEF Follows
    <3> QED BY <3>1 DEF Follows
  <2> QED BY <2>1, <2>2, <2>3
<1> QED BY <1>4, <1>5, <1>6 DEF Finds

(* The cells that are borrowed, but not by the tracing call.                   *)
LEMMA ShutTells ==
    ASSUME NEW A, NEW fl \in [Cells -> Int], NEW gs \in [Cells -> {"mut", "shared", "none"}],
           \A c \in Cells : FlagOK(A, fl[c], gs[c], c)
    PROVE  ShutBy(A, fl) = {c \in Cells : gs[c] # "none" \/ Lends(A, "finalize", c)}
<1> SUFFICES ASSUME NEW c \in Cells
             PROVE  fl[c] # 0 /\ ~Lends(A, "trace", c)
                      <=> gs[c] # "none" \/ Lends(A, "finalize", c)
  BY DEF ShutBy
<1>1. FlagOK(A, fl[c], gs[c], c) /\ fl[c] \in Int /\ gs[c] \in {"mut", "shared", "none"}
  OBVIOUS
<1> QED BY <1>1 DEF FlagOK

LEMMA ShutStays ==
    ASSUME CallsInv, CallsInv', UNCHANGED guards,
           \A c \in Cells : Lends(agenda', "finalize", c) <=> Lends(agenda, "finalize", c)
    PROVE  Shut' = Shut
<1>1. /\ flag \in [Cells -> Int] /\ guards \in [Cells -> {"mut", "shared", "none"}]
      /\ \A c \in Cells : FlagOK(agenda, flag[c], guards[c], c)
  BY DEF CallsInv, FlagsTell, TraceTypes
<1>2. /\ flag' \in [Cells -> Int] /\ guards' \in [Cells -> {"mut", "shared", "none"}]
      /\ \A c \in Cells : FlagOK(agenda', flag'[c], guards'[c], c)
  BY DEF CallsInv, FlagsTell, TraceTypes
<1>3. ShutBy(agenda, flag) = {c \in Cells : guards[c] # "none" \/ Lends(agenda, "finalize", c)}
  BY ONLY <1>1, ShutTells
<1>4. ShutBy(agenda', flag') = {c \in Cells : guards'[c] # "none" \/ Lends(agenda', "finalize", c)}
  BY ONLY <1>2, ShutTells
<1> QED BY <1>3, <1>4 DEF Shut

LEMMA CallsJoin ==
    ASSUME CallsInv, Len(agenda) > 0, NEW T \in Seq(Tasks), Calls(T),
           agenda[1].op = "trace", \A i \in 1..Len(T) : T[i].op = "trace"
    PROVE  /\ IsJoin(agenda', T, Tail(agenda))
           /\ \A c \in Cells : Lends(agenda', "finalize", c) <=> Lends(agenda, "finalize", c)
<1>1. agenda \in Seq(Tasks) /\ Tail(agenda) \in Seq(Tasks)
  BY InvTells, TailEnds DEF IsEnd
<1>2. IsJoin(agenda', T, Tail(agenda))
  BY <1>1, ConcatJoins DEF Calls
<1>3. \A c : ~Lends(T, "finalize", c) /\ agenda[1] # Task("finalize", "release", c)
  BY TaskTells DEF Lends
<1>4. \A c : Lends(agenda', "finalize", c) <=> Lends(T, "finalize", c) \/ Lends(Tail(agenda), "finalize", c)
  BY <1>1, <1>2, LendsJoin
<1>5. \A c : Lends(agenda, "finalize", c)
               <=> agenda[1] = Task("finalize", "release", c) \/ Lends(Tail(agenda), "finalize", c)
  BY <1>1, HeadLends
<1> QED BY <1>2, <1>3, <1>4, <1>5

LEMMA HeadTells ==
    ASSUME CallsInv, agenda # <<>>
    PROVE  /\ Len(agenda) > 0 /\ agenda \in Seq(Tasks) /\ agenda[1].node \in Nodes
           /\ content[agenda[1].node] \in Seq(Nodes) /\ Tree(content)
           /\ agenda[1].op = "trace" => phase \in {"counting", "roots"}
           /\ agenda[1].op = "finalize" /\ agenda[1].do # "run" => phase = "idle"
<1>1. 1 \in 1..Len(agenda) /\ \A j \in 1..1 : j = 1
  BY InvTells
<1>2. PhaseOK(agenda, phase)
  BY DEF CallsInv
<1> QED BY <1>1, <1>2, AgendaTells, InvTells DEF PhaseOK

(* A call of trace has gone on. *)
LEMMA TracedStays ==
    ASSUME CallsInv, CallsInv', TracedInv, agenda # <<>>, agenda[1].op = "trace",
           NEW T \in Seq(Tasks), \A i \in 1..Len(T) : T[i].op = "trace", Calls(T),
           UNCHANGED <<content, guards, earlier, phase>>,
           Onward(traced', agenda', content, Shut)
    PROVE  TracedInv'
<1>1. \A c \in Cells : Lends(agenda', "finalize", c) <=> Lends(agenda, "finalize", c)
  BY HeadTells, CallsJoin
<1>2. Shut' = Shut
  BY <1>1, ShutStays
<1> QED BY <1>2 DEF TracedInv

(* A call of trace has visited a node that is not a Cc. *)
LEMMA VisitedOnward ==
    ASSUME CallsInv, CallsInv', TracedInv, agenda # <<>>, Traces(agenda[1]), Kind[agenda[1].node] # "cc",
           NEW ns, LeadsTo(content, Shut, agenda[1].node, ns), NEW T, Follows(T, ns),
           Calls(T), UNCHANGED <<content, guards, traced, earlier, phase>>
    PROVE  TracedInv'
<1> DEFINE n == agenda[1].node
<1>1. /\ n \in Nodes /\ Tree(content) /\ Len(agenda) > 0 /\ agenda \in Seq(Tasks)
      /\ agenda[1].op = "trace" /\ phase \in {"counting", "roots"}
  BY HeadTells DEF Traces
<1>2. Onward(traced, agenda, content, Shut)
  BY <1>1 DEF TracedInv
<1>3. T \in Seq(Tasks) /\ \A i \in 1..Len(T) : T[i].op = "trace"
  BY DEF Follows
<1>4. IsJoin(agenda', T, Tail(agenda))
  BY <1>1, <1>3, CallsJoin
<1>5. Finds(T, content, Shut, n)
  BY <1>1, PartsOnward
<1>6. Onward(traced, agenda', content, Shut)
  BY <1>1, <1>2, <1>3, <1>4, <1>5, OnwardVisit
<1> QED BY <1>1, <1>3, <1>6, TracedStays

(* A call of trace has visited a node that traces nothing. *)
LEMMA VisitedNothing ==
    ASSUME CallsInv, CallsInv', TracedInv, agenda # <<>>, Traces(agenda[1]), Kind[agenda[1].node] # "cc",
           Edges(content, Shut)[agenda[1].node] = {},
           Calls(<<>>), UNCHANGED <<content, guards, traced, earlier, phase>>
    PROVE  TracedInv'
<1> DEFINE ns == <<>>
           T == <<>>
<1>1. ns \in Seq(Nodes) /\ T \in Seq(Tasks) /\ (\A i \in 1..Len(ns) : FALSE) /\ (\A i \in 1..Len(T) : FALSE)
  OBVIOUS
<1>2. Calls(T)
  OBVIOUS
<1> HIDE DEF ns, T
<1>3. LeadsTo(content, Shut, agenda[1].node, ns)
  BY <1>1 DEF IsPart, LeadsTo
<1>4. Follows(T, ns)
  BY <1>1 DEF Follows
<1> QED BY <1>2, <1>3, <1>4, VisitedOnward

LEMMA TraceCcTraced ==
    ASSUME CallsInv, CallsInv', TracedInv, TraceCc
    PROVE  TracedInv'
<1> DEFINE n == agenda[1].node
           T == <<>>
<1>1. /\ agenda # <<>> /\ agenda[1].op = "trace" /\ agenda[1].do = "visit" /\ Kind[n] = "cc"
      /\ traced' = Append(traced, n) /\ Calls(T)
      /\ UNCHANGED <<content, guards, earlier, phase>>
  BY DEF TraceCc, Visiting, Visited, valueVars
<1>2. /\ n \in Nodes /\ Tree(content) /\ Len(agenda) > 0 /\ agenda \in Seq(Tasks)
      /\ phase \in {"counting", "roots"} /\ Traces(agenda[1]) /\ traced \in Seq(Nodes)
  BY <1>1, HeadTells DEF Traces, CallsInv, TraceTypes
<1>3. Onward(traced, agenda, content, Shut)
  BY <1>2 DEF TracedInv
<1>4. agenda' = Tail(agenda)
  <2>1. agenda' = <<>> \o Tail(agenda) /\ Tail(agenda) \in Seq(Tasks)
    BY <1>1, <1>2, TailEnds DEF Calls, IsEnd
  <2> QED BY <2>1, ConcatEmptySeq
<1>5. Onward(traced', agenda', content, Shut)
  BY <1>1, <1>2, <1>3, <1>4, OnwardCc
<1>6. T \in Seq(Tasks) /\ \A i \in 1..Len(T) : T[i].op = "trace"
  OBVIOUS
<1> HIDE DEF T
<1> QED BY <1>1, <1>5, <1>6, TracedStays

LEMMA TraceNothingTraced ==
    ASSUME CallsInv, CallsInv', TracedInv, TraceNothing
    PROVE  TracedInv'
<1> DEFINE n == agenda[1].node
<1>1. /\ agenda # <<>> /\ Traces(agenda[1]) /\ Kind[n] = "leaf"
      /\ Calls(<<>>) /\ UNCHANGED <<content, guards, traced, earlier, phase>>
  BY DEF TraceNothing, Traces, Visiting, Visited, valueVars, phaseVars
<1>2. n \in Nodes /\ Tree(content)
  BY <1>1, HeadTells
<1>3. Edges(content, Shut)[n] = {}
  <2>1. \A i \in 1..Len(content[n]) : FALSE
    BY <1>1, <1>2 DEF Tree, IsOwned
  <2>2. \A x : x \in PartsIn(content)[n] <=> \E i \in 1..Len(content[n]) : content[n][i] = x
    BY <1>2, PartsTell
  <2>3. Edges(content, Shut)[n] \subseteq PartsIn(content)[n]
    BY <1>2, EdgesType
  <2> QED BY <2>1, <2>2, <2>3
<1> QED BY <1>1, <1>3, VisitedNothing

LEMMA VisitsFollow ==
    ASSUME NEW ns \in Seq(Nodes)
    PROVE  Follows(Visits("trace", ns), ns)
<1> DEFINE T == Visits("trace", ns)
<1>1. T \in Seq(Tasks) /\ Len(T) = Len(ns) /\ \A i \in 1..Len(ns) : T[i] = Task("trace", "visit", ns[i])
  BY VisitsType
<1> HIDE DEF T
<1>2. \A i \in 1..Len(T) : T[i].op = "trace" /\ T[i].do = "visit" /\ T[i].node = ns[i]
  BY <1>1, TaskTells
<1>3. Follows(T, ns)
  BY <1>1, <1>2 DEF Follows, Traces
<1> QED BY <1>3 DEF T

(* What a node leads to, if it is not a struct or a borrowed cell. *)
LEMMA LeadsToAll ==
    ASSUME NEW value, Tree(value), NEW shut, NEW n \in Nodes, Kind[n] # "struct", n \notin shut
    PROVE  LeadsTo(value, shut, n, value[n])
<1>1. value[n] \in Seq(Nodes)
  BY DEF Tree
<1>2. IsPart(value[n], value[n])
  BY <1>1, WholePart
<1>3. Edges(value, shut)[n] = PartsIn(value)[n]
  BY EdgesTell
<1>4. \A x : x \in PartsIn(value)[n] <=> \E i \in 1..Len(value[n]) : value[n][i] = x
  BY PartsTell
<1> QED BY <1>2, <1>3, <1>4 DEF LeadsTo

LEMMA TraceForwardTraced ==
    ASSUME CallsInv, CallsInv', TracedInv, TraceForward
    PROVE  TracedInv'
<1> DEFINE n == agenda[1].node
           T == Visits("trace", content[n])
<1>1. /\ agenda # <<>> /\ Traces(agenda[1]) /\ Kind[n] = "group"
      /\ Calls(T) /\ UNCHANGED <<content, guards, traced, earlier, phase>>
  BY DEF TraceForward, Traces, Forward, Visiting, Visited, valueVars, phaseVars
<1>2. n \in Nodes /\ Tree(content) /\ content[n] \in Seq(Nodes)
  BY <1>1, HeadTells
<1>3. Follows(T, content[n])
  BY <1>2, VisitsFollow
<1>4. n \notin Shut
  BY <1>1 DEF Shut, ShutBy, Cells
<1>5. LeadsTo(content, Shut, n, content[n])
  BY <1>1, <1>2, <1>4, LeadsToAll
<1> HIDE DEF T
<1> QED BY <1>1, <1>3, <1>5, VisitedOnward

LEMMA TraceStructTraced ==
    ASSUME CallsInv, CallsInv', TracedInv, TraceStruct
    PROVE  TracedInv'
<1> DEFINE n == agenda[1].node
           ns == Derived(content[n])
           T == Visits("trace", ns)
<1>1. /\ agenda # <<>> /\ Traces(agenda[1]) /\ Kind[n] = "struct"
      /\ Calls(T) /\ UNCHANGED <<content, guards, traced, earlier, phase>>
  BY DEF TraceStruct, Traces, Visiting, Visited, valueVars, phaseVars
<1>2. n \in Nodes /\ Tree(content) /\ content[n] \in Seq(Nodes)
  BY <1>1, HeadTells
<1>3. IsPart(ns, content[n]) /\ ns \in Seq(Nodes)
  BY <1>2, DerivedPart DEF IsPart
<1>4. Follows(T, ns)
  BY <1>3, VisitsFollow
<1>5. LeadsTo(content, Shut, n, ns)
  <2>1. \A x : (\E i \in 1..Len(ns) : ns[i] = x)
                 <=> x \notin Ignored /\ \E i \in 1..Len(content[n]) : content[n][i] = x
    BY <1>2, DerivedTells DEF KeptOf, AttrContainsIgnore
  <2> HIDE DEF ns
  <2>2. Edges(content, Shut)[n] = PartsIn(content)[n] \ Ignored
    BY <1>1, <1>2, EdgesTell
  <2>3. \A x : x \in PartsIn(content)[n] <=> \E i \in 1..Len(content[n]) : content[n][i] = x
    BY <1>2, PartsTell
  <2> QED BY <1>3, <2>1, <2>2, <2>3 DEF LeadsTo
<1> HIDE DEF T, ns
<1> QED BY <1>1, <1>4, <1>5, VisitedOnward

LEMMA TraceCellTraced ==
    ASSUME CallsInv, CallsInv', TracedInv, TraceCell
    PROVE  TracedInv'
<1> DEFINE n == agenda[1].node
           r == Task("trace", "release", n)
           V == Visits("trace", content[n])
           T == Append(V, r)
<1>1. /\ agenda # <<>> /\ Traces(agenda[1]) /\ Kind[n] = "cell"
      /\ UNCHANGED <<content, guards, traced, earlier, phase>>
  BY DEF TraceCell, Traces, Visiting, Visited, phaseVars
<1>2. /\ n \in Nodes /\ Tree(content) /\ content[n] \in Seq(Nodes) /\ content \in [Nodes -> Seq(Nodes)]
      /\ agenda \in Seq(Tasks) /\ Len(agenda) > 0
  BY <1>1, HeadTells DEF Tree
<1>3. CASE flag[n] = 0
  <2>1. Calls(T)
    BY <1>3 DEF TraceCell, Visited
  <2>2. Follows(V, content[n])
    BY <1>2, VisitsFollow
  <2>3. r \in Tasks /\ r.op = "trace" /\ ~Traces(r)
    BY <1>2, TaskTells DEF Task, Tasks, Traces
  <2> HIDE DEF V, r
  <2>4. V \in Seq(Tasks) /\ Len(V) \in Nat
    BY <2>2, SeqTells DEF Follows
  <2>5. /\ T \in Seq(Tasks) /\ Len(T) = Len(V) + 1 /\ T[Len(V) + 1] = r
        /\ \A i \in 1..Len(V) : T[i] = V[i]
    BY <2>3, <2>4, AppendProperties
  <2> HIDE DEF T
  <2>6. Follows(T, content[n])
    <3>1. \A i \in 1..Len(T) : i \in 1..Len(V) \/ T[i] = r
      BY <2>4, <2>5
    <3>2. \A i \in 1..Len(V) : i \in 1..Len(T)
      BY <2>4, <2>5
    <3>3. \A i \in 1..Len(T) : T[i].op = "trace" /\ (Traces(T[i]) => i \in 1..Len(content[n]) /\ T[i].node = content[n][i])
      BY <2>2, <2>3, <2>5, <3>1 DEF Follows
    <3>4. \A i \in 1..Len(content[n]) : i \in 1..Len(T) /\ Traces(T[i])
      BY <2>2, <2>5, <3>2 DEF Follows
    <3> QED BY <2>5, <3>3, <3>4 DEF Follows
  <2>7. n \notin Shut
    BY <1>3 DEF Shut, ShutBy
  <2>8. LeadsTo(content, Shut, n, content[n])
    BY <1>1, <1>2, <2>7, LeadsToAll
  <2> QED BY <1>1, <2>1, <2>6, <2>8, VisitedOnward
<1>4. CASE flag[n] # 0
  <2>1. Calls(<<>>)
    BY <1>4 DEF TraceCell, Visited
  <2>2. ~Lends(agenda, "trace", n)
    <3>1. agenda[1] # Task("trace", "release", n)
      BY <1>1, TaskTells DEF Traces
    <3>2. \A j \in 1..Len(Tail(agenda)) :
            Tail(agenda)[j].op = "trace" => Tail(agenda)[j].node \notin In(content, n)
      BY <1>1, <1>2, RestTells DEF CallsInv, Traces
    <3>3. n \in In(content, n)
      BY <1>2, InsideOf
    <3>4. \A j \in 1..Len(Tail(agenda)) : Tail(agenda)[j] # Task("trace", "release", n)
      BY <3>2, <3>3, TaskTells
    <3>5. ~Lends(Tail(agenda), "trace", n)
      BY <3>4 DEF Lends
    <3> QED BY <1>2, <3>1, <3>5, HeadLends
  <2>3. n \in Shut
    BY <1>1, <1>2, <1>4, <2>2 DEF Shut, ShutBy, Cells
  <2>4. Edges(content, Shut)[n] = {}
    BY <1>1, <1>2, <2>3, EdgesTell
  <2> QED BY <1>1, <2>1, <2>4, VisitedNothing
<1> QED BY <1>3, <1>4

LEMMA EndTraceCellTraced ==
    ASSUME CallsInv, CallsInv', TracedInv, EndTraceCell
    PROVE  TracedInv'
<1> DEFINE T == <<>>
<1>1. /\ agenda # <<>> /\ agenda[1].op = "trace" /\ ~Traces(agenda[1]) /\ Calls(T)
      /\ UNCHANGED <<content, guards, traced, earlier, phase>>
  BY DEF EndTraceCell, Traces, phaseVars
<1>2. Len(agenda) > 0 /\ agenda \in Seq(Tasks) /\ phase \in {"counting", "roots"}
  BY <1>1, HeadTells
<1>3. agenda' = Tail(agenda)
  <2>1. agenda' = <<>> \o Tail(agenda) /\ Tail(agenda) \in Seq(Tasks)
    BY <1>1, <1>2, TailEnds DEF Calls, IsEnd
  <2> QED BY <2>1, ConcatEmptySeq
<1>4. Onward(traced, agenda, content, Shut)
  BY <1>2 DEF TracedInv
<1>5. Onward(traced', agenda', content, Shut)
  BY <1>1, <1>2, <1>3, <1>4, OnwardTail
<1>6. T \in Seq(Tasks) /\ \A i \in 1..Len(T) : T[i].op = "trace"
  OBVIOUS
<1> HIDE DEF T
<1> QED BY <1>1, <1>5, <1>6, TracedStays

LEMMA StartTraced ==
    ASSUME CallsInv, CallsInv', \A i \in 1..Len(agenda) : agenda[i].op # "trace",
           agenda' = <<Task("trace", "visit", Root)>> \o agenda, traced' = <<>>,
           UNCHANGED <<content, guards>>
    PROVE  /\ Shut' = Shut
           /\ Onward(traced', agenda', content', Shut')
<1> DEFINE t == Task("trace", "visit", Root)
           T == <<t>>
<1>1. /\ t \in Tasks /\ t.op = "trace" /\ t.do = "visit" /\ t.node = Root
      /\ \A o, c : t # Task(o, "release", c)
  BY TaskTells, NodesAssumption DEF Task, Tasks
<1>2. agenda' = T \o agenda /\ agenda \in Seq(Tasks)
  BY InvTells
<1> HIDE DEF t
<1>3. T \in Seq(Tasks) /\ Len(T) = 1 /\ \A i \in 1..Len(T) : T[i] = t /\ i = 1
  BY <1>1
<1> HIDE DEF T
<1>4. IsJoin(agenda', T, agenda)
  BY <1>2, <1>3, ConcatJoins
<1>5. \A o, c : Lends(agenda', o, c) <=> Lends(agenda, o, c)
  <2>1. \A o, c : ~Lends(T, o, c)
    BY <1>1, <1>3 DEF Lends
  <2>2. \A o, c : Lends(agenda', o, c) <=> Lends(T, o, c) \/ Lends(agenda, o, c)
    BY <1>2, <1>3, <1>4, LendsJoin
  <2> QED BY <2>1, <2>2
<1>6. Shut' = Shut
  BY <1>5, ShutStays
<1>7. \A k \in 1..Len(agenda') : k = 1 \/ ~Traces(agenda'[k])
  <2> SUFFICES ASSUME NEW k \in 1..Len(agenda') PROVE k = 1 \/ ~Traces(agenda'[k])
    OBVIOUS
  <2>1. (k \in 1..Len(T) /\ agenda'[k] = T[k]) \/ \E j \in 1..Len(agenda) : k = Len(T) + j /\ agenda'[k] = agenda[j]
    BY <1>2, <1>3, <1>4, JoinCases
  <2> QED BY <1>3, <2>1 DEF Traces
<1>8. 1 \in 1..Len(agenda') /\ Traces(agenda'[1]) /\ agenda'[1].node = Root
  <2>1. Len(agenda) \in Nat /\ 1 \in 1..Len(T) /\ T[1] = t
    BY <1>2, <1>3, SeqTells
  <2>2. agenda'[1] = t /\ Len(agenda') = Len(T) + Len(agenda)
    BY <1>4, <2>1 DEF IsJoin
  <2> QED BY <1>1, <1>3, <2>1, <2>2 DEF Traces
<1> DEFINE s == traced'
<1>9. \A i \in 1..Len(s) : FALSE
  OBVIOUS
<1> HIDE DEF s
<1>10. Ordered(s, agenda', content)
  <2>1. \A k, l \in 1..Len(agenda') : Traces(agenda'[k]) /\ Traces(agenda'[l]) => ~(k < l)
    BY <1>7
  <2> QED BY <1>9, <2>1 DEF Ordered, Ascending, SeqBefore
<1>11. Covers(s, agenda', content, Shut)
  BY <1>7, <1>8, <1>9 DEF Covers
<1> QED BY <1>6, <1>10, <1>11 DEF Onward, s

(* Both calls of a phase have visited all Ccs when they return.                *)
LEMMA EndTraced ==
    ASSUME NEW A, \A i \in 1..Len(A) : A[i].op # "trace", NEW s, NEW value, NEW shut,
           Onward(s, A, value, shut)
    PROVE  Onward(s, <<>>, value, shut)
<1> DEFINE E == <<>>
<1>1. \A i \in 1..Len(E) : FALSE
  OBVIOUS
<1> HIDE DEF E
<1>2. Ordered(s, E, value)
  BY <1>1 DEF Onward, Ordered
<1>3. Covers(s, E, value, shut)
  BY <1>1 DEF Onward, Covers, Traces
<1> QED BY <1>2, <1>3 DEF Onward, E

LEMMA PhaseTraced ==
    ASSUME CallsInv, CallsInv', TracedInv, StartCounting \/ EndCounting \/ StartRoots \/ EndPhase
    PROVE  TracedInv'
<1>1. agenda \in Seq(Tasks) /\ AgendaOK(agenda, content) /\ PhaseOK(agenda, phase)
  BY InvTells DEF CallsInv
<1>2. CASE StartCounting
  <2>1. /\ agenda # <<>> => agenda[1].do = "run"
        /\ phase' = "counting" /\ traced' = <<>>
        /\ agenda' = <<Task("trace", "visit", Root)>> \o agenda
        /\ UNCHANGED <<content, guards>>
    BY <1>2 DEF StartCounting, UserRuns, Returned, valueVars
  <2>2. \A i \in 1..Len(agenda) : agenda[i].op # "trace"
    BY <1>1, <2>1, NoTrace
  <2>3. Onward(traced', agenda', content', Shut')
    BY <2>1, <2>2, StartTraced
  <2> QED BY <2>1, <2>3 DEF TracedInv
<1>3. CASE StartRoots
  <2>1. /\ phase = "between" /\ phase' = "roots" /\ traced' = <<>> /\ earlier' = earlier
        /\ agenda' = <<Task("trace", "visit", Root)>> \o agenda
        /\ UNCHANGED <<content, guards>>
    BY <1>3 DEF StartRoots, valueVars
  <2>2. \A i \in 1..Len(agenda) : agenda[i].op # "trace"
    BY <1>1, <2>1 DEF PhaseOK
  <2>3. Onward(traced', agenda', content', Shut') /\ Shut' = Shut
    BY <2>1, <2>2, StartTraced
  <2> QED BY <2>1, <2>3 DEF TracedInv
<1>4. CASE EndCounting
  <2>1. /\ phase = "counting" /\ phase' = "between" /\ earlier' = traced
        /\ UNCHANGED <<content, flag, guards, agenda, traced>>
        /\ agenda # <<>> => agenda[1].do = "run"
    BY <1>4 DEF EndCounting, Returned, valueVars
  <2>2. \A i \in 1..Len(agenda) : agenda[i].op # "trace"
    BY <1>1, <2>1, NoTrace
  <2>3. Onward(traced, <<>>, content, Shut)
    <3>1. Onward(traced, agenda, content, Shut)
      BY <2>1 DEF TracedInv
    <3> QED BY <2>2, <3>1, EndTraced
  <2>4. Shut' = Shut
    BY <2>1, ShutStays
  <2> QED BY <2>1, <2>3, <2>4 DEF TracedInv
<1>5. CASE EndPhase
  BY <1>5 DEF EndPhase, TracedInv
<1> QED BY <1>2, <1>3, <1>4, <1>5

(* Outside of tracing phases, the collector has visited nothing.               *)
LEMMA IdleTraced ==
    ASSUME CallsInv, UserStep \/ FinalizeStep \/ TracePanic
    PROVE  phase' = "idle"
<1>1. CASE UserStep
  BY <1>1 DEF UserStep, Borrow, DropGuard, Detach, Attach, EndFinalizer, FinalizerPanic, UserRuns, phaseVars
<1>2. CASE FinalizeStep
  <2>1. CASE StartFinalize
    BY <2>1 DEF StartFinalize, phaseVars
  <2>2. ASSUME agenda # <<>>, agenda[1].op = "finalize", agenda[1].do # "run", UNCHANGED phase
        PROVE  phase' = "idle"
    BY <2>2, HeadTells
  <2>3. CASE FinalizeNothing \/ FinalizeForward \/ FinalizeStruct
    BY <2>2, <2>3 DEF FinalizeNothing, FinalizeForward, FinalizeStruct, Forward, Visiting, phaseVars
  <2>4. CASE FinalizeCell \/ EndFinalizeCell
    BY <2>2, <2>4 DEF FinalizeCell, EndFinalizeCell, Visiting, phaseVars
  <2> QED BY <1>2, <2>1, <2>3, <2>4 DEF FinalizeStep
<1>3. CASE TracePanic
  BY <1>3 DEF TracePanic
<1> QED BY <1>1, <1>2, <1>3

LEMMA TracedStep == CallsInv /\ CallsInv' /\ TracedInv /\ [Next]_vars => TracedInv'
<1> SUFFICES ASSUME CallsInv, CallsInv', TracedInv, [Next]_vars PROVE TracedInv'
  OBVIOUS
<1>1. CASE UserStep \/ FinalizeStep \/ TracePanic
  BY <1>1, IdleTraced DEF TracedInv
<1>2. CASE StartCounting \/ EndCounting \/ StartRoots \/ EndPhase
  BY <1>2, PhaseTraced
<1>3. CASE TraceCc \/ TraceNothing
  BY <1>3, TraceCcTraced, TraceNothingTraced
<1>4. CASE TraceForward \/ TraceStruct
  BY <1>4, TraceForwardTraced, TraceStructTraced
<1>5. CASE TraceCell \/ EndTraceCell
  BY <1>5, TraceCellTraced, EndTraceCellTraced
<1>6. CASE UNCHANGED vars
  <2>1. UNCHANGED <<content, flag, guards, agenda, traced, earlier, phase>>
    BY <1>6 DEF vars, valueVars, phaseVars
  <2> QED BY <2>1 DEF TracedInv, Shut
<1> QED BY <1>1, <1>2, <1>3, <1>4, <1>5, <1>6 DEF Next, TraceStep

LEMMA TracedAlways == Spec => [](CallsInv /\ TracedInv)
<1>1. Init => CallsInv /\ TracedInv
  BY CallsInit DEF Init, TracedInv
<1>2. CallsInv /\ TracedInv /\ [Next]_vars => CallsInv' /\ TracedInv'
  BY CallsStep, TracedStep
<1> QED BY <1>1, <1>2, PTL DEF Spec

-----------------------------------------------------------------------------
(* What the calls of a tracing phase visit *)

(* A sequence in ascending order has no element twice. *)
LEMMA AscendingOnce ==
    ASSUME NEW value, Tree(value), NEW s \in Seq(Nodes), Ascending(s, value)
    PROVE  \A i, j \in 1..Len(s) : s[i] = s[j] => i = j
<1> SUFFICES ASSUME NEW i \in 1..Len(s), NEW j \in 1..Len(s), s[i] = s[j], i # j PROVE FALSE
  OBVIOUS
<1>1. i < j \/ j < i
  BY SeqTells
<1>2. Before(value, s[i], s[i])
  BY <1>1 DEF Ascending
<1> QED BY <1>2, BeforeOnce

(* The cells in Shut are those of which a guard exists: they lend nothing, the *)
(* other ones all they contain.                                                *)
LEMMA OpenEdges ==
    ASSUME CallsInv, \A c \in Cells : ~Lends(agenda, "trace", c)
    PROVE  Traceable = Found(content, Shut, Root)
<1>1. Tree(content)
  BY InvTells
<1>2. ASSUME NEW c \in Cells PROVE c \in Shut <=> Guarded(c) \/ Finalizing(c)
  <2>1. Finalizing(c) <=> Lends(agenda, "finalize", c)
    BY DEF Finalizing, Lends
  <2>2. FlagOK(agenda, flag[c], guards[c], c) /\ guards[c] \in {"mut", "shared", "none"}
    BY DEF CallsInv, FlagsTell, TraceTypes
  <2>3. flag[c] # 0 <=> Guarded(c) \/ Finalizing(c)
    BY <2>1, <2>2 DEF FlagOK, Guarded
  <2> QED BY <2>3 DEF Shut, ShutBy
<1>3. ASSUME NEW n \in Nodes PROVE Open(n) = Edges(content, Shut)[n]
  <2>1. Parts(n) = PartsIn(content)[n]
    BY DEF Parts, PartsIn
  <2>2. n \in Cells <=> Kind[n] = "cell"
    BY DEF Cells
  <2>3. CASE Kind[n] = "struct"
    <3>1. Open(n) = Parts(n) \ Ignored
      BY <2>3 DEF Open
    <3> QED BY <2>1, <2>3, <3>1, EdgesTell
  <2>4. CASE Kind[n] = "cell" /\ n \in Shut
    <3>1. Open(n) = {}
      BY <1>2, <2>2, <2>4 DEF Open
    <3> QED BY <2>4, <3>1, EdgesTell
  <2>5. CASE Kind[n] # "struct" /\ ~(Kind[n] = "cell" /\ n \in Shut)
    <3>1. Open(n) = Parts(n)
      BY <1>2, <2>2, <2>5 DEF Open
    <3>2. n \notin Shut
      BY <2>2, <2>5 DEF Shut, ShutBy
    <3> QED BY <2>1, <2>5, <3>1, <3>2, EdgesTell
  <2> QED BY <2>3, <2>4, <2>5
<1>4. Edges(content, Shut) = [m \in Nodes |-> Open(m)]
  <2>1. Edges(content, Shut) = [m \in Nodes |-> Edges(content, Shut)[m]]
    BY DEF Edges
  <2> QED BY <1>3, <2>1
<1>5. From(Root, Edges(content, Shut)) \subseteq Nodes
  BY <1>1, EdgesType, FromLeast, NodesAssumption
<1> QED BY <1>4, <1>5 DEF Traceable, Found

(* No call of trace is in progress when control is back in the program.       *)
LEMMA ReturnedTells ==
    ASSUME CallsInv, Returned
    PROVE  \A i \in 1..Len(agenda) : agenda[i].op # "trace"
<1>1. agenda \in Seq(Tasks) /\ AgendaOK(agenda, content) /\ (agenda # <<>> => agenda[1].do = "run")
  BY InvTells DEF CallsInv, Returned
<1> QED BY <1>1, NoTrace

LEMMA CoversTells ==
    ASSUME NEW s \in Seq(Nodes), NEW value, NEW shut, Covers(s, <<>>, value, shut)
    PROVE  ToSet(s) = Found(value, shut, Root)
<1>1. \A x : x \in Found(value, shut, Root) <=> \E i \in 1..Len(s) : x = s[i]
  BY DEF Covers
<1>2. ToSet(s) = {s[i] : i \in 1..Len(s)}
  <2>1. DOMAIN s = 1..Len(s)
    BY LenProperties
  <2> QED BY <2>1 DEF ToSet
<1> QED BY <1>1, <1>2

(* A call of trace visits no Cc twice, and in the end those of the value,      *)
(* without what is ignored or in a borrowed RefCell (trace.rs).                *)
THEOREM Trace_Exact == Spec => []TraceExact
<1>1. CallsInv /\ TracedInv => TraceExact
  <2> SUFFICES ASSUME CallsInv, TracedInv, phase \in {"counting", "roots"}
               PROVE  /\ \A i, j \in 1..Len(traced) : traced[i] = traced[j] => i = j
                      /\ ToSet(traced) \subseteq Inside(Root)
                      /\ Returned => ToSet(traced) = Traceable
    BY DEF TraceExact
  <2>1. /\ Onward(traced, agenda, content, Shut) /\ traced \in Seq(Nodes) /\ Tree(content)
    BY InvTells DEF TracedInv, CallsInv, TraceTypes
  <2>2. \A i, j \in 1..Len(traced) : traced[i] = traced[j] => i = j
    BY <2>1, AscendingOnce DEF Onward, Ordered
  <2>3. ToSet(traced) \subseteq Inside(Root)
    <3>1. \A i \in 1..Len(traced) : traced[i] \in Found(content, Shut, Root)
      BY <2>1 DEF Onward, Covers
    <3>2. Found(content, Shut, Root) \subseteq In(content, Root)
      BY <2>1, FoundTells, NodesAssumption
    <3>3. DOMAIN traced = 1..Len(traced)
      BY <2>1, LenProperties
    <3> QED BY <3>1, <3>2, <3>3 DEF ToSet, Inside, In
  <2>4. ASSUME Returned PROVE ToSet(traced) = Traceable
    <3>1. \A i \in 1..Len(agenda) : agenda[i].op # "trace"
      BY <2>4, ReturnedTells
    <3>2. Covers(traced, <<>>, content, Shut)
      BY <2>1, <3>1, EndTraced DEF Onward
    <3>3. \A c \in Cells : ~Lends(agenda, "trace", c)
      BY <3>1, TaskTells DEF Lends
    <3> QED BY <2>1, <3>2, <3>3, CoversTells, OpenEdges
  <2> QED BY <2>2, <2>3, <2>4
<1> QED BY <1>1, TracedAlways, PTL

(* Of two sequences in order, the one that has the first elements of the other *)
(* is a prefix of it.                                                          *)
Starts(s, t, value) ==
    /\ Ascending(s, value) /\ Ascending(t, value)
    /\ \A i \in 1..Len(s) : \E j \in 1..Len(t) : s[i] = t[j]
    /\ \A j \in 1..Len(t) : \/ \E i \in 1..Len(s) : t[j] = s[i]
                            \/ \A i \in 1..Len(s) : Before(value, s[i], t[j])

LEMMA PrefixTells ==
    ASSUME NEW value, Tree(value), NEW s \in Seq(Nodes), NEW t \in Seq(Nodes), Starts(s, t, value)
    PROVE  Len(s) <= Len(t) /\ \A i \in 1..Len(s) : s[i] = t[i]
<1>1. Len(s) \in Nat /\ Len(t) \in Nat
  BY SeqTells
<1> DEFINE S == {k \in Nat : k <= Len(s) => k <= Len(t) /\ \A i \in 1..k : s[i] = t[i]}
<1>2. 0 \in S
  BY <1>1
<1>3. ASSUME NEW k \in Nat, k \in S, k + 1 <= Len(s)
      PROVE  k + 1 <= Len(t) /\ s[k + 1] = t[k + 1]
  <2> DEFINE n == k + 1
  <2>1. n \in 1..Len(s) /\ n \in Nat /\ \A i \in 1..k : i \in 1..Len(t) /\ i \in 1..Len(s) /\ s[i] = t[i]
    BY <1>1, <1>3
  <2>2. PICK p \in 1..Len(t) : s[n] = t[p]
    BY <2>1 DEF Starts
  <2>3. \A i, j \in 1..Len(s) : i < j => Before(value, s[i], s[j])
    BY DEF Starts, Ascending
  <2>4. \A i, j \in 1..Len(t) : i < j => Before(value, t[i], t[j])
    BY DEF Starts, Ascending
  <2>5. ~(p < n)
    <3> SUFFICES ASSUME p < n PROVE FALSE
      OBVIOUS
    <3>1. p \in 1..k
      BY <1>1, <2>1
    <3>2. s[p] = s[n] /\ p \in 1..Len(s)
      BY <2>1, <2>2, <3>1
    <3>3. Before(value, s[n], s[n])
      BY <2>1, <2>3, <3>2
    <3> QED BY <3>3, BeforeOnce
  <2>6. ~(n < p)
    <3> SUFFICES ASSUME n < p PROVE FALSE
      OBVIOUS
    <3>1. n \in 1..Len(t)
      BY <1>1, <2>1
    <3>2. Before(value, t[n], s[n])
      BY <2>2, <2>4, <3>1
    <3>3. CASE \E i \in 1..Len(s) : t[n] = s[i]
      <4>1. PICK i \in 1..Len(s) : t[n] = s[i]
        BY <3>3
      <4>2. CASE i < n
        <5>1. i \in 1..k
          BY <1>1, <2>1, <4>2
        <5>2. t[i] = t[n] /\ i \in 1..Len(t)
          BY <2>1, <4>1, <5>1
        <5>3. Before(value, t[n], t[n])
          BY <2>4, <3>1, <4>2, <5>2
        <5> QED BY <5>3, BeforeOnce
      <4>3. CASE i = n
        BY <3>2, <4>1, <4>3, BeforeOnce
      <4>4. CASE n < i
        <5>1. Before(value, s[n], t[n])
          BY <2>1, <2>3, <4>1, <4>4
        <5> QED BY <3>2, <5>1, BeforeOnce
      <4> QED BY <1>1, <2>1, <4>2, <4>3, <4>4
    <3>4. CASE \A i \in 1..Len(s) : Before(value, s[i], t[n])
      BY <2>1, <3>2, <3>4, BeforeOnce
    <3> QED BY <3>1, <3>3, <3>4 DEF Starts
  <2>7. p = n
    BY <1>1, <2>1, <2>5, <2>6
  <2> QED BY <1>1, <2>2, <2>7
<1>4. ASSUME NEW k \in Nat, k \in S PROVE k + 1 \in S
  <2> SUFFICES ASSUME k + 1 <= Len(s)
               PROVE  k + 1 <= Len(t) /\ \A i \in 1..(k + 1) : s[i] = t[i]
    OBVIOUS
  <2>1. k + 1 <= Len(t) /\ s[k + 1] = t[k + 1]
    BY <1>3, <1>4
  <2>2. \A i \in 1..k : s[i] = t[i]
    BY <1>1, <1>4
  <2> QED BY <2>1, <2>2
<1>5. \A k \in Nat : k \in S
  <2> HIDE DEF S
  <2>1. \A k \in Nat : k \in S => k + 1 \in S
    BY <1>4
  <2> QED BY <1>2, <2>1, Induction
<1> QED BY <1>1, <1>5

LEMMA PrefixIs ==
    ASSUME NEW s \in Seq(Nodes), NEW t \in Seq(Nodes), Len(s) <= Len(t),
           \A i \in 1..Len(s) : s[i] = t[i]
    PROVE  IsPrefix(s, t)
<1> DEFINE n == Len(s)
           a == SubSeq(s, 1, n)
           b == SubSeq(t, 1, n)
<1>1. n \in Nat /\ Len(t) \in Nat
  BY SeqTells
<1>2. a \in Seq(Nodes) /\ Len(a) = n /\ \A i \in 1..n : a[i] = s[i]
  <2>1. 1 \in 1..(n + 1) /\ n \in 0..n
    BY <1>1
  <2>2. \A i \in 1..n : s[i] \in Nodes
    BY SeqTells
  <2>3. CASE n = 0
    BY <1>1, <2>3, SubSeqProperties
  <2>4. CASE n > 0
    BY <1>1, <2>2, <2>4, SubSeqProperties
  <2> QED BY <1>1, <2>3, <2>4
<1>3. b \in Seq(Nodes) /\ Len(b) = n /\ \A i \in 1..n : b[i] = t[i]
  <2>1. \A i \in 1..Len(t) : t[i] \in Nodes
    BY SeqTells
  <2>2. CASE n = 0
    BY <1>1, <2>2, SubSeqProperties
  <2>3. CASE n > 0
    BY <1>1, <2>1, <2>3, SubSeqProperties
  <2> QED BY <1>1, <2>2, <2>3
<1> HIDE DEF a, b
<1>4. a = b
  <2>1. Len(a) = Len(b) /\ \A i \in 1..Len(a) : a[i] = b[i]
    BY <1>2, <1>3
  <2> QED BY <1>2, <1>3, <2>1, SeqEqual
<1> QED BY <1>4 DEF IsPrefix, a, b

(* The second call of a tracing phase visits the Ccs the first one has visited, *)
(* in the same order: what the collector counted for a Cc it can subtract.      *)
THEOREM Same_In_Phase == Spec => []SameInPhase
<1>1. CallsInv /\ TracedInv => SameInPhase
  <2> SUFFICES ASSUME CallsInv, TracedInv, phase = "roots"
               PROVE  IsPrefix(traced, earlier) /\ (Returned => traced = earlier)
    BY DEF SameInPhase
  <2> DEFINE E == <<>>
  <2>1. /\ Onward(traced, agenda, content, Shut) /\ Onward(earlier, E, content, Shut)
        /\ traced \in Seq(Nodes) /\ earlier \in Seq(Nodes) /\ Tree(content)
        /\ \A i \in 1..Len(agenda) : agenda[i] \in Tasks
    BY InvTells DEF TracedInv, CallsInv, TraceTypes
  <2>2. \A i \in 1..Len(E) : FALSE
    OBVIOUS
  <2> HIDE DEF E
  <2>3. \A x : x \in Found(content, Shut, Root) <=> \E j \in 1..Len(earlier) : x = earlier[j]
    BY <2>1, <2>2 DEF Onward, Covers
  <2>4. \A x : x \in Found(content, Shut, Root) <=>
                 \/ \E i \in 1..Len(traced) : x = traced[i]
                 \/ \E k \in 1..Len(agenda) : Traces(agenda[k]) /\ x \in Found(content, Shut, agenda[k].node)
    BY <2>1 DEF Onward, Covers
  <2>5. Starts(traced, earlier, content)
    <3>1. Ascending(traced, content) /\ Ascending(earlier, content)
      BY <2>1 DEF Onward, Ordered
    <3>2. \A i \in 1..Len(traced) : \E j \in 1..Len(earlier) : traced[i] = earlier[j]
      BY <2>3, <2>4
    <3>3. ASSUME NEW j \in 1..Len(earlier), NEW k \in 1..Len(agenda), Traces(agenda[k]),
                 earlier[j] \in Found(content, Shut, agenda[k].node)
          PROVE  \A i \in 1..Len(traced) : Before(content, traced[i], earlier[j])
      <4>1. agenda[k].node \in Nodes
        BY <2>1 DEF Tasks
      <4>2. earlier[j] \in In(content, agenda[k].node)
        BY <2>1, <3>3, <4>1, FoundTells
      <4>3. SeqBefore(traced, content, agenda[k].node)
        BY <2>1, <3>3 DEF Onward, Ordered
      <4> QED BY <4>2, <4>3 DEF SeqBefore
    <3>4. \A j \in 1..Len(earlier) :
            \/ \E i \in 1..Len(traced) : earlier[j] = traced[i]
            \/ \A i \in 1..Len(traced) : Before(content, traced[i], earlier[j])
      BY <2>3, <2>4, <3>3
    <3> QED BY <3>1, <3>2, <3>4 DEF Starts
  <2>6. Len(traced) <= Len(earlier) /\ \A i \in 1..Len(traced) : traced[i] = earlier[i]
    BY <2>1, <2>5, PrefixTells
  <2>7. IsPrefix(traced, earlier)
    BY <2>1, <2>6, PrefixIs
  <2>8. ASSUME Returned PROVE traced = earlier
    <3>1. \A k \in 1..Len(agenda) : ~Traces(agenda[k])
      BY <2>8, ReturnedTells DEF Traces
    <3>2. \A j \in 1..Len(earlier) : \E i \in 1..Len(traced) : earlier[j] = traced[i]
      BY <2>3, <2>4, <3>1
    <3>3. Starts(earlier, traced, content)
      BY <2>5, <3>2 DEF Starts
    <3>4. Len(earlier) <= Len(traced)
      BY <2>1, <3>3, PrefixTells
    <3>5. Len(traced) = Len(earlier)
      BY <2>1, <2>6, <3>4, SeqTells
    <3> QED BY <2>1, <2>6, <3>5, SeqEqual
  <2> QED BY <2>7, <2>8
<1> QED BY <1>1, TracedAlways, PTL
=============================================================================
