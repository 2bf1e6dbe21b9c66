------------------------------ MODULE CcWeakProof ------------------------------
(* The invariants of CcWeak, for any number of boxes, metadata blocks and     *)
(* Weaks and any limits of the counters.                                     *)
EXTENDS CcWeak, FiniteSetTheorems, TLAPS

(* The Weaks on a metadata block, by the metadata of each Weak.               *)
Users(f, m) == {w \in Weaks : f[w] = m}

-----------------------------------------------------------------------------
(* The inductive invariant *)

(* No two boxes share a metadata block.                                      *)
OneBox == \A o, p \in Objects : meta[o] # None /\ meta[o] = meta[p] => o = p

(* The accessible bit tells whether a box still has the metadata block.      *)
AccessibleExact == \A m \in metaAlloc : accessible[m] <=> \E o \in Objects : meta[o] = m

(* Only Weak::new makes a Weak without metadata.                             *)
AttachedToBox == \A w \in Weaks : Attached(w) <=> weakBox[w] \in Objects

(* The Weaks to one metadata block point to one box.                         *)
SameBox == \A w, x \in Weaks : Attached(w) /\ weakMeta[w] = weakMeta[x] => weakBox[w] = weakBox[x]

(* A Weak points to the box that has its metadata block.                     *)
OwnBox == \A w \in Weaks, o \in Objects : Attached(w) /\ meta[o] = weakMeta[w] => weakBox[w] = o

MetaInv ==
    /\ OneBox /\ AccessibleExact /\ AttachedToBox /\ SameBox /\ OwnBox
    /\ MetadataLives /\ WeakCountExact

BoxInv ==
    /\ \A o \in Objects : /\ box[o] = "free" => held[o] = 0 /\ cyclic[o] = 0 /\ meta[o] = None
                          /\ cyclic[o] > 0 => box[o] \in {"live", "dropped"}
                          /\ Counter(o) <= MaxStrong
    /\ HeldIsLive
    /\ \A o \in list : box[o] \in {"live", "dropped"}
    /\ phase = "program" => list = {}
    /\ phase = "freeing" => \A o \in list : box[o] = "dropped"

(* What new_cyclic builds has the metadata of the Weak it lends.             *)
BuilderInv ==
    \A o \in Objects :
        /\ box[o] = "building" <=> builder[o] # None
        /\ builder[o] # None => /\ weakBox[builder[o]] = o
                                /\ meta[o] # None
                                /\ weakMeta[builder[o]] = meta[o]

IInv == TypeOK /\ MetaInv /\ BoxInv /\ BuilderInv

-----------------------------------------------------------------------------
(* Counting the Weaks on a metadata block *)

LEMMA UsersFinite ==
    ASSUME NEW f, NEW m
    PROVE  /\ Cardinality(Users(f, m)) \in Nat
           /\ Cardinality(Users(f, m)) = 0 <=> Users(f, m) = {}
<1>1. IsFiniteSet(Users(f, m))
  BY FiniteAssumption, FS_Subset DEF Users
<1> QED BY <1>1, FS_CardinalityType, FS_EmptySet

LEMMA UsersGain ==
    ASSUME NEW f, NEW g, NEW w \in Weaks, NEW m,
           f[w] # m, g[w] = m, \A x \in Weaks \ {w} : g[x] = f[x]
    PROVE  Cardinality(Users(g, m)) = Cardinality(Users(f, m)) + 1
<1>1. IsFiniteSet(Users(f, m))
  BY FiniteAssumption, FS_Subset DEF Users
<1>2. Users(g, m) = Users(f, m) \cup {w} /\ w \notin Users(f, m)
  BY DEF Users
<1> QED BY <1>1, <1>2, FS_AddElement

LEMMA UsersLose ==
    ASSUME NEW f, NEW g, NEW w \in Weaks, NEW m,
           f[w] = m, g[w] # m, \A x \in Weaks \ {w} : g[x] = f[x]
    PROVE  Cardinality(Users(g, m)) = Cardinality(Users(f, m)) - 1
<1>1. IsFiniteSet(Users(f, m))
  BY FiniteAssumption, FS_Subset DEF Users
<1>2. Users(g, m) = Users(f, m) \ {w} /\ w \in Users(f, m)
  BY DEF Users
<1> QED BY <1>1, <1>2, FS_RemoveElement

LEMMA UsersKeep ==
    ASSUME NEW f, NEW g, NEW w \in Weaks, NEW m,
           f[w] # m, g[w] # m, \A x \in Weaks \ {w} : g[x] = f[x]
    PROVE  Users(g, m) = Users(f, m)
BY DEF Users

LEMMA Unattached ==
    ASSUME TypeOK, MetaInv, NEW w \in Weaks, ~Exists(w)
    PROVE  weakMeta[w] = None
BY NoneAssumption DEF TypeOK, MetaInv, AttachedToBox, Attached, Exists

-----------------------------------------------------------------------------
(* The helpers keep the invariant of the metadata. *)

LEMMA AttachInv ==
    ASSUME TypeOK, MetaInv, NEW o \in Objects, NEW m \in Metas, NEW w \in Weaks,
           ~Exists(w), AttachWeak(o, m, w)
    PROVE  MetaInv'
<1>1. weakMeta[w] = None
  BY Unattached
<1>2. /\ weakMeta'[w] = m /\ weakBox'[w] = o
      /\ \A x \in Weaks \ {w} : weakMeta'[x] = weakMeta[x] /\ weakBox'[x] = weakBox[x]
  BY DEF AttachWeak, TypeOK
<1>3. meta'[o] = m /\ \A p \in Objects \ {o} : meta'[p] = meta[p]
  BY DEF AttachWeak, TypeOK
<1>4. m # None /\ o # None
  BY NoneAssumption
<1>5. \A x \in Weaks : weakMeta[x] = m => weakBox[x] = o
  BY <1>4 DEF AttachWeak, MetaInv, MetadataLives, OwnBox, Attached
<1>6. \A p \in Objects : meta[p] = m => p = o
  BY <1>4 DEF AttachWeak, MetaInv, MetadataLives, OneBox
<1>7. m \in metaAlloc' /\ \A n \in Metas : n # m => (n \in metaAlloc' <=> n \in metaAlloc)
  BY <1>4 DEF AttachWeak, TypeOK, MetaInv, MetadataLives
<1>8. \A n \in Metas : meta[o] = n => n = m
  BY NoneAssumption DEF AttachWeak
<1>9. accessible'[m] /\ \A n \in Metas : n # m => accessible'[n] = accessible[n]
  BY <1>4 DEF AttachWeak, TypeOK, MetaInv, AccessibleExact, MetadataLives
<1>10. OneBox'
  BY <1>3, <1>6 DEF MetaInv, OneBox
<1>11. AccessibleExact'
  <2> SUFFICES ASSUME NEW n \in metaAlloc'
               PROVE  accessible'[n] <=> \E p \in Objects : meta'[p] = n
    BY DEF AccessibleExact
  <2>1. CASE n = m
    BY <2>1, <1>3, <1>9
  <2>2. CASE n # m
    <3>1. n \in metaAlloc /\ n \in Metas
      BY <2>2 DEF AttachWeak, TypeOK
    <3> QED BY <2>2, <3>1, <1>3, <1>8, <1>9 DEF MetaInv, AccessibleExact
  <2> QED BY <2>1, <2>2
<1>12. AttachedToBox'
  BY <1>2, <1>4 DEF MetaInv, AttachedToBox, Attached
<1>13. SameBox'
  BY <1>2, <1>5 DEF MetaInv, SameBox, Attached
<1>14. OwnBox'
  BY <1>2, <1>3, <1>5, <1>6 DEF MetaInv, OwnBox, Attached
<1>15. MetadataLives'
  <2> SUFFICES ASSUME NEW n \in Metas
               PROVE  n \in metaAlloc' <=> \/ \E p \in Objects : meta'[p] = n
                                           \/ \E x \in Weaks : weakMeta'[x] = n
    BY DEF MetadataLives
  <2>1. CASE n = m
    BY <2>1, <1>3, <1>7
  <2>2. CASE n # m
    <3>1. n # None
      BY NoneAssumption
    <3> QED BY <2>2, <3>1, <1>1, <1>2, <1>3, <1>7, <1>8 DEF MetaInv, MetadataLives
  <2> QED BY <2>1, <2>2
<1>16. WeakCountExact'
  <2> SUFFICES ASSUME NEW n \in metaAlloc'
               PROVE  weakCount'[n] = Cardinality(Users(weakMeta', n))
    BY DEF WeakCountExact, Users
  <2>1. CASE n = m
    <3>1. Cardinality(Users(weakMeta', m)) = Cardinality(Users(weakMeta, m)) + 1
      BY <1>1, <1>2, <1>4, UsersGain
    <3>2. CASE meta[o] = None
      <4>1. Users(weakMeta, m) = {}
        BY <3>2 DEF AttachWeak, MetaInv, MetadataLives, Users
      <4>2. Cardinality(Users(weakMeta, m)) = 0
        BY <4>1, UsersFinite
      <4>3. weakCount'[m] = 1
        BY <3>2 DEF AttachWeak, TypeOK
      <4> QED BY <2>1, <3>1, <4>2, <4>3
    <3>3. CASE meta[o] # None
      <4>1. m \in metaAlloc /\ weakCount'[m] = weakCount[m] + 1
        BY <3>3 DEF AttachWeak, TypeOK, MetaInv, MetadataLives
      <4> QED BY <2>1, <3>1, <4>1 DEF MetaInv, WeakCountExact, Users
    <3> QED BY <3>2, <3>3
  <2>2. CASE n # m
    <3>1. n \in Metas /\ n \in metaAlloc /\ n # None
      BY <2>2, NoneAssumption DEF AttachWeak, TypeOK
    <3>2. weakCount'[n] = weakCount[n]
      BY <2>2, <3>1 DEF AttachWeak, TypeOK
    <3>3. Users(weakMeta', n) = Users(weakMeta, n)
      BY <2>2, <3>1, <1>1, <1>2, UsersKeep
    <3> QED BY <3>1, <3>2, <3>3 DEF MetaInv, WeakCountExact, Users
  <2> QED BY <2>1, <2>2
<1> QED BY <1>10, <1>11, <1>12, <1>13, <1>14, <1>15, <1>16 DEF MetaInv

(* A Weak on the metadata m is dropped; m may lose its box in the same step.  *)
Released(w, m) ==
    /\ weakMeta[w] = m /\ weakMeta'[w] = None /\ weakBox'[w] = None
    /\ \A x \in Weaks \ {w} : weakMeta'[x] = weakMeta[x] /\ weakBox'[x] = weakBox[x]
    /\ weakCount'[m] = weakCount[m] - 1
    /\ m \in metaAlloc' <=> weakCount[m] # 1 \/ accessible'[m]
    /\ \A n \in Metas \ {m} : weakCount'[n] = weakCount[n] /\ accessible'[n] = accessible[n]
    /\ \A n \in Metas \ {m} : n \in metaAlloc' <=> n \in metaAlloc
    /\ \A p \in Objects : meta'[p] = meta[p] \/ (meta[p] = m /\ meta'[p] = None)
    /\ accessible'[m] <=> \E p \in Objects : meta'[p] = m

LEMMA ReleaseInv ==
    ASSUME TypeOK, TypeOK', MetaInv, NEW w \in Weaks, NEW m \in Metas, Released(w, m)
    PROVE  MetaInv'
<1>1. m # None /\ m \in metaAlloc
  BY NoneAssumption DEF MetaInv, MetadataLives, Released
<1>2. /\ weakMeta[w] = m /\ weakMeta'[w] # m
      /\ \A x \in Weaks \ {w} : weakMeta'[x] = weakMeta[x]
  BY <1>1 DEF Released
<1>3. Cardinality(Users(weakMeta', m)) = Cardinality(Users(weakMeta, m)) - 1
  BY <1>2, UsersLose
<1>4. weakCount[m] = Cardinality(Users(weakMeta, m))
  BY <1>1 DEF MetaInv, WeakCountExact, Users, Released
<1>5. weakCount[m] = 1 <=> \A x \in Weaks : weakMeta'[x] # m
  <2>1. Cardinality(Users(weakMeta', m)) = 0 <=> Users(weakMeta', m) = {}
    BY UsersFinite
  <2>2. Users(weakMeta', m) = {} <=> \A x \in Weaks : weakMeta'[x] # m
    BY DEF Users
  <2>3. weakCount[m] \in Nat
    BY DEF TypeOK
  <2> QED BY <1>3, <1>4, <2>1, <2>2, <2>3
<1>6. metaAlloc' \subseteq Metas
  BY DEF TypeOK
<1>7. OneBox'
  BY <1>1 DEF MetaInv, OneBox, Released
<1>8. AccessibleExact'
  BY <1>1, <1>6, NoneAssumption DEF MetaInv, AccessibleExact, Released
<1>9. AttachedToBox'
  BY NoneAssumption DEF MetaInv, AttachedToBox, Attached, Released
<1>10. SameBox'
  BY DEF MetaInv, SameBox, Attached, Released
<1>11. OwnBox'
  BY <1>1 DEF MetaInv, OwnBox, Attached, Released
<1>12. MetadataLives'
  <2> SUFFICES ASSUME NEW n \in Metas
               PROVE  n \in metaAlloc' <=> \/ \E p \in Objects : meta'[p] = n
                                           \/ \E x \in Weaks : weakMeta'[x] = n
    BY DEF MetadataLives
  <2>1. CASE n = m
    BY <2>1, <1>5 DEF Released
  <2>2. CASE n # m
    <3>1. n # None
      BY NoneAssumption
    <3> QED BY <2>2, <3>1 DEF MetaInv, MetadataLives, Released
  <2> QED BY <2>1, <2>2
<1>13. WeakCountExact'
  <2> SUFFICES ASSUME NEW n \in metaAlloc'
               PROVE  weakCount'[n] = Cardinality(Users(weakMeta', n))
    BY DEF WeakCountExact, Users
  <2>1. CASE n = m
    BY <2>1, <1>3, <1>4 DEF Released
  <2>2. CASE n # m
    <3>1. n \in Metas /\ n \in metaAlloc /\ n # None
      BY <2>2, <1>6, NoneAssumption DEF Released
    <3>2. weakMeta[w] # n /\ weakMeta'[w] # n
      BY <2>2, <3>1, NoneAssumption DEF Released
    <3>3. Users(weakMeta', n) = Users(weakMeta, n)
      BY <1>2, <3>2, UsersKeep
    <3> QED BY <2>2, <3>1, <3>3 DEF MetaInv, WeakCountExact, Users, Released
  <2> QED BY <2>1, <2>2
<1> QED BY <1>7, <1>8, <1>9, <1>10, <1>11, <1>12, <1>13 DEF MetaInv

LEMMA DropMetadataInv ==
    ASSUME TypeOK, MetaInv, NEW o \in Objects, DropMetadata(o), UNCHANGED weakVars
    PROVE  MetaInv'
<1>1. meta'[o] = None /\ \A p \in Objects \ {o} : meta'[p] = meta[p]
  BY DEF DropMetadata, TypeOK
<1>2. weakMeta' = weakMeta /\ weakBox' = weakBox /\ weakCount' = weakCount
  BY DEF DropMetadata, weakVars, metaVars
<1>3. OneBox' /\ AttachedToBox' /\ SameBox' /\ OwnBox'
  <2>1. OneBox'
    BY <1>1 DEF MetaInv, OneBox
  <2>2. AttachedToBox' /\ SameBox'
    BY <1>2 DEF MetaInv, AttachedToBox, SameBox, Attached
  <2>3. OwnBox'
    BY <1>1, <1>2 DEF MetaInv, OwnBox, Attached
  <2> QED BY <2>1, <2>2, <2>3
<1>4. CASE meta[o] = None
  <2>1. meta' = meta /\ metaAlloc' = metaAlloc /\ accessible' = accessible
    BY <1>4 DEF DropMetadata, metaVars, TypeOK
  <2> QED BY <1>2, <1>3, <2>1 DEF MetaInv, AccessibleExact, MetadataLives, WeakCountExact
<1>5. CASE meta[o] # None
  <2> DEFINE m == meta[o]
  <2>1. m \in Metas /\ m \in metaAlloc /\ \A p \in Objects : meta'[p] # m
    BY <1>1, <1>5 DEF TypeOK, MetaInv, MetadataLives, OneBox
  <2>2. /\ \A n \in Metas : n # m => (n \in metaAlloc' <=> n \in metaAlloc)
        /\ \A n \in Metas : n # m => accessible'[n] = accessible[n]
        /\ metaAlloc' \subseteq metaAlloc
    BY <1>5 DEF DropMetadata, TypeOK
  <2>3. m \in metaAlloc' => ~accessible'[m]
    BY <1>5, <2>1 DEF DropMetadata, TypeOK
  <2>4. m \in metaAlloc' <=> weakCount[m] # 0
    BY <1>5, <2>1 DEF DropMetadata
  <2>5. weakCount[m] # 0 <=> \E x \in Weaks : weakMeta[x] = m
    <3>1. weakCount[m] = Cardinality(Users(weakMeta, m))
      BY <2>1 DEF MetaInv, WeakCountExact, Users
    <3>2. Cardinality(Users(weakMeta, m)) = 0 <=> Users(weakMeta, m) = {}
      BY UsersFinite
    <3>3. Users(weakMeta, m) = {} <=> \A x \in Weaks : weakMeta[x] # m
      BY DEF Users
    <3> QED BY <3>1, <3>2, <3>3
  <2>6. AccessibleExact'
    <3> SUFFICES ASSUME NEW n \in metaAlloc'
                 PROVE  accessible'[n] <=> \E p \in Objects : meta'[p] = n
      BY DEF AccessibleExact
    <3>1. n \in Metas /\ n \in metaAlloc /\ n # None
      BY <2>2, NoneAssumption DEF TypeOK
    <3> QED BY <3>1, <1>1, <2>1, <2>2, <2>3 DEF MetaInv, AccessibleExact
  <2>7. MetadataLives'
    <3> SUFFICES ASSUME NEW n \in Metas
                 PROVE  n \in metaAlloc' <=> \/ \E p \in Objects : meta'[p] = n
                                             \/ \E x \in Weaks : weakMeta'[x] = n
      BY DEF MetadataLives
    <3>1. CASE n = m
      BY <3>1, <1>2, <2>1, <2>4, <2>5
    <3>2. CASE n # m
      <4>1. n # None
        BY NoneAssumption
      <4> QED BY <3>2, <4>1, <1>1, <1>2, <2>2 DEF MetaInv, MetadataLives
    <3> QED BY <3>1, <3>2
  <2>8. WeakCountExact'
    BY <1>2, <2>2 DEF MetaInv, WeakCountExact
  <2> QED BY <1>3, <2>6, <2>7, <2>8 DEF MetaInv
<1> QED BY <1>4, <1>5

LEMMA Counted ==
    ASSUME TypeOK, MetaInv, NEW w \in Weaks, Attached(w)
    PROVE  weakMeta[w] \in Metas /\ weakMeta[w] \in metaAlloc /\ weakCount[weakMeta[w]] > 0
<1> DEFINE m == weakMeta[w]
<1>1. m \in Metas /\ m \in metaAlloc
  BY DEF TypeOK, Attached, MetaInv, MetadataLives
<1>2. weakCount[m] = Cardinality(Users(weakMeta, m)) /\ weakCount[m] \in Nat
  BY <1>1 DEF MetaInv, WeakCountExact, Users, TypeOK
<1>3. Users(weakMeta, m) # {}
  BY DEF Users
<1>4. Cardinality(Users(weakMeta, m)) # 0
  BY <1>3, UsersFinite
<1> QED BY <1>1, <1>2, <1>4

LEMMA KeepMeta ==
    ASSUME MetaInv, UNCHANGED <<meta, metaVars, weakVars>>
    PROVE  MetaInv'
BY DEF metaVars, weakVars, MetaInv, OneBox, AccessibleExact, AttachedToBox, SameBox, OwnBox,
       MetadataLives, WeakCountExact, Attached

(* Weaks come and go, but not the one that is lent.                          *)
LEMMA KeepBuilder ==
    ASSUME TypeOK, BuilderInv, UNCHANGED builder,
           \A o \in Objects : box'[o] = "building" <=> box[o] = "building",
           \A o \in Objects : builder[o] # None => meta'[o] = meta[o],
           \A w \in Weaks : Lent(w) => weakMeta'[w] = weakMeta[w] /\ weakBox'[w] = weakBox[w]
    PROVE  BuilderInv'
BY DEF TypeOK, BuilderInv, Lent

-----------------------------------------------------------------------------
(* The steps *)

(* Steps that only move strong pointers, or begin or give up a drop.          *)
LEMMA StrongStep ==
    ASSUME IInv
    PROVE  /\ \A o \in Objects : New(o) => IInv'
           /\ \A o \in Objects : Store(o) => IInv'
           /\ \A o \in Objects : DropShared(o) => IInv'
           /\ \A o \in Objects : Take(o) => IInv'
           /\ \A o \in Objects : DropLast(o) => IInv'
           /\ \A o \in Objects : PanicDropLast(o) => IInv'
           /\ \A o \in Objects : DropInner(o) => IInv'
           /\ \A o \in Objects : DropListed(o) => IInv'
<1>1. \A o \in Objects : New(o) => IInv'
  <2> SUFFICES ASSUME NEW o \in Objects, New(o) PROVE IInv'
    OBVIOUS
  <2> USE DEF New, IInv, metaVars, weakVars, collectVars
  <2>1. TypeOK'
    BY LimitsAssumption DEF TypeOK, BoxInv, HeldIsLive, Counter, States
  <2>2. MetaInv'
    BY KeepMeta
  <2>3. BoxInv'
    BY LimitsAssumption DEF TypeOK, BoxInv, HeldIsLive, Counter
  <2>4. BuilderInv'
    BY KeepBuilder DEF TypeOK, BoxInv, HeldIsLive
  <2> QED BY <2>1, <2>2, <2>3, <2>4
<1>2. \A o \in Objects : Store(o) => IInv'
  <2> SUFFICES ASSUME NEW o \in Objects, Store(o) PROVE IInv'
    OBVIOUS
  <2> USE DEF Store, IInv, metaVars, weakVars, collectVars
  <2>1. TypeOK'
    BY LimitsAssumption DEF TypeOK, BoxInv, HeldIsLive, Counter, States
  <2>2. MetaInv'
    BY KeepMeta
  <2>3. BoxInv'
    BY LimitsAssumption DEF TypeOK, BoxInv, HeldIsLive, Counter
  <2>4. BuilderInv'
    BY KeepBuilder DEF TypeOK, BoxInv, HeldIsLive
  <2> QED BY <2>1, <2>2, <2>3, <2>4
<1>3. \A o \in Objects : DropShared(o) => IInv'
  <2> SUFFICES ASSUME NEW o \in Objects, DropShared(o) PROVE IInv'
    OBVIOUS
  <2> USE DEF DropShared, IInv, metaVars, weakVars, collectVars
  <2>1. TypeOK'
    BY LimitsAssumption DEF TypeOK, BoxInv, HeldIsLive, Counter, States
  <2>2. MetaInv'
    BY KeepMeta
  <2>3. BoxInv'
    BY LimitsAssumption DEF TypeOK, BoxInv, HeldIsLive, Counter
  <2>4. BuilderInv'
    BY KeepBuilder DEF TypeOK, BoxInv, HeldIsLive
  <2> QED BY <2>1, <2>2, <2>3, <2>4
<1>4. \A o \in Objects : Take(o) => IInv'
  <2> SUFFICES ASSUME NEW o \in Objects, Take(o) PROVE IInv'
    OBVIOUS
  <2> USE DEF Take, IInv, metaVars, weakVars, collectVars
  <2>1. TypeOK'
    BY LimitsAssumption DEF TypeOK, BoxInv, HeldIsLive, Counter, States
  <2>2. MetaInv'
    BY KeepMeta
  <2>3. BoxInv'
    BY LimitsAssumption DEF TypeOK, BoxInv, HeldIsLive, Counter
  <2>4. BuilderInv'
    BY KeepBuilder DEF TypeOK, BoxInv, HeldIsLive
  <2> QED BY <2>1, <2>2, <2>3, <2>4
<1>5. \A o \in Objects : DropLast(o) => IInv'
  <2> SUFFICES ASSUME NEW o \in Objects, DropLast(o) PROVE IInv'
    OBVIOUS
  <2> USE DEF DropLast, IInv, metaVars, weakVars, collectVars
  <2>1. TypeOK'
    BY LimitsAssumption DEF TypeOK, BoxInv, HeldIsLive, Counter, States
  <2>2. MetaInv'
    BY KeepMeta
  <2>3. BoxInv'
    BY LimitsAssumption DEF TypeOK, BoxInv, HeldIsLive, Counter
  <2>4. BuilderInv'
    BY KeepBuilder DEF TypeOK, BoxInv, HeldIsLive
  <2> QED BY <2>1, <2>2, <2>3, <2>4
<1>6. \A o \in Objects : PanicDropLast(o) => IInv'
  <2> SUFFICES ASSUME NEW o \in Objects, PanicDropLast(o) PROVE IInv'
    OBVIOUS
  <2> USE DEF PanicDropLast, IInv, metaVars, weakVars, collectVars
  <2>1. TypeOK'
    BY LimitsAssumption DEF TypeOK, BoxInv, HeldIsLive, Counter, States
  <2>2. MetaInv'
    BY KeepMeta
  <2>3. BoxInv'
    BY LimitsAssumption DEF TypeOK, BoxInv, HeldIsLive, Counter
  <2>4. BuilderInv'
    BY KeepBuilder DEF TypeOK, BoxInv, HeldIsLive
  <2> QED BY <2>1, <2>2, <2>3, <2>4
<1>7. \A o \in Objects : DropInner(o) => IInv'
  <2> SUFFICES ASSUME NEW o \in Objects, DropInner(o) PROVE IInv'
    OBVIOUS
  <2> USE DEF DropInner, IInv, metaVars, weakVars, collectVars
  <2>1. TypeOK'
    BY LimitsAssumption DEF TypeOK, BoxInv, HeldIsLive, Counter, States
  <2>2. MetaInv'
    BY KeepMeta
  <2>3. BoxInv'
    BY LimitsAssumption DEF TypeOK, BoxInv, HeldIsLive, Counter
  <2>4. BuilderInv'
    BY KeepBuilder DEF TypeOK, BoxInv, HeldIsLive
  <2> QED BY <2>1, <2>2, <2>3, <2>4
<1>8. \A o \in Objects : DropListed(o) => IInv'
  <2> SUFFICES ASSUME NEW o \in Objects, DropListed(o) PROVE IInv'
    OBVIOUS
  <2> USE DEF DropListed, IInv, metaVars, weakVars, collectVars
  <2>1. TypeOK'
    BY LimitsAssumption DEF TypeOK, BoxInv, HeldIsLive, Counter, States
  <2>2. MetaInv'
    BY KeepMeta
  <2>3. BoxInv'
    BY LimitsAssumption DEF TypeOK, BoxInv, HeldIsLive, Counter
  <2>4. BuilderInv'
    BY KeepBuilder DEF TypeOK, BoxInv, HeldIsLive
  <2> QED BY <2>1, <2>2, <2>3, <2>4
<1> QED BY <1>1, <1>2, <1>3, <1>4, <1>5, <1>6, <1>7, <1>8

(* The steps of deallocate_list that give nothing back.                       *)
LEMMA CollectStep ==
    ASSUME IInv
    PROVE  /\ \A S \in SUBSET Objects : DeallocateList(S) => IInv'
           /\ PanicDropInner => IInv'
           /\ StartFreeing => IInv'
<1>1. \A S \in SUBSET Objects : DeallocateList(S) => IInv'
  <2> SUFFICES ASSUME NEW S \in SUBSET Objects, DeallocateList(S) PROVE IInv'
    OBVIOUS
  <2> USE DEF DeallocateList, IInv, strongVars, metaVars, weakVars
  <2>1. TypeOK'
    BY LimitsAssumption DEF TypeOK, BoxInv, HeldIsLive, Counter, States
  <2>2. MetaInv'
    BY KeepMeta
  <2>3. BoxInv'
    BY LimitsAssumption DEF TypeOK, BoxInv, HeldIsLive, Counter
  <2>4. BuilderInv'
    BY KeepBuilder DEF TypeOK, BoxInv, HeldIsLive
  <2> QED BY <2>1, <2>2, <2>3, <2>4
<1>2. PanicDropInner => IInv'
  <2> SUFFICES ASSUME PanicDropInner PROVE IInv'
    OBVIOUS
  <2> USE DEF PanicDropInner, IInv, strongVars, metaVars, weakVars
  <2>1. TypeOK'
    BY LimitsAssumption DEF TypeOK, BoxInv, HeldIsLive, Counter, States
  <2>2. MetaInv'
    BY KeepMeta
  <2>3. BoxInv'
    BY LimitsAssumption DEF TypeOK, BoxInv, HeldIsLive, Counter
  <2>4. BuilderInv'
    BY KeepBuilder DEF TypeOK, BoxInv, HeldIsLive
  <2> QED BY <2>1, <2>2, <2>3, <2>4
<1>3. StartFreeing => IInv'
  <2> SUFFICES ASSUME StartFreeing PROVE IInv'
    OBVIOUS
  <2> USE DEF StartFreeing, IInv, strongVars, metaVars, weakVars
  <2>1. TypeOK'
    BY LimitsAssumption DEF TypeOK, BoxInv, HeldIsLive, Counter, States
  <2>2. MetaInv'
    BY KeepMeta
  <2>3. BoxInv'
    BY LimitsAssumption DEF TypeOK, BoxInv, HeldIsLive, Counter
  <2>4. BuilderInv'
    BY KeepBuilder DEF TypeOK, BoxInv, HeldIsLive
  <2> QED BY <2>1, <2>2, <2>3, <2>4
<1> QED BY <1>1, <1>2, <1>3

(* A Weak made by Weak::new, or dropped, is on no metadata block.             *)
LEMMA UnattachedInv ==
    ASSUME TypeOK, MetaInv, NEW w \in Weaks, weakMeta[w] = None, NEW b \in {None, Dangling},
           weakBox' = [weakBox EXCEPT ![w] = b], UNCHANGED <<meta, metaVars, weakMeta>>
    PROVE  MetaInv'
<1>1. weakBox'[w] \notin Objects /\ \A x \in Weaks \ {w} : weakBox'[x] = weakBox[x]
  BY NoneAssumption DEF TypeOK
<1>2. AttachedToBox'
  BY <1>1 DEF MetaInv, AttachedToBox, Attached
<1>3. SameBox' /\ OwnBox'
  BY <1>1 DEF MetaInv, SameBox, OwnBox, Attached
<1> QED BY <1>2, <1>3 DEF metaVars, MetaInv, OneBox, AccessibleExact, MetadataLives, WeakCountExact

LEMMA CloneInv ==
    ASSUME TypeOK, MetaInv, NEW w \in Weaks, NEW x \in Weaks, WeakClone(w, x)
    PROVE  MetaInv'
<1> DEFINE m == weakMeta[w]
<1>1. weakMeta[x] = None /\ w # x
  BY Unattached DEF WeakClone
<1>2. /\ weakMeta'[x] = m /\ weakBox'[x] = weakBox[w]
      /\ \A y \in Weaks \ {x} : weakMeta'[y] = weakMeta[y] /\ weakBox'[y] = weakBox[y]
      /\ meta' = meta /\ metaAlloc' = metaAlloc /\ accessible' = accessible
  BY DEF WeakClone, TypeOK, strongVars
<1>3. OneBox' /\ AccessibleExact'
  BY <1>2 DEF MetaInv, OneBox, AccessibleExact
<1>4. AttachedToBox'
  BY <1>2 DEF MetaInv, AttachedToBox, Attached
<1>5. SameBox'
  BY <1>2 DEF MetaInv, SameBox, Attached
<1>6. OwnBox'
  BY <1>2 DEF MetaInv, OwnBox, Attached
<1>7. MetadataLives'
  BY <1>1, <1>2, NoneAssumption DEF MetaInv, MetadataLives
<1>8. WeakCountExact'
  <2> SUFFICES ASSUME NEW n \in metaAlloc'
               PROVE  weakCount'[n] = Cardinality(Users(weakMeta', n))
    BY DEF WeakCountExact, Users
  <2>1. n \in Metas /\ n \in metaAlloc /\ n # None
    BY <1>2, NoneAssumption DEF TypeOK
  <2>2. weakCount'[n] = IF n = m THEN weakCount[n] + 1 ELSE weakCount[n]
    BY <2>1 DEF WeakClone
  <2>3. weakCount[n] = Cardinality(Users(weakMeta, n))
    BY <2>1 DEF MetaInv, WeakCountExact, Users
  <2>4. weakMeta[x] # n
    BY <1>1, <2>1
  <2>5. CASE n = m
    <3>1. weakMeta'[x] = n
      BY <1>2, <2>5
    <3>2. Cardinality(Users(weakMeta', n)) = Cardinality(Users(weakMeta, n)) + 1
      BY <1>2, <2>4, <3>1, UsersGain
    <3> QED BY <2>2, <2>3, <2>5, <3>2
  <2>6. CASE n # m
    <3>1. weakMeta'[x] # n
      BY <1>2, <2>6
    <3>2. Users(weakMeta', n) = Users(weakMeta, n)
      BY <1>2, <2>4, <3>1, UsersKeep
    <3> QED BY <2>2, <2>3, <2>6, <3>2
  <2> QED BY <2>5, <2>6
<1> QED BY <1>3, <1>4, <1>5, <1>6, <1>7, <1>8 DEF MetaInv

(* The accessible bit of a Weak is true exactly when its box is still the one *)
(* it was made for.                                                          *)
LEMMA TellsBox ==
    ASSUME TypeOK, MetaInv
    PROVE  AccessibleTellsBox
<1> SUFFICES ASSUME NEW w \in Weaks, Attached(w)
             PROVE  accessible[weakMeta[w]] <=> meta[weakBox[w]] = weakMeta[w]
  BY DEF AccessibleTellsBox
<1>1. weakMeta[w] \in metaAlloc /\ weakBox[w] \in Objects
  BY Counted DEF MetaInv, AttachedToBox
<1> QED BY <1>1 DEF MetaInv, AccessibleExact, OwnBox

LEMMA TellsPtr ==
    ASSUME TypeOK, MetaInv
    PROVE  PtrEqTellsBox
<1> SUFFICES ASSUME NEW w \in Weaks, NEW x \in Weaks, Exists(w), Exists(x)
             PROVE  /\ PtrEq(w, x) => weakBox[w] = weakBox[x] /\ (IsAccessible(w) <=> IsAccessible(x))
                    /\ weakBox[w] = weakBox[x] /\ IsAccessible(w) /\ IsAccessible(x) => PtrEq(w, x)
  BY DEF PtrEqTellsBox
<1>1. ASSUME PtrEq(w, x) PROVE weakBox[w] = weakBox[x]
  <2>1. CASE Attached(w)
    BY <1>1, <2>1 DEF PtrEq, MetaInv, SameBox
  <2>2. CASE ~Attached(w)
    <3>1. weakBox[w] = Dangling /\ weakBox[x] = Dangling
      BY <1>1, <2>2 DEF PtrEq, Attached, Exists, TypeOK, MetaInv, AttachedToBox
    <3> QED BY <3>1
  <2> QED BY <2>1, <2>2
<1>2. PtrEq(w, x) => (IsAccessible(w) <=> IsAccessible(x))
  BY DEF PtrEq, IsAccessible, Attached
<1>3. weakBox[w] = weakBox[x] /\ IsAccessible(w) /\ IsAccessible(x) => PtrEq(w, x)
  BY TellsBox DEF IsAccessible, PtrEq, AccessibleTellsBox
<1> QED BY <1>1, <1>2, <1>3

(* What upgrade makes a Cc of is live, and not about to be dropped.           *)
LEMMA UpgradeIsLive ==
    ASSUME IInv, UserRuns, NEW w \in Weaks, StrongCount(w) # 0
    PROVE  /\ weakBox[w] \in Objects
           /\ box[weakBox[w]] = "live" /\ weakBox[w] \notin list
<1> DEFINE o == weakBox[w]
<1>1. /\ Attached(w) /\ accessible[weakMeta[w]]
      /\ ~IsDropped(o) /\ ~(o \in list /\ phase = "dropping")
      /\ Counter(o) # 0
  BY DEF StrongCount, IsAccessible
<1>2. o \in Objects
  BY <1>1 DEF IInv, MetaInv, AttachedToBox
<1>3. meta[o] # None
  BY <1>1, TellsBox DEF IInv, AccessibleTellsBox, Attached
<1>4. box[o] # "free"
  BY <1>2, <1>3 DEF IInv, BoxInv
<1>5. box[o] = "live"
  BY <1>1, <1>2, <1>4 DEF IInv, TypeOK, BoxInv, HeldIsLive, Counter, IsDropped, States
<1>6. o \notin list
  BY <1>1 DEF UserRuns, IInv, BoxInv
<1> QED BY <1>2, <1>5, <1>6

(* The steps of Weak, and the closure of new_cyclic. *)
LEMMA AttachType ==
    ASSUME TypeOK, NEW o \in Objects, NEW m \in Metas, NEW w \in Weaks, AttachWeak(o, m, w)
    PROVE  /\ meta' \in [Objects -> Metas \cup {None}] /\ metaAlloc' \subseteq Metas
           /\ weakCount' \in [Metas -> 0..MaxWeak] /\ accessible' \in [Metas -> BOOLEAN]
           /\ weakMeta' \in [Weaks -> Metas \cup {None}]
           /\ weakBox' \in [Weaks -> Objects \cup {None, Dangling}]
<1>1. weakCount' \in [Metas -> 0..MaxWeak]
  <2>1. CASE meta[o] = None
    BY <2>1, LimitsAssumption DEF AttachWeak, TypeOK
  <2>2. CASE meta[o] # None
    BY <2>2, LimitsAssumption DEF AttachWeak, TypeOK
  <2> QED BY <2>1, <2>2
<1> QED BY <1>1 DEF AttachWeak, TypeOK

LEMMA ReleaseType ==
    ASSUME TypeOK, MetaInv, NEW w \in Weaks, Attached(w),
           ReleaseWeak(w, TRUE) \/ ReleaseWeak(w, FALSE) \/ ReleaseWeak(w, accessible[weakMeta[w]])
    PROVE  /\ metaAlloc' \subseteq Metas /\ weakCount' \in [Metas -> 0..MaxWeak]
           /\ weakMeta' \in [Weaks -> Metas \cup {None}]
           /\ weakBox' \in [Weaks -> Objects \cup {None, Dangling}]
<1>1. weakMeta[w] \in Metas /\ weakCount[weakMeta[w]] > 0
  BY Counted
<1> QED BY <1>1, LimitsAssumption DEF ReleaseWeak, TypeOK

(* While a Weak is lent it exists and is on the metadata of the box.          *)
LEMMA LentIsBuilt ==
    ASSUME IInv, NEW o \in Objects, box[o] = "building"
    PROVE  /\ builder[o] \in Weaks /\ Attached(builder[o])
           /\ weakMeta[builder[o]] = meta[o] /\ weakBox[builder[o]] = o
           /\ meta[o] \in Metas /\ accessible[meta[o]]
           /\ \A p \in Objects \ {o} : meta[p] # meta[o]
<1>1. /\ builder[o] \in Weaks /\ meta[o] # None /\ meta[o] \in Metas
      /\ weakMeta[builder[o]] = meta[o] /\ weakBox[builder[o]] = o
  BY DEF IInv, TypeOK, BuilderInv
<1>2. meta[o] \in metaAlloc
  BY <1>1 DEF IInv, MetaInv, MetadataLives
<1> QED BY <1>1, <1>2 DEF IInv, MetaInv, AccessibleExact, OneBox, Attached

LEMMA WeakStep ==
    ASSUME IInv
    PROVE  /\ \A o \in Objects, m \in Metas, w \in Weaks : Downgrade(o, m, w) => IInv'
           /\ \A w \in Weaks : WeakNew(w) => IInv'
           /\ \A w, x \in Weaks : WeakClone(w, x) => IInv'
           /\ \A w \in Weaks : WeakDrop(w) => IInv'
           /\ \A w \in Weaks : Upgrade(w) => IInv'
<1>1. \A o \in Objects, m \in Metas, w \in Weaks : Downgrade(o, m, w) => IInv'
  <2> SUFFICES ASSUME NEW o \in Objects, NEW m \in Metas, NEW w \in Weaks, Downgrade(o, m, w)
               PROVE  IInv'
    OBVIOUS
  <2> USE DEF Downgrade, IInv, collectVars
  <2>1. TypeOK'
    BY AttachType DEF TypeOK
  <2>2. MetaInv'
    BY AttachInv
  <2>3. \A p \in Objects : p # o => meta'[p] = meta[p]
    BY DEF AttachWeak, TypeOK
  <2>4. BoxInv'
    BY <2>3 DEF BoxInv, HeldIsLive, Counter
  <2>5. \A x \in Weaks \ {w} : weakMeta'[x] = weakMeta[x] /\ weakBox'[x] = weakBox[x]
    BY DEF AttachWeak, TypeOK
  <2>6. BuilderInv'
    <3>1. ~Lent(w)
      BY NoneAssumption DEF Lent, Exists, BuilderInv, TypeOK
    <3>2. \A p \in Objects : builder[p] # None => meta'[p] = meta[p]
      BY <2>3 DEF BuilderInv, BoxInv, HeldIsLive
    <3> QED BY <2>5, <3>1, <3>2, KeepBuilder
  <2> QED BY <2>1, <2>2, <2>4, <2>6
<1>2. \A w \in Weaks : WeakNew(w) => IInv'
  <2> SUFFICES ASSUME NEW w \in Weaks, WeakNew(w) PROVE IInv'
    OBVIOUS
  <2> USE DEF WeakNew, IInv, strongVars, metaVars, collectVars
  <2>1. TypeOK'
    BY DEF TypeOK
  <2>2. MetaInv'
    BY Unattached, UnattachedInv
  <2>3. BoxInv'
    BY DEF BoxInv, HeldIsLive, Counter
  <2>4. BuilderInv'
    <3>1. ~Lent(w)
      BY NoneAssumption DEF Lent, Exists, BuilderInv, TypeOK
    <3> QED BY <3>1, KeepBuilder DEF TypeOK
  <2> QED BY <2>1, <2>2, <2>3, <2>4
<1>3. \A w, x \in Weaks : WeakClone(w, x) => IInv'
  <2> SUFFICES ASSUME NEW w \in Weaks, NEW x \in Weaks, WeakClone(w, x) PROVE IInv'
    OBVIOUS
  <2> USE DEF IInv, strongVars, collectVars
  <2>1. TypeOK'
    <3>1. weakCount' \in [Metas -> 0..MaxWeak]
      BY LimitsAssumption, NoneAssumption DEF WeakClone, Attached, TypeOK
    <3> QED BY <3>1 DEF WeakClone, TypeOK
  <2>2. MetaInv'
    BY CloneInv
  <2>3. BoxInv'
    BY DEF WeakClone, BoxInv, HeldIsLive, Counter
  <2>4. BuilderInv'
    <3>1. ~Lent(x)
      BY NoneAssumption DEF WeakClone, Lent, Exists, BuilderInv, TypeOK
    <3> QED BY <3>1, KeepBuilder DEF WeakClone, TypeOK
  <2> QED BY <2>1, <2>2, <2>3, <2>4
<1>4. \A w \in Weaks : WeakDrop(w) => IInv'
  <2> SUFFICES ASSUME NEW w \in Weaks, WeakDrop(w) PROVE IInv'
    OBVIOUS
  <2> USE DEF WeakDrop, IInv, strongVars, collectVars
  <2>1. BoxInv'
    BY DEF BoxInv, HeldIsLive, Counter
  <2>2. \A x \in Weaks \ {w} : weakMeta'[x] = weakMeta[x] /\ weakBox'[x] = weakBox[x]
    BY DEF ReleaseWeak, TypeOK
  <2>3. BuilderInv'
    BY <2>2, KeepBuilder
  <2>4. CASE Attached(w)
    <3> DEFINE m == weakMeta[w]
    <3>1. m \in Metas /\ m \in metaAlloc
      BY <2>4, Counted
    <3>2. TypeOK'
      BY <2>4, ReleaseType DEF TypeOK
    <3>3. accessible'[m] <=> \E p \in Objects : meta'[p] = m
      BY <3>1 DEF MetaInv, AccessibleExact
    <3>4. Released(w, m)
      <4>1. weakMeta'[w] = None /\ weakBox'[w] = None /\ weakCount'[m] = weakCount[m] - 1
        BY <2>4, <3>1 DEF ReleaseWeak, TypeOK
      <4>2. \A n \in Metas \ {m} : weakCount'[n] = weakCount[n] /\ accessible'[n] = accessible[n]
        BY <2>4 DEF ReleaseWeak, TypeOK
      <4>3. \A n \in Metas \ {m} : n \in metaAlloc' <=> n \in metaAlloc
        BY <2>4 DEF ReleaseWeak
      <4>4. m \in metaAlloc' <=> weakCount[m] # 1 \/ accessible'[m]
        BY <2>4, <3>1 DEF ReleaseWeak
      <4>5. meta' = meta
        OBVIOUS
      <4> HIDE DEF WeakDrop
      <4> QED BY <2>2, <3>3, <4>1, <4>2, <4>3, <4>4, <4>5 DEF Released
    <3>5. MetaInv'
      BY <3>1, <3>2, <3>4, ReleaseInv
    <3> QED BY <2>1, <2>3, <3>2, <3>5
  <2>5. CASE ~Attached(w)
    <3>1. TypeOK'
      BY <2>5 DEF TypeOK
    <3>2. MetaInv'
      BY <2>5, UnattachedInv DEF metaVars, Attached
    <3> QED BY <2>1, <2>3, <3>1, <3>2
  <2> QED BY <2>4, <2>5
<1>5. \A w \in Weaks : Upgrade(w) => IInv'
  <2> SUFFICES ASSUME NEW w \in Weaks, Upgrade(w) PROVE IInv'
    OBVIOUS
  <2> USE DEF Upgrade, IInv, metaVars, weakVars, collectVars
  <2> DEFINE o == weakBox[w]
  <2>1. o \in Objects /\ box[o] = "live" /\ o \notin list
    BY UpgradeIsLive
  <2>2. TypeOK'
    BY <2>1, LimitsAssumption DEF TypeOK, Counter
  <2>3. MetaInv'
    BY KeepMeta
  <2>4. BoxInv'
    BY <2>1, LimitsAssumption DEF TypeOK, BoxInv, HeldIsLive, Counter
  <2>5. BuilderInv'
    BY KeepBuilder
  <2> QED BY <2>2, <2>3, <2>4, <2>5
<1> QED BY <1>1, <1>2, <1>3, <1>4, <1>5

(* The steps that give a box back. *)
LEMMA DropMetadataType ==
    ASSUME TypeOK, NEW o \in Objects, DropMetadata(o)
    PROVE  /\ meta' \in [Objects -> Metas \cup {None}] /\ metaAlloc' \subseteq Metas
           /\ weakCount' \in [Metas -> 0..MaxWeak] /\ accessible' \in [Metas -> BOOLEAN]
BY DEF DropMetadata, metaVars, TypeOK

LEMMA FreeStep ==
    ASSUME IInv
    PROVE  /\ \A o \in Objects : EndDropLast(o) => IInv'
           /\ \A o \in Objects : TryUnwrap(o) => IInv'
           /\ \A o \in Objects : FreeListed(o) => IInv'
<1>1. \A o \in Objects : EndDropLast(o) => IInv'
  <2> SUFFICES ASSUME NEW o \in Objects, EndDropLast(o) PROVE IInv'
    OBVIOUS
  <2> USE DEF EndDropLast, IInv, weakVars, collectVars
  <2>1. TypeOK'
    BY DropMetadataType, LimitsAssumption DEF TypeOK, States
  <2>2. MetaInv'
    BY DropMetadataInv
  <2>3. meta' = [meta EXCEPT ![o] = None]
    BY DEF DropMetadata
  <2>4. BoxInv'
    BY <2>3, LimitsAssumption DEF TypeOK, BoxInv, HeldIsLive, Counter
  <2>5. BuilderInv'
    <3>1. builder[o] = None
      BY DEF BuilderInv, BoxInv, HeldIsLive
    <3> QED BY <2>3, <3>1, KeepBuilder DEF TypeOK, BoxInv, HeldIsLive
  <2> QED BY <2>1, <2>2, <2>4, <2>5
<1>2. \A o \in Objects : TryUnwrap(o) => IInv'
  <2> SUFFICES ASSUME NEW o \in Objects, TryUnwrap(o) PROVE IInv'
    OBVIOUS
  <2> USE DEF TryUnwrap, IInv, weakVars, collectVars
  <2>1. TypeOK'
    BY DropMetadataType, LimitsAssumption DEF TypeOK, States
  <2>2. MetaInv'
    BY DropMetadataInv
  <2>3. meta' = [meta EXCEPT ![o] = None]
    BY DEF DropMetadata
  <2>4. BoxInv'
    BY <2>3, LimitsAssumption DEF TypeOK, BoxInv, HeldIsLive, Counter
  <2>5. BuilderInv'
    <3>1. builder[o] = None
      BY DEF BuilderInv, BoxInv, HeldIsLive
    <3> QED BY <2>3, <3>1, KeepBuilder DEF TypeOK, BoxInv, HeldIsLive
  <2> QED BY <2>1, <2>2, <2>4, <2>5
<1>3. \A o \in Objects : FreeListed(o) => IInv'
  <2> SUFFICES ASSUME NEW o \in Objects, FreeListed(o) PROVE IInv'
    OBVIOUS
  <2> USE DEF FreeListed, IInv, weakVars, collectVars
  <2>1. TypeOK'
    BY DropMetadataType, LimitsAssumption DEF TypeOK, States
  <2>2. MetaInv'
    BY DropMetadataInv
  <2>3. meta' = [meta EXCEPT ![o] = None]
    BY DEF DropMetadata
  <2>4. BoxInv'
    BY <2>3, LimitsAssumption DEF TypeOK, BoxInv, HeldIsLive, Counter
  <2>5. BuilderInv'
    <3>1. builder[o] = None
      BY DEF BuilderInv, BoxInv, HeldIsLive
    <3> QED BY <2>3, <3>1, KeepBuilder DEF TypeOK, BoxInv, HeldIsLive
  <2> QED BY <2>1, <2>2, <2>4, <2>5
<1> QED BY <1>1, <1>2, <1>3

(* The steps of new_cyclic. *)
LEMMA CyclicStep ==
    ASSUME IInv
    PROVE  /\ \A o \in Objects, m \in Metas, w \in Weaks : NewCyclic(o, m, w) => IInv'
           /\ \A o \in Objects : EndNewCyclic(o) => IInv'
           /\ \A o \in Objects : PanicNewCyclic(o) => IInv'
<1>1. \A o \in Objects, m \in Metas, w \in Weaks : NewCyclic(o, m, w) => IInv'
  <2> SUFFICES ASSUME NEW o \in Objects, NEW m \in Metas, NEW w \in Weaks, NewCyclic(o, m, w)
               PROVE  IInv'
    OBVIOUS
  <2> USE DEF NewCyclic, IInv, collectVars
  <2>1. TypeOK'
    BY AttachType DEF TypeOK, States
  <2>2. MetaInv'
    BY AttachInv
  <2>3. meta' = [meta EXCEPT ![o] = m]
    BY DEF AttachWeak
  <2>4. BoxInv'
    BY <2>3 DEF TypeOK, BoxInv, HeldIsLive, Counter
  <2>5. BuilderInv'
    <3>1. \A p \in Objects : builder[p] # w
      BY NoneAssumption DEF Exists, BuilderInv, TypeOK
    <3>2. /\ weakMeta'[w] = m /\ weakBox'[w] = o
          /\ \A x \in Weaks \ {w} : weakMeta'[x] = weakMeta[x] /\ weakBox'[x] = weakBox[x]
      BY DEF AttachWeak, TypeOK
    <3>3. m # None /\ w # None
      BY NoneAssumption
    <3> SUFFICES ASSUME NEW p \in Objects
                 PROVE  /\ box'[p] = "building" <=> builder'[p] # None
                        /\ builder'[p] # None => /\ weakBox'[builder'[p]] = p
                                                 /\ meta'[p] # None
                                                 /\ weakMeta'[builder'[p]] = meta'[p]
      BY DEF BuilderInv
    <3>4. CASE p = o
      BY <3>4, <2>3, <3>2, <3>3 DEF TypeOK
    <3>5. CASE p # o
      BY <3>5, <2>3, <3>1, <3>2 DEF TypeOK, BuilderInv
    <3> QED BY <3>4, <3>5
  <2> QED BY <2>1, <2>2, <2>4, <2>5
<1>2. \A o \in Objects : EndNewCyclic(o) => IInv'
  <2> SUFFICES ASSUME NEW o \in Objects, EndNewCyclic(o) PROVE IInv'
    OBVIOUS
  <2> USE DEF EndNewCyclic, IInv, collectVars
  <2> DEFINE w == builder[o]
             m == meta[o]
  <2>1. /\ w \in Weaks /\ Attached(w) /\ weakMeta[w] = m /\ weakBox[w] = o
        /\ m \in Metas /\ accessible[m] /\ \A p \in Objects \ {o} : meta[p] # m
    BY LentIsBuilt
  <2>2. TypeOK'
    <3>1. /\ metaAlloc' \subseteq Metas /\ weakCount' \in [Metas -> 0..MaxWeak]
          /\ weakMeta' \in [Weaks -> Metas \cup {None}]
          /\ weakBox' \in [Weaks -> Objects \cup {None, Dangling}]
      BY <2>1, ReleaseType
    <3> QED BY <3>1, LimitsAssumption DEF TypeOK, States
  <2>3. /\ weakMeta'[w] = None /\ weakBox'[w] = None
        /\ \A x \in Weaks \ {w} : weakMeta'[x] = weakMeta[x] /\ weakBox'[x] = weakBox[x]
    BY <2>1 DEF ReleaseWeak, TypeOK
  <2>4. meta' = meta /\ accessible' = accessible
    BY <2>1 DEF TypeOK
  <2>5. \A p \in Objects \ {o} : meta'[p] = meta[p]
    BY DEF TypeOK
  <2>6. Released(w, m)
    <3>1. weakCount'[m] = weakCount[m] - 1
      BY <2>1 DEF ReleaseWeak, TypeOK
    <3>2. \A n \in Metas \ {m} : weakCount'[n] = weakCount[n] /\ accessible'[n] = accessible[n]
      BY <2>1 DEF ReleaseWeak, TypeOK
    <3>3. \A n \in Metas \ {m} : n \in metaAlloc' <=> n \in metaAlloc
      BY <2>1 DEF ReleaseWeak
    <3>4. m \in metaAlloc
      BY <2>1, Counted
    <3>5. m \in metaAlloc' <=> weakCount[m] # 1 \/ accessible'[m]
      BY <2>1, <2>4, <3>4 DEF ReleaseWeak
    <3>6. accessible'[m] <=> \E p \in Objects : meta'[p] = m
      BY <2>1, <2>4, <2>5, NoneAssumption
    <3> HIDE DEF EndNewCyclic
    <3> QED BY <2>1, <2>3, <2>4, <2>5, <3>1, <3>2, <3>3, <3>5, <3>6 DEF Released
  <2>7. MetaInv'
    BY <2>1, <2>2, <2>6, ReleaseInv
  <2>8. BoxInv'
    BY <2>5, LimitsAssumption DEF TypeOK, BoxInv, HeldIsLive, Counter
  <2>9. BuilderInv'
    <3>1. \A p \in Objects \ {o} : builder[p] # None => builder[p] \in Weaks \ {w}
      BY <2>1 DEF TypeOK, BuilderInv
    <3>2. box'[o] = "live" /\ builder'[o] = None
      BY DEF TypeOK
    <3>3. \A p \in Objects \ {o} : box'[p] = box[p] /\ builder'[p] = builder[p]
      BY DEF TypeOK
    <3> HIDE DEF EndNewCyclic
    <3> QED BY <2>3, <2>5, <3>1, <3>2, <3>3 DEF BuilderInv
  <2> QED BY <2>2, <2>7, <2>8, <2>9
<1>3. \A o \in Objects : PanicNewCyclic(o) => IInv'
  <2> SUFFICES ASSUME NEW o \in Objects, PanicNewCyclic(o) PROVE IInv'
    OBVIOUS
  <2> USE DEF PanicNewCyclic, IInv, collectVars
  <2> DEFINE w == builder[o]
             m == meta[o]
  <2>1. /\ w \in Weaks /\ Attached(w) /\ weakMeta[w] = m /\ weakBox[w] = o
        /\ m \in Metas /\ accessible[m] /\ \A p \in Objects \ {o} : meta[p] # m
    BY LentIsBuilt
  <2>2. TypeOK'
    <3>1. /\ metaAlloc' \subseteq Metas /\ weakCount' \in [Metas -> 0..MaxWeak]
          /\ weakMeta' \in [Weaks -> Metas \cup {None}]
          /\ weakBox' \in [Weaks -> Objects \cup {None, Dangling}]
      BY <2>1, ReleaseType
    <3> QED BY <3>1, LimitsAssumption DEF TypeOK, States
  <2>3. /\ weakMeta'[w] = None /\ weakBox'[w] = None
        /\ \A x \in Weaks \ {w} : weakMeta'[x] = weakMeta[x] /\ weakBox'[x] = weakBox[x]
    BY <2>1 DEF ReleaseWeak, TypeOK
  <2>4. meta'[o] = None /\ accessible'[m] = FALSE
    BY <2>1 DEF TypeOK
  <2>5. \A p \in Objects \ {o} : meta'[p] = meta[p]
    BY DEF TypeOK
  <2>6. Released(w, m)
    <3>1. weakCount'[m] = weakCount[m] - 1
      BY <2>1 DEF ReleaseWeak, TypeOK
    <3>2. \A n \in Metas \ {m} : weakCount'[n] = weakCount[n] /\ accessible'[n] = accessible[n]
      BY <2>1 DEF ReleaseWeak, TypeOK
    <3>3. \A n \in Metas \ {m} : n \in metaAlloc' <=> n \in metaAlloc
      BY <2>1 DEF ReleaseWeak
    <3>4. m \in metaAlloc
      BY <2>1, Counted
    <3>5. m \in metaAlloc' <=> weakCount[m] # 1 \/ accessible'[m]
      BY <2>1, <2>4, <3>4 DEF ReleaseWeak
    <3>6. accessible'[m] <=> \E p \in Objects : meta'[p] = m
      BY <2>1, <2>4, <2>5, NoneAssumption
    <3> HIDE DEF PanicNewCyclic
    <3> QED BY <2>1, <2>3, <2>4, <2>5, <3>1, <3>2, <3>3, <3>5, <3>6 DEF Released
  <2>7. MetaInv'
    BY <2>1, <2>2, <2>6, ReleaseInv
  <2>8. BoxInv'
    BY <2>5, LimitsAssumption DEF TypeOK, BoxInv, HeldIsLive, Counter
  <2>9. BuilderInv'
    <3>1. \A p \in Objects \ {o} : builder[p] # None => builder[p] \in Weaks \ {w}
      BY <2>1 DEF TypeOK, BuilderInv
    <3>2. box'[o] = "free" /\ builder'[o] = None
      BY DEF TypeOK
    <3>3. \A p \in Objects \ {o} : box'[p] = box[p] /\ builder'[p] = builder[p]
      BY DEF TypeOK
    <3> HIDE DEF PanicNewCyclic
    <3> QED BY <2>3, <2>5, <3>1, <3>2, <3>3 DEF BuilderInv
  <2> QED BY <2>2, <2>7, <2>8, <2>9
<1> QED BY <1>1, <1>2, <1>3

-----------------------------------------------------------------------------
(* The theorems *)

LEMMA InitInv == Init => IInv
<1> SUFFICES ASSUME Init PROVE IInv
  OBVIOUS
<1>1. TypeOK
  BY LimitsAssumption DEF Init, TypeOK, States
<1>2. OneBox /\ AccessibleExact /\ SameBox /\ OwnBox /\ WeakCountExact
  BY DEF Init, OneBox, AccessibleExact, SameBox, OwnBox, WeakCountExact, Attached
<1>3. AttachedToBox /\ MetadataLives
  BY NoneAssumption DEF Init, AttachedToBox, MetadataLives, Attached
<1>4. BoxInv /\ BuilderInv
  BY LimitsAssumption DEF Init, BoxInv, BuilderInv, HeldIsLive, Counter
<1> QED BY <1>1, <1>2, <1>3, <1>4 DEF IInv, MetaInv

LEMMA StepInv == IInv /\ [Next]_vars => IInv'
<1> SUFFICES ASSUME IInv, [Next]_vars PROVE IInv'
  OBVIOUS
<1>1. CASE UNCHANGED vars
  <2>1. MetaInv'
    BY <1>1, KeepMeta DEF IInv, vars, strongVars
  <2>2. TypeOK' /\ BoxInv' /\ BuilderInv'
    BY <1>1 DEF IInv, vars, strongVars, metaVars, weakVars, collectVars, TypeOK, BoxInv, BuilderInv,
                HeldIsLive, Counter
  <2> QED BY <2>1, <2>2 DEF IInv
<1>2. CASE Next
  BY <1>2, StrongStep, CollectStep, WeakStep, FreeStep, CyclicStep DEF Next
<1> QED BY <1>1, <1>2

THEOREM Inductive == Spec => []IInv
BY InitInv, StepInv, PTL DEF Spec

(* The pointers and counters of every reachable state have their types: in     *)
(* particular no counter is ever out of its range.                            *)
THEOREM WeakTypes == Spec => []TypeOK
<1>1. IInv => TypeOK
  BY DEF IInv
<1> QED BY <1>1, Inductive, PTL

(* A metadata block is neither leaked nor used after it was given back         *)
(* (drop_metadata, Drop for Weak, PanicGuard of new_cyclic).                  *)
THEOREM MetadataSafe == Spec => []MetadataLives
<1>1. IInv => MetadataLives
  BY DEF IInv, MetaInv
<1> QED BY <1>1, Inductive, PTL

(* The weak counter is the number of Weaks, so that the last one to go is known *)
(* (get_or_init_metadata, Clone and Drop for Weak).                           *)
THEOREM WeakCounts == Spec => []WeakCountExact
<1>1. IInv => WeakCountExact
  BY DEF IInv, MetaInv
<1> QED BY <1>1, Inductive, PTL

(* The accessible bit tells a Weak whether the box it was made for is still    *)
(* there, however the memory of the box was used again.                       *)
THEOREM AccessibleSafe == Spec => []AccessibleTellsBox
<1>1. IInv => AccessibleTellsBox
  BY TellsBox DEF IInv
<1> QED BY <1>1, Inductive, PTL

(* Weak::ptr_eq tells boxes apart that were in the same memory one after the  *)
(* other, because it compares metadata.                                      *)
THEOREM PtrEqSafe == Spec => []PtrEqTellsBox
<1>1. IInv => PtrEqTellsBox
  BY TellsPtr DEF IInv
<1> QED BY <1>1, Inductive, PTL

(* The program never holds a Cc to a value that is dropped, about to be       *)
(* dropped or not yet built, whichever Weak it upgraded (Weak::upgrade).      *)
THEOREM UpgradeSafe == Spec => []HeldIsLive
<1>1. IInv => HeldIsLive
  BY DEF IInv, BoxInv
<1> QED BY <1>1, Inductive, PTL
==============================================================================
