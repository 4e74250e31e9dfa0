--------------------------- MODULE BpfHash_proofs ---------------------------
(***************************************************************************)
(* Facts that the proofs about programs cite: what the calls of BpfHash    *)
(* preserve, and how the sum of what a map's elements hold changes when    *)
(* one of them does.                                                       *)
(***************************************************************************)
EXTENDS BpfHash, Functions, FiniteSetTheorems, WellFoundedInduction, TLAPS

(* update_elem and delete_elem keep the map well typed.                    *)
LEMMA UpdateType ==
    ASSUME NEW Value, NEW c \in CPUs, NEW k \in Keys, NEW v \in Value,
           HashTypeOK(Value), Update(c, k, v)
    PROVE  HashTypeOK(Value)'
BY DEF HashTypeOK, Update, Replace, Link, Refuse, hashVars, Elems

LEMMA DeleteType ==
    ASSUME NEW Value, NEW k \in Keys, HashTypeOK(Value), Delete(k)
    PROVE  HashTypeOK(Value)'
BY DEF HashTypeOK, Delete, Elems

(* An element has one owner, through every update_elem and delete_elem.    *)
LEMMA UpdateOneOwner ==
    ASSUME NEW Value, NEW c \in CPUs, NEW k \in Keys, NEW v,
           HashTypeOK(Value), OneOwner, Update(c, k, v)
    PROVE  OneOwner'
<1> USE DEF HashTypeOK, Elems
<1>1. CASE Replace(c, k, v)
  BY <1>1 DEF Replace, OneOwner
<1>2. CASE Link(k, v)
  BY <1>2 DEF Link, OneOwner
<1>3. CASE Refuse(k)
  BY <1>3 DEF Refuse, OneOwner, hashVars
<1> QED
  BY <1>1, <1>2, <1>3 DEF Update

LEMMA DeleteOneOwner ==
    ASSUME NEW Value, NEW k \in Keys, HashTypeOK(Value), OneOwner, Delete(k)
    PROVE  OneOwner'
BY HashAssumption DEF HashTypeOK, Elems, Delete, OneOwner

(* What update_elem leaves alone: the entries and values of other keys,    *)
(* and it takes elements from the free list but gives none back.           *)
LEMMA UpdateFrame ==
    ASSUME NEW Value, NEW c \in CPUs, NEW k \in Keys, NEW v,
           HashTypeOK(Value), OneOwner, Update(c, k, v)
    PROVE  /\ \A j \in Keys \ {k} : /\ entry'[j] = entry[j]
                                    /\ entry[j] # NoElem => value'[entry[j]] = value[entry[j]]
           /\ free' \subseteq free
<1> USE DEF HashTypeOK, Elems, OneOwner
<1>1. CASE Replace(c, k, v)
  BY <1>1 DEF Replace
<1>2. CASE Link(k, v)
  BY <1>2 DEF Link
<1>3. CASE Refuse(k)
  BY <1>3 DEF Refuse, hashVars
<1> QED
  BY <1>1, <1>2, <1>3 DEF Update
-----------------------------------------------------------------------------
(* Sums over the keys of a map, or over the CPUs.  SumFunctionOnSet is     *)
(* recursive; an induction over it is one over the set of the subsets for  *)
(* which the fact holds, which needs no operator as a parameter.           *)
Less == {p \in Nat \X Nat : p[1] < p[2]}

(* Induction over a set of naturals. *)
LEMMA NatSetInduction ==
    ASSUME NEW T, 0 \in T, \A n \in Nat : n \in T => n + 1 \in T
    PROVE  Nat \subseteq T
<1> DEFINE U == Nat \ T
<1> SUFFICES ASSUME U # {} PROVE FALSE
  OBVIOUS
<1>1. IsWellFoundedOn(Less, Nat)
  <2>1. OpToRel(<, Nat) = Less
    BY DEF OpToRel, Less
  <2> QED
    BY <2>1, NatLessThanWellFounded
<1>2. PICK n \in U : \A m \in U : ~ (<<m, n>> \in Less)
  BY <1>1, WFMin
<1>3. n # 0 /\ n - 1 \in Nat /\ (n - 1) + 1 = n
  OBVIOUS
<1>4. <<n - 1, n>> \in Less
  BY <1>3 DEF Less
<1> QED
  BY <1>2, <1>3, <1>4

Pick(s) == CHOOSE x \in s : TRUE

(* Over the subsets of a finite set, taking the chosen element away. *)
LEMMA SubsetInduction ==
    ASSUME NEW S, IsFiniteSet(S), NEW T, {} \in T,
           \A s \in SUBSET S : s # {} /\ s \ {Pick(s)} \in T => s \in T
    PROVE  SUBSET S \subseteq T
<1> DEFINE U == {n \in Nat : \A s \in SUBSET S : Cardinality(s) = n => s \in T}
<1>1. \A s \in SUBSET S : IsFiniteSet(s) /\ Cardinality(s) \in Nat
  BY FS_Subset, FS_CardinalityType
<1>2. 0 \in U
  BY <1>1, FS_EmptySet
<1>3. ASSUME NEW n \in Nat, n \in U PROVE n + 1 \in U
  <2> SUFFICES ASSUME NEW s \in SUBSET S, Cardinality(s) = n + 1 PROVE s \in T
    OBVIOUS
  <2>1. s # {}
    BY FS_EmptySet
  <2>2. Pick(s) \in s
    BY <2>1 DEF Pick
  <2>3. Cardinality(s \ {Pick(s)}) = n
    BY <1>1, <2>2, FS_RemoveElement
  <2> QED
    BY <1>3, <2>1, <2>3
<1> HIDE DEF U
<1>4. Nat \subseteq U
  BY <1>2, <1>3, NatSetInduction
<1> QED
  BY <1>1, <1>4 DEF U

IsSum(g, f, S) ==
    g = [s \in SUBSET S |-> IF s = {} THEN 0 ELSE f[Pick(s)] + g[s \ {Pick(s)}]]

LEMMA SumUnfold == ASSUME NEW f, NEW S PROVE SumFunctionOnSet(f, S) = (CHOOSE g : IsSum(g, f, S))[S]
BY Zenon DEF SumFunctionOnSet, FoldFunctionOnSet, MapThenFoldSet, IsSum, Pick

LEMMA SumExists ==
    ASSUME NEW S, IsFiniteSet(S), NEW f \in [S -> Int]
    PROVE  \E g \in [SUBSET S -> Int] : IsSum(g, f, S)
<1> DEFINE Of(n) == {s \in SUBSET S : Cardinality(s) <= n}
           Partial(g, n) == \A s \in Of(n) : g[s] = IF s = {} THEN 0 ELSE f[Pick(s)] + g[s \ {Pick(s)}]
           T == {n \in Nat : \E g \in [Of(n) -> Int] : Partial(g, n)}
<1>1. \A s \in SUBSET S : IsFiniteSet(s) /\ Cardinality(s) \in Nat /\ (Cardinality(s) = 0 <=> s = {})
  BY FS_Subset, FS_CardinalityType, FS_EmptySet
<1>2. \A s \in SUBSET S : s # {} => /\ Pick(s) \in s /\ Pick(s) \in S /\ s \ {Pick(s)} \in SUBSET S
                                    /\ Cardinality(s \ {Pick(s)}) = Cardinality(s) - 1
  BY <1>1, FS_RemoveElement DEF Pick
<1>3. 0 \in T
  <2>1. \A s \in Of(0) : s = {}
    BY <1>1
  <2> DEFINE z == [s \in Of(0) |-> 0]
  <2>2. z \in [Of(0) -> Int] /\ Partial(z, 0)
    BY <2>1
  <2> QED
    BY <2>2
<1>4. ASSUME NEW n \in Nat, n \in T PROVE n + 1 \in T
  <2>1. PICK g \in [Of(n) -> Int] : Partial(g, n)
    BY <1>4
  <2> DEFINE h == [s \in Of(n + 1) |-> IF s = {} THEN 0 ELSE f[Pick(s)] + g[s \ {Pick(s)}]]
  <2>2. \A s \in Of(n + 1) : s # {} => s \ {Pick(s)} \in Of(n)
    BY <1>1, <1>2
  <2>3. h \in [Of(n + 1) -> Int]
    BY <1>2, <2>2
  <2>4. \A s \in Of(n) : s \in Of(n + 1) /\ h[s] = g[s]
    BY <1>1, <2>1
  <2>5. Partial(h, n + 1)
    <3> SUFFICES ASSUME NEW s \in Of(n + 1)
                 PROVE  h[s] = IF s = {} THEN 0 ELSE f[Pick(s)] + h[s \ {Pick(s)}]
      OBVIOUS
    <3> HIDE DEF Of
    <3>1. h[s] = IF s = {} THEN 0 ELSE f[Pick(s)] + g[s \ {Pick(s)}]
      OBVIOUS
    <3> HIDE DEF h
    <3> QED
      BY <2>2, <2>4, <3>1
  <2> HIDE DEF h, Of, Partial
  <2> QED
    BY <2>3, <2>5
<1> HIDE DEF T
<1>5. Nat \subseteq T
  BY <1>3, <1>4, NatSetInduction
<1>6. PICK g \in [Of(Cardinality(S)) -> Int] : Partial(g, Cardinality(S))
  BY <1>1, <1>5 DEF T
<1>7. Of(Cardinality(S)) = SUBSET S
  BY FS_Subset
<1> HIDE DEF Of
<1>8. g \in [SUBSET S -> Int]
  BY <1>6, <1>7
<1>9. \A s \in SUBSET S : g[s] = IF s = {} THEN 0 ELSE f[Pick(s)] + g[s \ {Pick(s)}]
  BY <1>6, <1>7
<1>10. IsSum(g, f, S)
  BY <1>8, <1>9 DEF IsSum
<1> QED
  BY <1>8, <1>10


(* F holds the sums of f over the subsets of S. *)
Adds(F, f, S) ==
    \A s \in SUBSET S : F[s] = IF s = {} THEN 0 ELSE f[Pick(s)] + F[s \ {Pick(s)}]

LEMMA SumAdds ==
    ASSUME NEW S, IsFiniteSet(S), NEW f \in [S -> Int]
    PROVE  \E F \in [SUBSET S -> Int] : Adds(F, f, S) /\ SumFunctionOnSet(f, S) = F[S]
<1> DEFINE g == CHOOSE g : IsSum(g, f, S)
<1>1. IsSum(g, f, S)
  BY SumExists
<1>2. SumFunctionOnSet(f, S) = g[S]
  BY SumUnfold
<1> HIDE DEF g
<1>3. g = [s \in SUBSET S |-> IF s = {} THEN 0 ELSE f[Pick(s)] + g[s \ {Pick(s)}]]
  BY <1>1 DEF IsSum
<1>4. \A s \in SUBSET S : s # {} => Pick(s) \in S /\ s \ {Pick(s)} \in SUBSET S
  BY DEF Pick
<1>5. \A s \in SUBSET S : g[s] = IF s = {} THEN 0 ELSE f[Pick(s)] + g[s \ {Pick(s)}]
  BY <1>3
<1>6. ASSUME NEW T, T = {s \in SUBSET S : g[s] \in Int} PROVE \A s \in SUBSET S : g[s] \in Int
  <2>0. {} \in SUBSET S /\ g[{}] = 0
    BY <1>5
  <2>1. {} \in T
    BY <1>6, <2>0
  <2>2. ASSUME NEW s \in SUBSET S, s # {}, s \ {Pick(s)} \in T PROVE s \in T
    <3>1. f[Pick(s)] \in Int /\ g[s \ {Pick(s)}] \in Int
      BY <1>4, <1>6, <2>2
    <3>2. g[s] \in Int
      BY <1>5, <2>2, <3>1
    <3> QED
      BY <1>6, <3>2
  <2>3. SUBSET S \subseteq T
    BY <2>1, <2>2, SubsetInduction
  <2> QED
    BY <1>6, <2>3
<1>7. \A s \in SUBSET S : g[s] \in Int
  BY <1>6
<1>8. g \in [SUBSET S -> Int]
  BY <1>3, <1>7
<1> QED
  BY <1>2, <1>5, <1>8 DEF Adds

LEMMA SumType ==
    ASSUME NEW S, IsFiniteSet(S), NEW f \in [S -> Int]
    PROVE  SumFunctionOnSet(f, S) \in Int
<1>1. PICK F \in [SUBSET S -> Int] : SumFunctionOnSet(f, S) = F[S]
  BY SumAdds
<1> QED
  BY <1>1

(* One summand changes. *)
LEMMA SumUpdate ==
    ASSUME NEW S, IsFiniteSet(S), NEW f \in [S -> Int], NEW g \in [S -> Int], NEW k \in S,
           \A x \in S : x # k => g[x] = f[x]
    PROVE  SumFunctionOnSet(g, S) = SumFunctionOnSet(f, S) + g[k] - f[k]
<1>1. PICK F \in [SUBSET S -> Int] : Adds(F, f, S) /\ SumFunctionOnSet(f, S) = F[S]
  BY SumAdds
<1>2. PICK G \in [SUBSET S -> Int] : Adds(G, g, S) /\ SumFunctionOnSet(g, S) = G[S]
  BY SumAdds
<1>3. ASSUME NEW T, T = {s \in SUBSET S : G[s] = IF k \in s THEN F[s] + g[k] - f[k] ELSE F[s]}
      PROVE  \A s \in SUBSET S : G[s] = IF k \in s THEN F[s] + g[k] - f[k] ELSE F[s]
  <2>0. {} \in SUBSET S /\ F[{}] = 0 /\ G[{}] = 0
    BY <1>1, <1>2 DEF Adds
  <2>1. {} \in T
    BY <1>3, <2>0
  <2>2. ASSUME NEW s \in SUBSET S, s # {}, NEW x, x = Pick(s), NEW r, r = s \ {x}, r \in T
        PROVE  s \in T
    <3>1. x \in s /\ r \in SUBSET S /\ F[s] = f[x] + F[r] /\ G[s] = g[x] + G[r]
      BY <1>1, <1>2, <2>2 DEF Adds, Pick
    <3>2. G[r] = IF k \in r THEN F[r] + g[k] - f[k] ELSE F[r]
      BY <1>3, <2>2
    <3>3. /\ F[r] \in Int /\ G[r] \in Int /\ f[x] \in Int /\ g[x] \in Int
          /\ f[k] \in Int /\ g[k] \in Int
      BY <3>1
    <3>4. G[s] = IF k \in s THEN F[s] + g[k] - f[k] ELSE F[s]
      <4>1. CASE x = k
        BY <2>2, <3>1, <3>2, <3>3, <4>1
      <4>2. CASE x # k
        BY <2>2, <3>1, <3>2, <3>3, <4>2
      <4> QED
        BY <4>1, <4>2
    <3> QED
      BY <1>3, <3>4
  <2>3. SUBSET S \subseteq T
    BY <2>1, <2>2, SubsetInduction
  <2> QED
    BY <1>3, <2>3
<1>4. G[S] = F[S] + g[k] - f[k]
  BY <1>3
<1> QED
  BY <1>1, <1>2, <1>4

(* Every summand grows. *)
LEMMA SumMonotone ==
    ASSUME NEW S, IsFiniteSet(S), NEW f \in [S -> Int], NEW g \in [S -> Int],
           \A x \in S : f[x] <= g[x]
    PROVE  SumFunctionOnSet(f, S) <= SumFunctionOnSet(g, S)
<1>1. PICK F \in [SUBSET S -> Int] : Adds(F, f, S) /\ SumFunctionOnSet(f, S) = F[S]
  BY SumAdds
<1>2. PICK G \in [SUBSET S -> Int] : Adds(G, g, S) /\ SumFunctionOnSet(g, S) = G[S]
  BY SumAdds
<1>3. ASSUME NEW T, T = {s \in SUBSET S : F[s] <= G[s]}
      PROVE  \A s \in SUBSET S : F[s] <= G[s]
  <2>0. {} \in SUBSET S /\ F[{}] = 0 /\ G[{}] = 0
    BY <1>1, <1>2 DEF Adds
  <2>1. {} \in T
    BY <1>3, <2>0
  <2>2. ASSUME NEW s \in SUBSET S, s # {}, NEW x, x = Pick(s), NEW r, r = s \ {x}, r \in T
        PROVE  s \in T
    <3>1. x \in s /\ r \in SUBSET S /\ F[s] = f[x] + F[r] /\ G[s] = g[x] + G[r]
      BY <1>1, <1>2, <2>2 DEF Adds, Pick
    <3>2. F[r] <= G[r] /\ f[x] <= g[x]
      BY <1>3, <2>2, <3>1
    <3>3. /\ F[r] \in Int /\ G[r] \in Int /\ f[x] \in Int /\ g[x] \in Int
      BY <3>1
    <3> QED
      BY <1>3, <3>1, <3>2, <3>3
  <2>3. SUBSET S \subseteq T
    BY <2>1, <2>2, SubsetInduction
  <2> QED
    BY <1>3, <2>3
<1> QED
  BY <1>1, <1>2, <1>3

(* Nothing to add. *)
LEMMA SumZero ==
    ASSUME NEW S, IsFiniteSet(S), NEW f \in [S -> Int], \A x \in S : f[x] = 0
    PROVE  SumFunctionOnSet(f, S) = 0
<1>1. PICK F \in [SUBSET S -> Int] : Adds(F, f, S) /\ SumFunctionOnSet(f, S) = F[S]
  BY SumAdds
<1>2. ASSUME NEW T, T = {s \in SUBSET S : F[s] = 0}
      PROVE  \A s \in SUBSET S : F[s] = 0
  <2>0. {} \in SUBSET S /\ F[{}] = 0
    BY <1>1 DEF Adds
  <2>1. {} \in T
    BY <1>2, <2>0
  <2>2. ASSUME NEW s \in SUBSET S, s # {}, NEW x, x = Pick(s), NEW r, r = s \ {x}, r \in T
        PROVE  s \in T
    BY <1>1, <1>2, <2>2 DEF Adds, Pick
  <2>3. SUBSET S \subseteq T
    BY <2>1, <2>2, SubsetInduction
  <2> QED
    BY <1>2, <2>3
<1> QED
  BY <1>1, <1>2

(* One summand grows by at most 1, and no other grows.                     *)
LEMMA SumGrowsByOne ==
    ASSUME NEW S, IsFiniteSet(S), NEW f \in [S -> Int], NEW g \in [S -> Int], NEW k \in S,
           g[k] <= f[k] + 1, \A x \in S : x # k => g[x] <= f[x]
    PROVE  SumFunctionOnSet(g, S) <= SumFunctionOnSet(f, S) + 1
<1> DEFINE h == [x \in S |-> IF x = k THEN f[k] + 1 ELSE f[x]]
<1>1. h \in [S -> Int] /\ h[k] = f[k] + 1 /\ \A x \in S : x # k => h[x] = f[x]
  OBVIOUS
<1> HIDE DEF h
<1>2. SumFunctionOnSet(h, S) = SumFunctionOnSet(f, S) + h[k] - f[k]
  BY <1>1, SumUpdate
<1>3. \A x \in S : g[x] <= h[x]
  BY <1>1
<1>4. SumFunctionOnSet(g, S) <= SumFunctionOnSet(h, S)
  BY <1>1, <1>3, SumMonotone
<1>5. SumFunctionOnSet(f, S) \in Int /\ SumFunctionOnSet(g, S) \in Int /\ f[k] \in Int
  BY SumType
<1> QED
  BY <1>1, <1>2, <1>4, <1>5
=============================================================================
