--------------------------- MODULE MapDump_proofs ---------------------------
(***************************************************************************)
(* What is proved about the loaders that dump a hash map while programs    *)
(* store into it, for any number of keys, buckets and CPUs, any hash       *)
(* function and any capacity.                                              *)
(***************************************************************************)
EXTENDS MapDump, FiniteSetTheorems, SequenceTheorems, TLAPS

AnyKey == Keys \cup {Zero}

(* The facts about chains are stated of any chains ch, so that they can be *)
(* cited for those before and for those after a step.                      *)
Good(ch) ==
    /\ ch \in [Buckets -> Seq(AnyKey)]
    /\ \A b \in Buckets : /\ \A i \in 1..Len(ch[b]) : BucketOf[ch[b][i]] = b
                          /\ \A i, j \in 1..Len(ch[b]) : ch[b][i] = ch[b][j] => i = j

Held(ch) == {k \in AnyKey : \E i \in 1..Len(ch[BucketOf[k]]) : ch[BucketOf[k]][i] = k}

Place(ch, k) == CHOOSE i \in DOMAIN ch[BucketOf[k]] : ch[BucketOf[k]][i] = k

\* k comes after j in the order of the walk.
After(ch, j, k) == \/ BucketOf[k] > BucketOf[j]
                   \/ BucketOf[k] = BucketOf[j] /\ Place(ch, k) > Place(ch, j)

(* They are the chains of the model.                                       *)
LEMMA ChainsGood ==
    ASSUME NEW ch, ch \in [Buckets -> Seq(AnyKey)]
    PROVE  (\A b \in Buckets : IsInjective(ch[b]) /\ \A k \in Range(ch[b]) : BucketOf[k] = b)
              <=> Good(ch)
<1>1. \A b \in Buckets : DOMAIN ch[b] = 1..Len(ch[b])
  OBVIOUS
<1>2. ASSUME NEW b \in Buckets
      PROVE  /\ IsInjective(ch[b]) <=> \A i, j \in 1..Len(ch[b]) : ch[b][i] = ch[b][j] => i = j
             /\ (\A k \in Range(ch[b]) : BucketOf[k] = b)
                   <=> \A i \in 1..Len(ch[b]) : BucketOf[ch[b][i]] = b
  BY <1>1 DEF IsInjective, Range
<1> QED
  BY <1>2 DEF Good

LEMMA HeldIsTable ==
    ASSUME NEW ch, Good(ch)
    PROVE  UNION {Range(ch[b]) : b \in Buckets} = Held(ch)
<1>1. \A b \in Buckets : DOMAIN ch[b] = 1..Len(ch[b]) /\ \A i \in 1..Len(ch[b]) : ch[b][i] \in AnyKey
  BY DEF Good
<1>2. \A k \in AnyKey : BucketOf[k] \in Buckets
  BY DumpAssumption DEF AnyKey
<1>3. ASSUME NEW b \in Buckets, NEW k \in Range(ch[b]) PROVE k \in Held(ch)
  <2>1. PICK i \in 1..Len(ch[b]) : ch[b][i] = k
    BY <1>1, <1>3 DEF Range
  <2>2. k \in AnyKey /\ BucketOf[k] = b
    BY <1>1, <2>1 DEF Good
  <2> QED
    BY <2>1, <2>2 DEF Held
<1>4. ASSUME NEW k \in Held(ch) PROVE BucketOf[k] \in Buckets /\ k \in Range(ch[BucketOf[k]])
  BY <1>1, <1>2, <1>4 DEF Held, Range
<1> QED
  BY <1>3, <1>4

(* Where a key is.                                                         *)
LEMMA Placed ==
    ASSUME NEW ch, Good(ch), NEW k \in Held(ch)
    PROVE  /\ k \in AnyKey /\ BucketOf[k] \in Buckets
           /\ ch[BucketOf[k]] \in Seq(AnyKey)
           /\ Place(ch, k) \in 1..Len(ch[BucketOf[k]])
           /\ ch[BucketOf[k]][Place(ch, k)] = k
<1>1. k \in AnyKey /\ BucketOf[k] \in Buckets /\ ch[BucketOf[k]] \in Seq(AnyKey)
  BY DumpAssumption DEF Held, Good, AnyKey
<1>2. DOMAIN ch[BucketOf[k]] = 1..Len(ch[BucketOf[k]])
  BY <1>1
<1>3. \E i \in DOMAIN ch[BucketOf[k]] : ch[BucketOf[k]][i] = k
  BY <1>2 DEF Held
<1> QED
  BY <1>1, <1>2, <1>3 DEF Place

LEMMA PlaceIs ==
    ASSUME NEW ch, Good(ch), NEW b \in Buckets, NEW i \in 1..Len(ch[b])
    PROVE  /\ ch[b][i] \in Held(ch) /\ BucketOf[ch[b][i]] = b /\ Place(ch, ch[b][i]) = i
<1> DEFINE k == ch[b][i]
<1>1. k \in AnyKey /\ BucketOf[k] = b
  BY DEF Good
<1>2. k \in Held(ch)
  BY <1>1 DEF Held
<1>3. Place(ch, k) \in 1..Len(ch[b]) /\ ch[b][Place(ch, k)] = k
  BY <1>1, <1>2, Placed
<1>4. \A j \in 1..Len(ch[b]) : ch[b][j] = ch[b][i] => j = i
  BY DEF Good
<1> QED
  BY <1>1, <1>2, <1>3, <1>4

(* The order of the walk is a strict total order.                          *)
LEMMA WalkOrder ==
    ASSUME NEW ch, Good(ch)
    PROVE  /\ \A j \in Held(ch) : ~After(ch, j, j)
           /\ \A i, j, k \in Held(ch) : After(ch, i, j) /\ After(ch, j, k) => After(ch, i, k)
           /\ \A j, k \in Held(ch) : j # k => After(ch, j, k) \/ After(ch, k, j)
<1>1. \A k \in Held(ch) : BucketOf[k] \in Nat /\ Place(ch, k) \in Nat
  BY Placed, DumpAssumption DEF Buckets
<1>2. \A j, k \in Held(ch) : BucketOf[j] = BucketOf[k] /\ Place(ch, j) = Place(ch, k) => j = k
  BY Placed
<1> QED
  BY <1>1, <1>2 DEF After
-----------------------------------------------------------------------------
(* update_elem: k goes to the head of its chain.                           *)
Stored(ch, k) ==
    [ch EXCEPT ![BucketOf[k]] = Cons(k, IF k \in Held(ch) THEN RemoveAt(@, Place(ch, k)) ELSE @)]

(* What becomes of the other elements of the chain s, when k was its p-th  *)
(* (p > 0) or was not in it (p = 0).                                       *)
Shift(p, i) == IF p # 0 /\ i > p THEN i ELSE i + 1

LEMMA ConsIs ==
    ASSUME NEW S, NEW k \in S, NEW t \in Seq(S)
    PROVE  /\ Cons(k, t) \in Seq(S) /\ Len(Cons(k, t)) = Len(t) + 1 /\ Cons(k, t)[1] = k
           /\ \A n \in 1..Len(t) : Cons(k, t)[n + 1] = t[n]
BY DEF Cons

LEMMA RemoveAtIs ==
    ASSUME NEW S, NEW s \in Seq(S), NEW p \in 1..Len(s)
    PROVE  /\ RemoveAt(s, p) \in Seq(S) /\ Len(RemoveAt(s, p)) = Len(s) - 1
           /\ \A n \in 1..Len(s) - 1 : RemoveAt(s, p)[n] = IF n < p THEN s[n] ELSE s[n + 1]
<1> DEFINE a == SubSeq(s, 1, p - 1)
           b == SubSeq(s, p + 1, Len(s))
           t == RemoveAt(s, p)
<1>1. a \in Seq(S) /\ Len(a) = p - 1 /\ \A n \in 1..p - 1 : a[n] = s[n]
  BY SubSeqProperties
<1>2. b \in Seq(S) /\ Len(b) = Len(s) - p /\ \A n \in 1..Len(s) - p : b[n] = s[n + p]
  BY SubSeqProperties
<1>3. t = a \o b
  BY DEF RemoveAt
<1> HIDE DEF a, b, t
<1>4. t \in Seq(S) /\ Len(t) = Len(s) - 1
  <2>1. t \in Seq(S) /\ Len(t) = Len(a) + Len(b)
    BY <1>1, <1>2, <1>3, ConcatProperties
  <2> QED
    BY <1>1, <1>2, <2>1
<1>5. \A n \in 1..Len(t) : t[n] = IF n <= Len(a) THEN a[n] ELSE b[n - Len(a)]
  BY <1>1, <1>2, <1>3, ConcatProperties
<1>6. ASSUME NEW n \in 1..Len(s) - 1 PROVE t[n] = IF n < p THEN s[n] ELSE s[n + 1]
  <2>1. CASE n < p
    BY <1>1, <1>4, <1>5, <2>1
  <2>2. CASE ~(n < p)
    <3>1. n - (p - 1) \in 1..Len(s) - p /\ (n - (p - 1)) + p = n + 1
      BY <2>2
    <3>2. b[n - (p - 1)] = s[n + 1]
      BY <1>2, <3>1
    <3> QED
      BY <1>1, <1>4, <1>5, <2>2, <3>2
  <2> QED
    BY <2>1, <2>2
<1> QED
  BY <1>4, <1>6 DEF t

\* t is s without its p-th element, and r is t behind k.
Removed(t, s, p) == IF p = 0 THEN t = s
                    ELSE /\ Len(t) = Len(s) - 1
                         /\ \A n \in 1..Len(t) : t[n] = IF n < p THEN s[n] ELSE s[n + 1]

Headed(r, k, t) == /\ Len(r) = Len(t) + 1 /\ r[1] = k
                   /\ \A n \in 1..Len(t) : r[n + 1] = t[n]

\* k heads r, and behind it are the other elements of s, in their order.
AtHead(r, s, k, p) ==
    /\ Len(r) = (IF p # 0 THEN Len(s) ELSE Len(s) + 1) /\ r[1] = k
    /\ \A i \in 1..Len(s) : i # p => Shift(p, i) \in 2..Len(r) /\ r[Shift(p, i)] = s[i]
    /\ \A n \in 2..Len(r) : \E i \in 1..Len(s) : i # p /\ n = Shift(p, i)

LEMMA ToHead ==
    ASSUME NEW S, NEW s \in Seq(S), NEW k, NEW p \in 0..Len(s), NEW t \in Seq(S), NEW r \in Seq(S),
           Removed(t, s, p), Headed(r, k, t)
    PROVE  AtHead(r, s, k, p)
<1> USE DEF AtHead
<1>1. CASE p = 0
  <2>1. Len(r) = Len(s) + 1 /\ r[1] = k /\ \A i \in 1..Len(s) : r[i + 1] = s[i]
    BY <1>1 DEF Removed, Headed
  <2>2. \A n \in 2..Len(r) : n - 1 \in 1..Len(s) /\ n = (n - 1) + 1
    BY <2>1
  <2>3. \A i \in 1..Len(s) : i # p => Shift(p, i) = i + 1
    BY <1>1 DEF Shift
  <2>4. ASSUME NEW n \in 2..Len(r) PROVE \E i \in 1..Len(s) : i # p /\ n = Shift(p, i)
    <3>1. n - 1 \in 1..Len(s) /\ n - 1 # p /\ n = Shift(p, n - 1)
      BY <1>1, <2>2, <2>3
    <3> QED
      BY <3>1
  <2> QED
    BY <1>1, <2>1, <2>3, <2>4
<1>2. CASE p # 0
  <2>1. p \in 1..Len(s)
    BY <1>2
  <2>2. /\ Len(t) = Len(s) - 1
        /\ \A n \in 1..Len(t) : t[n] = IF n < p THEN s[n] ELSE s[n + 1]
    BY <1>2 DEF Removed
  <2>4. Len(r) = Len(s) /\ r[1] = k /\ \A n \in 1..Len(t) : r[n + 1] = t[n]
    BY <2>2 DEF Headed
  <2>5. ASSUME NEW i \in 1..Len(s), i # p
        PROVE  Shift(p, i) \in 2..Len(r) /\ r[Shift(p, i)] = s[i]
    <3>1. CASE i > p
      <4>1. i - 1 \in 1..Len(t) /\ ~(i - 1 < p) /\ (i - 1) + 1 = i /\ Shift(p, i) = i
        BY <2>1, <2>2, <3>1 DEF Shift
      <4>2. t[i - 1] = s[i] /\ r[i] = t[i - 1]
        BY <2>2, <2>4, <4>1
      <4> QED
        BY <2>1, <2>4, <3>1, <4>1, <4>2
    <3>2. CASE i < p
      <4>1. i \in 1..Len(t) /\ Shift(p, i) = i + 1
        BY <2>1, <2>2, <3>2 DEF Shift
      <4> QED
        BY <2>1, <2>2, <2>4, <3>2, <4>1
    <3> QED
      BY <2>1, <2>5, <3>1, <3>2
  <2>6. ASSUME NEW n \in 2..Len(r) PROVE \E i \in 1..Len(s) : i # p /\ n = Shift(p, i)
    <3>1. CASE n > p
      <4>1. n \in 1..Len(s) /\ n # p /\ n = Shift(p, n)
        BY <1>2, <2>1, <2>4, <3>1 DEF Shift
      <4> QED
        BY <4>1
    <3>2. CASE n <= p
      <4>1. n - 1 \in 1..Len(s) /\ n - 1 # p /\ n = Shift(p, n - 1)
        BY <2>1, <2>4, <3>2 DEF Shift
      <4> QED
        BY <4>1
    <3> QED
      BY <2>1, <3>1, <3>2
  <2> QED
    BY <1>2, <2>4, <2>5, <2>6
<1> QED
  BY <1>1, <1>2

(* The chains after it: k is there, before the others of its chain, whose  *)
(* order among themselves, and to those of other chains, is what it was.   *)
LEMMA StoredChains ==
    ASSUME NEW ch, Good(ch), NEW k \in AnyKey, NEW new, new = Stored(ch, k)
    PROVE  /\ Good(new)
           /\ Held(new) = Held(ch) \cup {k}
           /\ \A i, j \in Held(ch) \ {k} : After(new, i, j) <=> After(ch, i, j)
           /\ \A j \in Held(ch) \ {k} : BucketOf[j] = BucketOf[k] => After(new, k, j)
<1> DEFINE b == BucketOf[k]
           s == ch[b]
           p == IF k \in Held(ch) THEN Place(ch, k) ELSE 0
           r == new[b]
<1>1. b \in Buckets /\ s \in Seq(AnyKey) /\ \A c \in Buckets : ch[c] \in Seq(AnyKey)
  BY DumpAssumption DEF AnyKey, Good
<1>2. p \in 0..Len(s) /\ (p # 0 => s[p] = k)
      /\ \A i \in 1..Len(s) : s[i] = k => i = p
  <2>1. CASE k \in Held(ch)
    BY <1>1, <2>1, Placed DEF Good
  <2>2. CASE k \notin Held(ch)
    BY <1>1, <2>2 DEF Held
  <2> QED
    BY <2>1, <2>2
<1> DEFINE t == IF k \in Held(ch) THEN RemoveAt(s, p) ELSE s
<1>3. r = Cons(k, t)
  BY <1>1 DEF Stored, Good
<1>14. t \in Seq(AnyKey) /\ Removed(t, s, p)
  <2>1. CASE k \in Held(ch)
    <3>1. p \in 1..Len(s) /\ t = RemoveAt(s, p)
      BY <1>1, <2>1, Placed
    <3> HIDE DEF s, p, t
    <3>2. /\ t \in Seq(AnyKey) /\ Len(t) = Len(s) - 1
          /\ \A n \in 1..Len(s) - 1 : t[n] = IF n < p THEN s[n] ELSE s[n + 1]
      BY <1>1, <3>1, RemoveAtIs
    <3>3. p # 0 /\ Len(s) - 1 = Len(t)
      BY <3>1, <3>2
    <3> QED
      BY <3>2, <3>3 DEF Removed
  <2>2. CASE k \notin Held(ch)
    BY <1>1, <2>2 DEF Removed
  <2> QED
    BY <2>1, <2>2
<1>4. \A c \in Buckets \ {b} : new[c] = ch[c]
  BY DEF Stored, Good
<1> HIDE DEF s, p, r, t
<1>15. r \in Seq(AnyKey) /\ Headed(r, k, t)
  <2>1. t \in Seq(AnyKey)
    BY <1>14
  <2>2. /\ Cons(k, t) \in Seq(AnyKey) /\ Len(Cons(k, t)) = Len(t) + 1 /\ Cons(k, t)[1] = k
        /\ \A n \in 1..Len(t) : Cons(k, t)[n + 1] = t[n]
    BY <2>1 DEF Cons
  <2> QED
    BY <1>3, <2>2, Zenon DEF Headed
<1>5. /\ r \in Seq(AnyKey) /\ Len(r) = (IF p # 0 THEN Len(s) ELSE Len(s) + 1) /\ r[1] = k
      /\ \A i \in 1..Len(s) : i # p => Shift(p, i) \in 2..Len(r) /\ r[Shift(p, i)] = s[i]
      /\ \A n \in 2..Len(r) : \E i \in 1..Len(s) : i # p /\ n = Shift(p, i)
  <2>1. s \in Seq(AnyKey) /\ p \in 0..Len(s) /\ t \in Seq(AnyKey) /\ r \in Seq(AnyKey)
        /\ Removed(t, s, p) /\ Headed(r, k, t)
    BY <1>1, <1>2, <1>14, <1>15
  <2>2. AtHead(r, s, k, p)
    BY <2>1, ToHead
  <2> QED
    BY <2>1, <2>2 DEF AtHead
<1>6. \A i, j \in 1..Len(s) : BucketOf[s[i]] = b /\ (s[i] = s[j] => i = j)
  BY <1>1 DEF Good, s
<1>7. Good(new)
  <2>1. new \in [Buckets -> Seq(AnyKey)]
    BY <1>1, <1>5 DEF Stored, Good, r
  <2>2. \A n \in 1..Len(r) : n = 1 \/ n \in 2..Len(r)
    BY <1>5
  <2>3. ASSUME NEW n \in 1..Len(r) PROVE BucketOf[r[n]] = b
    <3>1. CASE n = 1
      BY <1>5, <3>1
    <3>2. CASE n \in 2..Len(r)
      <4>1. PICK i \in 1..Len(s) : i # p /\ n = Shift(p, i)
        BY <1>5, <3>2
      <4> QED
        BY <1>5, <1>6, <4>1
    <3> QED
      BY <2>2, <3>1, <3>2
  <2>4. ASSUME NEW n \in 2..Len(r) PROVE r[n] # k
    <3>1. PICK i \in 1..Len(s) : i # p /\ n = Shift(p, i)
      BY <1>5
    <3> QED
      BY <1>2, <1>5, <3>1
  <2>5. ASSUME NEW m \in 2..Len(r), NEW n \in 2..Len(r), r[m] = r[n] PROVE m = n
    <3>1. PICK i \in 1..Len(s) : i # p /\ m = Shift(p, i)
      BY <1>5
    <3>2. PICK j \in 1..Len(s) : j # p /\ n = Shift(p, j)
      BY <1>5
    <3> QED
      BY <1>5, <1>6, <2>5, <3>1, <3>2
  <2>6. \A m, n \in 1..Len(r) : r[m] = r[n] => m = n
    BY <1>5, <2>2, <2>4, <2>5
  <2>7. ASSUME NEW c \in Buckets
        PROVE  /\ \A i \in 1..Len(new[c]) : BucketOf[new[c][i]] = c
               /\ \A i, j \in 1..Len(new[c]) : new[c][i] = new[c][j] => i = j
    <3>1. CASE c = b
      BY <2>3, <2>6, <3>1 DEF r
    <3>2. CASE c # b
      BY <1>4, <3>2 DEF Good
    <3> QED
      BY <3>1, <3>2
  <2> QED
    BY <2>1, <2>7 DEF Good
<1>8. \A j \in Held(ch) \ {k} : BucketOf[j] = b =>
         /\ j \in Held(new) /\ Place(ch, j) \in 1..Len(s) /\ Place(ch, j) # p
         /\ Place(new, j) = Shift(p, Place(ch, j))
  <2> SUFFICES ASSUME NEW j \in Held(ch) \ {k}, BucketOf[j] = b, NEW i, i = Place(ch, j)
               PROVE  j \in Held(new) /\ i \in 1..Len(s) /\ i # p /\ Place(new, j) = Shift(p, i)
    OBVIOUS
  <2>1. i \in 1..Len(s) /\ s[i] = j /\ i # p
    BY <1>2, Placed DEF s
  <2>2. Shift(p, i) \in 1..Len(r) /\ r[Shift(p, i)] = j
    BY <1>5, <2>1
  <2>3. r[Shift(p, i)] \in Held(new) /\ Place(new, r[Shift(p, i)]) = Shift(p, i)
    BY <1>1, <1>7, <2>2, PlaceIs DEF r
  <2> QED
    BY <2>1, <2>2, <2>3
<1>9. k \in Held(new) /\ Place(new, k) = 1
  <2>1. 1 \in 1..Len(r) /\ r[1] = k
    BY <1>2, <1>5, <1>1
  <2> QED
    BY <1>1, <1>7, <2>1, PlaceIs DEF r
<1>10. ASSUME NEW j \in AnyKey, BucketOf[j] # b
       PROVE  (j \in Held(new) <=> j \in Held(ch)) /\ Place(new, j) = Place(ch, j)
  <2>1. new[BucketOf[j]] = ch[BucketOf[j]]
    BY <1>4, <1>10, DumpAssumption DEF AnyKey
  <2> QED
    BY <2>1 DEF Held, Place
<1>11. Held(new) = Held(ch) \cup {k}
  <2>1. ASSUME NEW j \in Held(new), j # k, BucketOf[j] = b PROVE j \in Held(ch)
    <3>1. PICK n \in 1..Len(r) : r[n] = j
      BY <1>7, <2>1, Placed DEF r
    <3>2. n \in 2..Len(r)
      BY <1>5, <2>1, <3>1
    <3>3. PICK i \in 1..Len(s) : s[i] = j
      BY <1>5, <3>1, <3>2
    <3> QED
      BY <1>1, <3>3, PlaceIs DEF s
  <2> QED
    BY <1>8, <1>9, <1>10, <2>1 DEF Held
<1>12. ASSUME NEW i \in Held(ch) \ {k}, NEW j \in Held(ch) \ {k}
       PROVE  After(new, i, j) <=> After(ch, i, j)
  <2>1. CASE BucketOf[i] # BucketOf[j]
    BY <2>1 DEF After
  <2>2. CASE BucketOf[i] = BucketOf[j] /\ BucketOf[i] # b
    BY <1>10, <2>2 DEF After, Held
  <2>3. CASE BucketOf[i] = BucketOf[j] /\ BucketOf[i] = b
    <3>1. /\ Place(ch, i) \in 1..Len(s) /\ Place(new, i) = Shift(p, Place(ch, i)) /\ Place(ch, i) # p
          /\ Place(ch, j) \in 1..Len(s) /\ Place(new, j) = Shift(p, Place(ch, j)) /\ Place(ch, j) # p
      BY <1>8, <2>3
    <3>2. Place(new, j) > Place(new, i) <=> Place(ch, j) > Place(ch, i)
      BY <1>1, <1>2, <3>1 DEF Shift
    <3>3. ~(BucketOf[j] > BucketOf[i])
      BY <1>1, <2>3 DEF Buckets
    <3> QED
      BY <2>3, <3>2, <3>3 DEF After
  <2> QED
    BY <2>1, <2>2, <2>3
<1>13. ASSUME NEW j \in Held(ch) \ {k}, BucketOf[j] = BucketOf[k] PROVE After(new, k, j)
  <2>1. Place(ch, j) \in 1..Len(s) /\ Place(ch, j) # p /\ Place(new, j) = Shift(p, Place(ch, j))
    BY <1>8, <1>13
  <2>2. Shift(p, Place(ch, j)) \in 2..Len(r)
    BY <1>5, <2>1
  <2> QED
    BY <1>9, <1>13, <2>1, <2>2 DEF After
<1> QED
  BY <1>7, <1>11, <1>12, <1>13
-----------------------------------------------------------------------------
(* The chains and the walk of the model in those terms.                    *)
LEMMA TableHeld ==
    ASSUME TypeOK
    PROVE  /\ Good(chain) /\ Table = Held(chain)
           /\ \A j : Behind(j) = {k \in Table : After(chain, j, k)}
<1>1. Good(chain)
  BY ChainsGood DEF TypeOK, AnyKey
<1>2. Table = Held(chain)
  BY <1>1, HeldIsTable DEF Table
<1> QED
  BY <1>1, <1>2 DEF Behind, After, Index, Place

(* Table' and Behind(j)' likewise, for chains that are known to be good.   *)
LEMMA TableHeldNext ==
    ASSUME Good(chain')
    PROVE  /\ Table' = Held(chain')
           /\ \A j : Behind(j)' = {k \in Table' : After(chain', j, k)}
<1>1. Table' = Held(chain')
  BY HeldIsTable DEF Table
<1> QED
  BY <1>1 DEF Behind, After, Index, Place

(* The key that the walk goes on from.                                     *)
Cursor == IF reader = "show" THEN nextKey ELSE key

(* A key k is stored: what Store does, unless the map is full.             *)
Linked(k) ==
    /\ Good(chain')
    /\ Table' = Table \cup {k} /\ IsFiniteSet(Table') /\ Cardinality(Table') <= Capacity
    /\ \A i, j \in Table \ {k} : After(chain', i, j) <=> After(chain, i, j)
    /\ \A j \in Table \ {k} : BucketOf[j] = BucketOf[k] => After(chain', k, j)
    /\ moved' = moved \cup {k}
    /\ turned' = (turned \/ k = Cursor)

LEMMA StoreLinks ==
    ASSUME TypeOK, IsFiniteSet(Table), NEW c \in CPUs, Store(c)
    PROVE  /\ store[c] \in AnyKey /\ UNCHANGED <<program, walk>>
           /\ store' = [store EXCEPT ![c] = NoKey]
           /\ UNCHANGED <<chain, moved, turned>> \/ Linked(store[c])
<1> DEFINE k == store[c]
<1>1. k \in AnyKey /\ UNCHANGED <<program, walk>> /\ store' = [store EXCEPT ![c] = NoKey]
  BY DEF Store, TypeOK, AllKeys, AnyKey
<1>2. ASSUME ~(k \notin Table /\ Cardinality(Table) >= Capacity) PROVE Linked(k)
  <2>1. /\ chain' = [chain EXCEPT ![BucketOf[k]] =
                        Cons(k, IF k \in Table THEN RemoveAt(@, Index(k)) ELSE @)]
        /\ moved' = moved \cup {k} /\ turned' = (turned \/ k = Cursor)
    BY <1>2 DEF Store, Cursor
  <2>2. Good(chain) /\ Table = Held(chain)
    BY TableHeld
  <2>3. chain' = Stored(chain, k)
    BY <2>1, <2>2 DEF Stored, Index, Place
  <2>4. /\ Good(chain') /\ Held(chain') = Held(chain) \cup {k}
        /\ \A i, j \in Held(chain) \ {k} : After(chain', i, j) <=> After(chain, i, j)
        /\ \A j \in Held(chain) \ {k} : BucketOf[j] = BucketOf[k] => After(chain', k, j)
    BY <1>1, <2>2, <2>3, StoredChains
  <2>5. Table' = Table \cup {k}
    BY <2>2, <2>4, TableHeldNext
  <2>6. IsFiniteSet(Table \cup {k}) /\ Cardinality(Table \cup {k}) <= Capacity
    <3>1. Cardinality(Table) \in Nat /\ Cardinality(Table) <= Capacity
      BY FS_CardinalityType DEF TypeOK
    <3>2. CASE k \in Table
      <4>1. Table \cup {k} = Table
        BY <3>2
      <4> QED
        BY <3>1, <4>1
    <3>3. CASE k \notin Table
      <4>1. IsFiniteSet(Table \cup {k}) /\ Cardinality(Table \cup {k}) = Cardinality(Table) + 1
        BY <3>3, FS_AddElement
      <4> QED
        BY <1>2, <3>1, <3>3, <4>1, DumpAssumption
    <3> QED
      BY <3>2, <3>3
  <2> QED
    BY <2>1, <2>2, <2>4, <2>5, <2>6 DEF Linked
<1>3. ASSUME k \notin Table /\ Cardinality(Table) >= Capacity PROVE UNCHANGED <<chain, moved, turned>>
  BY <1>3 DEF Store
<1> QED
  BY <1>1, <1>2, <1>3
-----------------------------------------------------------------------------
(* Types.                                                                  *)
Finite == IsFiniteSet(Table)

(* What a step that leaves the chains alone has to keep.                   *)
WalkTyped ==
    /\ reader \in {"start", "next", "show"}
    /\ key \in AllKeys \cup {Zero} /\ nextKey \in AllKeys \cup {Zero}
    /\ reader = "show" => nextKey \in Table
    /\ before \in SUBSET Table /\ moved \in SUBSET Table /\ turned \in BOOLEAN
    /\ times \in [Keys \cup {Zero} -> 0..2]

LEMMA WalkTypeOK == ASSUME TypeOK, Finite, UNCHANGED table, WalkTyped' PROVE TypeOK' /\ Finite'
BY DEF TypeOK, Finite, WalkTyped, table, Table, AllKeys

LEMMA DumpTypeStep == TypeOK /\ Finite /\ [Next]_vars => TypeOK' /\ Finite'
<1> SUFFICES ASSUME TypeOK, Finite, [Next]_vars PROVE TypeOK' /\ Finite'
  OBVIOUS
<1>0. Table \subseteq AnyKey
  BY TableHeld DEF Held
<1>1. ASSUME NEW c \in CPUs, NEW k \in AllKeys, Fire(c, k) PROVE TypeOK' /\ Finite'
  BY <1>1 DEF Fire, TypeOK, Finite, walk, Table, AllKeys
<1>2. ASSUME NEW c \in CPUs, Store(c) PROVE TypeOK' /\ Finite'
  <2> DEFINE k == store[c]
  <2>1. /\ k \in AnyKey /\ UNCHANGED <<program, reader, key, nextKey, before, times>>
        /\ store' = [store EXCEPT ![c] = NoKey]
        /\ UNCHANGED <<chain, moved, turned>> \/ Linked(k)
    BY <1>2, StoreLinks DEF Finite, walk
  <2>2. store' \in [CPUs -> AllKeys' \cup {NoKey}] /\ AllKeys' = AllKeys
    BY <2>1 DEF TypeOK, AllKeys
  <2>3. CASE UNCHANGED <<chain, moved, turned>>
    BY <2>1, <2>2, <2>3 DEF TypeOK, Finite, Table
  <2>4. CASE Linked(k)
    <3>1. /\ Table' = Table \cup {k} /\ IsFiniteSet(Table') /\ Cardinality(Table') <= Capacity
          /\ Good(chain') /\ moved' = moved \cup {k} /\ turned' = (turned \/ k = Cursor)
      BY <2>4 DEF Linked
    <3>2. /\ chain' \in [Buckets -> Seq(Keys \cup {Zero})]
          /\ \A b \in Buckets : IsInjective(chain'[b]) /\ \A j \in Range(chain'[b]) : BucketOf[j] = b
      BY <3>1, ChainsGood DEF Good, AnyKey
    <3>3. before' \in SUBSET Table' /\ moved' \in SUBSET Table' /\ turned' \in BOOLEAN
          /\ (reader' = "show" => nextKey' \in Table')
      BY <2>1, <3>1 DEF TypeOK
    <3> QED
      BY <2>1, <2>2, <3>1, <3>2, <3>3 DEF TypeOK, Finite
  <2> QED
    BY <2>1, <2>3, <2>4
<1>3. CASE GetNextKey
  <2>1. UNCHANGED table /\ Following(key) \subseteq Table /\ Table' = Table /\ AllKeys' = AllKeys
    BY <1>3 DEF GetNextKey, Following, Behind, table, Table, AllKeys
  <2>2. /\ reader' \in {"start", "show"} /\ key' \in {key, Zero}
        /\ nextKey' \in Following(key) \/ (reader' = "start" /\ nextKey' = nextKey)
    BY <1>3 DEF GetNextKey
  <2>3. /\ before' \in SUBSET Table /\ moved' \in SUBSET Table /\ turned' \in BOOLEAN
        /\ times' \in [Keys \cup {Zero} -> 0..2]
    <3>1. CASE reader = "start"
      <4>1. /\ before' = Table /\ moved' = {} /\ turned' = FALSE
            /\ times' = [k \in Keys \cup {Zero} |-> 0]
        BY <1>3, <3>1 DEF GetNextKey
      <4>2. [k \in Keys \cup {Zero} |-> 0] \in [Keys \cup {Zero} -> 0..2]
        OBVIOUS
      <4> QED
        BY <4>1, <4>2
    <3>2. CASE reader # "start"
      <4>1. UNCHANGED <<before, moved, turned, times>>
        BY <1>3, <3>2 DEF GetNextKey
      <4> QED
        BY <4>1 DEF TypeOK
    <3> QED
      BY <3>1, <3>2
  <2>4. Table \subseteq AllKeys \cup {Zero}
    BY <1>0 DEF AllKeys, AnyKey
  <2>5. /\ reader' \in {"start", "next", "show"} /\ key' \in AllKeys' \cup {Zero}
        /\ nextKey' \in AllKeys' \cup {Zero} /\ (reader' = "show" => nextKey' \in Table')
    BY <2>1, <2>2, <2>4 DEF TypeOK
  <2>6. WalkTyped'
    BY <2>1, <2>3, <2>5 DEF WalkTyped
  <2> QED
    BY <2>1, <2>6, WalkTypeOK
<1>4. CASE Show
  <2>1. UNCHANGED <<table, nextKey, before, moved, turned>> /\ Table' = Table /\ AllKeys' = AllKeys
        /\ reader' = "next" /\ key' = nextKey
    BY <1>4 DEF Show, table, Table, AllKeys
  <2>2. times' \in [Keys \cup {Zero} -> 0..2]
    <3>1. \A n \in 0..2 : (IF n = 2 THEN 2 ELSE n + 1) \in 0..2
      OBVIOUS
    <3> QED
      BY <1>4, <3>1 DEF Show, TypeOK
  <2> QED
    BY <2>1, <2>2, WalkTypeOK DEF TypeOK, WalkTyped
<1>5. CASE UNCHANGED vars
  BY <1>5 DEF vars, table, walk, TypeOK, Finite, Table, AllKeys
<1> QED
  BY <1>1, <1>2, <1>3, <1>4, <1>5 DEF Next

LEMMA DumpTypeInit == Init => TypeOK /\ Finite
<1> SUFFICES ASSUME Init PROVE TypeOK /\ Finite
  OBVIOUS
<1>1. \A b \in Buckets : chain[b] = <<>> /\ Range(chain[b]) = {} /\ IsInjective(chain[b])
  BY DEF Init, Range, IsInjective
<1>2. Table = {}
  BY <1>1 DEF Table
<1>3. IsFiniteSet(Table) /\ Cardinality(Table) <= Capacity
  BY <1>2, FS_EmptySet, DumpAssumption
<1>4. chain \in [Buckets -> Seq(Keys \cup {Zero})]
  BY DEF Init
<1>5. store \in [CPUs -> AllKeys \cup {NoKey}] /\ program \in Programs
  BY DEF Init
<1>6. times \in [Keys \cup {Zero} -> 0..2]
  BY DEF Init
<1>7. /\ reader = "start" /\ key \in AllKeys \cup {Zero} /\ nextKey \in AllKeys \cup {Zero}
      /\ before \in SUBSET Table /\ moved \in SUBSET Table /\ turned \in BOOLEAN
  BY DEF Init
<1> QED
  BY <1>1, <1>3, <1>4, <1>5, <1>6, <1>7 DEF TypeOK, Finite

(* A full map stays within its max_entries, a key is in one place of the   *)
(* chain of its bucket, and the key the loader has found is still there    *)
(* when it looks it up, for any keys, hash function and capacity.          *)
THEOREM DumpTypeCorrect == Spec => []TypeOK
BY DumpTypeInit, DumpTypeStep, PTL DEF Spec
-----------------------------------------------------------------------------
(* What the walk has still to print: the key it has found and those behind *)
(* its cursor.                                                             *)
Left(k) == /\ reader # "start" /\ k \in Table
           /\ (reader = "show" /\ k = nextKey) \/ After(chain, Cursor, k)

(* A key the walk owes, it has printed or has still to print; and while it *)
(* was not turned back, what it printed once it will not meet again.       *)
WalkInv ==
    /\ reader = "start" => key = Zero
    /\ reader = "next" => key \in Table
    /\ Zero \notin before => \A k \in before \ moved : times[k] > 0 \/ Left(k)
    /\ ~turned => \A k \in AllKeys : times[k] > 0 => times[k] = 1 /\ k \in Table /\ ~Left(k)

LEMMA GetNextKeyWalk == ASSUME TypeOK, WalkInv, GetNextKey PROVE WalkInv'
<1>1. /\ Good(chain) /\ Table = Held(chain)
      /\ \A j : Behind(j) = {k \in Table : After(chain, j, k)}
  BY TableHeld
<1>2. UNCHANGED <<program, chain>> /\ Table' = Table /\ AllKeys' = AllKeys
  BY DEF GetNextKey, table, Table, AllKeys
<1> DEFINE ahead == Following(key)
<1>3. CASE ahead = {}
  <2>1. reader' = "start" /\ key' = Zero
    BY <1>3 DEF GetNextKey
  <2>2. \A k : ~Left(k)'
    BY <2>1 DEF Left
  <2>3. CASE reader = "start"
    <3>1. before' = Table /\ times' = [k \in Keys \cup {Zero} |-> 0] /\ key = Zero
      BY <2>3 DEF GetNextKey, WalkInv
    <3>2. Zero \notin before' => before' = {}
      BY <1>3, <3>1 DEF Following
    <3>3. \A k \in AllKeys : times'[k] = 0
      BY <3>1 DEF AllKeys
    <3> QED
      BY <1>2, <2>1, <3>2, <3>3 DEF WalkInv
  <2>4. CASE reader = "next"
    <3>1. UNCHANGED <<before, moved, turned, times>>
      BY <2>4 DEF GetNextKey
    <3>2. \A k : ~Left(k)
      BY <1>1, <1>3, <2>4 DEF WalkInv, Following, Left, Cursor
    <3> QED
      BY <1>2, <2>1, <2>2, <3>1, <3>2 DEF WalkInv
  <2> QED
    BY <2>3, <2>4 DEF GetNextKey
<1>4. CASE ahead # {}
  <2>1. /\ reader' = "show" /\ nextKey' \in ahead
        /\ \A k \in ahead \ {nextKey'} : k \in Behind(nextKey')
    BY <1>4 DEF GetNextKey
  <2>2. \A k : Left(k)' <=> k \in Table /\ (k = nextKey' \/ After(chain, nextKey', k))
    BY <1>2, <2>1 DEF Left, Cursor
  <2>3. \A k \in ahead : k \in Table /\ Left(k)'
    BY <1>1, <2>1, <2>2 DEF Following
  <2>4. CASE reader = "start"
    <3>1. /\ before' = Table /\ moved' = {} /\ key = Zero
          /\ times' = [k \in Keys \cup {Zero} |-> 0]
      BY <2>4 DEF GetNextKey, WalkInv
    <3>2. Zero \notin before' => \A k \in before' : Left(k)'
      BY <2>3, <3>1 DEF Following
    <3>3. \A k \in AllKeys : times'[k] = 0
      BY <3>1 DEF AllKeys
    <3> QED
      BY <1>2, <2>1, <3>2, <3>3 DEF WalkInv
  <2>5. CASE reader = "next"
    <3>1. UNCHANGED <<before, moved, turned, times>>
      BY <2>5 DEF GetNextKey
    <3>2. key \in Table /\ ahead = {k \in Table : After(chain, key, k)}
      BY <1>1, <2>5 DEF WalkInv, Following
    <3>3. \A k : Left(k) <=> k \in ahead
      BY <2>5, <3>2 DEF Left, Cursor
    <3>4. \A k : Left(k)' => Left(k)
      BY <1>1, <2>1, <2>2, <3>2, <3>3, WalkOrder
    <3> QED
      BY <1>2, <2>1, <2>3, <3>1, <3>3, <3>4 DEF WalkInv
  <2> QED
    BY <2>4, <2>5 DEF GetNextKey
<1> QED
  BY <1>3, <1>4

LEMMA ShowWalk == ASSUME TypeOK, WalkInv, Show PROVE WalkInv'
<1>1. Good(chain) /\ Table = Held(chain)
  BY TableHeld
<1>2. /\ UNCHANGED <<program, chain, nextKey, before, moved, turned>>
      /\ Table' = Table /\ AllKeys' = AllKeys
      /\ reader = "show" /\ reader' = "next" /\ key' = nextKey /\ nextKey \in Table
  BY DEF Show, table, Table, AllKeys, TypeOK
<1>3. \A k : Left(k) <=> k \in Table /\ (k = nextKey \/ After(chain, nextKey, k))
  BY <1>2 DEF Left, Cursor
<1>4. \A k : Left(k)' <=> k \in Table /\ After(chain, nextKey, k)
  BY <1>2 DEF Left, Cursor
<1>5. ~Left(nextKey)' /\ Left(nextKey)
  BY <1>1, <1>2, <1>3, <1>4, WalkOrder
<1>6. /\ \A k \in AnyKey : k # nextKey => times'[k] = times[k]
      /\ times[nextKey] \in Nat /\ times'[nextKey] > 0
      /\ times[nextKey] = 0 => times'[nextKey] = 1
  <2>1. nextKey \in AnyKey /\ times \in [AnyKey -> 0..2]
    BY DEF TypeOK, AllKeys, AnyKey
  <2>2. times' = [times EXCEPT ![nextKey] = IF @ = 2 THEN 2 ELSE @ + 1]
    BY DEF Show
  <2> QED
    BY <2>1, <2>2
<1>7. before \subseteq AnyKey /\ AllKeys \subseteq AnyKey /\ \A k \in AnyKey : times[k] \in Nat
  <2>1. Table \subseteq AnyKey /\ before \subseteq Table
    BY <1>1 DEF TypeOK, Held
  <2>2. times \in [AnyKey -> 0..2]
    BY DEF TypeOK, AnyKey
  <2> QED
    BY <2>1, <2>2 DEF AllKeys, AnyKey
<1>8. ASSUME Zero \notin before', NEW k \in before' \ moved' PROVE times'[k] > 0 \/ Left(k)'
  BY <1>2, <1>3, <1>4, <1>6, <1>7, <1>8 DEF WalkInv
<1>9. ASSUME ~turned', NEW k \in AllKeys', times'[k] > 0
      PROVE  times'[k] = 1 /\ k \in Table' /\ ~Left(k)'
  <2>1. ~turned /\ k \in AllKeys /\ k \in AnyKey
    BY <1>2, <1>7, <1>9
  <2>2. CASE k = nextKey
    BY <1>2, <1>5, <1>6, <2>1, <2>2 DEF WalkInv
  <2>3. CASE k # nextKey
    BY <1>2, <1>3, <1>4, <1>6, <1>9, <2>1, <2>3 DEF WalkInv
  <2> QED
    BY <2>2, <2>3
<1> QED
  BY <1>2, <1>8, <1>9 DEF WalkInv

(* What a program stores cannot pass the cursor from behind without being  *)
(* moved, nor come back in front of it unless it is the key under it.      *)
LEMMA StoreWalk == ASSUME TypeOK, Finite, WalkInv, NEW c \in CPUs, Store(c) PROVE WalkInv'
<1>0. PICK s : s = store[c]
  OBVIOUS
<1>1. /\ s \in AnyKey /\ UNCHANGED <<program, reader, key, nextKey, before, times>>
      /\ UNCHANGED <<chain, moved, turned>> \/ Linked(s)
  BY <1>0, StoreLinks DEF Finite, walk
<1>2. AllKeys' = AllKeys /\ Cursor' = Cursor
  BY <1>1 DEF AllKeys, Cursor
<1>3. CASE UNCHANGED <<chain, moved, turned>>
  <2>1. Table' = Table /\ \A k : Left(k)' <=> Left(k)
    BY <1>1, <1>2, <1>3 DEF Table, Left
  <2> QED
    BY <1>1, <1>2, <1>3, <2>1 DEF WalkInv
<1>4. CASE Linked(s)
  <2>1. /\ Good(chain') /\ Table' = Table \cup {s}
        /\ \A i, j \in Table \ {s} : After(chain', i, j) <=> After(chain, i, j)
        /\ \A j \in Table \ {s} : BucketOf[j] = BucketOf[s] => After(chain', s, j)
        /\ moved' = moved \cup {s} /\ turned' = (turned \/ s = Cursor)
    BY <1>4 DEF Linked
  <2>2. Good(chain) /\ Table = Held(chain) /\ Table' = Held(chain')
    BY <2>1, TableHeld, TableHeldNext
  <2>3. reader # "start" => Cursor \in Table
    BY DEF TypeOK, WalkInv, Cursor
  <2>4. before \subseteq Table
    BY DEF TypeOK
  <2>5. ASSUME NEW k \in Table, k # s, Left(k) PROVE Left(k)'
    <3>1. CASE reader = "show" /\ k = nextKey
      BY <1>1, <2>1, <3>1 DEF Left
    <3>2. CASE After(chain, Cursor, k)
      <4>1. reader # "start" /\ Cursor \in Table
        BY <2>3, <2>5 DEF Left
      <4>2. CASE Cursor # s
        BY <1>1, <1>2, <2>1, <2>5, <3>2, <4>1, <4>2 DEF Left
      <4>3. CASE Cursor = s
        <5>1. BucketOf[k] > BucketOf[s] \/ BucketOf[k] = BucketOf[s]
          BY <3>2, <4>3 DEF After
        <5>2. After(chain', s, k)
          BY <2>1, <2>5, <5>1 DEF After
        <5> QED
          BY <1>1, <1>2, <2>1, <4>1, <4>3, <5>2 DEF Left
      <4> QED
        BY <4>2, <4>3
    <3> QED
      BY <2>5, <3>1, <3>2 DEF Left
  <2>6. ASSUME NEW k \in Table, ~Left(k), s # Cursor PROVE ~Left(k)'
    <3>1. CASE reader = "start"
      BY <1>1, <3>1 DEF Left
    <3>2. CASE reader # "start"
      <4>1. Cursor \in Table /\ ~After(chain, Cursor, k) /\ ~(reader = "show" /\ k = nextKey)
        BY <2>3, <2>6, <3>2 DEF Left
      <4>2. ~After(chain', Cursor, k)
        <5>1. CASE k # s
          BY <2>1, <2>6, <4>1, <5>1
        <5>2. CASE k = s
          <6>1. After(chain, k, Cursor)
            BY <2>2, <2>6, <4>1, <5>2, WalkOrder
          <6>2. BucketOf[Cursor] > BucketOf[k] \/ BucketOf[Cursor] = BucketOf[k]
            BY <6>1 DEF After
          <6>3. After(chain', k, Cursor)
            BY <2>1, <2>6, <4>1, <5>2, <6>2 DEF After
          <6>4. k \in Held(chain') /\ Cursor \in Held(chain')
            BY <2>1, <2>2, <4>1
          <6> QED
            BY <2>1, <6>3, <6>4, WalkOrder
        <5> QED
          BY <5>1, <5>2
      <4> QED
        BY <1>1, <1>2, <4>1, <4>2 DEF Left
    <3> QED
      BY <3>1, <3>2
  <2>7. ASSUME Zero \notin before', NEW k \in before' \ moved' PROVE times'[k] > 0 \/ Left(k)'
    BY <1>1, <2>1, <2>4, <2>5, <2>7 DEF WalkInv
  <2>8. ASSUME ~turned', NEW k \in AllKeys', times'[k] > 0
        PROVE  times'[k] = 1 /\ k \in Table' /\ ~Left(k)'
    <3>1. ~turned /\ s # Cursor /\ k \in AllKeys /\ times[k] > 0
      BY <1>1, <1>2, <2>1, <2>8
    <3>2. times[k] = 1 /\ k \in Table /\ ~Left(k)
      BY <3>1 DEF WalkInv
    <3> QED
      BY <1>1, <2>1, <2>6, <3>1, <3>2
  <2>9. (reader' = "start" => key' = Zero) /\ (reader' = "next" => key' \in Table')
    BY <1>1, <2>1 DEF WalkInv
  <2> QED
    BY <2>7, <2>8, <2>9 DEF WalkInv
<1> QED
  BY <1>1, <1>3, <1>4

LEMMA SameWalk ==
    ASSUME WalkInv, UNCHANGED <<program, chain, walk, moved, turned>> PROVE WalkInv'
<1>1. UNCHANGED <<program, chain, reader, key, nextKey, before, times, moved, turned>>
  BY DEF walk
<1>2. Table' = Table /\ AllKeys' = AllKeys
  BY <1>1 DEF Table, AllKeys
<1>3. \A k : Left(k)' <=> Left(k)
  BY <1>1, <1>2 DEF Left, Cursor
<1> QED
  BY <1>1, <1>2, <1>3 DEF WalkInv

(* A dump shows every key that was there when it began and was not moved,  *)
(* and shows none twice unless the key under its cursor was stored again,  *)
(* whatever any number of CPUs store while it walks, for any hash function *)
(* and any number of buckets.                                              *)
THEOREM DumpCompleteCorrect == Spec => []DumpComplete
<1>1. Init => WalkInv
  <2> SUFFICES ASSUME Init PROVE WalkInv
    OBVIOUS
  <2>1. reader = "start" /\ key = Zero /\ before = {} /\ \A k \in AllKeys : times[k] = 0
    BY DEF Init, AllKeys
  <2> QED
    BY <2>1 DEF WalkInv
<1>2. TypeOK /\ Finite /\ WalkInv /\ [Next]_vars => WalkInv'
  <2> SUFFICES ASSUME TypeOK, Finite, WalkInv, [Next]_vars PROVE WalkInv'
    OBVIOUS
  <2>1. ASSUME NEW c \in CPUs, NEW k \in AllKeys, Fire(c, k) PROVE WalkInv'
    BY <2>1, SameWalk DEF Fire
  <2>2. CASE UNCHANGED vars
    BY <2>2, SameWalk DEF vars, table
  <2> QED
    BY <2>1, <2>2, GetNextKeyWalk, ShowWalk, StoreWalk DEF Next
<1>3. TypeOK /\ WalkInv => DumpComplete
  <2> SUFFICES ASSUME TypeOK, WalkInv PROVE DumpComplete
    OBVIOUS
  <2>1. reader = "start" => \A k : ~Left(k)
    BY DEF Left
  <2>2. \A k \in AllKeys : times[k] \in Nat
    BY DEF TypeOK, AllKeys
  <2> QED
    BY <2>1, <2>2 DEF DumpComplete, WalkInv
<1> QED
  BY <1>1, <1>2, <1>3, DumpTypeInit, DumpTypeStep, PTL DEF Spec
=============================================================================
