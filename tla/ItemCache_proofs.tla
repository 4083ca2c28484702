-------------------------- MODULE ItemCache_proofs --------------------------
(***************************************************************************)
(* Proofs about ItemCache, for any number of connections, keys and chunks. *)
(***************************************************************************)
EXTENDS ItemCache, FiniteSetTheorems, SequenceTheorems, WellFoundedInduction, TLAPS

-----------------------------------------------------------------------------
(* Sequences *)

\* a comes before b in s.
Before(s, a, b) == \E i, j \in 1..Len(s) : i < j /\ s[i] = a /\ s[j] = b

Upto(s, S, i) == {j \in 1..i : s[j] \in S}

LEMMA UptoFinite ==
  ASSUME NEW s, NEW S, NEW i \in Nat
  PROVE  IsFiniteSet(Upto(s, S, i)) /\ Cardinality(Upto(s, S, i)) \in Nat
<1>1. IsFiniteSet(1..i)
  BY FS_Interval
<1>2. Upto(s, S, i) \in SUBSET (1..i)
  BY DEF Upto
<1>3. IsFiniteSet(Upto(s, S, i))
  BY <1>1, <1>2, FS_Subset
<1> QED BY <1>3, FS_CardinalityType

LEMMA UptoGrows ==
  ASSUME NEW s, NEW S, NEW i \in Nat, NEW j \in Nat, i < j, s[j] \in S
  PROVE  Cardinality(Upto(s, S, i)) < Cardinality(Upto(s, S, j))
<1>1. IsFiniteSet(Upto(s, S, i)) /\ IsFiniteSet(Upto(s, S, j))
  BY UptoFinite
<1>2. Upto(s, S, i) \in SUBSET Upto(s, S, j) /\ j \in Upto(s, S, j) /\ j \notin Upto(s, S, i)
  BY DEF Upto
<1>3. /\ Cardinality(Upto(s, S, i)) <= Cardinality(Upto(s, S, j))
      /\ Cardinality(Upto(s, S, j)) = Cardinality(Upto(s, S, i)) => Upto(s, S, j) = Upto(s, S, i)
  BY <1>1, <1>2, FS_Subset
<1>4. Cardinality(Upto(s, S, i)) \in Nat /\ Cardinality(Upto(s, S, j)) \in Nat
  BY UptoFinite
<1> QED BY <1>2, <1>3, <1>4

\* t consists of the elements of s at the n positions f, which are in order, and are all
\* those with elements of S.
Picks(t, s, S, n, f) ==
  /\ f \in [1..n -> 1..Len(s)]
  /\ t = [m \in 1..n |-> s[f[m]]]
  /\ \A m \in 1..n : s[f[m]] \in S
  /\ \A l, m \in 1..n : l < m => f[l] < f[m]
  /\ \A i \in 1..Len(s) : s[i] \in S => \E m \in 1..n : f[m] = i

LEMMA OnlyPicks ==
  ASSUME NEW X, NEW s \in Seq(X), NEW S
  PROVE  \E n \in Nat : \E f : Picks(Only(s, S), s, S, n, f)
<1> DEFINE C(i) == Cardinality(Upto(s, S, i))
           T == Upto(s, S, Len(s))
           n == C(Len(s))
           c == [i \in T |-> C(i)]
           g == [m \in 1..n |-> CHOOSE i \in T : C(i) = m]
<1>1. Len(s) \in Nat
  OBVIOUS
<1>2. IsFiniteSet(T) /\ n \in Nat /\ \A i \in T : C(i) \in Nat
  <2>1. \A i \in T : i \in Nat
    BY <1>1 DEF Upto
  <2> QED BY <1>1, <2>1, UptoFinite
<1>3. \A i, j \in T : i < j => C(i) < C(j)
  BY UptoGrows DEF Upto
<1>4. \A i \in T : C(i) \in 1..n
  <2> SUFFICES ASSUME NEW i \in T PROVE C(i) \in 1..n
    OBVIOUS
  <2>1. i \in 1..Len(s) /\ s[i] \in S
    BY DEF Upto
  <2>2. C(0) < C(i) /\ C(0) \in Nat
    BY <2>1, UptoGrows, UptoFinite
  <2>3. C(i) <= n
    <3>1. Upto(s, S, i) \in SUBSET T
      BY <1>1, <2>1 DEF Upto
    <3> QED BY <1>2, <3>1, FS_Subset
  <2> QED BY <1>2, <2>2, <2>3
<1>5. c \in Injection(T, 1..n)
  <2>1. c \in [T -> 1..n]
    BY <1>4
  <2>2. \A i, j \in T : c[i] = c[j] => i = j
    <3> SUFFICES ASSUME NEW i \in T, NEW j \in T, C(i) = C(j) PROVE i = j
      OBVIOUS
    <3>1. i \in Nat /\ j \in Nat
      BY <1>1 DEF Upto
    <3>2. ~(i < j) /\ ~(j < i)
      BY <1>2, <1>3
    <3> QED BY <3>1, <3>2
  <2> QED BY <2>1, <2>2 DEF Injection, IsInjective
<1>6. c \in Surjection(T, 1..n)
  <2>1. IsFiniteSet(1..n) /\ Cardinality(1..n) = n
    BY <1>2, FS_Interval
  <2>2. Cardinality(T) = Cardinality(1..n)
    BY <2>1
  <2> QED BY <1>5, <2>1, <2>2, FS_Injection
<1>7. \A m \in 1..n : g[m] \in T /\ C(g[m]) = m
  BY <1>6 DEF Surjection
<1>8. T \subseteq 1..Len(s) /\ \A i \in T : s[i] \in S
  BY DEF Upto
<1>9. g \in [1..n -> 1..Len(s)]
  BY <1>7, <1>8
<1>10. \A m \in 1..n : s[g[m]] \in S
  BY <1>7, <1>8
<1>11. \A l, m \in 1..n : l < m => g[l] < g[m]
  <2> SUFFICES ASSUME NEW l \in 1..n, NEW m \in 1..n, l < m PROVE g[l] < g[m]
    OBVIOUS
  <2>1. g[l] \in T /\ g[m] \in T /\ C(g[l]) = l /\ C(g[m]) = m
    BY <1>7
  <2>2. g[l] # g[m]
    BY <2>1
  <2>3. ~(g[m] < g[l])
    <3> HIDE DEF g
    <3> QED BY <1>3, <2>1
  <2>4. g[l] \in Nat /\ g[m] \in Nat
    BY <1>1, <1>8, <2>1
  <2> HIDE DEF g
  <2> QED BY <2>2, <2>3, <2>4
<1>12. \A i \in 1..Len(s) : s[i] \in S => \E m \in 1..n : g[m] = i
  <2> SUFFICES ASSUME NEW i \in 1..Len(s), s[i] \in S PROVE \E m \in 1..n : g[m] = i
    OBVIOUS
  <2>1. i \in T
    BY DEF Upto
  <2>2. C(i) \in 1..n
    BY <1>4, <2>1
  <2>3. g[C(i)] \in T /\ C(g[C(i)]) = C(i)
    BY <1>7, <2>2
  <2>4. g[C(i)] = i
    <3> HIDE DEF g
    <3> QED BY <1>5, <2>1, <2>3 DEF Injection, IsInjective
  <2> QED BY <2>2, <2>4
<1>13. Only(s, S) = [m \in 1..n |-> s[g[m]]]
  BY DEF Only, Upto
<1> HIDE DEF g, n
<1>14. Picks(Only(s, S), s, S, n, g)
  BY <1>9, <1>10, <1>11, <1>12, <1>13 DEF Picks
<1> QED BY <1>2, <1>14

\* A sequence over X without repetitions, with the elements E.
List(s, X, E) == s \in Seq(X) /\ IsInjective(s) /\ Range(s) = E

LEMMA RangeIs ==
  ASSUME NEW X, NEW s \in Seq(X)
  PROVE  \A x : x \in Range(s) <=> \E i \in 1..Len(s) : s[i] = x
BY DEF Range

LEMMA OnlyList ==
  ASSUME NEW X, NEW s, NEW E, List(s, X, E), NEW S
  PROVE  /\ List(Only(s, S), X, E \cap S)
         /\ \A a, b : Before(Only(s, S), a, b) => Before(s, a, b)
<1>0. s \in Seq(X)
  BY DEF List
<1>1. PICK n \in Nat : \E f : Picks(Only(s, S), s, S, n, f)
  BY <1>0, OnlyPicks
<1>a. PICK f : Picks(Only(s, S), s, S, n, f)
  BY <1>1
<1>2. /\ f \in [1..n -> 1..Len(s)] /\ Only(s, S) = [m \in 1..n |-> s[f[m]]]
      /\ \A m \in 1..n : s[f[m]] \in S
      /\ \A l, m \in 1..n : l < m => f[l] < f[m]
      /\ \A i \in 1..Len(s) : s[i] \in S => \E m \in 1..n : f[m] = i
  BY <1>a DEF Picks
<1>3. PICK t : t = Only(s, S)
  OBVIOUS
<1>4. Len(s) \in Nat /\ DOMAIN s = 1..Len(s) /\ \A i \in 1..Len(s) : s[i] \in X
  BY <1>0
<1>5. t \in Seq(X) /\ Len(t) = n /\ DOMAIN t = 1..n /\ \A m \in 1..n : t[m] = s[f[m]]
  <2>1. t = [m \in 1..n |-> s[f[m]]]
    BY <1>2, <1>3
  <2>2. t \in [1..n -> X]
    BY <1>2, <1>4, <2>1
  <2>3. t \in Seq(X)
    BY <2>2, SeqDef
  <2> QED BY <2>1, <2>3
<1>6. IsInjective(t)
  <2> SUFFICES ASSUME NEW l \in 1..n, NEW m \in 1..n, t[l] = t[m] PROVE l = m
    BY <1>5 DEF IsInjective
  <2>1. f[l] = f[m]
    BY <1>2, <1>4, <1>5 DEF List, IsInjective
  <2>2. ~(l < m) /\ ~(m < l)
    BY <1>2, <2>1
  <2> QED BY <2>2
<1>7. Range(t) = E \cap S
  <2>1. \A x : x \in Range(t) <=> \E m \in 1..n : t[m] = x
    BY <1>5, RangeIs
  <2>2. \A x : x \in E <=> \E i \in 1..Len(s) : s[i] = x
    BY <1>0, RangeIs DEF List
  <2>a. ASSUME NEW x \in Range(t) PROVE x \in E \cap S
    <3>1. PICK m \in 1..n : t[m] = x
      BY <2>1
    <3>2. f[m] \in 1..Len(s) /\ s[f[m]] = x /\ x \in S
      BY <1>2, <1>5, <3>1
    <3> QED BY <2>2, <3>2
  <2>b. ASSUME NEW x \in E \cap S PROVE x \in Range(t)
    <3>1. PICK i \in 1..Len(s) : s[i] = x
      BY <2>2
    <3>2. PICK m \in 1..n : f[m] = i
      BY <1>2, <3>1
    <3>3. t[m] = x
      BY <1>5, <3>1, <3>2
    <3> QED BY <2>1, <3>3
  <2>3. \A x : x \in Range(t) <=> x \in E \cap S
    BY <2>a, <2>b
  <2> QED BY <2>3
<1>8. \A a, b : Before(t, a, b) => Before(s, a, b)
  BY <1>2, <1>5 DEF Before
<1> QED BY <1>3, <1>5, <1>6, <1>7, <1>8 DEF List

LEMMA ConcatList ==
  ASSUME NEW X, NEW u, NEW v, NEW D, NEW E, List(u, X, D), List(v, X, E), D \cap E = {}
  PROVE  /\ List(u \o v, X, D \cup E)
         /\ \A a, b : Before(u \o v, a, b) =>
                        Before(u, a, b) \/ Before(v, a, b) \/ (a \in D /\ b \in E)
<1>1. u \in Seq(X) /\ v \in Seq(X) /\ Len(u) \in Nat /\ Len(v) \in Nat
  BY DEF List
<1>2. PICK t : t = u \o v
  OBVIOUS
<1>3. /\ t \in Seq(X) /\ Len(t) = Len(u) + Len(v)
      /\ \A i \in 1..Len(t) : t[i] = IF i <= Len(u) THEN u[i] ELSE v[i - Len(u)]
  BY <1>1, <1>2, ConcatProperties
<1>4. /\ \A x : x \in D <=> \E i \in 1..Len(u) : u[i] = x
      /\ \A x : x \in E <=> \E i \in 1..Len(v) : v[i] = x
  BY <1>1, RangeIs DEF List
<1>5. IsInjective(t)
  <2> SUFFICES ASSUME NEW i \in 1..Len(t), NEW j \in 1..Len(t), t[i] = t[j] PROVE i = j
    BY <1>3 DEF IsInjective
  <2>1. \A k \in 1..Len(t) : k <= Len(u) => k \in 1..Len(u) /\ t[k] = u[k] /\ t[k] \in D
    BY <1>1, <1>3, <1>4
  <2>2. \A k \in 1..Len(t) : ~(k <= Len(u)) =>
          k - Len(u) \in 1..Len(v) /\ t[k] = v[k - Len(u)] /\ t[k] \in E
    BY <1>1, <1>3, <1>4
  <2>3. CASE i <= Len(u)
    <3>1. j <= Len(u)
      BY <2>1, <2>2, <2>3
    <3> QED BY <1>1, <2>1, <2>3, <3>1 DEF List, IsInjective
  <2>4. CASE ~(i <= Len(u))
    <3>1. ~(j <= Len(u))
      BY <2>1, <2>2, <2>4
    <3>2. i - Len(u) = j - Len(u)
      BY <1>1, <2>2, <2>4, <3>1 DEF List, IsInjective
    <3> QED BY <1>1, <1>3, <3>2
  <2> QED BY <2>3, <2>4
<1>6. Range(t) = D \cup E
  <2>1. \A x : x \in Range(t) <=> \E i \in 1..Len(t) : t[i] = x
    BY <1>3, RangeIs
  <2>2. \A x \in D : \E i \in 1..Len(t) : t[i] = x
    BY <1>1, <1>3, <1>4
  <2>3. \A x \in E : \E i \in 1..Len(t) : t[i] = x
    <3> SUFFICES ASSUME NEW x \in E PROVE \E i \in 1..Len(t) : t[i] = x
      OBVIOUS
    <3>1. PICK i \in 1..Len(v) : v[i] = x
      BY <1>4
    <3>2. PICK j : j = i + Len(u)
      OBVIOUS
    <3>3. j \in 1..Len(t) /\ ~(j <= Len(u)) /\ j - Len(u) = i
      BY <1>1, <1>3, <3>2
    <3>4. t[j] = x
      BY <1>3, <3>1, <3>3
    <3> QED BY <3>3, <3>4
  <2>a. \A i \in 1..Len(t) : t[i] \in D \cup E
    <3> SUFFICES ASSUME NEW i \in 1..Len(t) PROVE t[i] \in D \cup E
      OBVIOUS
    <3>1. CASE i <= Len(u)
      BY <1>1, <1>3, <1>4, <3>1
    <3>2. CASE ~(i <= Len(u))
      <4>1. i - Len(u) \in 1..Len(v) /\ t[i] = v[i - Len(u)]
        BY <1>1, <1>3, <3>2
      <4> QED BY <1>4, <4>1
    <3> QED BY <3>1, <3>2
  <2>4. \A x : x \in Range(t) <=> x \in D \cup E
    BY <2>a, <2>1, <2>2, <2>3
  <2> QED BY <2>4
<1>7. ASSUME NEW a, NEW b, Before(t, a, b)
      PROVE  Before(u, a, b) \/ Before(v, a, b) \/ (a \in D /\ b \in E)
  <2>1. PICK i \in 1..Len(t), j \in 1..Len(t) : i < j /\ t[i] = a /\ t[j] = b
    BY <1>7 DEF Before
  <2>2. CASE j <= Len(u)
    <3>1. i \in 1..Len(u) /\ j \in 1..Len(u) /\ u[i] = a /\ u[j] = b
      BY <1>1, <1>3, <2>1, <2>2
    <3> QED BY <2>1, <3>1 DEF Before
  <2>3. CASE ~(i <= Len(u))
    <3>1. /\ i - Len(u) \in 1..Len(v) /\ j - Len(u) \in 1..Len(v)
          /\ v[i - Len(u)] = a /\ v[j - Len(u)] = b /\ i - Len(u) < j - Len(u)
      BY <1>1, <1>3, <2>1, <2>3
    <3> QED BY <3>1 DEF Before
  <2>4. CASE i <= Len(u) /\ ~(j <= Len(u))
    <3>1. i \in 1..Len(u) /\ u[i] = a /\ j - Len(u) \in 1..Len(v) /\ v[j - Len(u)] = b
      BY <1>1, <1>3, <2>1, <2>4
    <3> QED BY <1>4, <3>1
  <2> QED BY <1>1, <1>3, <2>1, <2>2, <2>3, <2>4
<1> QED BY <1>2, <1>3, <1>5, <1>6, <1>7 DEF List

LEMMA UnitList ==
  ASSUME NEW X, NEW x \in X
  PROVE  List(<<x>>, X, {x}) /\ \A a, b : ~Before(<<x>>, a, b)
<1>1. PICK t : t = <<x>>
  OBVIOUS
<1>2. t \in Seq(X) /\ Len(t) = 1 /\ DOMAIN t = 1..1 /\ t[1] = x
  BY <1>1
<1>3. IsInjective(t)
  BY <1>2 DEF IsInjective
<1>4. Range(t) = {x}
  <2>1. \A y : y \in Range(t) <=> \E i \in 1..Len(t) : t[i] = y
    BY <1>2, RangeIs
  <2>2. \A y : y \in Range(t) <=> y = x
    BY <1>2, <2>1
  <2> QED BY <2>2
<1>5. \A a, b : ~Before(t, a, b)
  BY <1>2 DEF Before
<1> QED BY <1>1, <1>2, <1>3, <1>4, <1>5 DEF List

\* Two neighbours change places.
LEMMA SwapList ==
  ASSUME NEW X, NEW s, NEW E, List(s, X, E), NEW n \in 2..Len(s),
         NEW t, t = [s EXCEPT ![n - 1] = s[n], ![n] = s[n - 1]]
  PROVE  /\ List(t, X, E)
         /\ \A a, b : Before(t, a, b) => Before(s, a, b) \/ a = s[n]
<1>1. s \in Seq(X) /\ Len(s) \in Nat /\ DOMAIN s = 1..Len(s) /\ \A i \in 1..Len(s) : s[i] \in X
  BY DEF List
<1> DEFINE p(i) == IF i = n THEN n - 1 ELSE IF i = n - 1 THEN n ELSE i
<1>2. /\ t \in Seq(X) /\ Len(t) = Len(s) /\ DOMAIN t = 1..Len(s)
      /\ \A i \in 1..Len(s) : t[i] = s[p(i)] /\ p(i) \in 1..Len(s)
  <2>1. t \in [1..Len(s) -> X]
    BY <1>1
  <2>2. t \in Seq(X)
    BY <1>1, <2>1, SeqDef
  <2> QED BY <1>1, <2>1, <2>2
<1>3. \A i, j \in 1..Len(s) : p(i) = p(j) => i = j
  BY <1>1
<1>4. \A i \in 1..Len(s) : p(p(i)) = i
  BY <1>1
<1>5. IsInjective(t)
  <2> HIDE DEF p
  <2> QED BY <1>1, <1>2, <1>3 DEF List, IsInjective
<1>6. Range(t) = E
  <2>a. t \in Seq(X) /\ Len(t) = Len(s)
    BY <1>2
  <2>b. \A i \in 1..Len(s) : t[i] = s[p(i)] /\ p(i) \in 1..Len(s)
    BY <1>2
  <2>c. \A i \in 1..Len(s) : t[p(i)] = s[i]
    BY <1>2, <1>4
  <2> HIDE DEF p
  <2>d. \A x : x \in Range(t) <=> \E i \in 1..Len(t) : t[i] = x
    BY <2>a, RangeIs
  <2>1. \A x : x \in Range(t) <=> \E i \in 1..Len(s) : t[i] = x
    BY <2>a, <2>d
  <2>2. \A x : x \in E <=> \E i \in 1..Len(s) : s[i] = x
    BY <1>1, RangeIs DEF List
  <2>3. \A x : x \in Range(t) <=> x \in E
    BY <2>b, <2>c, <2>1, <2>2
  <2> QED BY <2>3
<1>7. ASSUME NEW a, NEW b, Before(t, a, b) PROVE Before(s, a, b) \/ a = s[n]
  <2>1. PICK i \in 1..Len(s), j \in 1..Len(s) : i < j /\ t[i] = a /\ t[j] = b
    BY <1>2, <1>7 DEF Before
  <2>2. p(i) \in 1..Len(s) /\ p(j) \in 1..Len(s) /\ s[p(i)] = a /\ s[p(j)] = b
    BY <1>2, <2>1
  <2>3. p(i) < p(j) \/ p(i) = n
    BY <1>1, <2>1
  <2> QED BY <2>2, <2>3 DEF Before
<1> QED BY <1>2, <1>5, <1>6, <1>7 DEF List

-----------------------------------------------------------------------------
(* Hash table and LRU *)

Node == Key \cup {Crawler}
ItemAt(now, last) == [val : Value, exptime : RelTime, time : StartTime..now, cas : 1..last]

\* The LRU l is in the order of the times of the items in ca.
Sorted(ca, l) ==
  \A a, b : Before(l, a, b) /\ a # Crawler /\ b # Crawler => ca[a].time >= ca[b].time

\* The part of the invariant about the hash table ca and the LRU l, when the time is now and
\* the cas ids up to last have been given out.
MemOK(ca, l, now, last) ==
  /\ DOMAIN ca \subseteq Key /\ ca \in [DOMAIN ca -> ItemAt(now, last)]
  /\ List(l, Node, Range(l)) /\ Range(l) \ {Crawler} = DOMAIN ca
  /\ Crawler \in Range(l) => lru_crawler
  /\ Sorted(ca, l)

\* The hash table r has the items of ca but those of the keys ks.
Unlinks(ca, ks, r) ==
  DOMAIN r = DOMAIN ca \ ks /\ \A k \in DOMAIN r : r[k] = ca[k]

\* r has the items of ca, but some of ks have a new time.
SameItem(a, b) == a.val = b.val /\ a.exptime = b.exptime /\ a.cas = b.cas
Bumps(ca, ks, r) ==
  /\ DOMAIN r = DOMAIN ca
  /\ \A k \in DOMAIN r : SameItem(ca[k], r[k])
  /\ \A k \in DOMAIN r : r[k].time = ca[k].time \/ (k \in ks /\ r[k].time = current_time)

LEMMA BeforeIn ==
  ASSUME NEW X, NEW s, NEW E, List(s, X, E), NEW a, NEW b, Before(s, a, b)
  PROVE  a \in E /\ b \in E
BY RangeIs DEF List, Before

LEMMA NodeFacts == Crawler \notin Key /\ Key \subseteq Node /\ Crawler \in Node
BY CrawlerAssumption DEF Node

LEMMA UnlinkOK ==
  ASSUME NEW m, NEW ks, NEW now, NEW last, MemOK(m.cache, m.lru, now, last),
         NEW r, r = do_item_unlink(m, ks)
  PROVE  MemOK(r.cache, r.lru, now, last) /\ Unlinks(m.cache, ks, r.cache)
<1> DEFINE E == Range(m.lru)
<1>1. r.cache = [k \in DOMAIN m.cache \ ks |-> m.cache[k]] /\ r.lru = Only(m.lru, E \ ks)
  BY DEF do_item_unlink, Restrict, Without
<1>2. DOMAIN m.cache \subseteq Key /\ m.cache \in [DOMAIN m.cache -> ItemAt(now, last)]
      /\ List(m.lru, Node, E) /\ E \ {Crawler} = DOMAIN m.cache
  BY DEF MemOK
<1>3. /\ List(r.lru, Node, E \cap (E \ ks))
      /\ \A a, b : Before(r.lru, a, b) => Before(m.lru, a, b)
  <2>1. PICK l : l = m.lru
    OBVIOUS
  <2>2. PICK T : T = E \ ks
    OBVIOUS
  <2>3. PICK F : F = E
    OBVIOUS
  <2>4. List(l, Node, F)
    BY <1>2, <2>1, <2>3
  <2>5. /\ List(Only(l, T), Node, F \cap T)
        /\ \A a, b : Before(Only(l, T), a, b) => Before(l, a, b)
    BY <2>4, OnlyList
  <2> HIDE DEF E
  <2> QED BY <1>1, <2>1, <2>2, <2>3, <2>5
<1>4. Range(r.lru) = E \ ks
  BY <1>3 DEF List
<1>5. DOMAIN r.cache = DOMAIN m.cache \ ks /\ \A k \in DOMAIN r.cache : r.cache[k] = m.cache[k]
  BY <1>1
<1>6. r.cache \in [DOMAIN r.cache -> ItemAt(now, last)]
  BY <1>1, <1>2
<1>7. Sorted(r.cache, r.lru)
  <2> SUFFICES ASSUME NEW a, NEW b, Before(r.lru, a, b), a # Crawler, b # Crawler
               PROVE  r.cache[a].time >= r.cache[b].time
    BY DEF Sorted
  <2>1. Before(m.lru, a, b)
    BY <1>3
  <2>2. m.cache[a].time >= m.cache[b].time
    BY <2>1 DEF MemOK, Sorted
  <2>3. a \in E \ ks /\ b \in E \ ks
    <3> HIDE DEF E
    <3> QED BY <1>3, BeforeIn
  <2>4. a \in DOMAIN r.cache /\ b \in DOMAIN r.cache
    BY <1>2, <1>5, <2>3
  <2> QED BY <1>5, <2>2, <2>4
<1>8. List(r.lru, Node, Range(r.lru))
  BY <1>3 DEF List
<1>9. Range(r.lru) \ {Crawler} = DOMAIN r.cache
  BY <1>2, <1>4, <1>5
<1>10. Crawler \in Range(r.lru) => lru_crawler
  BY <1>4 DEF MemOK
<1> QED BY <1>2, <1>5, <1>6, <1>7, <1>8, <1>9, <1>10 DEF MemOK, Unlinks

LEMMA UpdateOK ==
  ASSUME current_time \in Nat, current_time >= StartTime,
         NEW m, NEW last, MemOK(m.cache, m.lru, current_time, last),
         NEW ks, ks \subseteq DOMAIN m.cache, NEW r, r = do_item_update(m, ks)
  PROVE  MemOK(r.cache, r.lru, current_time, last) /\ Bumps(m.cache, ks, r.cache)
<1> DEFINE E == Range(m.lru)
<1>1. PICK O : O = Old(m, ks)
  OBVIOUS
<1>2. O \subseteq ks
  BY <1>1 DEF Old
<1>3. /\ r.cache = [k \in DOMAIN m.cache |->
                     IF k \in O THEN [m.cache[k] EXCEPT !.time = current_time] ELSE m.cache[k]]
      /\ r.lru = Only(m.lru, O) \o Only(m.lru, E \ O)
  BY <1>1 DEF do_item_update, Without, Stamped
<1>4. /\ DOMAIN m.cache \subseteq Key /\ m.cache \in [DOMAIN m.cache -> ItemAt(current_time, last)]
      /\ List(m.lru, Node, E) /\ E \ {Crawler} = DOMAIN m.cache
  BY DEF MemOK
<1>5. StartTime \in Nat
  BY ClockAssumption DEF StartTime
<1>6. \A k \in DOMAIN m.cache :
        /\ m.cache[k] \in ItemAt(current_time, last)
        /\ r.cache[k] = IF k \in O THEN [m.cache[k] EXCEPT !.time = current_time] ELSE m.cache[k]
  BY <1>3, <1>4
<1>7. \A it \in ItemAt(current_time, last) :
        /\ [it EXCEPT !.time = current_time] \in ItemAt(current_time, last)
        /\ SameItem(it, [it EXCEPT !.time = current_time])
        /\ [it EXCEPT !.time = current_time].time = current_time
  BY <1>5 DEF ItemAt, SameItem
<1>8. \A k \in DOMAIN m.cache :
        /\ r.cache[k] \in ItemAt(current_time, last) /\ SameItem(m.cache[k], r.cache[k])
        /\ k \in O => r.cache[k].time = current_time
        /\ k \notin O => r.cache[k].time = m.cache[k].time
  <2> SUFFICES ASSUME NEW k \in DOMAIN m.cache
               PROVE  /\ r.cache[k] \in ItemAt(current_time, last)
                      /\ SameItem(m.cache[k], r.cache[k])
                      /\ k \in O => r.cache[k].time = current_time
                      /\ k \notin O => r.cache[k].time = m.cache[k].time
    OBVIOUS
  <2>1. CASE k \in O
    BY <1>6, <1>7, <2>1
  <2>2. CASE k \notin O
    BY <1>6, <2>2 DEF SameItem
  <2> QED BY <2>1, <2>2
<1>9. DOMAIN r.cache = DOMAIN m.cache /\ r.cache \in [DOMAIN r.cache -> ItemAt(current_time, last)]
  BY <1>3, <1>8
<1>10. PICK u : u = Only(m.lru, O)
  OBVIOUS
<1>11. PICK v : v = Only(m.lru, E \ O)
  OBVIOUS
<1>12. /\ List(u, Node, E \cap O) /\ List(v, Node, E \cap (E \ O))
       /\ \A a, b : Before(v, a, b) => Before(m.lru, a, b)
  <2> HIDE DEF E
  <2> QED BY <1>4, <1>10, <1>11, OnlyList
<1>13. PICK A : A = E \cap O
  OBVIOUS
<1>14. PICK B : B = E \ O
  OBVIOUS
<1>15. A \cap B = {} /\ A \cup B = E /\ E \cap (E \ O) = B
  BY <1>13, <1>14
<1>16. List(u, Node, A) /\ List(v, Node, B)
  BY <1>12, <1>13, <1>15
<1>17. /\ List(r.lru, Node, A \cup B)
       /\ \A a, b : Before(r.lru, a, b) => Before(u, a, b) \/ Before(v, a, b) \/ (a \in A /\ b \in B)
  <2>1. r.lru = u \o v
    BY <1>3, <1>10, <1>11
  <2>2. A \cap B = {}
    BY <1>15
  <2>3. /\ List(u \o v, Node, A \cup B)
        /\ \A a, b : Before(u \o v, a, b) =>
             Before(u, a, b) \/ Before(v, a, b) \/ (a \in A /\ b \in B)
    BY <1>16, <2>2, ConcatList
  <2> QED BY <2>1, <2>3
<1>18. Range(r.lru) = E /\ List(r.lru, Node, Range(r.lru))
  BY <1>15, <1>17 DEF List
<1>19. \A k \in DOMAIN m.cache : m.cache[k].time \in Nat /\ m.cache[k].time <= current_time
  BY <1>4, <1>5 DEF ItemAt
<1>20. Sorted(r.cache, r.lru)
  <2> SUFFICES ASSUME NEW a, NEW b, Before(r.lru, a, b), a # Crawler, b # Crawler
               PROVE  r.cache[a].time >= r.cache[b].time
    BY DEF Sorted
  <2>1. a \in E /\ b \in E
    BY <1>15, <1>17, BeforeIn
  <2>2. a \in DOMAIN m.cache /\ b \in DOMAIN m.cache
    BY <1>4, <2>1
  <2>3. r.cache[b].time <= current_time /\ r.cache[b].time \in Nat
    BY <1>8, <1>19, <2>2
  <2>4. CASE a \in A
    BY <1>8, <1>13, <2>2, <2>3, <2>4
  <2>5. CASE a \notin A
    <3>1. Before(v, a, b)
      BY <1>16, <1>17, <2>5, BeforeIn
    <3>2. a \notin O /\ b \notin O
      BY <1>14, <1>16, <3>1, BeforeIn
    <3>3. m.cache[a].time >= m.cache[b].time
      BY <1>12, <3>1 DEF MemOK, Sorted
    <3> QED BY <1>8, <2>2, <3>2, <3>3
  <2> QED BY <2>4, <2>5
<1>21. Bumps(m.cache, ks, r.cache)
  BY <1>2, <1>8, <1>9 DEF Bumps
<1>22. Crawler \in Range(r.lru) => lru_crawler
  BY <1>18 DEF MemOK
<1> QED BY <1>4, <1>9, <1>18, <1>20, <1>21, <1>22 DEF MemOK

LEMMA LinkOK ==
  ASSUME current_time \in Nat, current_time >= StartTime, cas_id \in Nat,
         NEW m, MemOK(m.cache, m.lru, current_time, cas_id),
         NEW k \in Key, k \notin DOMAIN m.cache, NEW v \in Value, NEW e \in RelTime,
         NEW r, r = do_item_link(m, k, v, e)
  PROVE  /\ MemOK(r.cache, r.lru, current_time, cas_id + 1)
         /\ DOMAIN r.cache = DOMAIN m.cache \cup {k}
         /\ r.cache[k] = [val |-> v, exptime |-> e, time |-> current_time, cas |-> cas_id + 1]
         /\ \A x \in DOMAIN m.cache : r.cache[x] = m.cache[x]
<1> DEFINE E == Range(m.lru)
           new == [val |-> v, exptime |-> e, time |-> current_time, cas |-> cas_id + 1]
<1>1. /\ r.cache = [x \in DOMAIN m.cache \cup {k} |-> IF x = k THEN new ELSE m.cache[x]]
      /\ r.lru = <<k>> \o m.lru
  BY DEF do_item_link
<1>2. /\ DOMAIN m.cache \subseteq Key /\ m.cache \in [DOMAIN m.cache -> ItemAt(current_time, cas_id)]
      /\ List(m.lru, Node, E) /\ E \ {Crawler} = DOMAIN m.cache
  BY DEF MemOK
<1>3. StartTime \in Nat
  BY ClockAssumption DEF StartTime
<1>4. new \in ItemAt(current_time, cas_id + 1)
  BY <1>3 DEF ItemAt
<1>5. \A it \in ItemAt(current_time, cas_id) : it \in ItemAt(current_time, cas_id + 1)
  BY DEF ItemAt
<1>6. /\ DOMAIN r.cache = DOMAIN m.cache \cup {k} /\ r.cache[k] = new
      /\ \A x \in DOMAIN m.cache : r.cache[x] = m.cache[x]
  BY <1>1
<1>7. r.cache \in [DOMAIN r.cache -> ItemAt(current_time, cas_id + 1)]
  <2> HIDE DEF new
  <2> QED BY <1>1, <1>2, <1>4, <1>5
<1>8. k \notin E
  BY <1>2, NodeFacts
<1>9. PICK K : K = {k}
  OBVIOUS
<1>10. PICK u : u = <<k>>
  OBVIOUS
<1>11. List(u, Node, K) /\ \A a, b : ~Before(u, a, b)
  BY <1>9, <1>10, NodeFacts, UnitList
<1>12. /\ List(r.lru, Node, K \cup E)
       /\ \A a, b : Before(r.lru, a, b) =>
            Before(u, a, b) \/ Before(m.lru, a, b) \/ (a \in K /\ b \in E)
  <2>1. K \cap E = {}
    BY <1>8, <1>9
  <2>2. r.lru = u \o m.lru
    BY <1>1, <1>10
  <2>3. PICK l : l = m.lru
    OBVIOUS
  <2>4. PICK F : F = E
    OBVIOUS
  <2>5. List(l, Node, F) /\ K \cap F = {}
    BY <1>2, <2>1, <2>3, <2>4
  <2>6. /\ List(u \o l, Node, K \cup F)
        /\ \A a, b : Before(u \o l, a, b) =>
             Before(u, a, b) \/ Before(l, a, b) \/ (a \in K /\ b \in F)
    BY <1>11, <2>5, ConcatList
  <2> HIDE DEF E
  <2> QED BY <2>2, <2>3, <2>4, <2>6
<1>13. List(r.lru, Node, Range(r.lru)) /\ Range(r.lru) = K \cup E
  BY <1>12 DEF List
<1>14. Range(r.lru) \ {Crawler} = DOMAIN r.cache
  BY <1>2, <1>6, <1>9, <1>13, NodeFacts
<1>15. \A x \in DOMAIN m.cache : m.cache[x].time \in Nat /\ m.cache[x].time <= current_time
  BY <1>2, <1>3 DEF ItemAt
<1>16. Sorted(r.cache, r.lru)
  <2> SUFFICES ASSUME NEW a, NEW b, Before(r.lru, a, b), a # Crawler, b # Crawler
               PROVE  r.cache[a].time >= r.cache[b].time
    BY DEF Sorted
  <2>1. CASE Before(m.lru, a, b)
    <3>1. a \in E /\ b \in E
      <4> HIDE DEF E
      <4> QED BY <1>2, <2>1, BeforeIn
    <3>2. a \in DOMAIN m.cache /\ b \in DOMAIN m.cache
      BY <1>2, <3>1
    <3>3. m.cache[a].time >= m.cache[b].time
      BY <2>1 DEF MemOK, Sorted
    <3> QED BY <1>6, <3>2, <3>3
  <2>2. CASE a \in K /\ b \in E
    <3>1. a = k /\ b \in DOMAIN m.cache
      BY <1>2, <1>9, <2>2
    <3>2. r.cache[a].time = current_time
      BY <1>6, <3>1
    <3> QED BY <1>6, <1>15, <3>1, <3>2
  <2> QED BY <1>11, <1>12, <2>1, <2>2
<1>17. Crawler \in Range(r.lru) => lru_crawler
  BY <1>9, <1>13, NodeFacts DEF MemOK
<1> QED BY <1>2, <1>6, <1>7, <1>13, <1>14, <1>16, <1>17 DEF MemOK

\* The hash table r has the items of ca but those of gone; some of ks have a new time.
Change(ca, gone, ks, r) ==
  /\ gone \subseteq DOMAIN ca /\ DOMAIN r = DOMAIN ca \ gone
  /\ \A k \in DOMAIN r : SameItem(ca[k], r[k])
  /\ \A k \in DOMAIN r : r[k].time = ca[k].time \/ (k \in ks /\ r[k].time = current_time)

Memory == MemOK(cache, lru, current_time, cas_id)
Times == /\ current_time \in StartTime..(StartTime + MaxTicks) /\ StartTime \in Nat \ {0, 1}
         /\ RelTimeMod \in Nat /\ StartTime + MaxTicks < RelTimeMod

Below == OpToRel(<, Nat)

LEMMA LeastNumber ==
  ASSUME NEW T, T \subseteq Nat, T # {}
  PROVE  \E x \in T : \A y \in T : x <= y
<1>1. IsWellFoundedOn(Below, Nat)
  BY NatLessThanWellFounded, Zenon DEF Below
<1>2. \A x, y \in Nat : y < x => <<y, x>> \in Below
  BY DEF Below, OpToRel
<1>3. PICK x \in T : \A y \in T : ~(<<y, x>> \in Below)
  BY <1>1, WFMin
<1>4. x \in Nat /\ \A y \in T : y \in Nat
  OBVIOUS
<1>5. \A y \in T : ~(y < x)
  BY <1>2, <1>3, <1>4
<1> QED BY <1>4, <1>5

LEMMA MaxIs ==
  ASSUME NEW n \in Nat, NEW S, S \subseteq 1..n, S # {}
  PROVE  Max(S) \in S /\ \A y \in S : y <= Max(S)
<1> DEFINE T == {x \in Nat : \A y \in S : y <= x}
<1>1. T \subseteq Nat /\ T # {}
  <2>1. n \in T
    OBVIOUS
  <2> QED BY <2>1
<1>2. PICK x \in T : \A y \in T : x <= y
  <2> HIDE DEF T
  <2> QED BY <1>1, LeastNumber
<1>3. x \in S
  <2> SUFFICES ASSUME x \notin S PROVE FALSE
    OBVIOUS
  <2>1. x \in Nat /\ \A y \in S : y \in Nat /\ y < x
    <3>1. \A y \in S : y \in Nat /\ y <= x /\ y # x
      OBVIOUS
    <3> QED BY <3>1
  <2>2. PICK y \in S : TRUE
    OBVIOUS
  <2>3. x - 1 \in Nat
    BY <2>1, <2>2
  <2>4. \A z \in S : z <= x - 1
    BY <2>1
  <2>5. x - 1 \in T
    BY <2>3, <2>4
  <2> QED BY <1>2, <2>1, <2>5
<1>4. \E z \in S : \A y \in S : z >= y
  BY <1>3
<1>5. Max(S) \in S /\ \A y \in S : Max(S) >= y
  <2>1. PICK w : w = CHOOSE z \in S : \A y \in S : z >= y
    OBVIOUS
  <2>2. w \in S /\ \A y \in S : w >= y
    BY <1>4, <2>1
  <2> QED BY <2>1, <2>2 DEF Max
<1> QED BY <1>5

LEMMA TimesHold ==
  ASSUME current_time \in StartTime..(StartTime + MaxTicks)
  PROVE  Times /\ current_time \in Nat /\ current_time >= StartTime
BY ClockAssumption DEF Times, StartTime

\* What do_item_alloc does to memory: it takes the items gone and bumps some of ks.
Allocs(a, own, gone, ks) ==
  /\ MemOK(a.mem.cache, a.mem.lru, current_time, cas_id)
  /\ Change(cache, gone, ks, a.mem.cache)
  /\ \A k \in ks : Held(k)
  /\ gone = {} \/ \E k \in DOMAIN cache : gone = {k}
  /\ own \notin gone
  /\ \A k \in gone : ~Held(k) /\ (Reclaimable(cache[k]) \/ (~(Used < MaxItems) /\ evict_to_free))
  /\ a.ok => gone # {} \/ Used < MaxItems

LEMMA AllocOK ==
  ASSUME Memory, Times, NEW own, NEW locked, NEW a, a = do_item_alloc(own, locked)
  PROVE  \E gone, ks : Allocs(a, own, gone, ks)
<1> DEFINE passed == {Crawler, own} \cup locked
           stops == {n \in DOMAIN lru : lru[n] \notin passed /\ ~Held(lru[n])}
<1>1. PICK found : found = IF stops = {} THEN 0 ELSE Max(stops)
  OBVIOUS
<1>2. PICK ks : ks = {lru[n] : n \in (found + 1)..Len(lru)} \ passed
  OBVIOUS
<1>3. PICK m : m = do_item_update(Mem, ks)
  OBVIOUS
<1>4. a = IF found # 0 /\ (Reclaimable(cache[lru[found]]) \/ (~(Used < MaxItems) /\ evict_to_free))
          THEN [ok |-> TRUE, mem |-> do_item_unlink(m, {lru[found]})]
          ELSE [ok |-> Used < MaxItems, mem |-> m]
  BY <1>1, <1>2, <1>3, Zenon DEF do_item_alloc
<1>5. /\ lru \in Seq(Node) /\ Len(lru) \in Nat /\ DOMAIN lru = 1..Len(lru)
      /\ \A n \in 1..Len(lru) : lru[n] # Crawler => lru[n] \in DOMAIN cache
  <2>1. lru \in Seq(Node) /\ Range(lru) \ {Crawler} = DOMAIN cache
    BY DEF Memory, MemOK, List
  <2>2. \A n \in 1..Len(lru) : lru[n] \in Range(lru)
    BY <2>1, RangeIs
  <2> QED BY <2>1, <2>2
<1>6. /\ found \in Nat
      /\ found # 0 => found \in stops
      /\ \A n \in stops : n <= found
  <2>1. CASE stops = {}
    BY <1>1, <2>1
  <2>2. CASE stops # {}
    <3>1. stops \subseteq 1..Len(lru)
      BY <1>5
    <3>2. Max(stops) \in stops /\ \A y \in stops : y <= Max(stops)
      <4> HIDE DEF stops
      <4> QED BY <1>5, <2>2, <3>1, MaxIs
    <3> QED BY <1>1, <1>5, <2>2, <3>1, <3>2
  <2> QED BY <2>1, <2>2
<1>7. ks \subseteq DOMAIN cache /\ \A k \in ks : Held(k)
  <2> SUFFICES ASSUME NEW k \in ks PROVE k \in DOMAIN cache /\ Held(k)
    OBVIOUS
  <2>1. PICK n \in (found + 1)..Len(lru) : k = lru[n] /\ lru[n] \notin passed
    BY <1>2
  <2>2. n \in 1..Len(lru) /\ ~(n <= found)
    BY <1>5, <1>6, <2>1
  <2>3. n \notin stops
    BY <1>6, <2>2
  <2>4. Held(k)
    BY <1>5, <2>1, <2>2, <2>3
  <2> QED BY <1>5, <2>1, <2>2, <2>4
<1> HIDE DEF passed
<1>8. MemOK(m.cache, m.lru, current_time, cas_id) /\ Bumps(cache, ks, m.cache)
  <2>1. PICK mm : mm = Mem
    OBVIOUS
  <2>2. mm.cache = cache /\ mm.lru = lru
    BY <2>1 DEF Mem
  <2>3. MemOK(mm.cache, mm.lru, current_time, cas_id) /\ ks \subseteq DOMAIN mm.cache
    BY <1>7, <2>2 DEF Memory
  <2>4. current_time \in Nat /\ current_time >= StartTime
    BY DEF Times
  <2>5. m = do_item_update(mm, ks)
    BY <1>3, <2>1
  <2> QED BY <2>2, <2>3, <2>4, <2>5, UpdateOK
<1>9. CASE found # 0 /\ (Reclaimable(cache[lru[found]]) \/ (~(Used < MaxItems) /\ evict_to_free))
  <2>1. PICK v : v = lru[found]
    OBVIOUS
  <2>2. found \in DOMAIN lru /\ v \notin passed /\ ~Held(v)
    BY <1>6, <1>9, <2>1
  <2>3. v # Crawler /\ v # own
    BY <2>2 DEF passed
  <2>4. v \in DOMAIN cache
    BY <1>5, <2>1, <2>2, <2>3
  <2>5. PICK r : r = do_item_unlink(m, {v})
    OBVIOUS
  <2>6. a.ok = TRUE /\ a.mem = r
    BY <1>4, <1>9, <2>1, <2>5
  <2>7. MemOK(r.cache, r.lru, current_time, cas_id) /\ Unlinks(m.cache, {v}, r.cache)
    BY <1>8, <2>5, UnlinkOK
  <2>8. Change(cache, {v}, ks, r.cache)
    BY <1>8, <2>4, <2>7 DEF Change, Unlinks, Bumps
  <2>9. Allocs(a, own, {v}, ks)
    <3>1. /\ MemOK(a.mem.cache, a.mem.lru, current_time, cas_id)
          /\ Change(cache, {v}, ks, a.mem.cache)
      BY <2>6, <2>7, <2>8
    <3>2. Reclaimable(cache[v]) \/ (~(Used < MaxItems) /\ evict_to_free)
      BY <1>9, <2>1
    <3> QED BY <1>7, <2>2, <2>3, <2>4, <3>1, <3>2 DEF Allocs
  <2> QED BY <2>9
<1>10. CASE ~(found # 0 /\ (Reclaimable(cache[lru[found]]) \/ (~(Used < MaxItems) /\ evict_to_free)))
  <2>0. PICK b : b = (Used < MaxItems)
    OBVIOUS
  <2>1. a = [ok |-> b, mem |-> m]
    BY <1>4, <1>10, <2>0, Zenon
  <2>2. a.ok = b /\ a.mem = m
    BY <2>1
  <2>3. a.ok => Used < MaxItems
    BY <2>0, <2>2, Zenon
  <2>4. Change(cache, {}, ks, m.cache)
    BY <1>8 DEF Change, Bumps
  <2>5. Allocs(a, own, {}, ks)
    <3>1. /\ MemOK(a.mem.cache, a.mem.lru, current_time, cas_id)
          /\ Change(cache, {}, ks, a.mem.cache)
      BY <1>8, <2>2, <2>4
    <3> QED BY <1>7, <2>3, <3>1 DEF Allocs
  <2> QED BY <2>5
<1> QED BY <1>9, <1>10

-----------------------------------------------------------------------------
(* Chunks in use *)

\* The operators of Used, of any hash table ca and commands p.
DoingIn(p, c, comms) == p[c] # NoEntry /\ p[c].comm \in comms
LinkedIn(ca, p, c) == p[c].key \in DOMAIN ca /\ ca[p[c].key].cas = p[c].id
Storing(p) == {c \in Conn : DoingIn(p, c, Storage)}
Stray(ca, p) == {c \in Conn : DoingIn(p, c, Looking) /\ ~LinkedIn(ca, p, c)}
Orphans(ca, p) == {p[c].id : c \in Stray(ca, p)}
UsedIn(ca, p) == Cardinality(DOMAIN ca) + Cardinality(Storing(p)) + Cardinality(Orphans(ca, p))

LEMMA UsedIs == Used = UsedIn(cache, pending) /\ Used' = UsedIn(cache', pending')
BY Zenon DEF Used, UsedIn, Doing, DoingIn, StillLinked, LinkedIn, Storing, Stray, Orphans

LEMMA CountsFinite ==
  ASSUME NEW ca, NEW p, IsFiniteSet(DOMAIN ca)
  PROVE  /\ IsFiniteSet(Storing(p)) /\ IsFiniteSet(Orphans(ca, p))
         /\ Cardinality(DOMAIN ca) \in Nat /\ Cardinality(Storing(p)) \in Nat
         /\ Cardinality(Orphans(ca, p)) \in Nat /\ UsedIn(ca, p) \in Nat
<1>1. IsFiniteSet(Storing(p))
  <2>1. Storing(p) \in SUBSET Conn
    BY DEF Storing
  <2> QED BY <2>1, SizeAssumption, FS_Subset
<1>2. IsFiniteSet(Stray(ca, p))
  <2>1. Stray(ca, p) \in SUBSET Conn
    BY DEF Stray
  <2> QED BY <2>1, SizeAssumption, FS_Subset
<1>3. IsFiniteSet(Orphans(ca, p))
  <2> DEFINE f == [c \in Stray(ca, p) |-> p[c].id]
  <2>1. f \in Surjection(Stray(ca, p), Orphans(ca, p))
    BY DEF Surjection, Orphans
  <2> QED BY <1>2, <2>1, FS_Surjection
<1>4. /\ Cardinality(DOMAIN ca) \in Nat /\ Cardinality(Storing(p)) \in Nat
      /\ Cardinality(Orphans(ca, p)) \in Nat
  BY <1>1, <1>3, FS_CardinalityType
<1> QED BY <1>1, <1>3, <1>4 DEF UsedIn

\* Items that are unlinked leave at most a stray reference each.
LEMMA UsedChange ==
  ASSUME NEW ca, IsFiniteSet(DOMAIN ca), NEW p, NEW gone, NEW ks, NEW r, Change(ca, gone, ks, r)
  PROVE  IsFiniteSet(DOMAIN r) /\ UsedIn(r, p) <= UsedIn(ca, p)
<1> DEFINE C == {ca[k].cas : k \in gone}
<1>1. gone \in SUBSET DOMAIN ca /\ DOMAIN r = DOMAIN ca \ gone
  BY DEF Change
<1>2. IsFiniteSet(gone) /\ Cardinality(gone) \in Nat
  BY <1>1, FS_Subset, FS_CardinalityType
<1>3. /\ IsFiniteSet(DOMAIN r)
      /\ Cardinality(DOMAIN r) = Cardinality(DOMAIN ca) - Cardinality(gone)
  <2>1. DOMAIN ca \cap gone = gone
    BY <1>1
  <2> QED BY <1>1, <2>1, FS_Difference
<1>4. IsFiniteSet(C) /\ Cardinality(C) <= Cardinality(gone) /\ Cardinality(C) \in Nat
  <2> DEFINE f == [k \in gone |-> ca[k].cas]
  <2>1. f \in Surjection(gone, C)
    BY DEF Surjection
  <2> HIDE DEF C
  <2> QED BY <1>2, <2>1, FS_Surjection, FS_CardinalityType
<1>5. Orphans(r, p) \subseteq Orphans(ca, p) \cup C
  <2> SUFFICES ASSUME NEW c \in Stray(r, p) PROVE p[c].id \in Orphans(ca, p) \cup C
    BY DEF Orphans
  <2>1. CASE c \in Stray(ca, p)
    BY <2>1 DEF Orphans
  <2>2. CASE c \notin Stray(ca, p)
    <3>1. p[c].key \in DOMAIN ca /\ ca[p[c].key].cas = p[c].id
      BY <2>2 DEF Stray, LinkedIn
    <3>2. p[c].key \in gone
      BY <3>1 DEF Change, Stray, LinkedIn, SameItem
    <3> QED BY <3>1, <3>2
  <2> QED BY <2>1, <2>2
<1>6. IsFiniteSet(Orphans(ca, p)) /\ Cardinality(Orphans(ca, p)) \in Nat
  BY CountsFinite
<1>7. /\ IsFiniteSet(Orphans(ca, p) \cup C)
      /\ Cardinality(Orphans(ca, p) \cup C) <= Cardinality(Orphans(ca, p)) + Cardinality(C)
  <2> HIDE DEF C
  <2>1. IsFiniteSet(Orphans(ca, p) \cap C)
    BY <1>4, FS_Intersection
  <2>2. Cardinality(Orphans(ca, p) \cap C) \in Nat
    BY <2>1, FS_CardinalityType
  <2>3. /\ IsFiniteSet(Orphans(ca, p) \cup C)
        /\ Cardinality(Orphans(ca, p) \cup C)
             = Cardinality(Orphans(ca, p)) + Cardinality(C) - Cardinality(Orphans(ca, p) \cap C)
    BY <1>4, <1>6, FS_Union
  <2> QED BY <1>4, <1>6, <2>2, <2>3
<1>8. Cardinality(Orphans(r, p)) <= Cardinality(Orphans(ca, p) \cup C)
  BY <1>5, <1>7, FS_Subset
<1> HIDE DEF C
<1>9. /\ Cardinality(Orphans(r, p)) \in Nat /\ Cardinality(DOMAIN ca) \in Nat
      /\ Cardinality(Storing(p)) \in Nat
  BY <1>3, CountsFinite
<1>10. Cardinality(Orphans(ca, p) \cup C) \in Nat
  BY <1>7, FS_CardinalityType
<1> QED BY <1>2, <1>3, <1>4, <1>6, <1>7, <1>8, <1>9, <1>10 DEF UsedIn

\* An item nobody refers to leaves nothing.
LEMMA UsedFreed ==
  ASSUME NEW ca, IsFiniteSet(DOMAIN ca), NEW p, NEW v \in DOMAIN ca, NEW ks, NEW r,
         Change(ca, {v}, ks, r),
         \A c \in Conn : ~(DoingIn(p, c, Looking) /\ p[c].key = v /\ LinkedIn(ca, p, c))
  PROVE  UsedIn(r, p) = UsedIn(ca, p) - 1
<1>1. Stray(r, p) = Stray(ca, p)
  BY DEF Stray, LinkedIn, Change, SameItem
<1>2. Orphans(r, p) = Orphans(ca, p)
  BY <1>1 DEF Orphans
<1>3. Cardinality(DOMAIN r) = Cardinality(DOMAIN ca) - 1
  <2>1. DOMAIN r = DOMAIN ca \ {v}
    BY DEF Change
  <2> QED BY <2>1, FS_RemoveElement
<1>4. Cardinality(DOMAIN ca) \in Nat /\ Cardinality(Storing(p)) \in Nat
      /\ Cardinality(Orphans(ca, p)) \in Nat
  BY CountsFinite
<1> QED BY <1>2, <1>3, <1>4 DEF UsedIn

\* A new item, with a cas id no command knows.
LEMMA UsedLinked ==
  ASSUME NEW ca, IsFiniteSet(DOMAIN ca), NEW p, NEW k, k \notin DOMAIN ca, NEW r,
         DOMAIN r = DOMAIN ca \cup {k}, \A x \in DOMAIN ca : r[x] = ca[x],
         \A c \in Conn : DoingIn(p, c, Looking) => p[c].id # r[k].cas
  PROVE  IsFiniteSet(DOMAIN r) /\ UsedIn(r, p) = UsedIn(ca, p) + 1
<1>1. Stray(r, p) = Stray(ca, p)
  BY DEF Stray, LinkedIn
<1>2. Orphans(r, p) = Orphans(ca, p)
  BY <1>1 DEF Orphans
<1>3. IsFiniteSet(DOMAIN r) /\ Cardinality(DOMAIN r) = Cardinality(DOMAIN ca) + 1
  BY FS_AddElement
<1>4. Cardinality(DOMAIN ca) \in Nat /\ Cardinality(Storing(p)) \in Nat
      /\ Cardinality(Orphans(ca, p)) \in Nat
  BY CountsFinite
<1> QED BY <1>2, <1>3, <1>4 DEF UsedIn

\* Commands that go on or look at linked items do not use chunks.
NoMoreStray(ca, p, q) ==
  \A c \in Conn : DoingIn(q, c, Looking) =>
    LinkedIn(ca, q, c) \/ (DoingIn(p, c, Looking) /\ q[c].id = p[c].id /\ q[c].key = p[c].key)

LEMMA OrphansFewer ==
  ASSUME NEW ca, IsFiniteSet(DOMAIN ca), NEW p, NEW q, NoMoreStray(ca, p, q)
  PROVE  Cardinality(Orphans(ca, q)) <= Cardinality(Orphans(ca, p))
<1>1. Orphans(ca, q) \in SUBSET Orphans(ca, p)
  BY DEF Orphans, Stray, NoMoreStray, LinkedIn
<1> QED BY <1>1, CountsFinite, FS_Subset

LEMMA UsedGoesOn ==
  ASSUME NEW ca, IsFiniteSet(DOMAIN ca), NEW p, NEW q, NoMoreStray(ca, p, q),
         \A c \in Conn : DoingIn(q, c, Storage) => DoingIn(p, c, Storage)
  PROVE  UsedIn(ca, q) <= UsedIn(ca, p)
<1>1. Storing(q) \in SUBSET Storing(p)
  BY DEF Storing
<1>2. Cardinality(Storing(q)) <= Cardinality(Storing(p))
  BY <1>1, CountsFinite, FS_Subset
<1>3. Cardinality(Orphans(ca, q)) <= Cardinality(Orphans(ca, p))
  BY OrphansFewer
<1>4. /\ Cardinality(DOMAIN ca) \in Nat /\ Cardinality(Storing(p)) \in Nat
      /\ Cardinality(Orphans(ca, p)) \in Nat /\ Cardinality(Storing(q)) \in Nat
      /\ Cardinality(Orphans(ca, q)) \in Nat
  BY CountsFinite
<1> QED BY <1>2, <1>3, <1>4 DEF UsedIn

LEMMA UsedStored ==
  ASSUME NEW ca, IsFiniteSet(DOMAIN ca), NEW p, NEW q, NoMoreStray(ca, p, q),
         NEW c \in Conn, DoingIn(p, c, Storage), ~DoingIn(q, c, Storage),
         \A d \in Conn : DoingIn(q, d, Storage) => DoingIn(p, d, Storage)
  PROVE  UsedIn(ca, q) <= UsedIn(ca, p) - 1
<1>1. Storing(q) \in SUBSET (Storing(p) \ {c}) /\ c \in Storing(p)
  BY DEF Storing
<1>2. IsFiniteSet(Storing(p)) /\ Cardinality(Storing(p)) \in Nat
  BY CountsFinite
<1>3. /\ IsFiniteSet(Storing(p) \ {c})
      /\ Cardinality(Storing(p) \ {c}) = Cardinality(Storing(p)) - 1
  BY <1>1, <1>2, FS_RemoveElement
<1>4. Cardinality(Storing(q)) <= Cardinality(Storing(p)) - 1
  BY <1>1, <1>3, FS_Subset
<1>5. Cardinality(Orphans(ca, q)) <= Cardinality(Orphans(ca, p))
  BY OrphansFewer
<1>6. /\ Cardinality(DOMAIN ca) \in Nat /\ Cardinality(Storing(p)) \in Nat
      /\ Cardinality(Orphans(ca, p)) \in Nat /\ Cardinality(Storing(q)) \in Nat
      /\ Cardinality(Orphans(ca, q)) \in Nat
  BY CountsFinite
<1> QED BY <1>4, <1>5, <1>6 DEF UsedIn

LEMMA UsedAsked ==
  ASSUME NEW ca, IsFiniteSet(DOMAIN ca), NEW p, NEW q, NoMoreStray(ca, p, q), NEW c,
         \A d \in Conn : DoingIn(q, d, Storage) => DoingIn(p, d, Storage) \/ d = c
  PROVE  UsedIn(ca, q) <= UsedIn(ca, p) + 1
<1>1. Storing(q) \in SUBSET (Storing(p) \cup {c})
  BY DEF Storing
<1>2. IsFiniteSet(Storing(p)) /\ Cardinality(Storing(p)) \in Nat
  BY CountsFinite
<1>3. /\ IsFiniteSet(Storing(p) \cup {c})
      /\ Cardinality(Storing(p) \cup {c}) <= Cardinality(Storing(p)) + 1
  <2>1. PICK S : S = Storing(p)
    OBVIOUS
  <2>2. IsFiniteSet(S) /\ Cardinality(S) \in Nat
    BY <1>2, <2>1
  <2>3. /\ IsFiniteSet(S \cup {c})
        /\ Cardinality(S \cup {c}) = IF c \in S THEN Cardinality(S) ELSE Cardinality(S) + 1
    BY <2>2, FS_AddElement
  <2>4. Cardinality(S \cup {c}) <= Cardinality(S) + 1
    BY <2>2, <2>3
  <2> QED BY <2>1, <2>3, <2>4
<1>4. Cardinality(Storing(p) \cup {c}) \in Nat
  BY <1>3, FS_CardinalityType
<1>5. Cardinality(Storing(q)) <= Cardinality(Storing(p) \cup {c})
  BY <1>1, <1>3, FS_Subset
<1>6. Cardinality(Orphans(ca, q)) <= Cardinality(Orphans(ca, p))
  BY OrphansFewer
<1>7. /\ Cardinality(DOMAIN ca) \in Nat /\ Cardinality(Storing(p)) \in Nat
      /\ Cardinality(Orphans(ca, p)) \in Nat /\ Cardinality(Storing(q)) \in Nat
      /\ Cardinality(Orphans(ca, q)) \in Nat
  BY CountsFinite
<1> QED BY <1>3, <1>4, <1>5, <1>6, <1>7 DEF UsedIn

-----------------------------------------------------------------------------
(* The invariant *)

CommandAt(last) ==
  [comm : Storage, key : Key, val : {<<t>> : t \in Token}, exptime : RelTime,
   cas : 0..last, id : {0}]
  \cup [comm : Looking, key : Key, val : Value, exptime : {0} \cup TouchTimes,
        cas : 1..last, id : 1..last]
  \cup [comm : {"stale"}, key : Key, val : {<<>>}, exptime : {0}, cas : {0}, id : {0}]
PendOK(p, last) == p \in [Conn -> {NoEntry} \cup CommandAt(last)]

\* TypeOK and LruSorted, in the operators of this module.
Inv ==
  /\ Memory
  /\ PendOK(pending, cas_id)
  /\ cas_id \in 0..MaxCas
  /\ current_time \in StartTime..(StartTime + MaxTicks)
  /\ oldest_live \in RelTime
  /\ flushed_cas \in 0..cas_id
  /\ UsedIn(cache, pending) <= MaxItems

LEMMA SortedIs ==
  ASSUME lru \in Seq(Node), Range(lru) \ {Crawler} = DOMAIN cache
  PROVE  LruSorted <=> Sorted(cache, lru)
<1>1. ASSUME LruSorted PROVE Sorted(cache, lru)
  BY <1>1 DEF LruSorted, Sorted, Before
<1>2. ASSUME Sorted(cache, lru) PROVE LruSorted
  BY <1>2 DEF LruSorted, Sorted, Before
<1> QED BY <1>1, <1>2

\* The inductive invariant is TypeOK and LruSorted.
LEMMA InvIs == Inv <=> TypeOK /\ LruSorted
<1>1. CommandAt(cas_id) = Command
  BY DEF CommandAt, Command
<1>2. ItemAt(current_time, cas_id) = Item
  BY DEF ItemAt, Item
<1>3. Used = UsedIn(cache, pending)
  BY UsedIs
<1>4. ASSUME Inv PROVE TypeOK /\ LruSorted
  <2>1. /\ DOMAIN cache \subseteq Key /\ cache \in [DOMAIN cache -> Item]
        /\ lru \in Seq(Node) /\ IsInjective(lru) /\ (Crawler \in Range(lru) => lru_crawler)
        /\ Range(lru) \ {Crawler} = DOMAIN cache /\ Sorted(cache, lru)
    BY <1>2, <1>4 DEF Inv, Memory, MemOK, List
  <2>2. LruSorted
    BY <2>1, SortedIs
  <2> QED BY <1>1, <1>3, <1>4, <2>1, <2>2 DEF Inv, TypeOK, PendOK, Node
<1>5. ASSUME TypeOK, LruSorted PROVE Inv
  <2>1. /\ DOMAIN cache \subseteq Key /\ cache \in [DOMAIN cache -> Item]
        /\ lru \in Seq(Node) /\ IsInjective(lru) /\ (Crawler \in Range(lru) => lru_crawler)
        /\ Range(lru) \ {Crawler} = DOMAIN cache
    BY <1>5 DEF TypeOK, Node
  <2>2. Sorted(cache, lru)
    BY <1>5, <2>1, SortedIs
  <2>3. Memory
    BY <1>2, <2>1, <2>2 DEF Memory, MemOK, List
  <2>4. PendOK(pending, cas_id)
    BY <1>1, <1>5 DEF TypeOK, PendOK
  <2> QED BY <1>3, <1>5, <2>3, <2>4 DEF Inv, TypeOK
<1> QED BY <1>4, <1>5

LEMMA InvNext ==
  ASSUME Inv, MemOK(cache', lru', current_time, cas_id'), PendOK(pending', cas_id'),
         cas_id' \in cas_id..MaxCas, UsedIn(cache', pending') <= MaxItems,
         UNCHANGED <<clock, flushed_cas>>
  PROVE  Inv'
<1>1. cas_id \in Nat /\ cas_id' \in Nat /\ MaxCas \in Nat
  BY SizeAssumption DEF Inv
<1>2. cas_id' \in 0..MaxCas /\ flushed_cas' \in 0..cas_id'
  BY <1>1 DEF Inv
<1> QED BY <1>2 DEF Inv, Memory, clock

LEMMA Basics ==
  ASSUME Inv
  PROVE  /\ Times /\ current_time \in Nat /\ current_time >= StartTime
         /\ cas_id \in Nat /\ MaxCas \in Nat /\ MaxItems \in Nat
         /\ IsFiniteSet(DOMAIN cache) /\ DOMAIN cache \subseteq Key
         /\ \A k \in DOMAIN cache : cache[k] \in ItemAt(current_time, cas_id)
<1>1. /\ DOMAIN cache \subseteq Key /\ cache \in [DOMAIN cache -> ItemAt(current_time, cas_id)]
      /\ lru \in Seq(Node) /\ Range(lru) \ {Crawler} = DOMAIN cache
  BY DEF Inv, Memory, MemOK, List
<1>2. IsFiniteSet(DOMAIN cache)
  <2>0. Len(lru) \in Nat
    BY <1>1
  <2>1. IsFiniteSet(1..Len(lru))
    BY <2>0, FS_Interval
  <2>2. lru \in Surjection(1..Len(lru), Range(lru))
    <3>1. \A x : x \in Range(lru) <=> \E i \in 1..Len(lru) : lru[i] = x
      BY <1>1, RangeIs
    <3>2. lru \in [1..Len(lru) -> Range(lru)]
      BY <1>1, <3>1
    <3> QED BY <3>1, <3>2 DEF Surjection
  <2>3. IsFiniteSet(Range(lru))
    BY <2>1, <2>2, FS_Surjection
  <2>4. DOMAIN cache \in SUBSET Range(lru)
    BY <1>1
  <2> QED BY <2>3, <2>4, FS_Subset
<1>3. Times /\ current_time \in Nat /\ current_time >= StartTime
  BY TimesHold DEF Inv
<1> QED BY <1>1, <1>2, <1>3, SizeAssumption DEF Inv

LEMMA CharValue == \A t \in Token : <<t>> \in Value
<1>1. MaxLen \in Nat \ {0}
  BY BaseAssumption
<1> SUFFICES ASSUME NEW t \in Token PROVE <<t>> \in Value
  OBVIOUS
<1>2. <<t>> \in [1..1 -> Digit \cup Token \cup {Space}]
  OBVIOUS
<1>3. 1 \in 1..MaxLen
  BY <1>1
<1> QED BY <1>2, <1>3 DEF Value

\* A command in progress: NoEntry is none.
LEMMA CommandFacts ==
  ASSUME NEW last \in 0..MaxCas, NEW r \in CommandAt(last)
  PROVE  /\ r # NoEntry /\ r.key \in Key
         /\ r.comm \in Storage => /\ r.exptime \in RelTime /\ r.cas \in 0..last /\ r.id = 0
                                  /\ r.val \in {<<t>> : t \in Token} /\ r.val \in Value
         /\ r.comm \in Looking => r.val \in Value /\ r.cas \in 1..last /\ r.id \in 1..last
         /\ r.comm \in Storage \cup Looking \cup {"stale"}
         /\ r.comm = "stale" => r.val = <<>> /\ r.cas = 0 /\ r.id = 0
<1>1. MaxCas \in Nat
  BY SizeAssumption
<1>2. r # NoEntry
  <2> DEFINE R == [comm : Storage \cup Looking \cup {"stale"}, key : Key, val : Value \cup {<<>>},
                   exptime : RelTime \cup TouchTimes, cas : 0..MaxCas, id : 0..MaxCas]
  <2>1. 0 \in RelTime
    BY ClockAssumption DEF RelTime
  <2>2. last \in Nat /\ 0..last \subseteq 0..MaxCas /\ 1..last \subseteq 0..MaxCas
        /\ 0 \in 0..MaxCas
    BY <1>1
  <2>3. {<<t>> : t \in Token} \subseteq Value
    BY CharValue
  <2>4. r \in R
    BY <2>1, <2>2, <2>3 DEF CommandAt
  <2>5. NoEntry \notin R
    BY NoEntryAssumption, Zenon
  <2> QED BY <2>4, <2>5
<1>3. \A t \in Token : <<t>> \in Value
  BY CharValue
<1>4. Storage \cap Looking = {} /\ "stale" \notin Storage /\ "stale" \notin Looking
  BY DEF Storage, Looking
<1>5. CASE r \in [comm : Storage, key : Key, val : {<<t>> : t \in Token}, exptime : RelTime,
                  cas : 0..last, id : {0}]
  BY <1>2, <1>3, <1>4, <1>5
<1>6. CASE r \in [comm : Looking, key : Key, val : Value, exptime : {0} \cup TouchTimes,
                  cas : 1..last, id : 1..last]
  BY <1>2, <1>4, <1>6
<1>7. CASE r \in [comm : {"stale"}, key : Key, val : {<<>>}, exptime : {0}, cas : {0}, id : {0}]
  BY <1>2, <1>4, <1>7
<1> QED BY <1>5, <1>6, <1>7 DEF CommandAt

-----------------------------------------------------------------------------
(* Commands in progress *)

LEMMA PendEnd ==
  ASSUME NEW p, NEW last, PendOK(p, last), NEW c \in Conn
  PROVE  PendOK([p EXCEPT ![c] = NoEntry], last)
BY DEF PendOK

LEMMA PendBegin ==
  ASSUME NEW p, NEW last, PendOK(p, last), NEW c \in Conn, NEW r \in CommandAt(last)
  PROVE  PendOK([p EXCEPT ![c] = r], last)
BY DEF PendOK

LEMMA CommandGrows ==
  ASSUME NEW last \in Nat
  PROVE  \A r \in CommandAt(last) : r \in CommandAt(last + 1)
<1>1. 0..last \subseteq 0..(last + 1) /\ 1..last \subseteq 1..(last + 1)
  OBVIOUS
<1> QED BY <1>1 DEF CommandAt

LEMMA PendGrows ==
  ASSUME NEW p, NEW last \in Nat, PendOK(p, last)
  PROVE  PendOK(p, last + 1)
BY CommandGrows DEF PendOK

\* The command of c and its facts.
LEMMA PendFacts ==
  ASSUME Inv, NEW c \in Conn, pending[c] # NoEntry
  PROVE  /\ pending[c] \in CommandAt(cas_id) /\ pending[c].key \in Key
         /\ pending[c].comm \in Storage =>
              /\ pending[c].exptime \in RelTime /\ pending[c].cas \in 0..cas_id /\ pending[c].id = 0
              /\ pending[c].val \in {<<t>> : t \in Token} /\ pending[c].val \in Value
         /\ pending[c].comm \in Looking =>
              pending[c].val \in Value /\ pending[c].cas \in 1..cas_id /\ pending[c].id \in 1..cas_id
         /\ pending[c].comm \in Storage \cup Looking \cup {"stale"}
         /\ pending[c].comm = "stale" =>
              pending[c].val = <<>> /\ pending[c].cas = 0 /\ pending[c].id = 0
<1>1. pending[c] \in CommandAt(cas_id) /\ cas_id \in 0..MaxCas
  BY DEF Inv, PendOK
<1>2. PICK r : r = pending[c]
  OBVIOUS
<1> QED BY <1>1, <1>2, CommandFacts

LEMMA DoingIs == \A c, comms : Doing(c, comms) <=> DoingIn(pending, c, comms)
BY DEF Doing, DoingIn

LEMMA StillLinkedIs == \A c : StillLinked(c) <=> LinkedIn(cache, pending, c)
BY DEF StillLinked, LinkedIn

LEMMA HeldIs ==
  \A k : Held(k) <=> \E c \in Conn : /\ DoingIn(pending, c, Looking) /\ pending[c].key = k
                                     /\ LinkedIn(cache, pending, c)
BY DoingIs, StillLinkedIs DEF Held

\* Connection c ends its command, or begins one that is no storage command: if it refers to
\* an item, that is linked.
LEMMA EndsOrLooks ==
  ASSUME NEW ca, NEW p, NEW last, PendOK(p, last), NEW c \in Conn,
         NEW r, ~(r # NoEntry /\ r.comm \in Storage),
         r # NoEntry /\ r.comm \in Looking => r.key \in DOMAIN ca /\ ca[r.key].cas = r.id,
         NEW q, q = [p EXCEPT ![c] = r]
  PROVE  /\ NoMoreStray(ca, p, q)
         /\ \A d \in Conn : DoingIn(q, d, Storage) => DoingIn(p, d, Storage)
         /\ ~DoingIn(q, c, Storage)
<1>1. q[c] = r /\ \A d \in Conn : d # c => q[d] = p[d]
  BY DEF PendOK
<1> QED BY <1>1 DEF NoMoreStray, DoingIn, LinkedIn

-----------------------------------------------------------------------------
(* Steps that change neither entries nor cas ids: items go or have a new time *)

Keeps(gone, ks) ==
  /\ Change(cache, gone, ks, cache') /\ MemOK(cache', lru', current_time, cas_id)

LEMMA KeepsInv ==
  ASSUME Inv, NEW gone, NEW ks, Keeps(gone, ks), PendOK(pending', cas_id),
         NoMoreStray(cache', pending, pending'),
         \A d \in Conn : DoingIn(pending', d, Storage) => DoingIn(pending, d, Storage),
         UNCHANGED <<cas_id, clock, flushed_cas>>
  PROVE  Inv'
<1>1. IsFiniteSet(DOMAIN cache) /\ cas_id \in Nat /\ MaxItems \in Nat
  BY Basics
<1>2. IsFiniteSet(DOMAIN cache') /\ UsedIn(cache', pending) <= UsedIn(cache, pending)
  BY <1>1, UsedChange DEF Keeps
<1>3. UsedIn(cache', pending') <= UsedIn(cache', pending)
  BY <1>2, UsedGoesOn
<1>4. /\ UsedIn(cache, pending) \in Nat /\ UsedIn(cache', pending) \in Nat
      /\ UsedIn(cache', pending') \in Nat
  BY <1>1, <1>2, CountsFinite
<1>5. UsedIn(cache', pending') <= MaxItems
  BY <1>1, <1>2, <1>3, <1>4 DEF Inv
<1>6. cas_id' = cas_id /\ cas_id' \in cas_id..MaxCas
  BY <1>1, SizeAssumption DEF Inv
<1> QED BY <1>5, <1>6, InvNext DEF Keeps

LEMMA MemIs ==
  ASSUME Inv
  PROVE  Mem.cache = cache /\ Mem.lru = lru /\ MemOK(Mem.cache, Mem.lru, current_time, cas_id)
<1>1. Mem.cache = cache /\ Mem.lru = lru
  BY DEF Mem
<1> QED BY <1>1 DEF Inv, Memory

LEMMA SameMem ==
  ASSUME Inv, cache' = cache, lru' = lru
  PROVE  Keeps({}, {})
<1>1. Change(cache, {}, {}, cache')
  BY DEF Change, SameItem
<1> QED BY <1>1 DEF Keeps, Inv, Memory

LEMMA UnlinkMem ==
  ASSUME Inv, NEW ks, SetMem(do_item_unlink(Mem, ks))
  PROVE  Keeps(ks \cap DOMAIN cache, {})
<1>1. PICK m : m = Mem
  OBVIOUS
<1>2. PICK r : r = do_item_unlink(m, ks)
  OBVIOUS
<1>3. m.cache = cache /\ m.lru = lru /\ MemOK(m.cache, m.lru, current_time, cas_id)
  BY <1>1, MemIs
<1>4. MemOK(r.cache, r.lru, current_time, cas_id) /\ Unlinks(m.cache, ks, r.cache)
  BY <1>2, <1>3, UnlinkOK
<1>5. cache' = r.cache /\ lru' = r.lru
  BY <1>1, <1>2 DEF SetMem
<1>6. Change(cache, ks \cap DOMAIN cache, {}, cache')
  BY <1>3, <1>4, <1>5 DEF Unlinks, Change, SameItem
<1> QED BY <1>4, <1>5, <1>6 DEF Keeps

LEMMA GetMem ==
  ASSUME Inv, NEW k, SetMem(AfterGet(k))
  PROVE  \E gone : Keeps(gone, {}) /\ gone \subseteq {k} /\ \A x \in gone : ~Hit(x)
<1>1. CASE Hit(k)
  <2>1. cache' = cache /\ lru' = lru
    BY <1>1 DEF AfterGet, SetMem, Mem
  <2> QED BY <2>1, SameMem
<1>2. CASE ~Hit(k)
  <2>1. PICK ks : ks = {k}
    OBVIOUS
  <2>2. SetMem(do_item_unlink(Mem, ks))
    BY <1>2, <2>1 DEF AfterGet
  <2>3. Keeps(ks \cap DOMAIN cache, {})
    BY <2>2, UnlinkMem
  <2> QED BY <1>2, <2>1, <2>3
<1> QED BY <1>1, <1>2

LEMMA UpdateMem ==
  ASSUME Inv, NEW k \in DOMAIN cache, SetMem(do_item_update(Mem, {k}))
  PROVE  Keeps({}, {k})
<1>1. PICK m : m = Mem
  OBVIOUS
<1>2. PICK ks : ks = {k}
  OBVIOUS
<1>3. PICK r : r = do_item_update(m, ks)
  OBVIOUS
<1>4. m.cache = cache /\ m.lru = lru /\ MemOK(m.cache, m.lru, current_time, cas_id)
  BY <1>1, MemIs
<1>5. current_time \in Nat /\ current_time >= StartTime /\ ks \subseteq DOMAIN m.cache
  BY <1>2, <1>4, Basics
<1>6. MemOK(r.cache, r.lru, current_time, cas_id) /\ Bumps(m.cache, ks, r.cache)
  BY <1>3, <1>4, <1>5, UpdateOK
<1>7. cache' = r.cache /\ lru' = r.lru
  BY <1>1, <1>2, <1>3 DEF SetMem
<1>8. Change(cache, {}, {k}, cache')
  BY <1>2, <1>4, <1>6, <1>7 DEF Bumps, Change
<1> QED BY <1>6, <1>7, <1>8 DEF Keeps

\* The items that go are dead, or there is no free chunk and eviction is on.
Reclaims(gone) == \A x \in gone : ~Hit(x) \/ (evict_to_free /\ ~(Used < MaxItems))
Bumped(ks) == \A x \in ks : Held(x) \/ Hit(x)
KeepStep == \E gone, ks : Keeps(gone, ks) /\ Reclaims(gone) /\ Bumped(ks)

LEMMA SameStep ==
  ASSUME Inv, cache' = cache, lru' = lru
  PROVE  KeepStep
BY SameMem DEF KeepStep, Reclaims, Bumped

LEMMA GetStep ==
  ASSUME Inv, NEW k, SetMem(AfterGet(k))
  PROVE  KeepStep
BY GetMem DEF KeepStep, Reclaims, Bumped

\* The commands of connection c that do not store.
LEMMA KeepStepInv ==
  ASSUME Inv, KeepStep, NEW c \in Conn, NEW r, pending' = [pending EXCEPT ![c] = r],
         r = NoEntry \/ (r \in CommandAt(cas_id) /\ r.comm \notin Storage),
         r # NoEntry /\ r.comm \in Looking => r.key \in DOMAIN cache' /\ cache'[r.key].cas = r.id,
         UNCHANGED <<cas_id, clock, flushed_cas>>
  PROVE  Inv'
<1>1. PICK gone, ks : Keeps(gone, ks)
  BY DEF KeepStep
<1>2. PendOK(pending, cas_id)
  BY DEF Inv
<1>3. PICK q : q = pending'
  OBVIOUS
<1>4. q = [pending EXCEPT ![c] = r]
  BY <1>3
<1>5. PendOK(q, cas_id)
  <2>1. CASE r = NoEntry
    BY <1>2, <1>4, <2>1, PendEnd
  <2>2. CASE r \in CommandAt(cas_id)
    BY <1>2, <1>4, <2>2, PendBegin
  <2> QED BY <2>1, <2>2
<1>6. ~(r # NoEntry /\ r.comm \in Storage)
  OBVIOUS
<1>7. /\ NoMoreStray(cache', pending, q)
      /\ \A d \in Conn : DoingIn(q, d, Storage) => DoingIn(pending, d, Storage)
  BY <1>2, <1>4, <1>6, EndsOrLooks
<1> QED BY <1>1, <1>3, <1>5, <1>7, KeepsInv

LEMMA HitFacts ==
  ASSUME Inv, NEW k, Hit(k)
  PROVE  /\ k \in DOMAIN cache /\ k \in Key /\ cache[k].val \in Value /\ cache[k].exptime \in RelTime
         /\ cache[k].cas \in 1..cas_id /\ cache[k].time \in StartTime..current_time
<1>1. k \in DOMAIN cache
  BY DEF Hit
<1>2. k \in Key /\ cache[k] \in ItemAt(current_time, cas_id)
  BY <1>1, Basics
<1> QED BY <1>1, <1>2 DEF ItemAt

\* The record of a command that has found the item of k.
Found(comm, k, e) ==
  [comm |-> comm, key |-> k, val |-> cache[k].val, exptime |-> e,
   cas |-> cache[k].cas, id |-> cache[k].cas]

LEMMA FoundFacts ==
  ASSUME Inv, NEW k, Hit(k), NEW comm \in Looking, NEW e \in {0} \cup TouchTimes
  PROVE  Found(comm, k, e) \in CommandAt(cas_id) /\ Found(comm, k, e).comm \notin Storage
<1>1. /\ k \in DOMAIN cache /\ k \in Key /\ cache[k].val \in Value
      /\ cache[k].cas \in 1..cas_id
  BY HitFacts
<1>2. comm \notin Storage
  BY DEF Storage, Looking
<1> QED BY <1>1, <1>2 DEF Found, CommandAt

LEMMA LookStep ==
  ASSUME Inv, NEW c \in Conn, NEW comm \in Looking, NEW k, item_get(c, comm, k),
         UNCHANGED <<cas_id, clock, flushed_cas>>
  PROVE  Inv' /\ KeepStep
<1>1. CASE Hit(k)
  <2>1. pending' = [pending EXCEPT ![c] = Found(comm, k, 0)] /\ cache' = cache /\ lru' = lru
    BY <1>1 DEF item_get, Begin, SetMem, Mem, Found
  <2>2. KeepStep
    BY <2>1, SameStep
  <2>3. PICK r : r = Found(comm, k, 0)
    OBVIOUS
  <2>4. r \in CommandAt(cas_id) /\ r.comm \notin Storage
    BY <1>1, <2>3, FoundFacts
  <2>5. r.key \in DOMAIN cache' /\ cache'[r.key].cas = r.id
    BY <1>1, <2>1, <2>3, HitFacts DEF Found
  <2> QED BY <2>1, <2>2, <2>3, <2>4, <2>5, KeepStepInv
<1>2. CASE ~Hit(k)
  <2>1. pending' = [pending EXCEPT ![c] = NoEntry] /\ SetMem(AfterGet(k))
    BY <1>2 DEF item_get, Begin, End
  <2>2. KeepStep
    BY <2>1, GetStep
  <2> QED BY <2>1, <2>2, KeepStepInv
<1> QED BY <1>1, <1>2

LEMMA GetInv ==
  ASSUME Inv, NEW c \in Conn, NEW k \in Key, process_get_command(c, k)
  PROVE  Inv' /\ KeepStep
<1>1. "get" \in Looking
  BY DEF Looking
<1> QED BY <1>1, LookStep DEF process_get_command

LEMMA DeleteInv ==
  ASSUME Inv, NEW c \in Conn, NEW k \in Key, process_delete_command(c, k)
  PROVE  Inv' /\ KeepStep
<1>1. "delete" \in Looking
  BY DEF Looking
<1> QED BY <1>1, LookStep DEF process_delete_command

LEMMA StaleInv ==
  ASSUME Inv, NEW c \in Conn, FindStale(c)
  PROVE  Inv' /\ KeepStep
<1>1. "oom" \in Looking
  BY DEF Looking
<1>2. PICK k : k = pending[c].key
  OBVIOUS
<1> QED BY <1>1, <1>2, LookStep DEF FindStale

LEMMA UpdateInv ==
  ASSUME Inv, NEW c \in Conn, item_update(c)
  PROVE  Inv' /\ KeepStep
<1>1. pending' = [pending EXCEPT ![c] = NoEntry] /\ Doing(c, {"get", "touch"})
  BY DEF item_update, End, Begin
<1>2. KeepStep
  <2>1. CASE StillLinked(c)
    <3>1. PICK k : k = pending[c].key
      OBVIOUS
    <3>2. k \in DOMAIN cache
      BY <2>1, <3>1 DEF StillLinked
    <3>3. Keeps({}, {k})
      BY <2>1, <3>1, <3>2, UpdateMem DEF item_update
    <3>4. Doing(c, Looking)
      BY <1>1 DEF Doing, Looking
    <3>5. Held(k)
      BY <2>1, <3>1, <3>4 DEF Held
    <3> QED BY <3>3, <3>5 DEF KeepStep, Reclaims, Bumped
  <2>2. CASE ~StillLinked(c)
    <3>1. cache' = cache /\ lru' = lru
      BY <2>2 DEF item_update, SetMem, Mem
    <3> QED BY <3>1, SameStep
  <2> QED BY <2>1, <2>2
<1>3. UNCHANGED <<cas_id, clock, flushed_cas>>
  BY DEF item_update
<1> QED BY <1>1, <1>2, <1>3, KeepStepInv

\* item_unlink takes the item the command has found, if that is still there.
LEMMA UnlinkInv ==
  ASSUME Inv, NEW c \in Conn, item_unlink(c)
  PROVE  /\ Inv'
         /\ \E gone : /\ Keeps(gone, {}) /\ gone \subseteq {pending[c].key}
                      /\ StillLinked(c) => gone = {pending[c].key}
<1>1. pending' = [pending EXCEPT ![c] = NoEntry] /\ Doing(c, {"delete", "oom"})
  BY DEF item_unlink, End, Begin
<1>2. PICK gone : /\ Keeps(gone, {}) /\ gone \subseteq {pending[c].key}
                  /\ StillLinked(c) => gone = {pending[c].key}
  <2>1. CASE StillLinked(c)
    <3>1. PICK ks : ks = {pending[c].key}
      OBVIOUS
    <3>2. Keeps(ks \cap DOMAIN cache, {})
      BY <2>1, <3>1, UnlinkMem DEF item_unlink
    <3>3. ks \cap DOMAIN cache = {pending[c].key}
      BY <2>1, <3>1 DEF StillLinked
    <3> QED BY <3>2, <3>3
  <2>2. CASE ~StillLinked(c)
    <3>1. cache' = cache /\ lru' = lru
      BY <2>2 DEF item_unlink, SetMem, Mem
    <3> QED BY <2>2, <3>1, SameMem
  <2> QED BY <2>1, <2>2
<1>3. UNCHANGED <<cas_id, clock, flushed_cas>>
  BY DEF item_unlink
<1>4. PICK q : q = pending'
  OBVIOUS
<1>5. PendOK(pending, cas_id) /\ q = [pending EXCEPT ![c] = NoEntry]
  BY <1>1, <1>4 DEF Inv
<1>6. PICK none : none = NoEntry
  OBVIOUS
<1>7. PendOK(q, cas_id)
  BY <1>5, PendEnd
<1>8. /\ NoMoreStray(cache', pending, q)
      /\ \A d \in Conn : DoingIn(q, d, Storage) => DoingIn(pending, d, Storage)
  BY <1>5, <1>6, EndsOrLooks
<1>9. Inv'
  BY <1>2, <1>3, <1>4, <1>7, <1>8, KeepsInv
<1> QED BY <1>2, <1>9

-----------------------------------------------------------------------------
(* Times and values *)

LEMMA ModFacts ==
  ASSUME NEW n \in Nat \ {0}
  PROVE  /\ \A x \in Int : x % n \in 0..(n - 1)
         /\ \A x \in 0..(n - 1) : x % n = x
OBVIOUS

LEMMA RealtimeType ==
  ASSUME Inv, NEW e \in Int
  PROVE  realtime(e) \in RelTime
<1>1. RelTimeMod \in Nat \ {0, 1} /\ current_time \in Nat /\ process_started \in Nat
  BY Basics, ClockAssumption DEF Times
<1>2. \A x \in Int : x % RelTimeMod \in RelTime
  BY <1>1, ModFacts DEF RelTime
<1>3. 0 \in RelTime /\ 1 \in RelTime
  BY <1>1 DEF RelTime
<1>4. e - process_started \in Int /\ e + current_time \in Int
  BY <1>1
<1> QED BY <1>2, <1>3, <1>4 DEF realtime

LEMMA UpdateExpTimeType ==
  ASSUME Inv, NEW e \in ExpTimes
  PROVE  UpdateExpTime(e) \in RelTime
<1>1. PICK x : x = IF e < 0 THEN REALTIME_MAXDELTA + 1 ELSE e
  OBVIOUS
<1>2. x \in Int
  BY <1>1, ClockAssumption
<1>3. UpdateExpTime(e) = realtime(x)
  BY <1>1 DEF UpdateExpTime
<1> QED BY <1>2, <1>3, RealtimeType

LEMMA ValueIs ==
  \A v : v \in Value <=> /\ v \in Seq(Digit \cup Token \cup {Space}) /\ Len(v) \in 1..MaxLen
<1> DEFINE X == Digit \cup Token \cup {Space}
<1>0. MaxLen \in Nat
  BY BaseAssumption
<1>1. ASSUME NEW v \in Value PROVE v \in Seq(X) /\ Len(v) \in 1..MaxLen
  <2>1. PICK n \in 1..MaxLen : v \in [1..n -> X]
    BY DEF Value
  <2>2. v \in Seq(X)
    BY <1>0, <2>1, SeqDef
  <2>3. Len(v) = n
    BY <1>0, <2>1, <2>2
  <2> QED BY <2>1, <2>2, <2>3
<1>2. ASSUME NEW v \in Seq(X), Len(v) \in 1..MaxLen PROVE v \in Value
  <2>1. v \in [1..Len(v) -> X]
    OBVIOUS
  <2> QED BY <1>2, <2>1 DEF Value
<1> QED BY <1>1, <1>2

LEMMA ConcatValue ==
  ASSUME NEW u \in Value, NEW v \in Value, Len(u) + Len(v) <= MaxLen
  PROVE  u \o v \in Value
<1> DEFINE X == Digit \cup Token \cup {Space}
<1>0. MaxLen \in Nat
  BY BaseAssumption
<1>1. u \in Seq(X) /\ v \in Seq(X) /\ Len(u) \in 1..MaxLen /\ Len(v) \in 1..MaxLen
  BY ValueIs
<1> HIDE DEF X
<1>2. u \o v \in Seq(X) /\ Len(u \o v) = Len(u) + Len(v)
  BY <1>1, ConcatProperties
<1>3. Len(u \o v) \in 1..MaxLen
  BY <1>0, <1>1, <1>2
<1> QED BY <1>2, <1>3, ValueIs DEF X

LEMMA NumeralValue == \A s \in Numeral : s \in Value
<1>1. \A n : [1..n -> Digit] \subseteq [1..n -> Digit \cup Token \cup {Space}]
  OBVIOUS
<1> QED BY <1>1 DEF Numeral, Value

LEMMA ResultType ==
  ASSUME NEW v, Numeric(v), NEW op, NEW d \in Deltas
  PROVE  Result(op, v, d) \in Value
<1>1. ValMod \in Nat \ {0} /\ d \in Nat
  BY BaseAssumption, SizeAssumption
<1>2. Number(v) \in 0..(ValMod - 1)
  BY DEF Numeric, Number
<1>3. PICK n : n = Number(v)
  OBVIOUS
<1>4. PICK x : x = AddDelta(op, n, d)
  OBVIOUS
<1>5. n \in Nat /\ n + d \in Int /\ n <= ValMod - 1
  BY <1>1, <1>2, <1>3
<1>6. (n + d) % ValMod \in 0..(ValMod - 1)
  BY <1>1, <1>5, ModFacts
<1>7. x \in 0..(ValMod - 1)
  BY <1>1, <1>4, <1>5, <1>6 DEF AddDelta
<1>8. \E s \in Numeral : IsText(s, x)
  BY <1>7, TextAssumption
<1>9. Text(x) \in Numeral
  BY <1>8 DEF Text
<1> QED BY <1>3, <1>4, <1>9, NumeralValue DEF Result

LEMMA PaddedValue ==
  ASSUME NEW s \in Value, NEW v \in Value, Len(s) <= Len(v)
  PROVE  Padded(s, Len(v)) \in Value
<1> DEFINE X == Digit \cup Token \cup {Space}
<1>0. MaxLen \in Nat
  BY BaseAssumption
<1>1. s \in Seq(X) /\ Len(s) \in 1..MaxLen /\ Len(v) \in 1..MaxLen
  BY ValueIs
<1>2. PICK n : n = Len(v) - Len(s)
  OBVIOUS
<1>3. n \in Nat
  BY <1>0, <1>1, <1>2
<1>4. PICK t : t = [i \in 1..n |-> Space]
  OBVIOUS
<1>5. t \in [1..n -> X]
  BY <1>4
<1>6. t \in Seq(X) /\ Len(t) = n
  BY <1>3, <1>5, SeqDef
<1> HIDE DEF X
<1>7. s \o t \in Seq(X) /\ Len(s \o t) = Len(s) + Len(t)
  BY <1>1, <1>6, ConcatProperties
<1>8. Len(s \o t) \in 1..MaxLen
  BY <1>0, <1>1, <1>2, <1>6, <1>7
<1> QED BY <1>2, <1>4, <1>7, <1>8, ValueIs DEF X, Padded

-----------------------------------------------------------------------------
(* An item is written over in place *)

LEMMA RewriteOK ==
  ASSUME NEW ca, NEW l, NEW now, NEW last \in Nat, NEW new \in Nat, last <= new,
         MemOK(ca, l, now, last), NEW k \in DOMAIN ca,
         NEW it \in ItemAt(now, new), it.time = ca[k].time,
         NEW r, r = [ca EXCEPT ![k] = it]
  PROVE  MemOK(r, l, now, new)
<1>1. /\ DOMAIN ca \subseteq Key /\ ca \in [DOMAIN ca -> ItemAt(now, last)]
      /\ List(l, Node, Range(l)) /\ Range(l) \ {Crawler} = DOMAIN ca /\ Sorted(ca, l)
  BY DEF MemOK
<1>2. \A x \in ItemAt(now, last) : x \in ItemAt(now, new)
  BY DEF ItemAt
<1>3. DOMAIN r = DOMAIN ca /\ r[k] = it /\ \A x \in DOMAIN ca : x # k => r[x] = ca[x]
  OBVIOUS
<1>4. r \in [DOMAIN r -> ItemAt(now, new)]
  BY <1>1, <1>2
<1>5. \A x \in DOMAIN ca : r[x].time = ca[x].time
  BY <1>3
<1>6. Sorted(r, l)
  <2> SUFFICES ASSUME NEW a, NEW b, Before(l, a, b), a # Crawler, b # Crawler
               PROVE  r[a].time >= r[b].time
    BY DEF Sorted
  <2>1. a \in Range(l) /\ b \in Range(l)
    BY <1>1, BeforeIn
  <2>2. a \in DOMAIN ca /\ b \in DOMAIN ca
    BY <1>1, <2>1
  <2>3. ca[a].time >= ca[b].time
    BY <1>1 DEF Sorted
  <2> QED BY <1>5, <2>2, <2>3
<1> QED BY <1>1, <1>3, <1>4, <1>6 DEF MemOK

\* touch: the item of k has the expiry time e.
Touches(k, e) ==
  /\ k \in DOMAIN cache /\ DOMAIN cache' = DOMAIN cache
  /\ \A x \in DOMAIN cache : x # k => cache'[x] = cache[x]
  /\ cache'[k].val = cache[k].val /\ cache'[k].cas = cache[k].cas
  /\ cache'[k].time = cache[k].time /\ cache'[k].exptime = realtime(e)

LEMMA TouchHit ==
  ASSUME Inv, NEW c \in Conn, NEW k \in Key, NEW e \in TouchTimes,
         process_touch_command(c, k, e), Hit(k)
  PROVE  Inv' /\ Touches(k, e)
<1>1. k \in DOMAIN cache /\ cache[k] \in ItemAt(current_time, cas_id)
  BY HitFacts, Basics
<1>2. PICK it : it = [cache[k] EXCEPT !.exptime = realtime(e)]
  OBVIOUS
<1>3. realtime(e) \in RelTime
  <2>1. e \in Int
    BY ClockAssumption
  <2> QED BY <2>1, RealtimeType
<1>4. it \in ItemAt(current_time, cas_id) /\ it.time = cache[k].time /\ it.cas = cache[k].cas
      /\ it.val = cache[k].val /\ it.exptime = realtime(e)
  BY <1>1, <1>2, <1>3 DEF ItemAt
<1>5. cache' = [cache EXCEPT ![k] = it] /\ lru' = lru
  BY <1>2 DEF process_touch_command, SetMem, Mem
<1>6. MemOK(cache', lru', current_time, cas_id)
  <2>1. PICK r : r = cache'
    OBVIOUS
  <2>2. cas_id \in Nat /\ cas_id <= cas_id /\ MemOK(cache, lru, current_time, cas_id)
    BY Basics DEF Inv, Memory
  <2> QED BY <1>1, <1>4, <1>5, <2>1, <2>2, RewriteOK
<1>7. Touches(k, e)
  BY <1>1, <1>4, <1>5 DEF Touches
<1>8. PICK f : f = Found("touch", k, e)
  OBVIOUS
<1>9. pending' = [pending EXCEPT ![c] = f]
  BY <1>8 DEF process_touch_command, Begin, Found
<1>10. f \in CommandAt(cas_id) /\ f.comm \notin Storage
  <2>1. "touch" \in Looking
    BY DEF Looking
  <2> QED BY <1>8, <2>1, FoundFacts
<1>11. f.key \in DOMAIN cache' /\ cache'[f.key].cas = f.id
  BY <1>7, <1>8 DEF Touches, Found
<1>12. UNCHANGED <<cas_id, clock, flushed_cas>>
  BY DEF process_touch_command
<1>13. PICK q : q = pending'
  OBVIOUS
<1>14. PendOK(q, cas_id)
  BY <1>9, <1>10, <1>13, PendBegin DEF Inv
<1>15. /\ NoMoreStray(cache', pending, q)
       /\ \A d \in Conn : DoingIn(q, d, Storage) => DoingIn(pending, d, Storage)
  <2>1. PendOK(pending, cas_id) /\ ~(f # NoEntry /\ f.comm \in Storage)
    BY <1>10 DEF Inv
  <2> QED BY <1>9, <1>11, <1>13, <2>1, EndsOrLooks
<1>16. UsedIn(cache', q) <= MaxItems
  <2>1. IsFiniteSet(DOMAIN cache') /\ MaxItems \in Nat
    BY <1>7, Basics DEF Touches
  <2>2. Stray(cache', pending) = Stray(cache, pending)
    BY <1>7 DEF Stray, LinkedIn, Touches
  <2>3. UsedIn(cache', pending) = UsedIn(cache, pending)
    BY <1>7, <2>2 DEF UsedIn, Orphans, Touches
  <2>4. UsedIn(cache', q) <= UsedIn(cache', pending)
    BY <1>15, <2>1, UsedGoesOn
  <2>5. UsedIn(cache', q) \in Nat /\ UsedIn(cache', pending) \in Nat
    BY <2>1, CountsFinite
  <2> QED BY <2>1, <2>3, <2>4, <2>5 DEF Inv
<1>17. cas_id' \in cas_id..MaxCas /\ cas_id' = cas_id
  BY <1>12, Basics DEF Inv
<1>18. Inv'
  BY <1>6, <1>12, <1>13, <1>14, <1>16, <1>17, InvNext
<1> QED BY <1>7, <1>18

LEMMA TouchMiss ==
  ASSUME Inv, NEW c \in Conn, NEW k \in Key, NEW e \in TouchTimes,
         process_touch_command(c, k, e), ~Hit(k)
  PROVE  Inv' /\ KeepStep
<1>1. "touch" \in Looking
  BY DEF Looking
<1> QED BY <1>1, LookStep DEF process_touch_command

LEMMA DeltaFailsInv ==
  ASSUME Inv, NEW c \in Conn, NEW op, NEW k \in Key, DeltaFails(c, op, k)
  PROVE  Inv' /\ KeepStep
<1>1. KeepStep
  BY GetStep DEF DeltaFails
<1>2. PICK gone, ks : Keeps(gone, ks)
  BY <1>1 DEF KeepStep
<1>3. UNCHANGED <<pending, cas_id, clock, flushed_cas>>
  BY DEF DeltaFails
<1>4. NoMoreStray(cache', pending, pending)
  BY DEF NoMoreStray
<1>5. Inv'
  BY <1>2, <1>3, <1>4, KeepsInv DEF Inv
<1> QED BY <1>1, <1>5

-----------------------------------------------------------------------------
(* Steps that store: the item of k has the value v and the next cas id *)

Puts(gone, ks, k, v) ==
  /\ gone \subseteq DOMAIN cache /\ DOMAIN cache' = (DOMAIN cache \ gone) \cup {k}
  /\ \A x \in DOMAIN cache \ gone : x # k =>
       /\ SameItem(cache[x], cache'[x])
       /\ cache'[x].time = cache[x].time \/ (x \in ks /\ cache'[x].time = current_time)
  /\ cache'[k].val = v /\ cache'[k].cas = cas_id + 1
PutStep(k, v) ==
  /\ cas_id' = cas_id + 1
  /\ \E gone, ks : Puts(gone, ks, k, v) /\ Reclaims(gone \ {k}) /\ Bumped(ks)

LEMMA FreshId ==
  ASSUME Inv, NEW c \in Conn, DoingIn(pending, c, Looking)
  PROVE  pending[c].id # cas_id + 1
<1>1. pending[c].id \in 1..cas_id /\ cas_id \in Nat
  BY PendFacts, Basics DEF DoingIn
<1> QED BY <1>1

LEMMA ReplaceMem ==
  ASSUME Inv, NEW m, MemOK(m.cache, m.lru, current_time, cas_id),
         NEW gone, NEW ks, Change(cache, gone, ks, m.cache), Reclaims(gone), Bumped(ks),
         NEW k \in Key, NEW v \in Value, NEW e \in RelTime,
         SetMem(do_item_replace(m, k, v, e)), cas_id' = cas_id + 1
  PROVE  /\ MemOK(cache', lru', current_time, cas_id + 1) /\ PutStep(k, v)
         /\ IsFiniteSet(DOMAIN m.cache) /\ IsFiniteSet(DOMAIN cache')
         /\ UsedIn(cache', pending) <= UsedIn(m.cache, pending) + 1
<1>1. PICK K : K = {k}
  OBVIOUS
<1>2. PICK n : n = do_item_unlink(m, K)
  OBVIOUS
<1>3. MemOK(n.cache, n.lru, current_time, cas_id) /\ Unlinks(m.cache, K, n.cache)
  BY <1>2, UnlinkOK
<1>4. PICK r : r = do_item_link(n, k, v, e)
  OBVIOUS
<1>5. cache' = r.cache /\ lru' = r.lru
  BY <1>1, <1>2, <1>4 DEF SetMem, do_item_replace
<1>6. /\ current_time \in Nat /\ current_time >= StartTime /\ cas_id \in Nat
      /\ IsFiniteSet(DOMAIN cache)
  BY Basics
<1>7. k \notin DOMAIN n.cache
  BY <1>1, <1>3 DEF Unlinks
<1>8. /\ MemOK(r.cache, r.lru, current_time, cas_id + 1)
      /\ DOMAIN r.cache = DOMAIN n.cache \cup {k}
      /\ r.cache[k] = [val |-> v, exptime |-> e, time |-> current_time, cas |-> cas_id + 1]
      /\ \A x \in DOMAIN n.cache : r.cache[x] = n.cache[x]
  BY <1>3, <1>4, <1>6, <1>7, LinkOK
<1>9. r.cache[k].val = v /\ r.cache[k].cas = cas_id + 1
  BY <1>8
<1>10. PICK g : g = gone \cup (K \cap DOMAIN cache)
  OBVIOUS
<1>11. Puts(g, ks, k, v)
  BY <1>1, <1>3, <1>5, <1>8, <1>9, <1>10 DEF Puts, Change, Unlinks
<1>12. PutStep(k, v)
  <2>1. Reclaims(g \ {k})
    BY <1>1, <1>10 DEF Reclaims
  <2> QED BY <1>11, <2>1 DEF PutStep
<1>13. IsFiniteSet(DOMAIN m.cache)
  BY <1>6, UsedChange
<1>14. Change(m.cache, K \cap DOMAIN m.cache, {}, n.cache)
  BY <1>3 DEF Unlinks, Change, SameItem
<1>15. IsFiniteSet(DOMAIN n.cache) /\ UsedIn(n.cache, pending) <= UsedIn(m.cache, pending)
  <2>1. PICK G : G = K \cap DOMAIN m.cache
    OBVIOUS
  <2>2. PICK mc : mc = m.cache
    OBVIOUS
  <2>3. PICK nc : nc = n.cache
    OBVIOUS
  <2>4. Change(mc, G, {}, nc) /\ IsFiniteSet(DOMAIN mc)
    BY <1>13, <1>14, <2>1, <2>2, <2>3
  <2>5. IsFiniteSet(DOMAIN nc) /\ UsedIn(nc, pending) <= UsedIn(mc, pending)
    BY <2>4, UsedChange
  <2> QED BY <2>2, <2>3, <2>5
<1>16. \A c \in Conn : DoingIn(pending, c, Looking) => pending[c].id # cache'[k].cas
  BY <1>5, <1>9, FreshId
<1>17. IsFiniteSet(DOMAIN cache') /\ UsedIn(cache', pending) = UsedIn(n.cache, pending) + 1
  <2>1. PICK nc : nc = n.cache
    OBVIOUS
  <2>2. PICK rc : rc = cache'
    OBVIOUS
  <2>3. /\ IsFiniteSet(DOMAIN nc) /\ k \notin DOMAIN nc /\ DOMAIN rc = DOMAIN nc \cup {k}
        /\ \A x \in DOMAIN nc : rc[x] = nc[x]
        /\ \A c \in Conn : DoingIn(pending, c, Looking) => pending[c].id # rc[k].cas
    BY <1>5, <1>7, <1>8, <1>15, <1>16, <2>1, <2>2
  <2>4. IsFiniteSet(DOMAIN rc) /\ UsedIn(rc, pending) = UsedIn(nc, pending) + 1
    BY <2>3, UsedLinked
  <2> QED BY <2>1, <2>2, <2>4
<1>18. UsedIn(m.cache, pending) \in Nat /\ UsedIn(n.cache, pending) \in Nat
  BY <1>13, <1>15, CountsFinite
<1>19. UsedIn(cache', pending) <= UsedIn(m.cache, pending) + 1
  BY <1>15, <1>17, <1>18
<1> QED BY <1>5, <1>8, <1>12, <1>13, <1>17, <1>19

\* A storage command of c stores.
LEMMA StoreInv ==
  ASSUME Inv, NEW c \in Conn, Doing(c, Storage), NEW m,
         MemOK(m.cache, m.lru, current_time, cas_id),
         NEW gone, NEW ks, Change(cache, gone, ks, m.cache), Reclaims(gone), Bumped(ks),
         NEW v \in Value, NEW e \in RelTime, Store(c, m, v, e)
  PROVE  Inv' /\ PutStep(pending[c].key, v)
<1>1. PICK k : k = pending[c].key
  OBVIOUS
<1>2. /\ cas_id < MaxCas /\ SetMem(do_item_replace(m, k, v, e)) /\ cas_id' = cas_id + 1
      /\ pending' = [pending EXCEPT ![c] = NoEntry] /\ UNCHANGED <<clock, flushed_cas>>
  BY <1>1 DEF Store, End, Begin
<1>3. k \in Key
  BY <1>1, PendFacts DEF Doing
<1>4. /\ MemOK(cache', lru', current_time, cas_id + 1) /\ PutStep(k, v)
      /\ IsFiniteSet(DOMAIN m.cache) /\ IsFiniteSet(DOMAIN cache')
      /\ UsedIn(cache', pending) <= UsedIn(m.cache, pending) + 1
  BY <1>2, <1>3, ReplaceMem
<1>5. IsFiniteSet(DOMAIN cache) /\ cas_id \in Nat /\ MaxCas \in Nat /\ MaxItems \in Nat
  BY Basics
<1>6. UsedIn(m.cache, pending) <= UsedIn(cache, pending)
  BY <1>5, UsedChange
<1>7. PICK q : q = pending'
  OBVIOUS
<1>8. PendOK(pending, cas_id) /\ q = [pending EXCEPT ![c] = NoEntry]
  BY <1>2, <1>7 DEF Inv
<1>9. PendOK(q, cas_id + 1)
  <2>1. PendOK(q, cas_id)
    BY <1>8, PendEnd
  <2> QED BY <1>5, <2>1, PendGrows
<1>10. /\ NoMoreStray(cache', pending, q) /\ ~DoingIn(q, c, Storage)
       /\ \A d \in Conn : DoingIn(q, d, Storage) => DoingIn(pending, d, Storage)
  <2>1. PICK none : none = NoEntry
    OBVIOUS
  <2> QED BY <1>8, <2>1, EndsOrLooks
<1>11. UsedIn(cache', q) <= UsedIn(cache', pending) - 1
  <2>1. DoingIn(pending, c, Storage)
    BY DoingIs
  <2> QED BY <1>4, <1>10, <2>1, UsedStored
<1>12. /\ UsedIn(cache', q) \in Nat /\ UsedIn(cache', pending) \in Nat
       /\ UsedIn(m.cache, pending) \in Nat /\ UsedIn(cache, pending) \in Nat
  BY <1>4, <1>5, CountsFinite
<1>13. UsedIn(cache', q) <= MaxItems
  BY <1>4, <1>5, <1>6, <1>11, <1>12 DEF Inv
<1>14. cas_id' \in cas_id..MaxCas
  BY <1>2, <1>5
<1>15. Inv'
  BY <1>2, <1>4, <1>7, <1>9, <1>13, <1>14, InvNext
<1> QED BY <1>1, <1>4, <1>15

\* A storage command of c does not store.
LEMMA LeaveInv ==
  ASSUME Inv, NEW c \in Conn, NEW m, NEW res, Leave(c, m, res), KeepStep
  PROVE  Inv'
<1>1. pending' = [pending EXCEPT ![c] = NoEntry] /\ UNCHANGED <<cas_id, clock, flushed_cas>>
  BY DEF Leave, End, Begin
<1> QED BY <1>1, KeepStepInv

LEMMA MemChange ==
  ASSUME Inv, NEW k
  PROVE  /\ Change(cache, {}, {}, Mem.cache) /\ Reclaims({}) /\ Bumped({})
         /\ \E gone : /\ Change(cache, gone, {}, AfterGet(k).cache) /\ Reclaims(gone)
                      /\ MemOK(AfterGet(k).cache, AfterGet(k).lru, current_time, cas_id)
<1>1. Change(cache, {}, {}, Mem.cache) /\ Reclaims({}) /\ Bumped({})
  BY MemIs DEF Change, SameItem, Reclaims, Bumped
<1>2. CASE Hit(k)
  BY <1>1, <1>2, MemIs DEF AfterGet
<1>3. CASE ~Hit(k)
  <2>1. PICK m : m = Mem
    OBVIOUS
  <2>2. PICK K : K = {k}
    OBVIOUS
  <2>3. PICK r : r = do_item_unlink(m, K)
    OBVIOUS
  <2>4. m.cache = cache /\ MemOK(m.cache, m.lru, current_time, cas_id)
    BY <2>1, MemIs
  <2>5. MemOK(r.cache, r.lru, current_time, cas_id) /\ Unlinks(m.cache, K, r.cache)
    BY <2>3, <2>4, UnlinkOK
  <2>6. Change(cache, K \cap DOMAIN cache, {}, r.cache)
    BY <2>4, <2>5 DEF Unlinks, Change, SameItem
  <2>7. AfterGet(k) = r
    BY <1>3, <2>1, <2>2, <2>3 DEF AfterGet
  <2>8. Reclaims(K \cap DOMAIN cache)
    BY <1>3, <2>2 DEF Reclaims
  <2> QED BY <1>1, <2>5, <2>6, <2>7, <2>8
<1> QED BY <1>1, <1>2, <1>3

\* What a storage command of c needs to know of its own item.
LEMMA OwnFacts ==
  ASSUME Inv, NEW c \in Conn, NEW comms, Doing(c, comms), comms \subseteq Storage
  PROVE  /\ Doing(c, Storage) /\ pending[c].key \in Key /\ pending[c].val \in Value
         /\ pending[c].exptime \in RelTime /\ Len(pending[c].val) = 1
<1>1. pending[c] # NoEntry /\ pending[c].comm \in Storage
  BY DEF Doing
<1>2. PICK t \in Token : pending[c].val = <<t>>
  BY <1>1, PendFacts
<1> QED BY <1>1, <1>2, PendFacts DEF Doing

\* Storing when do_item_get has left the memory AfterGet, or found the item.
LEMMA StoreAfterGet ==
  ASSUME Inv, NEW c \in Conn, NEW comms, Doing(c, comms), comms \subseteq Storage,
         Store(c, AfterGet(pending[c].key), pending[c].val, pending[c].exptime)
  PROVE  Inv' /\ PutStep(pending[c].key, pending[c].val)
<1>1. PICK k : k = pending[c].key
  OBVIOUS
<1>2. PICK m : m = AfterGet(k)
  OBVIOUS
<1>3. PICK gone : /\ Change(cache, gone, {}, m.cache) /\ Reclaims(gone)
                  /\ MemOK(m.cache, m.lru, current_time, cas_id)
  BY <1>2, MemChange
<1>4. Bumped({})
  BY DEF Bumped
<1>5. PICK v, e : v = pending[c].val /\ e = pending[c].exptime
  OBVIOUS
<1>6. Doing(c, Storage) /\ v \in Value /\ e \in RelTime
  BY <1>5, OwnFacts
<1>7. Store(c, m, v, e)
  BY <1>1, <1>2, <1>5
<1> QED BY <1>3, <1>4, <1>5, <1>6, <1>7, StoreInv

LEMMA StoreOver ==
  ASSUME Inv, NEW c \in Conn, NEW comms, Doing(c, comms), comms \subseteq Storage,
         Store(c, Mem, pending[c].val, pending[c].exptime)
  PROVE  Inv' /\ PutStep(pending[c].key, pending[c].val)
<1>1. PICK m : m = Mem
  OBVIOUS
<1>2. /\ Change(cache, {}, {}, m.cache) /\ Reclaims({}) /\ Bumped({})
      /\ MemOK(m.cache, m.lru, current_time, cas_id)
  BY <1>1, MemIs, MemChange
<1>3. PICK v, e : v = pending[c].val /\ e = pending[c].exptime
  OBVIOUS
<1>4. Doing(c, Storage) /\ v \in Value /\ e \in RelTime
  BY <1>3, OwnFacts
<1>5. Store(c, m, v, e)
  BY <1>1, <1>3
<1> QED BY <1>2, <1>3, <1>4, <1>5, StoreInv

LEMMA LeaveAfterGet ==
  ASSUME Inv, NEW c \in Conn, NEW k, NEW res, Leave(c, AfterGet(k), res)
  PROVE  Inv' /\ KeepStep
<1>1. KeepStep
  BY GetStep DEF Leave
<1>2. PICK m : m = AfterGet(k)
  OBVIOUS
<1> QED BY <1>1, <1>2, LeaveInv

LEMMA LeaveSame ==
  ASSUME Inv, NEW c \in Conn, NEW res, Leave(c, Mem, res)
  PROVE  Inv' /\ KeepStep
<1>1. cache' = cache /\ lru' = lru
  BY DEF Leave, SetMem, Mem
<1>2. KeepStep
  BY <1>1, SameStep
<1>3. PICK m : m = Mem
  OBVIOUS
<1> QED BY <1>2, <1>3, LeaveInv

LEMMA StoreSetInv ==
  ASSUME Inv, NEW c \in Conn, StoreSet(c)
  PROVE  Inv' /\ PutStep(pending[c].key, pending[c].val)
<1>1. {"set"} \subseteq Storage
  BY DEF Storage
<1>2. Doing(c, {"set"}) /\ Store(c, AfterGet(pending[c].key), pending[c].val, pending[c].exptime)
  BY DEF StoreSet
<1> QED BY <1>1, <1>2, StoreAfterGet

LEMMA StoreAddInv ==
  ASSUME Inv, NEW c \in Conn, StoreAdd(c)
  PROVE  /\ Inv'
         /\ \/ ~Hit(pending[c].key) /\ PutStep(pending[c].key, pending[c].val)
            \/ Hit(pending[c].key) /\ KeepStep
<1>1. {"add"} \subseteq Storage
  BY DEF Storage
<1>2. Doing(c, {"add"})
  BY DEF StoreAdd
<1>3. CASE Hit(pending[c].key)
  <2>1. PICK m : m = do_item_update(Mem, {pending[c].key})
    OBVIOUS
  <2>2. Leave(c, m, "NOT_STORED")
    BY <1>3, <2>1 DEF StoreAdd
  <2>3. PICK k : k = pending[c].key
    OBVIOUS
  <2>4. SetMem(do_item_update(Mem, {k})) /\ k \in DOMAIN cache /\ Hit(k)
    BY <1>3, <2>1, <2>2, <2>3, HitFacts DEF Leave
  <2>5. Keeps({}, {k})
    BY <2>4, UpdateMem
  <2>6. KeepStep
    BY <2>4, <2>5 DEF KeepStep, Reclaims, Bumped
  <2> QED BY <1>3, <2>2, <2>6, LeaveInv
<1>4. CASE ~Hit(pending[c].key)
  <2>1. Store(c, AfterGet(pending[c].key), pending[c].val, pending[c].exptime)
    BY <1>4 DEF StoreAdd
  <2> QED BY <1>1, <1>2, <1>4, <2>1, StoreAfterGet
<1> QED BY <1>3, <1>4

LEMMA StoreReplaceInv ==
  ASSUME Inv, NEW c \in Conn, StoreReplace(c)
  PROVE  /\ Inv'
         /\ \/ Hit(pending[c].key) /\ PutStep(pending[c].key, pending[c].val)
            \/ ~Hit(pending[c].key) /\ KeepStep
<1>1. {"replace"} \subseteq Storage
  BY DEF Storage
<1>2. Doing(c, {"replace"})
  BY DEF StoreReplace
<1>3. CASE Hit(pending[c].key)
  <2>1. Store(c, Mem, pending[c].val, pending[c].exptime)
    BY <1>3 DEF StoreReplace
  <2> QED BY <1>1, <1>2, <1>3, <2>1, StoreOver
<1>4. CASE ~Hit(pending[c].key)
  <2>1. Leave(c, AfterGet(pending[c].key), "NOT_STORED")
    BY <1>4 DEF StoreReplace
  <2>2. PICK k : k = pending[c].key
    OBVIOUS
  <2> QED BY <1>4, <2>1, <2>2, LeaveAfterGet
<1> QED BY <1>3, <1>4

LEMMA StoreCasInv ==
  ASSUME Inv, NEW c \in Conn, StoreCas(c)
  PROVE  /\ Inv'
         /\ \/ /\ Hit(pending[c].key) /\ cache[pending[c].key].cas = pending[c].cas
               /\ PutStep(pending[c].key, pending[c].val)
            \/ KeepStep
<1>1. {"cas"} \subseteq Storage
  BY DEF Storage
<1>2. Doing(c, {"cas"})
  BY DEF StoreCas
<1>3. CASE ~Hit(pending[c].key)
  <2>1. Leave(c, AfterGet(pending[c].key), "NOT_FOUND")
    BY <1>3 DEF StoreCas
  <2>2. PICK k : k = pending[c].key
    OBVIOUS
  <2> QED BY <2>1, <2>2, LeaveAfterGet
<1>4. CASE Hit(pending[c].key) /\ cache[pending[c].key].cas = pending[c].cas
  <2>1. Store(c, Mem, pending[c].val, pending[c].exptime)
    BY <1>4 DEF StoreCas
  <2> QED BY <1>1, <1>2, <1>4, <2>1, StoreOver
<1>5. CASE Hit(pending[c].key) /\ cache[pending[c].key].cas # pending[c].cas
  <2>1. Leave(c, Mem, "EXISTS")
    BY <1>5 DEF StoreCas
  <2> QED BY <2>1, LeaveSame
<1> QED BY <1>3, <1>4, <1>5

LEMMA ReclaimableDead ==
  ASSUME Inv, NEW k \in DOMAIN cache, Reclaimable(cache[k])
  PROVE  ~Hit(k)
<1>1. cache[k].exptime \in Nat /\ current_time \in Nat
  <2>1. cache[k] \in ItemAt(current_time, cas_id) /\ current_time \in Nat
    BY Basics
  <2>2. RelTimeMod \in Nat
    BY ClockAssumption
  <2> QED BY <2>1, <2>2 DEF ItemAt, RelTime
<1> QED BY <1>1 DEF Reclaimable, Hit, Expired

\* What do_item_alloc does, in the terms of the steps; when it succeeds there is a chunk.
LEMMA AllocStep ==
  ASSUME Inv, NEW own, NEW locked, NEW a, a = do_item_alloc(own, locked)
  PROVE  \E gone, ks :
           /\ MemOK(a.mem.cache, a.mem.lru, current_time, cas_id)
           /\ Change(cache, gone, ks, a.mem.cache) /\ Reclaims(gone) /\ Bumped(ks)
           /\ own \notin gone
           /\ IsFiniteSet(DOMAIN a.mem.cache)
           /\ UsedIn(a.mem.cache, pending) <= UsedIn(cache, pending)
           /\ a.ok => UsedIn(a.mem.cache, pending) <= MaxItems - 1
<1>1. PICK gone, ks : Allocs(a, own, gone, ks)
  <2>1. Memory /\ Times
    BY Basics DEF Inv
  <2> QED BY <2>1, AllocOK
<1>2. PICK mc : mc = a.mem.cache
  OBVIOUS
<1>3. /\ MemOK(mc, a.mem.lru, current_time, cas_id) /\ Change(cache, gone, ks, mc)
      /\ \A k \in ks : Held(k)
      /\ gone = {} \/ \E k \in DOMAIN cache : gone = {k}
      /\ own \notin gone
      /\ \A k \in gone :
           ~Held(k) /\ (Reclaimable(cache[k]) \/ (~(Used < MaxItems) /\ evict_to_free))
      /\ a.ok => gone # {} \/ Used < MaxItems
  BY <1>1, <1>2 DEF Allocs
<1>4. Reclaims(gone)
  <2> SUFFICES ASSUME NEW x \in gone
               PROVE  ~Hit(x) \/ (evict_to_free /\ ~(Used < MaxItems))
    BY DEF Reclaims
  <2>1. x \in DOMAIN cache
    BY <1>3 DEF Change
  <2> QED BY <1>3, <2>1, ReclaimableDead
<1>5. Bumped(ks)
  BY <1>3 DEF Bumped
<1>6. IsFiniteSet(DOMAIN cache) /\ MaxItems \in Nat
  BY Basics
<1>7. IsFiniteSet(DOMAIN mc) /\ UsedIn(mc, pending) <= UsedIn(cache, pending)
  BY <1>3, <1>6, UsedChange
<1>8. UsedIn(mc, pending) \in Nat /\ UsedIn(cache, pending) \in Nat
      /\ UsedIn(cache, pending) <= MaxItems /\ Used = UsedIn(cache, pending)
  BY <1>6, <1>7, CountsFinite, UsedIs DEF Inv
<1>9. ASSUME a.ok PROVE UsedIn(mc, pending) <= MaxItems - 1
  <2>1. CASE gone = {}
    BY <1>3, <1>6, <1>7, <1>8, <1>9, <2>1
  <2>2. CASE gone # {}
    <3>1. PICK v \in DOMAIN cache : gone = {v}
      BY <1>3, <2>2
    <3>2. Change(cache, {v}, ks, mc) /\ ~Held(v)
      BY <1>3, <3>1
    <3>3. UsedIn(mc, pending) = UsedIn(cache, pending) - 1
      BY <1>6, <3>2, HeldIs, UsedFreed
    <3> QED BY <1>6, <1>8, <3>3
  <2> QED BY <2>1, <2>2
<1> QED BY <1>2, <1>3, <1>4, <1>5, <1>7, <1>9

LEMMA StoreAppendInv ==
  ASSUME Inv, NEW c \in Conn, StoreAppend(c)
  PROVE  /\ Inv'
         /\ \/ KeepStep /\ cas_id' = cas_id
            \/ /\ Hit(pending[c].key) /\ pending[c].cas \in {0, cache[pending[c].key].cas}
               /\ PutStep(pending[c].key,
                          IF pending[c].comm = "append" THEN cache[pending[c].key].val \o pending[c].val
                                                        ELSE pending[c].val \o cache[pending[c].key].val)
<1>1. {"append", "prepend"} \subseteq Storage
  BY DEF Storage
<1>2. Doing(c, {"append", "prepend"})
  BY DEF StoreAppend
<1>3. /\ Doing(c, Storage) /\ pending[c].key \in Key /\ pending[c].val \in Value
      /\ Len(pending[c].val) = 1
  BY <1>1, <1>2, OwnFacts
<1>4. PICK k : k = pending[c].key
  OBVIOUS
<1>5. CASE ~Hit(k)
  <2>1. Leave(c, AfterGet(k), "NOT_STORED")
    BY <1>4, <1>5 DEF StoreAppend
  <2>2. cas_id' = cas_id
    BY <2>1 DEF Leave
  <2> QED BY <2>1, <2>2, LeaveAfterGet
<1>6. CASE Hit(k) /\ pending[c].cas \notin {0, cache[k].cas}
  <2>1. Leave(c, Mem, "EXISTS")
    BY <1>4, <1>6 DEF StoreAppend
  <2>2. cas_id' = cas_id
    BY <2>1 DEF Leave
  <2> QED BY <2>1, <2>2, LeaveSame
<1>7. CASE Hit(k) /\ pending[c].cas \in {0, cache[k].cas} /\ Leave(c, Mem, "NOT_STORED")
  <2>1. cas_id' = cas_id
    BY <1>7 DEF Leave
  <2> QED BY <1>7, <2>1, LeaveSame
<1>8. CASE Hit(k) /\ pending[c].cas \in {0, cache[k].cas} /\ ~Leave(c, Mem, "NOT_STORED")
  <2>1. PICK v : v = IF pending[c].comm = "append" THEN cache[k].val \o pending[c].val
                                                   ELSE pending[c].val \o cache[k].val
    OBVIOUS
  <2>2. PICK e : e = cache[k].exptime
    OBVIOUS
  <2>3. PICK locked \in LockedKeys :
          LET a == do_item_alloc(k, locked) IN
          /\ Len(cache[k].val) < MaxLen
          /\ \/ ~a.ok /\ Leave(c, a.mem, "NOT_STORED")
             \/ a.ok /\ Store(c, a.mem, v, e)
    BY <1>4, <1>8, <2>1, <2>2 DEF StoreAppend
  <2>4. PICK a : a = do_item_alloc(k, locked)
    OBVIOUS
  <2>5. \/ ~a.ok /\ Leave(c, a.mem, "NOT_STORED")
        \/ a.ok /\ Len(cache[k].val) < MaxLen /\ Store(c, a.mem, v, e)
    BY <2>3, <2>4
  <2>6. PICK m : m = a.mem
    OBVIOUS
  <2>7. PICK gone, ks : /\ MemOK(m.cache, m.lru, current_time, cas_id)
                        /\ Change(cache, gone, ks, m.cache) /\ Reclaims(gone) /\ Bumped(ks)
    BY <2>4, <2>6, AllocStep
  <2>8. CASE Leave(c, m, "NOT_STORED")
    <3>1. Keeps(gone, ks)
      BY <2>7, <2>8 DEF Leave, SetMem, Keeps
    <3>2. KeepStep
      BY <2>7, <3>1 DEF KeepStep
    <3>3. cas_id' = cas_id
      BY <2>8 DEF Leave
    <3> QED BY <2>8, <3>2, <3>3, LeaveInv
  <2>9. CASE Len(cache[k].val) < MaxLen /\ Store(c, m, v, e)
    <3>1. cache[k].val \in Value /\ cache[k].exptime \in RelTime
      BY <1>8, HitFacts
    <3>2. Len(cache[k].val) \in Nat /\ MaxLen \in Nat
      BY <3>1, ValueIs, BaseAssumption
    <3>3. cache[k].val \o pending[c].val \in Value /\ pending[c].val \o cache[k].val \in Value
      <4>1. PICK x, y : x = cache[k].val /\ y = pending[c].val
        OBVIOUS
      <4>2. x \in Value /\ y \in Value /\ Len(x) + Len(y) <= MaxLen /\ Len(y) + Len(x) <= MaxLen
        <5>1. PICK n : n = Len(x)
          OBVIOUS
        <5>2. n \in Nat /\ n < MaxLen /\ Len(y) = 1
          BY <1>3, <2>9, <3>2, <4>1, <5>1
        <5>3. n + 1 <= MaxLen /\ 1 + n <= MaxLen
          BY <3>2, <5>2
        <5> QED BY <1>3, <3>1, <4>1, <5>1, <5>2, <5>3
      <4>3. x \o y \in Value /\ y \o x \in Value
        BY <4>2, ConcatValue
      <4> QED BY <4>1, <4>3
    <3>4. v \in Value /\ e \in RelTime
      BY <2>1, <2>2, <3>1, <3>3
    <3>5. Inv' /\ PutStep(pending[c].key, v)
      BY <1>3, <2>7, <2>9, <3>4, StoreInv
    <3> QED BY <1>4, <1>8, <2>1, <3>5
  <2> QED BY <2>5, <2>6, <2>8, <2>9
<1> QED BY <1>4, <1>5, <1>6, <1>7, <1>8

LEMMA ReleaseInv ==
  ASSUME Inv, NEW c \in Conn, conn_release_items(c)
  PROVE  Inv' /\ KeepStep
<1>1. /\ pending' = [pending EXCEPT ![c] = NoEntry] /\ cache' = cache /\ lru' = lru
      /\ UNCHANGED <<cas_id, clock, flushed_cas>>
  BY DEF conn_release_items, End, Begin
<1>2. KeepStep
  BY <1>1, SameStep
<1> QED BY <1>1, <1>2, KeepStepInv

\* process_update_command: a chunk for the new item, or none.
LEMMA RequestInv ==
  ASSUME Inv, NEW c \in Conn, process_update_command(c)
  PROVE  Inv' /\ KeepStep
<1>1. PICK locked \in LockedKeys :
        LET a == do_item_alloc(NoEntry, locked) IN
        /\ SetMem(a.mem)
        /\ \E comm \in Storage, k \in Key :
           \/ /\ a.ok
              /\ \E e \in ExpTimes, t \in Token,
                    cas \in IF comm \in {"cas", "append", "prepend"} THEN 0..cas_id ELSE {0} :
                   Begin(c, [comm |-> comm, key |-> k, val |-> <<t>>,
                             exptime |-> UpdateExpTime(e), cas |-> cas, id |-> 0])
              /\ UNCHANGED reply
           \/ /\ ~a.ok /\ comm = "set"
              /\ Begin(c, [comm |-> "stale", key |-> k, val |-> <<>>,
                           exptime |-> 0, cas |-> 0, id |-> 0])
              /\ UNCHANGED reply
           \/ ~a.ok /\ comm # "set" /\ Answer(comm, "OOM") /\ UNCHANGED pending
  BY DEF process_update_command
<1>2. PICK a : a = do_item_alloc(NoEntry, locked)
  OBVIOUS
<1>3. PICK gone, ks :
        /\ MemOK(a.mem.cache, a.mem.lru, current_time, cas_id)
        /\ Change(cache, gone, ks, a.mem.cache) /\ Reclaims(gone) /\ Bumped(ks)
        /\ IsFiniteSet(DOMAIN a.mem.cache)
        /\ a.ok => UsedIn(a.mem.cache, pending) <= MaxItems - 1
  BY <1>2, AllocStep
<1>4. cache' = a.mem.cache /\ lru' = a.mem.lru
  BY <1>1, <1>2 DEF SetMem
<1>5. Keeps(gone, ks) /\ KeepStep
  BY <1>3, <1>4 DEF Keeps, KeepStep
<1>6. UNCHANGED <<cas_id, clock, flushed_cas>> /\ cas_id \in Nat
  BY Basics DEF process_update_command
<1>7. PICK comm \in Storage, k \in Key :
           \/ /\ a.ok
              /\ \E e \in ExpTimes, t \in Token,
                    cas \in IF comm \in {"cas", "append", "prepend"} THEN 0..cas_id ELSE {0} :
                   Begin(c, [comm |-> comm, key |-> k, val |-> <<t>>,
                             exptime |-> UpdateExpTime(e), cas |-> cas, id |-> 0])
              /\ UNCHANGED reply
           \/ /\ ~a.ok /\ comm = "set"
              /\ Begin(c, [comm |-> "stale", key |-> k, val |-> <<>>,
                           exptime |-> 0, cas |-> 0, id |-> 0])
              /\ UNCHANGED reply
           \/ ~a.ok /\ comm # "set" /\ Answer(comm, "OOM") /\ UNCHANGED pending
  BY <1>1, <1>2
<1>8. ASSUME a.ok, NEW e \in ExpTimes, NEW t \in Token,
             NEW cas \in IF comm \in {"cas", "append", "prepend"} THEN 0..cas_id ELSE {0},
             Begin(c, [comm |-> comm, key |-> k, val |-> <<t>>,
                       exptime |-> UpdateExpTime(e), cas |-> cas, id |-> 0])
      PROVE  Inv'
  <2>1. PICK x : x = UpdateExpTime(e)
    OBVIOUS
  <2>2. PICK r : r = [comm |-> comm, key |-> k, val |-> <<t>>, exptime |-> x, cas |-> cas, id |-> 0]
    OBVIOUS
  <2>3. x \in RelTime /\ cas \in 0..cas_id
    BY <1>6, <2>1, UpdateExpTimeType
  <2>4. r \in CommandAt(cas_id) /\ r.comm = comm
    BY <2>2, <2>3 DEF CommandAt
  <2>5. PICK q : q = pending'
    OBVIOUS
  <2>6. q = [pending EXCEPT ![c] = r]
    BY <1>8, <2>1, <2>2, <2>5 DEF Begin
  <2>7. PendOK(pending, cas_id)
    BY DEF Inv
  <2>8. PendOK(q, cas_id)
    BY <2>4, <2>6, <2>7, PendBegin
  <2>9. q[c] = r /\ \A d \in Conn : d # c => q[d] = pending[d]
    BY <2>6, <2>7 DEF PendOK
  <2>10. comm \notin Looking
    BY DEF Storage, Looking
  <2>11. NoMoreStray(cache', pending, q)
    BY <2>4, <2>9, <2>10 DEF NoMoreStray, DoingIn
  <2>12. \A d \in Conn : DoingIn(q, d, Storage) => DoingIn(pending, d, Storage) \/ d = c
    BY <2>9 DEF DoingIn
  <2>13. IsFiniteSet(DOMAIN cache')
    BY <1>3, <1>4
  <2>14. UsedIn(cache', q) <= UsedIn(cache', pending) + 1
    BY <2>11, <2>12, <2>13, UsedAsked
  <2>15. UsedIn(cache', q) \in Nat /\ UsedIn(cache', pending) \in Nat /\ MaxItems \in Nat
    BY <2>13, CountsFinite, Basics
  <2>16. UsedIn(cache', q) <= MaxItems
    BY <1>3, <1>4, <1>8, <2>14, <2>15
  <2>17. cas_id' = cas_id /\ cas_id' \in cas_id..MaxCas
    BY <1>6 DEF Inv
  <2> QED BY <1>5, <1>6, <2>5, <2>8, <2>16, <2>17, InvNext DEF Keeps
<1>9. ASSUME Begin(c, [comm |-> "stale", key |-> k, val |-> <<>>,
                       exptime |-> 0, cas |-> 0, id |-> 0])
      PROVE  Inv'
  <2>1. PICK r : r = [comm |-> "stale", key |-> k, val |-> <<>>, exptime |-> 0, cas |-> 0, id |-> 0]
    OBVIOUS
  <2>2. r \in CommandAt(cas_id)
    BY <2>1 DEF CommandAt
  <2>3. r.comm \notin Storage /\ r.comm \notin Looking
    BY <2>1 DEF Storage, Looking
  <2>4. pending' = [pending EXCEPT ![c] = r]
    BY <1>9, <2>1 DEF Begin
  <2> QED BY <1>5, <1>6, <2>2, <2>3, <2>4, KeepStepInv
<1>10. ASSUME pending' = pending PROVE Inv'
  <2>1. NoMoreStray(cache', pending, pending)
    BY DEF NoMoreStray
  <2> QED BY <1>5, <1>6, <1>10, <2>1, KeepsInv DEF Inv
<1> QED BY <1>5, <1>7, <1>8, <1>9, <1>10

\* A set too large: nothing but the old value to be dropped.
LEMMA TooLargeInv ==
  ASSUME Inv, NEW c \in Conn, set_too_large(c)
  PROVE  Inv' /\ KeepStep
<1>1. PICK k \in Key :
        Begin(c, [comm |-> "stale", key |-> k, val |-> <<>>, exptime |-> 0, cas |-> 0, id |-> 0])
  BY DEF set_too_large
<1>2. PICK r : r = [comm |-> "stale", key |-> k, val |-> <<>>, exptime |-> 0, cas |-> 0, id |-> 0]
  OBVIOUS
<1>3. r \in CommandAt(cas_id) /\ r.comm \notin Storage /\ r.comm \notin Looking
  BY <1>2 DEF CommandAt, Storage, Looking
<1>4. /\ pending' = [pending EXCEPT ![c] = r] /\ cache' = cache /\ lru' = lru
      /\ UNCHANGED <<cas_id, clock, flushed_cas>>
  BY <1>1, <1>2 DEF set_too_large, Begin
<1>5. KeepStep
  BY <1>4, SameStep
<1> QED BY <1>3, <1>4, <1>5, KeepStepInv

LEMMA InPlaceInv ==
  ASSUME Inv, NEW c \in Conn, NEW op, NEW k \in Key, NEW d \in Deltas, DeltaInPlace(c, op, k, d)
  PROVE  Inv' /\ PutStep(k, Padded(Result(op, cache[k].val, d), Len(cache[k].val)))
<1>1. PICK text : text = Result(op, cache[k].val, d)
  OBVIOUS
<1>2. PICK v : v = Padded(text, Len(cache[k].val))
  OBVIOUS
<1>3. /\ Hit(k) /\ Numeric(cache[k].val) /\ Len(text) <= Len(cache[k].val) /\ ~Held(k)
      /\ cas_id < MaxCas /\ cas_id' = cas_id + 1 /\ UNCHANGED <<pending, clock, flushed_cas>>
      /\ SetMem(do_item_update([Mem EXCEPT !.cache[k].val = v, !.cache[k].cas = cas_id + 1], {k}))
  BY <1>1, <1>2 DEF DeltaInPlace, InPlace
<1>4. /\ k \in DOMAIN cache /\ cache[k] \in ItemAt(current_time, cas_id) /\ cache[k].val \in Value
      /\ current_time \in Nat /\ current_time >= StartTime /\ cas_id \in Nat /\ MaxCas \in Nat
  BY <1>3, HitFacts, Basics
<1>5. v \in Value
  <2>1. PICK old : old = cache[k].val
    OBVIOUS
  <2>2. text \in Value /\ old \in Value /\ Len(text) <= Len(old)
    BY <1>1, <1>3, <1>4, <2>1, ResultType
  <2>3. Padded(text, Len(old)) \in Value
    BY <2>2, PaddedValue
  <2> QED BY <1>2, <2>1, <2>3
<1>6. PICK it : it = [cache[k] EXCEPT !.val = v, !.cas = cas_id + 1]
  OBVIOUS
<1>7. PICK new : new = cas_id + 1
  OBVIOUS
<1>8. new \in Nat /\ cas_id <= new /\ new >= 1
  BY <1>4, <1>7
<1>9. /\ it \in ItemAt(current_time, new) /\ it.time = cache[k].time /\ it.cas = new
      /\ it.val = v
  <2>1. PICK o : o = cache[k]
    OBVIOUS
  <2>2. o \in ItemAt(current_time, cas_id) /\ it = [o EXCEPT !.val = v, !.cas = new]
    BY <1>4, <1>6, <1>7, <2>1
  <2>3. new \in 1..new
    BY <1>8
  <2>4. it \in ItemAt(current_time, new)
    BY <1>5, <2>2, <2>3 DEF ItemAt
  <2>5. it.time = o.time /\ it.cas = new /\ it.val = v
    BY <2>2 DEF ItemAt
  <2> QED BY <2>1, <2>4, <2>5
<1>10. PICK m : m = [Mem EXCEPT !.cache[k].val = v, !.cache[k].cas = cas_id + 1]
  OBVIOUS
<1>11. m.cache = [cache EXCEPT ![k] = it] /\ m.lru = lru
  BY <1>6, <1>10 DEF Mem
<1>12. MemOK(m.cache, m.lru, current_time, new)
  <2>1. PICK r : r = m.cache
    OBVIOUS
  <2>2. MemOK(cache, lru, current_time, cas_id)
    BY DEF Inv, Memory
  <2>3. /\ r = [cache EXCEPT ![k] = it] /\ k \in DOMAIN cache /\ it \in ItemAt(current_time, new)
        /\ it.time = cache[k].time /\ cas_id \in Nat /\ new \in Nat /\ cas_id <= new
    BY <1>4, <1>8, <1>9, <1>11, <2>1
  <2>4. PICK now : now = current_time
    OBVIOUS
  <2>5. MemOK(r, lru, now, new)
    BY <2>2, <2>3, <2>4, RewriteOK
  <2> QED BY <1>11, <2>1, <2>4, <2>5
<1>13. PICK K : K = {k}
  OBVIOUS
<1>14. PICK r : r = do_item_update(m, K)
  OBVIOUS
<1>15. K \subseteq DOMAIN m.cache
  BY <1>4, <1>11, <1>13
<1>16. MemOK(r.cache, r.lru, current_time, new) /\ Bumps(m.cache, K, r.cache)
  BY <1>4, <1>12, <1>14, <1>15, UpdateOK
<1>17. cache' = r.cache /\ lru' = r.lru
  BY <1>3, <1>10, <1>13, <1>14 DEF SetMem
<1>18. /\ DOMAIN cache' = DOMAIN cache
       /\ \A x \in DOMAIN cache : x # k => /\ SameItem(cache[x], cache'[x])
                                           /\ cache'[x].time = cache[x].time
       /\ cache'[k].val = v /\ cache'[k].cas = new
  BY <1>4, <1>9, <1>11, <1>13, <1>16, <1>17 DEF Bumps, SameItem
<1>19. PutStep(k, v)
  <2>1. Puts({k}, {}, k, v)
    BY <1>4, <1>7, <1>18 DEF Puts
  <2>2. Reclaims({k} \ {k}) /\ Bumped({})
    BY DEF Reclaims, Bumped
  <2> QED BY <1>3, <2>1, <2>2 DEF PutStep
<1>20. Stray(cache', pending) = Stray(cache, pending)
  <2>1. \A x \in Conn : DoingIn(pending, x, Looking) => pending[x].id # new
    BY <1>7, FreshId
  <2>2. \A x \in Conn : DoingIn(pending, x, Looking) /\ LinkedIn(cache, pending, x)
                          => pending[x].key # k
    BY <1>3, HeldIs
  <2>3. \A x \in Conn : DoingIn(pending, x, Looking) =>
          (LinkedIn(cache', pending, x) <=> LinkedIn(cache, pending, x))
    BY <1>18, <2>1, <2>2 DEF LinkedIn, SameItem
  <2> QED BY <2>3 DEF Stray
<1>21. UsedIn(cache', pending') <= MaxItems
  <2>1. UsedIn(cache', pending) = UsedIn(cache, pending)
    BY <1>18, <1>20 DEF UsedIn, Orphans
  <2> QED BY <1>3, <2>1 DEF Inv
<1>22. PendOK(pending', cas_id')
  BY <1>3, <1>4, PendGrows DEF Inv
<1>23. cas_id' \in cas_id..MaxCas
  BY <1>3, <1>4
<1>24. Inv'
  <2>1. MemOK(cache', lru', current_time, cas_id') /\ UNCHANGED <<clock, flushed_cas>>
    BY <1>3, <1>7, <1>16, <1>17
  <2> QED BY <1>21, <1>22, <1>23, <2>1, InvNext
<1> QED BY <1>1, <1>2, <1>19, <1>24

LEMMA DeltaReplacesInv ==
  ASSUME Inv, NEW c \in Conn, NEW op, NEW k \in Key, NEW d \in Deltas, DeltaReplaces(c, op, k, d)
  PROVE  /\ Inv'
         /\ \/ /\ PutStep(k, Result(op, cache[k].val, d))
               /\ reply' = Reply(op, "OK", Result(op, cache[k].val, d), 0)
               /\ pending' = [x \in Conn |->
                    IF Doing(x, Looking) /\ pending[x].key = k /\ StillLinked(x)
                    THEN [pending[x] EXCEPT !.cas = cas_id + 1] ELSE pending[x]]
            \/ KeepStep /\ Answer(op, "EOM") /\ UNCHANGED <<pending, cas_id>>
<1>1. PICK text : text = Result(op, cache[k].val, d)
  OBVIOUS
<1>2. PICK e : e = cache[k].exptime
  OBVIOUS
<1> DEFINE Q == [x \in Conn |->
                   IF Doing(x, Looking) /\ pending[x].key = k /\ StillLinked(x)
                   THEN [pending[x] EXCEPT !.cas = cas_id + 1] ELSE pending[x]]
<1>3. PICK locked \in LockedKeys :
        LET a == do_item_alloc(k, locked) IN
        IF a.ok
        THEN /\ SetMem(do_item_replace(a.mem, k, text, e))
             /\ cas_id' = cas_id + 1 /\ pending' = Q /\ reply' = Reply(op, "OK", text, 0)
        ELSE SetMem(a.mem) /\ Answer(op, "EOM") /\ UNCHANGED <<pending, cas_id>>
  BY <1>1, <1>2, Zenon DEF DeltaReplaces
<1>4. PICK a : a = do_item_alloc(k, locked)
  OBVIOUS
<1>5. IF a.ok
      THEN /\ SetMem(do_item_replace(a.mem, k, text, e))
           /\ cas_id' = cas_id + 1 /\ pending' = Q /\ reply' = Reply(op, "OK", text, 0)
      ELSE SetMem(a.mem) /\ Answer(op, "EOM") /\ UNCHANGED <<pending, cas_id>>
  BY <1>3, <1>4, Zenon
<1>6. /\ Hit(k) /\ Numeric(cache[k].val) /\ cas_id < MaxCas /\ UNCHANGED <<clock, flushed_cas>>
  BY DEF DeltaReplaces
<1>7. PICK m : m = a.mem
  OBVIOUS
<1>8. PICK gone, ks :
        /\ MemOK(m.cache, m.lru, current_time, cas_id)
        /\ Change(cache, gone, ks, m.cache) /\ Reclaims(gone) /\ Bumped(ks)
        /\ IsFiniteSet(DOMAIN m.cache)
        /\ a.ok => UsedIn(m.cache, pending) <= MaxItems - 1
  BY <1>4, <1>7, AllocStep
<1>9. CASE ~a.ok
  <2>1. SetMem(m) /\ Answer(op, "EOM") /\ UNCHANGED <<pending, cas_id>>
    BY <1>5, <1>7, <1>9
  <2>2. Keeps(gone, ks)
    BY <1>8, <2>1 DEF SetMem, Keeps
  <2>3. NoMoreStray(cache', pending, pending)
    BY DEF NoMoreStray
  <2>4. Inv'
    BY <1>6, <2>1, <2>2, <2>3, KeepsInv DEF Inv
  <2> QED BY <1>8, <2>1, <2>2, <2>4 DEF KeepStep
<1>10. CASE a.ok
  <2>1. /\ SetMem(do_item_replace(m, k, text, e)) /\ cas_id' = cas_id + 1
        /\ pending' = Q /\ reply' = Reply(op, "OK", text, 0)
    BY <1>5, <1>7, <1>10
  <2>2. text \in Value /\ e \in RelTime
    BY <1>1, <1>2, <1>6, HitFacts, ResultType
  <2>3. /\ MemOK(cache', lru', current_time, cas_id + 1) /\ PutStep(k, text)
        /\ IsFiniteSet(DOMAIN cache')
        /\ UsedIn(cache', pending) <= UsedIn(m.cache, pending) + 1
    BY <1>8, <2>1, <2>2, ReplaceMem
  <2>4. PICK q : q = Q
    OBVIOUS
  <2>5. cas_id \in Nat /\ MaxCas \in Nat /\ MaxItems \in Nat
    BY Basics
  <2>6. \A x \in Conn : \/ q[x] = pending[x]
                        \/ /\ pending[x] \in CommandAt(cas_id) /\ pending[x].comm \in Looking
                           /\ q[x] = [pending[x] EXCEPT !.cas = cas_id + 1]
    <3> SUFFICES ASSUME NEW x \in Conn
                 PROVE \/ q[x] = pending[x]
                       \/ /\ pending[x] \in CommandAt(cas_id) /\ pending[x].comm \in Looking
                          /\ q[x] = [pending[x] EXCEPT !.cas = cas_id + 1]
      OBVIOUS
    <3>1. CASE Doing(x, Looking) /\ pending[x].key = k /\ StillLinked(x)
      <4>1. pending[x] \in CommandAt(cas_id) /\ pending[x].comm \in Looking
        BY <3>1, PendFacts DEF Doing
      <4> QED BY <2>4, <3>1, <4>1
    <3>2. CASE ~(Doing(x, Looking) /\ pending[x].key = k /\ StillLinked(x))
      BY <2>4, <3>2
    <3> QED BY <3>1, <3>2
  <2>7. \A r \in CommandAt(cas_id) : r.comm \in Looking =>
          /\ [r EXCEPT !.cas = cas_id + 1] \in CommandAt(cas_id + 1)
          /\ [r EXCEPT !.cas = cas_id + 1].comm = r.comm
          /\ [r EXCEPT !.cas = cas_id + 1].key = r.key
          /\ [r EXCEPT !.cas = cas_id + 1].id = r.id
    <3>1. Storage \cap Looking = {} /\ "stale" \notin Looking
      BY DEF Storage, Looking
    <3>2. cas_id + 1 \in 1..(cas_id + 1) /\ 1..cas_id \subseteq 1..(cas_id + 1)
      BY <2>5
    <3> QED BY <3>1, <3>2 DEF CommandAt
  <2>8. DOMAIN q = Conn /\ q = [x \in Conn |-> q[x]]
    BY <2>4
  <2>9. PendOK(q, cas_id + 1)
    <3>1. PendOK(pending, cas_id + 1)
      BY <2>5, PendGrows DEF Inv
    <3>2. \A x \in Conn : q[x] \in {NoEntry} \cup CommandAt(cas_id + 1)
      BY <2>6, <2>7, <3>1 DEF PendOK
    <3> QED BY <2>8, <3>2 DEF PendOK
  <2>10. \A x \in Conn : DoingIn(q, x, Looking) =>
            DoingIn(pending, x, Looking) /\ q[x].id = pending[x].id /\ q[x].key = pending[x].key
    <3>1. \A x \in Conn : pending[x] \in CommandAt(cas_id) => pending[x] # NoEntry
      <4>1. cas_id \in 0..MaxCas
        BY DEF Inv
      <4> QED BY <4>1, CommandFacts
    <3> QED BY <2>6, <2>7, <3>1 DEF DoingIn
  <2>11. NoMoreStray(cache', pending, q)
    BY <2>10 DEF NoMoreStray
  <2>12. \A x \in Conn : DoingIn(q, x, Storage) => DoingIn(pending, x, Storage)
    <3>1. Storage \cap Looking = {}
      BY DEF Storage, Looking
    <3> QED BY <2>6, <2>7, <3>1 DEF DoingIn
  <2>13. UsedIn(cache', q) <= UsedIn(cache', pending)
    BY <2>3, <2>11, <2>12, UsedGoesOn
  <2>14. /\ UsedIn(cache', q) \in Nat /\ UsedIn(cache', pending) \in Nat
         /\ UsedIn(m.cache, pending) \in Nat
    BY <1>8, <2>3, CountsFinite
  <2>15. UsedIn(cache', q) <= MaxItems
    BY <1>8, <1>10, <2>3, <2>5, <2>13, <2>14
  <2>16. cas_id' \in cas_id..MaxCas
    BY <1>6, <2>1, <2>5
  <2>17. Inv'
    BY <1>6, <2>1, <2>3, <2>4, <2>9, <2>15, <2>16, InvNext
  <2> QED BY <1>1, <2>1, <2>3, <2>17
<1> QED BY <1>9, <1>10

-----------------------------------------------------------------------------
(* flush_all, the crawler and the clock *)

LEMMA KeepsUsed ==
  ASSUME Inv, NEW gone, NEW ks, Keeps(gone, ks), pending' = pending
  PROVE  UsedIn(cache', pending') <= MaxItems
<1>1. IsFiniteSet(DOMAIN cache) /\ MaxItems \in Nat
  BY Basics
<1>2. IsFiniteSet(DOMAIN cache') /\ UsedIn(cache', pending) <= UsedIn(cache, pending)
  BY <1>1, UsedChange DEF Keeps
<1>3. UsedIn(cache, pending) \in Nat /\ UsedIn(cache', pending) \in Nat
  BY <1>1, <1>2, CountsFinite
<1> QED BY <1>1, <1>2, <1>3 DEF Inv

\* What flush_all makes of oldest_live, and the items it unlinks at once.
FlushTime(d) == (IF d > 0 THEN realtime(d) - 1 ELSE current_time - 1) % RelTimeMod
FlushNow(d) == IF FlushTime(d) = 0 THEN {} ELSE FlushWalk(FlushTime(d))

LEMMA FlushInv ==
  ASSUME Inv, NEW c \in Conn, NEW d \in FlushDelays, flush_all(c, d)
  PROVE  Inv' /\ Keeps(FlushNow(d), {}) /\ oldest_live' = FlushTime(d)
<1>1. /\ oldest_live' = FlushTime(d) /\ SetMem(do_item_unlink(Mem, FlushNow(d)))
      /\ flushed_cas' = (IF d > 0 THEN flushed_cas ELSE cas_id)
      /\ UNCHANGED <<pending, cas_id, current_time>>
  BY DEF flush_all, FlushTime, FlushNow
<1>2. FlushNow(d) \subseteq DOMAIN cache
  BY DEF FlushNow, FlushWalk
<1>3. PICK ks : ks = FlushNow(d)
  OBVIOUS
<1>4. Keeps(ks, {})
  <2>1. Keeps(ks \cap DOMAIN cache, {})
    BY <1>1, <1>3, UnlinkMem
  <2>2. ks \cap DOMAIN cache = ks
    BY <1>2, <1>3
  <2> QED BY <2>1, <2>2
<1>5. FlushTime(d) \in RelTime
  <2>1. RelTimeMod \in Nat \ {0} /\ current_time \in Nat /\ d \in Int
    BY Basics, ClockAssumption DEF Times
  <2>2. realtime(d) \in Int
    BY <2>1, RealtimeType DEF RelTime
  <2>3. PICK x : x = IF d > 0 THEN realtime(d) - 1 ELSE current_time - 1
    OBVIOUS
  <2>4. x \in Int
    BY <2>1, <2>2, <2>3
  <2>5. x % RelTimeMod \in 0..(RelTimeMod - 1)
    BY <2>1, <2>4, ModFacts
  <2> QED BY <2>3, <2>5 DEF FlushTime, RelTime
<1>6. UsedIn(cache', pending') <= MaxItems
  BY <1>1, <1>4, KeepsUsed
<1>7. flushed_cas' \in 0..cas_id'
  BY <1>1, Basics DEF Inv
<1>8. Inv'
  BY <1>1, <1>4, <1>5, <1>6, <1>7 DEF Inv, Memory, Keeps
<1> QED BY <1>1, <1>3, <1>4, <1>8

\* The crawler moves in, about or out of the LRU.
LEMMA LruOK ==
  ASSUME NEW ca, NEW l, NEW now, NEW last, MemOK(ca, l, now, last),
         NEW m, NEW E, List(m, Node, E), E \ {Crawler} = Range(l) \ {Crawler},
         Crawler \in E => lru_crawler,
         \A a, b : Before(m, a, b) => Before(l, a, b) \/ a = Crawler \/ b = Crawler
  PROVE  MemOK(ca, m, now, last)
<1>1. Range(m) = E /\ List(m, Node, Range(m))
  BY DEF List
<1>2. Sorted(ca, m)
  BY DEF MemOK, Sorted
<1> QED BY <1>1, <1>2 DEF MemOK

LEMMA CrawlInv ==
  ASSUME Inv, lru_crawler_crawl
  PROVE  Inv' /\ KeepStep
<1>1. /\ Crawler \notin Range(lru) /\ lru' = Append(lru, Crawler)
      /\ UNCHANGED <<cache, pending, cas_id, clock, reply, flushed_cas>>
  BY DEF lru_crawler_crawl
<1>0. lru_crawler
  BY DEF lru_crawler_crawl
<1>2. MemOK(cache, lru, current_time, cas_id)
  BY DEF Inv, Memory
<1>3. PICK E : E = Range(lru)
  OBVIOUS
<1>4. PICK u, C : u = <<Crawler>> /\ C = {Crawler}
  OBVIOUS
<1>5. List(lru, Node, E) /\ List(u, Node, C) /\ E \cap C = {} /\ \A a, b : ~Before(u, a, b)
  <2>1. List(lru, Node, E)
    BY <1>2, <1>3 DEF MemOK
  <2>2. List(u, Node, C) /\ \A a, b : ~Before(u, a, b)
    BY <1>4, NodeFacts, UnitList
  <2> QED BY <1>1, <1>3, <1>4, <2>1, <2>2
<1>6. PICK m : m = lru \o u
  OBVIOUS
<1>7. /\ List(m, Node, E \cup C)
      /\ \A a, b : Before(m, a, b) => Before(lru, a, b) \/ Before(u, a, b) \/ (a \in E /\ b \in C)
  BY <1>5, <1>6, ConcatList
<1>8. lru' = m
  <2>1. lru \in Seq(Node) /\ Crawler \in Node
    BY <1>5, NodeFacts DEF List
  <2>2. Append(lru, Crawler) = lru \o <<Crawler>>
    BY <2>1, AppendIsConcat
  <2> QED BY <1>1, <1>4, <1>6, <2>2
<1>9. MemOK(cache, m, current_time, cas_id)
  <2>1. PICK F : F = E \cup C
    OBVIOUS
  <2>2. List(m, Node, F) /\ F \ {Crawler} = Range(lru) \ {Crawler}
    BY <1>3, <1>4, <1>7, <2>1
  <2>3. \A a, b : Before(m, a, b) => Before(lru, a, b) \/ a = Crawler \/ b = Crawler
    BY <1>4, <1>5, <1>7
  <2> QED BY <1>0, <1>2, <2>2, <2>3, LruOK
<1>10. Change(cache, {}, {}, cache')
  BY <1>1 DEF Change, SameItem
<1>11. Keeps({}, {})
  BY <1>1, <1>8, <1>9, <1>10 DEF Keeps
<1>12. Inv'
  <2>1. NoMoreStray(cache', pending, pending)
    BY DEF NoMoreStray
  <2> QED BY <1>1, <1>11, <2>1, KeepsInv DEF Inv
<1> QED BY <1>11, <1>12 DEF KeepStep, Reclaims, Bumped

LEMMA CrawlerInv ==
  ASSUME Inv, item_crawler_thread
  PROVE  Inv' /\ KeepStep
<1>1. UNCHANGED <<pending, cas_id, clock, reply, flushed_cas>>
  BY DEF item_crawler_thread
<1>2. MemOK(cache, lru, current_time, cas_id) /\ List(lru, Node, Range(lru))
      /\ Range(lru) \ {Crawler} = DOMAIN cache
  BY DEF Inv, Memory, MemOK
<1>3. KeepStep
  <2>1. CASE lru' = Without(lru, {Crawler}) /\ UNCHANGED cache
    <3>1. PICK E : E = Range(lru)
      OBVIOUS
    <3>2. PICK T : T = E \ {Crawler}
      OBVIOUS
    <3>3. PICK m : m = Only(lru, T)
      OBVIOUS
    <3>4. List(m, Node, E \cap T) /\ \A a, b : Before(m, a, b) => Before(lru, a, b)
      <4>1. List(lru, Node, E)
        BY <1>2, <3>1
      <4> QED BY <3>3, <4>1, OnlyList
    <3>5. PICK F : F = E \cap T
      OBVIOUS
    <3>6. F \ {Crawler} = Range(lru) \ {Crawler} /\ Crawler \notin F
      BY <3>1, <3>2, <3>5
    <3>7. MemOK(cache, m, current_time, cas_id)
      BY <1>2, <3>4, <3>5, <3>6, LruOK
    <3>8. lru' = m /\ cache' = cache
      BY <2>1, <3>1, <3>2, <3>3 DEF Without
    <3>9. Keeps({}, {})
      <4>1. Change(cache, {}, {}, cache')
        BY <3>8 DEF Change, SameItem
      <4> QED BY <3>7, <3>8, <4>1 DEF Keeps
    <3> QED BY <3>9 DEF KeepStep, Reclaims, Bumped
  <2>2. ASSUME NEW n \in 2..Len(lru), lru[n] = Crawler, NEW k, k = lru[n - 1],
               NEW moved, moved = [Mem EXCEPT !.lru = [lru EXCEPT ![n - 1] = Crawler, ![n] = k]],
               \/ Reclaimable(cache[k]) /\ ~Held(k) /\ SetMem(do_item_unlink(moved, {k}))
               \/ SetMem(moved)
        PROVE  KeepStep
    <3>1. PICK t : t = [lru EXCEPT ![n - 1] = lru[n], ![n] = lru[n - 1]]
      OBVIOUS
    <3>2. moved.lru = t /\ moved.cache = cache
      BY <2>2, <3>1 DEF Mem
    <3>3. PICK E : E = Range(lru)
      OBVIOUS
    <3>4. List(t, Node, E) /\ \A a, b : Before(t, a, b) => Before(lru, a, b) \/ a = lru[n]
      <4>1. List(lru, Node, E)
        BY <1>2, <3>3
      <4> QED BY <3>1, <4>1, SwapList
    <3>5. MemOK(cache, t, current_time, cas_id)
      <4>1. \A a, b : Before(t, a, b) => Before(lru, a, b) \/ a = Crawler \/ b = Crawler
        BY <2>2, <3>4
      <4>2. E \ {Crawler} = Range(lru) \ {Crawler} /\ (Crawler \in E => lru_crawler)
        BY <1>2, <3>3 DEF MemOK
      <4> QED BY <1>2, <3>4, <4>1, <4>2, LruOK
    <3>6. CASE SetMem(moved)
      <4>1. cache' = cache /\ lru' = t
        BY <3>2, <3>6 DEF SetMem
      <4>2. Change(cache, {}, {}, cache')
        BY <4>1 DEF Change, SameItem
      <4>3. Keeps({}, {})
        BY <3>5, <4>1, <4>2 DEF Keeps
      <4> QED BY <4>3 DEF KeepStep, Reclaims, Bumped
    <3>7. CASE Reclaimable(cache[k]) /\ SetMem(do_item_unlink(moved, {k}))
      <4>1. k \in DOMAIN cache
        <5>1. lru \in Seq(Node) /\ n - 1 \in 1..Len(lru) /\ n \in 1..Len(lru) /\ n # n - 1
          BY <1>2 DEF List
        <5>2. k \in Range(lru)
          BY <2>2, <5>1, RangeIs
        <5>3. k # Crawler
          BY <1>2, <2>2, <5>1 DEF List, IsInjective
        <5> QED BY <1>2, <5>2, <5>3
      <4>2. ~Hit(k)
        BY <3>7, <4>1, ReclaimableDead
      <4>3. PICK K : K = {k}
        OBVIOUS
      <4>4. PICK r : r = do_item_unlink(moved, K)
        OBVIOUS
      <4>5. MemOK(r.cache, r.lru, current_time, cas_id) /\ Unlinks(moved.cache, K, r.cache)
        <5>1. MemOK(moved.cache, moved.lru, current_time, cas_id)
          BY <3>2, <3>5
        <5> QED BY <4>4, <5>1, UnlinkOK
      <4>6. cache' = r.cache /\ lru' = r.lru
        BY <3>7, <4>3, <4>4 DEF SetMem
      <4>7. Change(cache, {k}, {}, cache')
        BY <3>2, <4>1, <4>3, <4>5, <4>6 DEF Unlinks, Change, SameItem
      <4>8. Keeps({k}, {})
        BY <4>5, <4>6, <4>7 DEF Keeps
      <4> QED BY <4>2, <4>8 DEF KeepStep, Reclaims, Bumped
    <3> QED BY <2>2, <3>6, <3>7
  <2>3. CASE \E n \in 2..Len(lru) :
               /\ lru[n] = Crawler
               /\ LET k == lru[n - 1]
                      moved == [Mem EXCEPT !.lru = [lru EXCEPT ![n - 1] = Crawler, ![n] = k]]
                  IN \/ Reclaimable(cache[k]) /\ ~Held(k) /\ SetMem(do_item_unlink(moved, {k}))
                     \/ ({k} \in LockedKeys \/ Held(k) \/ ~Reclaimable(cache[k])) /\ SetMem(moved)
    <3>1. PICK n \in 2..Len(lru) :
               /\ lru[n] = Crawler
               /\ LET k == lru[n - 1]
                      moved == [Mem EXCEPT !.lru = [lru EXCEPT ![n - 1] = Crawler, ![n] = k]]
                  IN \/ Reclaimable(cache[k]) /\ ~Held(k) /\ SetMem(do_item_unlink(moved, {k}))
                     \/ ({k} \in LockedKeys \/ Held(k) \/ ~Reclaimable(cache[k])) /\ SetMem(moved)
      BY <2>3
    <3>2. PICK k : k = lru[n - 1]
      OBVIOUS
    <3>3. PICK moved : moved = [Mem EXCEPT !.lru = [lru EXCEPT ![n - 1] = Crawler, ![n] = k]]
      OBVIOUS
    <3>4. \/ Reclaimable(cache[k]) /\ ~Held(k) /\ SetMem(do_item_unlink(moved, {k}))
          \/ SetMem(moved)
      BY <3>1, <3>2, <3>3, Zenon
    <3> QED BY <2>2, <3>1, <3>2, <3>3, <3>4
  <2> QED BY <2>1, <2>3 DEF item_crawler_thread
<1>4. PICK gone, ks : Keeps(gone, ks)
  BY <1>3 DEF KeepStep
<1>5. Inv'
  <2>1. NoMoreStray(cache', pending, pending)
    BY DEF NoMoreStray
  <2> QED BY <1>1, <1>4, <2>1, KeepsInv DEF Inv
<1> QED BY <1>3, <1>5

LEMMA ClockInv ==
  ASSUME Inv, clock_handler
  PROVE  Inv'
<1>1. /\ current_time < StartTime + MaxTicks /\ current_time' = current_time + 1
      /\ UNCHANGED <<cache, lru, pending, cas_id, oldest_live, reply, flushed_cas>>
  BY DEF clock_handler
<1>2. current_time \in Nat /\ current_time >= StartTime /\ Times
  BY Basics
<1>3. current_time' \in StartTime..(StartTime + MaxTicks)
  BY <1>1, <1>2, ClockAssumption DEF Times
<1>4. \A it \in ItemAt(current_time, cas_id) : it \in ItemAt(current_time', cas_id)
  <2>1. StartTime..current_time \subseteq StartTime..current_time'
    BY <1>1, <1>2 DEF Times
  <2> QED BY <2>1 DEF ItemAt
<1>5. MemOK(cache, lru, current_time', cas_id)
  BY <1>4 DEF Inv, Memory, MemOK
<1> QED BY <1>1, <1>3, <1>5 DEF Inv, Memory

-----------------------------------------------------------------------------
(* The inductive invariant *)

LEMMA InitInv == Init => Inv
<1> SUFFICES ASSUME Init PROVE Inv
  OBVIOUS
<1>1. /\ cache = <<>> /\ lru = <<>> /\ pending = [c \in Conn |-> NoEntry] /\ cas_id = 0
      /\ current_time = StartTime /\ oldest_live = 0 /\ flushed_cas = 0
  BY DEF Init
<1>2. DOMAIN cache = {} /\ cache \in [{} -> ItemAt(current_time, cas_id)]
  BY <1>1
<1>3. lru \in Seq(Node) /\ Len(lru) = 0 /\ DOMAIN lru = {}
  BY <1>1
<1>4. IsInjective(lru) /\ Range(lru) = {}
  BY <1>3 DEF IsInjective, Range
<1>5. Sorted(cache, lru)
  BY <1>3 DEF Sorted, Before
<1>6. Memory
  BY <1>2, <1>3, <1>4, <1>5 DEF Memory, MemOK, List
<1>7. PendOK(pending, cas_id)
  BY <1>1 DEF PendOK
<1>8. MaxCas \in Nat /\ MaxItems \in Nat
  BY SizeAssumption
<1>9. /\ cas_id \in 0..MaxCas /\ current_time \in StartTime..(StartTime + MaxTicks)
      /\ oldest_live \in RelTime /\ flushed_cas \in 0..cas_id
  BY <1>1, <1>8, ClockAssumption DEF StartTime, RelTime
<1>10. UsedIn(cache, pending) <= MaxItems
  <2>1. Storing(pending) = {} /\ Stray(cache, pending) = {}
    BY <1>1 DEF Storing, Stray, DoingIn
  <2>2. Orphans(cache, pending) = {}
    BY <2>1 DEF Orphans
  <2>3. Cardinality({}) = 0
    BY FS_EmptySet
  <2> QED BY <1>2, <1>8, <2>1, <2>2, <2>3 DEF UsedIn
<1> QED BY <1>6, <1>7, <1>9, <1>10 DEF Inv

LEMMA StutterInv ==
  ASSUME Inv, UNCHANGED vars
  PROVE  Inv'
BY DEF Inv, Memory, vars

\* The actions, for proofs by cases.
LEMMA NextCases ==
  ASSUME Next
  PROVE  \/ \E c \in Conn, k \in Key : process_get_command(c, k)
         \/ \E c \in Conn, k \in Key : process_delete_command(c, k)
         \/ \E c \in Conn, k \in Key, e \in TouchTimes : process_touch_command(c, k, e)
         \/ \E c \in Conn, k \in Key, op \in {"incr", "decr"} : DeltaFails(c, op, k)
         \/ \E c \in Conn, k \in Key, op \in {"incr", "decr"}, d \in Deltas : DeltaInPlace(c, op, k, d)
         \/ \E c \in Conn, k \in Key, op \in {"incr", "decr"}, d \in Deltas : DeltaReplaces(c, op, k, d)
         \/ \E c \in Conn : process_update_command(c)
         \/ \E c \in Conn : set_too_large(c)
         \/ \E c \in Conn : item_update(c)
         \/ \E c \in Conn : item_unlink(c)
         \/ \E c \in Conn : FindStale(c)
         \/ \E c \in Conn : StoreSet(c)
         \/ \E c \in Conn : StoreAdd(c)
         \/ \E c \in Conn : StoreReplace(c)
         \/ \E c \in Conn : StoreCas(c)
         \/ \E c \in Conn : StoreAppend(c)
         \/ \E c \in Conn : conn_release_items(c)
         \/ \E c \in Conn, d \in FlushDelays : flush_all(c, d)
         \/ lru_crawler_crawl
         \/ item_crawler_thread
         \/ clock_handler
BY Zenon DEF Next

LEMMA NextInv ==
  ASSUME Inv, [Next]_vars
  PROVE  Inv'
<1>1. ASSUME NEW c \in Conn, NEW k \in Key, process_get_command(c, k) PROVE Inv'
  BY <1>1, GetInv
<1>2. ASSUME NEW c \in Conn, NEW k \in Key, process_delete_command(c, k) PROVE Inv'
  BY <1>2, DeleteInv
<1>3. ASSUME NEW c \in Conn, NEW k \in Key, NEW e \in TouchTimes, process_touch_command(c, k, e)
      PROVE  Inv'
  BY <1>3, TouchHit, TouchMiss
<1>4. ASSUME NEW c \in Conn, NEW k \in Key, NEW op, DeltaFails(c, op, k) PROVE Inv'
  BY <1>4, DeltaFailsInv
<1>5. ASSUME NEW c \in Conn, NEW k \in Key, NEW op, NEW d \in Deltas, DeltaInPlace(c, op, k, d)
      PROVE  Inv'
  BY <1>5, InPlaceInv
<1>6. ASSUME NEW c \in Conn, NEW k \in Key, NEW op, NEW d \in Deltas, DeltaReplaces(c, op, k, d)
      PROVE  Inv'
  BY <1>6, DeltaReplacesInv
<1>7. ASSUME NEW c \in Conn, process_update_command(c) PROVE Inv'
  BY <1>7, RequestInv
<1>7a. ASSUME NEW c \in Conn, set_too_large(c) PROVE Inv'
  BY <1>7a, TooLargeInv
<1>8. ASSUME NEW c \in Conn, item_update(c) PROVE Inv'
  BY <1>8, UpdateInv
<1>9. ASSUME NEW c \in Conn, item_unlink(c) PROVE Inv'
  BY <1>9, UnlinkInv
<1>10. ASSUME NEW c \in Conn, FindStale(c) PROVE Inv'
  BY <1>10, StaleInv
<1>11. ASSUME NEW c \in Conn, StoreSet(c) PROVE Inv'
  BY <1>11, StoreSetInv
<1>12. ASSUME NEW c \in Conn, StoreAdd(c) PROVE Inv'
  BY <1>12, StoreAddInv
<1>13. ASSUME NEW c \in Conn, StoreReplace(c) PROVE Inv'
  BY <1>13, StoreReplaceInv
<1>14. ASSUME NEW c \in Conn, StoreCas(c) PROVE Inv'
  BY <1>14, StoreCasInv
<1>15. ASSUME NEW c \in Conn, StoreAppend(c) PROVE Inv'
  BY <1>15, StoreAppendInv
<1>16. ASSUME NEW c \in Conn, conn_release_items(c) PROVE Inv'
  BY <1>16, ReleaseInv
<1>17. ASSUME NEW c \in Conn, NEW d \in FlushDelays, flush_all(c, d) PROVE Inv'
  BY <1>17, FlushInv
<1>18. CASE lru_crawler_crawl
  BY <1>18, CrawlInv
<1>19. CASE item_crawler_thread
  BY <1>19, CrawlerInv
<1>20. CASE clock_handler
  BY <1>20, ClockInv
<1>21. CASE UNCHANGED vars
  BY <1>21, StutterInv
<1> QED
  BY <1>1, <1>2, <1>3, <1>4, <1>5, <1>6, <1>7, <1>8, <1>9, <1>10, <1>11, <1>12, <1>13, <1>14,
     <1>15, <1>16, <1>17, <1>18, <1>19, <1>20, <1>21, <1>7a, NextCases, Zenon

LEMMA SpecInv == Spec => []Inv
BY InitInv, NextInv, PTL DEF Spec

\* The hash table and the LRU always hold the same items, each once; no item is from the
\* future; and linked items, items being filled and unlinked items with references never
\* need more chunks than there are.
THEOREM TypeCorrect == Spec => []TypeOK
BY SpecInv, InvIs, PTL

\* The LRU stays in the order of the items' times, whatever is bumped, replaced, crawled
\* over or evicted: flush_all can stop at the first item that is older than it.
THEOREM LruIsSorted == Spec => []LruSorted
BY SpecInv, InvIs, PTL

-----------------------------------------------------------------------------
(* Live items go for a reason *)

\* What may make the item of k go.
Lawful(k) ==
  \/ \E c \in Conn : Doing(c, {"delete", "oom"}) /\ pending[c].key = k /\ Idle(c)'
  \/ \E c \in Conn, d \in FlushDelays : flush_all(c, d)
  \/ evict_to_free /\ Used = MaxItems

LEMMA FullIs ==
  ASSUME Inv, ~(Used < MaxItems)
  PROVE  Used = MaxItems
<1>1. IsFiniteSet(DOMAIN cache) /\ MaxItems \in Nat
  BY Basics
<1>2. UsedIn(cache, pending) \in Nat
  BY <1>1, CountsFinite
<1>3. Used = UsedIn(cache, pending)
  BY UsedIs
<1> QED BY <1>1, <1>2, <1>3 DEF Inv

LEMMA KeepLoses ==
  ASSUME Inv, KeepStep, NEW k, Hit(k), k \notin DOMAIN cache'
  PROVE  Lawful(k)
<1>1. PICK gone, ks : Keeps(gone, ks) /\ Reclaims(gone)
  BY DEF KeepStep
<1>2. k \in gone
  BY <1>1, HitFacts DEF Keeps, Change
<1>3. evict_to_free /\ ~(Used < MaxItems)
  BY <1>1, <1>2 DEF Reclaims
<1> QED BY <1>3, FullIs DEF Lawful

LEMMA PutLoses ==
  ASSUME Inv, NEW x, NEW v, PutStep(x, v), NEW k, Hit(k), k \notin DOMAIN cache'
  PROVE  Lawful(k)
<1>1. PICK gone, ks : Puts(gone, ks, x, v) /\ Reclaims(gone \ {x})
  BY DEF PutStep
<1>2. k \in gone \ {x}
  BY <1>1, HitFacts DEF Puts
<1>3. evict_to_free /\ ~(Used < MaxItems)
  BY <1>1, <1>2 DEF Reclaims
<1> QED BY <1>3, FullIs DEF Lawful

LEMMA NoSpuriousLossStep ==
  ASSUME Inv, [Next]_vars, NEW k \in Key, Hit(k), k \notin DOMAIN cache'
  PROVE  Lawful(k)
<1>1. ASSUME NEW c \in Conn, NEW x \in Key, process_get_command(c, x) PROVE Lawful(k)
  BY <1>1, GetInv, KeepLoses
<1>2. ASSUME NEW c \in Conn, NEW x \in Key, process_delete_command(c, x) PROVE Lawful(k)
  BY <1>2, DeleteInv, KeepLoses
<1>3. ASSUME NEW c \in Conn, NEW x \in Key, NEW e \in TouchTimes, process_touch_command(c, x, e)
      PROVE  Lawful(k)
  <2>1. CASE Hit(x)
    <3>1. Touches(x, e)
      BY <1>3, <2>1, TouchHit
    <3> QED BY <3>1, HitFacts DEF Touches
  <2>2. CASE ~Hit(x)
    BY <1>3, <2>2, TouchMiss, KeepLoses
  <2> QED BY <2>1, <2>2
<1>4. ASSUME NEW c \in Conn, NEW x \in Key, NEW op, DeltaFails(c, op, x) PROVE Lawful(k)
  BY <1>4, DeltaFailsInv, KeepLoses
<1>5. ASSUME NEW c \in Conn, NEW x \in Key, NEW op, NEW d \in Deltas, DeltaInPlace(c, op, x, d)
      PROVE  Lawful(k)
  BY <1>5, InPlaceInv, PutLoses
<1>6. ASSUME NEW c \in Conn, NEW x \in Key, NEW op, NEW d \in Deltas, DeltaReplaces(c, op, x, d)
      PROVE  Lawful(k)
  BY <1>6, DeltaReplacesInv, KeepLoses, PutLoses
<1>7. ASSUME NEW c \in Conn, process_update_command(c) PROVE Lawful(k)
  BY <1>7, RequestInv, KeepLoses
<1>7a. ASSUME NEW c \in Conn, set_too_large(c) PROVE Lawful(k)
  BY <1>7a, TooLargeInv, KeepLoses
<1>8. ASSUME NEW c \in Conn, item_update(c) PROVE Lawful(k)
  BY <1>8, UpdateInv, KeepLoses
<1>9. ASSUME NEW c \in Conn, item_unlink(c) PROVE Lawful(k)
  <2>1. PICK gone : Keeps(gone, {}) /\ gone \subseteq {pending[c].key}
    BY <1>9, UnlinkInv
  <2>2. pending[c].key = k
    BY <2>1, HitFacts DEF Keeps, Change
  <2>3. Doing(c, {"delete", "oom"}) /\ pending' = [pending EXCEPT ![c] = NoEntry]
    BY <1>9 DEF item_unlink, End, Begin
  <2>4. Idle(c)'
    <3>1. pending'[c] = NoEntry
      BY <2>3 DEF Inv, PendOK
    <3> QED BY <3>1 DEF Idle
  <2> QED BY <2>2, <2>3, <2>4 DEF Lawful
<1>10. ASSUME NEW c \in Conn, FindStale(c) PROVE Lawful(k)
  BY <1>10, StaleInv, KeepLoses
<1>11. ASSUME NEW c \in Conn, StoreSet(c) PROVE Lawful(k)
  BY <1>11, StoreSetInv, PutLoses
<1>12. ASSUME NEW c \in Conn, StoreAdd(c) PROVE Lawful(k)
  BY <1>12, StoreAddInv, KeepLoses, PutLoses
<1>13. ASSUME NEW c \in Conn, StoreReplace(c) PROVE Lawful(k)
  BY <1>13, StoreReplaceInv, KeepLoses, PutLoses
<1>14. ASSUME NEW c \in Conn, StoreCas(c) PROVE Lawful(k)
  BY <1>14, StoreCasInv, KeepLoses, PutLoses
<1>15. ASSUME NEW c \in Conn, StoreAppend(c) PROVE Lawful(k)
  BY <1>15, StoreAppendInv, KeepLoses, PutLoses
<1>16. ASSUME NEW c \in Conn, conn_release_items(c) PROVE Lawful(k)
  BY <1>16, ReleaseInv, KeepLoses
<1>17. ASSUME NEW c \in Conn, NEW d \in FlushDelays, flush_all(c, d) PROVE Lawful(k)
  BY <1>17 DEF Lawful
<1>18. CASE lru_crawler_crawl
  BY <1>18, CrawlInv, KeepLoses
<1>19. CASE item_crawler_thread
  BY <1>19, CrawlerInv, KeepLoses
<1>20. CASE clock_handler
  BY <1>20, HitFacts DEF clock_handler
<1>21. CASE UNCHANGED vars
  BY <1>21, HitFacts DEF vars
<1> QED
  BY <1>1, <1>2, <1>3, <1>4, <1>5, <1>6, <1>7, <1>8, <1>9, <1>10, <1>11, <1>12, <1>13, <1>14,
     <1>15, <1>16, <1>17, <1>18, <1>19, <1>20, <1>21, <1>7a, NextCases, Zenon

\* A live item goes only by a delete or a set that got no chunk, by flush_all, or by eviction
\* when every chunk is in use.
THEOREM LiveItemsStay == Spec => NoSpuriousLoss
<1>1. Inv /\ [Next]_vars =>
        [\A k \in Key : Hit(k) /\ k \notin DOMAIN cache' =>
           \/ \E c \in Conn : Doing(c, {"delete", "oom"}) /\ pending[c].key = k /\ Idle(c)'
           \/ \E c \in Conn, d \in FlushDelays : flush_all(c, d)
           \/ evict_to_free /\ Used = MaxItems]_vars
  BY NoSpuriousLossStep, Zenon DEF Lawful
<1> QED BY <1>1, SpecInv, PTL DEF Spec, NoSpuriousLoss

-----------------------------------------------------------------------------
(* touch with a negative exptime *)

LEMMA NewTouch ==
  ASSUME Inv, NEW x \in Conn, NEW r, pending' = [pending EXCEPT ![x] = r],
         NEW c \in Conn, Idle(c), DoingIn(pending', c, {"touch"})
  PROVE  c = x /\ r # NoEntry /\ r.comm = "touch"
<1>1. pending'[x] = r /\ \A d \in Conn : d # x => pending'[d] = pending[d]
  BY DEF Inv, PendOK
<1> QED BY <1>1 DEF Idle, DoingIn

LEMMA TouchBegins ==
  ASSUME Inv, [Next]_vars, NEW c \in Conn, Idle(c), DoingIn(pending', c, {"touch"})
  PROVE  \E k \in Key, e \in TouchTimes : process_touch_command(c, k, e) /\ Hit(k)
<1> DEFINE G == \E k \in Key, e \in TouchTimes : process_touch_command(c, k, e) /\ Hit(k)
<1>0. ASSUME pending' = pending PROVE FALSE
  BY <1>0 DEF Idle, DoingIn
<1>a. ASSUME NEW x \in Conn, pending' = [pending EXCEPT ![x] = NoEntry] PROVE FALSE
  BY <1>a, NewTouch
<1>b. ASSUME NEW x \in Conn, NEW comm, NEW k, item_get(x, comm, k), comm # "touch" PROVE FALSE
  <2>1. CASE Hit(k)
    <3>1. PICK r : r = Found(comm, k, 0)
      OBVIOUS
    <3>2. pending' = [pending EXCEPT ![x] = r] /\ r.comm = comm
      BY <1>b, <2>1, <3>1 DEF item_get, Begin, Found
    <3> QED BY <1>b, <3>2, NewTouch
  <2>2. CASE ~Hit(k)
    BY <1>a, <1>b, <2>2 DEF item_get, End, Begin
  <2> QED BY <2>1, <2>2
<1>1. ASSUME NEW x \in Conn, NEW k \in Key, process_get_command(x, k) PROVE FALSE
  <2>1. item_get(x, "get", k) /\ "get" # "touch"
    BY <1>1 DEF process_get_command
  <2> QED BY <1>b, <2>1
<1>2. ASSUME NEW x \in Conn, NEW k \in Key, process_delete_command(x, k) PROVE FALSE
  <2>1. item_get(x, "delete", k) /\ "delete" # "touch"
    BY <1>2 DEF process_delete_command
  <2> QED BY <1>b, <2>1
<1>3. ASSUME NEW x \in Conn, NEW k \in Key, NEW e \in TouchTimes, process_touch_command(x, k, e)
      PROVE  G
  <2>1. CASE Hit(k)
    <3>1. PICK r : r = Found("touch", k, e)
      OBVIOUS
    <3>2. pending' = [pending EXCEPT ![x] = r]
      BY <1>3, <2>1, <3>1 DEF process_touch_command, Begin, Found
    <3>3. c = x
      BY <3>2, NewTouch
    <3> QED BY <1>3, <2>1, <3>3
  <2>2. CASE ~Hit(k)
    <3>1. pending' = [pending EXCEPT ![x] = NoEntry]
      BY <1>3, <2>2 DEF process_touch_command, item_get, End, Begin
    <3> QED BY <1>a, <3>1
  <2> QED BY <2>1, <2>2
<1>4. ASSUME NEW x \in Conn, NEW k \in Key, NEW op, DeltaFails(x, op, k) PROVE FALSE
  BY <1>0, <1>4 DEF DeltaFails
<1>5. ASSUME NEW x \in Conn, NEW k \in Key, NEW op, NEW d \in Deltas, DeltaInPlace(x, op, k, d)
      PROVE  FALSE
  BY <1>0, <1>5 DEF DeltaInPlace
<1>6. ASSUME NEW x \in Conn, NEW k \in Key, NEW op, NEW d \in Deltas, DeltaReplaces(x, op, k, d)
      PROVE  FALSE
  <2>1. \/ pending' = pending
        \/ pending' = [y \in Conn |->
                    IF Doing(y, Looking) /\ pending[y].key = k /\ StillLinked(y)
                    THEN [pending[y] EXCEPT !.cas = cas_id + 1] ELSE pending[y]]
    BY <1>6, DeltaReplacesInv
  <2>2. ~Doing(c, Looking)
    BY DEF Idle, Doing
  <2>3. pending'[c] = pending[c]
    BY <2>1, <2>2
  <2> QED BY <2>3 DEF Idle, DoingIn
<1>7. ASSUME NEW x \in Conn, process_update_command(x) PROVE FALSE
  <2>1. PICK comm \in Storage, k \in Key :
           \/ \E e \in ExpTimes, t \in Token,
                    cas \in IF comm \in {"cas", "append", "prepend"} THEN 0..cas_id ELSE {0} :
                   Begin(x, [comm |-> comm, key |-> k, val |-> <<t>>,
                             exptime |-> UpdateExpTime(e), cas |-> cas, id |-> 0])
           \/ Begin(x, [comm |-> "stale", key |-> k, val |-> <<>>,
                           exptime |-> 0, cas |-> 0, id |-> 0])
           \/ UNCHANGED pending
    BY <1>7, Zenon DEF process_update_command
  <2>2. ASSUME NEW e, NEW t, NEW cas,
               Begin(x, [comm |-> comm, key |-> k, val |-> <<t>>,
                         exptime |-> UpdateExpTime(e), cas |-> cas, id |-> 0])
        PROVE  FALSE
    <3>1. PICK r : r = [comm |-> comm, key |-> k, val |-> <<t>>,
                        exptime |-> UpdateExpTime(e), cas |-> cas, id |-> 0]
      OBVIOUS
    <3>2. pending' = [pending EXCEPT ![x] = r] /\ r.comm = comm
      BY <2>2, <3>1 DEF Begin
    <3>3. comm # "touch"
      BY DEF Storage
    <3> QED BY <3>2, <3>3, NewTouch
  <2>3. ASSUME Begin(x, [comm |-> "stale", key |-> k, val |-> <<>>,
                         exptime |-> 0, cas |-> 0, id |-> 0])
        PROVE  FALSE
    <3>1. PICK r : r = [comm |-> "stale", key |-> k, val |-> <<>>, exptime |-> 0, cas |-> 0, id |-> 0]
      OBVIOUS
    <3>2. pending' = [pending EXCEPT ![x] = r] /\ r.comm = "stale"
      BY <2>3, <3>1 DEF Begin
    <3> QED BY <3>2, NewTouch
  <2> QED BY <1>0, <2>1, <2>2, <2>3
<1>7a. ASSUME NEW x \in Conn, set_too_large(x) PROVE FALSE
  <2>1. PICK k \in Key :
          Begin(x, [comm |-> "stale", key |-> k, val |-> <<>>, exptime |-> 0, cas |-> 0, id |-> 0])
    BY <1>7a DEF set_too_large
  <2>2. PICK r : r = [comm |-> "stale", key |-> k, val |-> <<>>, exptime |-> 0, cas |-> 0, id |-> 0]
    OBVIOUS
  <2>3. pending' = [pending EXCEPT ![x] = r] /\ r.comm = "stale"
    BY <2>1, <2>2 DEF Begin
  <2> QED BY <2>3, NewTouch
<1>8. ASSUME NEW x \in Conn, item_update(x) PROVE FALSE
  BY <1>8, <1>a DEF item_update, End, Begin
<1>9. ASSUME NEW x \in Conn, item_unlink(x) PROVE FALSE
  BY <1>9, <1>a DEF item_unlink, End, Begin
<1>10. ASSUME NEW x \in Conn, FindStale(x) PROVE FALSE
  <2>1. PICK k : k = pending[x].key
    OBVIOUS
  <2>2. item_get(x, "oom", k) /\ "oom" # "touch"
    BY <1>10, <2>1 DEF FindStale
  <2> QED BY <1>b, <2>2
<1>11. ASSUME NEW x \in Conn, StoreSet(x) PROVE FALSE
  BY <1>11, <1>a DEF StoreSet, Store, End, Begin
<1>12. ASSUME NEW x \in Conn, StoreAdd(x) PROVE FALSE
  BY <1>12, <1>a DEF StoreAdd, Store, Leave, End, Begin
<1>13. ASSUME NEW x \in Conn, StoreReplace(x) PROVE FALSE
  BY <1>13, <1>a DEF StoreReplace, Store, Leave, End, Begin
<1>14. ASSUME NEW x \in Conn, StoreCas(x) PROVE FALSE
  BY <1>14, <1>a DEF StoreCas, Store, Leave, End, Begin
<1>15. ASSUME NEW x \in Conn, StoreAppend(x) PROVE FALSE
  BY <1>15, <1>a DEF StoreAppend, Store, Leave, End, Begin
<1>16. ASSUME NEW x \in Conn, conn_release_items(x) PROVE FALSE
  BY <1>16, <1>a DEF conn_release_items, End, Begin
<1>17. ASSUME NEW x \in Conn, NEW d \in FlushDelays, flush_all(x, d) PROVE FALSE
  BY <1>0, <1>17 DEF flush_all
<1>18. CASE lru_crawler_crawl
  BY <1>0, <1>18 DEF lru_crawler_crawl
<1>19. CASE item_crawler_thread
  BY <1>0, <1>19 DEF item_crawler_thread
<1>20. CASE clock_handler
  BY <1>0, <1>20 DEF clock_handler
<1>21. CASE UNCHANGED vars
  BY <1>0, <1>21 DEF vars
<1> HIDE DEF G
<1>22. G
  BY <1>1, <1>2, <1>3, <1>4, <1>5, <1>6, <1>7, <1>8, <1>9, <1>10, <1>11, <1>12, <1>13, <1>14,
     <1>15, <1>16, <1>17, <1>18, <1>19, <1>20, <1>21, <1>7a, NextCases, Zenon
<1> QED BY <1>22 DEF G

\* current_time has been read by the action: it does not change.
LEMMA TouchInThePastStep ==
  ASSUME Inv, [Next]_vars, NEW c \in Conn, Idle(c),
         Doing(c, {"touch"})', (pending[c].exptime \in (1 - current_time)..(-1))'
  PROVE  (~Hit(pending[c].key))'
<1>1. DoingIn(pending', c, {"touch"})
  BY DEF Doing, DoingIn
<1>2. PICK k \in Key, e \in TouchTimes : process_touch_command(c, k, e) /\ Hit(k)
  BY <1>1, TouchBegins
<1>3. PICK r : r = Found("touch", k, e)
  OBVIOUS
<1>4. pending' = [pending EXCEPT ![c] = r] /\ r.key = k /\ r.exptime = e
  BY <1>2, <1>3 DEF process_touch_command, Begin, Found
<1>5. pending'[c] = r
  BY <1>4 DEF Inv, PendOK
<1>6. current_time' = current_time
  BY <1>2 DEF process_touch_command, clock
<1>7. e \in (1 - current_time)..(-1) /\ current_time \in Nat
  BY <1>4, <1>5, <1>6, Basics
<1>8. cache'[k].exptime = realtime(e)
  BY <1>2, TouchHit DEF Touches
<1>9. realtime(e) = e + current_time
  <2>1. /\ RelTimeMod \in Nat \ {0} /\ current_time < RelTimeMod /\ REALTIME_MAXDELTA \in Nat
    BY Basics, ClockAssumption DEF Times
  <2>2. PICK x : x = e + current_time
    OBVIOUS
  <2>3. x \in 0..(RelTimeMod - 1)
    BY <1>7, <2>1, <2>2
  <2>4. x % RelTimeMod = x
    BY <2>1, <2>3, ModFacts
  <2>5. e # 0 /\ ~(e > REALTIME_MAXDELTA)
    BY <1>7, <2>1
  <2> QED BY <2>2, <2>4, <2>5 DEF realtime
<1>10. e + current_time # 0 /\ e + current_time <= current_time
  BY <1>7
<1>11. cache'[k].exptime # 0 /\ cache'[k].exptime <= current_time'
  BY <1>6, <1>8, <1>9, <1>10
<1> QED BY <1>4, <1>5, <1>11 DEF Hit, Expired

\* touch with a time before now makes the item unavailable at once, as long as that is not
\* before process_started.
THEOREM TouchExpires == Spec => TouchInThePast
<1>1. Inv /\ [Next]_vars =>
        [\A c \in Conn :
           Idle(c) /\ (Doing(c, {"touch"}) /\ pending[c].exptime \in (1 - current_time)..(-1))'
             => (~Hit(pending[c].key))']_vars
  BY TouchInThePastStep, Zenon
<1> QED BY <1>1, SpecInv, PTL DEF Spec, TouchInThePast

-----------------------------------------------------------------------------
(* flush_all *)

\* The instances in which flush_all keeps its promise: nobody uses it; or it has no delay,
\* there is no crawler to stop its walk, and no other connection to bump what it left.
FlushIsSafe ==
  \/ FlushDelays = {}
  \/ (\A d \in FlushDelays : d <= 0) /\ ~lru_crawler /\ (\A c, d \in Conn : c = d)

\* oldest_live is past; no command refers to a linked item it hides; and it hides every
\* linked item from before the last flush_all.
FlushInv0 ==
  /\ oldest_live < current_time
  /\ \A c \in Conn : DoingIn(pending, c, Looking) /\ LinkedIn(cache, pending, c)
                       => cache[pending[c].key].time > oldest_live
  /\ \A k \in DOMAIN cache : cache[k].cas <= flushed_cas
                       => oldest_live # 0 /\ cache[k].time <= oldest_live

LEMMA FlushNumbers ==
  ASSUME Inv
  PROVE  /\ oldest_live \in Nat /\ current_time \in Nat /\ StartTime \in Nat \ {0, 1}
         /\ flushed_cas \in Nat /\ cas_id \in Nat /\ flushed_cas <= cas_id
         /\ \A k \in DOMAIN cache : /\ cache[k].time \in Nat /\ cache[k].time <= current_time
                                    /\ cache[k].time >= StartTime
                                    /\ cache[k].cas \in Nat /\ cache[k].exptime \in Nat
<1>1. RelTimeMod \in Nat
  BY ClockAssumption
<1>2. oldest_live \in Nat /\ flushed_cas \in Nat /\ flushed_cas <= cas_id
  BY <1>1 DEF Inv, RelTime
<1>3. current_time \in Nat /\ StartTime \in Nat \ {0, 1} /\ cas_id \in Nat
  BY Basics DEF Times
<1>4. \A k \in DOMAIN cache : cache[k] \in ItemAt(current_time, cas_id)
  BY Basics
<1> QED BY <1>1, <1>2, <1>3, <1>4 DEF ItemAt, RelTime

LEMMA LiveIsNew ==
  ASSUME Inv, FlushInv0, NEW k, Hit(k) \/ Held(k)
  PROVE  k \in DOMAIN cache /\ cache[k].time > oldest_live
<1>1. CASE Hit(k)
  BY <1>1, FlushNumbers DEF Hit, Flushed, FlushInv0
<1>2. CASE Held(k)
  BY <1>2, HeldIs DEF FlushInv0, LinkedIn
<1> QED BY <1>1, <1>2

\* Commands go on with what they refer to, or have found a live item.
GoesOn(c) ==
  /\ DoingIn(pending, c, Looking)
  /\ pending'[c].id = pending[c].id /\ pending'[c].key = pending[c].key
GoOn == \A c \in Conn : DoingIn(pending', c, Looking) => GoesOn(c)
Looks == \A c \in Conn : DoingIn(pending', c, Looking) => Hit(pending'[c].key) \/ GoesOn(c)

LEMMA KeepsFlush ==
  ASSUME Inv, FlushInv0, NEW gone, NEW ks, Keeps(gone, ks), Bumped(ks), Looks,
         UNCHANGED <<clock, flushed_cas>>
  PROVE  FlushInv0'
<1>1. oldest_live' = oldest_live /\ current_time' = current_time /\ flushed_cas' = flushed_cas
  BY DEF clock
<1>2. \A k \in DOMAIN cache' :
        /\ k \in DOMAIN cache /\ SameItem(cache[k], cache'[k])
        /\ cache'[k].time = cache[k].time \/ (k \in ks /\ cache'[k].time = current_time)
  BY DEF Keeps, Change
<1>3. \A k \in DOMAIN cache' : cache'[k].cas <= flushed_cas
                       => oldest_live # 0 /\ cache'[k].time <= oldest_live
  <2> SUFFICES ASSUME NEW k \in DOMAIN cache', cache'[k].cas <= flushed_cas
               PROVE  oldest_live # 0 /\ cache'[k].time <= oldest_live
    OBVIOUS
  <2>1. oldest_live # 0 /\ cache[k].time <= oldest_live
    BY <1>2 DEF FlushInv0, SameItem
  <2>2. k \notin ks
    <3> SUFFICES ASSUME k \in ks PROVE FALSE
      OBVIOUS
    <3>1. cache[k].time > oldest_live
      BY LiveIsNew DEF Bumped
    <3> QED BY <1>2, <2>1, <3>1, FlushNumbers
  <2> QED BY <1>2, <2>1, <2>2
<1>4. ASSUME NEW c \in Conn, DoingIn(pending', c, Looking), LinkedIn(cache', pending', c)
      PROVE  cache'[pending'[c].key].time > oldest_live
  <2>1. PICK k : k = pending'[c].key
    OBVIOUS
  <2>2. k \in DOMAIN cache' /\ cache'[k].cas = pending'[c].id
    BY <1>4, <2>1 DEF LinkedIn
  <2>3. cache[k].time > oldest_live
    <3>1. CASE Hit(k)
      BY <3>1, LiveIsNew
    <3>2. CASE GoesOn(c)
      <4>1. LinkedIn(cache, pending, c) /\ pending[c].key = k
        BY <1>2, <2>1, <2>2, <3>2 DEF LinkedIn, SameItem, GoesOn
      <4> QED BY <3>2, <4>1 DEF FlushInv0, GoesOn
    <3> QED BY <1>4, <2>1, <3>1, <3>2 DEF Looks
  <2>4. current_time > oldest_live
    BY FlushNumbers DEF FlushInv0
  <2> QED BY <1>2, <2>1, <2>2, <2>3, <2>4
<1> QED BY <1>1, <1>3, <1>4 DEF FlushInv0

LEMMA PutFlush ==
  ASSUME Inv, FlushInv0, NEW k, NEW v, PutStep(k, v),
         GoOn, UNCHANGED <<clock, flushed_cas>>
  PROVE  FlushInv0'
<1>1. oldest_live' = oldest_live /\ current_time' = current_time /\ flushed_cas' = flushed_cas
  BY DEF clock
<1>2. PICK gone, ks : Puts(gone, ks, k, v) /\ Bumped(ks)
  BY DEF PutStep
<1>3. \A x \in DOMAIN cache' : x # k =>
        /\ x \in DOMAIN cache /\ SameItem(cache[x], cache'[x])
        /\ cache'[x].time = cache[x].time \/ (x \in ks /\ cache'[x].time = current_time)
  BY <1>2 DEF Puts
<1>4. cache'[k].cas = cas_id + 1
  BY <1>2 DEF Puts
<1>5. \A x \in DOMAIN cache' : cache'[x].cas <= flushed_cas
                       => oldest_live # 0 /\ cache'[x].time <= oldest_live
  <2> SUFFICES ASSUME NEW x \in DOMAIN cache', cache'[x].cas <= flushed_cas
               PROVE  oldest_live # 0 /\ cache'[x].time <= oldest_live
    OBVIOUS
  <2>0. x # k
    BY <1>4, FlushNumbers
  <2>1. oldest_live # 0 /\ cache[x].time <= oldest_live
    BY <1>3, <2>0 DEF FlushInv0, SameItem
  <2>2. x \notin ks
    <3> SUFFICES ASSUME x \in ks PROVE FALSE
      OBVIOUS
    <3>1. cache[x].time > oldest_live
      BY <1>2, LiveIsNew DEF Bumped
    <3> QED BY <1>3, <2>0, <2>1, <3>1, FlushNumbers
  <2> QED BY <1>3, <2>0, <2>1, <2>2
<1>6. ASSUME NEW c \in Conn, DoingIn(pending', c, Looking), LinkedIn(cache', pending', c)
      PROVE  cache'[pending'[c].key].time > oldest_live
  <2>1. PICK x : x = pending'[c].key
    OBVIOUS
  <2>2. x \in DOMAIN cache' /\ cache'[x].cas = pending'[c].id
    BY <1>6, <2>1 DEF LinkedIn
  <2>3. /\ DoingIn(pending, c, Looking)
        /\ pending'[c].id = pending[c].id /\ pending[c].key = x
    BY <1>6, <2>1 DEF GoOn, GoesOn
  <2>4. x # k
    BY <1>4, <2>2, <2>3, FreshId
  <2>5. LinkedIn(cache, pending, c)
    BY <1>3, <2>2, <2>3, <2>4 DEF LinkedIn, SameItem
  <2>6. cache[x].time > oldest_live
    BY <2>3, <2>5 DEF FlushInv0
  <2>7. current_time > oldest_live
    BY FlushNumbers DEF FlushInv0
  <2> QED BY <1>3, <2>1, <2>2, <2>4, <2>6, <2>7
<1> QED BY <1>1, <1>5, <1>6 DEF FlushInv0

LEMMA TouchFlush ==
  ASSUME Inv, FlushInv0, NEW k, NEW e, Touches(k, e), Looks, UNCHANGED <<clock, flushed_cas>>
  PROVE  FlushInv0'
<1>1. oldest_live' = oldest_live /\ current_time' = current_time /\ flushed_cas' = flushed_cas
  BY DEF clock
<1>2. /\ DOMAIN cache' = DOMAIN cache
      /\ \A x \in DOMAIN cache : cache'[x].time = cache[x].time /\ cache'[x].cas = cache[x].cas
  BY DEF Touches
<1>3. \A x \in DOMAIN cache' : cache'[x].cas <= flushed_cas
                       => oldest_live # 0 /\ cache'[x].time <= oldest_live
  BY <1>2 DEF FlushInv0
<1>4. ASSUME NEW c \in Conn, DoingIn(pending', c, Looking), LinkedIn(cache', pending', c)
      PROVE  cache'[pending'[c].key].time > oldest_live
  <2>1. PICK x : x = pending'[c].key
    OBVIOUS
  <2>2. x \in DOMAIN cache /\ cache[x].cas = pending'[c].id
    BY <1>2, <1>4, <2>1 DEF LinkedIn
  <2>3. cache[x].time > oldest_live
    <3>1. CASE Hit(x)
      BY <3>1, LiveIsNew
    <3>2. CASE GoesOn(c)
      <4>1. LinkedIn(cache, pending, c) /\ pending[c].key = x
        BY <2>1, <2>2, <3>2 DEF LinkedIn, GoesOn
      <4> QED BY <3>2, <4>1 DEF FlushInv0, GoesOn
    <3> QED BY <1>4, <2>1, <3>1, <3>2 DEF Looks
  <2> QED BY <1>2, <2>1, <2>2, <2>3
<1> QED BY <1>1, <1>3, <1>4 DEF FlushInv0

LEMMA FlushTimeIs ==
  ASSUME Inv, NEW d \in FlushDelays, d <= 0
  PROVE  FlushTime(d) = current_time - 1 /\ FlushTime(d) # 0
<1>1. /\ RelTimeMod \in Nat \ {0} /\ current_time \in Nat /\ current_time < RelTimeMod
      /\ current_time >= 2 /\ d \in Int
  BY Basics, ClockAssumption DEF Times
<1>2. PICK x : x = current_time - 1
  OBVIOUS
<1>3. x \in 0..(RelTimeMod - 1) /\ x # 0
  BY <1>1, <1>2
<1>4. x % RelTimeMod = x
  BY <1>1, <1>3, ModFacts
<1>5. ~(d > 0)
  BY <1>1
<1> QED BY <1>2, <1>3, <1>4, <1>5 DEF FlushTime

\* Here the order of the LRU matters: what is behind the first item that is too old is too
\* old as well.
LEMMA FlushReaches ==
  ASSUME Inv, ~lru_crawler, NEW oldest \in Nat, NEW k \in DOMAIN cache, cache[k].time >= oldest
  PROVE  k \in FlushWalk(oldest)
<1>1. /\ lru \in Seq(Node) /\ Range(lru) \ {Crawler} = DOMAIN cache /\ Crawler \notin Range(lru)
      /\ Sorted(cache, lru)
  BY DEF Inv, Memory, MemOK, List
<1>2. \A x : x \in Range(lru) <=> \E i \in 1..Len(lru) : lru[i] = x
  BY <1>1, RangeIs
<1>3. PICK n \in 1..Len(lru) : lru[n] = k
  BY <1>1, <1>2
<1>4. \A i \in 1..n : lru[i] # Crawler /\ cache[lru[i]].time >= oldest
  <2> SUFFICES ASSUME NEW i \in 1..n PROVE lru[i] # Crawler /\ cache[lru[i]].time >= oldest
    OBVIOUS
  <2>1. i \in 1..Len(lru)
    BY <1>1
  <2>2. lru[i] \in Range(lru)
    BY <1>2, <2>1
  <2>3. lru[i] # Crawler /\ lru[i] \in DOMAIN cache /\ k # Crawler
    BY <1>1, <2>2, <1>2, <1>3
  <2>4. CASE i = n
    BY <1>3, <2>3, <2>4
  <2>5. CASE i # n
    <3>1. i < n
      BY <1>1, <2>5
    <3>2. Before(lru, lru[i], k)
      BY <1>3, <2>1, <3>1 DEF Before
    <3>3. cache[lru[i]].time >= cache[k].time
      BY <1>1, <2>3, <3>2 DEF Sorted
    <3> QED BY <2>3, <3>3, FlushNumbers
  <2> QED BY <2>4, <2>5
<1> QED BY <1>3, <1>4 DEF FlushWalk

LEMMA FlushFlush ==
  ASSUME FlushIsSafe, Inv, FlushInv0, NEW c \in Conn, NEW d \in FlushDelays, flush_all(c, d)
  PROVE  /\ FlushInv0' /\ Inv' /\ Keeps(FlushNow(d), {}) /\ d <= 0
         /\ oldest_live' = current_time - 1 /\ oldest_live' # 0 /\ current_time' = current_time
         /\ \A k \in DOMAIN cache' : cache'[k].time <= current_time - 1
<1>1. d <= 0 /\ ~lru_crawler /\ \A x, y \in Conn : x = y
  BY DEF FlushIsSafe
<1>2. Inv' /\ Keeps(FlushNow(d), {}) /\ oldest_live' = FlushTime(d)
  BY FlushInv
<1>3. oldest_live' = current_time - 1 /\ oldest_live' # 0
  BY <1>1, <1>2, FlushTimeIs
<1>4. pending' = pending /\ current_time' = current_time /\ Idle(c)
  BY DEF flush_all
<1>5. \A k \in DOMAIN cache' : cache'[k].time <= current_time - 1
  <2> SUFFICES ASSUME NEW k \in DOMAIN cache' PROVE cache'[k].time <= current_time - 1
    OBVIOUS
  <2>1. k \in DOMAIN cache /\ k \notin FlushNow(d) /\ cache'[k].time = cache[k].time
    BY <1>2 DEF Keeps, Change
  <2>2. PICK oldest : oldest = FlushTime(d)
    OBVIOUS
  <2>3. oldest \in Nat /\ oldest # 0 /\ oldest = current_time - 1
    <3>1. oldest = current_time - 1 /\ oldest # 0
      BY <1>2, <1>3, <2>2
    <3>2. current_time \in Nat /\ current_time >= StartTime /\ StartTime \in Nat \ {0, 1}
      BY Basics DEF Times
    <3> QED BY <3>1, <3>2
  <2>4. k \notin FlushWalk(oldest)
    BY <2>1, <2>2, <2>3 DEF FlushNow
  <2>5. ~(cache[k].time >= oldest)
    BY <1>1, <2>1, <2>3, <2>4, FlushReaches
  <2> QED BY <2>1, <2>3, <2>5, FlushNumbers
<1>6. \A x \in Conn : ~DoingIn(pending', x, Looking)
  BY <1>1, <1>4 DEF Idle, DoingIn
<1>7. oldest_live' < current_time'
  BY <1>3, <1>4, FlushNumbers
<1>8. FlushInv0'
  BY <1>3, <1>5, <1>6, <1>7 DEF FlushInv0
<1> QED BY <1>1, <1>2, <1>3, <1>4, <1>5, <1>8

LEMMA SameGoOn ==
  ASSUME pending' = pending
  PROVE  GoOn
BY DEF GoOn, GoesOn

LEMMA EndGoOn ==
  ASSUME Inv, NEW c \in Conn, pending' = [pending EXCEPT ![c] = NoEntry]
  PROVE  GoOn
<1>1. pending'[c] = NoEntry /\ \A d \in Conn : d # c => pending'[d] = pending[d]
  BY DEF Inv, PendOK
<1> QED BY <1>1 DEF GoOn, GoesOn, DoingIn

LEMMA GoOnLooks == GoOn => Looks
BY DEF GoOn, Looks

LEMMA BeginLooks ==
  ASSUME Inv, NEW c \in Conn, NEW r, pending' = [pending EXCEPT ![c] = r],
         r.comm \in Looking => Hit(r.key)
  PROVE  Looks
<1>1. pending'[c] = r /\ \A d \in Conn : d # c => pending'[d] = pending[d]
  BY DEF Inv, PendOK
<1> QED BY <1>1 DEF Looks, GoesOn, DoingIn

LEMMA GetLooks ==
  ASSUME Inv, NEW c \in Conn, NEW comm, NEW k, item_get(c, comm, k)
  PROVE  Looks
<1>1. CASE Hit(k)
  <2>1. PICK r : r = Found(comm, k, 0)
    OBVIOUS
  <2>2. pending' = [pending EXCEPT ![c] = r] /\ r.key = k
    BY <1>1, <2>1 DEF item_get, Begin, Found
  <2> QED BY <1>1, <2>2, BeginLooks
<1>2. CASE ~Hit(k)
  <2>1. pending' = [pending EXCEPT ![c] = NoEntry]
    BY <1>2 DEF item_get, End, Begin
  <2> QED BY <2>1, EndGoOn, GoOnLooks
<1> QED BY <1>1, <1>2

LEMMA TouchLooks ==
  ASSUME Inv, NEW c \in Conn, NEW k, NEW e, process_touch_command(c, k, e)
  PROVE  Looks
<1>1. CASE Hit(k)
  <2>1. PICK r : r = Found("touch", k, e)
    OBVIOUS
  <2>2. pending' = [pending EXCEPT ![c] = r] /\ r.key = k
    BY <1>1, <2>1 DEF process_touch_command, Begin, Found
  <2> QED BY <1>1, <2>2, BeginLooks
<1>2. CASE ~Hit(k)
  <2>1. item_get(c, "touch", k)
    BY <1>2 DEF process_touch_command
  <2> QED BY <2>1, GetLooks
<1> QED BY <1>1, <1>2

LEMMA RestampGoOn ==
  ASSUME Inv, NEW k, NEW new,
         pending' = [x \in Conn |->
                       IF Doing(x, Looking) /\ pending[x].key = k /\ StillLinked(x)
                       THEN [pending[x] EXCEPT !.cas = new] ELSE pending[x]]
  PROVE  GoOn
<1> SUFFICES ASSUME NEW c \in Conn, DoingIn(pending', c, Looking) PROVE GoesOn(c)
  BY DEF GoOn
<1>1. CASE Doing(c, Looking) /\ pending[c].key = k /\ StillLinked(c)
  <2>1. pending[c] \in CommandAt(cas_id)
    BY <1>1, PendFacts DEF Doing
  <2>2. PICK r : r = pending[c]
    OBVIOUS
  <2>3. pending'[c] = [r EXCEPT !.cas = new]
    BY <1>1, <2>2
  <2>4. [r EXCEPT !.cas = new].id = r.id /\ [r EXCEPT !.cas = new].key = r.key
    BY <2>1, <2>2 DEF CommandAt
  <2> QED BY <1>1, <2>2, <2>3, <2>4 DEF GoesOn, DoingIn, Doing
<1>2. CASE ~(Doing(c, Looking) /\ pending[c].key = k /\ StillLinked(c))
  BY <1>2 DEF GoesOn, DoingIn
<1> QED BY <1>1, <1>2

LEMMA RequestLooks ==
  ASSUME Inv, NEW c \in Conn, process_update_command(c)
  PROVE  Looks
<1>1. PICK comm \in Storage, k \in Key :
         \/ \E e \in ExpTimes, t \in Token,
                  cas \in IF comm \in {"cas", "append", "prepend"} THEN 0..cas_id ELSE {0} :
                 Begin(c, [comm |-> comm, key |-> k, val |-> <<t>>,
                           exptime |-> UpdateExpTime(e), cas |-> cas, id |-> 0])
         \/ Begin(c, [comm |-> "stale", key |-> k, val |-> <<>>,
                         exptime |-> 0, cas |-> 0, id |-> 0])
         \/ UNCHANGED pending
  BY Zenon DEF process_update_command
<1>2. ASSUME NEW e, NEW t, NEW cas,
             Begin(c, [comm |-> comm, key |-> k, val |-> <<t>>,
                       exptime |-> UpdateExpTime(e), cas |-> cas, id |-> 0])
      PROVE  Looks
  <2>1. PICK r : r = [comm |-> comm, key |-> k, val |-> <<t>>,
                      exptime |-> UpdateExpTime(e), cas |-> cas, id |-> 0]
    OBVIOUS
  <2>2. pending' = [pending EXCEPT ![c] = r] /\ r.comm = comm
    BY <1>2, <2>1 DEF Begin
  <2>3. comm \notin Looking
    BY DEF Storage, Looking
  <2> QED BY <2>2, <2>3, BeginLooks
<1>3. ASSUME Begin(c, [comm |-> "stale", key |-> k, val |-> <<>>,
                       exptime |-> 0, cas |-> 0, id |-> 0])
      PROVE  Looks
  <2>1. PICK r : r = [comm |-> "stale", key |-> k, val |-> <<>>, exptime |-> 0, cas |-> 0, id |-> 0]
    OBVIOUS
  <2>2. pending' = [pending EXCEPT ![c] = r] /\ r.comm \notin Looking
    BY <1>3, <2>1 DEF Begin, Looking
  <2> QED BY <2>2, BeginLooks
<1> QED BY <1>1, <1>2, <1>3, SameGoOn, GoOnLooks

LEMMA TooLargeLooks ==
  ASSUME Inv, NEW c \in Conn, set_too_large(c)
  PROVE  Looks
<1>1. PICK k \in Key :
        Begin(c, [comm |-> "stale", key |-> k, val |-> <<>>, exptime |-> 0, cas |-> 0, id |-> 0])
  BY DEF set_too_large
<1>2. PICK r : r = [comm |-> "stale", key |-> k, val |-> <<>>, exptime |-> 0, cas |-> 0, id |-> 0]
  OBVIOUS
<1>3. pending' = [pending EXCEPT ![c] = r] /\ r.comm \notin Looking
  BY <1>1, <1>2 DEF Begin, Looking
<1> QED BY <1>3, BeginLooks

LEMMA KeepFlush ==
  ASSUME Inv, FlushInv0, KeepStep, Looks, UNCHANGED <<clock, flushed_cas>>
  PROVE  FlushInv0'
BY KeepsFlush DEF KeepStep

LEMMA FlushStep ==
  ASSUME FlushIsSafe, Inv, FlushInv0, [Next]_vars
  PROVE  FlushInv0'
<1>0. ASSUME NEW c \in Conn, pending' = [pending EXCEPT ![c] = NoEntry] PROVE GoOn /\ Looks
  BY <1>0, EndGoOn, GoOnLooks
<1>1. ASSUME NEW c \in Conn, NEW k \in Key, process_get_command(c, k) PROVE FlushInv0'
  <2>1. item_get(c, "get", k) /\ UNCHANGED <<clock, flushed_cas>>
    BY <1>1 DEF process_get_command
  <2> QED BY <1>1, <2>1, GetInv, GetLooks, KeepFlush
<1>2. ASSUME NEW c \in Conn, NEW k \in Key, process_delete_command(c, k) PROVE FlushInv0'
  <2>1. item_get(c, "delete", k) /\ UNCHANGED <<clock, flushed_cas>>
    BY <1>2 DEF process_delete_command
  <2> QED BY <1>2, <2>1, DeleteInv, GetLooks, KeepFlush
<1>3. ASSUME NEW c \in Conn, NEW k \in Key, NEW e \in TouchTimes, process_touch_command(c, k, e)
      PROVE  FlushInv0'
  <2>1. Looks /\ UNCHANGED <<clock, flushed_cas>>
    BY <1>3, TouchLooks DEF process_touch_command
  <2>2. CASE Hit(k)
    BY <1>3, <2>1, <2>2, TouchHit, TouchFlush
  <2>3. CASE ~Hit(k)
    BY <1>3, <2>1, <2>3, TouchMiss, KeepFlush
  <2> QED BY <2>2, <2>3
<1>4. ASSUME NEW c \in Conn, NEW k \in Key, NEW op, DeltaFails(c, op, k) PROVE FlushInv0'
  <2>1. Looks /\ UNCHANGED <<clock, flushed_cas>>
    BY <1>4, SameGoOn, GoOnLooks DEF DeltaFails
  <2> QED BY <1>4, <2>1, DeltaFailsInv, KeepFlush
<1>5. ASSUME NEW c \in Conn, NEW k \in Key, NEW op, NEW d \in Deltas, DeltaInPlace(c, op, k, d)
      PROVE  FlushInv0'
  <2>1. GoOn /\ UNCHANGED <<clock, flushed_cas>>
    BY <1>5, SameGoOn DEF DeltaInPlace
  <2>2. PICK v : v = Padded(Result(op, cache[k].val, d), Len(cache[k].val))
    OBVIOUS
  <2>3. PutStep(k, v)
    BY <1>5, <2>2, InPlaceInv
  <2> QED BY <2>1, <2>3, PutFlush
<1>6. ASSUME NEW c \in Conn, NEW k \in Key, NEW op, NEW d \in Deltas, DeltaReplaces(c, op, k, d)
      PROVE  FlushInv0'
  <2>1. PICK v : v = Result(op, cache[k].val, d)
    OBVIOUS
  <2>2. UNCHANGED <<clock, flushed_cas>>
    BY <1>6 DEF DeltaReplaces
  <2>3. \/ /\ PutStep(k, v)
           /\ pending' = [x \in Conn |->
                IF Doing(x, Looking) /\ pending[x].key = k /\ StillLinked(x)
                THEN [pending[x] EXCEPT !.cas = cas_id + 1] ELSE pending[x]]
        \/ KeepStep /\ pending' = pending
    BY <1>6, <2>1, DeltaReplacesInv
  <2>4. PICK new : new = cas_id + 1
    OBVIOUS
  <2>5. CASE KeepStep /\ pending' = pending
    BY <2>2, <2>5, SameGoOn, GoOnLooks, KeepFlush
  <2>6. CASE /\ PutStep(k, v)
             /\ pending' = [x \in Conn |->
                  IF Doing(x, Looking) /\ pending[x].key = k /\ StillLinked(x)
                  THEN [pending[x] EXCEPT !.cas = new] ELSE pending[x]]
    <3>1. GoOn
      BY <2>6, RestampGoOn
    <3> QED BY <2>2, <2>6, <3>1, PutFlush
  <2> QED BY <2>3, <2>4, <2>5, <2>6
<1>7. ASSUME NEW c \in Conn, process_update_command(c) PROVE FlushInv0'
  <2>1. UNCHANGED <<clock, flushed_cas>>
    BY <1>7 DEF process_update_command
  <2> QED BY <1>7, <2>1, RequestInv, RequestLooks, KeepFlush
<1>7a. ASSUME NEW c \in Conn, set_too_large(c) PROVE FlushInv0'
  <2>1. UNCHANGED <<clock, flushed_cas>>
    BY <1>7a DEF set_too_large
  <2> QED BY <1>7a, <2>1, TooLargeInv, TooLargeLooks, KeepFlush
<1>8. ASSUME NEW c \in Conn, item_update(c) PROVE FlushInv0'
  <2>1. Looks /\ UNCHANGED <<clock, flushed_cas>>
    BY <1>0, <1>8 DEF item_update, End, Begin
  <2> QED BY <1>8, <2>1, UpdateInv, KeepFlush
<1>9. ASSUME NEW c \in Conn, item_unlink(c) PROVE FlushInv0'
  <2>1. Looks /\ UNCHANGED <<clock, flushed_cas>>
    BY <1>0, <1>9 DEF item_unlink, End, Begin
  <2>2. PICK gone : Keeps(gone, {})
    BY <1>9, UnlinkInv
  <2>3. Bumped({})
    BY DEF Bumped
  <2> QED BY <2>1, <2>2, <2>3, KeepsFlush
<1>10. ASSUME NEW c \in Conn, FindStale(c) PROVE FlushInv0'
  <2>1. PICK k : k = pending[c].key
    OBVIOUS
  <2>2. item_get(c, "oom", k) /\ UNCHANGED <<clock, flushed_cas>>
    BY <1>10, <2>1 DEF FindStale
  <2> QED BY <1>10, <2>2, StaleInv, GetLooks, KeepFlush
<1>11. ASSUME NEW c \in Conn, StoreSet(c) PROVE FlushInv0'
  <2>1. GoOn /\ UNCHANGED <<clock, flushed_cas>>
    BY <1>0, <1>11 DEF StoreSet, Store, End, Begin
  <2> QED BY <1>11, <2>1, StoreSetInv, PutFlush
<1>12. ASSUME NEW c \in Conn, StoreAdd(c) PROVE FlushInv0'
  <2>1. GoOn /\ Looks /\ UNCHANGED <<clock, flushed_cas>>
    BY <1>0, <1>12 DEF StoreAdd, Store, Leave, End, Begin
  <2> QED BY <1>12, <2>1, StoreAddInv, PutFlush, KeepFlush
<1>13. ASSUME NEW c \in Conn, StoreReplace(c) PROVE FlushInv0'
  <2>1. GoOn /\ Looks /\ UNCHANGED <<clock, flushed_cas>>
    BY <1>0, <1>13 DEF StoreReplace, Store, Leave, End, Begin
  <2> QED BY <1>13, <2>1, StoreReplaceInv, PutFlush, KeepFlush
<1>14. ASSUME NEW c \in Conn, StoreCas(c) PROVE FlushInv0'
  <2>1. GoOn /\ Looks /\ UNCHANGED <<clock, flushed_cas>>
    BY <1>0, <1>14 DEF StoreCas, Store, Leave, End, Begin
  <2> QED BY <1>14, <2>1, StoreCasInv, PutFlush, KeepFlush
<1>15. ASSUME NEW c \in Conn, StoreAppend(c) PROVE FlushInv0'
  <2>1. GoOn /\ Looks /\ UNCHANGED <<clock, flushed_cas>>
    BY <1>0, <1>15 DEF StoreAppend, Store, Leave, End, Begin
  <2> QED BY <1>15, <2>1, StoreAppendInv, PutFlush, KeepFlush
<1>16. ASSUME NEW c \in Conn, conn_release_items(c) PROVE FlushInv0'
  <2>1. Looks /\ UNCHANGED <<clock, flushed_cas>>
    BY <1>0, <1>16 DEF conn_release_items, End, Begin
  <2> QED BY <1>16, <2>1, ReleaseInv, KeepFlush
<1>17. ASSUME NEW c \in Conn, NEW d \in FlushDelays, flush_all(c, d) PROVE FlushInv0'
  BY <1>17, FlushFlush
<1>18. CASE lru_crawler_crawl
  <2>1. Looks /\ UNCHANGED <<clock, flushed_cas>>
    BY <1>18, SameGoOn, GoOnLooks DEF lru_crawler_crawl
  <2> QED BY <1>18, <2>1, CrawlInv, KeepFlush
<1>19. CASE item_crawler_thread
  <2>1. Looks /\ UNCHANGED <<clock, flushed_cas>>
    BY <1>19, SameGoOn, GoOnLooks DEF item_crawler_thread
  <2> QED BY <1>19, <2>1, CrawlerInv, KeepFlush
<1>20. CASE clock_handler
  <2>1. /\ current_time' = current_time + 1
        /\ UNCHANGED <<cache, lru, pending, cas_id, oldest_live, reply, flushed_cas>>
    BY <1>20 DEF clock_handler
  <2>2. oldest_live' < current_time'
    BY <2>1, FlushNumbers DEF FlushInv0
  <2> QED BY <2>1, <2>2 DEF FlushInv0
<1>21. CASE UNCHANGED vars
  BY <1>21 DEF vars, FlushInv0
<1> QED
  BY <1>1, <1>2, <1>3, <1>4, <1>5, <1>6, <1>7, <1>8, <1>9, <1>10, <1>11, <1>12, <1>13, <1>14,
     <1>15, <1>16, <1>17, <1>18, <1>19, <1>20, <1>21, <1>7a, NextCases, Zenon

LEMMA SpecFlush ==
  ASSUME FlushIsSafe
  PROVE  Spec => [](Inv /\ FlushInv0)
<1>1. Init => FlushInv0
  BY ClockAssumption DEF Init, FlushInv0, DoingIn, StartTime
<1>2. Inv /\ FlushInv0 /\ [Next]_vars => FlushInv0'
  BY FlushStep
<1> QED BY <1>1, <1>2, SpecInv, PTL DEF Spec

\* After flush_all no command returns an item that was stored before it: the items of the
\* current second are unlinked, and the comparison with oldest_live hides the older ones.
THEOREM FlushIsHonoured == FlushIsSafe => (Spec => []FlushInvalidates)
<1> SUFFICES ASSUME FlushIsSafe PROVE Spec => []FlushInvalidates
  OBVIOUS
<1>1. Inv /\ FlushInv0 => FlushInvalidates
  <2> SUFFICES ASSUME Inv, FlushInv0, NEW k \in Key, Hit(k) PROVE cache[k].cas > flushed_cas
    BY DEF FlushInvalidates
  <2>1. k \in DOMAIN cache /\ cache[k].time > oldest_live
    BY LiveIsNew
  <2>2. ~(cache[k].cas <= flushed_cas)
    BY <2>1, FlushNumbers DEF FlushInv0
  <2> QED BY <2>1, <2>2, FlushNumbers
<1> QED BY <1>1, SpecFlush, PTL
=============================================================================
