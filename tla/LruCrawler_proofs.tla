-------------------------- MODULE LruCrawler_proofs --------------------------
(***************************************************************************)
(* Proofs about LruCrawler, for any number of items, classes, workers and   *)
(* threads.                                                                *)
(***************************************************************************)
EXTENDS LruCrawler, FiniteSetTheorems, WellFoundedInduction, TLAPS

-----------------------------------------------------------------------------
(* The inductive invariant *)

Pointers == [heads : [Class -> NodeOrNull], tails : [Class -> NodeOrNull],
             next : [Node -> NodeOrNull], prev : [Node -> NodeOrNull]]

\* A doubly linked list of the nodes in M, in the order of pos, from h to t.
List(h, t, next, prev, M, pos) ==
  /\ \A a, b \in M : pos[a] = pos[b] => a = b
  /\ IF M = {} THEN h = NULL /\ t = NULL ELSE h \in M /\ t \in M
  /\ \A a \in M : pos[h] <= pos[a] /\ pos[a] <= pos[t]
  /\ \A a \in M : IF a = t THEN next[a] = NULL
                  ELSE /\ next[a] \in M /\ prev[next[a]] = a /\ pos[a] < pos[next[a]]
                       /\ \A b \in M : pos[b] <= pos[a] \/ pos[next[a]] <= pos[b]
  /\ \A a \in M : IF a = h THEN prev[a] = NULL ELSE prev[a] \in M /\ next[prev[a]] = a

\* The lists of the classes C: Members, with the linked items L and the crawlers E.
Entries(L, E, s) == {n \in L : ClassOf[n] = s} \cup (E \cap {s})
Queue(l, s, M, pos) == List(l.heads[s], l.tails[s], l.next, l.prev, M, pos)
Queues(l, L, E, C, pos) == \A s \in C : Queue(l, s, Entries(L, E, s), pos)

\* What holds of the pointers of every class, also of one whose crawler was linked twice: they
\* stay within the class.  So a step on a node of class s disturbs no other class.
In(x, s) == x = NULL \/ (x \in Node /\ ClassOfNode(x) = s)
Local(l) ==
  /\ \A s \in Class : In(l.heads[s], s) /\ In(l.tails[s], s)
  /\ \A n \in Node : In(l.next[n], ClassOfNode(n)) /\ In(l.prev[n], ClassOfNode(n))
Within(l, s, r) ==
  /\ \A u \in Class : u # s => r.heads[u] = l.heads[u] /\ r.tails[u] = l.tails[u]
  /\ \A n \in Node : ClassOfNode(n) # s => r.next[n] = l.next[n] /\ r.prev[n] = l.prev[n]

\* What item_link_q(l, n), unlink_q(l, n), crawler_crawl_q(l, c) with the entry p before the
\* crawler, and crawler_link_q(l, S) change, pointer by pointer.
Pushes(l, n, s, r) ==
  /\ r.heads[s] = n /\ r.tails[s] = (IF l.tails[s] = NULL THEN n ELSE l.tails[s])
  /\ \A u \in Class : u # s => r.heads[u] = l.heads[u] /\ r.tails[u] = l.tails[u]
  /\ \A a \in Node : r.next[a] = IF a = n THEN l.heads[s] ELSE l.next[a]
  /\ \A a \in Node : r.prev[a] = IF a = l.heads[s] THEN n ELSE IF a = n THEN NULL ELSE l.prev[a]
Drops(l, n, s, r) ==
  /\ r.heads[s] = (IF l.heads[s] = n THEN l.next[n] ELSE l.heads[s])
  /\ r.tails[s] = (IF l.tails[s] = n THEN l.prev[n] ELSE l.tails[s])
  /\ \A u \in Class : u # s => r.heads[u] = l.heads[u] /\ r.tails[u] = l.tails[u]
  /\ \A a \in Node : r.next[a] = IF a = n THEN NULL ELSE IF a = l.prev[n] THEN l.next[n] ELSE l.next[a]
  /\ \A a \in Node : r.prev[a] = IF a = n THEN NULL ELSE IF a = l.next[n] THEN l.prev[n] ELSE l.prev[a]
Swaps(l, c, p, r) ==
  /\ r.heads[c] = (IF l.heads[c] = p THEN c ELSE l.heads[c])
  /\ r.tails[c] = (IF l.tails[c] = c THEN p ELSE l.tails[c])
  /\ \A u \in Class : u # c => r.heads[u] = l.heads[u] /\ r.tails[u] = l.tails[u]
  /\ r.next[p] = l.next[c] /\ r.next[c] = p
  /\ l.prev[p] # NULL => r.next[l.prev[p]] = c
  /\ \A a \in Node : a \notin {p, c, l.prev[p]} => r.next[a] = l.next[a]
  /\ r.prev[c] = l.prev[p] /\ r.prev[p] = c
  /\ l.next[c] # NULL => r.prev[l.next[c]] = p
  /\ \A a \in Node : a \notin {p, c, l.next[c]} => r.prev[a] = l.prev[a]
Appends(l, S, r) ==
  /\ \A s \in Class : r.heads[s] = IF s \in S /\ l.heads[s] = NULL THEN s ELSE l.heads[s]
  /\ \A s \in Class : r.tails[s] = IF s \in S THEN s ELSE l.tails[s]
  /\ \A n \in Node : (~\E s \in S : l.tails[s] = n) => r.next[n] = IF n \in S THEN NULL ELSE l.next[n]
  /\ \A s \in S : (l.tails[s] \in Node /\ \A u \in S : l.tails[u] = l.tails[s] => u = s)
                  => r.next[l.tails[s]] = s
  /\ \A n \in Node : r.prev[n] = IF n \in S THEN l.tails[n] ELSE l.prev[n]

\* The positions afterwards: in front of everything, changed for those of the item before the
\* crawler, behind everything.
Pushed(r, L, E, C, n, s, pos, pos2) ==
  /\ pos2 \in [Node -> Int] /\ Queues(r, L \cup {n}, E, C, pos2)
  /\ \A a \in Node : a # n => pos2[a] = pos[a]
  /\ s \in C => \A a \in Entries(L, E, s) : pos2[n] < pos2[a]
Swapped(r, L, E, C, c, p, pos, pos2) ==
  /\ pos2 \in [Node -> Int] /\ Queues(r, L, E, C, pos2)
  /\ \A a \in Node : a \notin {p, c} => pos2[a] = pos[a]
  /\ \A a \in Entries(L, E, c) : a # p /\ pos[a] < pos[c] => pos2[a] < pos2[c]
Appended(r, L, E, C, S, pos, pos2) ==
  /\ pos2 \in [Node -> Int] /\ Queues(r, L, E \cup S, C \ (S \cap E), pos2)
  /\ \A a \in Node : a \notin S => pos2[a] = pos[a]
  /\ \A s \in (S \cap C) \ E : \A a \in Entries(L, E, s) : pos2[a] < pos2[s]

\* The queues are in the order of pos, and what a crawl has not reached is in front of it.
Ahead(L, E, U, C, pos) ==
  \A s \in E \cap C : \A n \in U[s] : n \in L /\ ClassOf[n] = s /\ pos[n] < pos[s]
Ordered(l, L, E, U, C) ==
  \E pos \in [Node -> Int] : Queues(l, L, E, C, pos) /\ Ahead(L, E, U, C, pos)
QInv == q \in Pointers /\ Local(q) /\ Ordered(q, linked, enabled, unseen, Class \ twice)

\* The flags.
BInv == lru_crawler \in BOOLEAN /\ do_run \in BOOLEAN

\* The other types, and the lock is with the thread that crawls.
TInv ==
  /\ linked \subseteq Item /\ enabled \subseteq Class
  /\ remaining \in [Class -> Nat] /\ tocrawl \in Nat
  /\ tid \in Thread \cup {NULL}
  /\ lru_crawler_lock \in Thread \cup {Nobody}
  /\ tpc \in [Thread -> {"none", "start", "waiting", "woken", "crawling", "exited"}]
  /\ i \in [Thread -> 1..(LargestId + 1)]
  /\ pc \in [Worker -> {"idle", "enable", "disable", "join", "crawl"}]
  /\ unseen \in [Class -> SUBSET Item]
  /\ twice \subseteq Class /\ fault \in {"none", "join"}
  /\ \A t \in Thread : tpc[t] = "crawling" <=> lru_crawler_lock = t

\* The count is the number of crawlers until one is linked twice, and too high ever after.
CInv ==
  /\ crawler_count \in Int /\ crawler_count >= Cardinality(enabled)
  /\ crawler_count = Cardinality(enabled) <=> twice = {}

-----------------------------------------------------------------------------
(* Lists *)

LEMMA NullIsNoNode == NULL \notin Node /\ Class \subseteq Node /\ Item \subseteq Node
  BY NodeAssumption DEF Node

\* item_link_q on the list it changes.
LEMMA ListPush ==
  ASSUME NEW l, NEW s, NEW r, NEW M \in SUBSET Node, NEW pos \in [Node -> Int], Queue(l, s, M, pos),
         NEW n \in Node, n \notin M, Pushes(l, n, s, r),
         NEW pos2 \in [Node -> Int], M # {} => pos2[n] < pos[l.heads[s]], \A a \in M : pos2[a] = pos[a]
  PROVE  Queue(r, s, M \cup {n}, pos2)
<1>1. PICK h, t, next, prev, t2, next2, prev2 :
        /\ h = l.heads[s] /\ t = l.tails[s] /\ next = l.next /\ prev = l.prev
        /\ n = r.heads[s] /\ t2 = r.tails[s] /\ next2 = r.next /\ prev2 = r.prev
  BY DEF Pushes
<1>2. List(h, t, next, prev, M, pos) /\ (M # {} => pos2[n] < pos[h])
  BY <1>1 DEF Queue
<1>3. h \in M \cup {NULL}
  BY <1>2 DEF List
<1>4. t2 = (IF t = NULL THEN n ELSE t) /\ next2[n] = h /\ \A a \in M : next2[a] = next[a]
  BY <1>1 DEF Pushes
<1>5. prev2[n] = NULL /\ (h # NULL => prev2[h] = n) /\ \A a \in M : a # h => prev2[a] = prev[a]
  BY <1>1, <1>3, NullIsNoNode DEF Pushes
<1> USE <1>2, <1>4, <1>5
<1> SUFFICES List(n, t2, next2, prev2, M \cup {n}, pos2)
  BY <1>1 DEF Queue
<1> USE DEF List
<1>6. NULL \notin M
  BY NullIsNoNode
<1>7. CASE M = {}
  BY <1>7
<1>8. CASE M # {}
  <2>1. /\ h \in M /\ t \in M /\ t2 = t /\ h # NULL /\ t # n /\ h # n
        /\ pos2[n] \in Int /\ \A a \in M : pos[a] \in Int
    BY <1>6, <1>8
  <2>2. \A a \in M : pos2[n] < pos2[a]
    BY <1>8, <2>1
  <2>3. \A a, b \in M \cup {n} : pos2[a] = pos2[b] => a = b
    BY <2>1, <2>2
  <2>4. \A a \in M \cup {n} : pos2[n] <= pos2[a] /\ pos2[a] <= pos2[t]
    BY <2>1, <2>2
  <2>5. ASSUME NEW a \in M, a # t
        PROVE  /\ next2[a] \in M /\ prev2[next2[a]] = a /\ pos2[a] < pos2[next2[a]]
               /\ \A b \in M \cup {n} : pos2[b] <= pos2[a] \/ pos2[next2[a]] <= pos2[b]
    <3>1. next[a] \in M /\ prev[next[a]] = a /\ next2[a] = next[a] /\ pos[a] < pos[next[a]]
      BY <2>5
    <3>2. next[a] # h
      BY <2>1, <3>1
    <3> QED BY <2>1, <2>2, <2>5, <3>1, <3>2
  <2>6. n # t /\ next2[n] \in M /\ prev2[next2[n]] = n /\ pos2[n] < pos2[next2[n]]
        /\ \A b \in M \cup {n} : pos2[b] <= pos2[n] \/ pos2[next2[n]] <= pos2[b]
    BY <2>1, <2>2
  <2>7. next2[t] = NULL
    BY <2>1
  <2>8. \A a \in M : prev2[a] \in M \cup {n} /\ next2[prev2[a]] = a
    BY <2>1
  <2> QED BY <2>1, <2>3, <2>4, <2>5, <2>6, <2>7, <2>8
<1> QED BY <1>7, <1>8

\* unlink_q on the list it changes.
LEMMA ListDrop ==
  ASSUME NEW l, NEW s, NEW r, NEW M \in SUBSET Node, NEW pos \in [Node -> Int], Queue(l, s, M, pos),
         NEW n \in M, Drops(l, n, s, r)
  PROVE  Queue(r, s, M \ {n}, pos)
<1>1. PICK h, t, next, prev, h2, t2, next2, prev2 :
        /\ h = l.heads[s] /\ t = l.tails[s] /\ next = l.next /\ prev = l.prev
        /\ h2 = r.heads[s] /\ t2 = r.tails[s] /\ next2 = r.next /\ prev2 = r.prev
  OBVIOUS
<1>2. List(h, t, next, prev, M, pos)
  BY <1>1 DEF Queue
<1>3. /\ h2 = IF h = n THEN next[n] ELSE h
      /\ t2 = IF t = n THEN prev[n] ELSE t
      /\ \A a \in M : a # n => next2[a] = IF a = prev[n] THEN next[n] ELSE next[a]
      /\ \A a \in M : a # n => prev2[a] = IF a = next[n] THEN prev[n] ELSE prev[a]
  BY <1>1 DEF Drops
<1> USE <1>2, <1>3
<1> SUFFICES List(h2, t2, next2, prev2, M \ {n}, pos)
  BY <1>1 DEF Queue
<1> USE DEF List
<1>4. NULL \notin M /\ h \in M /\ t \in M /\ \A a \in M : pos[a] \in Int
  BY NullIsNoNode
<1>5. next[n] # n /\ prev[n] # n
  BY <1>4
<1>6. CASE M = {n}
  BY <1>4, <1>5, <1>6
<1>7. CASE M # {n}
  <2>0. h # t
    BY <1>4, <1>7
  <2>1. h2 \in M \ {n} /\ t2 \in M \ {n}
    BY <1>4, <1>5, <2>0
  <2>2. \A a \in M \ {n} : pos[h2] <= pos[a]
    BY <1>4, <1>5, <2>0
  <2>3. \A a \in M \ {n} : pos[a] <= pos[t2]
    <3>1. CASE t # n
      BY <1>4, <3>1
    <3>2. CASE t = n
      <4>1. prev[n] \in M /\ next[prev[n]] = n /\ prev[n] # n /\ prev[n] # t
        BY <1>5, <2>0, <3>2
      <4> QED BY <1>4, <3>2, <4>1
    <3> QED BY <3>1, <3>2
  <2>4. ASSUME NEW a \in M \ {n}, a # t2
        PROVE  /\ next2[a] \in M \ {n} /\ prev2[next2[a]] = a /\ pos[a] < pos[next2[a]]
               /\ \A b \in M \ {n} : pos[b] <= pos[a] \/ pos[next2[a]] <= pos[b]
    <3>1. CASE a = prev[n]
      <4>1. t # n /\ a # t /\ next[a] = n
        BY <1>4, <1>5, <2>4, <3>1
      <4>2. next[n] \in M /\ next[n] # n /\ prev[next[n]] = n /\ pos[n] < pos[next[n]] /\ pos[a] < pos[n]
        BY <1>5, <4>1
      <4>3. next2[a] = next[n]
        BY <2>4, <3>1
      <4>4. prev2[next[n]] = prev[n]
        BY <4>2
      <4>5. ASSUME NEW b \in M \ {n} PROVE pos[b] <= pos[a] \/ pos[next[n]] <= pos[b]
        <5>1. pos[b] <= pos[a] \/ pos[n] <= pos[b]
          BY <4>1
        <5>2. pos[b] <= pos[n] \/ pos[next[n]] <= pos[b]
          BY <4>1
        <5>3. pos[b] # pos[n]
          BY <1>4
        <5>4. pos[b] \in Int /\ pos[n] \in Int
          BY <1>4
        <5> QED BY <5>1, <5>2, <5>3, <5>4
      <4>6. pos[a] < pos[next[n]]
        BY <1>4, <4>2
      <4> QED BY <3>1, <4>2, <4>3, <4>4, <4>5, <4>6
    <3>2. CASE a # prev[n]
      <4>1. a # t
        <5>1. CASE t = n
          BY <2>4, <5>1
        <5>2. CASE t # n
          BY <2>4, <5>2
        <5> QED BY <5>1, <5>2
      <4>2. next[a] \in M /\ prev[next[a]] = a /\ pos[a] < pos[next[a]]
            /\ \A b \in M : pos[b] <= pos[a] \/ pos[next[a]] <= pos[b]
        BY <2>4, <4>1
      <4>3. next[a] # n /\ next2[a] = next[a]
        BY <2>4, <3>2, <4>2
      <4>4. next[a] # next[n]
        <5>1. CASE n = t
          BY <1>4, <4>2, <5>1
        <5>2. CASE n # t
          BY <2>4, <4>2, <5>2
        <5> QED BY <5>1, <5>2
      <4>5. prev2[next2[a]] = a
        BY <4>2, <4>3, <4>4
      <4> QED BY <4>2, <4>3, <4>5
    <3> QED BY <3>1, <3>2
  <2>5. next2[t2] = NULL
    <3>1. CASE t # n
      <4>1. t # prev[n]
        BY <1>4, <2>0, <3>1
      <4> QED BY <1>4, <3>1, <4>1
    <3>2. CASE t = n
      BY <1>4, <2>0, <2>1, <3>2
    <3> QED BY <3>1, <3>2
  <2>6. prev2[h2] = NULL
    <3>1. CASE h # n
      <4>1. h # next[n]
        BY <1>4, <3>1
      <4> QED BY <1>4, <3>1, <4>1
    <3>2. CASE h = n
      BY <1>4, <2>0, <2>1, <3>2
    <3> QED BY <3>1, <3>2
  <2>7. ASSUME NEW a \in M \ {n}, a # h2 PROVE prev2[a] \in M \ {n} /\ next2[prev2[a]] = a
    <3>1. CASE a = next[n]
      <4>1. h # n
        BY <2>7, <3>1
      <4>2. prev[n] \in M /\ next[prev[n]] = n /\ prev[n] # n
        BY <1>5, <4>1
      <4> QED BY <2>7, <3>1, <4>2
    <3>2. CASE a # next[n]
      <4>1. a # h
        <5>1. CASE h = n
          BY <2>7, <5>1
        <5>2. CASE h # n
          BY <2>7, <5>2
        <5> QED BY <5>1, <5>2
      <4>2. prev[a] \in M /\ next[prev[a]] = a /\ prev[a] # n /\ prev2[a] = prev[a]
        BY <2>7, <3>2, <4>1
      <4>3. prev[a] # prev[n]
        <5>1. CASE n = h
          BY <1>4, <4>2, <5>1
        <5>2. CASE n # h
          BY <2>7, <4>2, <5>2
        <5> QED BY <5>1, <5>2
      <4> QED BY <4>2, <4>3
    <3> QED BY <3>1, <3>2
  <2>8. \A a, b \in M \ {n} : pos[a] = pos[b] => a = b
    OBVIOUS
  <2>9. M \ {n} # {}
    BY <2>1
  <2>10. \A a \in M \ {n} : IF a = t2 THEN next2[a] = NULL
                  ELSE /\ next2[a] \in M \ {n} /\ prev2[next2[a]] = a /\ pos[a] < pos[next2[a]]
                       /\ \A b \in M \ {n} : pos[b] <= pos[a] \/ pos[next2[a]] <= pos[b]
    BY <2>4, <2>5
  <2>11. \A a \in M \ {n} : IF a = h2 THEN prev2[a] = NULL ELSE prev2[a] \in M \ {n} /\ next2[prev2[a]] = a
    BY <2>6, <2>7
  <2> QED BY <2>1, <2>2, <2>3, <2>8, <2>9, <2>10, <2>11
<1> QED BY <1>6, <1>7

\* crawler_link_q on a list it changes.
LEMMA ListAppend ==
  ASSUME NEW l, NEW S \in SUBSET Class, NEW r, NEW s \in S, NEW M \in SUBSET Node, NEW pos \in [Node -> Int],
         Queue(l, s, M, pos), M # {}, M \cap S = {}, \A a \in M : ClassOfNode(a) = s,
         \A u \in S : u # s => l.tails[u] \notin M, \A u \in S : l.tails[u] # s, Appends(l, S, r),
         NEW pos2 \in [Node -> Int], pos[l.tails[s]] < pos2[s], \A a \in M : pos2[a] = pos[a]
  PROVE  Queue(r, s, M \cup {s}, pos2)
<1>1. PICK h, t, n, next, prev, next2, prev2 :
        /\ h = l.heads[s] /\ t = l.tails[s] /\ next = l.next /\ prev = l.prev
        /\ n = s /\ next2 = r.next /\ prev2 = r.prev
  OBVIOUS
<1>2. List(h, t, next, prev, M, pos) /\ pos[t] < pos2[n]
  BY <1>1 DEF Queue
<1>3. t \in M /\ h # NULL
  BY <1>2, NullIsNoNode DEF List
<1>4. n \in Node /\ n \notin M /\ h = r.heads[s] /\ n = r.tails[s]
  BY <1>1, <1>3, NullIsNoNode DEF Appends
<1>5. next2[n] = NULL /\ next2[t] = n /\ \A a \in M : a # t => next2[a] = next[a]
  BY <1>1, <1>3, <1>4 DEF Appends
<1>6. prev2[n] = t /\ \A a \in M : prev2[a] = prev[a]
  BY <1>1, <1>4 DEF Appends
<1> USE <1>2, <1>4, <1>5, <1>6
<1> SUFFICES List(h, n, next2, prev2, M \cup {n}, pos2)
  BY <1>1, <1>4 DEF Queue
<1> USE DEF List
<1>7. /\ NULL \notin M /\ h \in M /\ t \in M /\ t # n /\ h # n
      /\ pos2[n] \in Int /\ \A a \in M : pos[a] \in Int
  BY NullIsNoNode
<1>8. \A a \in M : pos2[a] < pos2[n]
  BY <1>7
<1>9. \A a, b \in M \cup {n} : pos2[a] = pos2[b] => a = b
  BY <1>7, <1>8
<1>10. \A a \in M \cup {n} : pos2[h] <= pos2[a] /\ pos2[a] <= pos2[n]
  BY <1>7, <1>8
<1>11. ASSUME NEW a \in M
      PROVE  /\ next2[a] \in M \cup {n} /\ prev2[next2[a]] = a /\ pos2[a] < pos2[next2[a]]
             /\ \A b \in M \cup {n} : pos2[b] <= pos2[a] \/ pos2[next2[a]] <= pos2[b]
  <2>1. CASE a = t
    BY <1>7, <1>8, <2>1
  <2>2. CASE a # t
    <3>1. next[a] \in M /\ prev[next[a]] = a /\ next2[a] = next[a] /\ pos[a] < pos[next[a]]
      BY <2>2
    <3> QED BY <1>7, <1>8, <2>2, <3>1
  <2> QED BY <2>1, <2>2
<1>12. ASSUME NEW a \in M, a # h PROVE prev2[a] \in M /\ next2[prev2[a]] = a
  <2>1. prev[a] \in M /\ next[prev[a]] = a /\ prev[a] # t
    BY <1>7, <1>12
  <2> QED BY <2>1
<1>13. prev2[h] = NULL /\ prev2[n] = t
  BY <1>7
<1> QED BY <1>7, <1>9, <1>10, <1>11, <1>12, <1>13

\* crawler_crawl_q on the list it changes, when there is an entry before the crawler.
LEMMA ListSwap ==
  ASSUME NEW l, NEW r, NEW M \in SUBSET Node, NEW pos \in [Node -> Int],
         NEW c \in M, Queue(l, c, M, pos), NEW p, p = l.prev[c], p # NULL, Swaps(l, c, p, r),
         NEW pos2 \in [Node -> Int], pos2[c] = pos[p], pos2[p] = pos[c],
         \A a \in Node : a \notin {p, c} => pos2[a] = pos[a]
  PROVE  Queue(r, c, M, pos2)
<1>1. PICK h, t, next, prev, h2, t2, next2, prev2 :
        /\ h = l.heads[c] /\ t = l.tails[c] /\ next = l.next /\ prev = l.prev
        /\ h2 = r.heads[c] /\ t2 = r.tails[c] /\ next2 = r.next /\ prev2 = r.prev
  OBVIOUS
<1>2. List(h, t, next, prev, M, pos) /\ p = prev[c]
  BY <1>1 DEF Queue
<1>3. /\ h2 = IF h = p THEN c ELSE h
      /\ t2 = IF t = c THEN p ELSE t
      /\ next2[p] = next[c] /\ next2[c] = p /\ (prev[p] # NULL => next2[prev[p]] = c)
      /\ \A a \in M : a \notin {p, c, prev[p]} => next2[a] = next[a]
      /\ (next[c] # NULL => prev2[next[c]] = p) /\ prev2[c] = prev[p] /\ prev2[p] = c
      /\ \A a \in M : a \notin {p, c, next[c]} => prev2[a] = prev[a]
  BY <1>1 DEF Swaps
<1> USE <1>2, <1>3
<1> SUFFICES List(h2, t2, next2, prev2, M, pos2)
  BY <1>1 DEF Queue
<1> USE DEF List
<1>4. /\ NULL \notin M /\ h \in M /\ t \in M /\ \A a \in M : pos[a] \in Int
  BY NullIsNoNode
<1>5. p \in M /\ p # c /\ next[p] = c /\ p # t /\ c # h /\ pos[p] < pos[c]
  BY <1>4
<1>6. /\ pos2 \in [Node -> Int] /\ pos2[c] = pos[p] /\ pos2[p] = pos[c]
      /\ \A a \in M : a \notin {p, c} => pos2[a] = pos[a]
  BY <1>5
<1>7. /\ prev[p] \notin {p, c} /\ next[c] \notin {p, c}
      /\ (prev[p] = NULL <=> p = h) /\ (prev[p] # NULL => prev[p] \in M /\ next[prev[p]] = p)
      /\ (next[c] = NULL <=> c = t) /\ (next[c] # NULL => next[c] \in M /\ prev[next[c]] = c)
  BY <1>4, <1>5
<1>8. ASSUME NEW b \in M \ {p, c} PROVE pos[b] < pos[p] \/ pos[c] < pos[b]
  <2>1. pos[b] <= pos[p] \/ pos[c] <= pos[b]
    BY <1>5
  <2>2. pos[b] # pos[p] /\ pos[b] # pos[c] /\ pos[b] \in Int /\ pos[p] \in Int /\ pos[c] \in Int
    BY <1>4, <1>5
  <2> QED BY <2>1, <2>2
<1>9. \A a, b \in M : pos2[a] = pos2[b] => a = b
  BY <1>4, <1>5, <1>6, <1>8
<1>10. h2 \in M /\ t2 \in M /\ \A a \in M : pos2[h2] <= pos2[a] /\ pos2[a] <= pos2[t2]
  <2>1. ASSUME NEW a \in M PROVE pos2[h2] <= pos2[a]
    <3>1. CASE h = p
      <4>1. pos2[h2] = pos[p] /\ \A b \in M : pos[p] <= pos[b]
        BY <1>6, <3>1
      <4> QED BY <1>4, <1>5, <1>6, <4>1
    <3>2. CASE h # p
      <4>1. pos2[h2] = pos[h] /\ \A b \in M : pos[h] <= pos[b]
        BY <1>4, <1>5, <1>6, <3>2
      <4> QED BY <1>4, <1>5, <1>6, <4>1
    <3> QED BY <3>1, <3>2
  <2>2. ASSUME NEW a \in M PROVE pos2[a] <= pos2[t2]
    <3>1. CASE t = c
      <4>1. pos2[t2] = pos[c] /\ \A b \in M : pos[b] <= pos[c]
        BY <1>6, <3>1
      <4> QED BY <1>4, <1>5, <1>6, <4>1
    <3>2. CASE t # c
      <4>1. pos2[t2] = pos[t] /\ \A b \in M : pos[b] <= pos[t]
        BY <1>4, <1>5, <1>6, <3>2
      <4> QED BY <1>4, <1>5, <1>6, <4>1
    <3> QED BY <3>1, <3>2
  <2> QED BY <1>4, <1>5, <2>1, <2>2
<1>11. ASSUME NEW a \in M
      PROVE  IF a = t2 THEN next2[a] = NULL
             ELSE /\ next2[a] \in M /\ prev2[next2[a]] = a /\ pos2[a] < pos2[next2[a]]
                  /\ \A b \in M : pos2[b] <= pos2[a] \/ pos2[next2[a]] <= pos2[b]
  <2>1. CASE a = c
    <3>1. a # t2 /\ next2[a] = p /\ prev2[p] = a /\ pos2[a] = pos[p] /\ pos2[p] = pos[c]
      BY <1>5, <1>6, <2>1
    <3>2. \A b \in M : pos2[b] <= pos[p] \/ pos[c] <= pos2[b]
      BY <1>4, <1>5, <1>6, <1>8
    <3> QED BY <1>5, <3>1, <3>2
  <2>2. CASE a = p
    <3>1. CASE next[c] = NULL
      BY <1>5, <1>7, <2>2, <3>1
    <3>2. CASE next[c] # NULL
      <4>1. PICK n \in M : n = next[c] /\ prev2[n] = p /\ n \notin {p, c} /\ pos2[n] = pos[n] /\ pos[c] < pos[n]
        BY <1>4, <1>6, <1>7, <3>2
      <4>2. \A b \in M : pos[b] <= pos[c] \/ pos[n] <= pos[b]
        BY <1>7, <3>2, <4>1
      <4>3. \A b \in M : pos2[b] <= pos[c] \/ pos[n] <= pos2[b]
        BY <1>4, <1>5, <1>6, <4>2
      <4>4. a # t2 /\ next2[a] = n /\ pos2[a] = pos[c]
        BY <1>5, <1>6, <1>7, <2>2, <3>2, <4>1
      <4> QED BY <2>2, <4>1, <4>3, <4>4
    <3> QED BY <3>1, <3>2
  <2>3. CASE a = prev[p]
    <3>1. a \notin {p, c} /\ next[a] = p /\ next2[a] = c /\ a # t /\ pos2[a] = pos[a] /\ pos[a] < pos[p]
      BY <1>4, <1>5, <1>6, <1>7, <2>3
    <3>2. \A b \in M : pos[b] <= pos[a] \/ pos[p] <= pos[b]
      BY <3>1
    <3>3. \A b \in M : pos2[b] <= pos[a] \/ pos[p] <= pos2[b]
      BY <1>4, <1>5, <1>6, <3>2
    <3>4. a # t2 /\ prev2[c] = a /\ pos2[c] = pos[p]
      BY <1>6, <2>3, <3>1
    <3> QED BY <3>1, <3>3, <3>4
  <2>4. CASE a \notin {p, c, prev[p]}
    <3>1. next2[a] = next[a] /\ pos2[a] = pos[a]
      BY <1>6, <2>4
    <3>2. CASE a = t
      <4>1. a = t2 /\ next[a] = NULL
        BY <2>4, <3>2
      <4> QED BY <3>1, <4>1
    <3>3. CASE a # t
      <4>1. next[a] \in M /\ prev[next[a]] = a /\ pos[a] < pos[next[a]]
            /\ \A b \in M : pos[b] <= pos[a] \/ pos[next[a]] <= pos[b]
        BY <3>3
      <4>2. next[a] \notin {p, c, next[c]}
        BY <1>4, <1>5, <1>7, <2>4, <4>1
      <4>3. prev2[next[a]] = a /\ pos2[next[a]] = pos[next[a]] /\ a # t2
        BY <1>6, <2>4, <3>3, <4>1, <4>2
      <4>4. \A b \in M : pos2[b] <= pos[a] \/ pos[next[a]] <= pos2[b]
        BY <1>4, <1>5, <1>6, <4>1
      <4> QED BY <3>1, <4>1, <4>3, <4>4
    <3> QED BY <3>2, <3>3
  <2> QED BY <2>1, <2>2, <2>3, <2>4
<1>12. ASSUME NEW a \in M
      PROVE  IF a = h2 THEN prev2[a] = NULL ELSE prev2[a] \in M /\ next2[prev2[a]] = a
  <2>1. CASE a = c
    BY <1>5, <1>7, <2>1
  <2>2. CASE a = p
    BY <1>5, <2>2
  <2>3. CASE a = next[c]
    <3>1. a \notin {p, c} /\ prev[a] = c /\ prev2[a] = p /\ next2[p] = a /\ a # h
      BY <1>4, <1>7, <2>3
    <3> QED BY <1>5, <3>1
  <2>4. CASE a \notin {p, c, next[c]}
    <3>1. prev2[a] = prev[a]
      BY <2>4
    <3>2. CASE a = h
      BY <2>4, <3>1, <3>2
    <3>3. CASE a # h
      <4>1. prev[a] \in M /\ next[prev[a]] = a /\ a # h2
        BY <2>4, <3>3
      <4>2. prev[a] \notin {p, c, prev[p]}
        BY <1>4, <1>5, <1>7, <2>4, <4>1
      <4> QED BY <3>1, <4>1, <4>2
    <3> QED BY <3>2, <3>3
  <2> QED BY <2>1, <2>2, <2>3, <2>4
<1> QED BY <1>4, <1>9, <1>10, <1>11, <1>12

\* A list of which nothing is changed.
LEMMA ListSame ==
  ASSUME NEW l, NEW s, NEW M, NEW pos, Queue(l, s, M, pos), NEW r, NEW pos2,
         r.heads[s] = l.heads[s] /\ r.tails[s] = l.tails[s],
         \A a \in M : r.next[a] = l.next[a] /\ r.prev[a] = l.prev[a] /\ pos2[a] = pos[a]
  PROVE  Queue(r, s, M, pos2)
<1>1. PICK h, t, next, prev, next2, prev2 :
        /\ h = l.heads[s] /\ t = l.tails[s] /\ next = l.next /\ prev = l.prev
        /\ next2 = r.next /\ prev2 = r.prev
  OBVIOUS
<1>2. List(h, t, next, prev, M, pos) /\ \A a \in M : next2[a] = next[a] /\ prev2[a] = prev[a] /\ pos2[a] = pos[a]
  BY <1>1 DEF Queue
<1>3. List(h, t, next2, prev2, M, pos2)
  <2>1. CASE M = {}
    BY <1>2, <2>1 DEF List
  <2>2. CASE M # {}
    <3>1. h \in M /\ t \in M
      BY <1>2, <2>2 DEF List
    <3> QED BY <1>2, <2>2, <3>1 DEF List
  <2> QED BY <2>1, <2>2
<1> QED BY <1>1, <1>3 DEF Queue

-----------------------------------------------------------------------------
(* Pointers *)

LEMMA PointersKnown ==
  ASSUME NEW l \in Pointers
  PROVE  /\ l.heads \in [Class -> NodeOrNull] /\ l.tails \in [Class -> NodeOrNull]
         /\ l.next \in [Node -> NodeOrNull] /\ l.prev \in [Node -> NodeOrNull]
  BY DEF Pointers

LEMMA PointersMade ==
  ASSUME NEW h \in [Class -> NodeOrNull], NEW t \in [Class -> NodeOrNull],
         NEW next \in [Node -> NodeOrNull], NEW prev \in [Node -> NodeOrNull]
  PROVE  [heads |-> h, tails |-> t, next |-> next, prev |-> prev] \in Pointers
  BY DEF Pointers

LEMMA ClassKnown ==
  /\ \A n \in Node : ClassOfNode(n) \in Class
  /\ \A s \in Class : ClassOfNode(s) = s
  /\ \A n \in Item : ClassOfNode(n) = ClassOf[n] /\ n \notin Class
  BY ClassAssumption, NodeAssumption DEF ClassOfNode, Node

LEMMA LinkKnown ==
  ASSUME NEW l \in Pointers, NEW n \in Node, NEW s, s = ClassOfNode(n),
         NEW r, r = item_link_q(l, n)
  PROVE  r \in Pointers /\ Pushes(l, n, s, r)
<1> DEFINE h == [l.heads EXCEPT ![s] = n]
           t == [l.tails EXCEPT ![s] = IF @ = NULL THEN n ELSE @]
           next == [l.next EXCEPT ![n] = l.heads[s]]
           mid == [l.prev EXCEPT ![n] = NULL]
           prev == Put(mid, l.heads[s], n)
<1>1. /\ s \in Class /\ n \in NodeOrNull /\ NULL \in NodeOrNull
      /\ l.heads \in [Class -> NodeOrNull] /\ l.tails \in [Class -> NodeOrNull]
      /\ l.next \in [Node -> NodeOrNull] /\ l.prev \in [Node -> NodeOrNull]
  BY PointersKnown, ClassKnown DEF NodeOrNull
<1>2. h \in [Class -> NodeOrNull] /\ t \in [Class -> NodeOrNull] /\ next \in [Node -> NodeOrNull]
      /\ mid \in [Node -> NodeOrNull] /\ l.heads[s] \in NodeOrNull
  BY <1>1
<1> HIDE DEF mid
<1>3. /\ prev \in [Node -> NodeOrNull]
      /\ \A a \in Node : prev[a] = IF a = l.heads[s] THEN n ELSE mid[a]
  BY <1>1, <1>2, NullIsNoNode DEF Put, NodeOrNull
<1>4. r = [heads |-> h, tails |-> t, next |-> next, prev |-> prev]
  BY DEF item_link_q, mid
<1>5. r.heads = h /\ r.tails = t /\ r.next = next /\ r.prev = prev
  BY <1>4
<1> HIDE DEF h, t, next, prev
<1>6. r \in Pointers
  BY <1>2, <1>3, <1>4, PointersMade
<1> USE DEF h, t, next, mid
<1>7. /\ h[s] = n /\ t[s] = IF l.tails[s] = NULL THEN n ELSE l.tails[s]
      /\ \A u \in Class : u # s => h[u] = l.heads[u] /\ t[u] = l.tails[u]
      /\ \A a \in Node : next[a] = IF a = n THEN l.heads[s] ELSE l.next[a]
      /\ \A a \in Node : mid[a] = IF a = n THEN NULL ELSE l.prev[a]
  BY <1>1
<1> HIDE DEF h, t, next, mid
<1> QED BY <1>3, <1>5, <1>6, <1>7 DEF Pushes

LEMMA UnlinkKnown ==
  ASSUME NEW l \in Pointers, NEW n \in Node, NEW s, s = ClassOfNode(n),
         NEW r, r = unlink_q(l, n)
  PROVE  r \in Pointers /\ Drops(l, n, s, r)
<1> DEFINE h == [l.heads EXCEPT ![s] = IF @ = n THEN l.next[n] ELSE @]
           t == [l.tails EXCEPT ![s] = IF @ = n THEN l.prev[n] ELSE @]
           nmid == Put(l.next, l.prev[n], l.next[n])
           next == [nmid EXCEPT ![n] = NULL]
           pmid == Put(l.prev, l.next[n], l.prev[n])
           prev == [pmid EXCEPT ![n] = NULL]
<1>1. /\ s \in Class /\ NULL \in NodeOrNull /\ l.next[n] \in NodeOrNull /\ l.prev[n] \in NodeOrNull
      /\ l.heads \in [Class -> NodeOrNull] /\ l.tails \in [Class -> NodeOrNull]
      /\ l.next \in [Node -> NodeOrNull] /\ l.prev \in [Node -> NodeOrNull]
  BY PointersKnown, ClassKnown DEF NodeOrNull
<1>2. /\ nmid \in [Node -> NodeOrNull]
      /\ \A a \in Node : nmid[a] = IF a = l.prev[n] THEN l.next[n] ELSE l.next[a]
  BY <1>1, NullIsNoNode DEF Put, NodeOrNull
<1>3. /\ pmid \in [Node -> NodeOrNull]
      /\ \A a \in Node : pmid[a] = IF a = l.next[n] THEN l.prev[n] ELSE l.prev[a]
  BY <1>1, NullIsNoNode DEF Put, NodeOrNull
<1>4. r = [heads |-> h, tails |-> t, next |-> next, prev |-> prev]
  BY DEF unlink_q
<1>5. r.heads = h /\ r.tails = t /\ r.next = next /\ r.prev = prev
  BY <1>4
<1>6. h \in [Class -> NodeOrNull] /\ t \in [Class -> NodeOrNull]
  BY <1>1
<1> HIDE DEF nmid, pmid
<1>7. /\ next \in [Node -> NodeOrNull] /\ prev \in [Node -> NodeOrNull]
      /\ \A a \in Node : next[a] = IF a = n THEN NULL ELSE nmid[a]
      /\ \A a \in Node : prev[a] = IF a = n THEN NULL ELSE pmid[a]
  BY <1>1, <1>2, <1>3
<1> HIDE DEF h, t, next, prev
<1>8. r \in Pointers
  BY <1>4, <1>6, <1>7, PointersMade
<1> USE DEF h, t
<1>9. /\ h[s] = IF l.heads[s] = n THEN l.next[n] ELSE l.heads[s]
      /\ t[s] = IF l.tails[s] = n THEN l.prev[n] ELSE l.tails[s]
      /\ \A u \in Class : u # s => h[u] = l.heads[u] /\ t[u] = l.tails[u]
  BY <1>1
<1> HIDE DEF h, t
<1> QED BY <1>2, <1>3, <1>5, <1>7, <1>8, <1>9 DEF Drops

\* crawler_crawl_q when there is an entry before the crawler: p, with n the entry after it.
LEMMA CrawlMakes ==
  ASSUME NEW l \in Pointers, NEW c \in Class, NEW p, p = l.prev[c], p # NULL, NEW n, n = l.next[c],
         NEW v, v = Put(l.prev, n, p), NEW r, r = crawler_crawl_q(l, c)
  PROVE  /\ r \in Pointers
         /\ r.heads = [l.heads EXCEPT ![c] = IF @ = p THEN c ELSE @]
         /\ r.tails = [l.tails EXCEPT ![c] = IF @ = c THEN p ELSE @]
         /\ v \in [Node -> NodeOrNull] /\ \A a \in Node : v[a] = IF a = n THEN p ELSE l.prev[a]
         /\ \A a \in Node : r.next[a] = IF a = v[p] THEN c ELSE IF a = c THEN p
                                        ELSE IF a = p THEN n ELSE l.next[a]
         /\ \A a \in Node : r.prev[a] = IF a = p THEN c ELSE IF a = c THEN v[p] ELSE v[a]
<1> DEFINE h == [l.heads EXCEPT ![c] = IF @ = p THEN c ELSE @]
           t == [l.tails EXCEPT ![c] = IF @ = c THEN p ELSE @]
           nmid == [l.next EXCEPT ![p] = n, ![c] = p]
           next == Put(nmid, v[p], c)
           prev == [v EXCEPT ![c] = v[p], ![p] = c]
<1>1. /\ l.heads \in [Class -> NodeOrNull] /\ l.tails \in [Class -> NodeOrNull]
      /\ l.next \in [Node -> NodeOrNull] /\ l.prev \in [Node -> NodeOrNull] /\ c \in Node
  BY PointersKnown, NullIsNoNode
<1>2. p \in Node /\ NULL \in NodeOrNull /\ c \in NodeOrNull /\ p \in NodeOrNull /\ n \in NodeOrNull
  BY <1>1 DEF NodeOrNull
<1>3. v \in [Node -> NodeOrNull] /\ \A a \in Node : v[a] = IF a = n THEN p ELSE l.prev[a]
  BY <1>1, <1>2, NullIsNoNode DEF Put, NodeOrNull
<1>4. /\ nmid \in [Node -> NodeOrNull]
      /\ \A a \in Node : nmid[a] = IF a = c THEN p ELSE IF a = p THEN n ELSE l.next[a]
  BY <1>1, <1>2
<1>5. r = [heads |-> h, tails |-> t, next |-> next, prev |-> prev]
  BY DEF crawler_crawl_q
<1>6. r.heads = h /\ r.tails = t /\ r.next = next /\ r.prev = prev
  BY <1>5
<1>7. h \in [Class -> NodeOrNull] /\ t \in [Class -> NodeOrNull]
  BY <1>1, <1>2
<1> HIDE DEF nmid
<1>8. v[p] \in NodeOrNull
  BY <1>2, <1>3
<1>9. /\ next \in [Node -> NodeOrNull]
      /\ \A a \in Node : next[a] = IF a = v[p] THEN c ELSE nmid[a]
  BY <1>2, <1>4, <1>8, NullIsNoNode DEF Put, NodeOrNull
<1>10. /\ prev \in [Node -> NodeOrNull]
       /\ \A a \in Node : prev[a] = IF a = p THEN c ELSE IF a = c THEN v[p] ELSE v[a]
  BY <1>1, <1>2, <1>3, <1>8
<1> HIDE DEF h, t, next, prev
<1>11. r \in Pointers
  BY <1>5, <1>7, <1>9, <1>10, PointersMade
<1> USE DEF h, t
<1> QED BY <1>3, <1>4, <1>6, <1>9, <1>10, <1>11

LEMMA CrawlKnown ==
  ASSUME NEW l \in Pointers, NEW c \in Class, NEW p, p = l.prev[c], p # NULL, p # c,
         l.prev[p] \notin {c, p}, l.next[c] \notin {c, p},
         NEW r, r = crawler_crawl_q(l, c)
  PROVE  r \in Pointers /\ Swaps(l, c, p, r)
<1>1. PICK n, v : n = l.next[c] /\ v = Put(l.prev, n, p)
  OBVIOUS
<1>2. /\ r \in Pointers
      /\ r.heads = [l.heads EXCEPT ![c] = IF @ = p THEN c ELSE @]
      /\ r.tails = [l.tails EXCEPT ![c] = IF @ = c THEN p ELSE @]
      /\ \A a \in Node : v[a] = IF a = n THEN p ELSE l.prev[a]
      /\ \A a \in Node : r.next[a] = IF a = v[p] THEN c ELSE IF a = c THEN p
                                     ELSE IF a = p THEN n ELSE l.next[a]
      /\ \A a \in Node : r.prev[a] = IF a = p THEN c ELSE IF a = c THEN v[p] ELSE v[a]
  BY <1>1, CrawlMakes
<1>3. /\ l.heads \in [Class -> NodeOrNull] /\ l.tails \in [Class -> NodeOrNull] /\ c \in Node /\ p \in Node
      /\ l.prev[p] \in NodeOrNull /\ l.next[c] \in NodeOrNull
  BY PointersKnown, NullIsNoNode DEF NodeOrNull
<1>4. v[p] = l.prev[p]
  BY <1>1, <1>2, <1>3
<1>5. /\ r.heads[c] = IF l.heads[c] = p THEN c ELSE l.heads[c]
      /\ r.tails[c] = IF l.tails[c] = c THEN p ELSE l.tails[c]
      /\ \A u \in Class : u # c => r.heads[u] = l.heads[u] /\ r.tails[u] = l.tails[u]
  BY <1>2, <1>3
<1>6. /\ r.next[p] = l.next[c] /\ r.next[c] = p
      /\ \A a \in Node : a \notin {p, c, l.prev[p]} => r.next[a] = l.next[a]
  BY <1>1, <1>2, <1>3, <1>4
<1>7. l.prev[p] # NULL => r.next[l.prev[p]] = c
  BY <1>2, <1>3, <1>4 DEF NodeOrNull
<1>8. l.next[c] # NULL => r.prev[l.next[c]] = p
  BY <1>1, <1>2, <1>3 DEF NodeOrNull
<1>9. /\ r.prev[c] = l.prev[p] /\ r.prev[p] = c
      /\ \A a \in Node : a \notin {p, c, l.next[c]} => r.prev[a] = l.prev[a]
  BY <1>1, <1>2, <1>3, <1>4
<1> QED BY <1>2, <1>5, <1>6, <1>7, <1>8, <1>9 DEF Swaps

\* crawler_crawl_q of a crawler at the head.
LEMMA CrawlPops ==
  ASSUME NEW l \in Pointers, NEW c \in Class, l.prev[c] = NULL, NEW m, m = crawler_crawl_q(l, c)
  PROVE  /\ m \in Pointers
         /\ m.heads = [l.heads EXCEPT ![c] = IF l.next[c] = NULL THEN @ ELSE l.next[c]]
         /\ m.tails = l.tails /\ m.next = l.next
         /\ \A a \in Node : m.prev[a] = IF a = l.next[c] THEN NULL ELSE l.prev[a]
<1>1. /\ l.heads \in [Class -> NodeOrNull] /\ l.tails \in [Class -> NodeOrNull]
      /\ l.next \in [Node -> NodeOrNull] /\ l.prev \in [Node -> NodeOrNull] /\ c \in Node
  BY PointersKnown, NullIsNoNode
<1>2. l.next[c] \in NodeOrNull
  BY <1>1
<1>3. /\ m.heads = [l.heads EXCEPT ![c] = IF l.next[c] = NULL THEN @ ELSE l.next[c]]
      /\ m.prev = Put(l.prev, l.next[c], NULL) /\ m.tails = l.tails /\ m.next = l.next
      /\ m = [heads |-> m.heads, tails |-> m.tails, next |-> m.next, prev |-> m.prev]
  <2>1. m = [l EXCEPT !.heads[c] = IF l.next[c] = NULL THEN @ ELSE l.next[c], !.prev = Put(@, l.next[c], NULL)]
    BY DEF crawler_crawl_q
  <2> QED BY <2>1 DEF Pointers
<1>4. /\ m.prev \in [Node -> NodeOrNull]
      /\ \A a \in Node : m.prev[a] = IF a = l.next[c] THEN NULL ELSE l.prev[a]
  BY <1>1, <1>2, <1>3, NullIsNoNode DEF Put, NodeOrNull
<1>5. m.heads \in [Class -> NodeOrNull]
  BY <1>1, <1>2, <1>3
<1>6. m \in Pointers
  BY <1>1, <1>3, <1>4, <1>5, PointersMade
<1> QED BY <1>3, <1>4, <1>6

LEMMA CrawlersKnown ==
  ASSUME NEW l \in Pointers, NEW S \in SUBSET Class, NEW r, r = crawler_link_q(l, S)
  PROVE  r \in Pointers /\ Appends(l, S, r)
<1> DEFINE Last(n) == CHOOSE s \in S : l.tails[s] = n
           h == [s \in Class |-> IF s \in S /\ l.heads[s] = NULL THEN s ELSE l.heads[s]]
           t == [s \in Class |-> IF s \in S THEN s ELSE l.tails[s]]
           next == [n \in Node |-> IF \E s \in S : l.tails[s] = n THEN Last(n)
                                   ELSE IF n \in S THEN NULL ELSE l.next[n]]
           prev == [n \in Node |-> IF n \in S THEN l.tails[n] ELSE l.prev[n]]
<1>1. /\ l.heads \in [Class -> NodeOrNull] /\ l.tails \in [Class -> NodeOrNull]
      /\ l.next \in [Node -> NodeOrNull] /\ l.prev \in [Node -> NodeOrNull]
  BY PointersKnown
<1>2. Class \subseteq NodeOrNull /\ NULL \in NodeOrNull /\ S \subseteq Node
  BY NullIsNoNode DEF NodeOrNull
<1>3. h \in [Class -> NodeOrNull] /\ t \in [Class -> NodeOrNull] /\ prev \in [Node -> NodeOrNull]
  BY <1>1, <1>2
<1>4. \A n : (\E s \in S : l.tails[s] = n) => Last(n) \in S /\ l.tails[Last(n)] = n
  OBVIOUS
<1>5. r = [heads |-> h, tails |-> t, next |-> next, prev |-> prev]
  BY DEF crawler_link_q
<1> HIDE DEF Last
<1>6. next \in [Node -> NodeOrNull]
  <2>1. ASSUME NEW n \in Node PROVE next[n] \in NodeOrNull
    BY <1>1, <1>2, <1>4
  <2> QED BY <2>1
<1>7. r.heads = h /\ r.tails = t /\ r.next = next /\ r.prev = prev
  BY <1>5
<1>8. r \in Pointers
  BY <1>3, <1>5, <1>6, PointersMade
<1>9. \A n \in Node : (~\E s \in S : l.tails[s] = n) => next[n] = IF n \in S THEN NULL ELSE l.next[n]
  OBVIOUS
<1>10. ASSUME NEW s \in S, l.tails[s] \in Node, \A u \in S : l.tails[u] = l.tails[s] => u = s
       PROVE  next[l.tails[s]] = s
  <2>1. next[l.tails[s]] = Last(l.tails[s])
    BY <1>10
  <2>2. Last(l.tails[s]) = s
    BY <1>4, <1>10
  <2> QED BY <2>1, <2>2
<1>11. /\ \A u \in Class : h[u] = IF u \in S /\ l.heads[u] = NULL THEN u ELSE l.heads[u]
       /\ \A u \in Class : t[u] = IF u \in S THEN u ELSE l.tails[u]
  OBVIOUS
<1>12. \A n \in Node : prev[n] = IF n \in S THEN l.tails[n] ELSE l.prev[n]
  OBVIOUS
<1> HIDE DEF h, t, next, prev
<1> QED BY <1>7, <1>8, <1>9, <1>10, <1>11, <1>12 DEF Appends

-----------------------------------------------------------------------------
(* Classes: no operation on a node reaches another class, whatever the queue. *)

LEMMA LocalKnown ==
  ASSUME NEW l, Local(l)
  PROVE  /\ \A s \in Class : (l.heads[s] = NULL \/ (l.heads[s] \in Node /\ ClassOfNode(l.heads[s]) = s))
                          /\ (l.tails[s] = NULL \/ (l.tails[s] \in Node /\ ClassOfNode(l.tails[s]) = s))
         /\ \A n \in Node :
              /\ l.next[n] = NULL \/ (l.next[n] \in Node /\ ClassOfNode(l.next[n]) = ClassOfNode(n))
              /\ l.prev[n] = NULL \/ (l.prev[n] \in Node /\ ClassOfNode(l.prev[n]) = ClassOfNode(n))
  BY Zenon DEF Local, In

LEMMA LocalMade ==
  ASSUME NEW l,
         \A s \in Class : (l.heads[s] = NULL \/ (l.heads[s] \in Node /\ ClassOfNode(l.heads[s]) = s))
                       /\ (l.tails[s] = NULL \/ (l.tails[s] \in Node /\ ClassOfNode(l.tails[s]) = s)),
         \A n \in Node :
           /\ l.next[n] = NULL \/ (l.next[n] \in Node /\ ClassOfNode(l.next[n]) = ClassOfNode(n))
           /\ l.prev[n] = NULL \/ (l.prev[n] \in Node /\ ClassOfNode(l.prev[n]) = ClassOfNode(n))
  PROVE  Local(l)
  BY Zenon DEF Local, In

LEMMA PushStays ==
  ASSUME NEW l, Local(l), NEW n \in Node, NEW s \in Class, s = ClassOfNode(n), NEW r, Pushes(l, n, s, r)
  PROVE  Local(r) /\ Within(l, s, r)
<1>1. Local(r)
  BY LocalKnown, LocalMade, NullIsNoNode DEF Pushes
<1>2. Within(l, s, r)
  BY LocalKnown, NullIsNoNode DEF Pushes, Within
<1> QED BY <1>1, <1>2

LEMMA DropStays ==
  ASSUME NEW l, Local(l), NEW n \in Node, NEW s \in Class, s = ClassOfNode(n), NEW r, Drops(l, n, s, r)
  PROVE  Local(r) /\ Within(l, s, r)
<1>1. Local(r)
  BY LocalKnown, LocalMade, NullIsNoNode DEF Drops
<1>2. Within(l, s, r)
  BY LocalKnown, NullIsNoNode DEF Drops, Within
<1> QED BY <1>1, <1>2

\* However a crawler and the entry before it are linked, be they one and the same.
LEMMA CrawlStays ==
  ASSUME NEW l \in Pointers, Local(l), NEW c \in Class, NEW r, r = crawler_crawl_q(l, c)
  PROVE  r \in Pointers /\ Local(r) /\ Within(l, c, r)
<1>1. c \in Node /\ ClassOfNode(c) = c
  BY ClassKnown, NullIsNoNode
<1>2. CASE l.prev[c] = NULL
  <2>1. /\ r \in Pointers
        /\ r.heads = [l.heads EXCEPT ![c] = IF l.next[c] = NULL THEN @ ELSE l.next[c]]
        /\ r.tails = l.tails /\ r.next = l.next
        /\ \A a \in Node : r.prev[a] = IF a = l.next[c] THEN NULL ELSE l.prev[a]
    BY <1>2, CrawlPops
  <2>2. /\ r.heads[c] = IF l.next[c] = NULL THEN l.heads[c] ELSE l.next[c]
        /\ \A u \in Class : u # c => r.heads[u] = l.heads[u]
    BY <2>1, PointersKnown
  <2>3. Local(r)
    <3>1. \A u \in Class : (r.heads[u] = NULL \/ (r.heads[u] \in Node /\ ClassOfNode(r.heads[u]) = u))
                        /\ (r.tails[u] = NULL \/ (r.tails[u] \in Node /\ ClassOfNode(r.tails[u]) = u))
      BY <1>1, <2>1, <2>2, LocalKnown
    <3>2. \A a \in Node :
            /\ r.next[a] = NULL \/ (r.next[a] \in Node /\ ClassOfNode(r.next[a]) = ClassOfNode(a))
            /\ r.prev[a] = NULL \/ (r.prev[a] \in Node /\ ClassOfNode(r.prev[a]) = ClassOfNode(a))
      BY <2>1, LocalKnown
    <3> QED BY <3>1, <3>2, LocalMade
  <2>4. Within(l, c, r)
    BY <1>1, <2>1, <2>2, LocalKnown, NullIsNoNode DEF Within
  <2> QED BY <2>1, <2>3, <2>4
<1>3. CASE l.prev[c] # NULL
  <2>1. PICK p, n, v : p = l.prev[c] /\ n = l.next[c] /\ v = Put(l.prev, n, p)
    OBVIOUS
  <2>2. /\ r \in Pointers
        /\ r.heads = [l.heads EXCEPT ![c] = IF @ = p THEN c ELSE @]
        /\ r.tails = [l.tails EXCEPT ![c] = IF @ = c THEN p ELSE @]
        /\ \A a \in Node : v[a] = IF a = n THEN p ELSE l.prev[a]
        /\ \A a \in Node : r.next[a] = IF a = v[p] THEN c ELSE IF a = c THEN p
                                       ELSE IF a = p THEN n ELSE l.next[a]
        /\ \A a \in Node : r.prev[a] = IF a = p THEN c ELSE IF a = c THEN v[p] ELSE v[a]
    BY <1>3, <2>1, CrawlMakes
  <2>3. /\ p \in Node /\ ClassOfNode(p) = c
        /\ n = NULL \/ (n \in Node /\ ClassOfNode(n) = c)
    BY <1>1, <1>3, <2>1, LocalKnown
  <2>4. v[p] = NULL \/ (v[p] \in Node /\ ClassOfNode(v[p]) = c)
    BY <2>2, <2>3, LocalKnown
  <2>5. /\ r.heads[c] = IF l.heads[c] = p THEN c ELSE l.heads[c]
        /\ r.tails[c] = IF l.tails[c] = c THEN p ELSE l.tails[c]
        /\ \A u \in Class : u # c => r.heads[u] = l.heads[u] /\ r.tails[u] = l.tails[u]
    BY <2>2, PointersKnown
  <2>6. \A u \in Class : (r.heads[u] = NULL \/ (r.heads[u] \in Node /\ ClassOfNode(r.heads[u]) = u))
                      /\ (r.tails[u] = NULL \/ (r.tails[u] \in Node /\ ClassOfNode(r.tails[u]) = u))
    BY <1>1, <2>3, <2>5, LocalKnown
  <2>7. ASSUME NEW a \in Node
        PROVE  /\ r.next[a] = NULL \/ (r.next[a] \in Node /\ ClassOfNode(r.next[a]) = ClassOfNode(a))
               /\ r.prev[a] = NULL \/ (r.prev[a] \in Node /\ ClassOfNode(r.prev[a]) = ClassOfNode(a))
    <3>1. PICK x, y, d : x = r.next[a] /\ y = r.prev[a] /\ d = ClassOfNode(a)
      OBVIOUS
    <3>2. /\ l.next[a] = NULL \/ (l.next[a] \in Node /\ ClassOfNode(l.next[a]) = d)
          /\ l.prev[a] = NULL \/ (l.prev[a] \in Node /\ ClassOfNode(l.prev[a]) = d)
      BY <3>1, LocalKnown
    <3>3. x = IF a = v[p] THEN c ELSE IF a = c THEN p ELSE IF a = p THEN n ELSE l.next[a]
      BY <2>2, <3>1
    <3>4. y = IF a = p THEN c ELSE IF a = c THEN v[p] ELSE IF a = n THEN p ELSE l.prev[a]
      BY <2>2, <3>1
    <3>5. a \in {c, p, n, v[p]} => d = c
      BY <1>1, <2>3, <2>4, <3>1, NullIsNoNode
    <3>6. x = NULL \/ (x \in Node /\ ClassOfNode(x) = d)
      BY <1>1, <2>3, <3>2, <3>3, <3>5
    <3>7. y = NULL \/ (y \in Node /\ ClassOfNode(y) = d)
      BY <1>1, <2>3, <2>4, <3>2, <3>4, <3>5
    <3> QED BY <3>1, <3>6, <3>7
  <2>8. Local(r)
    BY <2>6, <2>7, LocalMade
  <2>9. ASSUME NEW a \in Node, ClassOfNode(a) # c PROVE r.next[a] = l.next[a] /\ r.prev[a] = l.prev[a]
    <3>1. a \notin {c, p, n, v[p]}
      BY <1>1, <2>3, <2>4, <2>9, NullIsNoNode
    <3> QED BY <2>2, <3>1
  <2>10. Within(l, c, r)
    BY <2>5, <2>9 DEF Within
  <2> QED BY <2>2, <2>8, <2>10
<1> QED BY <1>2, <1>3

\* No two classes have the same tail.
LEMMA AppendStays ==
  ASSUME NEW l, Local(l), NEW S \in SUBSET Class, NEW r, Appends(l, S, r)
  PROVE  Local(r)
<1>1. S \subseteq Node /\ \A s \in S : ClassOfNode(s) = s
  BY ClassKnown, NullIsNoNode
<1>2. \A u \in Class : (r.heads[u] = NULL \/ (r.heads[u] \in Node /\ ClassOfNode(r.heads[u]) = u))
                    /\ (r.tails[u] = NULL \/ (r.tails[u] \in Node /\ ClassOfNode(r.tails[u]) = u))
  BY <1>1, LocalKnown DEF Appends
<1>3. ASSUME NEW n \in Node
      PROVE  r.next[n] = NULL \/ (r.next[n] \in Node /\ ClassOfNode(r.next[n]) = ClassOfNode(n))
  <2>1. CASE \E s \in S : l.tails[s] = n
    <3>1. PICK s \in S : l.tails[s] = n
      BY <2>1
    <3>2. \A u \in S : l.tails[u] = n => u = ClassOfNode(n)
      BY LocalKnown, NullIsNoNode
    <3>3. r.next[n] = s /\ s = ClassOfNode(n)
      BY <3>1, <3>2 DEF Appends
    <3> QED BY <1>1, <3>3
  <2>2. CASE ~\E s \in S : l.tails[s] = n
    BY <2>2, LocalKnown DEF Appends
  <2> QED BY <2>1, <2>2
<1>4. \A n \in Node : r.prev[n] = NULL \/ (r.prev[n] \in Node /\ ClassOfNode(r.prev[n]) = ClassOfNode(n))
  BY <1>1, LocalKnown DEF Appends
<1> QED BY <1>2, <1>3, <1>4, LocalMade

-----------------------------------------------------------------------------
(* Queues *)

LEMMA EntriesKnown ==
  \A L \in SUBSET Item, E \in SUBSET Class, s \in Class :
    /\ Entries(L, E, s) \in SUBSET Node
    /\ \A a : a \in Entries(L, E, s) <=> a \in L \cup E /\ ClassOfNode(a) = s
<1> SUFFICES ASSUME NEW L \in SUBSET Item, NEW E \in SUBSET Class, NEW s \in Class
             PROVE  /\ Entries(L, E, s) \in SUBSET Node
                    /\ \A a : a \in Entries(L, E, s) <=> a \in L \cup E /\ ClassOfNode(a) = s
  OBVIOUS
<1>1. \A a \in L : ClassOfNode(a) = ClassOf[a]
  BY ClassKnown
<1>2. \A a \in E : ClassOfNode(a) = a
  BY ClassKnown
<1> QED BY <1>1, <1>2, NullIsNoNode DEF Entries

\* What a step on class s leaves of the queue of another class.
LEMMA OtherQueue ==
  ASSUME NEW l, NEW s, NEW r, Within(l, s, r), NEW u \in Class, u # s,
         NEW L \in SUBSET Item, NEW E \in SUBSET Class, NEW L2 \in SUBSET Item, NEW E2 \in SUBSET Class,
         \A a \in Node : ClassOfNode(a) = u => (a \in L2 \cup E2 <=> a \in L \cup E),
         NEW pos, Queue(l, u, Entries(L, E, u), pos),
         NEW pos2, \A a \in Node : ClassOfNode(a) = u => pos2[a] = pos[a]
  PROVE  Queue(r, u, Entries(L2, E2, u), pos2)
<1>1. PICK K : K = Entries(L, E, u)
  OBVIOUS
<1>2. K \in SUBSET Node /\ \A a : a \in K <=> a \in L \cup E /\ ClassOfNode(a) = u
  BY <1>1, EntriesKnown
<1>3. K = Entries(L2, E2, u)
  <2>1. /\ Entries(L2, E2, u) \in SUBSET Node
        /\ \A a : a \in Entries(L2, E2, u) <=> a \in L2 \cup E2 /\ ClassOfNode(a) = u
    BY EntriesKnown
  <2>2. \A a : a \in K <=> a \in Entries(L2, E2, u)
    BY <1>2, <2>1
  <2> QED BY <2>2
<1>4. \A a \in K : r.next[a] = l.next[a] /\ r.prev[a] = l.prev[a] /\ pos2[a] = pos[a]
  BY <1>2 DEF Within
<1>5. r.heads[u] = l.heads[u] /\ r.tails[u] = l.tails[u]
  BY DEF Within
<1>6. Queue(l, u, K, pos)
  BY <1>1
<1>7. Queue(r, u, K, pos2)
  BY <1>4, <1>5, <1>6, ListSame
<1> QED BY <1>3, <1>7

\* A step on a class that is not among those whose queues are in order.
LEMMA QueuesElse ==
  ASSUME NEW l, NEW s, NEW r, Within(l, s, r), NEW C \in SUBSET Class, s \notin C,
         NEW L \in SUBSET Item, NEW E \in SUBSET Class, NEW L2 \in SUBSET Item, NEW E2 \in SUBSET Class,
         \A a \in Node : ClassOfNode(a) # s => (a \in L2 \cup E2 <=> a \in L \cup E),
         NEW pos, Queues(l, L, E, C, pos),
         NEW pos2, \A a \in Node : ClassOfNode(a) # s => pos2[a] = pos[a]
  PROVE  Queues(r, L2, E2, C, pos2)
<1>1. ASSUME NEW u \in C PROVE Queue(r, u, Entries(L2, E2, u), pos2)
  <2>1. u \in Class /\ u # s /\ Queue(l, u, Entries(L, E, u), pos)
    BY DEF Queues
  <2>2. /\ \A a \in Node : ClassOfNode(a) = u => (a \in L2 \cup E2 <=> a \in L \cup E)
        /\ \A a \in Node : ClassOfNode(a) = u => pos2[a] = pos[a]
    BY <2>1
  <2> QED BY <2>1, <2>2, OtherQueue
<1> QED BY <1>1 DEF Queues

LEMMA QueuesDrop ==
  ASSUME NEW l, NEW L \in SUBSET Item, NEW E \in SUBSET Class, NEW C \in SUBSET Class,
         NEW pos \in [Node -> Int], Queues(l, L, E, C, pos), NEW n \in L \cup E, NEW s, s = ClassOfNode(n),
         NEW r, Drops(l, n, s, r), Within(l, s, r)
  PROVE  Queues(r, L \ {n}, E \ {n}, C, pos)
<1>1. n \in Node /\ s \in Class /\ L \ {n} \in SUBSET Item /\ E \ {n} \in SUBSET Class
  BY ClassKnown, NullIsNoNode
<1>2. ASSUME s \in C PROVE Queue(r, s, Entries(L \ {n}, E \ {n}, s), pos)
  <2>1. PICK M : M = Entries(L, E, s)
    OBVIOUS
  <2>2. M \in SUBSET Node /\ \A a : a \in M <=> a \in L \cup E /\ ClassOfNode(a) = s
    BY <1>1, <2>1, EntriesKnown
  <2>3. n \in M /\ M \ {n} = Entries(L \ {n}, E \ {n}, s)
    <3>1. \A a : a \in Entries(L \ {n}, E \ {n}, s) <=> a \in (L \ {n}) \cup (E \ {n}) /\ ClassOfNode(a) = s
      BY <1>1, EntriesKnown
    <3>2. \A a : a \in M \ {n} <=> a \in Entries(L \ {n}, E \ {n}, s)
      BY <2>2, <3>1
    <3> QED BY <2>2, <3>2
  <2>4. Queue(l, s, M, pos)
    BY <1>2, <2>1 DEF Queues
  <2>5. Queue(r, s, M \ {n}, pos)
    BY <2>2, <2>3, <2>4, ListDrop
  <2> QED BY <2>3, <2>5
<1>3. ASSUME NEW u \in C, u # s PROVE Queue(r, u, Entries(L \ {n}, E \ {n}, u), pos)
  <2>1. u \in Class /\ Queue(l, u, Entries(L, E, u), pos)
    BY DEF Queues
  <2>2. \A a \in Node : ClassOfNode(a) = u => (a \in (L \ {n}) \cup (E \ {n}) <=> a \in L \cup E)
    BY <1>3
  <2> QED BY <1>1, <1>3, <2>1, <2>2, OtherQueue
<1> QED BY <1>2, <1>3 DEF Queues

\* An item that is linked is in front of everything.
LEMMA QueuesPush ==
  ASSUME NEW l, NEW L \in SUBSET Item, NEW E \in SUBSET Class, NEW C \in SUBSET Class,
         NEW pos \in [Node -> Int], Queues(l, L, E, C, pos), NEW n \in Item, n \notin L,
         NEW s, s = ClassOfNode(n), NEW r, Pushes(l, n, s, r), Within(l, s, r)
  PROVE  \E pos2 : Pushed(r, L, E, C, n, s, pos, pos2)
<1>1. n \in Node /\ n \notin Class /\ s \in Class /\ L \cup {n} \in SUBSET Item
  BY ClassKnown, NullIsNoNode
<1>2. PICK M : M = Entries(L, E, s)
  OBVIOUS
<1>3. M \in SUBSET Node /\ \A a : a \in M <=> a \in L \cup E /\ ClassOfNode(a) = s
  BY <1>1, <1>2, EntriesKnown
<1>4. n \notin M /\ M \cup {n} = Entries(L \cup {n}, E, s)
  <2>1. \A a : a \in Entries(L \cup {n}, E, s) <=> a \in (L \cup {n}) \cup E /\ ClassOfNode(a) = s
    BY <1>1, EntriesKnown
  <2>2. \A a : a \in M \cup {n} <=> a \in Entries(L \cup {n}, E, s)
    BY <1>3, <2>1
  <2> QED BY <1>1, <1>3, <2>2
<1>5. s \in C => Queue(l, s, M, pos)
  BY <1>2 DEF Queues
<1>6. s \in C => (M # {} => l.heads[s] \in M) /\ \A a \in M : pos[l.heads[s]] <= pos[a]
  BY <1>5 DEF Queue, List
<1>7. PICK x \in Int : s \in C /\ M # {} => x < pos[l.heads[s]]
  <2>1. CASE M = {} \/ s \notin C
    BY <2>1
  <2>2. CASE M # {} /\ s \in C
    <3>1. pos[l.heads[s]] \in Int
      BY <1>3, <1>6, <2>2
    <3>2. pos[l.heads[s]] - 1 \in Int /\ pos[l.heads[s]] - 1 < pos[l.heads[s]]
      BY <3>1
    <3> QED BY <3>2
  <2> QED BY <2>1, <2>2
<1>8. PICK pos2 \in [Node -> Int] : pos2 = [pos EXCEPT ![n] = x]
  OBVIOUS
<1>9. pos2[n] = x /\ \A a \in Node : a # n => pos2[a] = pos[a]
  BY <1>1, <1>8
<1>10. ASSUME s \in C PROVE Queue(r, s, M \cup {n}, pos2)
  <2>1. (M # {} => pos2[n] < pos[l.heads[s]]) /\ \A a \in M : pos2[a] = pos[a]
    BY <1>3, <1>4, <1>7, <1>9, <1>10
  <2>2. Queue(l, s, M, pos)
    BY <1>5, <1>10
  <2> QED BY <1>1, <1>3, <1>4, <2>1, <2>2, ListPush
<1>11. ASSUME NEW u \in C, u # s PROVE Queue(r, u, Entries(L \cup {n}, E, u), pos2)
  <2>1. u \in Class /\ Queue(l, u, Entries(L, E, u), pos)
    BY DEF Queues
  <2>2. \A a \in Node : ClassOfNode(a) = u => (a \in (L \cup {n}) \cup E <=> a \in L \cup E)
    BY <1>11
  <2>3. \A a \in Node : ClassOfNode(a) = u => pos2[a] = pos[a]
    BY <1>9, <1>11
  <2> QED BY <1>1, <1>11, <2>1, <2>2, <2>3, OtherQueue
<1>12. s \in C => Queue(r, s, Entries(L \cup {n}, E, s), pos2)
  BY <1>4, <1>10
<1>13. Queues(r, L \cup {n}, E, C, pos2)
  BY <1>11, <1>12 DEF Queues
<1>14. ASSUME s \in C, NEW a \in M PROVE pos2[n] < pos2[a]
  <2>1. pos[l.heads[s]] <= pos[a] /\ pos[a] \in Int /\ l.heads[s] \in M /\ pos[l.heads[s]] \in Int
    BY <1>3, <1>6, <1>14
  <2>2. x < pos[l.heads[s]] /\ pos2[a] = pos[a] /\ pos2[n] = x
    BY <1>3, <1>4, <1>7, <1>9, <1>14
  <2> QED BY <2>1, <2>2
<1> QED BY <1>2, <1>9, <1>13, <1>14 DEF Pushed

\* The crawler changes places with the item before it.
LEMMA QueuesSwap ==
  ASSUME NEW l \in Pointers, Local(l), NEW L \in SUBSET Item, NEW E \in SUBSET Class, NEW C \in SUBSET Class,
         NEW pos \in [Node -> Int], Queues(l, L, E, C, pos), NEW c \in E \cap C, NEW p, p = l.prev[c], p # NULL,
         NEW r, r = crawler_crawl_q(l, c)
  PROVE  /\ p \in L /\ ClassOf[p] = c
         /\ \E pos2 : Swapped(r, L, E, C, c, p, pos, pos2)
<1>1. c \in Node /\ c \in Class /\ ClassOfNode(c) = c
  BY ClassKnown, NullIsNoNode
<1>2. PICK M : M = Entries(L, E, c)
  OBVIOUS
<1>3. M \in SUBSET Node /\ \A a : a \in M <=> a \in L \cup E /\ ClassOfNode(a) = c
  BY <1>1, <1>2, EntriesKnown
<1>4. c \in M
  BY <1>1, <1>3
<1>5. Queue(l, c, M, pos)
  BY <1>1, <1>2 DEF Queues
<1>6. \A a \in M : pos[a] \in Int /\ a # NULL
  BY <1>3, NullIsNoNode
<1>7. p \in M /\ p # c /\ l.next[p] = c /\ p # l.tails[c] /\ c # l.heads[c] /\ pos[p] < pos[c]
  BY <1>4, <1>5, <1>6 DEF Queue, List
<1>8. l.prev[p] \notin {p, c} /\ l.next[c] \notin {p, c}
  BY <1>4, <1>5, <1>6, <1>7 DEF Queue, List
<1>9. p \in L /\ ClassOf[p] = c
  <2>1. p \in L \cup E /\ ClassOfNode(p) = c
    BY <1>3, <1>7
  <2>2. p \notin E
    BY <1>7, <2>1, ClassKnown
  <2> QED BY <2>1, <2>2, ClassKnown
<1>10. Swaps(l, c, p, r) /\ Within(l, c, r)
  BY <1>1, <1>7, <1>8, CrawlKnown, CrawlStays
<1>11. PICK pos2 \in [Node -> Int] : /\ pos2[c] = pos[p] /\ pos2[p] = pos[c]
                                     /\ \A a \in Node : a \notin {p, c} => pos2[a] = pos[a]
  <2>1. [pos EXCEPT ![c] = pos[p], ![p] = pos[c]] \in [Node -> Int]
    BY <1>1, <1>3, <1>7
  <2> QED BY <1>1, <1>3, <1>7, <2>1
<1>12. Queue(r, c, M, pos2)
  BY <1>3, <1>4, <1>5, <1>10, <1>11, ListSwap
<1>13. ASSUME NEW u \in C, u # c PROVE Queue(r, u, Entries(L, E, u), pos2)
  <2>1. u \in Class /\ Queue(l, u, Entries(L, E, u), pos)
    BY DEF Queues
  <2>2. \A a \in Node : ClassOfNode(a) = u => pos2[a] = pos[a]
    BY <1>1, <1>3, <1>7, <1>11, <1>13
  <2>3. \A a \in Node : ClassOfNode(a) = u => (a \in L \cup E <=> a \in L \cup E)
    OBVIOUS
  <2> QED BY <1>10, <1>13, <2>1, <2>2, <2>3, OtherQueue
<1>14. Queues(r, L, E, C, pos2)
  BY <1>2, <1>12, <1>13 DEF Queues
<1>15. ASSUME NEW a \in M, a # p, pos[a] < pos[c] PROVE pos2[a] < pos2[c]
  <2>1. a # c /\ pos2[a] = pos[a]
    BY <1>3, <1>6, <1>11, <1>15
  <2>2. pos[a] <= pos[p] \/ pos[c] <= pos[a]
    BY <1>5, <1>7 DEF Queue, List
  <2>3. pos[a] # pos[p]
    BY <1>5, <1>7, <1>15 DEF Queue, List
  <2>4. pos[a] \in Int /\ pos[p] \in Int /\ pos[c] \in Int
    BY <1>4, <1>6, <1>7
  <2> QED BY <1>11, <1>15, <2>1, <2>2, <2>3, <2>4
<1> QED BY <1>2, <1>9, <1>11, <1>14, <1>15 DEF Swapped

\* A crawler at the head leaves its queue: crawler_crawl_q, then crawler_unlink_q.
LEMMA QueuesPop ==
  ASSUME NEW l \in Pointers, Local(l), NEW L \in SUBSET Item, NEW E \in SUBSET Class, NEW C \in SUBSET Class,
         NEW pos \in [Node -> Int], Queues(l, L, E, C, pos), NEW c \in E \cap C, l.prev[c] = NULL,
         NEW r, r = unlink_q(crawler_crawl_q(l, c), c)
  PROVE  Queues(r, L, E \ {c}, C, pos)
<1>1. c \in Node /\ c \in Class /\ ClassOfNode(c) = c /\ c # NULL
  BY ClassKnown, NullIsNoNode
<1>2. PICK M : M = Entries(L, E, c)
  OBVIOUS
<1>3. M \in SUBSET Node /\ c \in M
  <2>1. M \in SUBSET Node /\ \A a : a \in M <=> a \in L \cup E /\ ClassOfNode(a) = c
    BY <1>1, <1>2, EntriesKnown
  <2> QED BY <1>1, <2>1
<1>4. Queue(l, c, M, pos)
  BY <1>1, <1>2 DEF Queues
<1>5. l.heads[c] = c
  BY <1>3, <1>4, NullIsNoNode DEF Queue, List
<1>6. l.next[c] # c
  BY <1>1, <1>3, <1>4 DEF Queue, List
<1>7. PICK m : m = crawler_crawl_q(l, c)
  OBVIOUS
<1>8. /\ m \in Pointers
      /\ m.heads = [l.heads EXCEPT ![c] = IF l.next[c] = NULL THEN @ ELSE l.next[c]]
      /\ m.tails = l.tails /\ m.next = l.next
      /\ \A a \in Node : m.prev[a] = IF a = l.next[c] THEN NULL ELSE l.prev[a]
  BY <1>1, <1>7, CrawlPops
<1>9. /\ m.heads[c] = (IF l.next[c] = NULL THEN c ELSE l.next[c])
      /\ \A u \in Class : u # c => m.heads[u] = l.heads[u]
  BY <1>1, <1>5, <1>8, PointersKnown
<1>10. Drops(m, c, c, r)
  BY <1>1, <1>7, <1>8, UnlinkKnown
<1>11. Drops(l, c, c, r)
  <2>1. m.prev[c] = NULL /\ m.next[c] = l.next[c]
    BY <1>1, <1>6, <1>8
  <2>2. r.heads[c] = l.next[c]
    BY <1>6, <1>9, <1>10, <2>1 DEF Drops
  <2>3. /\ r.tails[c] = IF l.tails[c] = c THEN l.prev[c] ELSE l.tails[c]
        /\ \A u \in Class : u # c => r.heads[u] = l.heads[u] /\ r.tails[u] = l.tails[u]
    BY <1>8, <1>9, <1>10, <2>1 DEF Drops
  <2>4. \A a \in Node : r.next[a] = IF a = c THEN NULL ELSE IF a = l.prev[c] THEN l.next[c] ELSE l.next[a]
    BY <1>8, <1>10, <2>1 DEF Drops
  <2>5. \A a \in Node : r.prev[a] = IF a = c THEN NULL ELSE IF a = l.next[c] THEN l.prev[c] ELSE l.prev[a]
    BY <1>8, <1>10, <2>1 DEF Drops
  <2> QED BY <1>5, <2>2, <2>3, <2>4, <2>5 DEF Drops
<1>12. Within(l, c, r)
  BY <1>1, <1>11, DropStays
<1>13. Queues(r, L \ {c}, E \ {c}, C, pos)
  BY <1>1, <1>11, <1>12, QueuesDrop
<1>14. L \ {c} = L
  BY <1>1, ClassKnown
<1> QED BY <1>13, <1>14

\* Crawlers are linked at the tails.  The queue of one that is there already is in order no longer.
LEMMA QueuesAppend ==
  ASSUME NEW l \in Pointers, Local(l), NEW L \in SUBSET Item, NEW E \in SUBSET Class, NEW C \in SUBSET Class,
         NEW pos \in [Node -> Int], Queues(l, L, E, C, pos),
         NEW S \in SUBSET Class, \A s \in S : l.tails[s] # NULL, NEW r, r = crawler_link_q(l, S)
  PROVE  \E pos2 : Appended(r, L, E, C, S, pos, pos2)
<1>1. Appends(l, S, r)
  BY CrawlersKnown
<1>2. \A u \in S : u \in Node /\ ClassOfNode(u) = u /\ l.tails[u] \in Node /\ ClassOfNode(l.tails[u]) = u
  BY ClassKnown, LocalKnown, NullIsNoNode
<1>3. ASSUME NEW s \in C \ (S \cap E)
      PROVE  /\ Entries(L, E, s) \in SUBSET Node
             /\ \A a : a \in Entries(L, E, s) <=> a \in L \cup E /\ ClassOfNode(a) = s
             /\ Entries(L, E, s) \cap S = {} /\ Queue(l, s, Entries(L, E, s), pos)
             /\ \A u \in S : u # s => l.tails[u] \notin Entries(L, E, s)
  <2>1. /\ Entries(L, E, s) \in SUBSET Node
        /\ \A a : a \in Entries(L, E, s) <=> a \in L \cup E /\ ClassOfNode(a) = s
    BY EntriesKnown
  <2>2. L \cap S = {}
    BY ClassKnown
  <2>3. Entries(L, E, s) \cap S = {}
    BY <1>2, <1>3, <2>1, <2>2
  <2> QED BY <1>2, <2>1, <2>3 DEF Queues
<1>4. ASSUME NEW s \in (S \cap C) \ E
      PROVE  /\ Entries(L, E, s) # {} /\ l.tails[s] \in Entries(L, E, s) /\ pos[l.tails[s]] \in Int
             /\ \A a \in Entries(L, E, s) : pos[a] <= pos[l.tails[s]]
  <2>1. Queue(l, s, Entries(L, E, s), pos) /\ Entries(L, E, s) \in SUBSET Node
    BY <1>3
  <2> QED BY <2>1 DEF Queue, List
<1>5. PICK pos2 : pos2 = [a \in Node |-> IF a \in (S \cap C) \ E THEN pos[l.tails[a]] + 1 ELSE pos[a]]
  OBVIOUS
<1>6. /\ pos2 \in [Node -> Int] /\ \A s \in (S \cap C) \ E : pos2[s] = pos[l.tails[s]] + 1
      /\ \A a \in Node : a \notin S => pos2[a] = pos[a]
  <2>1. ASSUME NEW a \in Node PROVE (IF a \in (S \cap C) \ E THEN pos[l.tails[a]] + 1 ELSE pos[a]) \in Int
    <3>1. CASE a \in (S \cap C) \ E
      BY <1>4, <3>1
    <3>2. CASE a \notin (S \cap C) \ E
      BY <3>2
    <3> QED BY <3>1, <3>2
  <2> QED BY <1>2, <1>5, <2>1
<1>7. ASSUME NEW s \in (S \cap C) \ E, NEW a \in Entries(L, E, s) PROVE pos2[a] < pos2[s]
  <2>1. pos2[a] = pos[a] /\ pos[a] \in Int
    BY <1>3, <1>6
  <2>2. pos[a] <= pos[l.tails[s]] /\ pos[l.tails[s]] \in Int
    BY <1>4
  <2> QED BY <1>6, <2>1, <2>2
<1>8. ASSUME NEW s \in C \ (S \cap E) PROVE Queue(r, s, Entries(L, E \cup S, s), pos2)
  <2>1. PICK M : M = Entries(L, E, s)
    OBVIOUS
  <2>2. /\ M \in SUBSET Node /\ M \cap S = {} /\ Queue(l, s, M, pos)
        /\ \A a : a \in M <=> a \in L \cup E /\ ClassOfNode(a) = s
        /\ \A a \in M : pos2[a] = pos[a]
        /\ \A u \in S : u # s => l.tails[u] \notin M
    BY <1>3, <1>6, <2>1
  <2>3. \A a : a \in Entries(L, E \cup S, s) <=> a \in L \cup (E \cup S) /\ ClassOfNode(a) = s
    BY EntriesKnown
  <2>4. CASE s \in S
    <3>1. M # {} /\ pos[l.tails[s]] < pos2[s] /\ l.tails[s] \in M
      BY <1>4, <1>6, <2>1, <2>4
    <3>2. \A a \in M : ClassOfNode(a) = s
      BY <2>2
    <3>3. \A u \in S : l.tails[u] # s
      BY <1>2, <2>2, <2>4, <3>1
    <3>4. Queue(r, s, M \cup {s}, pos2)
      BY <1>1, <1>6, <2>2, <2>4, <3>1, <3>2, <3>3, ListAppend
    <3>5. \A a : a \in M \cup {s} <=> a \in Entries(L, E \cup S, s)
      BY <1>2, <2>2, <2>3, <2>4
    <3>6. M \cup {s} = Entries(L, E \cup S, s)
      BY <3>5
    <3> QED BY <3>4, <3>6
  <2>5. CASE s \notin S
    <3>1. \A a : a \in M <=> a \in Entries(L, E \cup S, s)
      <4>1. \A u \in S : ClassOfNode(u) # s
        BY <1>2, <2>5
      <4> QED BY <2>2, <2>3, <4>1
    <3>2. M = Entries(L, E \cup S, s)
      BY <3>1
    <3>3. \A a \in M : a \in Node /\ a \notin S /\ ~\E u \in S : l.tails[u] = a
      BY <2>2, <2>5
    <3>4. \A a \in M : r.next[a] = l.next[a] /\ r.prev[a] = l.prev[a] /\ pos2[a] = pos[a]
      BY <1>1, <2>2, <3>3 DEF Appends
    <3>5. r.heads[s] = l.heads[s] /\ r.tails[s] = l.tails[s]
      BY <1>1, <2>5 DEF Appends
    <3>6. Queue(r, s, M, pos2)
      BY <2>2, <3>4, <3>5, ListSame
    <3> QED BY <3>2, <3>6
  <2> QED BY <2>4, <2>5
<1>9. Queues(r, L, E \cup S, C \ (S \cap E), pos2)
  BY <1>8 DEF Queues
<1> QED BY <1>6, <1>7, <1>9 DEF Appended

-----------------------------------------------------------------------------
(* Types *)

LEMMA TypesOfInit == Init => TInv
  BY ClassAssumption, ThreadAssumption DEF Init, TInv, Class

LEMMA FlagsOfInit == Init => BInv
  BY DEF Init, BInv

LEMMA FlagsKept == BInv /\ [Next]_vars => BInv'
<1> SUFFICES ASSUME BInv, [Next]_vars PROVE BInv'
  OBVIOUS
<1>1. CASE UNCHANGED <<lru_crawler, do_run>>
  BY <1>1, Zenon DEF BInv
<1>2. ASSUME NEW w \in Worker, start_item_crawler_thread(w) PROVE BInv'
  BY <1>2, Zenon DEF BInv, start_item_crawler_thread
<1>3. ASSUME NEW w \in Worker, stop_item_crawler_thread(w) PROVE BInv'
  BY <1>3, Zenon DEF BInv, stop_item_crawler_thread, settings
<1>4. ASSUME NEW w \in Worker, StopJoins(w) PROVE BInv'
  BY <1>4, Zenon DEF BInv, StopJoins
<1>5. CASE UNCHANGED vars
  BY <1>1, <1>5, Zenon DEF vars, settings, thread
<1>6. CASE \E n \in Item : do_item_link(n) \/ do_item_unlink(n) \/ do_item_update(n)
  BY <1>1, <1>6, Zenon DEF do_item_link, do_item_unlink, do_item_update, settings, thread
<1>7. CASE SetToCrawl
  BY <1>1, <1>7, Zenon DEF SetToCrawl, thread
<1>8. ASSUME NEW w \in Worker, Command(w) PROVE BInv'
  <2>1. CASE CrawlParsed(w) \/ CrawlRefused(w) \/ lru_crawler_crawl(w) \/ EnableParsed(w) \/ DisableParsed(w)
    BY <1>1, <2>1, Zenon DEF CrawlParsed, CrawlRefused, lru_crawler_crawl, EnableParsed, DisableParsed,
                             settings, thread
  <2> QED BY <1>2, <1>3, <1>4, <1>8, <2>1 DEF Command
<1>9. ASSUME NEW t \in Thread, CrawlerThread(t) PROVE BInv'
  BY <1>1, <1>9, Zenon DEF CrawlerThread, ThreadStarts, ThreadWakes, CrawlRound, CrawlSkips, CrawlStep,
                           settings, thread
<1> QED BY <1>5, <1>6, <1>7, <1>8, <1>9 DEF Next

\* A signal wakes no thread that crawls.
LEMMA SignalKeeps ==
  ASSUME TInv, Signal(tpc)
  PROVE  /\ tpc' \in [Thread -> {"none", "start", "waiting", "woken", "crawling", "exited"}]
         /\ \A t \in Thread : tpc'[t] = "crawling" <=> tpc[t] = "crawling"
  BY DEF TInv, Signal

LEMMA TypesKept == TInv /\ [Next]_vars => TInv'
<1> SUFFICES ASSUME TInv, [Next]_vars PROVE TInv'
  OBVIOUS
<1> USE DEF TInv
<1>1. \A t \in Thread : t # Nobody /\ t # NULL
  BY ThreadAssumption
<1>2. CASE UNCHANGED vars
  BY <1>2 DEF vars, queues, crawl, settings, thread
<1>3. ASSUME NEW n \in Item, do_item_link(n) \/ do_item_unlink(n) \/ do_item_update(n) PROVE TInv'
  <2>1. CASE do_item_link(n)
    BY <2>1 DEF do_item_link, crawl, settings, thread
  <2>2. CASE do_item_unlink(n)
    BY <2>2 DEF do_item_unlink, settings, thread
  <2>3. CASE do_item_update(n)
    BY <2>3 DEF do_item_update, crawl, settings, thread
  <2> QED BY <1>3, <2>1, <2>2, <2>3
<1>4. CASE SetToCrawl
  BY <1>4, ToCrawlAssumption DEF SetToCrawl, queues, crawl, thread
<1>5. ASSUME NEW w \in Worker, Command(w) PROVE TInv'
  <2>1. CASE CrawlParsed(w) \/ CrawlRefused(w) \/ EnableParsed(w) \/ DisableParsed(w)
    BY <2>1 DEF CrawlParsed, CrawlRefused, EnableParsed, DisableParsed, Goto, queues, crawl, settings, thread
  <2>2. CASE lru_crawler_crawl(w)
    <3>1. /\ pc' = [pc EXCEPT ![w] = "idle"] /\ Signal(tpc)
          /\ UNCHANGED <<linked, tocrawl, lru_crawler, do_run, tid, lru_crawler_lock, i>>
      BY <2>2 DEF lru_crawler_crawl, Goto, settings
    <3>2. enabled' \subseteq Class /\ remaining' \in [Class -> Nat] /\ unseen' \in [Class -> SUBSET Item]
          /\ twice' \subseteq Class /\ fault' = fault
      <4>1. PICK asked \in SUBSET Class :
              LET S == {s \in asked : q.tails[s] # NULL} IN
              /\ enabled' = enabled \cup S
              /\ remaining' = [s \in Class |-> IF s \in S THEN tocrawl ELSE remaining[s]]
              /\ unseen' = [s \in Class |-> IF s \in S THEN {n \in linked : ClassOf[n] = s} ELSE unseen[s]]
              /\ twice' = twice \cup (S \cap enabled)
        BY <2>2 DEF lru_crawler_crawl
      <4>2. PICK S : S = {s \in asked : q.tails[s] # NULL}
        OBVIOUS
      <4>3. S \subseteq Class
        BY <4>2
      <4>4. /\ enabled' = enabled \cup S
            /\ remaining' = [s \in Class |-> IF s \in S THEN tocrawl ELSE remaining[s]]
            /\ unseen' = [s \in Class |-> IF s \in S THEN {n \in linked : ClassOf[n] = s} ELSE unseen[s]]
            /\ twice' = twice \cup (S \cap enabled)
        BY <4>1, <4>2
      <4>5. fault' = fault
        BY <2>2 DEF lru_crawler_crawl
      <4> QED BY <4>3, <4>4, <4>5
    <3> QED BY <3>1, <3>2, SignalKeeps
  <2>3. CASE start_item_crawler_thread(w)
    BY <1>1, <2>3 DEF start_item_crawler_thread, Goto, queues, crawl
  <2>4. CASE stop_item_crawler_thread(w)
    <3>1. /\ pc' = [pc EXCEPT ![w] = "join"] /\ Signal(tpc)
          /\ UNCHANGED <<queues, crawl, settings, tid, lru_crawler_lock, i, fault>>
      BY <2>4 DEF stop_item_crawler_thread, Goto
    <3> QED BY <3>1, SignalKeeps DEF queues, crawl, settings
  <2>5. CASE StopJoins(w)
    BY <2>5 DEF StopJoins, Goto, queues, crawl
  <2> QED BY <1>5, <2>1, <2>2, <2>3, <2>4, <2>5 DEF Command
<1>6. ASSUME NEW t \in Thread, CrawlerThread(t) PROVE TInv'
  <2>1. CASE ThreadStarts(t)
    BY <1>1, <2>1 DEF ThreadStarts, WaitOrExit, queues, crawl, settings
  <2>2. CASE ThreadWakes(t)
    BY <1>1, <2>2, ClassAssumption DEF ThreadWakes, queues, crawl, settings
  <2>3. CASE CrawlRound(t)
    BY <1>1, <2>3, ClassAssumption DEF CrawlRound, WaitOrExit, queues, crawl, settings
  <2>4. CASE CrawlSkips(t)
    BY <2>4, ClassAssumption DEF CrawlSkips, InRound, Class, queues, crawl, settings
  <2>5. CASE CrawlStep(t)
    <3>1. PICK s \in Class : s = i[t]
      BY <2>5 DEF CrawlStep, InRound
    <3>2. i' = [i EXCEPT ![t] = s + 1] /\ s + 1 \in 1..(LargestId + 1)
      BY <2>5, <3>1, ClassAssumption DEF CrawlStep, Class
    <3>3. UNCHANGED <<settings, do_run, tid, lru_crawler_lock, tpc, pc, fault>>
      BY <2>5 DEF CrawlStep
    <3>4. linked' \subseteq Item /\ enabled' \subseteq Class /\ remaining' \in [Class -> Nat]
          /\ unseen' \in [Class -> SUBSET Item] /\ twice' \subseteq Class
      <4>1. CASE CrawlDone(s)
        BY <4>1 DEF CrawlDone
      <4>2. CASE CrawlItem(s)
        <5>1. Remaining(s) \in Nat
          BY DEF Remaining
        <5>2. enabled' = enabled /\ linked' \subseteq linked /\ remaining' = [remaining EXCEPT ![s] = Remaining(s)]
              /\ unseen' = [unseen EXCEPT ![s] = @ \ {Search(s)}] /\ twice' = twice
          BY <4>2 DEF CrawlItem
        <5> QED BY <5>1, <5>2
      <4> QED BY <2>5, <3>1, <4>1, <4>2 DEF CrawlStep
    <3> QED BY <3>2, <3>3, <3>4 DEF settings
  <2> QED BY <1>6, <2>1, <2>2, <2>3, <2>4, <2>5 DEF CrawlerThread
<1> QED BY <1>2, <1>3, <1>4, <1>5, <1>6 DEF Next

-----------------------------------------------------------------------------
(* The queues, step by step *)

LEMMA QueuesOfInit == Init => QInv
<1> SUFFICES ASSUME Init PROVE QInv
  OBVIOUS
<1>1. /\ q = [heads |-> [s \in Class |-> NULL], tails |-> [s \in Class |-> NULL],
              next |-> [n \in Node |-> NULL], prev |-> [n \in Node |-> NULL]]
      /\ linked = {} /\ enabled = {} /\ twice = {}
  BY DEF Init
<1>2. q \in Pointers
  BY <1>1, PointersMade DEF NodeOrNull
<1>3. Local(q)
  <2>1. /\ \A s \in Class : q.heads[s] = NULL /\ q.tails[s] = NULL
        /\ \A n \in Node : q.next[n] = NULL /\ q.prev[n] = NULL
    BY <1>1
  <2> QED BY <2>1, LocalMade
<1>4. PICK pos : pos = [n \in Node |-> 0]
  OBVIOUS
<1>5. pos \in [Node -> Int]
  BY <1>4
<1>6. Queues(q, linked, enabled, Class \ twice, pos)
  <2> SUFFICES ASSUME NEW s \in Class PROVE Queue(q, s, Entries(linked, enabled, s), pos)
    BY DEF Queues
  <2>1. Entries(linked, enabled, s) = {}
    BY <1>1 DEF Entries
  <2>2. q.heads[s] = NULL /\ q.tails[s] = NULL
    BY <1>1
  <2> QED BY <2>1, <2>2 DEF Queue, List
<1>7. Ahead(linked, enabled, unseen, Class \ twice, pos)
  BY <1>1 DEF Ahead
<1> QED BY <1>2, <1>3, <1>5, <1>6, <1>7 DEF QInv, Ordered

\* The queues that are in order are those of the classes C.
LEMMA QueuesKnown ==
  ASSUME TInv, QInv
  PROVE  /\ linked \in SUBSET Item /\ enabled \in SUBSET Class /\ unseen \in [Class -> SUBSET Item]
         /\ q \in Pointers /\ Local(q) /\ Class \ twice \in SUBSET Class
         /\ \E pos \in [Node -> Int] : /\ Queues(q, linked, enabled, Class \ twice, pos)
                                       /\ Ahead(linked, enabled, unseen, Class \ twice, pos)
  BY DEF TInv, QInv, Ordered

LEMMA QueuesAfterLink ==
  ASSUME TInv, QInv, NEW n \in Item, do_item_link(n)
  PROVE  QInv'
<1>1. q' = item_link_q(q, n) /\ linked' = linked \cup {n} /\ n \notin linked
      /\ enabled' = enabled /\ unseen' = unseen /\ twice' = twice
  BY DEF do_item_link, crawl
<1>2. PICK C : C = Class \ twice
  OBVIOUS
<1>3. /\ linked \in SUBSET Item /\ enabled \in SUBSET Class /\ C \in SUBSET Class
      /\ q \in Pointers /\ Local(q) /\ n \in Node
  BY <1>2, QueuesKnown, NullIsNoNode
<1>4. PICK s \in Class : s = ClassOfNode(n) /\ s = ClassOf[n]
  BY ClassKnown, NullIsNoNode
<1>5. q' \in Pointers /\ Pushes(q, n, s, q')
  BY <1>1, <1>3, <1>4, LinkKnown
<1>6. Local(q') /\ Within(q, s, q')
  BY <1>3, <1>4, <1>5, PushStays
<1>7. PICK pos \in [Node -> Int] : Queues(q, linked, enabled, C, pos) /\ Ahead(linked, enabled, unseen, C, pos)
  BY <1>2, QueuesKnown
<1>8. PICK pos2 : Pushed(q', linked, enabled, C, n, s, pos, pos2)
  BY <1>1, <1>3, <1>4, <1>5, <1>6, <1>7, QueuesPush
<1>9. Ahead(linked \cup {n}, enabled, unseen, C, pos2)
  <2> SUFFICES ASSUME NEW u \in enabled \cap C, NEW m \in unseen[u]
               PROVE  m \in linked \cup {n} /\ ClassOf[m] = u /\ pos2[m] < pos2[u]
    BY DEF Ahead
  <2>1. m \in linked /\ ClassOf[m] = u /\ pos[m] < pos[u]
    BY <1>7 DEF Ahead
  <2>2. m # n /\ u # n /\ m \in Node /\ u \in Node
    BY <1>1, <1>3, <2>1, NullIsNoNode, ClassKnown
  <2> QED BY <1>8, <2>1, <2>2 DEF Pushed
<1>10. Ordered(q', linked', enabled', unseen', C)
  BY <1>1, <1>8, <1>9 DEF Ordered, Pushed
<1> QED BY <1>1, <1>2, <1>5, <1>6, <1>10 DEF QInv

LEMMA QueuesAfterUnlink ==
  ASSUME TInv, QInv, NEW n \in Item, do_item_unlink(n)
  PROVE  QInv'
<1>1. q' = unlink_q(q, n) /\ linked' = linked \ {n} /\ n \in linked
      /\ enabled' = enabled /\ unseen' = [s \in Class |-> unseen[s] \ {n}] /\ twice' = twice
  BY DEF do_item_unlink
<1>2. PICK C : C = Class \ twice
  OBVIOUS
<1>3. /\ linked \in SUBSET Item /\ enabled \in SUBSET Class /\ C \in SUBSET Class
      /\ q \in Pointers /\ Local(q) /\ n \in Node /\ n \notin Class
  BY <1>2, QueuesKnown, NullIsNoNode, ClassKnown
<1>4. PICK s \in Class : s = ClassOfNode(n)
  BY <1>3, ClassKnown
<1>5. q' \in Pointers /\ Drops(q, n, s, q')
  BY <1>1, <1>3, <1>4, UnlinkKnown
<1>6. Local(q') /\ Within(q, s, q')
  BY <1>3, <1>4, <1>5, DropStays
<1>7. PICK pos \in [Node -> Int] : Queues(q, linked, enabled, C, pos) /\ Ahead(linked, enabled, unseen, C, pos)
  BY <1>2, QueuesKnown
<1>8. Queues(q', linked \ {n}, enabled \ {n}, C, pos)
  BY <1>1, <1>3, <1>4, <1>5, <1>6, <1>7, QueuesDrop
<1>9. enabled \ {n} = enabled
  BY <1>3
<1>10. Ahead(linked \ {n}, enabled, unseen', C, pos)
  BY <1>1, <1>3, <1>7 DEF Ahead
<1>11. Ordered(q', linked', enabled', unseen', C)
  BY <1>1, <1>8, <1>9, <1>10 DEF Ordered
<1> QED BY <1>1, <1>2, <1>5, <1>6, <1>11 DEF QInv

LEMMA QueuesAfterUpdate ==
  ASSUME TInv, QInv, NEW n \in Item, do_item_update(n)
  PROVE  QInv'
<1>1. q' = item_link_q(unlink_q(q, n), n) /\ linked' = linked /\ n \in linked
      /\ enabled' = enabled /\ unseen' = unseen /\ twice' = twice
  BY DEF do_item_update, crawl
<1>2. PICK C : C = Class \ twice
  OBVIOUS
<1>3. /\ linked \in SUBSET Item /\ enabled \in SUBSET Class /\ C \in SUBSET Class
      /\ q \in Pointers /\ Local(q) /\ n \in Node /\ n \notin Class
  BY <1>2, QueuesKnown, NullIsNoNode, ClassKnown
<1>4. PICK s \in Class : s = ClassOfNode(n) /\ s = ClassOf[n]
  BY <1>3, ClassKnown
<1>5. PICK m : m = unlink_q(q, n)
  OBVIOUS
<1>6. m \in Pointers /\ Drops(q, n, s, m)
  BY <1>3, <1>4, <1>5, UnlinkKnown
<1>7. Local(m) /\ Within(q, s, m)
  BY <1>3, <1>4, <1>6, DropStays
<1>8. q' \in Pointers /\ Pushes(m, n, s, q')
  BY <1>1, <1>3, <1>4, <1>5, <1>6, LinkKnown
<1>9. Local(q') /\ Within(m, s, q')
  BY <1>3, <1>4, <1>7, <1>8, PushStays
<1>10. PICK pos \in [Node -> Int] : Queues(q, linked, enabled, C, pos) /\ Ahead(linked, enabled, unseen, C, pos)
  BY <1>2, QueuesKnown
<1>11. PICK L : L = linked \ {n}
  OBVIOUS
<1>12. L \in SUBSET Item /\ n \notin L /\ L \cup {n} = linked
  BY <1>1, <1>3, <1>11
<1>13. Queues(m, L, enabled, C, pos)
  <2>1. Queues(m, linked \ {n}, enabled \ {n}, C, pos)
    BY <1>1, <1>3, <1>4, <1>6, <1>7, <1>10, QueuesDrop
  <2>2. enabled \ {n} = enabled
    BY <1>3
  <2> QED BY <1>11, <2>1, <2>2
<1>14. PICK pos2 : Pushed(q', L, enabled, C, n, s, pos, pos2)
  BY <1>3, <1>4, <1>8, <1>9, <1>12, <1>13, QueuesPush
<1>15. Ahead(linked, enabled, unseen, C, pos2)
  <2> SUFFICES ASSUME NEW u \in enabled \cap C, NEW k \in unseen[u]
               PROVE  k \in linked /\ ClassOf[k] = u /\ pos2[k] < pos2[u]
    BY DEF Ahead
  <2>1. k \in linked /\ ClassOf[k] = u /\ pos[k] < pos[u]
    BY <1>10 DEF Ahead
  <2>2. u # n /\ k \in Node /\ u \in Node
    BY <1>3, <2>1, NullIsNoNode
  <2>3. CASE k # n
    BY <1>14, <2>1, <2>2, <2>3 DEF Pushed
  <2>4. CASE k = n
    <3>1. u = s /\ s \in C /\ u \in Entries(L, enabled, s)
      BY <1>4, <2>1, <2>4 DEF Entries
    <3> QED BY <1>14, <2>1, <2>4, <3>1 DEF Pushed
  <2> QED BY <2>3, <2>4
<1>16. Ordered(q', linked', enabled', unseen', C)
  BY <1>1, <1>12, <1>14, <1>15 DEF Ordered, Pushed
<1> QED BY <1>1, <1>2, <1>8, <1>9, <1>16 DEF QInv

\* lru_crawler_crawl: the classes whose crawler is linked for a second time are in order no longer.
LEMMA QueuesAfterCrawl ==
  ASSUME TInv, QInv, CInv, NEW w \in Worker, lru_crawler_crawl(w)
  PROVE  QInv' /\ CInv'
<1>1. PICK asked \in SUBSET Class :
        LET S == {s \in asked : q.tails[s] # NULL} IN
        /\ q' = crawler_link_q(q, S)
        /\ enabled' = enabled \cup S
        /\ crawler_count' = crawler_count + Cardinality(S)
        /\ unseen' = [s \in Class |-> IF s \in S THEN {n \in linked : ClassOf[n] = s} ELSE unseen[s]]
        /\ twice' = twice \cup (S \cap enabled)
  BY DEF lru_crawler_crawl
<1>2. linked' = linked
  BY DEF lru_crawler_crawl
<1>3. PICK S : S = {s \in asked : q.tails[s] # NULL}
  OBVIOUS
<1>4. S \in SUBSET Class /\ \A s \in S : q.tails[s] # NULL
  BY <1>3
<1>5. /\ q' = crawler_link_q(q, S) /\ enabled' = enabled \cup S
      /\ crawler_count' = crawler_count + Cardinality(S)
      /\ unseen' = [s \in Class |-> IF s \in S THEN {n \in linked : ClassOf[n] = s} ELSE unseen[s]]
      /\ twice' = twice \cup (S \cap enabled)
  BY <1>1, <1>3
<1>6. PICK C : C = Class \ twice
  OBVIOUS
<1>7. /\ linked \in SUBSET Item /\ enabled \in SUBSET Class /\ C \in SUBSET Class
      /\ q \in Pointers /\ Local(q)
  BY <1>6, QueuesKnown
<1>8. PICK pos \in [Node -> Int] : Queues(q, linked, enabled, C, pos) /\ Ahead(linked, enabled, unseen, C, pos)
  BY <1>6, QueuesKnown
<1>9. PICK r : r = crawler_link_q(q, S)
  OBVIOUS
<1>10. r \in Pointers /\ Appends(q, S, r)
  BY <1>4, <1>7, <1>9, CrawlersKnown
<1>11. Local(r)
  BY <1>4, <1>7, <1>10, AppendStays
<1>12. PICK pos2 : Appended(r, linked, enabled, C, S, pos, pos2)
  BY <1>4, <1>7, <1>8, <1>9, QueuesAppend
<1>13. PICK C2 : C2 = C \ (S \cap enabled)
  OBVIOUS
<1>14. Ahead(linked, enabled \cup S, unseen', C2, pos2)
  <2> SUFFICES ASSUME NEW u \in (enabled \cup S) \cap C2, NEW m \in unseen'[u]
               PROVE  m \in linked /\ ClassOf[m] = u /\ pos2[m] < pos2[u]
    BY DEF Ahead
  <2>1. CASE u \in S
    <3>1. m \in linked /\ ClassOf[m] = u
      BY <1>4, <1>5, <2>1
    <3>2. m \in Entries(linked, enabled, u) /\ u \in (S \cap C) \ enabled
      BY <1>13, <2>1, <3>1 DEF Entries
    <3> QED BY <1>12, <3>1, <3>2 DEF Appended
  <2>2. CASE u \notin S
    <3>1. m \in unseen[u] /\ u \in enabled \cap C
      BY <1>5, <1>7, <1>13, <2>2
    <3>2. m \in linked /\ ClassOf[m] = u /\ pos[m] < pos[u]
      BY <1>8, <3>1 DEF Ahead
    <3>3. m \in Node /\ m \notin S /\ u \in Node
      BY <1>4, <1>7, <3>1, <3>2, NullIsNoNode, ClassKnown
    <3> QED BY <1>12, <2>2, <3>2, <3>3 DEF Appended
  <2> QED BY <2>1, <2>2
<1>15. Ordered(q', linked', enabled', unseen', C2)
  BY <1>2, <1>5, <1>9, <1>12, <1>13, <1>14 DEF Ordered, Appended
<1>16. C2 = Class \ twice'
  BY <1>5, <1>6, <1>13
<1>17. QInv'
  BY <1>5, <1>9, <1>10, <1>11, <1>15, <1>16 DEF QInv
<1>18. CInv'
  <2>1. IsFiniteSet(Class)
    BY ClassAssumption, FS_Interval DEF Class
  <2>2. IsFiniteSet(S) /\ IsFiniteSet(enabled)
    BY <1>4, <1>7, <2>1, FS_Subset
  <2>3. PICK B : B = S \cap enabled
    OBVIOUS
  <2>4. Cardinality(enabled \cup S) = Cardinality(enabled) + Cardinality(S) - Cardinality(B)
    <3>1. enabled \cap S = B
      BY <2>3
    <3> QED BY <2>2, <3>1, FS_Union
  <2>5. Cardinality(B) \in Nat /\ (Cardinality(B) = 0 <=> B = {})
    <3>1. IsFiniteSet(B)
      BY <2>2, <2>3, FS_Subset
    <3> QED BY <3>1, FS_CardinalityType, FS_EmptySet
  <2>6. Cardinality(enabled) \in Nat /\ Cardinality(S) \in Nat
    BY <2>2, FS_CardinalityType
  <2>7. /\ crawler_count \in Int /\ crawler_count >= Cardinality(enabled)
        /\ crawler_count = Cardinality(enabled) <=> twice = {}
    BY DEF CInv
  <2>8. twice' = {} <=> twice = {} /\ B = {}
    BY <1>5, <2>3
  <2>9. Cardinality(enabled') = Cardinality(enabled) + Cardinality(S) - Cardinality(B)
    BY <1>5, <2>4
  <2>10. /\ crawler_count' \in Int /\ crawler_count' >= Cardinality(enabled')
         /\ crawler_count' = Cardinality(enabled') <=> twice' = {}
    BY <1>5, <2>5, <2>6, <2>7, <2>8, <2>9
  <2> QED BY <2>10 DEF CInv
<1> QED BY <1>17, <1>18

\* A step of the crawler past an item.
LEMMA QueuesAfterSwap ==
  ASSUME NEW l \in Pointers, Local(l), NEW L \in SUBSET Item, NEW E \in SUBSET Class, NEW C \in SUBSET Class,
         NEW U, NEW pos \in [Node -> Int], Queues(l, L, E, C, pos), Ahead(L, E, U, C, pos),
         NEW c \in E \cap C, NEW p, p = l.prev[c], p # NULL, NEW r, r = crawler_crawl_q(l, c)
  PROVE  /\ p \in L /\ p \in Node /\ ClassOf[p] = c /\ ClassOfNode(p) = c
         /\ \E pos2 \in [Node -> Int] :
              /\ Queues(r, L, E, C, pos2)
              /\ \A s \in E \cap C : \A n \in U[s] : n # p => n \in L /\ ClassOf[n] = s /\ pos2[n] < pos2[s]
<1>1. p \in L /\ ClassOf[p] = c /\ \E pos2 : Swapped(r, L, E, C, c, p, pos, pos2)
  BY QueuesSwap
<1>2. PICK pos2 : Swapped(r, L, E, C, c, p, pos, pos2)
  BY <1>1
<1>3. ASSUME NEW s \in E \cap C, NEW n \in U[s], n # p PROVE n \in L /\ ClassOf[n] = s /\ pos2[n] < pos2[s]
  <2>1. n \in L /\ ClassOf[n] = s /\ pos[n] < pos[s]
    BY DEF Ahead
  <2>2. n \in Node /\ s \in Node /\ n # c /\ s # p
    BY <1>1, <2>1, NullIsNoNode, ClassKnown
  <2>3. CASE s = c
    <3>1. n \in Entries(L, E, c)
      BY <2>1, <2>3 DEF Entries
    <3> QED BY <1>2, <1>3, <2>1, <2>3, <3>1 DEF Swapped
  <2>4. CASE s # c
    BY <1>2, <1>3, <2>1, <2>2, <2>4 DEF Swapped
  <2> QED BY <2>3, <2>4
<1>4. p \in Node /\ ClassOfNode(p) = c
  BY <1>1, NullIsNoNode, ClassKnown
<1> QED BY <1>1, <1>2, <1>3, <1>4 DEF Swapped

LEMMA WithinTwice ==
  ASSUME NEW l, NEW s, NEW m, NEW r, Within(l, s, m), Within(m, s, r)
  PROVE  Within(l, s, r)
  BY DEF Within

LEMMA QueuesAfterDone ==
  ASSUME TInv, QInv, NEW s \in enabled, CrawlDone(s)
  PROVE  QInv'
<1>1. PICK C, m : C = Class \ twice /\ m = crawler_crawl_q(q, s)
  OBVIOUS
<1>2. /\ q' = unlink_q(m, s) /\ enabled' = enabled \ {s} /\ linked' = linked
      /\ unseen' = [unseen EXCEPT ![s] = {}] /\ twice' = twice
  BY <1>1 DEF CrawlDone
<1>3. /\ linked \in SUBSET Item /\ enabled \in SUBSET Class /\ C \in SUBSET Class /\ q \in Pointers /\ Local(q)
      /\ s \in Class /\ s \in Node /\ ClassOfNode(s) = s /\ unseen \in [Class -> SUBSET Item]
  BY <1>1, QueuesKnown, NullIsNoNode, ClassKnown
<1>4. PICK pos \in [Node -> Int] : Queues(q, linked, enabled, C, pos) /\ Ahead(linked, enabled, unseen, C, pos)
  BY <1>1, QueuesKnown
<1>5. m \in Pointers /\ Local(m) /\ Within(q, s, m)
  BY <1>1, <1>3, CrawlStays
<1>6. PICK r : r = unlink_q(m, s)
  OBVIOUS
<1>7. r \in Pointers /\ Drops(m, s, s, r)
  BY <1>3, <1>5, <1>6, UnlinkKnown
<1>8. Local(r) /\ Within(m, s, r)
  BY <1>3, <1>5, <1>7, DropStays
<1>9. SUFFICES \E pos2 \in [Node -> Int] : /\ Queues(r, linked, enabled \ {s}, C, pos2)
                                           /\ Ahead(linked, enabled \ {s}, unseen', C, pos2)
  <2>1. Ordered(q', linked', enabled', unseen', C)
    BY <1>2, <1>6, <1>9 DEF Ordered
  <2> QED BY <1>1, <1>2, <1>6, <1>7, <1>8, <2>1 DEF QInv
<1>10. Ahead(linked, enabled \ {s}, unseen', C, pos)
  BY <1>2, <1>3, <1>4 DEF Ahead
<1>11. CASE s \notin C
  <2>1. Within(q, s, r)
    BY <1>5, <1>8, WithinTwice
  <2>2. enabled \ {s} \in SUBSET Class
    BY <1>3
  <2>3. \A a \in Node : ClassOfNode(a) # s => (a \in linked \cup (enabled \ {s}) <=> a \in linked \cup enabled)
    BY <1>3
  <2>4. \A a \in Node : ClassOfNode(a) # s => pos[a] = pos[a]
    OBVIOUS
  <2>5. Queues(r, linked, enabled \ {s}, C, pos)
    BY <1>3, <1>4, <1>11, <2>1, <2>2, <2>3, <2>4, QueuesElse
  <2> QED BY <1>10, <2>5
<1>12. CASE s \in C /\ q.prev[s] = NULL
  <2>1. s \in enabled \cap C /\ r = unlink_q(crawler_crawl_q(q, s), s)
    BY <1>1, <1>6, <1>12
  <2>2. Queues(r, linked, enabled \ {s}, C, pos)
    BY <1>3, <1>4, <1>12, <2>1, QueuesPop
  <2> QED BY <1>10, <2>2
<1>13. CASE s \in C /\ q.prev[s] # NULL
  <2>1. PICK p : p = q.prev[s]
    OBVIOUS
  <2>2. s \in enabled \cap C /\ p # NULL
    BY <1>13, <2>1
  <2>3. /\ p \in linked /\ ClassOf[p] = s
        /\ \E pos2 \in [Node -> Int] :
             /\ Queues(m, linked, enabled, C, pos2)
             /\ \A u \in enabled \cap C : \A n \in unseen[u] :
                  n # p => n \in linked /\ ClassOf[n] = u /\ pos2[n] < pos2[u]
    BY <1>1, <1>3, <1>4, <2>1, <2>2, QueuesAfterSwap
  <2>4. PICK pos2 \in [Node -> Int] :
          /\ Queues(m, linked, enabled, C, pos2)
          /\ \A u \in enabled \cap C : \A n \in unseen[u] :
               n # p => n \in linked /\ ClassOf[n] = u /\ pos2[n] < pos2[u]
    BY <2>3
  <2>5. Queues(r, linked \ {s}, enabled \ {s}, C, pos2)
    BY <1>3, <1>7, <1>8, <2>4, QueuesDrop
  <2>6. linked \ {s} = linked
    BY <1>3, ClassKnown
  <2>7. Ahead(linked, enabled \ {s}, unseen', C, pos2)
    <3> SUFFICES ASSUME NEW u \in (enabled \ {s}) \cap C, NEW n \in unseen'[u]
                 PROVE  n \in linked /\ ClassOf[n] = u /\ pos2[n] < pos2[u]
      BY DEF Ahead
    <3>1. n \in unseen[u] /\ u \in enabled \cap C
      BY <1>2, <1>3
    <3>2. n # p
      BY <1>4, <2>3, <3>1 DEF Ahead
    <3> QED BY <2>4, <3>1, <3>2
  <2> QED BY <2>5, <2>6, <2>7
<1> QED BY <1>11, <1>12, <1>13

LEMMA QueuesAfterItem ==
  ASSUME TInv, QInv, NEW s \in enabled, CrawlItem(s)
  PROVE  QInv'
<1>1. PICK C, p, m : C = Class \ twice /\ p = q.prev[s] /\ m = crawler_crawl_q(q, s)
  OBVIOUS
<1>2. /\ p # NULL /\ enabled' = enabled /\ unseen' = [unseen EXCEPT ![s] = @ \ {p}] /\ twice' = twice
      /\ \/ p \in linked /\ q' = unlink_q(m, p) /\ linked' = linked \ {p}
         \/ q' = m /\ linked' = linked
  BY <1>1 DEF CrawlItem, Done, Search
<1>3. /\ linked \in SUBSET Item /\ enabled \in SUBSET Class /\ C \in SUBSET Class /\ q \in Pointers /\ Local(q)
      /\ s \in Class /\ s \in Node /\ ClassOfNode(s) = s /\ unseen \in [Class -> SUBSET Item]
  BY <1>1, QueuesKnown, NullIsNoNode, ClassKnown
<1>4. PICK pos \in [Node -> Int] : Queues(q, linked, enabled, C, pos) /\ Ahead(linked, enabled, unseen, C, pos)
  BY <1>1, QueuesKnown
<1>5. m \in Pointers /\ Local(m) /\ Within(q, s, m)
  BY <1>1, <1>3, CrawlStays
<1>6. p \in Node /\ ClassOfNode(p) = s
  BY <1>1, <1>2, <1>3, LocalKnown
\* What the step does to the items, whether or not it frees one: K is what it leaves.
<1>7. PICK r, K : /\ r = q' /\ K = linked' /\ K \in SUBSET Item
                  /\ \/ p \in linked /\ r = unlink_q(m, p) /\ K = linked \ {p}
                     \/ r = m /\ K = linked
  BY <1>2, <1>3
<1>8. /\ r \in Pointers /\ Local(r) /\ Within(q, s, r)
      /\ r # m \/ K # linked => Drops(m, p, s, r) /\ Within(m, s, r)
  <2>1. CASE r = m /\ K = linked
    BY <1>5, <2>1
  <2>2. CASE p \in linked /\ r = unlink_q(m, p) /\ K = linked \ {p}
    <3>1. r \in Pointers /\ Drops(m, p, s, r)
      BY <1>5, <1>6, <2>2, UnlinkKnown
    <3>2. Local(r) /\ Within(m, s, r)
      BY <1>3, <1>5, <1>6, <3>1, DropStays
    <3> QED BY <1>5, <3>1, <3>2, WithinTwice
  <2> QED BY <1>7, <2>1, <2>2
<1>9. SUFFICES \E pos2 \in [Node -> Int] : /\ Queues(r, K, enabled, C, pos2)
                                           /\ Ahead(K, enabled, unseen', C, pos2)
  <2>1. Ordered(q', linked', enabled', unseen', C)
    BY <1>2, <1>7, <1>9 DEF Ordered
  <2> QED BY <1>1, <1>2, <1>7, <1>8, <2>1 DEF QInv
<1>10. CASE s \notin C
  <2>1. \A a \in Node : ClassOfNode(a) # s => (a \in K \cup enabled <=> a \in linked \cup enabled)
    BY <1>6, <1>7
  <2>2. \A a \in Node : ClassOfNode(a) # s => pos[a] = pos[a]
    OBVIOUS
  <2>3. Queues(r, K, enabled, C, pos)
    BY <1>3, <1>4, <1>7, <1>8, <1>10, <2>1, <2>2, QueuesElse
  <2>4. Ahead(K, enabled, unseen', C, pos)
    <3> SUFFICES ASSUME NEW u \in enabled \cap C, NEW n \in unseen'[u]
                 PROVE  n \in K /\ ClassOf[n] = u /\ pos[n] < pos[u]
      BY DEF Ahead
    <3>1. n \in unseen[u] /\ u # s
      BY <1>2, <1>3, <1>10
    <3>2. n \in linked /\ ClassOf[n] = u /\ pos[n] < pos[u]
      BY <1>4, <3>1 DEF Ahead
    <3>3. n # p
      BY <1>3, <1>6, <3>1, <3>2, ClassKnown
    <3> QED BY <1>7, <3>2, <3>3
  <2> QED BY <2>3, <2>4
<1>11. CASE s \in C
  <2>1. s \in enabled \cap C
    BY <1>11
  <2>2. /\ p \in linked /\ ClassOf[p] = s
        /\ \E pos2 \in [Node -> Int] :
             /\ Queues(m, linked, enabled, C, pos2)
             /\ \A u \in enabled \cap C : \A n \in unseen[u] :
                  n # p => n \in linked /\ ClassOf[n] = u /\ pos2[n] < pos2[u]
    BY <1>1, <1>2, <1>3, <1>4, <2>1, QueuesAfterSwap
  <2>3. PICK pos2 \in [Node -> Int] :
          /\ Queues(m, linked, enabled, C, pos2)
          /\ \A u \in enabled \cap C : \A n \in unseen[u] :
               n # p => n \in linked /\ ClassOf[n] = u /\ pos2[n] < pos2[u]
    BY <2>2
  <2>4. ASSUME NEW u \in enabled \cap C, NEW n \in unseen'[u]
        PROVE  n # p /\ n \in linked /\ ClassOf[n] = u /\ pos2[n] < pos2[u]
    <3>1. n \in unseen[u]
      BY <1>2, <1>3
    <3>2. n # p
      <4>1. CASE u = s
        BY <1>2, <1>3, <2>4, <4>1
      <4>2. CASE u # s
        BY <1>4, <2>2, <3>1, <4>2 DEF Ahead
      <4> QED BY <4>1, <4>2
    <3> QED BY <2>3, <3>1, <3>2
  <2>5. Ahead(K, enabled, unseen', C, pos2)
    BY <1>7, <2>4 DEF Ahead
  <2>6. Queues(r, K, enabled, C, pos2)
    <3>1. CASE r = m /\ K = linked
      BY <2>3, <3>1
    <3>2. CASE r # m \/ K # linked
      <4>1. Queues(r, linked \ {p}, enabled \ {p}, C, pos2)
        BY <1>3, <1>6, <1>8, <2>2, <2>3, <3>2, QueuesDrop
      <4>2. enabled \ {p} = enabled /\ K = linked \ {p}
        BY <1>3, <1>7, <2>2, <3>2, ClassKnown
      <4> QED BY <4>1, <4>2
    <3> QED BY <3>1, <3>2
  <2> QED BY <2>5, <2>6
<1> QED BY <1>10, <1>11

LEMMA CountOfInit == Init => CInv
  BY FS_EmptySet DEF Init, CInv

LEMMA QueuesKept == TInv /\ QInv /\ CInv /\ [Next]_vars => QInv' /\ CInv'
<1> SUFFICES ASSUME TInv, QInv, CInv, [Next]_vars PROVE QInv' /\ CInv'
  OBVIOUS
<1>1. ASSUME UNCHANGED <<q, linked, enabled, unseen, crawler_count, twice>> PROVE QInv' /\ CInv'
  BY <1>1 DEF QInv, CInv
<1>2. CASE UNCHANGED vars
  BY <1>1, <1>2 DEF vars, queues, crawl
<1>3. ASSUME NEW n \in Item, do_item_link(n) \/ do_item_unlink(n) \/ do_item_update(n) PROVE QInv' /\ CInv'
  <2>1. QInv'
    BY <1>3, QueuesAfterLink, QueuesAfterUnlink, QueuesAfterUpdate
  <2>2. UNCHANGED <<enabled, crawler_count, twice>>
    BY <1>3 DEF do_item_link, do_item_unlink, do_item_update, crawl
  <2> QED BY <2>1, <2>2 DEF CInv
<1>4. CASE SetToCrawl
  BY <1>1, <1>4 DEF SetToCrawl, queues, crawl
<1>5. ASSUME NEW w \in Worker, Command(w) PROVE QInv' /\ CInv'
  <2>1. CASE lru_crawler_crawl(w)
    BY <2>1, QueuesAfterCrawl
  <2>2. CASE CrawlParsed(w) \/ CrawlRefused(w) \/ EnableParsed(w) \/ start_item_crawler_thread(w)
             \/ DisableParsed(w) \/ stop_item_crawler_thread(w) \/ StopJoins(w)
    BY <1>1, <2>2 DEF CrawlParsed, CrawlRefused, EnableParsed, start_item_crawler_thread, DisableParsed,
                      stop_item_crawler_thread, StopJoins, queues, crawl
  <2> QED BY <1>5, <2>1, <2>2 DEF Command
<1>6. ASSUME NEW t \in Thread, CrawlerThread(t) PROVE QInv' /\ CInv'
  <2>1. CASE ThreadStarts(t) \/ ThreadWakes(t) \/ CrawlRound(t) \/ CrawlSkips(t)
    BY <1>1, <2>1 DEF ThreadStarts, ThreadWakes, CrawlRound, CrawlSkips, queues, crawl
  <2>2. CASE CrawlStep(t)
    <3>1. PICK s \in enabled : CrawlDone(s) \/ CrawlItem(s)
      BY <2>2 DEF CrawlStep
    <3>2. CASE CrawlDone(s)
      <4>1. enabled' = enabled \ {s} /\ crawler_count' = crawler_count - 1 /\ twice' = twice
        BY <3>2 DEF CrawlDone
      <4>2. IsFiniteSet(enabled)
        <5>1. IsFiniteSet(Class) /\ enabled \subseteq Class
          BY ClassAssumption, FS_Interval DEF Class, TInv
        <5> QED BY <5>1, FS_Subset
      <4>3. Cardinality(enabled') = Cardinality(enabled) - 1 /\ Cardinality(enabled) \in Nat
        BY <4>1, <4>2, FS_RemoveElement, FS_CardinalityType
      <4>4. CInv'
        BY <4>1, <4>3 DEF CInv
      <4> QED BY <3>2, <4>4, QueuesAfterDone
    <3>3. CASE CrawlItem(s)
      <4>1. UNCHANGED <<enabled, crawler_count, twice>>
        BY <3>3 DEF CrawlItem
      <4> QED BY <3>3, <4>1, QueuesAfterItem DEF CInv
    <3> QED BY <3>1, <3>2, <3>3
  <2> QED BY <1>6, <2>1, <2>2 DEF CrawlerThread
<1> QED BY <1>2, <1>3, <1>4, <1>5, <1>6 DEF Next

LEMMA InvariantHolds == Spec => [](TInv /\ BInv /\ QInv /\ CInv)
  BY TypesOfInit, FlagsOfInit, QueuesOfInit, CountOfInit, TypesKept, FlagsKept, QueuesKept, PTL DEF Spec

\* The types, and above all that nothing follows a wild pointer: every head, tail, next and
\* prev is an entry or NULL, whatever the crawlers and workers do, and also once a crawler has
\* been linked twice.
THEOREM TypeCorrect == Spec => []TypeOK
<1>1. ASSUME TInv, BInv, QInv, CInv PROVE TypeOK
  <2>1. crawler_count \in Int
    BY <1>1 DEF CInv
  <2>2. lru_crawler \in BOOLEAN /\ do_run \in BOOLEAN
    BY <1>1, Zenon DEF BInv
  <2>3. q \in [heads : [Class -> NodeOrNull], tails : [Class -> NodeOrNull],
               next : [Node -> NodeOrNull], prev : [Node -> NodeOrNull]]
    BY <1>1 DEF QInv, Pointers
  <2> QED BY <1>1, <2>1, <2>2, <2>3, Zenon DEF TInv, TypeOK
<1>2. TInv /\ BInv /\ QInv /\ CInv => TypeOK
  BY <1>1
<1> QED BY <1>2, InvariantHolds, PTL

-----------------------------------------------------------------------------
(* Walks.  The induction over the entries of a queue is the principle of the least *)
(* number: there is no first entry at which the walk goes wrong.                   *)

Below == OpToRel(<, Nat)

LEMMA LeastNumber ==
  ASSUME NEW T, T \subseteq Nat, T # {}
  PROVE  \E x \in T : \A y \in T : x <= y
<1>1. IsWellFoundedOn(Below, Nat)
  BY NatLessThanWellFounded, Zenon DEF Below
<1>2. \A x, y \in Nat : y < x => <<y, x>> \in Below
  BY DEF Below, OpToRel
<1>3. PICK x \in T : \A y \in T : ~(<<y, x>> \in Below)
  BY <1>1, WFMin
<1>4. x \in Nat /\ \A y \in T : y \in Nat
  OBVIOUS
<1>5. \A y \in T : ~(y < x)
  BY <1>2, <1>3, <1>4
<1> QED BY <1>4, <1>5

\* The number of entries in front of a node.
Front(M, pos, a) == {b \in M : pos[b] < pos[a]}
Rank(M, pos, a) == Cardinality(Front(M, pos, a))

LEMMA NodesAreFinite == IsFiniteSet(Node) /\ Cardinality(Node) \in Nat
<1>1. IsFiniteSet(Class)
  BY ClassAssumption, FS_Interval DEF Class
<1>2. IsFiniteSet(Node)
  BY <1>1, NodeAssumption, FS_Union DEF Node
<1> QED BY <1>2, FS_CardinalityType

LEMMA SizesKnown ==
  ASSUME NEW M, M \in SUBSET Node
  PROVE  IsFiniteSet(M) /\ Cardinality(M) \in Nat /\ Cardinality(M) <= Cardinality(Node)
  BY NodesAreFinite, FS_Subset, FS_CardinalityType

LEMMA RankGrows ==
  ASSUME NEW M \in SUBSET Node, NEW pos \in [Node -> Int], NEW a \in M, NEW b \in M, pos[a] < pos[b]
  PROVE  Rank(M, pos, a) < Rank(M, pos, b)
<1>1. PICK A, B : A = Front(M, pos, a) /\ B = Front(M, pos, b)
  OBVIOUS
<1>2. pos[a] \in Int /\ pos[b] \in Int /\ \A c \in M : pos[c] \in Int
  OBVIOUS
<1>3. A \in SUBSET B /\ a \in B /\ a \notin A /\ B \in SUBSET Node
  BY <1>1, <1>2 DEF Front
<1>4. IsFiniteSet(B) /\ Cardinality(B) \in Nat /\ Cardinality(A) \in Nat
  BY <1>3, SizesKnown
<1>5. Cardinality(A) <= Cardinality(B) /\ (Cardinality(B) = Cardinality(A) => B = A)
  BY <1>3, <1>4, FS_Subset
<1>6. Cardinality(A) < Cardinality(B)
  BY <1>3, <1>4, <1>5
<1> QED BY <1>1, <1>6 DEF Rank

LEMMA RankIsUnique ==
  ASSUME NEW M \in SUBSET Node, NEW pos \in [Node -> Int], \A a, b \in M : pos[a] = pos[b] => a = b,
         NEW a \in M, NEW b \in M, Rank(M, pos, a) = Rank(M, pos, b)
  PROVE  a = b
<1>1. pos[a] \in Int /\ pos[b] \in Int
  OBVIOUS
<1>2. Rank(M, pos, a) \in Nat
  <2>1. Front(M, pos, a) \in SUBSET Node
    BY DEF Front
  <2> QED BY <2>1, SizesKnown DEF Rank
<1>3. ~(pos[a] < pos[b])
  <2>1. SUFFICES ASSUME pos[a] < pos[b] PROVE FALSE
    OBVIOUS
  <2>2. Rank(M, pos, a) < Rank(M, pos, b)
    BY <2>1, RankGrows
  <2> QED BY <1>2, <2>2
<1>4. ~(pos[b] < pos[a])
  <2>1. SUFFICES ASSUME pos[b] < pos[a] PROVE FALSE
    OBVIOUS
  <2>2. Rank(M, pos, b) < Rank(M, pos, a)
    BY <2>1, RankGrows
  <2> QED BY <1>2, <2>2
<1> QED BY <1>1, <1>3, <1>4

\* The head has nothing in front, the tail all others, and a successor one more.
LEMMA RanksOfList ==
  ASSUME NEW h, NEW t, NEW next, NEW prev, NEW M \in SUBSET Node, NEW pos \in [Node -> Int], M # {},
         List(h, t, next, prev, M, pos)
  PROVE  /\ Rank(M, pos, h) = 0 /\ Rank(M, pos, t) = Cardinality(M) - 1
         /\ \A a \in M : a # t => Rank(M, pos, next[a]) = Rank(M, pos, a) + 1
         /\ \A a \in M : Rank(M, pos, a) \in 0..(Cardinality(M) - 1)
<1>1. /\ h \in M /\ t \in M /\ \A a \in M : pos[a] \in Int /\ pos[h] <= pos[a] /\ pos[a] <= pos[t]
      /\ \A a, b \in M : pos[a] = pos[b] => a = b
  BY DEF List
<1>2. Rank(M, pos, h) = 0
  <2>1. Front(M, pos, h) = {}
    BY <1>1 DEF Front
  <2> QED BY <2>1, FS_EmptySet DEF Rank
<1>3. IsFiniteSet(M) /\ Cardinality(M) \in Nat
  BY SizesKnown
<1>4. Rank(M, pos, t) = Cardinality(M) - 1
  <2>1. Front(M, pos, t) = M \ {t}
    <3>1. \A b \in M : pos[b] < pos[t] <=> b # t
      BY <1>1
    <3> QED BY <3>1 DEF Front
  <2>2. Cardinality(M \ {t}) = Cardinality(M) - 1
    BY <1>1, <1>3, FS_RemoveElement
  <2> QED BY <2>1, <2>2 DEF Rank
<1>5. ASSUME NEW a \in M, a # t PROVE Rank(M, pos, next[a]) = Rank(M, pos, a) + 1
  <2>1. PICK c \in M : c = next[a]
    BY <1>5 DEF List
  <2>2. pos[a] < pos[c] /\ \A b \in M : pos[b] <= pos[a] \/ pos[c] <= pos[b]
    BY <1>5, <2>1 DEF List
  <2>3. \A b \in M : pos[b] < pos[c] <=> pos[b] < pos[a] \/ b = a
    BY <1>1, <2>2
  <2>4. Front(M, pos, c) = Front(M, pos, a) \cup {a} /\ a \notin Front(M, pos, a)
    BY <1>1, <2>3 DEF Front
  <2>5. IsFiniteSet(Front(M, pos, a))
    <3>1. Front(M, pos, a) \in SUBSET Node
      BY DEF Front
    <3> QED BY <3>1, SizesKnown
  <2>6. Cardinality(Front(M, pos, a) \cup {a}) = Cardinality(Front(M, pos, a)) + 1
    BY <2>4, <2>5, FS_AddElement
  <2> QED BY <2>1, <2>4, <2>6 DEF Rank
<1>6. ASSUME NEW a \in M PROVE Rank(M, pos, a) \in 0..(Cardinality(M) - 1)
  <2>1. Rank(M, pos, a) \in Nat
    <3>1. Front(M, pos, a) \in SUBSET Node
      BY DEF Front
    <3> QED BY <3>1, SizesKnown DEF Rank
  <2>2. CASE a = t
    BY <1>3, <1>4, <2>1, <2>2
  <2>3. CASE a # t
    <3>1. pos[a] < pos[t]
      BY <1>1, <2>3
    <3>2. Rank(M, pos, a) < Rank(M, pos, t)
      BY <1>1, <3>1, RankGrows
    <3> QED BY <1>3, <1>4, <2>1, <3>2
  <2> QED BY <2>2, <2>3
<1> QED BY <1>2, <1>4, <1>5, <1>6

WalksFrom(w, h, next, N) ==
  w = [n \in 0..N |-> IF n = 0 THEN h ELSE IF w[n - 1] = NULL THEN NULL ELSE next[w[n - 1]]]
InOrder(w, M, pos, len) ==
  (\A n \in 0..(len - 1) : w[n] \in M /\ Rank(M, pos, w[n]) = n) /\ w[len] = NULL

\* The function Walk describes exists.
LEMMA WalkExists ==
  ASSUME NEW h \in NodeOrNull, NEW next \in [Node -> NodeOrNull], NEW N \in Nat
  PROVE  \E w : WalksFrom(w, h, next, N)
<1> DEFINE After(x) == IF x = NULL THEN NULL ELSE next[x]
           Walks(w, k) == w \in [0..k -> NodeOrNull] /\ w[0] = h /\ \A n \in 1..k : w[n] = After(w[n - 1])
           T == {k \in Nat : ~\E w : Walks(w, k)}
<1>1. T = {}
  <2>1. SUFFICES ASSUME T # {} PROVE FALSE
    OBVIOUS
  <2>2. PICK k \in T : \A j \in T : k <= j
    BY <2>1, LeastNumber
  <2>3. k \in Nat /\ ~\E w : Walks(w, k)
    OBVIOUS
  <2>4. k # 0
    <3>1. Walks([n \in 0..0 |-> h], 0)
      OBVIOUS
    <3> QED BY <2>3, <3>1
  <2>5. k - 1 \in Nat /\ k - 1 \notin T
    <3> HIDE DEF T
    <3> QED BY <2>2, <2>3, <2>4
  <2>6. PICK w : Walks(w, k - 1)
    BY <2>5
  <2>7. PICK v : v = [n \in 0..k |-> IF n = k THEN After(w[k - 1]) ELSE w[n]]
    OBVIOUS
  <2>8. w \in [0..(k - 1) -> NodeOrNull] /\ w[0] = h /\ \A n \in 1..(k - 1) : w[n] = After(w[n - 1])
    BY <2>6
  <2>9. After(w[k - 1]) \in NodeOrNull
    BY <2>5, <2>8 DEF NodeOrNull
  <2> HIDE DEF After
  <2>10. v \in [0..k -> NodeOrNull]
    BY <2>3, <2>4, <2>7, <2>8, <2>9
  <2>11. v[k] = After(w[k - 1]) /\ \A n \in 0..(k - 1) : v[n] = w[n]
    BY <2>3, <2>4, <2>7
  <2>12. v[0] = h
    BY <2>3, <2>4, <2>8, <2>11
  <2>13. ASSUME NEW n \in 1..k PROVE v[n] = After(v[n - 1])
    <3>1. n - 1 \in 0..(k - 1) /\ v[n - 1] = w[n - 1]
      BY <2>3, <2>11
    <3>2. CASE n = k
      BY <2>11, <3>1, <3>2
    <3>3. CASE n # k
      BY <2>3, <2>8, <2>11, <3>1, <3>3
    <3> QED BY <3>2, <3>3
  <2>14. Walks(v, k)
    BY <2>10, <2>12, <2>13
  <2> QED BY <2>3, <2>14
<1>2. PICK w : Walks(w, N)
  BY <1>1
<1>3. w = [n \in 0..N |-> w[n]]
  BY <1>2
<1>4. ASSUME NEW n \in 0..N
      PROVE  w[n] = IF n = 0 THEN h ELSE IF w[n - 1] = NULL THEN NULL ELSE next[w[n - 1]]
  BY <1>2
<1>5. w = [n \in 0..N |-> IF n = 0 THEN h ELSE IF w[n - 1] = NULL THEN NULL ELSE next[w[n - 1]]]
  BY <1>3, <1>4
<1> QED BY <1>5 DEF WalksFrom

LEMMA WalkKnown ==
  ASSUME QInv, NEW s \in Class, NEW w, w = Walk(s), NEW N, N = Cardinality(Node)
  PROVE  N \in Nat /\ DOMAIN w = 0..N /\ WalksFrom(w, q.heads[s], q.next, N)
<1>1. q.heads[s] \in NodeOrNull /\ q.next \in [Node -> NodeOrNull] /\ N \in Nat
  BY PointersKnown, NodesAreFinite DEF QInv
<1>2. \E f : WalksFrom(f, q.heads[s], q.next, N)
  BY <1>1, WalkExists
<1>3. w = CHOOSE f : WalksFrom(f, q.heads[s], q.next, N)
  BY Zenon DEF Walk, WalksFrom
<1>4. WalksFrom(w, q.heads[s], q.next, N)
  BY <1>2, <1>3, Zenon
<1>5. DOMAIN w = 0..N
  BY <1>4, Zenon DEF WalksFrom
<1> QED BY <1>1, <1>4, <1>5

\* The walk meets the entries in order, and stops after the last.
LEMMA WalkInOrder ==
  ASSUME NEW h, NEW t, NEW next, NEW prev, NEW M \in SUBSET Node, NEW pos \in [Node -> Int],
         List(h, t, next, prev, M, pos), NEW len, len = Cardinality(M), NEW N \in Nat, len <= N,
         NEW w, WalksFrom(w, h, next, N)
  PROVE  InOrder(w, M, pos, len)
<1>1. w[0] = h /\ \A n \in 1..N : w[n - 1] # NULL => w[n] = next[w[n - 1]]
  <2>1. \A n \in 0..N : w[n] = IF n = 0 THEN h ELSE IF w[n - 1] = NULL THEN NULL ELSE next[w[n - 1]]
    BY Zenon DEF WalksFrom
  <2>2. 0 \in 0..N /\ \A n \in 1..N : n \in 0..N /\ n # 0
    OBVIOUS
  <2> QED BY <2>1, <2>2
<1>2. len \in Nat /\ (M = {} <=> len = 0) /\ NULL \notin M
  BY SizesKnown, FS_EmptySet, NullIsNoNode
<1>3. CASE M = {}
  BY <1>2, <1>3, <1>1 DEF List, InOrder
<1>4. CASE M # {}
  <2>1. /\ h \in M /\ t \in M /\ next[t] = NULL /\ \A a \in M : a # t => next[a] \in M
        /\ \A a, b \in M : pos[a] = pos[b] => a = b
    BY <1>4 DEF List
  <2>2. /\ Rank(M, pos, h) = 0 /\ Rank(M, pos, t) = len - 1
        /\ \A a \in M : a # t => Rank(M, pos, next[a]) = Rank(M, pos, a) + 1
    BY <1>4, RanksOfList
  <2> DEFINE Right(n) == w[n] \in M /\ Rank(M, pos, w[n]) = n
             T == {n \in 0..(len - 1) : ~Right(n)}
  <2>3. T = {}
    <3>1. SUFFICES ASSUME T # {} PROVE FALSE
      OBVIOUS
    <3>2. PICK k \in T : \A j \in T : k <= j
      <4>1. T \subseteq Nat
        BY <1>2
      <4> QED BY <3>1, <4>1, LeastNumber
    <3>3. k \in 0..(len - 1) /\ ~Right(k)
      OBVIOUS
    <3>4. k # 0
      BY <1>1, <2>1, <2>2, <3>3
    <3>5. k - 1 \in 0..(len - 1) /\ k - 1 \notin T
      BY <1>2, <3>2, <3>3, <3>4
    <3>6. w[k - 1] \in M /\ Rank(M, pos, w[k - 1]) = k - 1
      BY <3>5
    <3>7. w[k - 1] # t
      BY <1>2, <2>2, <3>3, <3>6
    <3>8. w[k] = next[w[k - 1]]
      <4>1. k \in 1..N
        BY <1>2, <3>3, <3>4
      <4>2. w[k - 1] # NULL
        BY <1>2, <3>6
      <4> QED BY <1>1, <4>1, <4>2
    <3>9. w[k] \in M /\ Rank(M, pos, w[k]) = (k - 1) + 1
      BY <2>1, <2>2, <3>6, <3>7, <3>8
    <3> QED BY <3>3, <3>9
  <2>4. \A n \in 0..(len - 1) : w[n] \in M /\ Rank(M, pos, w[n]) = n
    BY <2>3
  <2>5. len - 1 \in 0..(len - 1) /\ len \in 1..N
    BY <1>2, <1>4
  <2>6. w[len - 1] = t
    BY <2>1, <2>2, <2>4, <2>5, RankIsUnique
  <2>7. w[len] = NULL
    BY <1>2, <1>1, <2>1, <2>5, <2>6
  <2> QED BY <2>4, <2>7 DEF InOrder
<1> QED BY <1>3, <1>4

\* What the walk along a queue meets, for the properties.
LEMMA WalksAreRight ==
  ASSUME TInv, QInv, NEW s \in Class \ twice, NEW w, w = Walk(s), NEW M, M = Members(s),
         NEW len, len = Cardinality(M), NEW pos \in [Node -> Int],
         Queues(q, linked, enabled, Class \ twice, pos)
  PROVE  /\ len \in Nat /\ (len = 0 <=> M = {}) /\ M \in SUBSET Node
         /\ \A n \in 0..(len - 1) : w[n] \in M
         /\ w[len] = NULL
         /\ \A a \in M : /\ Rank(M, pos, a) \in 0..(len - 1) /\ w[Rank(M, pos, a)] = a
                         /\ Rank(M, pos, a) \in DOMAIN w
         /\ \A n \in 1..(len - 1) : q.prev[w[n]] = w[n - 1]
         /\ len = 0 => q.tails[s] = NULL
         /\ len # 0 => q.prev[w[0]] = NULL /\ q.tails[s] = w[len - 1]
<1>1. PICK h, t, next, prev : h = q.heads[s] /\ t = q.tails[s] /\ next = q.next /\ prev = q.prev
  OBVIOUS
<1>2. M = Entries(linked, enabled, s) /\ M \in SUBSET Node
  <2>1. linked \in SUBSET Item /\ enabled \in SUBSET Class
    BY DEF TInv
  <2> QED BY <2>1, NullIsNoNode DEF Members, Entries
<1>3. List(h, t, next, prev, M, pos)
  BY <1>1, <1>2 DEF Queues, Queue
<1>4. PICK N : N = Cardinality(Node)
  OBVIOUS
<1>5. N \in Nat /\ DOMAIN w = 0..N /\ WalksFrom(w, h, next, N)
  BY <1>1, <1>4, WalkKnown
<1>6. /\ N \in Nat /\ DOMAIN w = 0..N /\ w[0] = h
      /\ \A n \in 1..N : w[n - 1] # NULL => w[n] = next[w[n - 1]]
  <2>1. \A n \in 0..N : w[n] = IF n = 0 THEN h ELSE IF w[n - 1] = NULL THEN NULL ELSE next[w[n - 1]]
    BY <1>5, Zenon DEF WalksFrom
  <2>2. 0 \in 0..N /\ \A n \in 1..N : n \in 0..N /\ n # 0
    BY <1>5
  <2> QED BY <1>5, <2>1, <2>2
<1>7. len \in Nat /\ len <= N /\ (M = {} <=> len = 0) /\ NULL \notin M
  BY <1>2, <1>4, SizesKnown, FS_EmptySet, NullIsNoNode
<1>8. (\A n \in 0..(len - 1) : w[n] \in M /\ Rank(M, pos, w[n]) = n) /\ w[len] = NULL
  <2>1. InOrder(w, M, pos, len)
    BY <1>2, <1>3, <1>5, <1>7, WalkInOrder
  <2> QED BY <2>1 DEF InOrder
<1>9. \A a, b \in M : pos[a] = pos[b] => a = b
  BY <1>3 DEF List
<1>10. ASSUME NEW a \in M
      PROVE  Rank(M, pos, a) \in 0..(len - 1) /\ w[Rank(M, pos, a)] = a /\ Rank(M, pos, a) \in DOMAIN w
  <2>1. PICK k \in 0..(len - 1) : k = Rank(M, pos, a)
    BY <1>2, <1>3, RanksOfList
  <2>2. w[k] \in M /\ Rank(M, pos, w[k]) = k
    BY <1>8
  <2>3. w[k] = a
    BY <1>2, <1>9, <2>1, <2>2, RankIsUnique
  <2>4. k \in 0..N
    BY <1>6, <1>7
  <2> QED BY <1>6, <2>1, <2>3, <2>4
<1>11. ASSUME M # {}
       PROVE  h \in M /\ prev[h] = NULL /\ t = w[len - 1] /\ \A n \in 1..(len - 1) : prev[w[n]] = w[n - 1]
  <2>1. h \in M /\ t \in M /\ prev[h] = NULL
    BY <1>3, <1>11 DEF List
  <2>2. Rank(M, pos, t) = len - 1
    BY <1>2, <1>3, <1>11, RanksOfList
  <2>3. t = w[len - 1]
    BY <1>10, <2>1, <2>2
  <2>4. ASSUME NEW n \in 1..(len - 1) PROVE prev[w[n]] = w[n - 1]
    <3>1. n - 1 \in 0..(len - 1) /\ n \in 1..N /\ n - 1 # len - 1
      BY <1>6, <1>7
    <3>2. w[n - 1] \in M /\ Rank(M, pos, w[n - 1]) = n - 1
      BY <1>8, <3>1
    <3>3. w[n - 1] # t /\ w[n - 1] # NULL
      BY <1>7, <2>2, <3>1, <3>2
    <3>4. w[n] = next[w[n - 1]]
      BY <1>6, <3>1, <3>3
    <3> QED BY <1>3, <3>2, <3>3, <3>4 DEF List
  <2> QED BY <2>1, <2>3, <2>4
<1>12. M = {} => t = NULL
  BY <1>3 DEF List
<1>13. M = {} => 1..(len - 1) = {}
  BY <1>7
<1> QED BY <1>1, <1>2, <1>6, <1>7, <1>8, <1>10, <1>11, <1>12, <1>13

\* However links, bumps and unlinks fall between the steps of the crawlers, and though others
\* may have been linked twice, the queue of a class whose crawler was not is a doubly linked list
\* of its items and its crawler.  crawler_count counts the crawlers exactly as long as none was
\* linked twice, and is too high ever after.
THEOREM QueuesAreIntact == Spec => []QueuesIntact
<1>1. ASSUME TInv, QInv, CInv PROVE QueuesIntact
  <2>1. ASSUME NEW s \in Class \ twice
        PROVE  LET w == Walk(s)  len == Cardinality(Members(s)) IN
               /\ {w[n] : n \in 0..(len - 1)} = Members(s)
               /\ w[len] = NULL
               /\ \A n \in 1..(len - 1) : q.prev[w[n]] = w[n - 1]
               /\ IF len = 0 THEN q.tails[s] = NULL
                  ELSE q.prev[w[0]] = NULL /\ q.tails[s] = w[len - 1]
    <3>1. PICK w, M, len : w = Walk(s) /\ M = Members(s) /\ len = Cardinality(M)
      OBVIOUS
    <3>2. PICK pos \in [Node -> Int] : Queues(q, linked, enabled, Class \ twice, pos)
      BY <1>1, QueuesKnown
    <3>3. /\ len \in Nat
          /\ \A n \in 0..(len - 1) : w[n] \in M
          /\ w[len] = NULL
          /\ \A a \in M : Rank(M, pos, a) \in 0..(len - 1) /\ w[Rank(M, pos, a)] = a
          /\ \A n \in 1..(len - 1) : q.prev[w[n]] = w[n - 1]
          /\ len = 0 => q.tails[s] = NULL
          /\ len # 0 => q.prev[w[0]] = NULL /\ q.tails[s] = w[len - 1]
      BY <1>1, <3>1, <3>2, WalksAreRight
    <3>4. {w[n] : n \in 0..(len - 1)} = M
      BY <3>3
    <3> QED BY <3>1, <3>3, <3>4
  <2>2. /\ crawler_count >= Cardinality(enabled)
        /\ crawler_count = Cardinality(enabled) <=> twice = {}
    BY <1>1 DEF CInv
  <2> QED BY <2>1, <2>2, Zenon DEF QueuesIntact
<1>2. TInv /\ QInv /\ CInv => QueuesIntact
  BY <1>1
<1> QED BY <1>2, InvariantHolds, PTL

\* Bumps move items, crawlers move past others, and yet what a crawl has still to look at is
\* in front of its crawler, if that was not linked twice.
THEOREM NothingIsPassedOver == Spec => []NothingPassedOver
<1>1. ASSUME TInv, QInv PROVE NothingPassedOver
  <2> SUFFICES ASSUME NEW s \in enabled \ twice, NEW n \in unseen[s]
               PROVE  \E a, b \in DOMAIN Walk(s) : a < b /\ Walk(s)[a] = n /\ Walk(s)[b] = s
    BY DEF NothingPassedOver
  <2>1. PICK w, M, len : w = Walk(s) /\ M = Members(s) /\ len = Cardinality(M)
    OBVIOUS
  <2>2. PICK pos \in [Node -> Int] : /\ Queues(q, linked, enabled, Class \ twice, pos)
                                     /\ Ahead(linked, enabled, unseen, Class \ twice, pos)
    BY <1>1, QueuesKnown
  <2>3. s \in Class \ twice
    BY <1>1 DEF TInv
  <2>4. n \in linked /\ ClassOf[n] = s /\ pos[n] < pos[s]
    BY <2>2, <2>3 DEF Ahead
  <2>5. n \in M /\ s \in M
    BY <2>1, <2>4 DEF Members
  <2>6. /\ M \in SUBSET Node
        /\ \A a \in M : w[Rank(M, pos, a)] = a /\ Rank(M, pos, a) \in DOMAIN w
    BY <1>1, <2>1, <2>2, <2>3, WalksAreRight
  <2>7. Rank(M, pos, n) < Rank(M, pos, s)
    BY <2>4, <2>5, <2>6, RankGrows
  <2> QED BY <2>1, <2>5, <2>6, <2>7
<1>2. TInv /\ QInv => NothingPassedOver
  BY <1>1
<1> QED BY <1>2, InvariantHolds, PTL
=============================================================================
