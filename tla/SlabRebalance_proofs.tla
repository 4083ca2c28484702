------------------------ MODULE SlabRebalance_proofs ------------------------
(***************************************************************************)
(* Proofs about SlabRebalance, for any number of workers, pages and classes *)
(* and any size of chunks.                                                 *)
(***************************************************************************)
EXTENDS SlabRebalance, FiniteSetTheorems, SequenceTheorems, TLAPS

-----------------------------------------------------------------------------
(* The inductive invariant *)

\* Types, and a worker has an item exactly while it is at work.
TInv ==
  /\ slab_list \in [Class -> Seq(Page)] /\ list_size \in [Class -> Nat]
  /\ slots \in [Class -> SUBSET Chunk]
  /\ slabs_clsid \in [Chunk -> {0, 255} \cup Class] /\ refcount \in [Chunk -> Nat]
  /\ ITEM_SLABBED \subseteq Chunk /\ ITEM_LINKED \subseteq Chunk
  /\ pc \in [Worker -> {"idle", "init", "own", "found", "hold"}]
  /\ it \in [Worker -> Chunk \cup {NULL}] /\ id \in [Worker -> {0} \cup Class]
  /\ \A w \in Worker : it[w] = NULL <=> pc[w] = "idle"

\* The types of the rebalancer's state.
Move == [s_clsid : {0} \cup Class, d_clsid : {0} \cup Class,
         slab_start : {0} \cup Page, slab_end : Nat, slab_pos : Nat,
         busy_items : BOOLEAN, done : BOOLEAN]
RType ==
  /\ slab_rebalance_signal \in 0..2 /\ slab_rebal \in Move
  /\ slabs_rebalance_lock \in {"free", "rebalancer", "maintenance"}

\* Every page is in one place of one slab_list.
PInv ==
  /\ \A c, d \in Class : c # d => ToSet(slab_list[c]) \cap ToSet(slab_list[d]) = {}
  /\ \A c \in Class : IsInjective(slab_list[c])

\* The stages of a move: none is on or one is asked for, a page is being emptied, and
\* slab_rebalance_finish has cleared slab_start and not slab_end yet.
Waiting == slab_rebal.slab_start = 0 /\ slab_rebal.slab_end = 0 /\ ~slab_rebal.done
Chosen == slab_rebal.s_clsid \in Class /\ slab_rebal.d_clsid \in Class /\ slab_rebal.s_clsid # slab_rebal.d_clsid
Moving ==
  /\ slab_rebalance_signal = 2 /\ slabs_rebalance_lock = "rebalancer" /\ Chosen
  /\ Len(slab_list[slab_rebal.s_clsid]) >= 2
  /\ slab_rebal.slab_start = Head(slab_list[slab_rebal.s_clsid])
  /\ slab_rebal.slab_end = slab_rebal.slab_start + 1
  /\ ~slab_rebal.done => slab_rebal.slab_pos \in 1..perslab[slab_rebal.s_clsid]
Ending ==
  /\ slab_rebalance_signal = 2 /\ slabs_rebalance_lock = "rebalancer"
  /\ slab_rebal.slab_start = 0 /\ slab_rebal.slab_end # 0 /\ ~slab_rebal.done

RInv ==
  \/ slab_rebalance_signal = 0 /\ slabs_rebalance_lock # "rebalancer" /\ Waiting
  \/ slab_rebalance_signal = 1 /\ Chosen /\ Waiting
  \/ Moving
  \/ Ending

\* What a pass has left behind, if it has met no busy chunk, has been taken.
Cleared ==
  slab_rebal.slab_start # 0 =>
    \A n \in 1..perslab[slab_rebal.s_clsid] :
      slab_rebal.done \/ (n < slab_rebal.slab_pos /\ ~slab_rebal.busy_items) => slabs_clsid[Slab(n)] = 255

\* The chunk belongs to the class, and says so.
Housed(i) == slabs_clsid[i] \in Class /\ i \in ChunksIn(slabs_clsid[i])

\* Chunks: free, in use, taken by the move, or of no class.
KInv ==
  /\ \A c \in Class : slots[c] \subseteq ChunksIn(c)
  /\ \A c \in Class : \A i \in slots[c] : refcount[i] = 0 /\ slabs_clsid[i] = 0
  /\ \A c \in Class : \A i \in ChunksIn(c) :
       i \notin slots[c] /\ slabs_clsid[i] # 255 => refcount[i] > 0 /\ slabs_clsid[i] \in {0, c}
  /\ \A i \in Chunk : slabs_clsid[i] = 255 =>
       /\ slab_rebal.slab_start # 0 /\ i \in ChunksOf(slab_rebal.slab_start, slab_rebal.s_clsid)
       /\ refcount[i] = 0
  /\ \A i \in Chunk : (\A c \in Class : i \notin ChunksIn(c)) => slabs_clsid[i] = 0
  /\ \A i \in ITEM_LINKED : Housed(i)

\* Workers: alone with an item that is not linked yet, and alone with the item lock.
WInv ==
  \A w \in Worker :
    /\ pc[w] = "init" => id[w] \in Class /\ it[w] \in ChunksIn(id[w]) /\ slabs_clsid[it[w]] = 0
    /\ pc[w] \in {"own", "hold"} => Housed(it[w])
    /\ pc[w] \in {"init", "own"} => it[w] \notin ITEM_LINKED /\ \A v \in Worker : it[v] = it[w] => v = w
    /\ pc[w] = "found" => /\ it[w] \in ITEM_LINKED
                          /\ \A v \in Worker : pc[v] = "found" /\ it[v] = it[w] => v = w

IInv == TInv /\ RType /\ PInv /\ RInv /\ Cleared /\ KInv /\ WInv /\ CountsReferences

-----------------------------------------------------------------------------
(* Lists of pages *)

LEMMA PagesAppended ==
  ASSUME NEW S, NEW s \in Seq(S), NEW p \in S
  PROVE  /\ Append(s, p) \in Seq(S) /\ Len(s) \in Nat /\ Len(Append(s, p)) = Len(s) + 1
         /\ ToSet(Append(s, p)) = ToSet(s) \cup {p}
         /\ s # <<>> => Head(Append(s, p)) = Head(s)
         /\ IsInjective(s) /\ p \notin ToSet(s) => IsInjective(Append(s, p))
<1>1. /\ Append(s, p) \in Seq(S) /\ Len(s) \in Nat /\ Len(Append(s, p)) = Len(s) + 1
      /\ DOMAIN s = 1..Len(s) /\ DOMAIN Append(s, p) = 1..(Len(s) + 1)
      /\ \A n \in 1..Len(s) : Append(s, p)[n] = s[n]
      /\ Append(s, p)[Len(s) + 1] = p
      /\ s # <<>> => Head(Append(s, p)) = Head(s)
  OBVIOUS
<1>2. \A n : n \in 1..(Len(s) + 1) <=> n \in 1..Len(s) \/ n = Len(s) + 1
  BY <1>1
<1>3. ToSet(Append(s, p)) = ToSet(s) \cup {p}
  BY <1>1, <1>2 DEF ToSet
<1>4. ASSUME IsInjective(s), p \notin ToSet(s) PROVE IsInjective(Append(s, p))
  <2>1. \A n \in 1..Len(s) : s[n] # p
    BY <1>1, <1>4 DEF ToSet
  <2> QED BY <1>1, <1>2, <1>4, <2>1 DEF IsInjective
<1> QED BY <1>1, <1>3, <1>4

\* slab_rebalance_finish: the first page goes, and the last one takes its place.
LEMMA FirstPageTaken ==
  ASSUME NEW S, NEW s \in Seq(S), Len(s) >= 2, IsInjective(s),
         NEW rest, rest = Front([s EXCEPT ![1] = Last(s)])
  PROVE  /\ rest \in Seq(S) /\ Len(rest) = Len(s) - 1 /\ rest # <<>>
         /\ ToSet(rest) = ToSet(s) \ {Head(s)} /\ Head(s) \in ToSet(s) /\ Head(s) \in S
         /\ IsInjective(rest)
<1> DEFINE r == [s EXCEPT ![1] = Last(s)]
           m == Len(s) - 1
<1>1. /\ Len(s) \in Nat /\ m \in Nat /\ m >= 1 /\ Len(s) = m + 1 /\ DOMAIN s = 1..Len(s)
      /\ Head(s) = s[1] /\ Last(s) = s[Len(s)] /\ Last(s) \in S
      /\ \A n \in 1..Len(s) : s[n] \in S
  BY DEF Last
<1>2. /\ r \in Seq(S) /\ Len(r) = Len(s) /\ r[1] = s[Len(s)]
      /\ \A n \in 1..Len(s) : n # 1 => r[n] = s[n]
  BY <1>1
<1>3. rest = SubSeq(r, 1, m)
  BY <1>2 DEF Front
<1> HIDE DEF r, m
<1>4. /\ rest \in Seq(S) /\ Len(rest) = m /\ DOMAIN rest = 1..m
      /\ \A n \in 1..m : rest[n] = r[n]
  <2>1. 1 \in Int /\ m \in Int /\ \A n \in 1..m : n \in 1..Len(r)
    BY <1>1, <1>2
  <2>2. /\ SubSeq(r, 1, m) \in Seq(S) /\ Len(SubSeq(r, 1, m)) = m
        /\ \A n \in 1..m : SubSeq(r, 1, m)[n] = r[n]
    <3>1. Len(SubSeq(r, 1, m)) = IF 1 <= m THEN m - 1 + 1 ELSE 0
      BY <1>2, <2>1, SubSeqProperties
    <3>2. SubSeq(r, 1, m) \in Seq(S) /\ \A n \in 1..(m - 1 + 1) : SubSeq(r, 1, m)[n] = r[1 + n - 1]
      BY <1>2, <2>1, SubSeqProperties
    <3> QED BY <1>1, <3>1, <3>2
  <2>3. rest \in Seq(S) /\ Len(rest) = m /\ \A n \in 1..m : rest[n] = r[n]
    BY <1>3, <2>2
  <2>4. DOMAIN rest = 1..Len(rest)
    BY <2>3
  <2> QED BY <2>3, <2>4
<1>5. ASSUME NEW n \in 1..m PROVE rest[n] = IF n = 1 THEN s[m + 1] ELSE s[n]
  <2>1. n \in 1..(m + 1) /\ m + 1 = Len(s)
    BY <1>1
  <2>2. n \in 1..Len(s) /\ rest[n] = r[n]
    BY <1>4, <2>1
  <2> QED BY <1>2, <2>1, <2>2
<1>6. \A a, b \in 1..(m + 1) : s[a] = s[b] => a = b
  BY <1>1 DEF IsInjective
<1>7. IsInjective(rest)
  <2> SUFFICES ASSUME NEW a \in 1..m, NEW b \in 1..m, rest[a] = rest[b] PROVE a = b
    BY <1>4 DEF IsInjective
  <2>1. a \in 1..(m + 1) /\ b \in 1..(m + 1) /\ m + 1 \in 1..(m + 1) /\ m + 1 # a /\ m + 1 # b
    BY <1>1
  <2>2. /\ rest[a] = IF a = 1 THEN s[m + 1] ELSE s[a]
        /\ rest[b] = IF b = 1 THEN s[m + 1] ELSE s[b]
    BY <1>5
  <2> QED BY <1>6, <2>1, <2>2
<1>8. ToSet(rest) = ToSet(s) \ {Head(s)}
  <2>1. ASSUME NEW n \in 1..m PROVE rest[n] \in ToSet(s) /\ rest[n] # s[1]
    <3>1. rest[n] = IF n = 1 THEN s[m + 1] ELSE s[n]
      BY <1>5
    <3>2. 1 \in 1..(m + 1) /\ m + 1 \in 1..(m + 1) /\ n \in 1..(m + 1) /\ m + 1 # 1
      BY <1>1
    <3> QED BY <1>1, <1>6, <3>1, <3>2 DEF ToSet
  <2>2. ASSUME NEW n \in 1..(m + 1), s[n] # s[1] PROVE s[n] \in ToSet(rest)
    <3>1. CASE n = m + 1
      <4>1. 1 \in 1..m
        BY <1>1
      <4>2. rest[1] = s[n]
        BY <1>5, <3>1, <4>1
      <4> QED BY <1>4, <4>1, <4>2 DEF ToSet
    <3>2. CASE n # m + 1
      <4>1. n \in 1..m /\ n # 1
        BY <1>1, <2>2, <3>2
      <4>2. rest[n] = s[n]
        BY <1>5, <4>1
      <4> QED BY <1>4, <4>1, <4>2 DEF ToSet
    <3> QED BY <3>1, <3>2
  <2>3. \A x : x \in ToSet(rest) <=> \E n \in 1..m : x = rest[n]
    BY <1>4 DEF ToSet
  <2>4. \A x : x \in ToSet(s) <=> \E n \in 1..(m + 1) : x = s[n]
    BY <1>1 DEF ToSet
  <2>5. Head(s) = s[1]
    BY <1>1
  <2>6. ASSUME NEW x \in ToSet(rest) PROVE x \in ToSet(s) \ {Head(s)}
    BY <2>1, <2>3, <2>5
  <2>7. ASSUME NEW x \in ToSet(s) \ {Head(s)} PROVE x \in ToSet(rest)
    <3>1. PICK n \in 1..(m + 1) : x = s[n]
      BY <2>4
    <3>2. s[n] # s[1]
      BY <2>5, <3>1
    <3> QED BY <2>2, <3>1, <3>2
  <2> QED BY <2>6, <2>7
<1>9. Head(s) \in ToSet(s) /\ Head(s) \in S
  BY <1>1 DEF ToSet
<1>10. rest # <<>>
  BY <1>1, <1>4
<1> QED BY <1>1, <1>4, <1>7, <1>8, <1>9, <1>10 DEF m

-----------------------------------------------------------------------------
(* Chunks of pages *)

LEMMA ChunkFacts ==
  ASSUME NEW p, NEW c
  PROVE  \A i : i \in ChunksOf(p, c) <=> i = <<i[1], i[2]>> /\ i[1] = p /\ i[2] \in 1..perslab[c]
  BY DEF ChunksOf

LEMMA ChunksInFacts ==
  ASSUME NEW c, NEW i
  PROVE  i \in ChunksIn(c) <=> i[1] \in ToSet(slab_list[c]) /\ i \in ChunksOf(i[1], c)
<1>1. i \in ChunksIn(c) <=> \E p \in ToSet(slab_list[c]) : i \in ChunksOf(p, c)
  BY DEF ChunksIn
<1>2. \A p : i \in ChunksOf(p, c) => i[1] = p
  BY ChunkFacts
<1> QED BY <1>1, <1>2

LEMMA ChunksKnown ==
  ASSUME NEW p \in Page, NEW c \in Class
  PROVE  ChunksOf(p, c) \subseteq Chunk
  BY DEF Chunk

LEMMA PagesKnown ==
  ASSUME TInv, NEW c \in Class
  PROVE  slab_list[c] \in Seq(Page) /\ ToSet(slab_list[c]) \subseteq Page /\ ChunksIn(c) \subseteq Chunk
<1>1. slab_list[c] \in Seq(Page)
  BY DEF TInv
<1>2. ToSet(slab_list[c]) \subseteq Page
  BY <1>1 DEF ToSet
<1>3. ChunksIn(c) \subseteq Chunk
  BY <1>2, ChunksKnown DEF ChunksIn
<1> QED BY <1>1, <1>2, <1>3

\* A chunk is in the pages of one class at most.
LEMMA OneHome ==
  ASSUME PInv, NEW c \in Class, NEW d \in Class, NEW i, i \in ChunksIn(c), i \in ChunksIn(d)
  PROVE  c = d
<1>1. i[1] \in ToSet(slab_list[c]) /\ i[1] \in ToSet(slab_list[d])
  BY ChunksInFacts
<1> QED BY <1>1 DEF PInv

-----------------------------------------------------------------------------
(* The rebalancer's types *)

LEMMA MoveFields ==
  ASSUME NEW r \in Move
  PROVE  /\ r.s_clsid \in {0} \cup Class /\ r.d_clsid \in {0} \cup Class
         /\ r.slab_start \in {0} \cup Page /\ r.slab_end \in Nat /\ r.slab_pos \in Nat
         /\ r.busy_items \in BOOLEAN /\ r.done \in BOOLEAN
  BY DEF Move

LEMMA MoveChosen ==
  ASSUME NEW r \in Move, NEW s \in Class, NEW d \in Class
  PROVE  [r EXCEPT !.s_clsid = s, !.d_clsid = d] \in Move
  BY DEF Move

LEMMA MoveStarted ==
  ASSUME NEW r \in Move, NEW p \in Page
  PROVE  [r EXCEPT !.slab_start = p, !.slab_end = p + 1, !.slab_pos = 1, !.done = FALSE] \in Move
<1>1. p + 1 \in Nat
  BY PageAssumption
<1> QED BY <1>1 DEF Move

LEMMA MoveGoesOn ==
  ASSUME NEW r \in Move, NEW n \in Nat, NEW b \in BOOLEAN
  PROVE  /\ [r EXCEPT !.slab_pos = n, !.busy_items = b] \in Move
         /\ [r EXCEPT !.slab_pos = n, !.done = TRUE] \in Move
  BY DEF Move

LEMMA MoveEnded ==
  ASSUME NEW r \in Move
  PROVE  /\ [r EXCEPT !.done = FALSE, !.s_clsid = 0, !.d_clsid = 0, !.slab_start = 0] \in Move
         /\ [r EXCEPT !.slab_end = 0, !.slab_pos = 0] \in Move
  BY DEF Move

LEMMA RTypeOfInit == Init => RType
<1> SUFFICES ASSUME Init PROVE RType
  OBVIOUS
<1>1. slab_rebal \in Move
  BY DEF Init, NoMove, Move
<1> QED BY <1>1 DEF RType, Init

\* The page that a move begins with.
LEMMA FirstPage ==
  ASSUME TInv, NEW c \in Class, Len(slab_list[c]) >= 2
  PROVE  Head(slab_list[c]) \in Page /\ Head(slab_list[c]) \in ToSet(slab_list[c])
<1>1. slab_list[c] \in Seq(Page)
  BY PagesKnown
<1>2. 1 \in DOMAIN slab_list[c] /\ Head(slab_list[c]) = slab_list[c][1] /\ slab_list[c][1] \in Page
  <2>1. \A s \in Seq(Page) : Len(s) >= 2 => 1 \in DOMAIN s /\ Head(s) = s[1] /\ s[1] \in Page
    OBVIOUS
  <2> QED BY <1>1, <2>1
<1> QED BY <1>2 DEF ToSet

\* Which way the rebalancer's state is changed by a step.
RebalancerSteps ==
  \/ UNCHANGED rebalancer
  \/ \E src, dst \in Class : MayReassign(src, dst) /\ slabs_reassign(src, dst)
  \/ WakeUp \/ slabs_rebalancer_pause \/ slabs_rebalancer_resume
  \/ Rebalance

LEMMA RebalancerStep == [Next]_vars => RebalancerSteps
<1> SUFFICES ASSUME [Next]_vars PROVE RebalancerSteps
  OBVIOUS
<1>1. CASE UNCHANGED vars
  BY <1>1 DEF vars, RebalancerSteps
<1>2. ASSUME NEW w \in Worker, Work(w) PROVE RebalancerSteps
  <2>1. ASSUME NEW c \in Class, NEW i \in Chunk, AllocEvict(w, c, i) PROVE RebalancerSteps
    BY <2>1 DEF AllocEvict, AskForPage, RebalancerSteps
  <2>2. ASSUME NEW c \in Class, NEW i \in Chunk, AllocFree(w, c, i) \/ AllocExpired(w, c, i) PROVE UNCHANGED rebalancer
    BY <2>2 DEF AllocFree, AllocExpired
  <2>3. CASE \/ InitHeader(w) \/ do_item_link(w) \/ (\E i \in Chunk : Find(w, i)) \/ TakeReference(w)
             \/ do_item_unlink(w) \/ item_remove(w)
    BY <2>3 DEF InitHeader, do_item_link, Find, TakeReference, do_item_unlink, item_remove, RebalancerSteps
  <2> QED BY <1>2, <2>1, <2>2, <2>3 DEF Work, DoItemAlloc, RebalancerSteps
<1>3. ASSUME NEW src \in Class, NEW dst \in Class, Reassign(src, dst) PROVE RebalancerSteps
  BY <1>3 DEF Reassign, RebalancerSteps
<1> QED BY <1>1, <1>2, <1>3 DEF Next, RebalancerSteps

LEMMA RTypeKept == TInv /\ RType /\ RInv /\ [Next]_vars => RType'
<1> SUFFICES ASSUME TInv, RType, RInv, RebalancerSteps PROVE RType'
  BY RebalancerStep
<1> USE DEF RType, rebalancer
<1>1. CASE UNCHANGED rebalancer
  BY <1>1
<1>2. ASSUME NEW src \in Class, NEW dst \in Class, slabs_reassign(src, dst) PROVE RType'
  <2>1. slab_rebal' \in Move
    BY <1>2, MoveChosen, Zenon DEF slabs_reassign
  <2> QED BY <1>2, <2>1 DEF slabs_reassign
<1>3. CASE WakeUp \/ slabs_rebalancer_pause \/ slabs_rebalancer_resume
  BY <1>3 DEF WakeUp, slabs_rebalancer_pause, slabs_rebalancer_resume
<1>4. CASE slab_rebalance_start
  <2> DEFINE s == slab_rebal.s_clsid
  <2>1. s \in Class
    BY <1>4 DEF slab_rebalance_start, RInv, Chosen, Moving, Ending
  <2>2. CASE Spare(s)
    <3>1. Head(slab_list[s]) \in Page
      BY <2>1, <2>2, FirstPage DEF Spare
    <3>2. slab_rebal' \in Move
      BY <1>4, <2>2, <3>1, MoveStarted, Zenon DEF slab_rebalance_start
    <3> QED BY <1>4, <2>2, <3>2 DEF slab_rebalance_start
  <2>3. CASE ~Spare(s)
    BY <1>4, <2>3 DEF slab_rebalance_start, CondWait
  <2> QED BY <2>2, <2>3
<1>5. CASE RebalanceStartFails
  BY <1>5 DEF RebalanceStartFails, CondWait
<1>6. CASE slab_rebalance_move
  <2> DEFINE i == Slab(slab_rebal.slab_pos)
             busy == slab_rebal.busy_items \/ (~(slabs_clsid[i] = 255) /\ ~Idle(i))
  <2>1. NextPosition(busy) /\ UNCHANGED <<slab_rebalance_signal, slabs_rebalance_lock>>
    BY <1>6 DEF slab_rebalance_move
  <2>2. busy \in BOOLEAN /\ FALSE \in BOOLEAN
    BY Zenon
  <2> HIDE DEF busy
  <2>3. slab_rebal.slab_pos + 1 \in Nat /\ 1 \in Nat
    BY MoveFields
  <2>4. slab_rebal' \in Move
    BY <2>1, <2>2, <2>3, MoveGoesOn DEF NextPosition
  <2> QED BY <2>1, <2>4
<1>7. CASE slab_rebalance_finish
  BY <1>7, MoveEnded DEF slab_rebalance_finish
<1>8. CASE FinishEnds
  <2>1. slab_rebal' \in Move
    BY <1>8, MoveEnded, Zenon DEF FinishEnds
  <2> QED BY <1>8, <2>1 DEF FinishEnds, CondWait
<1> QED BY <1>1, <1>2, <1>3, <1>4, <1>5, <1>6, <1>7, <1>8 DEF RebalancerSteps, Rebalance

-----------------------------------------------------------------------------
(* References *)

LEMMA HoldersFinite ==
  ASSUME NEW i
  PROVE  IsFiniteSet(Holders(i)) /\ Cardinality(Holders(i)) \in Nat
<1>1. Holders(i) \in SUBSET Worker
  BY DEF Holders
<1>2. IsFiniteSet(Holders(i))
  BY <1>1, WorkerAssumption, FS_Subset
<1> QED BY <1>2, FS_CardinalityType

\* What the count of a chunk says about it.
LEMMA ReferenceFacts ==
  ASSUME TInv, CountsReferences, NEW i \in Chunk
  PROVE  /\ refcount[i] \in Nat
         /\ refcount[i] = 0 => Holders(i) = {} /\ i \notin ITEM_LINKED
         /\ i \in ITEM_LINKED => refcount[i] >= 1
         /\ i \in ITEM_LINKED /\ refcount[i] = 1 => Holders(i) = {}
         /\ Holders(i) # {} => refcount[i] >= 1
         /\ i \in ITEM_LINKED /\ Holders(i) # {} => refcount[i] >= 2
<1> DEFINE h == Cardinality(Holders(i))
<1>1. h \in Nat /\ (h = 0 <=> Holders(i) = {})
  BY HoldersFinite, FS_EmptySet
<1>2. refcount[i] = h + (IF i \in ITEM_LINKED THEN 1 ELSE 0)
  BY DEF CountsReferences
<1>3. refcount[i] \in Nat
  BY DEF TInv
<1> HIDE DEF h
<1> QED BY <1>1, <1>2, <1>3

\* A chunk without references is with no worker: one that has found an item and not
\* counted it yet has the item's lock, and the item is linked.
LEMMA NobodyThere ==
  ASSUME TInv, WInv, NEW i \in Chunk, Holders(i) = {}, i \notin ITEM_LINKED
  PROVE  \A w \in Worker : it[w] # i
<1> SUFFICES ASSUME NEW w \in Worker, it[w] = i PROVE FALSE
  OBVIOUS
<1>1. pc[w] # "idle"
  BY WorkerAssumption DEF TInv
<1>2. pc[w] \in {"init", "own", "hold"}
  BY <1>1 DEF TInv, WInv
<1>3. w \in Holders(i)
  BY <1>2 DEF Holders
<1> QED BY <1>3

\* The same for a linked item whose lock is free.
LEMMA NobodyElse ==
  ASSUME TInv, NEW i \in Chunk, Holders(i) = {}, ~ItemLocked(i)
  PROVE  \A w \in Worker : it[w] # i
<1> SUFFICES ASSUME NEW w \in Worker, it[w] = i PROVE FALSE
  OBVIOUS
<1>1. pc[w] # "idle" /\ pc[w] # "found"
  BY WorkerAssumption DEF TInv, ItemLocked
<1>2. pc[w] \in {"init", "own", "hold"}
  BY <1>1 DEF TInv
<1>3. w \in Holders(i)
  BY <1>2 DEF Holders
<1> QED BY <1>3

-----------------------------------------------------------------------------
(* Types are kept *)

LEMMA TypesOfInit == Init => TInv
<1> SUFFICES ASSUME Init PROVE TInv
  OBVIOUS
<1>1. <<>> \in Seq(Page)
  OBVIOUS
<1> QED BY <1>1 DEF Init, TInv

LEMMA ListSizeKnown ==
  ASSUME TInv, NEW c \in Class
  PROVE  [list_size EXCEPT ![c] = grow_slab_list(c)] \in [Class -> Nat]
<1>1. list_size \in [Class -> Nat] /\ list_size[c] \in Nat /\ 2 * list_size[c] \in Nat /\ FirstListSize \in Nat
  BY LimitAssumption DEF TInv
<1>2. grow_slab_list(c) \in Nat
  BY <1>1 DEF grow_slab_list
<1> QED BY <1>1, <1>2

\* How a chunk comes to a worker: from the free list, or with a new page.
LEMMA GrownBy ==
  ASSUME TInv, NEW c \in Class, NEW p \in memory_allocate
  PROVE  p \in Page /\ \A d \in Class : p \notin ToSet(slab_list[d])
  BY DEF memory_allocate, Used

LEMMA TypesOfAlloc ==
  ASSUME TInv, NEW w \in Worker, NEW c \in Class, NEW i \in Chunk,
         AllocFree(w, c, i) \/ TakeChunkOf(w, c, i)
  PROVE  TInv'
<1>1. /\ pc' = [pc EXCEPT ![w] = "init"] /\ it' = [it EXCEPT ![w] = i] /\ id' = [id EXCEPT ![w] = c]
      /\ refcount' = [refcount EXCEPT ![i] = 1]
  BY DEF AllocFree, TakeChunkOf, Allocated, Goto
<1>2. /\ pc' \in [Worker -> {"idle", "init", "own", "found", "hold"}]
      /\ it' \in [Worker -> Chunk \cup {NULL}] /\ id' \in [Worker -> {0} \cup Class]
      /\ \A v \in Worker : it'[v] = NULL <=> pc'[v] = "idle"
      /\ refcount' \in [Chunk -> Nat]
  BY <1>1, WorkerAssumption DEF TInv
<1>3. CASE TakeChunkOf(w, c, i)
  <2>1. /\ ITEM_LINKED' = ITEM_LINKED \ {i} /\ slabs_clsid' = [slabs_clsid EXCEPT ![i] = 0]
        /\ UNCHANGED <<slab_list, list_size, slots, ITEM_SLABBED>>
    BY <1>3 DEF TakeChunkOf, pages
  <2> QED BY <1>2, <2>1 DEF TInv
<1>4. CASE AllocFree(w, c, i)
  <2>1. UNCHANGED <<slabs_clsid, ITEM_LINKED>> /\ slabs_alloc(c, i)
    BY <1>4 DEF AllocFree
  <2>2. CASE UNCHANGED <<pages, ITEM_SLABBED>> /\ slots' = [slots EXCEPT ![c] = @ \ {i}]
    BY <1>2, <2>1, <2>2 DEF TInv, pages
  <2>3. ASSUME NEW p \in memory_allocate,
               list_size' = [list_size EXCEPT ![c] = grow_slab_list(c)],
               slab_list' = [slab_list EXCEPT ![c] = Append(@, p)],
               split_slab_page_into_freelist(p, c, {i})
        PROVE  TInv'
    <3>1. p \in Page /\ ChunksOf(p, c) \subseteq Chunk
      BY GrownBy, ChunksKnown
    <3>2. list_size' \in [Class -> Nat]
      BY <2>3, ListSizeKnown
    <3>3. Append(slab_list[c], p) \in Seq(Page)
      BY <3>1, PagesKnown
    <3>4. slab_list' \in [Class -> Seq(Page)]
      BY <2>3, <3>3 DEF TInv
    <3>5. /\ slots' = [slots EXCEPT ![c] = (@ \cup ChunksOf(p, c)) \ {i}]
          /\ ITEM_SLABBED' = ITEM_SLABBED \cup ChunksOf(p, c)
      BY <2>3 DEF split_slab_page_into_freelist
    <3>6. slots' \in [Class -> SUBSET Chunk] /\ ITEM_SLABBED' \subseteq Chunk
      BY <3>1, <3>5 DEF TInv
    <3> QED BY <1>2, <2>1, <3>2, <3>4, <3>6 DEF TInv
  <2> QED BY <2>1, <2>2, <2>3 DEF slabs_alloc
<1> QED BY <1>3, <1>4

\* A reference is given up: the chunk may become free.
LEMMA TypesOfRemove ==
  ASSUME TInv, NEW i \in Chunk, NEW n \in Nat, slabs_clsid[i] \in Class, do_item_remove(i, n)
  PROVE  /\ slots' \in [Class -> SUBSET Chunk] /\ slabs_clsid' \in [Chunk -> {0, 255} \cup Class]
         /\ refcount' \in [Chunk -> Nat] /\ ITEM_SLABBED' \subseteq Chunk
<1>1. refcount' \in [Chunk -> Nat]
  BY DEF do_item_remove, TInv
<1>2. CASE n = 0
  <2>1. /\ slabs_clsid' = [slabs_clsid EXCEPT ![i] = 0] /\ ITEM_SLABBED' = ITEM_SLABBED \cup {i}
        /\ slots' = [slots EXCEPT ![slabs_clsid[i]] = @ \cup {i}]
    BY <1>2 DEF do_item_remove, do_slabs_free
  <2> QED BY <1>1, <2>1 DEF TInv
<1>3. CASE n # 0
  BY <1>1, <1>3 DEF do_item_remove, TInv
<1> QED BY <1>2, <1>3

\* What a worker with an item knows of it.
LEMMA AtHand ==
  ASSUME TInv, KInv, WInv, CountsReferences, NEW w \in Worker, pc[w] # "idle"
  PROVE  /\ it[w] \in Chunk /\ refcount[it[w]] \in Nat /\ refcount[it[w]] >= 1
         /\ pc[w] # "init" => Housed(it[w])
<1>1. it[w] \in Chunk
  BY DEF TInv
<1>2. CASE pc[w] = "found"
  <2>1. it[w] \in ITEM_LINKED
    BY <1>2 DEF WInv
  <2> QED BY <1>1, <1>2, <2>1, ReferenceFacts DEF KInv
<1>3. CASE pc[w] # "found"
  <2>1. pc[w] \in {"init", "own", "hold"}
    BY <1>3 DEF TInv
  <2>2. w \in Holders(it[w])
    BY <2>1 DEF Holders
  <2>3. pc[w] # "init" => Housed(it[w])
    BY <2>1 DEF WInv
  <2> QED BY <1>1, <2>2, <2>3, ReferenceFacts
<1> QED BY <1>2, <1>3

LEMMA TypesOfCommand ==
  ASSUME IInv, NEW w \in Worker,
         \/ InitHeader(w) \/ do_item_link(w) \/ (\E i \in Chunk : Find(w, i)) \/ TakeReference(w)
         \/ do_item_unlink(w) \/ item_remove(w)
  PROVE  TInv'
<1> USE DEF IInv, pages, items, command
<1>1. CASE InitHeader(w)
  <2>1. it[w] \in Chunk /\ id[w] \in Class /\ it[w] # NULL
    BY <1>1, AtHand, WorkerAssumption DEF InitHeader, WInv
  <2> QED BY <1>1, <2>1 DEF InitHeader, Goto, TInv
<1>2. CASE do_item_link(w)
  <2>1. it[w] \in Chunk /\ it[w] # NULL /\ refcount[it[w]] + 1 \in Nat
    BY <1>2, AtHand, WorkerAssumption DEF do_item_link
  <2> QED BY <1>2, <2>1 DEF do_item_link, Goto, TInv
<1>3. ASSUME NEW i \in Chunk, Find(w, i) PROVE TInv'
  BY <1>3, WorkerAssumption DEF Find, Goto, TInv
<1>4. CASE TakeReference(w)
  <2> DEFINE i == it[w]
  <2>1. /\ i \in Chunk /\ i # NULL /\ refcount[i] + 1 \in Nat /\ refcount[i] + 1 - 1 - 1 \in Nat
        /\ slabs_clsid[i] \in Class
    BY <1>4, AtHand, WorkerAssumption DEF TakeReference, Housed
  <2>2. CASE InDyingPage(i)
    <3>1. do_item_remove(i, refcount[i] + 1 - 1 - 1)
      BY <1>4, <2>2 DEF TakeReference
    <3>2. /\ slots' \in [Class -> SUBSET Chunk] /\ slabs_clsid' \in [Chunk -> {0, 255} \cup Class]
          /\ refcount' \in [Chunk -> Nat] /\ ITEM_SLABBED' \subseteq Chunk
      BY <2>1, <3>1, TypesOfRemove
    <3>3. /\ ITEM_LINKED' \subseteq Chunk /\ UNCHANGED <<slab_list, list_size, id>>
          /\ pc' = [pc EXCEPT ![w] = "idle"] /\ it' = [it EXCEPT ![w] = NULL]
      BY <1>4, <2>2 DEF TakeReference, Forget, Goto, TInv
    <3> QED BY <3>2, <3>3 DEF TInv
  <2>3. CASE ~InDyingPage(i)
    BY <1>4, <2>1, <2>3 DEF TakeReference, Goto, TInv
  <2> QED BY <2>2, <2>3
<1>5. CASE do_item_unlink(w)
  <2> DEFINE i == it[w]
  <2>1. i \in Chunk /\ refcount[i] - 1 \in Nat /\ slabs_clsid[i] \in Class
    BY <1>5, AtHand DEF do_item_unlink, Housed
  <2>2. do_item_remove(i, refcount[i] - 1)
    BY <1>5 DEF do_item_unlink
  <2>3. /\ slots' \in [Class -> SUBSET Chunk] /\ slabs_clsid' \in [Chunk -> {0, 255} \cup Class]
        /\ refcount' \in [Chunk -> Nat] /\ ITEM_SLABBED' \subseteq Chunk
    BY <2>1, <2>2, TypesOfRemove
  <2> QED BY <1>5, <2>3 DEF do_item_unlink, TInv
<1>6. CASE item_remove(w)
  <2> DEFINE i == it[w]
  <2>1. i \in Chunk /\ refcount[i] - 1 \in Nat /\ slabs_clsid[i] \in Class
    BY <1>6, AtHand DEF item_remove, Housed
  <2>2. do_item_remove(i, refcount[i] - 1)
    BY <1>6 DEF item_remove
  <2>3. /\ slots' \in [Class -> SUBSET Chunk] /\ slabs_clsid' \in [Chunk -> {0, 255} \cup Class]
        /\ refcount' \in [Chunk -> Nat] /\ ITEM_SLABBED' \subseteq Chunk
    BY <2>1, <2>2, TypesOfRemove
  <2> QED BY <1>6, <2>3 DEF item_remove, Forget, Goto, TInv
<1> QED BY <1>1, <1>2, <1>3, <1>4, <1>5, <1>6

\* While a move is on, slab_pos is at a chunk of the page that is being moved, the
\* first one of its class.
LEMMA MoveAtHand ==
  ASSUME TInv, RType, RInv, slab_rebal.slab_start # 0 \/ slab_rebal.done
  PROVE  /\ Moving /\ slab_rebal.s_clsid \in Class /\ slab_rebal.d_clsid \in Class
         /\ slab_rebal.s_clsid # slab_rebal.d_clsid
         /\ slab_rebal.slab_start \in Page /\ slab_rebal.slab_start # 0
         /\ slab_rebal.slab_start \in ToSet(slab_list[slab_rebal.s_clsid])
         /\ slab_rebal.slab_start = Head(slab_list[slab_rebal.s_clsid])
         /\ Len(slab_list[slab_rebal.s_clsid]) >= 2
         /\ ChunksOf(slab_rebal.slab_start, slab_rebal.s_clsid) \subseteq ChunksIn(slab_rebal.s_clsid)
<1>1. Moving
  BY DEF RInv, Waiting, Ending
<1>2. /\ slab_rebal.s_clsid \in Class /\ slab_rebal.d_clsid \in Class
      /\ slab_rebal.s_clsid # slab_rebal.d_clsid
      /\ slab_rebal.slab_start = Head(slab_list[slab_rebal.s_clsid])
      /\ Len(slab_list[slab_rebal.s_clsid]) >= 2
  BY <1>1 DEF Moving, Chosen
<1>3. /\ slab_rebal.slab_start \in Page
      /\ slab_rebal.slab_start \in ToSet(slab_list[slab_rebal.s_clsid])
  BY <1>2, FirstPage
<1>4. slab_rebal.slab_start # 0
  BY <1>3, PageAssumption
<1>5. ChunksOf(slab_rebal.slab_start, slab_rebal.s_clsid) \subseteq ChunksIn(slab_rebal.s_clsid)
  BY <1>3 DEF ChunksIn
<1> QED BY <1>1, <1>2, <1>3, <1>4, <1>5

LEMMA MovePosition ==
  ASSUME TInv, RType, RInv, slab_rebal.slab_start # 0, ~slab_rebal.done
  PROVE  /\ slab_rebal.slab_pos \in 1..perslab[slab_rebal.s_clsid]
         /\ Slab(slab_rebal.slab_pos) \in ChunksOf(slab_rebal.slab_start, slab_rebal.s_clsid)
         /\ Slab(slab_rebal.slab_pos) \in Chunk
<1>1. slab_rebal.slab_pos \in 1..perslab[slab_rebal.s_clsid]
  BY MoveAtHand DEF Moving
<1>2. Slab(slab_rebal.slab_pos) \in ChunksOf(slab_rebal.slab_start, slab_rebal.s_clsid)
  BY <1>1 DEF Slab, ChunksOf
<1>3. Slab(slab_rebal.slab_pos) \in Chunk
  BY <1>2, MoveAtHand, ChunksKnown
<1> QED BY <1>1, <1>2, <1>3

\* The lists of pages after slab_rebalance_finish.
LEMMA PageMoved ==
  ASSUME TInv, RType, RInv, PInv, slab_rebalance_finish
  PROVE  LET s == slab_rebal.s_clsid   d == slab_rebal.d_clsid   p == slab_rebal.slab_start IN
         /\ slab_list' \in [Class -> Seq(Page)]
         /\ p \in ToSet(slab_list[s]) /\ \A c \in Class \ {s} : p \notin ToSet(slab_list[c])
         /\ ToSet(slab_list'[s]) = ToSet(slab_list[s]) \ {p} /\ slab_list'[s] # <<>>
         /\ ToSet(slab_list'[d]) = ToSet(slab_list[d]) \cup {p} /\ slab_list'[d] # <<>>
         /\ IsInjective(slab_list'[s]) /\ IsInjective(slab_list'[d])
         /\ \A c \in Class \ {s, d} : slab_list'[c] = slab_list[c]
<1> DEFINE s == slab_rebal.s_clsid
           d == slab_rebal.d_clsid
           p == slab_rebal.slab_start
           rest == Front([slab_list[s] EXCEPT ![1] = Last(slab_list[s])])
<1>1. /\ s \in Class /\ d \in Class /\ s # d /\ p \in Page /\ p \in ToSet(slab_list[s])
      /\ p = Head(slab_list[s]) /\ Len(slab_list[s]) >= 2
  BY MoveAtHand DEF slab_rebalance_finish
<1>2. slab_list' = [slab_list EXCEPT ![s] = rest, ![d] = Append(@, p)]
  BY DEF slab_rebalance_finish
<1> HIDE DEF s, d, p
<1>3. /\ slab_list \in [Class -> Seq(Page)] /\ slab_list[s] \in Seq(Page) /\ slab_list[d] \in Seq(Page)
      /\ IsInjective(slab_list[s]) /\ IsInjective(slab_list[d])
  BY <1>1, PagesKnown DEF PInv, TInv
<1>4. \A c \in Class \ {s} : p \notin ToSet(slab_list[c])
  BY <1>1 DEF PInv
<1>5. /\ rest \in Seq(Page) /\ rest # <<>> /\ IsInjective(rest)
      /\ ToSet(rest) = ToSet(slab_list[s]) \ {p}
  BY <1>1, <1>3, FirstPageTaken
<1>6. /\ Append(slab_list[d], p) \in Seq(Page) /\ Append(slab_list[d], p) # <<>>
      /\ ToSet(Append(slab_list[d], p)) = ToSet(slab_list[d]) \cup {p}
      /\ IsInjective(Append(slab_list[d], p))
  <2>1. p \notin ToSet(slab_list[d])
    BY <1>1, <1>4
  <2>2. Len(Append(slab_list[d], p)) = Len(slab_list[d]) + 1 /\ Len(slab_list[d]) \in Nat
    BY <1>1, <1>3, PagesAppended
  <2>3. Append(slab_list[d], p) # <<>>
    BY <2>2
  <2> QED BY <1>1, <1>3, <2>1, <2>3, PagesAppended
<1> HIDE DEF rest
<1>7. /\ slab_list'[s] = rest /\ slab_list'[d] = Append(slab_list[d], p)
      /\ \A c \in Class \ {s, d} : slab_list'[c] = slab_list[c]
      /\ slab_list' \in [Class -> Seq(Page)]
  BY <1>1, <1>2, <1>3, <1>5, <1>6
<1> QED BY <1>1, <1>4, <1>5, <1>6, <1>7 DEF s, d, p

LEMMA TypesOfRebalancer ==
  ASSUME IInv, Rebalance
  PROVE  TInv'
<1> USE DEF IInv, pages, items, command
<1>1. CASE slab_rebalance_start
  <2>1. slab_rebal.d_clsid \in Class
    BY <1>1 DEF slab_rebalance_start, RInv, Chosen, Moving, Ending
  <2>2. list_size' \in [Class -> Nat]
    BY <1>1, <2>1, ListSizeKnown DEF slab_rebalance_start
  <2> QED BY <1>1, <2>2 DEF slab_rebalance_start, TInv
<1>2. CASE RebalanceStartFails \/ FinishEnds
  BY <1>2 DEF RebalanceStartFails, FinishEnds, TInv
<1>3. CASE slab_rebalance_move
  <2> DEFINE i == Slab(slab_rebal.slab_pos)
  <2>1. i \in Chunk /\ slab_rebal.s_clsid \in Class
    BY <1>3, MovePosition, MoveAtHand DEF slab_rebalance_move
  <2>2. UNCHANGED <<slab_list, list_size, pc, it, id>>
    BY <1>3 DEF slab_rebalance_move
  <2>3. MOVE_DONE(i) \/ UNCHANGED <<slots, slabs_clsid, refcount, ITEM_SLABBED, ITEM_LINKED>>
    BY <1>3 DEF slab_rebalance_move
  <2> HIDE DEF i
  <2>4. CASE MOVE_DONE(i)
    <3>1. /\ slots' \in [Class -> SUBSET Chunk] /\ slabs_clsid' \in [Chunk -> {0, 255} \cup Class]
          /\ refcount' \in [Chunk -> Nat]
      BY <2>1, <2>4 DEF MOVE_DONE, TInv
    <3>2. ITEM_LINKED' \subseteq Chunk /\ ITEM_SLABBED' \subseteq Chunk
      BY <2>4 DEF MOVE_DONE, TInv
    <3> QED BY <2>2, <3>1, <3>2 DEF TInv
  <2>5. CASE UNCHANGED <<slots, slabs_clsid, refcount, ITEM_SLABBED, ITEM_LINKED>>
    BY <2>2, <2>5 DEF TInv
  <2> QED BY <2>3, <2>4, <2>5
<1>4. CASE slab_rebalance_finish
  <2> DEFINE p == slab_rebal.slab_start
             d == slab_rebal.d_clsid
  <2>1. d \in Class /\ p \in Page /\ ChunksOf(p, d) \subseteq Chunk
    BY <1>4, MoveAtHand, ChunksKnown DEF slab_rebalance_finish
  <2>2. slab_list' \in [Class -> Seq(Page)]
    BY <1>4, PageMoved
  <2>3. /\ slabs_clsid' = [i \in Chunk |-> IF i[1] = p THEN 0 ELSE slabs_clsid[i]]
        /\ refcount' = [i \in Chunk |-> IF i[1] = p THEN 0 ELSE refcount[i]]
        /\ slots' = [slots EXCEPT ![d] = (@ \cup ChunksOf(p, d)) \ {}]
        /\ ITEM_SLABBED' = ITEM_SLABBED \cup ChunksOf(p, d)
        /\ UNCHANGED <<list_size, ITEM_LINKED, pc, it, id>>
    BY <1>4 DEF slab_rebalance_finish, split_slab_page_into_freelist
  <2> HIDE DEF p, d
  <2>4. /\ slabs_clsid' \in [Chunk -> {0, 255} \cup Class] /\ refcount' \in [Chunk -> Nat]
        /\ slots' \in [Class -> SUBSET Chunk] /\ ITEM_SLABBED' \subseteq Chunk
    BY <2>1, <2>3 DEF TInv
  <2> QED BY <2>2, <2>3, <2>4 DEF TInv
<1> QED BY <1>1, <1>2, <1>3, <1>4 DEF Rebalance

LEMMA TypesKept == IInv /\ [Next]_vars => TInv'
<1> SUFFICES ASSUME IInv, [Next]_vars PROVE TInv'
  OBVIOUS
<1>1. CASE UNCHANGED vars \/ WakeUp \/ slabs_rebalancer_pause \/ slabs_rebalancer_resume
  BY <1>1 DEF IInv, TInv, vars, pages, items, command, WakeUp, slabs_rebalancer_pause, slabs_rebalancer_resume
<1>2. ASSUME NEW src \in Class, NEW dst \in Class, Reassign(src, dst) PROVE TInv'
  BY <1>2 DEF IInv, TInv, pages, items, command, Reassign
<1>3. ASSUME NEW w \in Worker, DoItemAlloc(w) PROVE TInv'
  BY <1>3, TypesOfAlloc DEF DoItemAlloc, AllocExpired, AllocEvict, IInv
<1> QED BY <1>1, <1>2, <1>3, TypesOfCommand, TypesOfRebalancer DEF Next, Work

-----------------------------------------------------------------------------
(* Pages *)

\* How the lists of pages change: not at all, by a new page, or by a move.
Grown(c, p) ==
  /\ p \in memory_allocate
  /\ slab_list' = [slab_list EXCEPT ![c] = Append(@, p)]

LEMMA PageSteps ==
  ASSUME [Next]_vars
  PROVE  \/ UNCHANGED slab_list
         \/ (\E c \in Class : \E p : Grown(c, p)) /\ UNCHANGED rebalancer
         \/ slab_rebalance_finish
<1> USE DEF pages
<1>1. CASE UNCHANGED vars \/ WakeUp \/ slabs_rebalancer_pause \/ slabs_rebalancer_resume
  BY <1>1 DEF vars, WakeUp, slabs_rebalancer_pause, slabs_rebalancer_resume
<1>2. ASSUME NEW src \in Class, NEW dst \in Class, Reassign(src, dst) PROVE UNCHANGED slab_list
  BY <1>2 DEF Reassign
<1>3. ASSUME NEW w \in Worker, DoItemAlloc(w)
      PROVE  UNCHANGED slab_list \/ ((\E c \in Class : \E p : Grown(c, p)) /\ UNCHANGED rebalancer)
  <2>1. PICK c \in Class, i \in Chunk : AllocFree(w, c, i) \/ AllocExpired(w, c, i) \/ AllocEvict(w, c, i)
    BY <1>3 DEF DoItemAlloc
  <2>2. CASE AllocExpired(w, c, i) \/ AllocEvict(w, c, i)
    <3>1. TakeChunkOf(w, c, i)
      BY <2>2 DEF AllocExpired, AllocEvict
    <3> QED BY <3>1 DEF TakeChunkOf
  <2>3. CASE AllocFree(w, c, i)
    BY <2>3 DEF AllocFree, slabs_alloc, Grown
  <2> QED BY <2>1, <2>2, <2>3
<1>4. ASSUME NEW w \in Worker,
             \/ InitHeader(w) \/ do_item_link(w) \/ (\E i \in Chunk : Find(w, i)) \/ TakeReference(w)
             \/ do_item_unlink(w) \/ item_remove(w)
      PROVE  UNCHANGED slab_list
  BY <1>4 DEF InitHeader, do_item_link, Find, TakeReference, do_item_unlink, item_remove
<1>5. CASE slab_rebalance_start \/ RebalanceStartFails \/ slab_rebalance_move \/ FinishEnds
  BY <1>5 DEF slab_rebalance_start, RebalanceStartFails, slab_rebalance_move, FinishEnds
<1> QED BY <1>1, <1>2, <1>3, <1>4, <1>5 DEF Next, Work, Rebalance

LEMMA PageGrown ==
  ASSUME TInv, PInv, NEW c \in Class, NEW p, Grown(c, p)
  PROVE  /\ p \in Page /\ \A d \in Class : p \notin ToSet(slab_list[d])
         /\ slab_list' \in [Class -> Seq(Page)]
         /\ ToSet(slab_list'[c]) = ToSet(slab_list[c]) \cup {p} /\ IsInjective(slab_list'[c])
         /\ Len(slab_list[c]) \in Nat /\ Len(slab_list'[c]) = Len(slab_list[c]) + 1
         /\ slab_list[c] # <<>> => Head(slab_list'[c]) = Head(slab_list[c])
         /\ \A d \in Class \ {c} : slab_list'[d] = slab_list[d]
<1>1. p \in Page /\ \A d \in Class : p \notin ToSet(slab_list[d])
  BY GrownBy DEF Grown
<1>2. slab_list[c] \in Seq(Page) /\ IsInjective(slab_list[c])
  BY PagesKnown DEF PInv
<1>3. /\ slab_list'[c] = Append(slab_list[c], p)
      /\ \A d \in Class \ {c} : slab_list'[d] = slab_list[d]
  BY DEF Grown, TInv
<1>4. Append(slab_list[c], p) \in Seq(Page)
  BY <1>1, <1>2
<1>5. slab_list' \in [Class -> Seq(Page)]
  BY <1>4 DEF Grown, TInv
<1> QED BY <1>1, <1>2, <1>3, <1>5, PagesAppended

LEMMA PagesOfInit == Init => PInv
<1> SUFFICES ASSUME Init PROVE PInv
  OBVIOUS
<1>1. \A c \in Class : slab_list[c] = <<>>
  BY DEF Init
<1>2. ToSet(<<>>) = {} /\ IsInjective(<<>>)
  BY DEF ToSet, IsInjective
<1> QED BY <1>1, <1>2 DEF PInv

LEMMA PagesKept == IInv /\ [Next]_vars => PInv'
<1> SUFFICES ASSUME IInv, [Next]_vars PROVE PInv'
  OBVIOUS
<1>1. CASE UNCHANGED slab_list
  BY <1>1 DEF IInv, PInv
<1>2. ASSUME NEW c \in Class, NEW p, Grown(c, p) PROVE PInv'
  <2>1. /\ \A d \in Class : p \notin ToSet(slab_list[d])
        /\ ToSet(slab_list'[c]) = ToSet(slab_list[c]) \cup {p} /\ IsInjective(slab_list'[c])
        /\ \A d \in Class \ {c} : slab_list'[d] = slab_list[d]
    BY <1>2, PageGrown DEF IInv
  <2> QED BY <2>1 DEF IInv, PInv
<1>3. CASE slab_rebalance_finish
  <2> DEFINE s == slab_rebal.s_clsid
             d == slab_rebal.d_clsid
             p == slab_rebal.slab_start
  <2>1. /\ p \in ToSet(slab_list[s]) /\ \A c \in Class \ {s} : p \notin ToSet(slab_list[c])
        /\ ToSet(slab_list'[s]) = ToSet(slab_list[s]) \ {p}
        /\ ToSet(slab_list'[d]) = ToSet(slab_list[d]) \cup {p}
        /\ IsInjective(slab_list'[s]) /\ IsInjective(slab_list'[d])
        /\ \A c \in Class \ {s, d} : slab_list'[c] = slab_list[c]
    BY <1>3, PageMoved DEF IInv
  <2>2. s \in Class /\ d \in Class /\ s # d
    BY <1>3, MoveAtHand DEF IInv, slab_rebalance_finish
  <2> HIDE DEF s, d, p
  <2>3. \A c \in Class : IsInjective(slab_list'[c])
    BY <2>1 DEF IInv, PInv
  <2>4. \A c, e \in Class : c # e => ToSet(slab_list[c]) \cap ToSet(slab_list[e]) = {}
    BY DEF IInv, PInv
  <2>5. \A c \in Class : \A q : q \in ToSet(slab_list'[c]) <=>
           (q \in ToSet(slab_list[c]) /\ q # p) \/ (q = p /\ c = d)
    BY <2>1, <2>2
  <2>6. \A c, e \in Class : c # e => ToSet(slab_list'[c]) \cap ToSet(slab_list'[e]) = {}
    BY <2>4, <2>5
  <2> QED BY <2>3, <2>6 DEF PInv
<1> QED BY <1>1, <1>2, <1>3, PageSteps

-----------------------------------------------------------------------------
(* The stages of a move *)

LEMMA StagesOfInit == Init => RInv
<1> SUFFICES ASSUME Init PROVE RInv
  OBVIOUS
<1>1. slab_rebal.slab_start = 0 /\ slab_rebal.slab_end = 0 /\ ~slab_rebal.done
  BY DEF Init, NoMove
<1> QED BY <1>1 DEF Init, RInv, Waiting

\* A move is not disturbed by what happens to the lists of pages meanwhile.
LEMMA StagesAlone ==
  ASSUME RInv, UNCHANGED rebalancer,
         \A c \in Class : Len(slab_list[c]) >= 2 =>
           Len(slab_list'[c]) >= 2 /\ Head(slab_list'[c]) = Head(slab_list[c])
  PROVE  RInv'
<1>1. UNCHANGED <<slab_rebalance_signal, slab_rebal, slabs_rebalance_lock>>
  BY DEF rebalancer
<1>2. Waiting => Waiting'
  BY <1>1 DEF Waiting
<1>3. Chosen => Chosen'
  BY <1>1 DEF Chosen
<1>4. Moving => Moving'
  BY <1>1, <1>3 DEF Moving, Chosen
<1>5. Ending => Ending'
  BY <1>1 DEF Ending
<1> QED BY <1>1, <1>2, <1>3, <1>4, <1>5 DEF RInv

LEMMA StagesKept == IInv /\ [Next]_vars => RInv'
<1> SUFFICES ASSUME IInv, [Next]_vars PROVE RInv'
  OBVIOUS
<1> USE DEF IInv
<1>1. CASE UNCHANGED rebalancer /\ ~slab_rebalance_finish
  <2>1. CASE UNCHANGED slab_list
    BY <1>1, <2>1, StagesAlone
  <2>2. ASSUME NEW c \in Class, NEW p, Grown(c, p) PROVE RInv'
    <3>1. /\ Len(slab_list[c]) \in Nat /\ Len(slab_list'[c]) = Len(slab_list[c]) + 1
          /\ slab_list[c] # <<>> => Head(slab_list'[c]) = Head(slab_list[c])
          /\ \A d \in Class \ {c} : slab_list'[d] = slab_list[d]
      BY <2>2, PageGrown
    <3>2. Len(slab_list[c]) >= 2 => slab_list[c] # <<>>
      OBVIOUS
    <3>3. \A d \in Class : Len(slab_list[d]) >= 2 =>
            Len(slab_list'[d]) >= 2 /\ Head(slab_list'[d]) = Head(slab_list[d])
      BY <3>1, <3>2
    <3> QED BY <1>1, <3>3, StagesAlone
  <2> QED BY <1>1, <2>1, <2>2, PageSteps
<1>2. ASSUME NEW src \in Class, NEW dst \in Class, MayReassign(src, dst), slabs_reassign(src, dst) PROVE RInv'
  <2>1. Waiting /\ src # dst /\ slab_rebalance_signal = 0
    BY <1>2 DEF MayReassign, RInv, Moving, Ending
  <2>2. /\ slab_rebal' = [slab_rebal EXCEPT !.s_clsid = src, !.d_clsid = dst]
        /\ slab_rebalance_signal' = 1
    BY <1>2 DEF slabs_reassign
  <2>3. /\ slab_rebal'.s_clsid = src /\ slab_rebal'.d_clsid = dst
        /\ slab_rebal'.slab_start = slab_rebal.slab_start /\ slab_rebal'.slab_end = slab_rebal.slab_end
        /\ slab_rebal'.done = slab_rebal.done
    BY <2>2 DEF RType, Move
  <2>4. Chosen' /\ Waiting'
    BY <2>1, <2>3 DEF Chosen, Waiting
  <2> QED BY <2>2, <2>4 DEF RInv
<1>3. CASE WakeUp \/ slabs_rebalancer_pause \/ slabs_rebalancer_resume
  <2>1. /\ UNCHANGED <<slab_rebalance_signal, slab_rebal, slab_list>>
        /\ slabs_rebalance_lock # "rebalancer"
        /\ slab_rebalance_signal = 0 => slabs_rebalance_lock' # "rebalancer"
    BY <1>3 DEF WakeUp, slabs_rebalancer_pause, slabs_rebalancer_resume, pages
  <2>2. ~Moving /\ ~Ending
    BY <2>1 DEF Moving, Ending
  <2>3. Waiting => Waiting'
    BY <2>1 DEF Waiting
  <2>4. Chosen => Chosen'
    BY <2>1 DEF Chosen
  <2> QED BY <2>1, <2>2, <2>3, <2>4 DEF RInv
<1>4. CASE slab_rebalance_start
  <2> DEFINE s == slab_rebal.s_clsid
  <2>1. Chosen /\ Waiting /\ UNCHANGED slab_list /\ slabs_rebalance_lock = "rebalancer"
    BY <1>4 DEF slab_rebalance_start, RInv, Moving, Ending
  <2>2. CASE Spare(s)
    <3>1. /\ slab_rebal' = [slab_rebal EXCEPT !.slab_start = Head(slab_list[s]),
                              !.slab_end = Head(slab_list[s]) + 1, !.slab_pos = 1, !.done = FALSE]
          /\ slab_rebalance_signal' = 2 /\ slabs_rebalance_lock' = "rebalancer"
      BY <1>4, <2>2 DEF slab_rebalance_start
    <3>2. /\ slab_rebal'.s_clsid = s /\ slab_rebal'.d_clsid = slab_rebal.d_clsid
          /\ slab_rebal'.slab_start = Head(slab_list[s])
          /\ slab_rebal'.slab_end = Head(slab_list[s]) + 1 /\ slab_rebal'.slab_pos = 1
      BY <3>1 DEF RType, Move
    <3>3. s \in Class /\ Len(slab_list[s]) >= 2
      BY <2>1, <2>2 DEF Chosen, Spare
    <3>4. 1 \in 1..perslab[s]
      <4>1. perslab[s] \in Nat \ {0}
        BY <3>3, ClassAssumption
      <4> QED BY <4>1
    <3>5. Chosen'
      BY <2>1, <3>2 DEF Chosen
    <3>6. Moving'
      BY <2>1, <3>1, <3>2, <3>3, <3>4, <3>5 DEF Moving
    <3> QED BY <3>6 DEF RInv
  <2>3. CASE ~Spare(s)
    <3>1. slab_rebalance_signal' = 0 /\ slabs_rebalance_lock' = "free" /\ UNCHANGED slab_rebal
      BY <1>4, <2>3 DEF slab_rebalance_start, CondWait
    <3> QED BY <2>1, <3>1 DEF RInv, Waiting
  <2> QED BY <2>2, <2>3
<1>5. CASE RebalanceStartFails
  <2>1. Waiting
    BY <1>5 DEF RebalanceStartFails, RInv, Moving, Ending
  <2>2. slab_rebalance_signal' = 0 /\ slabs_rebalance_lock' = "free" /\ UNCHANGED slab_rebal
    BY <1>5 DEF RebalanceStartFails, CondWait
  <2> QED BY <2>1, <2>2 DEF RInv, Waiting
<1>6. CASE slab_rebalance_move
  <2> DEFINE i == Slab(slab_rebal.slab_pos)
             busy == slab_rebal.busy_items \/ (~(slabs_clsid[i] = 255) /\ ~Idle(i))
  <2>1. NextPosition(busy) /\ UNCHANGED <<slab_rebalance_signal, slabs_rebalance_lock, slab_list>>
    BY <1>6 DEF slab_rebalance_move, pages
  <2> HIDE DEF busy
  <2>2. Moving /\ slab_rebal.s_clsid \in Class /\ slab_rebal.slab_pos \in 1..perslab[slab_rebal.s_clsid]
    BY <1>6, MoveAtHand, MovePosition DEF slab_rebalance_move
  <2>3. /\ slab_rebal'.s_clsid = slab_rebal.s_clsid /\ slab_rebal'.d_clsid = slab_rebal.d_clsid
        /\ slab_rebal'.slab_start = slab_rebal.slab_start /\ slab_rebal'.slab_end = slab_rebal.slab_end
    BY <2>1 DEF NextPosition, RType, Move
  <2>4. ~slab_rebal'.done => slab_rebal'.slab_pos \in 1..perslab[slab_rebal.s_clsid]
    <3>1. perslab[slab_rebal.s_clsid] \in Nat
      BY <2>2, ClassAssumption
    <3> QED BY <2>1, <2>2, <3>1 DEF NextPosition, RType, Move
  <2>5. Moving'
    BY <2>1, <2>2, <2>3, <2>4 DEF Moving, Chosen
  <2> QED BY <2>5 DEF RInv
<1>7. CASE slab_rebalance_finish
  <2>1. Moving /\ slab_rebal.slab_start \in Page
    BY <1>7, MoveAtHand DEF slab_rebalance_finish
  <2>2. /\ slab_rebal' = [slab_rebal EXCEPT !.done = FALSE, !.s_clsid = 0, !.d_clsid = 0, !.slab_start = 0]
        /\ UNCHANGED <<slab_rebalance_signal, slabs_rebalance_lock>>
    BY <1>7 DEF slab_rebalance_finish
  <2>3. slab_rebal'.slab_start = 0 /\ slab_rebal'.slab_end = slab_rebal.slab_end /\ slab_rebal'.done = FALSE
    BY <2>2 DEF RType, Move
  <2>4. slab_rebal.slab_end # 0
    <3>1. slab_rebal.slab_start \in Nat /\ slab_rebal.slab_end = slab_rebal.slab_start + 1
      BY <2>1, PageAssumption DEF Moving
    <3> QED BY <3>1
  <2>5. Ending'
    BY <2>1, <2>2, <2>3, <2>4 DEF Ending, Moving
  <2> QED BY <2>5 DEF RInv
<1>8. CASE FinishEnds
  <2>1. Ending
    <3>1. slab_rebal.slab_start = 0 /\ slab_rebal.slab_end # 0
      BY <1>8 DEF FinishEnds, CacheLockFree
    <3>2. ~Moving
      BY <3>1, FirstPage, PageAssumption DEF Moving, Chosen
    <3> QED BY <3>1, <3>2 DEF RInv, Waiting
  <2>2. /\ slab_rebal' = [slab_rebal EXCEPT !.slab_end = 0, !.slab_pos = 0]
        /\ slab_rebalance_signal' = 0 /\ slabs_rebalance_lock' = "free"
    BY <1>8 DEF FinishEnds, CondWait
  <2>3. slab_rebal'.slab_start = slab_rebal.slab_start /\ slab_rebal'.slab_end = 0 /\ slab_rebal'.done = slab_rebal.done
    BY <2>2 DEF RType, Move
  <2> QED BY <2>1, <2>2, <2>3 DEF RInv, Waiting, Ending
<1> QED BY <1>1, <1>2, <1>3, <1>4, <1>5, <1>6, <1>7, <1>8, RebalancerStep DEF RebalancerSteps, Rebalance

-----------------------------------------------------------------------------
(* Whose a chunk is *)

LEMMA HomesAlone ==
  ASSUME UNCHANGED slab_list
  PROVE  \A c : ChunksIn(c)' = ChunksIn(c)
  BY DEF ChunksIn

LEMMA HomesGrown ==
  ASSUME TInv, PInv, NEW c \in Class, NEW p, Grown(c, p)
  PROVE  /\ ChunksIn(c)' = ChunksIn(c) \cup ChunksOf(p, c)
         /\ \A d \in Class \ {c} : ChunksIn(d)' = ChunksIn(d)
         /\ \A d \in Class : \A i \in ChunksOf(p, c) : i \notin ChunksIn(d)
<1>1. /\ \A d \in Class : p \notin ToSet(slab_list[d])
      /\ ToSet(slab_list'[c]) = ToSet(slab_list[c]) \cup {p}
      /\ \A d \in Class \ {c} : slab_list'[d] = slab_list[d]
  BY PageGrown
<1>2. ChunksIn(c)' = ChunksIn(c) \cup ChunksOf(p, c)
  BY <1>1 DEF ChunksIn
<1>3. \A d \in Class \ {c} : ChunksIn(d)' = ChunksIn(d)
  BY <1>1 DEF ChunksIn
<1>4. \A i \in ChunksOf(p, c) : i[1] = p
  BY ChunkFacts
<1> QED BY <1>1, <1>2, <1>3, <1>4, ChunksInFacts

LEMMA HomesMoved ==
  ASSUME TInv, RType, RInv, PInv, slab_rebalance_finish,
         NEW s, s = slab_rebal.s_clsid, NEW d, d = slab_rebal.d_clsid, NEW p, p = slab_rebal.slab_start
  PROVE  /\ \A i : i \in ChunksIn(s)' <=> i \in ChunksIn(s) /\ i[1] # p
         /\ ChunksIn(d)' = ChunksIn(d) \cup ChunksOf(p, d)
         /\ \A c \in Class \ {s, d} : ChunksIn(c)' = ChunksIn(c)
         /\ \A c \in Class \ {s} : \A i \in ChunksIn(c) : i[1] # p
         /\ \A i \in ChunksIn(s) : i[1] = p => i \in ChunksOf(p, s)
<1>1. /\ \A c \in Class \ {s} : p \notin ToSet(slab_list[c])
      /\ ToSet(slab_list'[s]) = ToSet(slab_list[s]) \ {p}
      /\ ToSet(slab_list'[d]) = ToSet(slab_list[d]) \cup {p}
      /\ \A c \in Class \ {s, d} : slab_list'[c] = slab_list[c]
  BY PageMoved
<1>2. \A i : i \in ChunksIn(s)' <=> i \in ChunksIn(s) /\ i[1] # p
  <2>1. \A i : i \in ChunksIn(s)' <=> \E q \in ToSet(slab_list[s]) \ {p} : i \in ChunksOf(q, s)
    BY <1>1 DEF ChunksIn
  <2>2. \A i : i \in ChunksIn(s) <=> \E q \in ToSet(slab_list[s]) : i \in ChunksOf(q, s)
    BY DEF ChunksIn
  <2>3. \A i, q : i \in ChunksOf(q, s) => i[1] = q
    BY ChunkFacts
  <2> QED BY <2>1, <2>2, <2>3
<1>3. ChunksIn(d)' = ChunksIn(d) \cup ChunksOf(p, d)
  BY <1>1 DEF ChunksIn
<1>4. \A c \in Class \ {s, d} : ChunksIn(c)' = ChunksIn(c)
  BY <1>1 DEF ChunksIn
<1>5. \A c \in Class \ {s} : \A i \in ChunksIn(c) : i[1] # p
  BY <1>1, ChunksInFacts
<1>6. \A i \in ChunksIn(s) : i[1] = p => i \in ChunksOf(p, s)
  BY ChunksInFacts
<1> QED BY <1>2, <1>3, <1>4, <1>5, <1>6

\* Whatever is linked or with a worker is in a page of some class.
LEMMA OnlyHoused ==
  ASSUME TInv, KInv, WInv, NEW i \in Chunk, \A c \in Class : i \notin ChunksIn(c)
  PROVE  i \notin ITEM_LINKED /\ \A w \in Worker : it[w] # i
<1>1. ~Housed(i)
  BY DEF Housed
<1>2. i \notin ITEM_LINKED
  BY <1>1 DEF KInv
<1>3. ASSUME NEW w \in Worker, it[w] = i PROVE FALSE
  <2>1. pc[w] # "idle"
    BY <1>3, WorkerAssumption DEF TInv
  <2>2. pc[w] \notin {"own", "hold"} /\ pc[w] # "init" /\ pc[w] # "found"
    BY <1>1, <1>2, <1>3 DEF WInv
  <2> QED BY <2>1, <2>2 DEF TInv
<1> QED BY <1>2, <1>3

\* When a pass is over nothing of the page is linked or with a worker.
LEMMA PageClear ==
  ASSUME IInv, slab_rebal.done, NEW i \in Chunk, i[1] = slab_rebal.slab_start
  PROVE  /\ i \notin ITEM_LINKED /\ Holders(i) = {} /\ \A w \in Worker : it[w] # i
         /\ \A c \in Class : i \notin slots[c]
<1> USE DEF IInv
<1> DEFINE s == slab_rebal.s_clsid
           p == slab_rebal.slab_start
<1>1. s \in Class /\ p # 0 /\ \A c \in Class \ {s} : p \notin ToSet(slab_list[c])
  BY MoveAtHand DEF PInv
<1>2. CASE i \in ChunksOf(p, s)
  <2>1. i = Slab(i[2]) /\ i[2] \in 1..perslab[s]
    BY <1>2, ChunkFacts DEF Slab
  <2>2. slabs_clsid[i] = 255
    BY <1>1, <2>1 DEF Cleared
  <2>3. refcount[i] = 0
    BY <2>2 DEF KInv
  <2>4. i \notin ITEM_LINKED /\ Holders(i) = {}
    BY <2>3, ReferenceFacts
  <2>5. \A c \in Class : i \notin slots[c]
    BY <2>2 DEF KInv
  <2> QED BY <2>4, <2>5, NobodyThere
<1>3. CASE i \notin ChunksOf(p, s)
  <2>1. \A c \in Class : i \notin ChunksIn(c)
    BY <1>1, <1>3, ChunksInFacts
  <2>2. i \notin ITEM_LINKED /\ \A w \in Worker : it[w] # i
    BY <2>1, OnlyHoused
  <2>3. Holders(i) = {}
    BY <2>2 DEF Holders
  <2>4. \A c \in Class : i \notin slots[c]
    BY <2>1 DEF KInv
  <2> QED BY <2>2, <2>3, <2>4
<1> QED BY <1>2, <1>3

-----------------------------------------------------------------------------
(* Counts *)

Holding == {"init", "own", "hold"}

LEMMA HoldersAlone ==
  ASSUME UNCHANGED it, \A w \in Worker : pc'[w] \in Holding <=> pc[w] \in Holding
  PROVE  \A j : Holders(j)' = Holders(j)
  BY DEF Holders, Holding

LEMMA HolderComes ==
  ASSUME TInv, NEW w \in Worker, NEW i \in Chunk, pc[w] \notin Holding,
         NEW l \in Holding, pc' = [pc EXCEPT ![w] = l], it' = [it EXCEPT ![w] = i]
  PROVE  /\ Cardinality(Holders(i))' = Cardinality(Holders(i)) + 1
         /\ \A j : j # i => Holders(j)' = Holders(j)
<1>1. Holders(i)' = Holders(i) \cup {w} /\ w \notin Holders(i)
  BY DEF Holders, Holding, TInv
<1>2. \A j : j # i => Holders(j)' = Holders(j)
  BY DEF Holders, Holding, TInv
<1>3. Cardinality(Holders(i) \cup {w}) = Cardinality(Holders(i)) + 1
  BY <1>1, HoldersFinite, FS_AddElement
<1> QED BY <1>1, <1>2, <1>3

LEMMA HolderGoes ==
  ASSUME TInv, NEW w \in Worker, NEW i \in Chunk, pc[w] \in Holding, it[w] = i,
         pc' = [pc EXCEPT ![w] = "idle"], it' = [it EXCEPT ![w] = NULL]
  PROVE  /\ Cardinality(Holders(i))' = Cardinality(Holders(i)) - 1
         /\ \A j \in Chunk : j # i => Holders(j)' = Holders(j)
<1>1. w \in Holders(i) /\ Holders(i)' = Holders(i) \ {w}
  BY DEF Holders, Holding, TInv
<1>2. \A j \in Chunk : j # i => Holders(j)' = Holders(j)
  BY WorkerAssumption DEF Holders, Holding, TInv
<1>3. Cardinality(Holders(i) \ {w}) = Cardinality(Holders(i)) - 1
  BY <1>1, HoldersFinite, FS_RemoveElement
<1> QED BY <1>1, <1>2, <1>3

LEMMA CountsOfInit == Init => CountsReferences
<1> SUFFICES ASSUME Init, NEW i \in Chunk PROVE refcount[i] = Cardinality(Holders(i)) + (IF i \in ITEM_LINKED THEN 1 ELSE 0)
  BY DEF CountsReferences
<1>1. Holders(i) = {} /\ refcount[i] = 0 /\ i \notin ITEM_LINKED
  BY DEF Init, Holders
<1> QED BY <1>1, FS_EmptySet

\* A step that changes the references to one chunk only.
LEMMA CountsStep ==
  ASSUME TInv, CountsReferences, NEW i \in Chunk, NEW n, NEW h,
         refcount' = [refcount EXCEPT ![i] = n],
         \A j \in Chunk : j # i => (j \in ITEM_LINKED' <=> j \in ITEM_LINKED),
         \A j \in Chunk : j # i => Holders(j)' = Holders(j),
         Cardinality(Holders(i))' = h, n = h + (IF i \in ITEM_LINKED' THEN 1 ELSE 0)
  PROVE  CountsReferences'
<1> SUFFICES ASSUME NEW j \in Chunk
             PROVE  refcount'[j] = Cardinality(Holders(j))' + (IF j \in ITEM_LINKED' THEN 1 ELSE 0)
  BY DEF CountsReferences
<1>1. CASE j = i
  BY <1>1 DEF TInv
<1>2. CASE j # i
  <2>1. refcount'[j] = refcount[j] /\ Cardinality(Holders(j))' = Cardinality(Holders(j)) /\ (j \in ITEM_LINKED' <=> j \in ITEM_LINKED)
    BY <1>2 DEF TInv
  <2>2. refcount[j] = Cardinality(Holders(j)) + (IF j \in ITEM_LINKED THEN 1 ELSE 0)
    BY DEF CountsReferences
  <2> QED BY <2>1, <2>2
<1> QED BY <1>1, <1>2

LEMMA CountsAlone ==
  ASSUME CountsReferences, UNCHANGED <<refcount, ITEM_LINKED>>, \A j : Holders(j)' = Holders(j)
  PROVE  CountsReferences'
<1> SUFFICES ASSUME NEW j \in Chunk
             PROVE  refcount'[j] = Cardinality(Holders(j))' + (IF j \in ITEM_LINKED' THEN 1 ELSE 0)
  BY DEF CountsReferences
<1>1. refcount[j] = Cardinality(Holders(j)) + (IF j \in ITEM_LINKED THEN 1 ELSE 0)
  BY DEF CountsReferences
<1>2. Cardinality(Holders(j))' = Cardinality(Holders(j))
  OBVIOUS
<1> QED BY <1>1, <1>2

\* The chunk that do_item_alloc gets is nobody's.
LEMMA AllocatedChunk ==
  ASSUME IInv, NEW w \in Worker, NEW c \in Class, NEW i \in Chunk,
         AllocFree(w, c, i) \/ TakeChunkOf(w, c, i)
  PROVE  /\ Holders(i) = {} /\ i \notin ITEM_LINKED' /\ \A v \in Worker : it[v] # i
         /\ \A j \in Chunk : j # i => (j \in ITEM_LINKED' <=> j \in ITEM_LINKED)
         /\ i \in ChunksIn(c)' /\ slabs_clsid'[i] = 0
<1> USE DEF IInv
<1>1. CASE TakeChunkOf(w, c, i)
  <2>1. /\ i \in ITEM_LINKED /\ refcount[i] = 1 /\ ~ItemLocked(i) /\ slabs_clsid[i] = c
        /\ ITEM_LINKED' = ITEM_LINKED \ {i} /\ slabs_clsid' = [slabs_clsid EXCEPT ![i] = 0]
        /\ UNCHANGED slab_list
    BY <1>1 DEF TakeChunkOf, pages
  <2>2. Holders(i) = {}
    BY <2>1, ReferenceFacts
  <2>3. \A v \in Worker : it[v] # i
    BY <2>1, <2>2, NobodyElse
  <2>4. i \in ChunksIn(c)
    BY <2>1 DEF KInv, Housed
  <2>5. i \in ChunksIn(c)'
    BY <2>1, <2>4, HomesAlone
  <2> QED BY <2>1, <2>2, <2>3, <2>5 DEF TInv
<1>2. CASE AllocFree(w, c, i)
  <2>1. UNCHANGED <<ITEM_LINKED, slabs_clsid>> /\ slabs_alloc(c, i)
    BY <1>2 DEF AllocFree
  <2>2. CASE i \in slots[c] /\ UNCHANGED pages
    <3>1. refcount[i] = 0 /\ slabs_clsid[i] = 0 /\ i \in ChunksIn(c)
      BY <2>2 DEF KInv
    <3>2. Holders(i) = {} /\ i \notin ITEM_LINKED
      BY <3>1, ReferenceFacts
    <3>3. i \in ChunksIn(c)'
      BY <2>2, <3>1, HomesAlone DEF pages
    <3> QED BY <2>1, <3>1, <3>2, <3>3, NobodyThere
  <2>3. ASSUME NEW p, Grown(c, p), i \in ChunksOf(p, c) PROVE /\ Holders(i) = {} /\ i \notin ITEM_LINKED
                     /\ (\A v \in Worker : it[v] # i) /\ i \in ChunksIn(c)' /\ slabs_clsid[i] = 0
    <3>1. /\ \A d \in Class : i \notin ChunksIn(d)
          /\ i \in ChunksIn(c)'
      BY <2>3, HomesGrown
    <3>2. i \notin ITEM_LINKED /\ \A v \in Worker : it[v] # i
      BY <3>1, OnlyHoused
    <3>3. Holders(i) = {}
      BY <3>2 DEF Holders
    <3> QED BY <3>1, <3>2, <3>3 DEF KInv
  <2> QED BY <2>1, <2>2, <2>3 DEF slabs_alloc, Grown
<1> QED BY <1>1, <1>2

LEMMA CountsOfAlloc ==
  ASSUME IInv, NEW w \in Worker, NEW c \in Class, NEW i \in Chunk,
         AllocFree(w, c, i) \/ TakeChunkOf(w, c, i)
  PROVE  CountsReferences'
<1>1. /\ pc[w] = "idle" /\ pc' = [pc EXCEPT ![w] = "init"] /\ it' = [it EXCEPT ![w] = i]
      /\ refcount' = [refcount EXCEPT ![i] = 1]
  BY DEF AllocFree, TakeChunkOf, Allocated, Goto
<1>2. /\ Holders(i) = {} /\ i \notin ITEM_LINKED'
      /\ \A j \in Chunk : j # i => (j \in ITEM_LINKED' <=> j \in ITEM_LINKED)
  BY AllocatedChunk
<1>3. /\ Cardinality(Holders(i))' = Cardinality(Holders(i)) + 1
      /\ \A j : j # i => Holders(j)' = Holders(j)
  BY <1>1, HolderComes DEF IInv, Holding
<1>4. Cardinality(Holders(i))' = 1
  BY <1>2, <1>3, FS_EmptySet
<1>5. TInv /\ CountsReferences
  BY DEF IInv
<1>6. PICK n : n = 1
  OBVIOUS
<1>7. n = n + (IF i \in ITEM_LINKED' THEN 1 ELSE 0)
  BY <1>2, <1>6
<1>8. refcount' = [refcount EXCEPT ![i] = n] /\ Cardinality(Holders(i))' = n
  BY <1>1, <1>4, <1>6
<1>9. \A j \in Chunk : j # i => Holders(j)' = Holders(j)
  BY <1>3
<1> QED BY <1>2, <1>5, <1>7, <1>8, <1>9, CountsStep

\* The hash table's reference goes, and its link with it.
LEMMA CountsOfUnlink ==
  ASSUME TInv, CountsReferences, NEW i \in ITEM_LINKED, NEW n, n = refcount[i] - 1,
         refcount' = [refcount EXCEPT ![i] = n], ITEM_LINKED' = ITEM_LINKED \ {i},
         \A j : Holders(j)' = Holders(j)
  PROVE  CountsReferences'
<1>1. i \in Chunk
  BY DEF TInv
<1>2. refcount[i] = Cardinality(Holders(i)) + 1 /\ Cardinality(Holders(i)) \in Nat
  BY <1>1, HoldersFinite DEF CountsReferences
<1>3. n = Cardinality(Holders(i))
  BY <1>2
<1>4. n = Cardinality(Holders(i)) + (IF i \in ITEM_LINKED' THEN 1 ELSE 0)
  BY <1>2, <1>3
<1>5. Cardinality(Holders(i))' = Cardinality(Holders(i))
  OBVIOUS
<1>6. PICK h : h = Cardinality(Holders(i))
  OBVIOUS
<1> QED BY <1>1, <1>4, <1>5, <1>6, CountsStep

LEMMA CountsOfCommand ==
  ASSUME IInv, NEW w \in Worker,
         \/ InitHeader(w) \/ do_item_link(w) \/ (\E i \in Chunk : Find(w, i)) \/ TakeReference(w)
         \/ do_item_unlink(w) \/ item_remove(w)
  PROVE  CountsReferences'
<1> USE DEF IInv
<1>0. PICK i : i = it[w]
  OBVIOUS
<1>1. CASE InitHeader(w)
  <2>1. UNCHANGED <<refcount, ITEM_LINKED, it>> /\ pc[w] = "init" /\ pc' = [pc EXCEPT ![w] = "own"]
    BY <1>1 DEF InitHeader, Goto
  <2>2. \A j : Holders(j)' = Holders(j)
    BY <2>1, HoldersAlone DEF Holding, TInv
  <2> QED BY <2>1, <2>2, CountsAlone
<1>2. CASE do_item_link(w)
  <2>1. /\ ITEM_LINKED' = ITEM_LINKED \cup {i} /\ refcount' = [refcount EXCEPT ![i] = refcount[i] + 1]
        /\ UNCHANGED it /\ pc[w] = "own" /\ pc' = [pc EXCEPT ![w] = "hold"]
    BY <1>0, <1>2 DEF do_item_link, Goto
  <2>2. \A j : Holders(j)' = Holders(j)
    BY <2>1, HoldersAlone DEF Holding, TInv
  <2>3. i \in Chunk /\ i \notin ITEM_LINKED
    BY <1>0, <2>1, AtHand DEF WInv
  <2>4. refcount[i] = Cardinality(Holders(i)) /\ Cardinality(Holders(i)) \in Nat
    BY <2>3, HoldersFinite DEF CountsReferences
  <2>5. PICK h : h = Cardinality(Holders(i))
    OBVIOUS
  <2>6. PICK n : n = refcount[i] + 1
    OBVIOUS
  <2>7. Cardinality(Holders(i))' = h
    BY <2>2, <2>5
  <2>8. n = h + (IF i \in ITEM_LINKED' THEN 1 ELSE 0)
    BY <2>1, <2>4, <2>5, <2>6
  <2> QED BY <2>1, <2>2, <2>3, <2>6, <2>7, <2>8, CountsStep
<1>3. ASSUME NEW k \in Chunk, Find(w, k) PROVE CountsReferences'
  <2>1. /\ UNCHANGED <<refcount, ITEM_LINKED>> /\ pc[w] = "idle"
        /\ pc' = [pc EXCEPT ![w] = "found"] /\ it' = [it EXCEPT ![w] = k]
    BY <1>3 DEF Find, Goto, items
  <2>2. \A j : Holders(j)' = Holders(j)
    BY <2>1 DEF Holders, TInv
  <2> QED BY <2>1, <2>2, CountsAlone
<1>4. CASE TakeReference(w)
  <2>1. pc[w] = "found" /\ i \in ITEM_LINKED /\ i \in Chunk
    BY <1>0, <1>4, AtHand DEF TakeReference, WInv
  <2>2. refcount[i] \in Nat
    BY <2>1 DEF TInv
  <2>3. CASE InDyingPage(i)
    <3>1. /\ ITEM_LINKED' = ITEM_LINKED \ {i} /\ refcount' = [refcount EXCEPT ![i] = refcount[i] + 1 - 1 - 1]
          /\ pc' = [pc EXCEPT ![w] = "idle"] /\ it' = [it EXCEPT ![w] = NULL]
      BY <1>0, <1>4, <2>3 DEF TakeReference, do_item_remove, Forget, Goto
    <3>2. PICK n : n = refcount[i] - 1
      OBVIOUS
    <3>3. refcount' = [refcount EXCEPT ![i] = n]
      <4>1. refcount[i] + 1 - 1 - 1 = n
        BY <2>2, <3>2
      <4> QED BY <3>1, <4>1
    <3>4. \A j : Holders(j)' = Holders(j)
      BY <2>1, <3>1 DEF Holders, TInv
    <3> QED BY <2>1, <3>1, <3>2, <3>3, <3>4, CountsOfUnlink
  <2>4. CASE ~InDyingPage(i)
    <3>1. /\ refcount' = [refcount EXCEPT ![i] = refcount[i] + 1] /\ UNCHANGED <<it, ITEM_LINKED>>
          /\ pc' = [pc EXCEPT ![w] = "hold"]
      BY <1>0, <1>4, <2>4 DEF TakeReference, Goto
    <3>2. it' = [it EXCEPT ![w] = i]
      BY <1>0, <3>1 DEF TInv
    <3>3. /\ Cardinality(Holders(i))' = Cardinality(Holders(i)) + 1
          /\ \A j : j # i => Holders(j)' = Holders(j)
      BY <2>1, <3>1, <3>2, HolderComes DEF Holding
    <3>4. refcount[i] = Cardinality(Holders(i)) + 1 /\ Cardinality(Holders(i)) \in Nat
      BY <2>1, HoldersFinite DEF CountsReferences
    <3>5. PICK h : h = Cardinality(Holders(i)) + 1
      OBVIOUS
    <3>6. PICK n : n = refcount[i] + 1
      OBVIOUS
    <3>7. n = h + (IF i \in ITEM_LINKED' THEN 1 ELSE 0)
      BY <2>1, <3>1, <3>4, <3>5, <3>6
    <3> QED BY <2>1, <3>1, <3>3, <3>5, <3>6, <3>7, CountsStep
  <2> QED BY <2>3, <2>4
<1>5. CASE do_item_unlink(w)
  <2>1. /\ i \in ITEM_LINKED /\ ITEM_LINKED' = ITEM_LINKED \ {i} /\ UNCHANGED <<pc, it>>
        /\ refcount' = [refcount EXCEPT ![i] = refcount[i] - 1]
    BY <1>0, <1>5 DEF do_item_unlink, do_item_remove, command
  <2>2. \A j : Holders(j)' = Holders(j)
    BY <2>1, HoldersAlone
  <2>3. PICK n : n = refcount[i] - 1
    OBVIOUS
  <2> QED BY <2>1, <2>2, <2>3, CountsOfUnlink
<1>6. CASE item_remove(w)
  <2>1. /\ pc[w] \in {"own", "hold"} /\ UNCHANGED ITEM_LINKED
        /\ refcount' = [refcount EXCEPT ![i] = refcount[i] - 1]
        /\ pc' = [pc EXCEPT ![w] = "idle"] /\ it' = [it EXCEPT ![w] = NULL]
    BY <1>0, <1>6 DEF item_remove, do_item_remove, Forget, Goto
  <2>2. i \in Chunk
    BY <1>0, <2>1, AtHand
  <2>3. /\ Cardinality(Holders(i))' = Cardinality(Holders(i)) - 1
        /\ \A j \in Chunk : j # i => Holders(j)' = Holders(j)
    BY <1>0, <2>1, <2>2, HolderGoes DEF Holding
  <2>4. /\ refcount[i] = Cardinality(Holders(i)) + (IF i \in ITEM_LINKED THEN 1 ELSE 0)
        /\ Cardinality(Holders(i)) \in Nat
    BY <2>2, HoldersFinite DEF CountsReferences
  <2>5. PICK h : h = Cardinality(Holders(i)) - 1
    OBVIOUS
  <2>6. PICK n : n = refcount[i] - 1
    OBVIOUS
  <2>7. n = h + (IF i \in ITEM_LINKED' THEN 1 ELSE 0)
    BY <2>1, <2>4, <2>5, <2>6
  <2> QED BY <2>1, <2>2, <2>3, <2>5, <2>6, <2>7, CountsStep
<1> QED BY <1>1, <1>2, <1>3, <1>4, <1>5, <1>6

LEMMA CountsOfRebalancer ==
  ASSUME IInv, Rebalance
  PROVE  CountsReferences'
<1> USE DEF IInv
<1>1. UNCHANGED <<pc, it>> /\ \A j : Holders(j)' = Holders(j)
  <2>1. UNCHANGED <<pc, it>>
    BY DEF Rebalance, slab_rebalance_start, RebalanceStartFails, slab_rebalance_move, slab_rebalance_finish,
       FinishEnds, command
  <2> QED BY <2>1, HoldersAlone
<1>2. CASE slab_rebalance_start \/ RebalanceStartFails \/ FinishEnds
  <2>1. UNCHANGED <<refcount, ITEM_LINKED>>
    BY <1>2 DEF slab_rebalance_start, RebalanceStartFails, FinishEnds, items
  <2> QED BY <1>1, <2>1, CountsAlone
<1>3. CASE slab_rebalance_move
  <2>1. PICK i : i = Slab(slab_rebal.slab_pos)
    OBVIOUS
  <2>2. i \in Chunk
    BY <1>3, <2>1, MovePosition DEF slab_rebalance_move
  <2>3. CASE Idle(i) /\ MOVE_DONE(i)
    <3>1. Holders(i) = {}
      BY <2>2, <2>3, ReferenceFacts DEF Idle
    <3>2. PICK n : n = 0
      OBVIOUS
    <3>3. /\ refcount' = [refcount EXCEPT ![i] = n] /\ i \notin ITEM_LINKED'
          /\ \A j \in Chunk : j # i => (j \in ITEM_LINKED' <=> j \in ITEM_LINKED)
      BY <2>3, <3>2 DEF MOVE_DONE
    <3>4. Cardinality(Holders(i))' = n
      BY <1>1, <3>1, <3>2, FS_EmptySet
    <3>5. n = n + (IF i \in ITEM_LINKED' THEN 1 ELSE 0)
      BY <3>2, <3>3
    <3> QED BY <1>1, <2>2, <3>3, <3>4, <3>5, CountsStep
  <2>4. CASE UNCHANGED <<refcount, ITEM_LINKED>>
    BY <1>1, <2>4, CountsAlone
  <2> QED BY <1>3, <2>1, <2>3, <2>4 DEF slab_rebalance_move, items
<1>4. CASE slab_rebalance_finish
  <2> SUFFICES ASSUME NEW j \in Chunk
               PROVE  refcount'[j] = Cardinality(Holders(j))' + (IF j \in ITEM_LINKED' THEN 1 ELSE 0)
    BY DEF CountsReferences
  <2>1. /\ UNCHANGED ITEM_LINKED /\ Cardinality(Holders(j))' = Cardinality(Holders(j))
        /\ refcount'[j] = IF j[1] = slab_rebal.slab_start THEN 0 ELSE refcount[j]
    BY <1>1, <1>4 DEF slab_rebalance_finish
  <2>2. CASE j[1] = slab_rebal.slab_start
    <3>1. j \notin ITEM_LINKED /\ Holders(j) = {}
      BY <1>4, <2>2, PageClear DEF slab_rebalance_finish
    <3> QED BY <2>1, <2>2, <3>1, FS_EmptySet
  <2>3. CASE j[1] # slab_rebal.slab_start
    <3>1. refcount[j] = Cardinality(Holders(j)) + (IF j \in ITEM_LINKED THEN 1 ELSE 0)
      BY DEF CountsReferences
    <3> QED BY <2>1, <2>3, <3>1
  <2> QED BY <2>2, <2>3
<1> QED BY <1>2, <1>3, <1>4 DEF Rebalance

LEMMA CountsKept == IInv /\ [Next]_vars => CountsReferences'
<1> SUFFICES ASSUME IInv, [Next]_vars PROVE CountsReferences'
  OBVIOUS
<1>1. ASSUME UNCHANGED <<pc, it, refcount, ITEM_LINKED>> PROVE CountsReferences'
  <2>1. \A j : Holders(j)' = Holders(j)
    BY <1>1, HoldersAlone
  <2> QED BY <1>1, <2>1, CountsAlone DEF IInv
<1>2. CASE UNCHANGED vars \/ WakeUp \/ slabs_rebalancer_pause \/ slabs_rebalancer_resume
  BY <1>1, <1>2 DEF vars, items, command, WakeUp, slabs_rebalancer_pause, slabs_rebalancer_resume
<1>3. ASSUME NEW src \in Class, NEW dst \in Class, Reassign(src, dst) PROVE CountsReferences'
  BY <1>1, <1>3 DEF items, command, Reassign
<1>4. ASSUME NEW w \in Worker, DoItemAlloc(w) PROVE CountsReferences'
  BY <1>4, CountsOfAlloc DEF DoItemAlloc, AllocExpired, AllocEvict
<1> QED BY <1>2, <1>3, <1>4, CountsOfCommand, CountsOfRebalancer DEF Next, Work

-----------------------------------------------------------------------------
(* Chunks *)

ChunkOK(i) ==
  /\ \A c \in Class : i \in slots[c] => i \in ChunksIn(c) /\ refcount[i] = 0 /\ slabs_clsid[i] = 0
  /\ \A c \in Class : i \in ChunksIn(c) /\ i \notin slots[c] /\ slabs_clsid[i] # 255 =>
       refcount[i] > 0 /\ slabs_clsid[i] \in {0, c}
  /\ slabs_clsid[i] = 255 =>
       /\ slab_rebal.slab_start # 0 /\ i \in ChunksOf(slab_rebal.slab_start, slab_rebal.s_clsid)
       /\ refcount[i] = 0
  /\ (\A c \in Class : i \notin ChunksIn(c)) => slabs_clsid[i] = 0
  /\ i \in ITEM_LINKED => Housed(i)

AllChunksOK == \A i \in Chunk : ChunkOK(i)

LEMMA ChunkByChunk == TInv => (KInv <=> AllChunksOK)
<1> SUFFICES ASSUME TInv PROVE KInv <=> \A i \in Chunk : ChunkOK(i)
  BY DEF AllChunksOK
<1>1. /\ \A c \in Class : slots[c] \subseteq Chunk /\ ChunksIn(c) \subseteq Chunk
      /\ ITEM_LINKED \subseteq Chunk
  BY PagesKnown DEF TInv
<1>2. ASSUME KInv, NEW i \in Chunk PROVE ChunkOK(i)
  BY <1>2 DEF KInv, ChunkOK
<1>3. ASSUME \A i \in Chunk : ChunkOK(i) PROVE KInv
  BY <1>1, <1>3 DEF KInv, ChunkOK
<1> QED BY <1>2, <1>3

\* The page that is being moved stays the one until the move is finished.
SamePage == slab_rebal.slab_start # 0 => /\ slab_rebal'.slab_start = slab_rebal.slab_start
                                         /\ slab_rebal'.s_clsid = slab_rebal.s_clsid

LEMMA PageStays ==
  ASSUME IInv, [Next]_vars, ~slab_rebalance_finish
  PROVE  SamePage
<1> USE DEF IInv
<1>1. CASE UNCHANGED rebalancer \/ WakeUp \/ slabs_rebalancer_pause \/ slabs_rebalancer_resume
  BY <1>1 DEF rebalancer, WakeUp, slabs_rebalancer_pause, slabs_rebalancer_resume, SamePage
<1>2. ASSUME NEW src \in Class, NEW dst \in Class, MayReassign(src, dst) PROVE SamePage
  BY <1>2, MoveAtHand DEF MayReassign, Moving, SamePage
<1>3. CASE slab_rebalance_start \/ RebalanceStartFails
  BY <1>3, MoveAtHand DEF slab_rebalance_start, RebalanceStartFails, Moving, SamePage
<1>4. CASE slab_rebalance_move
  <2>1. PICK busy : NextPosition(busy)
    BY <1>4 DEF slab_rebalance_move
  <2> QED BY <2>1 DEF NextPosition, RType, Move, SamePage
<1>5. CASE FinishEnds
  BY <1>5 DEF FinishEnds, CacheLockFree, SamePage
<1> QED BY <1>1, <1>2, <1>3, <1>4, <1>5, RebalancerStep DEF RebalancerSteps, Rebalance

\* A chunk that a step leaves alone.
LEMMA ChunkAlone ==
  ASSUME NEW j, ChunkOK(j), SamePage \/ slabs_clsid[j] # 255,
         refcount'[j] = refcount[j], slabs_clsid'[j] = slabs_clsid[j], j \in ITEM_LINKED' => j \in ITEM_LINKED,
         \A c \in Class : j \in slots'[c] <=> j \in slots[c],
         \A c \in Class : j \in ChunksIn(c)' <=> j \in ChunksIn(c)
  PROVE  ChunkOK(j)'
<1>1. /\ \A c \in Class : j \in slots'[c] => j \in ChunksIn(c)' /\ refcount'[j] = 0 /\ slabs_clsid'[j] = 0
      /\ \A c \in Class : j \in ChunksIn(c)' /\ j \notin slots'[c] /\ slabs_clsid'[j] # 255 =>
           refcount'[j] > 0 /\ slabs_clsid'[j] \in {0, c}
      /\ (\A c \in Class : j \notin ChunksIn(c)') => slabs_clsid'[j] = 0
  BY DEF ChunkOK
<1>2. slabs_clsid'[j] = 255 =>
       /\ slab_rebal'.slab_start # 0 /\ j \in ChunksOf(slab_rebal'.slab_start, slab_rebal'.s_clsid)
       /\ refcount'[j] = 0
  BY DEF ChunkOK, SamePage
<1>3. j \in ITEM_LINKED' => Housed(j)'
  BY DEF ChunkOK, Housed
<1>4. ChunksOf(slab_rebal'.slab_start, slab_rebal'.s_clsid) = ChunksOf(slab_rebal.slab_start, slab_rebal.s_clsid)'
  BY DEF ChunksOf
<1> QED BY <1>1, <1>2, <1>3, <1>4 DEF ChunkOK

\* A chunk in use.
LEMMA ChunkUsed ==
  ASSUME PInv', NEW i, NEW c \in Class, i \in ChunksIn(c)', refcount'[i] > 0, slabs_clsid'[i] \in {0, c},
         \A d \in Class : i \notin slots'[d], i \in ITEM_LINKED' => slabs_clsid'[i] = c
  PROVE  ChunkOK(i)'
<1>1. slabs_clsid'[i] # 255
  BY ClassAssumption
<1>2. \A d \in Class : i \in ChunksIn(d)' => d = c
  <2> SUFFICES ASSUME NEW d \in Class, i \in ChunksIn(d)' PROVE d = c
    OBVIOUS
  <2>1. (\E p \in ToSet(slab_list'[c]) : i \in ChunksOf(p, c)) /\ (\E p \in ToSet(slab_list'[d]) : i \in ChunksOf(p, d))
    BY DEF ChunksIn
  <2>2. i[1] \in ToSet(slab_list'[c]) /\ i[1] \in ToSet(slab_list'[d])
    BY <2>1, ChunkFacts
  <2> QED BY <2>2 DEF PInv
<1>3. i \in ITEM_LINKED' => Housed(i)'
  BY DEF Housed
<1>4. \A d \in Class : i \in ChunksIn(d)' => slabs_clsid'[i] \in {0, d}
  BY <1>2
<1> QED BY <1>1, <1>3, <1>4 DEF ChunkOK

LEMMA ChunksOfInit == Init => KInv
<1> SUFFICES ASSUME Init PROVE KInv
  OBVIOUS
<1>1. \A c \in Class : slab_list[c] = <<>>
  BY DEF Init
<1>2. \A c \in Class : ChunksIn(c) = {}
  BY <1>1 DEF ChunksIn, ToSet
<1>3. \A c \in Class : slots[c] = {}
  BY DEF Init
<1>4. ITEM_LINKED = {} /\ \A i \in Chunk : slabs_clsid[i] = 0
  BY DEF Init
<1> QED BY <1>2, <1>3, <1>4 DEF KInv

LEMMA ChunksOfAlloc ==
  ASSUME IInv, TInv', PInv', SamePage, NEW w \in Worker, NEW c \in Class, NEW i \in Chunk,
         AllocFree(w, c, i) \/ TakeChunkOf(w, c, i)
  PROVE  \A j \in Chunk : ChunkOK(j)'
<1> USE DEF IInv
<1>1. refcount' = [refcount EXCEPT ![i] = 1]
  BY DEF AllocFree, TakeChunkOf, Allocated
<1>2. /\ i \notin ITEM_LINKED' /\ i \in ChunksIn(c)' /\ slabs_clsid'[i] = 0
      /\ \A j \in Chunk : j # i => (j \in ITEM_LINKED' <=> j \in ITEM_LINKED)
  BY AllocatedChunk
<1>3. refcount'[i] > 0 /\ \A j \in Chunk : j # i => refcount'[j] = refcount[j]
  BY <1>1 DEF TInv
<1>4. \A j \in Chunk : j # i => slabs_clsid'[j] = slabs_clsid[j]
  BY DEF AllocFree, TakeChunkOf, TInv
<1>5. \A j \in Chunk : ChunkOK(j)
  BY ChunkByChunk DEF AllChunksOK
<1>6. ASSUME \A d \in Class : i \notin slots'[d] PROVE ChunkOK(i)'
  BY <1>2, <1>3, <1>6, ChunkUsed
<1>7. CASE TakeChunkOf(w, c, i)
  <2>1. UNCHANGED <<slab_list, slots>> /\ refcount[i] = 1
    BY <1>7 DEF TakeChunkOf, pages
  <2>2. \A d \in Class : i \notin slots'[d]
    BY <2>1 DEF KInv
  <2>3. \A d \in Class : ChunksIn(d)' = ChunksIn(d)
    BY <2>1, HomesAlone
  <2>4. ASSUME NEW j \in Chunk, j # i PROVE ChunkOK(j)'
    BY <1>2, <1>3, <1>4, <1>5, <2>1, <2>3, <2>4, ChunkAlone
  <2> QED BY <1>6, <2>2, <2>4
<1>8. CASE AllocFree(w, c, i) /\ i \in slots[c] /\ slots' = [slots EXCEPT ![c] = @ \ {i}] /\ UNCHANGED pages
  <2>1. UNCHANGED slab_list
    BY <1>8 DEF pages
  <2>2. \A d \in Class : \A j : j \in slots'[d] <=> j \in slots[d] /\ ~(d = c /\ j = i)
    BY <1>8 DEF TInv
  <2>3. \A d \in Class : i \in slots[d] => d = c
    BY <1>8, OneHome DEF KInv
  <2>4. \A d \in Class : ChunksIn(d)' = ChunksIn(d)
    BY <2>1, HomesAlone
  <2>5. ASSUME NEW j \in Chunk, j # i PROVE ChunkOK(j)'
    BY <1>2, <1>3, <1>4, <1>5, <2>2, <2>4, <2>5, ChunkAlone
  <2>6. ChunkOK(i)'
    BY <1>6, <2>2, <2>3
  <2> QED BY <2>5, <2>6
<1>9. ASSUME NEW p, Grown(c, p), i \in ChunksOf(p, c), split_slab_page_into_freelist(p, c, {i}),
             AllocFree(w, c, i)
      PROVE  \A j \in Chunk : ChunkOK(j)'
  <2>1. \A d \in Class : \A j : j \in slots'[d] <=> (j \in slots[d] \/ (d = c /\ j \in ChunksOf(p, c))) /\ ~(d = c /\ j = i)
    BY <1>9 DEF split_slab_page_into_freelist, TInv
  <2>2. /\ \A d \in Class : \A j : j \in ChunksIn(d)' <=> j \in ChunksIn(d) \/ (d = c /\ j \in ChunksOf(p, c))
        /\ \A d \in Class : \A j \in ChunksOf(p, c) : j \notin ChunksIn(d)
    BY <1>9, HomesGrown
  <2>3. \A d \in Class : \A j \in ChunksOf(p, c) : j \notin slots[d]
    BY <2>2 DEF KInv
  <2>4. ChunkOK(i)'
    BY <1>6, <1>9, <2>1, <2>3
  <2>5. ASSUME NEW j \in Chunk, j # i, j \notin ChunksOf(p, c) PROVE ChunkOK(j)'
    BY <1>2, <1>3, <1>4, <1>5, <2>1, <2>2, <2>5, ChunkAlone
  <2>6. ASSUME NEW j \in Chunk, j # i, j \in ChunksOf(p, c) PROVE ChunkOK(j)'
    <3>1. j \notin ITEM_LINKED /\ \A v \in Worker : it[v] # j
      BY <2>2, <2>6, OnlyHoused
    <3>2. Holders(j) = {}
      BY <3>1 DEF Holders
    <3>3. refcount[j] = 0
      BY <3>1, <3>2, FS_EmptySet DEF CountsReferences
    <3>4. slabs_clsid[j] = 0
      BY <2>2, <2>6 DEF KInv
    <3>5. refcount'[j] = 0 /\ slabs_clsid'[j] = 0 /\ j \notin ITEM_LINKED'
      BY <1>2, <1>3, <1>4, <2>6, <3>1, <3>3, <3>4
    <3>6. \A d \in Class : (j \in slots'[d] <=> d = c) /\ (j \in ChunksIn(d)' <=> d = c)
      BY <2>1, <2>2, <2>3, <2>6
    <3> QED BY <3>5, <3>6 DEF ChunkOK
  <2> QED BY <2>4, <2>5, <2>6
<1> QED BY <1>7, <1>8, <1>9 DEF AllocFree, slabs_alloc, Grown

\* A reference is given up; the last one frees the chunk.
LEMMA ChunksOfRemove ==
  ASSUME IInv, TInv', PInv', SamePage, UNCHANGED slab_list,
         NEW i \in Chunk, Housed(i), NEW n \in Nat, do_item_remove(i, n),
         \A j \in Chunk : j \in ITEM_LINKED' => j \in ITEM_LINKED, n = 0 => i \notin ITEM_LINKED',
         refcount[i] > 0
  PROVE  \A j \in Chunk : ChunkOK(j)'
<1> USE DEF IInv
<1>1. \A j \in Chunk : ChunkOK(j)
  BY ChunkByChunk DEF AllChunksOK
<1>2. \A d \in Class : ChunksIn(d)' = ChunksIn(d)
  BY HomesAlone
<1>3. refcount'[i] = n /\ \A j \in Chunk : j # i => refcount'[j] = refcount[j]
  BY DEF do_item_remove, TInv
<1>4. PICK c \in Class : c = slabs_clsid[i]
  BY DEF Housed
<1>5. i \in ChunksIn(c) /\ i \in ChunksIn(c)'
  BY <1>2, <1>4 DEF Housed
<1>6. CASE n = 0
  <2>1. slabs_clsid' = [slabs_clsid EXCEPT ![i] = 0] /\ slots' = [slots EXCEPT ![c] = @ \cup {i}]
    BY <1>4, <1>6 DEF do_item_remove, do_slabs_free
  <2>2. /\ slabs_clsid'[i] = 0 /\ \A j \in Chunk : j # i => slabs_clsid'[j] = slabs_clsid[j]
        /\ \A d \in Class : \A j : j \in slots'[d] <=> j \in slots[d] \/ (d = c /\ j = i)
    BY <2>1 DEF TInv
  <2>3. \A d \in Class : i \in ChunksIn(d)' => d = c
    BY <1>2, <1>5, OneHome
  <2>4. \A d \in Class : i \notin slots[d]
    BY DEF KInv
  <2>5. ChunkOK(i)'
    BY <1>3, <1>5, <1>6, <2>2, <2>3, <2>4 DEF ChunkOK
  <2>6. ASSUME NEW j \in Chunk, j # i PROVE ChunkOK(j)'
    BY <1>1, <1>2, <1>3, <2>2, <2>6, ChunkAlone
  <2> QED BY <2>5, <2>6
<1>7. CASE n # 0
  <2>1. UNCHANGED <<slabs_clsid, slots>>
    BY <1>7 DEF do_item_remove
  <2>2. \A d \in Class : i \notin slots'[d]
    BY <2>1 DEF KInv
  <2>3. ChunkOK(i)'
    BY <1>3, <1>4, <1>5, <1>7, <2>1, <2>2, ChunkUsed
  <2>4. ASSUME NEW j \in Chunk, j # i PROVE ChunkOK(j)'
    BY <1>1, <1>2, <1>3, <2>1, <2>4, ChunkAlone
  <2> QED BY <2>3, <2>4
<1> QED BY <1>6, <1>7

LEMMA ChunksOfCommand ==
  ASSUME IInv, TInv', PInv', SamePage, NEW w \in Worker,
         \/ InitHeader(w) \/ do_item_link(w) \/ (\E i \in Chunk : Find(w, i)) \/ TakeReference(w)
         \/ do_item_unlink(w) \/ item_remove(w)
  PROVE  \A j \in Chunk : ChunkOK(j)'
<1> USE DEF IInv
<1>0. PICK i : i = it[w]
  OBVIOUS
<1>1. UNCHANGED slab_list
  BY DEF InitHeader, do_item_link, Find, TakeReference, do_item_unlink, item_remove, pages
<1>2. \A d \in Class : ChunksIn(d)' = ChunksIn(d)
  BY <1>1, HomesAlone
<1>3. \A j \in Chunk : ChunkOK(j)
  BY ChunkByChunk DEF AllChunksOK
<1>4. CASE InitHeader(w)
  <2>1. /\ pc[w] = "init" /\ UNCHANGED <<slots, refcount, ITEM_LINKED>>
        /\ slabs_clsid' = [slabs_clsid EXCEPT ![i] = id[w]]
    BY <1>0, <1>4 DEF InitHeader
  <2>2. i \in Chunk /\ id[w] \in Class /\ i \in ChunksIn(id[w]) /\ i \notin ITEM_LINKED /\ refcount[i] > 0
    BY <1>0, <2>1, AtHand DEF WInv
  <2>3. slabs_clsid'[i] = id[w] /\ \A j \in Chunk : j # i => slabs_clsid'[j] = slabs_clsid[j]
    BY <2>1, <2>2 DEF TInv
  <2>4. \A d \in Class : i \notin slots'[d]
    BY <2>1, <2>2 DEF KInv
  <2>5. PICK c \in Class : c = id[w]
    BY <2>2
  <2>6. ChunkOK(i)'
    BY <1>2, <2>1, <2>2, <2>3, <2>4, <2>5, ChunkUsed
  <2>7. ASSUME NEW j \in Chunk, j # i PROVE ChunkOK(j)'
    BY <1>2, <1>3, <2>1, <2>3, <2>7, ChunkAlone
  <2> QED BY <2>6, <2>7
<1>5. ASSUME UNCHANGED <<slabs_clsid, slots>>, i \in Chunk, Housed(i), refcount[i] > 0,
             refcount' = [refcount EXCEPT ![i] = refcount[i] + 1],
             \A j \in Chunk : j # i => (j \in ITEM_LINKED' <=> j \in ITEM_LINKED)
      PROVE  \A j \in Chunk : ChunkOK(j)'
  <2>1. PICK c \in Class : c = slabs_clsid[i]
    BY <1>5 DEF Housed
  <2>2. i \in ChunksIn(c)'
    BY <1>2, <1>5, <2>1 DEF Housed
  <2>3. refcount'[i] > 0 /\ \A j \in Chunk : j # i => refcount'[j] = refcount[j]
    BY <1>5 DEF TInv
  <2>4. \A d \in Class : i \notin slots'[d]
    BY <1>5 DEF KInv
  <2>5. ChunkOK(i)'
    BY <1>5, <2>1, <2>2, <2>3, <2>4, ChunkUsed
  <2>6. ASSUME NEW j \in Chunk, j # i PROVE ChunkOK(j)'
    BY <1>2, <1>3, <1>5, <2>3, <2>6, ChunkAlone
  <2> QED BY <2>5, <2>6
<1>6. CASE do_item_link(w)
  <2>1. i \in Chunk /\ Housed(i) /\ refcount[i] > 0
    BY <1>0, <1>6, AtHand DEF do_item_link
  <2>2. /\ UNCHANGED <<slabs_clsid, slots>> /\ refcount' = [refcount EXCEPT ![i] = refcount[i] + 1]
        /\ ITEM_LINKED' = ITEM_LINKED \cup {i}
    BY <1>0, <1>6 DEF do_item_link
  <2> QED BY <1>5, <2>1, <2>2
<1>7. ASSUME NEW k \in Chunk, Find(w, k) PROVE \A j \in Chunk : ChunkOK(j)'
  <2>1. UNCHANGED <<slots, slabs_clsid, refcount, ITEM_LINKED>>
    BY <1>7 DEF Find, items
  <2> QED BY <1>2, <1>3, <2>1, ChunkAlone
<1>8. CASE TakeReference(w)
  <2>1. i \in Chunk /\ Housed(i) /\ refcount[i] > 0 /\ refcount[i] \in Nat
    BY <1>0, <1>8, AtHand DEF TakeReference
  <2>2. CASE InDyingPage(i)
    <3>1. PICK n : n = refcount[i] + 1 - 1 - 1
      OBVIOUS
    <3>2. do_item_remove(i, n) /\ ITEM_LINKED' = ITEM_LINKED \ {i}
      BY <1>0, <1>8, <2>2, <3>1 DEF TakeReference
    <3>3. n \in Nat
      BY <2>1, <3>1
    <3> QED BY <1>1, <2>1, <3>2, <3>3, ChunksOfRemove
  <2>3. CASE ~InDyingPage(i)
    <3>1. /\ UNCHANGED <<slabs_clsid, slots, ITEM_LINKED>>
          /\ refcount' = [refcount EXCEPT ![i] = refcount[i] + 1]
      BY <1>0, <1>8, <2>3 DEF TakeReference
    <3> QED BY <1>5, <2>1, <3>1
  <2> QED BY <2>2, <2>3
<1>9. CASE do_item_unlink(w)
  <2>1. i \in Chunk /\ Housed(i) /\ refcount[i] > 0 /\ refcount[i] - 1 \in Nat
    BY <1>0, <1>9, AtHand DEF do_item_unlink
  <2>2. PICK n \in Nat : n = refcount[i] - 1
    BY <2>1
  <2>3. do_item_remove(i, n) /\ ITEM_LINKED' = ITEM_LINKED \ {i}
    BY <1>0, <1>9, <2>2 DEF do_item_unlink
  <2> QED BY <1>1, <2>1, <2>3, ChunksOfRemove
<1>10. CASE item_remove(w)
  <2>1. /\ i \in Chunk /\ Housed(i) /\ refcount[i] > 0 /\ refcount[i] - 1 \in Nat /\ refcount[i] \in Nat
        /\ w \in Holders(i)
    BY <1>0, <1>10, AtHand DEF item_remove, Holders
  <2>2. PICK n \in Nat : n = refcount[i] - 1
    BY <2>1
  <2>3. do_item_remove(i, n) /\ UNCHANGED ITEM_LINKED
    BY <1>0, <1>10, <2>2 DEF item_remove
  <2>4. i \in ITEM_LINKED => refcount[i] >= 2
    BY <2>1, ReferenceFacts
  <2>5. n = 0 => i \notin ITEM_LINKED'
    BY <2>1, <2>2, <2>3, <2>4
  <2> QED BY <1>1, <2>1, <2>3, <2>5, ChunksOfRemove
<1> QED BY <1>4, <1>6, <1>7, <1>8, <1>9, <1>10

LEMMA ChunksOfMove ==
  ASSUME IInv, TInv', SamePage, slab_rebalance_move
  PROVE  \A j \in Chunk : ChunkOK(j)'
<1> USE DEF IInv
<1>1. PICK i : i = Slab(slab_rebal.slab_pos)
  OBVIOUS
<1>2. PICK s : s = slab_rebal.s_clsid
  OBVIOUS
<1>3. /\ i \in Chunk /\ s \in Class /\ slab_rebal.slab_start # 0
      /\ i \in ChunksOf(slab_rebal.slab_start, slab_rebal.s_clsid) /\ i \in ChunksIn(s)
  BY <1>1, <1>2, MovePosition, MoveAtHand DEF slab_rebalance_move
<1>4. \A d \in Class : ChunksIn(d)' = ChunksIn(d)
  BY HomesAlone DEF slab_rebalance_move, pages
<1>5. \A j \in Chunk : ChunkOK(j)
  BY ChunkByChunk DEF AllChunksOK
<1>6. CASE UNCHANGED <<slots, items>>
  <2>1. UNCHANGED <<slots, slabs_clsid, refcount, ITEM_LINKED>>
    BY <1>6 DEF items
  <2> QED BY <1>4, <1>5, <2>1, ChunkAlone
<1>7. CASE MOVE_DONE(i)
  <2>1. /\ \A j \in Chunk : j # i => /\ slabs_clsid'[j] = slabs_clsid[j] /\ refcount'[j] = refcount[j]
                                     /\ (j \in ITEM_LINKED' <=> j \in ITEM_LINKED)
        /\ slabs_clsid'[i] = 255 /\ refcount'[i] = 0 /\ i \notin ITEM_LINKED'
    BY <1>3, <1>7 DEF MOVE_DONE, TInv
  <2>2. \A d \in Class : \A j : j \in slots'[d] <=> j \in slots[d] /\ ~(d = s /\ j = i)
    BY <1>2, <1>3, <1>7 DEF MOVE_DONE, TInv
  <2>3. \A d \in Class : i \in slots[d] => d = s
    BY <1>3, OneHome DEF KInv
  <2>4. \A d \in Class : i \notin slots'[d]
    BY <2>2, <2>3
  <2>5. slab_rebal'.slab_start # 0 /\ i \in ChunksOf(slab_rebal'.slab_start, slab_rebal'.s_clsid)
    BY <1>3 DEF SamePage
  <2>6. (i \in ChunksOf(slab_rebal.slab_start, slab_rebal.s_clsid))'
    BY <2>5 DEF ChunksOf
  <2>7. i \in ChunksIn(s)'
    BY <1>3, <1>4
  <2>8. ChunkOK(i)'
    BY <1>3, <2>1, <2>4, <2>5, <2>6, <2>7 DEF ChunkOK
  <2>9. ASSUME NEW j \in Chunk, j # i PROVE ChunkOK(j)'
    BY <1>4, <1>5, <2>1, <2>2, <2>9, ChunkAlone
  <2> QED BY <2>8, <2>9
<1> QED BY <1>1, <1>6, <1>7 DEF slab_rebalance_move

LEMMA ChunksOfFinish ==
  ASSUME IInv, TInv', slab_rebalance_finish
  PROVE  \A j \in Chunk : ChunkOK(j)'
<1> USE DEF IInv
<1>1. PICK s, d, p : s = slab_rebal.s_clsid /\ d = slab_rebal.d_clsid /\ p = slab_rebal.slab_start
  OBVIOUS
<1>2. s \in Class /\ d \in Class /\ s # d
  BY <1>1, MoveAtHand DEF slab_rebalance_finish
<1>3. /\ \A i : i \in ChunksIn(s)' <=> i \in ChunksIn(s) /\ i[1] # p
      /\ ChunksIn(d)' = ChunksIn(d) \cup ChunksOf(p, d)
      /\ \A c \in Class \ {s, d} : ChunksIn(c)' = ChunksIn(c)
      /\ \A c \in Class \ {s} : \A i \in ChunksIn(c) : i[1] # p
  BY <1>1, HomesMoved
<1>4. /\ \A j \in Chunk : slabs_clsid'[j] = IF j[1] = p THEN 0 ELSE slabs_clsid[j]
      /\ \A j \in Chunk : refcount'[j] = IF j[1] = p THEN 0 ELSE refcount[j]
      /\ UNCHANGED ITEM_LINKED
  BY <1>1 DEF slab_rebalance_finish
<1>5. \A c \in Class : \A j : j \in slots'[c] <=> j \in slots[c] \/ (c = d /\ j \in ChunksOf(p, d))
  BY <1>1, <1>2 DEF slab_rebalance_finish, split_slab_page_into_freelist, TInv
<1>6. \A j \in ChunksOf(p, d) : j[1] = p
  BY ChunkFacts
<1>7. ASSUME NEW j \in Chunk, j[1] # p PROVE ChunkOK(j)'
  <2>1. ChunkOK(j)
    BY ChunkByChunk DEF AllChunksOK
  <2>2. j \notin ChunksOf(p, s)
    BY <1>7, ChunkFacts
  <2>3. slabs_clsid[j] # 255
    BY <1>1, <2>1, <2>2 DEF ChunkOK
  <2>4. \A c \in Class : /\ j \in slots'[c] <=> j \in slots[c]
                         /\ j \in ChunksIn(c)' <=> j \in ChunksIn(c)
    <3> SUFFICES ASSUME NEW c \in Class PROVE (j \in slots'[c] <=> j \in slots[c]) /\ (j \in ChunksIn(c)' <=> j \in ChunksIn(c))
      OBVIOUS
    <3>1. j \notin ChunksOf(p, d)
      BY <1>6, <1>7
    <3>2. j \in slots'[c] <=> j \in slots[c]
      BY <1>5, <3>1
    <3>3. CASE c = s
      BY <1>3, <1>7, <3>2, <3>3
    <3>4. CASE c # s
      BY <1>3, <3>1, <3>2, <3>4
    <3> QED BY <3>3, <3>4
  <2> QED BY <1>4, <1>7, <2>1, <2>3, <2>4, ChunkAlone
<1>8. ASSUME NEW j \in Chunk, j[1] = p PROVE ChunkOK(j)'
  <2>1. j \notin ITEM_LINKED /\ \A c \in Class : j \notin slots[c]
    BY <1>1, <1>8, PageClear DEF slab_rebalance_finish
  <2>2. slabs_clsid'[j] = 0 /\ refcount'[j] = 0 /\ j \notin ITEM_LINKED'
    BY <1>4, <1>8, <2>1
  <2>3. \A c \in Class : j \in slots'[c] <=> c = d /\ j \in ChunksOf(p, d)
    BY <1>5, <2>1
  <2>4. \A c \in Class : j \in ChunksIn(c)' <=> c = d /\ j \in ChunksOf(p, d)
    <3> SUFFICES ASSUME NEW c \in Class PROVE j \in ChunksIn(c)' <=> c = d /\ j \in ChunksOf(p, d)
      OBVIOUS
    <3>1. CASE c = s
      BY <1>2, <1>3, <1>8, <3>1
    <3>2. CASE c = d
      BY <1>2, <1>3, <1>8, <3>2
    <3>3. CASE c # s /\ c # d
      BY <1>3, <1>8, <3>3
    <3> QED BY <3>1, <3>2, <3>3
  <2> QED BY <2>2, <2>3, <2>4 DEF ChunkOK
<1> QED BY <1>7, <1>8

LEMMA ChunksKept == IInv /\ TInv' /\ PInv' /\ [Next]_vars => KInv'
<1>1. TInv' => (KInv' <=> AllChunksOK')
  BY ChunkByChunk, PTL
<1> SUFFICES ASSUME IInv, TInv', PInv', [Next]_vars PROVE \A j \in Chunk : ChunkOK(j)'
  BY <1>1 DEF AllChunksOK
<1>2. CASE slab_rebalance_finish
  BY <1>2, ChunksOfFinish
<1>3. CASE ~slab_rebalance_finish
  <2>1. SamePage
    BY <1>3, PageStays
  <2>2. ASSUME UNCHANGED <<slab_list, slots, slabs_clsid, refcount, ITEM_LINKED>>
        PROVE  \A j \in Chunk : ChunkOK(j)'
    <3>1. \A d \in Class : ChunksIn(d)' = ChunksIn(d)
      BY <2>2, HomesAlone
    <3>2. \A j \in Chunk : ChunkOK(j)
      BY ChunkByChunk DEF IInv, AllChunksOK
    <3> QED BY <2>1, <2>2, <3>1, <3>2, ChunkAlone
  <2>3. CASE \/ UNCHANGED vars \/ WakeUp \/ slabs_rebalancer_pause \/ slabs_rebalancer_resume
             \/ slab_rebalance_start \/ RebalanceStartFails \/ FinishEnds
    <3>1. UNCHANGED <<slab_list, slots, slabs_clsid, refcount, ITEM_LINKED>>
      BY <2>3 DEF vars, WakeUp, slabs_rebalancer_pause, slabs_rebalancer_resume, slab_rebalance_start,
         RebalanceStartFails, FinishEnds, pages, items
    <3> QED BY <2>2, <3>1
  <2>4. ASSUME NEW src \in Class, NEW dst \in Class, Reassign(src, dst) PROVE \A j \in Chunk : ChunkOK(j)'
    BY <2>2, <2>4 DEF Reassign, pages, items
  <2>5. ASSUME NEW w \in Worker, DoItemAlloc(w) PROVE \A j \in Chunk : ChunkOK(j)'
    BY <2>1, <2>5, ChunksOfAlloc DEF DoItemAlloc, AllocExpired, AllocEvict
  <2> QED BY <1>3, <2>1, <2>3, <2>4, <2>5, ChunksOfCommand, ChunksOfMove DEF Next, Work, Rebalance
<1> QED BY <1>2, <1>3

-----------------------------------------------------------------------------
(* What has been taken *)

\* Nobody has to do with a chunk that the move has taken.
LEMMA Untouchable ==
  ASSUME IInv, NEW i \in Chunk, slabs_clsid[i] = 255
  PROVE  i \notin ITEM_LINKED /\ refcount[i] = 0 /\ \A w \in Worker : it[w] # i
<1> USE DEF IInv
<1>1. refcount[i] = 0
  BY DEF KInv
<1>2. Holders(i) = {} /\ i \notin ITEM_LINKED
  BY <1>1, ReferenceFacts
<1> QED BY <1>1, <1>2, NobodyThere

LEMMA TakenStays ==
  ASSUME IInv, [Next]_vars, ~slab_rebalance_finish, NEW i \in Chunk, slabs_clsid[i] = 255
  PROVE  slabs_clsid'[i] = 255
<1>1. i \notin ITEM_LINKED /\ \A w \in Worker : it[w] # i
  BY Untouchable
<1>2. slabs_clsid \in [Chunk -> {0, 255} \cup Class]
  BY DEF IInv, TInv
<1>3. CASE \/ UNCHANGED vars \/ WakeUp \/ slabs_rebalancer_pause \/ slabs_rebalancer_resume
           \/ slab_rebalance_start \/ RebalanceStartFails \/ FinishEnds
  BY <1>3 DEF vars, WakeUp, slabs_rebalancer_pause, slabs_rebalancer_resume, slab_rebalance_start,
     RebalanceStartFails, FinishEnds, items
<1>4. ASSUME NEW src \in Class, NEW dst \in Class, Reassign(src, dst) PROVE slabs_clsid'[i] = 255
  BY <1>4 DEF Reassign, items
<1>5. ASSUME NEW w \in Worker, DoItemAlloc(w) PROVE slabs_clsid'[i] = 255
  <2>1. PICK c \in Class, k \in Chunk : AllocFree(w, c, k) \/ TakeChunkOf(w, c, k)
    BY <1>5 DEF DoItemAlloc, AllocExpired, AllocEvict
  <2> QED BY <1>1, <1>2, <2>1 DEF AllocFree, TakeChunkOf
<1>6. ASSUME NEW w \in Worker,
             \/ InitHeader(w) \/ do_item_link(w) \/ (\E k \in Chunk : Find(w, k)) \/ TakeReference(w)
             \/ do_item_unlink(w) \/ item_remove(w)
      PROVE  slabs_clsid'[i] = 255
  <2>1. it[w] # i
    BY <1>1
  <2>2. \/ UNCHANGED slabs_clsid
        \/ \E x : slabs_clsid' = [slabs_clsid EXCEPT ![it[w]] = x]
    BY <1>6 DEF InitHeader, do_item_link, Find, TakeReference, do_item_unlink, item_remove, do_item_remove, items
  <2> QED BY <1>2, <2>1, <2>2
<1>7. CASE slab_rebalance_move
  <2>1. \/ UNCHANGED slabs_clsid
        \/ \E k : slabs_clsid' = [slabs_clsid EXCEPT ![k] = 255]
    BY <1>7 DEF slab_rebalance_move, MOVE_DONE, items
  <2> QED BY <1>2, <2>1
<1> QED BY <1>3, <1>4, <1>5, <1>6, <1>7 DEF Next, Work, Rebalance

\* One step of a pass: the chunk at slab_pos has been taken, or counts as busy.
LEMMA ClearedOfMove ==
  ASSUME IInv, slab_rebalance_move, [Next]_vars
  PROVE  Cleared'
<1> USE DEF IInv
<1>1. PICK i, s, p, m : /\ i = Slab(slab_rebal.slab_pos) /\ s = slab_rebal.s_clsid
                        /\ p = slab_rebal.slab_start /\ m = slab_rebal.slab_pos
  OBVIOUS
<1> DEFINE busy == slab_rebal.busy_items \/ (~(slabs_clsid[i] = 255) /\ ~Idle(i))
<1>2. /\ NextPosition(busy) /\ p # 0 /\ ~slab_rebal.done
      /\ slabs_clsid[i] # 255 /\ Idle(i) => MOVE_DONE(i)
  BY <1>1 DEF slab_rebalance_move
<1>3. s \in Class /\ p \in Page /\ m \in 1..perslab[s] /\ i \in Chunk /\ i = <<p, m>> /\ perslab[s] \in Nat
  BY <1>1, <1>2, MoveAtHand, MovePosition, ClassAssumption DEF Slab
<1>4. ~busy => slabs_clsid'[i] = 255
  <2>1. CASE slabs_clsid[i] = 255
    <3>1. ~slab_rebalance_finish
      BY <1>2 DEF slab_rebalance_finish
    <3> QED BY <1>3, <2>1, <3>1, TakenStays
  <2>2. CASE slabs_clsid[i] # 255 /\ Idle(i)
    BY <1>2, <1>3, <2>2 DEF MOVE_DONE, TInv
  <2> QED BY <2>1, <2>2
<1>5. ~busy => ~slab_rebal.busy_items
  OBVIOUS
<1>6. ASSUME ~busy, NEW n \in 1..perslab[s], n <= m PROVE slabs_clsid'[<<p, n>>] = 255
  <2>1. CASE n = m
    BY <1>3, <1>4, <1>6, <2>1
  <2>2. CASE n # m
    <3>1. n < m
      BY <1>3, <1>6, <2>2
    <3>2. slabs_clsid[<<p, n>>] = 255
      BY <1>1, <1>2, <1>5, <1>6, <3>1 DEF Cleared, Slab
    <3>3. <<p, n>> \in Chunk
      <4>1. <<p, n>> \in ChunksOf(p, s)
        BY DEF ChunksOf
      <4> QED BY <1>3, <4>1, ChunksKnown
    <3>4. ~slab_rebalance_finish
      BY <1>2 DEF slab_rebalance_finish
    <3> QED BY <3>2, <3>3, <3>4, TakenStays
  <2> QED BY <2>1, <2>2
<1> HIDE DEF busy
<1>7. slab_rebal'.s_clsid = s /\ slab_rebal'.slab_start = p
  BY <1>1, <1>2 DEF NextPosition, RType, Move
<1>8. \/ m < perslab[s] /\ slab_rebal'.slab_pos = m + 1 /\ slab_rebal'.busy_items = busy /\ ~slab_rebal'.done
      \/ slab_rebal'.slab_pos = 1 /\ ~slab_rebal'.done
      \/ m = perslab[s] /\ ~busy
  <2>1. CASE m < perslab[s]
    <3>1. slab_rebal' = [slab_rebal EXCEPT !.slab_pos = m + 1, !.busy_items = busy]
      BY <1>1, <1>2, <2>1 DEF NextPosition
    <3> QED BY <1>2, <2>1, <3>1 DEF RType, Move
  <2>2. CASE ~(m < perslab[s]) /\ busy
    <3>1. slab_rebal' = [slab_rebal EXCEPT !.slab_pos = 1, !.busy_items = FALSE]
      BY <1>1, <1>2, <2>2 DEF NextPosition
    <3> QED BY <1>2, <3>1 DEF RType, Move
  <2>3. CASE ~(m < perslab[s]) /\ ~busy
    BY <1>3, <2>3
  <2> QED BY <2>1, <2>2, <2>3
<1>9. ASSUME NEW n \in 1..perslab[s], slab_rebal'.done \/ (n < slab_rebal'.slab_pos /\ ~slab_rebal'.busy_items)
      PROVE  slabs_clsid'[<<p, n>>] = 255
  <2>1. CASE m < perslab[s] /\ slab_rebal'.slab_pos = m + 1 /\ slab_rebal'.busy_items = busy /\ ~slab_rebal'.done
    <3>1. n < m + 1 /\ ~busy
      BY <1>9, <2>1
    <3>2. n <= m
      BY <1>3, <3>1
    <3> QED BY <1>6, <3>1, <3>2
  <2>2. CASE slab_rebal'.slab_pos = 1 /\ ~slab_rebal'.done
    BY <1>3, <1>9, <2>2
  <2>3. CASE m = perslab[s] /\ ~busy
    <3>1. n <= m
      BY <1>3, <2>3
    <3> QED BY <1>6, <2>3, <3>1
  <2> QED BY <1>8, <2>1, <2>2, <2>3
<1> QED BY <1>7, <1>9 DEF Cleared, Slab

LEMMA ClearedKept == IInv /\ [Next]_vars => Cleared'
<1> SUFFICES ASSUME IInv, [Next]_vars PROVE Cleared'
  OBVIOUS
<1> USE DEF IInv
<1>1. CASE slab_rebalance_move
  BY <1>1, ClearedOfMove
<1>2. CASE slab_rebalance_finish
  <2>1. slab_rebal'.slab_start = 0
    BY <1>2 DEF slab_rebalance_finish, RType, Move
  <2> QED BY <2>1 DEF Cleared
<1>3. CASE UNCHANGED slab_rebal /\ ~slab_rebalance_finish
  <2>1. CASE slab_rebal.slab_start = 0
    BY <1>3, <2>1 DEF Cleared
  <2>2. CASE slab_rebal.slab_start # 0
    <3>1. slab_rebal.s_clsid \in Class /\ slab_rebal.slab_start \in Page
      BY <2>2, MoveAtHand
    <3>2. \A n \in 1..perslab[slab_rebal.s_clsid] : Slab(n) \in Chunk /\ Slab(n)' = Slab(n)
      <4>1. \A n \in 1..perslab[slab_rebal.s_clsid] : Slab(n) \in ChunksOf(slab_rebal.slab_start, slab_rebal.s_clsid)
        BY DEF Slab, ChunksOf
      <4>2. ChunksOf(slab_rebal.slab_start, slab_rebal.s_clsid) \subseteq Chunk
        BY <3>1, ChunksKnown
      <4> QED BY <1>3, <4>1, <4>2 DEF Slab
    <3>3. \A n \in 1..perslab[slab_rebal.s_clsid] : slabs_clsid[Slab(n)] = 255 => slabs_clsid'[Slab(n)] = 255
      BY <1>3, <3>2, TakenStays
    <3> QED BY <1>3, <2>2, <3>2, <3>3 DEF Cleared, Slab
  <2> QED BY <2>1, <2>2
<1>4. ASSUME NEW src \in Class, NEW dst \in Class, MayReassign(src, dst), slabs_reassign(src, dst) PROVE Cleared'
  <2>1. slab_rebal.slab_start = 0
    BY <1>4, MoveAtHand DEF MayReassign, Moving
  <2>2. slab_rebal'.slab_start = 0
    BY <1>4, <2>1 DEF slabs_reassign, RType, Move
  <2> QED BY <2>2 DEF Cleared
<1>5. CASE slab_rebalance_start
  <2>1. CASE UNCHANGED slab_rebal
    BY <1>3, <1>5, <2>1, MoveAtHand DEF slab_rebalance_start, Moving, slab_rebalance_finish
  <2>2. CASE slab_rebal' = [slab_rebal EXCEPT !.slab_start = Head(slab_list[slab_rebal.s_clsid]),
                              !.slab_end = Head(slab_list[slab_rebal.s_clsid]) + 1, !.slab_pos = 1, !.done = FALSE]
    <3>1. slab_rebal'.slab_pos = 1 /\ ~slab_rebal'.done
      BY <2>2 DEF RType, Move
    <3>2. \A n \in 1..perslab[slab_rebal'.s_clsid] : ~(n < 1)
      OBVIOUS
    <3> QED BY <3>1, <3>2 DEF Cleared
  <2> QED BY <1>5, <2>1, <2>2 DEF slab_rebalance_start
<1>6. CASE FinishEnds
  <2>1. slab_rebal'.slab_start = 0
    BY <1>6 DEF FinishEnds, CacheLockFree, RType, Move
  <2> QED BY <2>1 DEF Cleared
<1>7. CASE UNCHANGED rebalancer \/ WakeUp \/ slabs_rebalancer_pause \/ slabs_rebalancer_resume \/ RebalanceStartFails
  <2>1. UNCHANGED slab_rebal
    BY <1>7 DEF rebalancer, WakeUp, slabs_rebalancer_pause, slabs_rebalancer_resume, RebalanceStartFails
  <2> QED BY <1>2, <1>3, <2>1
<1> QED BY <1>1, <1>2, <1>4, <1>5, <1>6, <1>7, RebalancerStep DEF RebalancerSteps, Rebalance

-----------------------------------------------------------------------------
(* Workers *)

WorkerOK(w) ==
  /\ pc[w] = "init" => id[w] \in Class /\ it[w] \in ChunksIn(id[w]) /\ slabs_clsid[it[w]] = 0
  /\ pc[w] \in {"own", "hold"} => Housed(it[w])
  /\ pc[w] \in {"init", "own"} => it[w] \notin ITEM_LINKED /\ \A v \in Worker : it[v] = it[w] => v = w
  /\ pc[w] = "found" => /\ it[w] \in ITEM_LINKED
                        /\ \A v \in Worker : pc[v] = "found" /\ it[v] = it[w] => v = w

\* A chunk without references has no holder, before and after a step.
Unheld == \A i \in Chunk : refcount[i] = 0 => Holders(i) = {}

LEMMA UnheldHolds == TInv /\ CountsReferences => Unheld
  BY ReferenceFacts DEF Unheld

LEMMA WorkersOfInit == Init => WInv
  BY DEF Init, WInv

\* A worker whose item a step leaves alone.
LEMMA WorkerAlone ==
  ASSUME NEW v \in Worker, WorkerOK(v), NEW k, k = it[v], k = it'[v],
         pc'[v] = pc[v], id'[v] = id[v],
         slabs_clsid'[k] = slabs_clsid[k] \/ pc[v] \in {"idle", "found"},
         \A c \in Class : k \in ChunksIn(c) => k \in ChunksIn(c)',
         pc[v] \in {"init", "own"} => k \notin ITEM_LINKED',
         pc[v] = "found" => k \in ITEM_LINKED',
         pc[v] \in {"init", "own"} => \A u \in Worker : it'[u] = k => it[u] = k,
         pc[v] = "found" => \A u \in Worker : pc'[u] = "found" /\ it'[u] = k => pc[u] = "found" /\ it[u] = k
  PROVE  WorkerOK(v)'
<1>1. pc'[v] = "init" => id'[v] \in Class /\ it'[v] \in ChunksIn(id[v])' /\ slabs_clsid'[it'[v]] = 0
  <2> SUFFICES ASSUME pc[v] = "init" PROVE id'[v] \in Class /\ it'[v] \in ChunksIn(id[v])' /\ slabs_clsid'[it'[v]] = 0
    OBVIOUS
  <2>1. PICK c \in Class : c = id[v]
    BY DEF WorkerOK
  <2>2. k \in ChunksIn(c)' /\ c = id'[v] /\ slabs_clsid'[k] = 0
    BY <2>1 DEF WorkerOK
  <2>3. it'[v] \in ChunksIn(id[v])'
    BY <2>2 DEF ChunksIn
  <2> QED BY <2>2, <2>3
<1>2. pc'[v] \in {"own", "hold"} => Housed(it[v])'
  <2> SUFFICES ASSUME pc[v] \in {"own", "hold"} PROVE Housed(it[v])'
    OBVIOUS
  <2>1. PICK c \in Class : c = slabs_clsid[k] /\ k \in ChunksIn(c)
    BY DEF WorkerOK, Housed
  <2>2. k \in ChunksIn(c)' /\ c = slabs_clsid'[k]
    BY <2>1
  <2> QED BY <2>2 DEF Housed, ChunksIn
<1>3. pc'[v] \in {"init", "own"} => it'[v] \notin ITEM_LINKED' /\ \A u \in Worker : it'[u] = it'[v] => u = v
  BY DEF WorkerOK
<1>4. pc'[v] = "found" => /\ it'[v] \in ITEM_LINKED'
                          /\ \A u \in Worker : pc'[u] = "found" /\ it'[u] = it'[v] => u = v
  BY DEF WorkerOK
<1> QED BY <1>1, <1>2, <1>3, <1>4 DEF WorkerOK

LEMMA WorkersOfAlloc ==
  ASSUME IInv, TInv', NEW w \in Worker, NEW c \in Class, NEW i \in Chunk,
         AllocFree(w, c, i) \/ TakeChunkOf(w, c, i)
  PROVE  \A v \in Worker : WorkerOK(v)'
<1> USE DEF IInv
<1>1. /\ pc' = [pc EXCEPT ![w] = "init"] /\ it' = [it EXCEPT ![w] = i] /\ id' = [id EXCEPT ![w] = c]
      /\ pc[w] = "idle"
  BY DEF AllocFree, TakeChunkOf, Allocated, Goto
<1>2. /\ pc'[w] = "init" /\ it'[w] = i /\ id'[w] = c
      /\ \A v \in Worker : v # w => pc'[v] = pc[v] /\ it'[v] = it[v] /\ id'[v] = id[v]
  BY <1>1 DEF TInv
<1>3. /\ i \notin ITEM_LINKED' /\ i \in ChunksIn(c)' /\ slabs_clsid'[i] = 0
      /\ (\A v \in Worker : it[v] # i)
      /\ \A j \in Chunk : j # i => (j \in ITEM_LINKED' <=> j \in ITEM_LINKED)
  BY AllocatedChunk
<1>4. \A j \in Chunk : j # i => slabs_clsid'[j] = slabs_clsid[j]
  BY DEF AllocFree, TakeChunkOf, TInv
<1>5. \A d \in Class : \A j : j \in ChunksIn(d) => j \in ChunksIn(d)'
  <2>1. CASE UNCHANGED slab_list
    BY <2>1, HomesAlone
  <2>2. ASSUME NEW p, Grown(c, p) PROVE \A d \in Class : \A j : j \in ChunksIn(d) => j \in ChunksIn(d)'
    BY <2>2, HomesGrown
  <2> QED BY <2>1, <2>2 DEF AllocFree, TakeChunkOf, slabs_alloc, Grown, pages
<1>6. WorkerOK(w)'
  <2>1. \A v \in Worker : it'[v] = it'[w] => v = w
    BY <1>2, <1>3
  <2>2. it'[w] \in ChunksIn(id[w])'
    BY <1>2, <1>3 DEF ChunksIn
  <2> QED BY <1>2, <1>3, <2>1, <2>2 DEF WorkerOK
<1>7. ASSUME NEW v \in Worker, v # w PROVE WorkerOK(v)'
  <2>1. WorkerOK(v)
    BY DEF WInv, WorkerOK
  <2>2. PICK k : k = it[v]
    OBVIOUS
  <2>3. CASE pc[v] = "idle"
    BY <1>2, <1>7, <2>3 DEF WorkerOK
  <2>4. CASE pc[v] # "idle"
    <3>1. k \in Chunk /\ k # i /\ k = it'[v]
      BY <1>2, <1>3, <1>7, <2>2, <2>4 DEF TInv
    <3>2. \A u \in Worker : it'[u] = k => u # w
      BY <1>2, <3>1
    <3>3. /\ slabs_clsid'[k] = slabs_clsid[k] /\ (k \in ITEM_LINKED' <=> k \in ITEM_LINKED)
          /\ pc'[v] = pc[v] /\ id'[v] = id[v]
      BY <1>2, <1>3, <1>4, <1>7, <3>1
    <3>4. /\ pc[v] \in {"init", "own"} => k \notin ITEM_LINKED'
          /\ pc[v] = "found" => k \in ITEM_LINKED'
      BY <2>1, <2>2, <3>3 DEF WorkerOK
    <3>5. /\ \A u \in Worker : it'[u] = k => it[u] = k
          /\ \A u \in Worker : pc'[u] = "found" /\ it'[u] = k => pc[u] = "found" /\ it[u] = k
      BY <1>2, <3>2
    <3> QED BY <1>5, <2>1, <2>2, <3>1, <3>3, <3>4, <3>5, WorkerAlone
  <2> QED BY <2>3, <2>4
<1> QED BY <1>6, <1>7

\* A step of w that only touches the chunk i leaves those alone who are elsewhere.
LEMMA WorkersElsewhere ==
  ASSUME IInv, UNCHANGED slab_list, NEW w \in Worker, NEW i,
         \A j \in Chunk : j # i => slabs_clsid'[j] = slabs_clsid[j] /\ (j \in ITEM_LINKED' <=> j \in ITEM_LINKED),
         \A v \in Worker : v # w => pc'[v] = pc[v] /\ it'[v] = it[v] /\ id'[v] = id[v],
         it'[w] \in {i, NULL},
         NEW v \in Worker, v # w, it[v] # i
  PROVE  WorkerOK(v)'
<1> USE DEF IInv
<1>1. WorkerOK(v)
  BY DEF WInv, WorkerOK
<1>2. CASE pc[v] = "idle"
  BY <1>2 DEF WorkerOK
<1>3. CASE pc[v] # "idle"
  <2>1. PICK k : k = it[v]
    OBVIOUS
  <2>2. k \in Chunk /\ k # i /\ k # NULL /\ k = it'[v]
    BY <1>3, <2>1, WorkerAssumption DEF TInv
  <2>3. \A u \in Worker : it'[u] = k => u # w
    BY <2>2
  <2>4. slabs_clsid'[k] = slabs_clsid[k] /\ (k \in ITEM_LINKED' <=> k \in ITEM_LINKED)
    BY <2>2
  <2>5. /\ pc[v] \in {"init", "own"} => k \notin ITEM_LINKED'
        /\ pc[v] = "found" => k \in ITEM_LINKED'
    BY <1>1, <2>1, <2>4 DEF WorkerOK
  <2>6. /\ \A u \in Worker : it'[u] = k => it[u] = k
        /\ \A u \in Worker : pc'[u] = "found" /\ it'[u] = k => pc[u] = "found" /\ it[u] = k
    BY <2>3
  <2>7. \A c \in Class : k \in ChunksIn(c) => k \in ChunksIn(c)'
    BY HomesAlone
  <2>8. pc'[v] = pc[v] /\ id'[v] = id[v]
    OBVIOUS
  <2> QED BY <1>1, <2>1, <2>2, <2>4, <2>5, <2>6, <2>7, <2>8, WorkerAlone
<1> QED BY <1>2, <1>3

\* Those who keep a reference to an item keep it in its class: it is not freed.
LEMMA WorkersOfRemove ==
  ASSUME IInv, Unheld', UNCHANGED slab_list, NEW i \in Chunk, NEW n, do_item_remove(i, n),
         NEW v \in Worker, it[v] = i, it'[v] = i, pc[v] = "hold", pc'[v] = "hold"
  PROVE  WorkerOK(v)'
<1>1. refcount'[i] = n
  BY DEF do_item_remove, IInv, TInv
<1>2. v \in Holders(i)'
  BY DEF Holders
<1>3. n # 0
  BY <1>1, <1>2 DEF Unheld
<1>4. slabs_clsid' = slabs_clsid
  BY <1>3 DEF do_item_remove
<1>5. Housed(i)
  BY DEF IInv, WInv
<1>6. Housed(it[v])'
  BY <1>4, <1>5 DEF Housed, ChunksIn
<1> QED BY <1>6 DEF WorkerOK

LEMMA WorkersOfCommand ==
  ASSUME IInv, TInv', Unheld', NEW w \in Worker,
         \/ InitHeader(w) \/ do_item_link(w) \/ (\E i \in Chunk : Find(w, i)) \/ TakeReference(w)
         \/ do_item_unlink(w) \/ item_remove(w)
  PROVE  \A v \in Worker : WorkerOK(v)'
<1> USE DEF IInv
<1>0. PICK i : i = it[w]
  OBVIOUS
<1>1. UNCHANGED slab_list
  BY DEF InitHeader, do_item_link, Find, TakeReference, do_item_unlink, item_remove, pages
<1>2. \A d \in Class : ChunksIn(d)' = ChunksIn(d)
  BY <1>1, HomesAlone
<1>3. \A v \in Worker : v # w => pc'[v] = pc[v] /\ it'[v] = it[v] /\ id'[v] = id[v]
  BY DEF InitHeader, do_item_link, Find, TakeReference, do_item_unlink, item_remove, Forget, Goto, command, TInv
<1>4. CASE InitHeader(w)
  <2>1. /\ pc[w] = "init" /\ pc'[w] = "own" /\ it'[w] = i /\ UNCHANGED ITEM_LINKED
        /\ slabs_clsid' = [slabs_clsid EXCEPT ![i] = id[w]]
    BY <1>0, <1>4 DEF InitHeader, Goto, TInv
  <2>2. /\ i \in Chunk /\ id[w] \in Class /\ i \in ChunksIn(id[w]) /\ i \notin ITEM_LINKED
        /\ \A v \in Worker : it[v] = i => v = w
    BY <1>0, <2>1, AtHand DEF WInv
  <2>3. slabs_clsid'[i] = id[w] /\ \A j \in Chunk : j # i => slabs_clsid'[j] = slabs_clsid[j]
    BY <2>1, <2>2 DEF TInv
  <2>4. PICK c \in Class : c = id[w]
    BY <2>2
  <2>5. Housed(it[w])'
    <3>1. i \in ChunksIn(c)' /\ slabs_clsid'[i] = c
      BY <1>2, <2>2, <2>3, <2>4
    <3> QED BY <2>1, <3>1 DEF Housed, ChunksIn
  <2>6. WorkerOK(w)'
    BY <1>3, <2>1, <2>2, <2>5 DEF WorkerOK
  <2>7. ASSUME NEW v \in Worker, v # w PROVE WorkerOK(v)'
    BY <1>1, <1>3, <2>1, <2>2, <2>3, <2>7, WorkersElsewhere
  <2> QED BY <2>6, <2>7
<1>5. CASE do_item_link(w)
  <2>1. /\ pc[w] = "own" /\ pc'[w] = "hold" /\ it'[w] = i /\ ITEM_LINKED' = ITEM_LINKED \cup {i}
        /\ UNCHANGED slabs_clsid
    BY <1>0, <1>5 DEF do_item_link, Goto, TInv
  <2>2. i \in Chunk /\ Housed(i) /\ \A v \in Worker : it[v] = i => v = w
    BY <1>0, <2>1, AtHand DEF WInv
  <2>3. Housed(it[w])'
    BY <1>1, <2>1, <2>2 DEF Housed, ChunksIn
  <2>4. WorkerOK(w)'
    BY <2>1, <2>3 DEF WorkerOK
  <2>5. ASSUME NEW v \in Worker, v # w PROVE WorkerOK(v)'
    BY <1>1, <1>3, <2>1, <2>2, <2>5, WorkersElsewhere
  <2> QED BY <2>4, <2>5
<1>6. ASSUME NEW k \in Chunk, Find(w, k) PROVE \A v \in Worker : WorkerOK(v)'
  <2>1. /\ pc[w] = "idle" /\ pc'[w] = "found" /\ it'[w] = k /\ k \in ITEM_LINKED /\ ~ItemLocked(k)
        /\ UNCHANGED <<ITEM_LINKED, slabs_clsid>>
    BY <1>6 DEF Find, Goto, items, TInv
  <2>2. WorkerOK(w)'
    BY <1>3, <2>1 DEF WorkerOK, ItemLocked
  <2>3. ASSUME NEW v \in Worker, v # w, it[v] # k PROVE WorkerOK(v)'
    BY <1>1, <1>3, <2>1, <2>3, WorkersElsewhere
  <2>4. ASSUME NEW v \in Worker, v # w, it[v] = k PROVE WorkerOK(v)'
    <3>1. pc[v] = "hold"
      BY <2>1, <2>4, WorkerAssumption DEF TInv, WInv, ItemLocked
    <3>2. Housed(k)
      BY <2>4, <3>1 DEF WInv
    <3>3. Housed(it[v])'
      BY <1>1, <1>3, <2>1, <2>4, <3>2 DEF Housed, ChunksIn
    <3> QED BY <1>3, <2>4, <3>1, <3>3 DEF WorkerOK
  <2> QED BY <2>2, <2>3, <2>4
<1>7. CASE TakeReference(w)
  <2>1. pc[w] = "found" /\ i \in ITEM_LINKED /\ i \in Chunk /\ Housed(i)
    BY <1>0, <1>7, AtHand DEF TakeReference, WInv
  <2>2. \A v \in Worker : v # w /\ it[v] = i => pc[v] = "hold"
    BY <1>0, <2>1, WorkerAssumption DEF TInv, WInv
  <2>3. CASE InDyingPage(i)
    <3>1. PICK n : n = refcount[i] + 1 - 1 - 1
      OBVIOUS
    <3>2. /\ do_item_remove(i, n) /\ ITEM_LINKED' = ITEM_LINKED \ {i}
          /\ pc'[w] = "idle" /\ it'[w] = NULL
      BY <1>0, <1>7, <2>3, <3>1 DEF TakeReference, Forget, Goto, TInv
    <3>3. \A j \in Chunk : j # i => slabs_clsid'[j] = slabs_clsid[j]
      BY <3>2 DEF do_item_remove, TInv
    <3>4. WorkerOK(w)'
      BY <3>2 DEF WorkerOK
    <3>5. ASSUME NEW v \in Worker, v # w, it[v] # i PROVE WorkerOK(v)'
      BY <1>1, <1>3, <3>2, <3>3, <3>5, WorkersElsewhere
    <3>6. ASSUME NEW v \in Worker, v # w, it[v] = i PROVE WorkerOK(v)'
      BY <1>1, <1>3, <2>1, <2>2, <3>2, <3>6, WorkersOfRemove
    <3> QED BY <3>4, <3>5, <3>6
  <2>4. CASE ~InDyingPage(i)
    <3>1. /\ UNCHANGED <<slabs_clsid, ITEM_LINKED>> /\ pc'[w] = "hold" /\ it'[w] = i
      BY <1>0, <1>7, <2>4 DEF TakeReference, Goto, TInv
    <3>2. ASSUME NEW v \in Worker, it'[v] = i, pc'[v] = "hold" PROVE WorkerOK(v)'
      <4>1. Housed(it[v])'
        BY <1>1, <2>1, <3>1, <3>2 DEF Housed, ChunksIn
      <4> QED BY <3>2, <4>1 DEF WorkerOK
    <3>3. ASSUME NEW v \in Worker, v # w, it[v] # i PROVE WorkerOK(v)'
      BY <1>1, <1>3, <3>1, <3>3, WorkersElsewhere
    <3> QED BY <1>3, <2>2, <3>1, <3>2, <3>3
  <2> QED BY <2>3, <2>4
<1>8. CASE do_item_unlink(w)
  <2>1. PICK n : n = refcount[i] - 1
    OBVIOUS
  <2>2. /\ pc[w] = "hold" /\ pc'[w] = "hold" /\ it'[w] = i /\ i \in ITEM_LINKED /\ ~ItemLocked(i)
        /\ ITEM_LINKED' = ITEM_LINKED \ {i} /\ do_item_remove(i, n)
    BY <1>0, <1>8, <2>1 DEF do_item_unlink, command
  <2>3. i \in Chunk
    BY <2>2 DEF TInv
  <2>4. \A v \in Worker : it[v] = i => pc[v] = "hold"
    BY <2>2, <2>3, WorkerAssumption DEF TInv, WInv, ItemLocked
  <2>5. \A j \in Chunk : j # i => slabs_clsid'[j] = slabs_clsid[j]
    BY <2>2 DEF do_item_remove, TInv
  <2>6. ASSUME NEW v \in Worker, it[v] # i PROVE WorkerOK(v)'
    BY <1>0, <1>1, <1>3, <2>2, <2>5, <2>6, WorkersElsewhere
  <2>7. ASSUME NEW v \in Worker, it[v] = i PROVE WorkerOK(v)'
    BY <1>1, <1>3, <2>2, <2>3, <2>4, <2>7, WorkersOfRemove
  <2> QED BY <2>6, <2>7
<1>9. CASE item_remove(w)
  <2>1. PICK n : n = refcount[i] - 1
    OBVIOUS
  <2>2. /\ pc[w] \in {"own", "hold"} /\ pc'[w] = "idle" /\ it'[w] = NULL /\ ~ItemLocked(i)
        /\ UNCHANGED ITEM_LINKED /\ do_item_remove(i, n)
    BY <1>0, <1>9, <2>1 DEF item_remove, Forget, Goto, TInv
  <2>3. i \in Chunk
    BY <1>0, <2>2, AtHand
  <2>4. \A v \in Worker : v # w /\ it[v] = i => pc[v] = "hold"
    BY <1>0, <2>2, <2>3, WorkerAssumption DEF TInv, WInv, ItemLocked
  <2>5. \A j \in Chunk : j # i => slabs_clsid'[j] = slabs_clsid[j]
    BY <2>2 DEF do_item_remove, TInv
  <2>6. WorkerOK(w)'
    BY <2>2 DEF WorkerOK
  <2>7. ASSUME NEW v \in Worker, v # w, it[v] # i PROVE WorkerOK(v)'
    BY <1>1, <1>3, <2>2, <2>5, <2>7, WorkersElsewhere
  <2>8. ASSUME NEW v \in Worker, v # w, it[v] = i PROVE WorkerOK(v)'
    BY <1>1, <1>3, <2>2, <2>3, <2>4, <2>8, WorkersOfRemove
  <2> QED BY <2>6, <2>7, <2>8
<1> QED BY <1>4, <1>5, <1>6, <1>7, <1>8, <1>9


\* A step that leaves all workers where they are, and the chunks they are at.
LEMMA WorkersStay ==
  ASSUME IInv, UNCHANGED command,
         \A c \in Class : \A k \in Chunk :
           (\E u \in Worker : it[u] = k) /\ k \in ChunksIn(c) => k \in ChunksIn(c)',
         \A k \in Chunk : (\E u \in Worker : it[u] = k) =>
           slabs_clsid'[k] = slabs_clsid[k] /\ (k \in ITEM_LINKED' <=> k \in ITEM_LINKED),
         NEW v \in Worker
  PROVE  WorkerOK(v)'
<1>0. UNCHANGED pc /\ UNCHANGED it /\ UNCHANGED id
  BY DEF command
<1>1. WorkerOK(v)
  BY DEF IInv, WInv, WorkerOK
<1>2. CASE pc[v] = "idle"
  BY <1>0, <1>2 DEF WorkerOK
<1>3. CASE pc[v] # "idle"
  <2>1. PICK k : k = it[v]
    OBVIOUS
  <2>2. k \in Chunk /\ k = it'[v] /\ \E u \in Worker : it[u] = k
    BY <1>0, <1>3, <2>1 DEF IInv, TInv
  <2>3. /\ slabs_clsid'[k] = slabs_clsid[k] /\ (k \in ITEM_LINKED' <=> k \in ITEM_LINKED)
        /\ \A c \in Class : k \in ChunksIn(c) => k \in ChunksIn(c)'
    BY <2>2
  <2>4. /\ pc[v] \in {"init", "own"} => k \notin ITEM_LINKED'
        /\ pc[v] = "found" => k \in ITEM_LINKED'
    BY <1>1, <2>1, <2>3 DEF WorkerOK
  <2> QED BY <1>0, <1>1, <2>1, <2>2, <2>3, <2>4, WorkerAlone
<1> QED BY <1>2, <1>3

LEMMA WorkersOfRebalancer ==
  ASSUME IInv, Rebalance
  PROVE  \A v \in Worker : WorkerOK(v)'
<1> USE DEF IInv
<1>1. UNCHANGED command
  BY DEF Rebalance, slab_rebalance_start, RebalanceStartFails, slab_rebalance_move, slab_rebalance_finish,
     FinishEnds
<1>2. CASE slab_rebalance_start \/ RebalanceStartFails \/ FinishEnds
  <2>1. UNCHANGED <<slab_list, slabs_clsid, ITEM_LINKED>>
    BY <1>2 DEF slab_rebalance_start, RebalanceStartFails, FinishEnds, items, pages
  <2>2. \A c \in Class : ChunksIn(c)' = ChunksIn(c)
    BY <2>1, HomesAlone
  <2> QED BY <1>1, <2>1, <2>2, WorkersStay
<1>3. CASE slab_rebalance_move
  <2>1. PICK i : i = Slab(slab_rebal.slab_pos)
    OBVIOUS
  <2>2. i \in Chunk /\ UNCHANGED slab_list
    BY <1>3, <2>1, MovePosition DEF slab_rebalance_move, pages
  <2>3. \A c \in Class : ChunksIn(c)' = ChunksIn(c)
    BY <2>2, HomesAlone
  <2>4. CASE Idle(i) /\ MOVE_DONE(i)
    <3>1. Holders(i) = {} /\ ~ItemLocked(i)
      BY <2>2, <2>4, ReferenceFacts DEF Idle
    <3>2. \A w \in Worker : it[w] # i
      BY <2>2, <3>1, NobodyElse
    <3>3. \A k \in Chunk : k # i => slabs_clsid'[k] = slabs_clsid[k] /\ (k \in ITEM_LINKED' <=> k \in ITEM_LINKED)
      BY <2>4 DEF MOVE_DONE, TInv
    <3>4. \A k \in Chunk : (\E u \in Worker : it[u] = k) =>
            slabs_clsid'[k] = slabs_clsid[k] /\ (k \in ITEM_LINKED' <=> k \in ITEM_LINKED)
      BY <3>2, <3>3
    <3> QED BY <1>1, <2>3, <3>4, WorkersStay
  <2>5. CASE UNCHANGED <<slabs_clsid, ITEM_LINKED>>
    BY <1>1, <2>3, <2>5, WorkersStay
  <2> QED BY <1>3, <2>1, <2>4, <2>5 DEF slab_rebalance_move, items
<1>4. CASE slab_rebalance_finish
  <2>1. PICK s, d, p : s = slab_rebal.s_clsid /\ d = slab_rebal.d_clsid /\ p = slab_rebal.slab_start
    OBVIOUS
  <2>2. /\ \A i : i \in ChunksIn(s)' <=> i \in ChunksIn(s) /\ i[1] # p
        /\ ChunksIn(d)' = ChunksIn(d) \cup ChunksOf(p, d)
        /\ \A c \in Class \ {s, d} : ChunksIn(c)' = ChunksIn(c)
    BY <1>4, <2>1, HomesMoved
  <2>3. \A k \in Chunk : (\E u \in Worker : it[u] = k) => k[1] # p
    BY <1>4, <2>1, PageClear DEF slab_rebalance_finish
  <2>4. \A c \in Class : \A k \in Chunk :
          (\E u \in Worker : it[u] = k) /\ k \in ChunksIn(c) => k \in ChunksIn(c)'
    BY <2>2, <2>3
  <2>5. \A k \in Chunk : (\E u \in Worker : it[u] = k) =>
          slabs_clsid'[k] = slabs_clsid[k] /\ (k \in ITEM_LINKED' <=> k \in ITEM_LINKED)
    BY <1>4, <2>1, <2>3 DEF slab_rebalance_finish
  <2> QED BY <1>1, <2>4, <2>5, WorkersStay
<1> QED BY <1>2, <1>3, <1>4 DEF Rebalance

AllWorkersOK == \A w \in Worker : WorkerOK(w)

LEMMA WorkerByWorker == WInv <=> AllWorkersOK
  BY DEF WInv, AllWorkersOK, WorkerOK

LEMMA WorkersKept == IInv /\ TInv' /\ CountsReferences' /\ [Next]_vars => WInv'
<1>1. (WInv' <=> AllWorkersOK') /\ (TInv' /\ CountsReferences' => Unheld')
  BY WorkerByWorker, UnheldHolds, PTL
<1> SUFFICES ASSUME IInv, TInv', Unheld', [Next]_vars PROVE \A v \in Worker : WorkerOK(v)'
  BY <1>1 DEF AllWorkersOK
<1>2. ASSUME UNCHANGED <<slab_list, slabs_clsid, ITEM_LINKED>>, UNCHANGED command
      PROVE  \A v \in Worker : WorkerOK(v)'
  <2>1. \A c \in Class : ChunksIn(c)' = ChunksIn(c)
    BY <1>2, HomesAlone
  <2> QED BY <1>2, <2>1, WorkersStay
<1>3. CASE UNCHANGED vars \/ WakeUp \/ slabs_rebalancer_pause \/ slabs_rebalancer_resume
  BY <1>2, <1>3 DEF vars, pages, items, command, WakeUp, slabs_rebalancer_pause, slabs_rebalancer_resume
<1>4. ASSUME NEW src \in Class, NEW dst \in Class, Reassign(src, dst) PROVE \A v \in Worker : WorkerOK(v)'
  BY <1>2, <1>4 DEF pages, items, Reassign
<1>5. ASSUME NEW w \in Worker, DoItemAlloc(w) PROVE \A v \in Worker : WorkerOK(v)'
  BY <1>5, WorkersOfAlloc DEF DoItemAlloc, AllocExpired, AllocEvict
<1> QED BY <1>3, <1>4, <1>5, WorkersOfCommand, WorkersOfRebalancer DEF Next, Work


-----------------------------------------------------------------------------
(* The invariant holds, and what follows from it *)

LEMMA ClearedOfInit == Init => Cleared
<1> SUFFICES ASSUME Init PROVE Cleared
  OBVIOUS
<1>1. slab_rebal.slab_start = 0
  BY DEF Init, NoMove
<1> QED BY <1>1 DEF Cleared

LEMMA InvariantOfInit == Init => IInv
  BY TypesOfInit, RTypeOfInit, PagesOfInit, StagesOfInit, ClearedOfInit, ChunksOfInit, WorkersOfInit,
     CountsOfInit DEF IInv

LEMMA InvariantKept == IInv /\ [Next]_vars => IInv'
<1> SUFFICES ASSUME IInv, [Next]_vars PROVE IInv'
  OBVIOUS
<1>1. TInv' /\ PInv' /\ RInv' /\ Cleared' /\ CountsReferences'
  BY TypesKept, PagesKept, StagesKept, ClearedKept, CountsKept
<1>2. RType'
  BY RTypeKept DEF IInv
<1>3. KInv' /\ WInv'
  BY <1>1, ChunksKept, WorkersKept
<1> QED BY <1>1, <1>2, <1>3 DEF IInv

LEMMA InvariantHolds == Spec => []IInv
  BY InvariantOfInit, InvariantKept, PTL DEF Spec

\* The types hold, and with them that no reference count goes below zero: do_item_remove,
\* do_item_unlink and the unlinking in do_item_get never take away a reference that the
\* item has not got, whatever slab_rebalance_move does to the page meanwhile.
THEOREM TypeCorrect == Spec => []TypeOK
<1>1. IInv => TypeOK
  BY DEF IInv, TInv, RType, Move, TypeOK
<1> QED BY <1>1, InvariantHolds, PTL

\* refcount, which slab_rebalance_move and do_item_alloc go by when they take an item
\* from the hash table without asking anybody, is the number of references to it.
THEOREM CountsAreReferences == Spec => []CountsReferences
<1>1. IInv => CountsReferences
  BY DEF IInv
<1> QED BY <1>1, InvariantHolds, PTL

\* Moving pages loses no chunk, gives none out twice and cuts none to another class's
\* size: do_slabs_newslab, slab_rebalance_move and slab_rebalance_finish keep every page
\* in one slab_list and each of its chunks free, in use or taken.
THEOREM ChunksAreAccountedFor == Spec => []ChunksAccountedFor
<1>1. ASSUME IInv PROVE ChunksAccountedFor
  <2> USE <1>1 DEF IInv
  <2>1. /\ \A c, d \in Class : c # d => ToSet(slab_list[c]) \cap ToSet(slab_list[d]) = {}
        /\ \A c \in Class : IsInjective(slab_list[c])
    BY DEF PInv
  <2>2. \A c \in Class : slots[c] \subseteq ChunksIn(c)
    BY DEF KInv
  <2>3. ITEM_LINKED \subseteq UNION {ChunksIn(c) : c \in Class}
    BY DEF KInv, Housed
  <2>4. ASSUME NEW c \in Class, NEW p \in ToSet(slab_list[c]), NEW i \in ChunksOf(p, c)
        PROVE  CASE i \in slots[c]         -> refcount[i] = 0 /\ slabs_clsid[i] = 0
                 [] slabs_clsid[i] = 255   -> p = slab_rebal.slab_start
                 [] OTHER                  -> refcount[i] > 0 /\ slabs_clsid[i] \in {0, c}
    <3>1. i[1] = p /\ i \in ChunksIn(c) /\ i \in Chunk
      BY ChunkFacts, ChunksInFacts, PagesKnown
    <3>2. CASE i \in slots[c]
      <4>1. refcount[i] = 0 /\ slabs_clsid[i] = 0
        BY <3>2 DEF KInv
      <4> QED BY <3>2, <4>1
    <3>3. CASE i \notin slots[c] /\ slabs_clsid[i] = 255
      <4>1. i \in ChunksOf(slab_rebal.slab_start, slab_rebal.s_clsid)
        BY <3>1, <3>3 DEF KInv
      <4>2. p = slab_rebal.slab_start
        BY <3>1, <4>1, ChunkFacts
      <4> QED BY <3>3, <4>2
    <3>4. CASE i \notin slots[c] /\ slabs_clsid[i] # 255
      <4>1. refcount[i] > 0 /\ slabs_clsid[i] \in {0, c}
        BY <3>1, <3>4 DEF KInv
      <4> QED BY <3>4, <4>1
    <3> QED BY <3>2, <3>3, <3>4
  <2> QED BY <2>1, <2>2, <2>3, <2>4 DEF ChunksAccountedFor
<1> QED BY <1>1, InvariantHolds, PTL

\* What slab_rebalance_finish counts on: when the pass over the page is over, every chunk
\* of it has been taken, and nobody refers to a taken chunk or is between finding the item
\* there and counting the reference.
THEOREM ClearWhenItIsGiven == Spec => []ClearWhenGiven
<1>1. ASSUME IInv PROVE ClearWhenGiven
  <2> USE <1>1 DEF IInv
  <2>1. \A i \in Chunk : slabs_clsid[i] = 255 =>
          i \notin ITEM_LINKED /\ refcount[i] = 0 /\ \A w \in Worker : it[w] # i
    BY Untouchable
  <2>2. ASSUME slab_rebal.done, NEW i \in ChunksOf(slab_rebal.slab_start, slab_rebal.s_clsid)
        PROVE  slabs_clsid[i] = 255
    <3>1. slab_rebal.slab_start # 0
      BY <2>2, MoveAtHand
    <3>2. PICK n \in 1..perslab[slab_rebal.s_clsid] : i = Slab(n)
      BY DEF ChunksOf, Slab
    <3> QED BY <2>2, <3>1, <3>2 DEF Cleared
  <2> QED BY <2>1, <2>2 DEF ClearWhenGiven
<1> QED BY <1>1, InvariantHolds, PTL

\* A class never loses its last page: do_slabs_reassign's check of "slabs < 2" and the
\* one of slab_rebalance_start still hold when slab_rebalance_finish takes the page.
THEOREM KeepsAPageAlways == Spec => KeepsAPage
<1>1. ASSUME IInv, [Next]_vars
      PROVE  \A c \in Class : slab_list[c] # <<>> => slab_list'[c] # <<>>
  <2> USE <1>1 DEF IInv
  <2>1. CASE UNCHANGED slab_list
    BY <2>1
  <2>2. ASSUME NEW c \in Class, NEW p, Grown(c, p)
        PROVE  \A d \in Class : slab_list[d] # <<>> => slab_list'[d] # <<>>
    <3>1. /\ Len(slab_list[c]) \in Nat /\ Len(slab_list'[c]) = Len(slab_list[c]) + 1
          /\ \A d \in Class \ {c} : slab_list'[d] = slab_list[d]
      BY <2>2, PageGrown
    <3>2. slab_list'[c] # <<>>
      BY <3>1
    <3> QED BY <3>1, <3>2
  <2>3. CASE slab_rebalance_finish
    BY <2>3, PageMoved
  <2> QED BY <2>1, <2>2, <2>3, PageSteps
<1>2. IInv /\ [Next]_vars => [\A c \in Class : slab_list[c] # <<>> => slab_list'[c] # <<>>]_vars
  BY <1>1
<1> QED BY <1>2, InvariantHolds, PTL DEF Spec, KeepsAPage
=============================================================================
