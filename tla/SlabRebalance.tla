---------------------------- MODULE SlabRebalance ----------------------------
(***************************************************************************)
(* The slab allocator, and the thread that moves pages between classes.    *)
(*                                                                         *)
(* Memory comes in pages.  A slab class cuts its pages into chunks; a free *)
(* chunk is on the class's list of slots.  To move a page from one class   *)
(* to another, slab_rebalance_move visits its chunks, one each time it has *)
(* cache_lock and slabs_lock (slab_bulk_check is 1): it takes free ones    *)
(* off the list, unlinks idle items, and passes over busy ones to come     *)
(* back to them.  Commands help: do_item_get unlinks what it finds in the  *)
(* dying page.                                                             *)
(*                                                                         *)
(* Abstractions: an item is named by its chunk, and no two items share an  *)
(* item lock.  A command has one item at a time.  Which free chunk and     *)
(* which unreferenced item of the class do_item_alloc gets is left open,   *)
(* and so is the source that slabs_reassign_pick_any picks.  A section of  *)
(* an item lock is one step, except the one in which do_item_get has found *)
(* an item and not counted its reference yet.  Workers use striped locks   *)
(* throughout: the rebalancer is paused while they do not.                 *)
(***************************************************************************)
EXTENDS Integers, Sequences, SequencesExt, FiniteSets

CONSTANTS
  Worker, Page,   \* a page is its address
  Class,          \* POWER_SMALLEST..power_largest
  perslab,        \* chunks in a page of each class
  mem_limit,      \* in pages
  FirstListSize,  \* of a slab_list, which then doubles
  slab_automove,  \* 2: every eviction asks for a page
  NULL

ASSUME PageAssumption == Page \subseteq Nat \ {0}
ASSUME ClassAssumption == Class \subseteq 1..254 /\ perslab \in [Class -> Nat \ {0}]
ASSUME LimitAssumption == mem_limit \in Nat /\ FirstListSize \in Nat \ {0}

ChunksOf(p, c) == {<<p, n>> : n \in 1..perslab[c]}
Chunk == UNION {ChunksOf(p, c) : p \in Page, c \in Class}

ASSUME WorkerAssumption == IsFiniteSet(Worker) /\ NULL \notin Chunk

VARIABLES
  slab_list,     \* the pages of each class
  list_size,     \* the room in that array
  slots,         \* the free chunks of each class
  slabs_clsid,   \* of each chunk; 255 for one that has left its class
  refcount,
  ITEM_SLABBED, ITEM_LINKED,  \* the chunks with that flag
  pc, it, id,    \* of each worker: where it is, its item, the class it asked for
  slab_rebalance_signal, slab_rebal,
  slabs_rebalance_lock        \* who has it

pages == <<slab_list, list_size>>
items == <<slabs_clsid, refcount, ITEM_SLABBED, ITEM_LINKED>>
command == <<pc, it, id>>
rebalancer == <<slab_rebalance_signal, slab_rebal, slabs_rebalance_lock>>
vars == <<pages, slots, items, command, rebalancer>>

NoMove == [s_clsid |-> 0, d_clsid |-> 0, slab_start |-> 0, slab_end |-> 0, slab_pos |-> 0,
           busy_items |-> FALSE, done |-> FALSE]

Init ==
  /\ slab_list = [c \in Class |-> <<>>] /\ list_size = [c \in Class |-> 0]
  /\ slots = [c \in Class |-> {}]
  /\ slabs_clsid = [i \in Chunk |-> 0] /\ refcount = [i \in Chunk |-> 0]
  /\ ITEM_SLABBED = {} /\ ITEM_LINKED = {}
  /\ pc = [w \in Worker |-> "idle"]
  /\ it = [w \in Worker |-> NULL] /\ id = [w \in Worker |-> 0]
  /\ slab_rebalance_signal = 0 /\ slab_rebal = NoMove
  /\ slabs_rebalance_lock = "free"

\* slab_rebalance_finish keeps it from one step to the next.
CacheLockFree == slab_rebal.slab_start = 0 => slab_rebal.slab_end = 0

-----------------------------------------------------------------------------
(* The allocator *)

Used == UNION {ToSet(slab_list[c]) : c \in Class}

\* The room in a class's array after grow_slab_list.
grow_slab_list(c) ==
  CASE Len(slab_list[c]) # list_size[c] -> list_size[c]
    [] list_size[c] = 0                 -> FirstListSize
    [] OTHER                            -> 2 * list_size[c]

\* A class without pages gets its first one even beyond the limit.
CanGrow(c) == Cardinality(Used) + 1 <= mem_limit \/ slab_list[c] = <<>>

\* Pages come in the order of their addresses, as from -L's mem_base; the address only
\* matters to do_item_get's comparison with slab_start and slab_end.
memory_allocate == {p \in Page \ Used : \A q \in Page \ Used : p <= q}

\* A page's chunks go to the free list of c, except those in taken.
split_slab_page_into_freelist(p, c, taken) ==
  /\ slots' = [slots EXCEPT ![c] = (@ \cup ChunksOf(p, c)) \ taken]
  /\ ITEM_SLABBED' = ITEM_SLABBED \cup ChunksOf(p, c)

\* A chunk off the free list, for which a page may have to be added.
slabs_alloc(c, i) ==
  \/ /\ i \in slots[c]
     /\ slots' = [slots EXCEPT ![c] = @ \ {i}]
     /\ UNCHANGED <<pages, ITEM_SLABBED>>
  \/ /\ slots[c] = {} /\ CanGrow(c)
     /\ \E p \in memory_allocate :
          /\ i \in ChunksOf(p, c)
          /\ list_size' = [list_size EXCEPT ![c] = grow_slab_list(c)]
          /\ slab_list' = [slab_list EXCEPT ![c] = Append(@, p)]
          /\ split_slab_page_into_freelist(p, c, {i})

do_slabs_free(i, c) ==
  /\ ITEM_SLABBED' = ITEM_SLABBED \cup {i}
  /\ slots' = [slots EXCEPT ![c] = @ \cup {i}]

\* The references to i become n; the last one to go frees the chunk (item_free).
do_item_remove(i, n) ==
  /\ refcount' = [refcount EXCEPT ![i] = n]
  /\ IF n = 0
     THEN /\ slabs_clsid' = [slabs_clsid EXCEPT ![i] = 0]
          /\ do_slabs_free(i, slabs_clsid[i])
     ELSE UNCHANGED <<slabs_clsid, ITEM_SLABBED, slots>>

-----------------------------------------------------------------------------
(* Requests for a move *)

\* Mutant: the last page may go.
SpareLast(c) == Len(slab_list[c]) >= 1

Spare(c) == Len(slab_list[c]) >= 2

\* What slabs_reassign refuses: a move is on, its lock is held, nothing to spare.
MayReassign(src, dst) ==
  /\ slabs_rebalance_lock = "free" /\ slab_rebalance_signal = 0
  /\ src # dst /\ Spare(src)

slabs_reassign(src, dst) ==
  /\ slab_rebal' = [slab_rebal EXCEPT !.s_clsid = src, !.d_clsid = dst]
  /\ slab_rebalance_signal' = 1
  /\ UNCHANGED slabs_rebalance_lock

\* "slabs reassign", or slab_maintenance_thread.
Reassign(src, dst) ==
  /\ MayReassign(src, dst)
  /\ slabs_reassign(src, dst)
  /\ UNCHANGED <<pages, slots, items, command>>

\* do_item_alloc after an eviction; slabs_reassign_pick_any finds a source if there is one.
AskForPage(c) ==
  IF slab_automove = 2 /\ \E src \in Class : MayReassign(src, c)
  THEN \E src \in Class : MayReassign(src, c) /\ slabs_reassign(src, c)
  ELSE UNCHANGED rebalancer

-----------------------------------------------------------------------------
(* Commands *)

Goto(w, l) == pc' = [pc EXCEPT ![w] = l]

\* Some worker is between assoc_find and refcount_incr, with the item lock.
ItemLocked(i) == \E w \in Worker : pc[w] = "found" /\ it[w] = i

\* do_item_alloc has the chunk i; it counts the caller's reference before it gives up
\* cache_lock, and writes the rest of the header (InitHeader) afterwards.
Allocated(w, c, i) ==
  /\ pc[w] = "idle" /\ Goto(w, "init")
  /\ it' = [it EXCEPT ![w] = i] /\ id' = [id EXCEPT ![w] = c]
  /\ refcount' = [refcount EXCEPT ![i] = 1]

AllocFree(w, c, i) ==
  /\ CacheLockFree
  /\ slabs_alloc(c, i)
  /\ Allocated(w, c, i)
  /\ UNCHANGED <<slabs_clsid, ITEM_LINKED, rebalancer>>

\* An item of the class that only the hash table refers to gives up its chunk.
TakeChunkOf(w, c, i) ==
  /\ CacheLockFree
  /\ i \in ITEM_LINKED /\ slabs_clsid[i] = c
  /\ refcount[i] = 1 /\ ~ItemLocked(i)
  /\ Allocated(w, c, i)
  /\ ITEM_LINKED' = ITEM_LINKED \ {i}
  /\ slabs_clsid' = [slabs_clsid EXCEPT ![i] = 0]
  /\ UNCHANGED <<pages, slots, ITEM_SLABBED>>

AllocExpired(w, c, i) == TakeChunkOf(w, c, i) /\ UNCHANGED rebalancer

\* slabs_alloc has failed: nothing is free and no page can be had.
AllocEvict(w, c, i) == slots[c] = {} /\ TakeChunkOf(w, c, i) /\ AskForPage(c)

InitHeader(w) ==
  /\ pc[w] = "init" /\ Goto(w, "own")
  /\ slabs_clsid' = [slabs_clsid EXCEPT ![it[w]] = id[w]]
  /\ ITEM_SLABBED' = ITEM_SLABBED \ {it[w]}
  /\ id' = [id EXCEPT ![w] = 0]
  /\ UNCHANGED <<pages, slots, refcount, ITEM_LINKED, it, rebalancer>>

\* The value has been read from the client.
do_item_link(w) ==
  /\ CacheLockFree
  /\ pc[w] = "own" /\ Goto(w, "hold")
  /\ ITEM_LINKED' = ITEM_LINKED \cup {it[w]}
  /\ refcount' = [refcount EXCEPT ![it[w]] = @ + 1]
  /\ UNCHANGED <<pages, slots, slabs_clsid, ITEM_SLABBED, it, id, rebalancer>>

\* do_item_get up to assoc_find.
Find(w, i) ==
  /\ pc[w] = "idle" /\ i \in ITEM_LINKED /\ ~ItemLocked(i)
  /\ Goto(w, "found") /\ it' = [it EXCEPT ![w] = i]
  /\ UNCHANGED <<pages, slots, items, id, rebalancer>>

\* What do_item_get sees without a lock: while slab_rebalance_finish has cleared
\* slab_start and not slab_end this holds of pages that are not dying.
InDyingPage(i) ==
  /\ slab_rebalance_signal # 0
  /\ slab_rebal.slab_start <= i[1] /\ i[1] < slab_rebal.slab_end

Forget(w) == Goto(w, "idle") /\ it' = [it EXCEPT ![w] = NULL] /\ UNCHANGED id

\* Mutant: popular items of the dying page stay.
TakeReferenceAlways(w) ==
  /\ pc[w] = "found" /\ Goto(w, "hold")
  /\ refcount' = [refcount EXCEPT ![it[w]] = @ + 1]
  /\ UNCHANGED <<pages, slots, slabs_clsid, ITEM_SLABBED, ITEM_LINKED, it, id, rebalancer>>

\* Mutant: the unlinked item keeps the reference of the lookup.
TakeReferenceLeaks(w) ==
  LET i == it[w] IN
  /\ pc[w] = "found"
  /\ IF InDyingPage(i)
     THEN /\ ITEM_LINKED' = ITEM_LINKED \ {i}
          /\ do_item_remove(i, refcount[i] + 1 - 1)
          /\ Forget(w)
     ELSE /\ refcount' = [refcount EXCEPT ![i] = @ + 1]
          /\ Goto(w, "hold")
          /\ UNCHANGED <<slots, slabs_clsid, ITEM_SLABBED, ITEM_LINKED, it, id>>
  /\ UNCHANGED <<pages, rebalancer>>

\* The rest of do_item_get.
TakeReference(w) ==
  LET i == it[w] IN
  /\ pc[w] = "found"
  /\ IF InDyingPage(i)
     THEN /\ ITEM_LINKED' = ITEM_LINKED \ {i}
          /\ do_item_remove(i, refcount[i] + 1 - 1 - 1)
          /\ Forget(w)
     ELSE /\ refcount' = [refcount EXCEPT ![i] = @ + 1]
          /\ Goto(w, "hold")
          /\ UNCHANGED <<slots, slabs_clsid, ITEM_SLABBED, ITEM_LINKED, it, id>>
  /\ UNCHANGED <<pages, rebalancer>>

\* A command deletes or replaces the item it refers to.
do_item_unlink(w) ==
  LET i == it[w] IN
  /\ CacheLockFree
  /\ pc[w] = "hold" /\ i \in ITEM_LINKED /\ ~ItemLocked(i)
  /\ ITEM_LINKED' = ITEM_LINKED \ {i}
  /\ do_item_remove(i, refcount[i] - 1)
  /\ UNCHANGED <<pages, command, rebalancer>>

\* The reply has been sent, or the connection closed with its upload unfinished.
item_remove(w) ==
  /\ CacheLockFree   \* and so is slabs_lock
  /\ pc[w] \in {"own", "hold"} /\ ~ItemLocked(it[w])
  /\ do_item_remove(it[w], refcount[it[w]] - 1)
  /\ Forget(w)
  /\ UNCHANGED <<pages, ITEM_LINKED, rebalancer>>

-----------------------------------------------------------------------------
(* slab_rebalance_thread *)

Slab(n) == <<slab_rebal.slab_start, n>>

\* pthread_cond_wait returns.
WakeUp ==
  /\ slabs_rebalance_lock = "free" /\ slab_rebalance_signal # 0
  /\ slabs_rebalance_lock' = "rebalancer"
  /\ UNCHANGED <<pages, slots, items, command, slab_rebalance_signal, slab_rebal>>

\* slab_rebalance_signal is 0, and the thread waits for the next request.
CondWait == slab_rebalance_signal' = 0 /\ slabs_rebalance_lock' = "free"

slab_rebalance_start ==
  LET s == slab_rebal.s_clsid   d == slab_rebal.d_clsid IN
  /\ slabs_rebalance_lock = "rebalancer" /\ slab_rebalance_signal = 1
  /\ list_size' = [list_size EXCEPT ![d] = grow_slab_list(d)]
  /\ IF Spare(s)
     THEN /\ slab_rebal' = [slab_rebal EXCEPT !.slab_start = Head(slab_list[s]),
                              !.slab_end = Head(slab_list[s]) + 1, !.slab_pos = 1, !.done = FALSE]
          /\ slab_rebalance_signal' = 2
          /\ UNCHANGED slabs_rebalance_lock
     ELSE CondWait /\ UNCHANGED slab_rebal
  /\ UNCHANGED <<slab_list, slots, items, command>>

\* There is no memory for a longer slab_list of the destination.
RebalanceStartFails ==
  /\ slabs_rebalance_lock = "rebalancer" /\ slab_rebalance_signal = 1
  /\ grow_slab_list(slab_rebal.d_clsid) # list_size[slab_rebal.d_clsid]
  /\ CondWait
  /\ UNCHANGED <<pages, slots, items, command, slab_rebal>>

\* Mutant: the item lock is not tried.
IdleUnlocked(i) ==
  \/ refcount[i] = 0 /\ i \in ITEM_SLABBED
  \/ refcount[i] = 1 /\ i \in ITEM_LINKED

\* What slab_rebalance_move makes of a chunk.
Idle(i) ==
  /\ ~ItemLocked(i)
  /\ \/ refcount[i] = 0 /\ i \in ITEM_SLABBED
     \/ refcount[i] = 1 /\ i \in ITEM_LINKED

\* Mutant: the chunk stays on the free list.
MOVE_DONE_listed(i) ==
  /\ ITEM_LINKED' = ITEM_LINKED \ {i}
  /\ ITEM_SLABBED' = ITEM_SLABBED \ {i}
  /\ refcount' = [refcount EXCEPT ![i] = 0]
  /\ slabs_clsid' = [slabs_clsid EXCEPT ![i] = 255]
  /\ UNCHANGED slots

MOVE_DONE(i) ==
  /\ slots' = [slots EXCEPT ![slab_rebal.s_clsid] = @ \ {i}]
  /\ ITEM_LINKED' = ITEM_LINKED \ {i}
  /\ ITEM_SLABBED' = ITEM_SLABBED \ {i}
  /\ refcount' = [refcount EXCEPT ![i] = 0]
  /\ slabs_clsid' = [slabs_clsid EXCEPT ![i] = 255]

\* Mutant: one pass is enough.
NextPositionOnce(busy) ==
  slab_rebal' =
    IF slab_rebal.slab_pos < perslab[slab_rebal.s_clsid]
    THEN [slab_rebal EXCEPT !.slab_pos = @ + 1, !.busy_items = busy]
    ELSE [slab_rebal EXCEPT !.slab_pos = @ + 1, !.done = TRUE]

\* slab_pos moves on; at the end of the page the busy chunks are tried again.
NextPosition(busy) ==
  slab_rebal' =
    IF slab_rebal.slab_pos < perslab[slab_rebal.s_clsid]
    THEN [slab_rebal EXCEPT !.slab_pos = @ + 1, !.busy_items = busy]
    ELSE IF busy
    THEN [slab_rebal EXCEPT !.slab_pos = 1, !.busy_items = FALSE]
    ELSE [slab_rebal EXCEPT !.slab_pos = @ + 1, !.done = TRUE]

slab_rebalance_move ==
  LET i == Slab(slab_rebal.slab_pos)
      moved == slabs_clsid[i] = 255 IN
  /\ slabs_rebalance_lock = "rebalancer" /\ slab_rebalance_signal = 2
  /\ slab_rebal.slab_start # 0 /\ ~slab_rebal.done
  /\ IF ~moved /\ Idle(i) THEN MOVE_DONE(i) ELSE UNCHANGED <<slots, items>>
  /\ NextPosition(slab_rebal.busy_items \/ (~moved /\ ~Idle(i)))
  /\ UNCHANGED <<pages, command, slab_rebalance_signal, slabs_rebalance_lock>>

\* The page leaves its class, whose last page takes its place, and joins the other.
slab_rebalance_finish ==
  LET s == slab_rebal.s_clsid   d == slab_rebal.d_clsid   p == slab_rebal.slab_start
      rest == Front([slab_list[s] EXCEPT ![1] = Last(slab_list[s])]) IN
  /\ slab_rebal.done
  /\ slab_list' = [slab_list EXCEPT ![s] = rest, ![d] = Append(@, p)]
  /\ slabs_clsid' = [i \in Chunk |-> IF i[1] = p THEN 0 ELSE slabs_clsid[i]]
  /\ refcount' = [i \in Chunk |-> IF i[1] = p THEN 0 ELSE refcount[i]]
  /\ split_slab_page_into_freelist(p, d, {})
  /\ slab_rebal' = [slab_rebal EXCEPT !.done = FALSE, !.s_clsid = 0, !.d_clsid = 0,
                                      !.slab_start = 0]
  /\ UNCHANGED <<list_size, ITEM_LINKED, command, slab_rebalance_signal, slabs_rebalance_lock>>

\* Its last assignments.
FinishEnds ==
  /\ ~CacheLockFree
  /\ slab_rebal' = [slab_rebal EXCEPT !.slab_end = 0, !.slab_pos = 0]
  /\ CondWait
  /\ UNCHANGED <<pages, slots, items, command>>

\* The hash table's maintenance thread keeps the rebalancer from waking up.
slabs_rebalancer_pause ==
  /\ slabs_rebalance_lock = "free" /\ slabs_rebalance_lock' = "maintenance"
  /\ UNCHANGED <<pages, slots, items, command, slab_rebalance_signal, slab_rebal>>

slabs_rebalancer_resume ==
  /\ slabs_rebalance_lock = "maintenance" /\ slabs_rebalance_lock' = "free"
  /\ UNCHANGED <<pages, slots, items, command, slab_rebalance_signal, slab_rebal>>

-----------------------------------------------------------------------------
(* The specification *)

DoItemAlloc(w) ==
  \E c \in Class, i \in Chunk :
    AllocFree(w, c, i) \/ AllocExpired(w, c, i) \/ AllocEvict(w, c, i)

Work(w) ==
  \/ DoItemAlloc(w) \/ InitHeader(w) \/ do_item_link(w)
  \/ (\E i \in Chunk : Find(w, i)) \/ TakeReference(w)
  \/ do_item_unlink(w) \/ item_remove(w)

Rebalance ==
  \/ slab_rebalance_start \/ RebalanceStartFails
  \/ slab_rebalance_move \/ slab_rebalance_finish \/ FinishEnds

Next ==
  \/ \E w \in Worker : Work(w)
  \/ \E src, dst \in Class : Reassign(src, dst)
  \/ WakeUp \/ Rebalance
  \/ slabs_rebalancer_pause \/ slabs_rebalancer_resume

\* Threads that can run do.  The client decides when an upload ends and a reply has
\* been taken, and may never: do_item_link and item_remove are not fair.  The thread
\* gets its mutex in the end because the hash table expands finitely often.
Fairness ==
  /\ SF_vars(WakeUp \/ Rebalance) /\ WF_vars(slabs_rebalancer_resume)
  /\ \A w \in Worker : WF_vars(InitHeader(w) \/ TakeReference(w))

Spec == Init /\ [][Next]_vars /\ Fairness

-----------------------------------------------------------------------------
(* Properties *)

\* The types; no count goes below zero.
TypeOK ==
  /\ slab_list \in [Class -> Seq(Page)] /\ list_size \in [Class -> Nat]
  /\ slots \in [Class -> SUBSET Chunk]
  /\ slabs_clsid \in [Chunk -> {0, 255} \cup Class] /\ refcount \in [Chunk -> Nat]
  /\ ITEM_SLABBED \subseteq Chunk /\ ITEM_LINKED \subseteq Chunk
  /\ pc \in [Worker -> {"idle", "init", "own", "found", "hold"}]
  /\ it \in [Worker -> Chunk \cup {NULL}] /\ id \in [Worker -> {0} \cup Class]
  /\ slab_rebalance_signal \in 0..2
  /\ slab_rebal \in [s_clsid : {0} \cup Class, d_clsid : {0} \cup Class,
                     slab_start : {0} \cup Page, slab_end : Nat, slab_pos : Nat,
                     busy_items : BOOLEAN, done : BOOLEAN]
  /\ slabs_rebalance_lock \in {"free", "rebalancer", "maintenance"}

Holders(i) == {w \in Worker : it[w] = i /\ pc[w] \in {"init", "own", "hold"}}

\* The count that slab_rebalance_move and do_item_alloc go by is the number of
\* references: those of commands and, for a linked item, the hash table's.
CountsReferences ==
  \A i \in Chunk :
    refcount[i] = Cardinality(Holders(i)) + (IF i \in ITEM_LINKED THEN 1 ELSE 0)

ChunksIn(c) == UNION {ChunksOf(p, c) : p \in ToSet(slab_list[c])}

\* No chunk is lost, given out twice or cut to the size of another class by moving
\* pages: every page is in one class, and each of its chunks is either on that
\* class's free list, or in use, or has been taken by slab_rebalance_move; nothing
\* else is on a free list or linked.
ChunksAccountedFor ==
  /\ \A c, d \in Class : c # d => ToSet(slab_list[c]) \cap ToSet(slab_list[d]) = {}
  /\ \A c \in Class : IsInjective(slab_list[c])
  /\ \A c \in Class : slots[c] \subseteq ChunksIn(c)
  /\ ITEM_LINKED \subseteq UNION {ChunksIn(c) : c \in Class}
  /\ \A c \in Class : \A p \in ToSet(slab_list[c]) : \A i \in ChunksOf(p, c) :
       CASE i \in slots[c]         -> refcount[i] = 0 /\ slabs_clsid[i] = 0
         [] slabs_clsid[i] = 255   -> p = slab_rebal.slab_start
         [] OTHER                  -> refcount[i] > 0 /\ slabs_clsid[i] \in {0, c}

\* slab_rebalance_finish: "At this point the stolen slab is completely clear".  A
\* chunk that has been taken is not linked, nobody refers to it or is about to, and
\* when the pass is over all of the page has been.
ClearWhenGiven ==
  /\ \A i \in Chunk : slabs_clsid[i] = 255 =>
       i \notin ITEM_LINKED /\ refcount[i] = 0 /\ \A w \in Worker : it[w] # i
  /\ slab_rebal.done =>
       \A i \in ChunksOf(slab_rebal.slab_start, slab_rebal.s_clsid) : slabs_clsid[i] = 255

\* A class that has a page always has: neither check of "slabs < 2" can be out of date
\* when the page goes.
KeepsAPage == [][\A c \in Class : slab_list[c] # <<>> => slab_list'[c] # <<>>]_vars

InDying(w) == it[w] # NULL /\ it[w][1] = slab_rebal.slab_start

\* "logic in do_item_get will prevent busy items from continuing to be busy": a move
\* ends, unless a client never lets go of an item of the page, or commands allocate
\* from the page again and again.
MoveEnds ==
  \/ slab_rebalance_signal # 0 ~> slab_rebalance_signal = 0
  \/ \E w \in Worker : <>[](pc[w] \in {"own", "hold"} /\ InDying(w))
  \/ []<>(\E w \in Worker : pc[w] = "init" /\ InDying(w))

\* list_size is "size of prev array": slab_list is never written beyond its end.
ListFits == \A c \in Class : Len(slab_list[c]) <= list_size[c]
=============================================================================
