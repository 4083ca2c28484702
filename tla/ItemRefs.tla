------------------------------ MODULE ItemRefs ------------------------------
(***************************************************************************)
(* Reference counts and item locks: how worker threads share item chunks.  *)
(*                                                                         *)
(* A chunk of slab memory is in one of three situations: on the free list  *)
(* (ITEM_SLABBED), linked into the hash table and the LRU (ITEM_LINKED), or *)
(* only referenced by connections.  Its refcount says when it may be reused.*)
(* The count of an item is meant to be changed only by a thread that holds *)
(* the item lock of the item's key, while the hash table and the LRU are   *)
(* changed under cache_lock.  Every step below is one critical section of  *)
(* items.c / memcached.c, or one access made outside of any lock that      *)
(* another thread can interleave with.                                     *)
(*                                                                         *)
(* Abstractions: the position of an item in the LRU, times and values are  *)
(* left out.  "The item has expired" and "this item is next in the LRU     *)
(* walk" are nondeterministic choices, so what is shown holds for every    *)
(* order and every clock.  do_item_update only moves an item within the    *)
(* LRU and is therefore no step here.  A worker's Slots are the replies its *)
(* connections still have to send; only the command it is executing may    *)
(* take the other references.  tail_repair_time is 0, its default.         *)
(***************************************************************************)
EXTENDS Naturals, FiniteSets

CONSTANTS
  Worker,           \* worker threads, each serving one connection
  Item,             \* chunks of one slab class
  Key,
  Stripe,           \* item_locks[]
  StripeOf,         \* hv & hashmask(item_lock_hashpower)
  GlobalLock,       \* item_global_lock
  Slot,             \* positions of a connection's ilist
  RefMax,           \* largest value of the refcount field (unsigned short: 65535)
  item_lock_type,   \* "granular", or "global" while the hash table expands
  flush_enabled,    \* settings.flush_enabled, switched off by option -F
  NoItem, NoKey, NoWorker

Refs == Worker \X ({"it", "item", "new_it"} \cup Slot)

ASSUME WorkerAssumption == IsFiniteSet(Worker) /\ NoWorker \notin Worker
ASSUME ItemAssumption == NoItem \notin Item
ASSUME KeyAssumption == NoKey \notin Key
ASSUME StripeAssumption == StripeOf \in [Key -> Stripe] /\ GlobalLock \notin Stripe
ASSUME SlotAssumption ==
  IsFiniteSet(Slot) /\ "it" \notin Slot /\ "item" \notin Slot /\ "new_it" \notin Slot
\* The counter is wide enough for every reference and the link itself.
ASSUME RefMaxAssumption == RefMax \in Nat /\ Cardinality(Refs) < RefMax
ASSUME ModeAssumption ==
  item_lock_type \in {"granular", "global"} /\ flush_enabled \in BOOLEAN

VARIABLES
  refcount,    \* it->refcount
  linked,      \* items with ITEM_LINKED: in the hash table and in the LRU
  slabbed,     \* items with ITEM_SLABBED: on the slab free list
  key,         \* ITEM_key(it)
  ref,         \* the counted references held in C variables: it, c->item, new_it, c->ilist[]
  found,       \* the pointer assoc_find returned, not counted yet
  lock,        \* owner of each item lock
  cache_lock,  \* owner of cache_lock, when it is kept across steps
  pc, op, opkey

vars == <<refcount, linked, slabbed, key, ref, found, lock, cache_lock, pc, op, opkey>>
memory == <<refcount, linked, slabbed, key>>
locks == <<lock, cache_lock>>

LookupOps == {"get", "touch", "delete", "incr"}
StoreOps == {"set", "add", "replace", "cas", "append"}
\* "purge" is what a set does when it could not allocate: drop the old value.
Ops == LookupOps \cup StoreOps \cup {"purge", "flush_all"}

LockedPCs == {"find", "incr", "check", "drop", "hit", "missed", "inplace",
              "alloc", "link", "linked", "unlink"}
PCs == LockedPCs \cup
       {"idle", "nread", "lock", "lock_unlink", "rel_it", "rel_item", "flush"}

TypeOK ==
  /\ refcount \in [Item -> 0..RefMax]
  /\ linked \in SUBSET Item
  /\ slabbed \in SUBSET Item
  /\ key \in [Item -> Key \cup {NoKey}]
  /\ ref \in [Refs -> Item \cup {NoItem}]
  /\ found \in [Worker -> Item \cup {NoItem}]
  /\ lock \in [Stripe \cup {GlobalLock} -> Worker \cup {NoWorker}]
  /\ cache_lock \in Worker \cup {NoWorker}
  /\ pc \in [Worker -> PCs]
  /\ op \in [Worker -> Ops]
  /\ opkey \in [Worker -> Key]

Init ==
  /\ refcount = [i \in Item |-> 0]
  /\ linked = {}
  /\ slabbed = Item
  /\ key = [i \in Item |-> NoKey]
  /\ ref = [r \in Refs |-> NoItem]
  /\ found = [w \in Worker |-> NoItem]
  /\ lock = [l \in Stripe \cup {GlobalLock} |-> NoWorker]
  /\ cache_lock = NoWorker
  /\ pc = [w \in Worker |-> "idle"]
  /\ op \in [Worker -> {"get"}]
  /\ opkey \in [Worker -> Key]

-----------------------------------------------------------------------------
(* Primitives of thread.c *)

\* refcount_incr and refcount_decr: atomic, and they wrap around.
refcount_incr(n) == IF n = RefMax THEN 0 ELSE n + 1
\* Mutant: a signed counter does not wrap.
refcount_decr_signed(n) == n - 1

refcount_decr(n) == IF n = 0 THEN RefMax ELSE n - 1

\* The mutex item_lock(hv) takes: one stripe, or the single lock that replaces
\* all of them while the hash table is being expanded.
LockOf(k) == IF item_lock_type = "granular" THEN StripeOf[k] ELSE GlobalLock

item_lock(w, k) == lock[LockOf(k)] = NoWorker /\ lock' = [lock EXCEPT ![LockOf(k)] = w]
item_unlock(k) == lock' = [lock EXCEPT ![LockOf(k)] = NoWorker]

\* item_trylock ignores the lock type and always tries the stripe.
TryLockSucceeds(k) == lock[StripeOf[k]] = NoWorker

CacheLockFree == cache_lock = NoWorker

Goto(w, label) == pc' = [pc EXCEPT ![w] = label]

-----------------------------------------------------------------------------
(* Primitives of items.c *)

\* do_item_remove: give up reference r; the last one frees the chunk.
do_item_remove(r) ==
  LET i == ref[r] IN
  /\ refcount' = [refcount EXCEPT ![i] = refcount_decr(@)]
  /\ slabbed' = IF refcount_decr(refcount[i]) = 0 THEN slabbed \cup {i} ELSE slabbed
  /\ ref' = [ref EXCEPT ![r] = NoItem]

\* do_item_unlink: out of hash table and LRU, with the reference those two held.
\* A second call finds ITEM_LINKED cleared and does nothing.
do_item_unlink(i) ==
  /\ CacheLockFree
  /\ linked' = linked \ {i}
  /\ refcount' = IF i \in linked THEN [refcount EXCEPT ![i] = refcount_decr(@)] ELSE refcount
  /\ slabbed' = IF i \in linked /\ refcount_decr(refcount[i]) = 0
                THEN slabbed \cup {i} ELSE slabbed

\* do_item_link: into hash table and LRU, which take one reference together.
do_item_link(i) ==
  /\ CacheLockFree
  /\ linked' = linked \cup {i}
  /\ refcount' = [refcount EXCEPT ![i] = refcount_incr(@)]

\* Mutants: the item is taken without its lock, or while others refer to it.
ReclaimableUnlocked(i, cur_hv) ==
  i \in linked /\ key[i] # cur_hv /\ refcount_incr(refcount[i]) = 2
ReclaimableInUse(i, cur_hv) ==
  i \in linked /\ key[i] # cur_hv /\ TryLockSucceeds(key[i])

\* An LRU entry do_item_alloc or the crawler may take away: it is not the item
\* of the command itself (cur_hv), its item lock can be had and nobody but the
\* hash table and the LRU refers to it.
Reclaimable(i, cur_hv) ==
  /\ i \in linked
  /\ key[i] # cur_hv
  /\ TryLockSucceeds(key[i])
  /\ refcount_incr(refcount[i]) = 2

\* do_item_alloc, holding cache_lock from the LRU walk to the new reference:
\* a chunk of the free list, or a linked item that is expired or evicted.  The
\* unlinked victim is not freed but handed over with refcount 1.
do_item_alloc(r, k, cur_hv, i) ==
  /\ CacheLockFree
  /\ i \in slabbed \/ Reclaimable(i, cur_hv)
  /\ linked' = linked \ {i}
  /\ slabbed' = slabbed \ {i}
  /\ refcount' = [refcount EXCEPT ![i] = 1]
  /\ key' = [key EXCEPT ![i] = k]
  /\ ref' = [ref EXCEPT ![r] = i]

\* For an item of a slab class's size it can only fail when the free list is empty
\* and memory is used up.
AllocFails == CacheLockFree /\ slabbed = {}

-----------------------------------------------------------------------------
(* Commands *)

\* A lookup command arrives: it goes to item_get / item_touch / add_delta.
\* The bound on ilist: a get is only accepted while a slot is free.
StartLookup(w) ==
  /\ pc[w] = "idle"
  /\ \E o \in LookupOps, k \in Key :
       /\ o = "get" => \E s \in Slot : ref[<<w, s>>] = NoItem
       /\ op' = [op EXCEPT ![w] = o]
       /\ opkey' = [opkey EXCEPT ![w] = k]
  /\ Goto(w, "lock")
  /\ UNCHANGED <<memory, ref, found, locks>>

\* process_update_command: item_alloc, then wait for the value (conn_nread).
StartStore(w) ==
  /\ pc[w] = "idle"
  /\ \E o \in StoreOps, k \in Key, i \in Item :
       /\ do_item_alloc(<<w, "item">>, k, NoKey, i)
       /\ op' = [op EXCEPT ![w] = o]
       /\ opkey' = [opkey EXCEPT ![w] = k]
  /\ Goto(w, "nread")
  /\ UNCHANGED <<found, locks>>

\* Without memory, or with an item too large for any slab class (whatever is
\* free), the command is refused; a failed set also unlinks the value it was
\* meant to replace.
StartStoreFails(w) ==
  /\ pc[w] = "idle"
  /\ \E k \in Key : opkey' = [opkey EXCEPT ![w] = k]
  /\ op' = [op EXCEPT ![w] = "purge"]
  /\ Goto(w, "lock")
  /\ UNCHANGED <<memory, ref, found, locks>>

\* complete_nread: the value has arrived and store_item takes the item lock;
\* a bad data chunk or a closed connection only gives the item back.
NreadComplete(w) ==
  /\ pc[w] = "nread"
  /\ Goto(w, "lock") \/ Goto(w, "rel_item")
  /\ UNCHANGED <<memory, ref, found, locks, op, opkey>>

\* Mutant: the lookup and the store that follows are not under the item lock.
ItemLockSkipped(w) ==
  /\ pc[w] = "lock"
  /\ Goto(w, "find")
  /\ UNCHANGED <<memory, ref, found, locks, op, opkey>>

ItemLock(w) ==
  /\ pc[w] = "lock"
  /\ item_lock(w, opkey[w])
  /\ Goto(w, "find")
  /\ UNCHANGED <<memory, ref, found, cache_lock, op, opkey>>

\* do_item_get, first access: assoc_find walks the bucket without cache_lock.
AssocFind(w) ==
  /\ pc[w] = "find"
  /\ LET hits == {i \in linked : key[i] = opkey[w]} IN
     \/ /\ hits = {}
        /\ Goto(w, "missed")
        /\ UNCHANGED found
     \/ \E i \in hits : found' = [found EXCEPT ![w] = i] /\ Goto(w, "incr")
  /\ UNCHANGED <<memory, ref, locks, op, opkey>>

\* do_item_get, second access: the reference is counted.
TakeReference(w) ==
  /\ pc[w] = "incr"
  /\ refcount' = [refcount EXCEPT ![found[w]] = refcount_incr(@)]
  /\ ref' = [ref EXCEPT ![<<w, "it">>] = found[w]]
  /\ found' = [found EXCEPT ![w] = NoItem]
  /\ Goto(w, "check")
  /\ UNCHANGED <<linked, slabbed, key, locks, op, opkey>>

\* do_item_get, third access: an expired or flushed item is unlinked on sight.
CheckLive(w) ==
  /\ pc[w] = "check"
  /\ \/ /\ Goto(w, "hit")
        /\ UNCHANGED memory
     \/ /\ do_item_unlink(ref[<<w, "it">>])
        /\ Goto(w, "drop")
        /\ UNCHANGED key
  /\ UNCHANGED <<ref, found, locks, op, opkey>>

DropExpired(w) ==
  /\ pc[w] = "drop"
  /\ do_item_remove(<<w, "it">>)
  /\ Goto(w, "missed")
  /\ UNCHANGED <<linked, key, found, locks, op, opkey>>

-----------------------------------------------------------------------------
(* The rest of a command that found no item *)

\* Mutant: the early return after a miss forgets the lock.
MissEndsLocked(w) ==
  /\ pc[w] = "missed"
  /\ op[w] \notin {"set", "add"}
  /\ Goto(w, IF op[w] \in StoreOps THEN "rel_item" ELSE "idle")
  /\ UNCHANGED <<memory, ref, found, locks, op, opkey>>

\* Nothing to do but to unlock; store commands still hold c->item.
MissEnds(w) ==
  /\ pc[w] = "missed"
  /\ op[w] \notin {"set", "add"}
  /\ item_unlock(opkey[w])
  /\ Goto(w, IF op[w] \in StoreOps THEN "rel_item" ELSE "idle")
  /\ UNCHANGED <<memory, ref, found, cache_lock, op, opkey>>

\* do_store_item: set and add link the new item.
MissLinks(w) ==
  /\ pc[w] = "missed"
  /\ op[w] \in {"set", "add"}
  /\ do_item_link(ref[<<w, "item">>])
  /\ Goto(w, "linked")
  /\ UNCHANGED <<slabbed, key, ref, found, locks, op, opkey>>

-----------------------------------------------------------------------------
(* The rest of a command that found an item *)

\* process_get_command: the reference moves to c->ilist until the reply is sent.
HitGet(w) ==
  /\ pc[w] = "hit" /\ op[w] = "get"
  /\ \E s \in Slot :
       /\ ref[<<w, s>>] = NoItem
       /\ ref' = [ref EXCEPT ![<<w, s>>] = ref[<<w, "it">>], ![<<w, "it">>] = NoItem]
  /\ item_unlock(opkey[w])
  /\ Goto(w, "idle")
  /\ UNCHANGED <<memory, found, cache_lock, op, opkey>>

\* item_get and item_touch return with the lock released; the command goes on
\* with item_remove (touch, or a get whose reply could not be built) or with
\* item_unlink (delete, failed set), which lock again.
HitReturns(w) ==
  /\ pc[w] = "hit" /\ op[w] \in {"get", "touch", "delete", "purge"}
  /\ item_unlock(opkey[w])
  /\ Goto(w, IF op[w] \in {"get", "touch"} THEN "rel_it" ELSE "lock_unlink")
  /\ UNCHANGED <<memory, ref, found, cache_lock, op, opkey>>

ItemUnlinkLock(w) ==
  /\ pc[w] = "lock_unlink"
  /\ item_lock(w, opkey[w])
  /\ Goto(w, "unlink")
  /\ UNCHANGED <<memory, ref, found, cache_lock, op, opkey>>

ItemUnlink(w) ==
  /\ pc[w] = "unlink"
  /\ do_item_unlink(ref[<<w, "it">>])
  /\ item_unlock(opkey[w])
  /\ Goto(w, "rel_it")
  /\ UNCHANGED <<key, ref, found, cache_lock, op, opkey>>

\* Mutant: one reference too many is taken for "we are the only ones".
HitIncrShared(w) ==
  /\ pc[w] = "hit" /\ op[w] = "incr"
  /\ LET n == refcount[ref[<<w, "it">>]] IN
     \/ n <= 3 /\ Goto(w, "inplace")
     \/ n >= 2 /\ Goto(w, "alloc")
  /\ UNCHANGED <<memory, ref, found, locks, op, opkey>>

\* do_add_delta: a cas mismatch or a value that is no number ends the command.
\* With refcount 2 the digits are overwritten in place if they fit, otherwise a
\* new item is allocated.  With a smaller count "we somehow fetched an unlinked
\* item": it is given back if the count is 1.
HitIncr(w) ==
  /\ pc[w] = "hit" /\ op[w] = "incr"
  /\ LET n == refcount[ref[<<w, "it">>]] IN
     /\ \/ Goto(w, "linked")
        \/ n = 2 /\ Goto(w, "inplace")
        \/ n >= 2 /\ Goto(w, "alloc")
     /\ ref' = IF n = 0 THEN [ref EXCEPT ![<<w, "it">>] = NoItem] ELSE ref
  /\ UNCHANGED <<memory, found, locks, op, opkey>>

\* The in-place write itself (memcpy, memset): its value is not modelled.
IncrInPlace(w) ==
  /\ pc[w] = "inplace"
  /\ CacheLockFree
  /\ Goto(w, "linked")
  /\ UNCHANGED <<memory, ref, found, locks, op, opkey>>

\* do_store_item on an existing item: add never replaces and cas may mismatch
\* (go and release), append needs a combined item, the others replace.
HitStore(w) ==
  /\ pc[w] = "hit" /\ op[w] \in StoreOps
  /\ \/ op[w] \in {"add", "cas", "append"} /\ Goto(w, "linked") /\ UNCHANGED memory
     \/ op[w] = "append" /\ Goto(w, "alloc") /\ UNCHANGED memory
     \/ /\ op[w] \in {"set", "replace", "cas"}
        /\ do_item_unlink(ref[<<w, "it">>])
        /\ Goto(w, "link")
        /\ UNCHANGED key
  /\ UNCHANGED <<ref, found, locks, op, opkey>>

\* append and incr: do_item_alloc with the item lock held, then the first half
\* of do_item_replace.
AllocInside(w) ==
  /\ pc[w] = "alloc" /\ ref[<<w, "new_it">>] = NoItem
  /\ \/ /\ \E i \in Item : do_item_alloc(<<w, "new_it">>, opkey[w], opkey[w], i)
        /\ UNCHANGED pc
     \/ /\ AllocFails \/ op[w] = "append"    \* the parts may be too large for one item
        /\ Goto(w, "linked")
        /\ UNCHANGED <<memory, ref>>
  /\ UNCHANGED <<found, locks, op, opkey>>

ReplaceUnlinks(w) ==
  /\ pc[w] = "alloc" /\ ref[<<w, "new_it">>] # NoItem
  /\ do_item_unlink(ref[<<w, "it">>])
  /\ Goto(w, "link")
  /\ UNCHANGED <<key, ref, found, locks, op, opkey>>

\* The second half of do_item_replace.
ReplaceLinks(w) ==
  /\ pc[w] = "link"
  /\ do_item_link(ref[<<w, IF op[w] \in {"append", "incr"} THEN "new_it" ELSE "item">>])
  /\ Goto(w, "linked")
  /\ UNCHANGED <<slabbed, key, ref, found, locks, op, opkey>>

\* Mutant: the reference of new_it is forgotten.
ReleaseLocalLeaks(w) ==
  /\ pc[w] = "linked"
  /\ \/ ref[<<w, "it">>] # NoItem /\ do_item_remove(<<w, "it">>)
     \/ /\ ref' = [ref EXCEPT ![<<w, "new_it">>] = NoItem]
        /\ UNCHANGED <<refcount, slabbed>>
  /\ UNCHANGED <<linked, key, found, locks, pc, op, opkey>>

\* The end of do_store_item and do_add_delta: give up old_it and new_it, one
\* after the other, then unlock.
ReleaseLocal(w) ==
  /\ pc[w] = "linked"
  /\ \E n \in {"it", "new_it"} : ref[<<w, n>>] # NoItem /\ do_item_remove(<<w, n>>)
  /\ UNCHANGED <<linked, key, found, locks, pc, op, opkey>>

UnlockAfterStore(w) ==
  /\ pc[w] = "linked"
  /\ ref[<<w, "it">>] = NoItem /\ ref[<<w, "new_it">>] = NoItem
  /\ item_unlock(opkey[w])
  /\ Goto(w, IF op[w] = "incr" THEN "idle" ELSE "rel_item")
  /\ UNCHANGED <<memory, ref, found, cache_lock, op, opkey>>

-----------------------------------------------------------------------------
(* item_remove: lock, do_item_remove, unlock in one critical section *)

item_remove(r) ==
  /\ lock[LockOf(key[ref[r]])] = NoWorker
  /\ do_item_remove(r)

\* The command's last act on the item it looked up, or on c->item.
ReleaseLast(w) ==
  /\ \/ pc[w] = "rel_it" /\ item_remove(<<w, "it">>)
     \/ pc[w] = "rel_item" /\ item_remove(<<w, "item">>)
  /\ Goto(w, "idle")
  /\ UNCHANGED <<linked, key, found, locks, op, opkey>>

\* conn_mwrite has sent a reply, or conn_release_items cleans up.
ReplySent(w) ==
  /\ pc[w] = "idle"
  /\ \E s \in Slot : ref[<<w, s>>] # NoItem /\ item_remove(<<w, s>>)
  /\ UNCHANGED <<linked, key, found, locks, pc, op, opkey>>

-----------------------------------------------------------------------------
(* flush_all and the LRU crawler *)

\* item_flush_expired keeps cache_lock while it walks the LRUs ...
FlushBegin(w) ==
  /\ flush_enabled
  /\ pc[w] = "idle"
  /\ CacheLockFree
  /\ cache_lock' = w
  /\ op' = [op EXCEPT ![w] = "flush_all"]
  /\ Goto(w, "flush")
  /\ UNCHANGED <<memory, ref, found, lock, opkey>>

\* ... and unlinks items one by one, without taking their item locks.
FlushItem(w) ==
  /\ pc[w] = "flush"
  /\ \E i \in linked :
       /\ linked' = linked \ {i}
       /\ refcount' = [refcount EXCEPT ![i] = refcount_decr(@)]
       /\ slabbed' = IF refcount_decr(refcount[i]) = 0 THEN slabbed \cup {i} ELSE slabbed
  /\ UNCHANGED <<key, ref, found, locks, pc, op, opkey>>

FlushEnd(w) ==
  /\ pc[w] = "flush"
  /\ cache_lock' = NoWorker
  /\ Goto(w, "idle")
  /\ UNCHANGED <<memory, ref, found, lock, op, opkey>>

\* item_crawler_thread on an expired item: under cache_lock, with the item lock
\* and only if nobody else refers to the item.
CrawlerReclaims ==
  /\ CacheLockFree
  /\ \E i \in Item :
       /\ Reclaimable(i, NoKey)
       /\ linked' = linked \ {i}
       /\ refcount' = [refcount EXCEPT ![i] = 0]
       /\ slabbed' = slabbed \cup {i}
  /\ UNCHANGED <<key, ref, found, locks, pc, op, opkey>>

-----------------------------------------------------------------------------
Lookup(w) ==
  \/ StartLookup(w) \/ StartStore(w) \/ StartStoreFails(w) \/ NreadComplete(w)
  \/ ItemLock(w) \/ AssocFind(w) \/ TakeReference(w) \/ CheckLive(w)
  \/ DropExpired(w) \/ MissEnds(w) \/ MissLinks(w)

Finish(w) ==
  \/ HitGet(w) \/ HitReturns(w) \/ ItemUnlinkLock(w) \/ ItemUnlink(w)
  \/ HitIncr(w) \/ IncrInPlace(w) \/ HitStore(w) \/ AllocInside(w)
  \/ ReplaceUnlinks(w) \/ ReplaceLinks(w) \/ ReleaseLocal(w) \/ UnlockAfterStore(w)
  \/ ReleaseLast(w) \/ ReplySent(w)
  \/ FlushBegin(w) \/ FlushItem(w) \/ FlushEnd(w)

Next == CrawlerReclaims \/ \E w \in Worker : Lookup(w) \/ Finish(w)

Spec == Init /\ [][Next]_vars

-----------------------------------------------------------------------------
(* Properties *)

Holders(i) == {r \in Refs : ref[r] = i}

\* The refcount of an item is the number of C variables that refer to it, plus
\* one for the hash table and the LRU together: no path through a command, its
\* error returns included, leaks a reference or gives one up twice.
RefcountExact ==
  \A i \in Item : refcount[i] = Cardinality(Holders(i)) + (IF i \in linked THEN 1 ELSE 0)

\* do_item_remove and item_link_q assert that ITEM_SLABBED is not set: a chunk on
\* the free list is not in the hash table, no thread refers to it and none is
\* about to count a reference it read from the hash table.  Conversely a chunk
\* that nothing refers to is on the free list.
NoUseAfterFree ==
  /\ slabbed = {i \in Item : i \notin linked /\ Holders(i) = {}}
  /\ \A w \in Worker : found[w] \notin slabbed

\* assoc_insert: "shouldn't have duplicately named things defined".  Racing stores
\* of one key, each of them an unlink and a link in separate critical sections,
\* never leave two items of that key behind.
UniqueKey == \A i, j \in linked : key[i] = key[j] => i = j

\* "refcount == 2 means we are the only ones holding the item [...] so refcount
\* cannot increase": while do_add_delta overwrites the digits no other thread
\* and no reply that is still being sent refers to them.
InPlaceExclusive ==
  \A w \in Worker : pc[w] = "inplace" => Holders(ref[<<w, "it">>]) = {<<w, "it">>}

\* A thread inside a critical section of an item lock owns that lock, also after
\* an error return; outside it owns none.
LockDiscipline ==
  \A w \in Worker :
    {l \in DOMAIN lock : lock[l] = w} = IF pc[w] \in LockedPCs THEN {LockOf(opkey[w])} ELSE {}

\* What a C variable refers to is not recycled for another key under it: the
\* chunk of a reply being sent, or of a value being received, stays that item.
NotRecycled ==
  [][\A r \in Refs : ref[r] # NoItem /\ ref'[r] = ref[r] => key'[ref[r]] = key[ref[r]]]_vars
=============================================================================
