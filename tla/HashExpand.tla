----------------------------- MODULE HashExpand -----------------------------
(***************************************************************************)
(* The hash table while it grows, and the switch of the item locks.        *)
(*                                                                         *)
(* assoc_insert asks for a larger table when there are 1.5 items a bucket. *)
(* The maintenance thread then pauses the slab rebalancer, makes every     *)
(* worker use the one global item lock instead of the striped ones,        *)
(* installs a table of twice the size, and moves the buckets of the old    *)
(* table into it a few at a time, under the global lock and cache_lock.    *)
(* Workers change the table under cache_lock, but they search it without:  *)
(* there only the item lock keeps them and the mover apart.                *)
(*                                                                         *)
(* Abstractions: a chain is the set of its items, and walking it is one    *)
(* step (ItemRefs interleaves what happens within a lookup).  An item is   *)
(* bound to its key for good.  A section of cache_lock is one step unless  *)
(* a search could look into it.  Nothing is modelled past a fault: a read  *)
(* through a NULL table, or a second item linked under one key.            *)
(***************************************************************************)
EXTENDS Integers, FiniteSets, FiniteSetsExt

CONSTANTS
  Worker, Item, Key,
  KeyOf,               \* ITEM_key
  hv,                  \* hash(key)
  item_lock_hashpower,
  InitPower,           \* settings.hashpower_init
  MaxPower,            \* bound: a table any larger cannot be allocated
  hash_bulk_move,
  NULL, Nobody, Maintenance

ASSUME HashAssumption ==
  IsFiniteSet(Item) /\ KeyOf \in [Item -> Key] /\ hv \in [Key -> Nat]
ASSUME PowerAssumption ==
  /\ item_lock_hashpower \in Nat /\ InitPower \in Nat /\ MaxPower \in Nat
  /\ InitPower <= MaxPower
  /\ hash_bulk_move \in Nat \ {0}
ASSUME ThreadAssumption ==
  IsFiniteSet(Worker) /\ {Nobody, Maintenance} \cap Worker = {} /\ Nobody # Maintenance
ASSUME NullAssumption ==
  NULL \notin Item /\ \A n \in 0..MaxPower : NULL \notin [0..(2^n - 1) -> SUBSET Item]

VARIABLES
  hashpower, expanding, expand_bucket, started_expanding, hash_items,
  primary,         \* primary_hashtable
  old,             \* old_hashtable; NULL when it is not in use
  linked,          \* items with ITEM_LINKED
  item_lock_type, pipe,  \* of each worker: its lock type, the letter in its notify pipe
  init_count,      \* workers that have reported the switch
  lock,            \* owner of each item lock
  mpc,             \* where the maintenance thread is
  pc, key, item,   \* of each worker: where it is, its key and the item it will store
  table, it,       \* in assoc_find: the table chosen, the item found
  fault

tables == <<hashpower, expanding, expand_bucket, primary, old>>
contents == <<linked, hash_items, started_expanding>>
switch == <<item_lock_type, pipe, init_count>>
command == <<pc, key, item, table, it>>
vars == <<tables, contents, switch, lock, mpc, command, fault>>

hashsize(n) == 2^n

\* Arithmetic that the provers do not know.
ASSUME SizeAssumption == \A n \in 0..MaxPower \cup {item_lock_hashpower} : hashsize(n) > 0

GlobalLock == hashsize(item_lock_hashpower)
Locks == 0..GlobalLock

Init ==
  /\ hashpower = InitPower
  /\ expanding = FALSE /\ started_expanding = FALSE
  /\ expand_bucket = 0 /\ hash_items = 0
  /\ primary = [b \in 0..(hashsize(InitPower) - 1) |-> {}]
  /\ old = NULL
  /\ linked = {}
  /\ item_lock_type = [w \in Worker |-> "granular"]
  /\ pipe = [w \in Worker |-> "empty"]
  /\ init_count = Cardinality(Worker)
  /\ lock = [l \in Locks |-> Nobody]
  /\ mpc = "top"
  /\ pc = [w \in Worker |-> "idle"]
  /\ key = [w \in Worker |-> NULL]
  /\ item = [w \in Worker |-> NULL] /\ it = [w \in Worker |-> NULL]
  /\ table = [w \in Worker |-> "primary"]
  /\ fault = "none"

-----------------------------------------------------------------------------
(* The table *)

OldBucket(k) == hv[k] % hashsize(hashpower - 1)
NewBucket(k) == hv[k] % hashsize(hashpower)

\* Whether the key belongs to a bucket that has not been moved yet.
InOld(k) == expanding /\ OldBucket(k) >= expand_bucket
Chain(k) == IF InOld(k) THEN old[OldBucket(k)] ELSE primary[NewBucket(k)]

SetChain(k, c) ==
  /\ old' = IF InOld(k) THEN [old EXCEPT ![OldBucket(k)] = c] ELSE old
  /\ primary' = IF InOld(k) THEN primary ELSE [primary EXCEPT ![NewBucket(k)] = c]
  /\ UNCHANGED <<hashpower, expanding, expand_bucket>>

\* Between its two steps assoc_expand owns cache_lock.
CacheLockFree == mpc \notin {"install", "halted"}

\* assoc_start_expand: the signal is lost unless the maintenance thread waits for it.
CountItem ==
  LET ask == ~expanding /\ hash_items' > (hashsize(hashpower) * 3) \div 2 /\ ~started_expanding IN
  /\ hash_items' = hash_items + 1
  /\ started_expanding' = (started_expanding \/ ask)
  /\ mpc' = IF ask /\ mpc = "sleeping" THEN "woken" ELSE mpc

\* Mutant: during an expansion new items go to the new table at once.
assoc_insert_new(i) ==
  /\ primary' = [primary EXCEPT ![NewBucket(KeyOf[i])] = @ \cup {i}]
  /\ UNCHANGED <<old, hashpower, expanding, expand_bucket>>
  /\ CountItem

assoc_insert(i) ==
  /\ SetChain(KeyOf[i], Chain(KeyOf[i]) \cup {i})
  /\ CountItem

\* Deletes by key.
assoc_delete(k) ==
  /\ SetChain(k, {i \in Chain(k) : KeyOf[i] # k})
  /\ hash_items' = hash_items - 1

do_item_unlink(i) ==
  \/ /\ i \in linked
     /\ linked' = linked \ {i}
     /\ assoc_delete(KeyOf[i])
     /\ UNCHANGED <<started_expanding, mpc>>
  \/ i \notin linked /\ UNCHANGED <<tables, contents, mpc>>

-----------------------------------------------------------------------------
(* A worker's command *)

Goto(w, l) == pc' = [pc EXCEPT ![w] = l]

LockOf(w) ==
  IF item_lock_type[w] = "granular" THEN hv[key[w]] % hashsize(item_lock_hashpower) ELSE GlobalLock

\* item_unlock, and the end of the command.
item_unlock(w) ==
  /\ lock' = [lock EXCEPT ![LockOf(w)] = Nobody]
  /\ Goto(w, "idle")
  /\ key' = [key EXCEPT ![w] = NULL]
  /\ item' = [item EXCEPT ![w] = NULL] /\ it' = [it EXCEPT ![w] = NULL]

\* The process dies.
Halt(reason) ==
  /\ fault' = reason
  /\ mpc' = "halted" /\ pc' = [w \in Worker |-> "halted"]
  /\ UNCHANGED <<tables, contents, lock, key, item, it>>

\* A lookup, or a set whose item has been allocated and filled.
Command(w) ==
  /\ pc[w] = "idle"
  /\ \/ \E k \in Key : key' = [key EXCEPT ![w] = k] /\ UNCHANGED item
     \/ \E i \in Item \ linked :
          /\ \A u \in Worker : i \notin {item[u], it[u]}
          /\ item' = [item EXCEPT ![w] = i] /\ key' = [key EXCEPT ![w] = KeyOf[i]]
  /\ Goto(w, "lock")
  /\ UNCHANGED <<tables, contents, switch, lock, mpc, table, it, fault>>

\* item_lock; then assoc_find, which does not take cache_lock, picks the table ...
item_lock(w) ==
  /\ pc[w] = "lock"
  /\ lock[LockOf(w)] = Nobody
  /\ lock' = [lock EXCEPT ![LockOf(w)] = w]
  /\ table' = [table EXCEPT ![w] = IF InOld(key[w]) THEN "old" ELSE "primary"]
  /\ Goto(w, "walk")
  /\ UNCHANGED <<tables, contents, switch, mpc, key, item, it, fault>>

\* ... reads the pointer to it, and walks the chain.
WalkChain(w) ==
  LET k == key[w]
      chain == IF table[w] = "old" THEN old[OldBucket(k)] ELSE primary[NewBucket(k)]
      hits == {i \in chain : KeyOf[i] = k}
  IN
  /\ pc[w] = "walk"
  /\ table' = [table EXCEPT ![w] = "primary"]
  /\ \/ table[w] = "primary" /\ primary = NULL /\ Halt("NULL table")
     \/ /\ table[w] = "old" \/ primary # NULL
        /\ \/ hits = {} /\ item[w] = NULL /\ item_unlock(w)
           \/ hits = {} /\ item[w] # NULL /\ Goto(w, "link") /\ UNCHANGED <<lock, key, item, it>>
           \/ /\ \E i \in hits : it' = [it EXCEPT ![w] = i]
              /\ Goto(w, IF item[w] = NULL THEN "hit" ELSE "replace")
              /\ UNCHANGED <<lock, key, item>>
        /\ UNCHANGED <<tables, contents, mpc, fault>>
  /\ UNCHANGED <<switch>>

\* do_item_get returns a live item ...
HitLive(w) ==
  /\ pc[w] = "hit"
  /\ item_unlock(w)
  /\ UNCHANGED <<tables, contents, switch, mpc, table, fault>>

\* ... and unlinks an expired one.
HitExpired(w) ==
  /\ pc[w] = "hit"
  /\ CacheLockFree
  /\ do_item_unlink(it[w])
  /\ item_unlock(w)
  /\ UNCHANGED <<switch, table, fault>>

\* do_item_replace: the old item goes ...
ReplaceUnlinks(w) ==
  /\ pc[w] = "replace"
  /\ CacheLockFree
  /\ do_item_unlink(it[w])
  /\ Goto(w, "link")
  /\ UNCHANGED <<switch, lock, key, item, table, it, fault>>

\* ... and the new one comes.  "The key must not already exist to call this."
do_item_link(w) ==
  LET i == item[w] IN
  /\ pc[w] = "link"
  /\ CacheLockFree
  /\ \/ /\ \A j \in linked : KeyOf[j] # KeyOf[i]
        /\ linked' = linked \cup {i}
        /\ assoc_insert(i)
        /\ item_unlock(w)
        /\ UNCHANGED fault
     \/ (\E j \in linked : KeyOf[j] = KeyOf[i]) /\ Halt("duplicate key")
  /\ UNCHANGED <<switch, table>>

\* do_item_unlink under cache_lock by flush_all, an eviction, the crawler or a delete.
Vanish(i) ==
  /\ CacheLockFree
  /\ i \in linked
  /\ do_item_unlink(i)
  /\ UNCHANGED <<switch, lock, command, fault>>

\* Mutant: the global type is set without a report.
FlipLockTypeSilent(w) ==
  /\ pc[w] = "idle"
  /\ pipe[w] # "empty"
  /\ item_lock_type' = [item_lock_type EXCEPT ![w] = IF pipe[w] = "l" THEN "granular" ELSE "global"]
  /\ pipe' = [pipe EXCEPT ![w] = "empty"]
  /\ init_count' = init_count + (IF pipe[w] = "l" THEN 1 ELSE 0)
  /\ UNCHANGED <<tables, contents, lock, mpc, command, fault>>

\* thread_libevent_process between two commands: "flip the lock type and report in"
FlipLockType(w) ==
  /\ pc[w] = "idle"
  /\ pipe[w] # "empty"
  /\ item_lock_type' = [item_lock_type EXCEPT ![w] = IF pipe[w] = "l" THEN "granular" ELSE "global"]
  /\ pipe' = [pipe EXCEPT ![w] = "empty"]
  /\ init_count' = init_count + 1
  /\ UNCHANGED <<tables, contents, lock, mpc, command, fault>>

-----------------------------------------------------------------------------
(* assoc_maintenance_thread *)

MGoto(from, to) == mpc = from /\ mpc' = to

\* Mutant: the global lock is not waited for.
item_lock_global_unowned ==
  /\ MGoto("top", "move")
  /\ lock' = [lock EXCEPT ![GlobalLock] = Maintenance]
  /\ UNCHANGED <<tables, contents, switch, command, fault>>

item_lock_global ==
  /\ MGoto("top", "move")
  /\ lock[GlobalLock] = Nobody
  /\ lock' = [lock EXCEPT ![GlobalLock] = Maintenance]
  /\ UNCHANGED <<tables, contents, switch, command, fault>>

\* Up to hash_bulk_move buckets go to the new table; after the last one the old
\* table is freed.
MoveUpTo(size) ==
  LET next == Min({expand_bucket + hash_bulk_move, size})
      moved == UNION {old[b] : b \in expand_bucket..(next - 1)}
  IN
  IF expanding
  THEN /\ primary' = [b \in DOMAIN primary |-> primary[b] \cup {i \in moved : NewBucket(KeyOf[i]) = b}]
       /\ expand_bucket' = next
       /\ expanding' = (next < size)
       /\ old' = IF next < size THEN [b \in DOMAIN old |-> IF b < next THEN {} ELSE old[b]] ELSE NULL
       /\ UNCHANGED hashpower
  ELSE UNCHANGED tables

\* Mutant: the end of the table is overlooked.
MoveBucketsBeyond == MoveUpTo(hashsize(hashpower - 1) + 1)

MoveBuckets == MoveUpTo(hashsize(hashpower - 1))

BulkMove ==
  /\ mpc = "move"
  /\ MoveBuckets
  /\ mpc' = IF expanding' THEN "top" ELSE "moved"
  /\ lock' = [lock EXCEPT ![GlobalLock] = Nobody]
  /\ UNCHANGED <<contents, switch, command, fault>>

\* switch_item_lock_type: a letter to every worker, then wait for all to report.
SwitchTo(letter) ==
  /\ init_count' = 0
  /\ pipe' = [w \in Worker |-> letter]
  /\ UNCHANGED <<item_lock_type, tables, contents, lock, command, fault>>

wait_for_thread_registration == init_count = Cardinality(Worker)

SwitchToGranular == MGoto("moved", "wait granular") /\ SwitchTo("l")

\* slabs_rebalancer_resume and pause keep the rebalancer still during an expansion.
\* Who else takes slabs_rebalance_lock is left out: pausing is a step that takes time.
ResumeAndSleep ==
  /\ MGoto("wait granular", "sleeping")
  /\ wait_for_thread_registration
  /\ started_expanding' = FALSE
  /\ UNCHANGED <<tables, linked, hash_items, switch, lock, command, fault>>

PauseAndSwitchToGlobal == MGoto("woken", "wait global") /\ SwitchTo("g")

\* pthread_cond_wait may return without a signal, and no condition is tested again.
SpuriousWakeup ==
  /\ MGoto("sleeping", "woken")
  /\ UNCHANGED <<tables, contents, switch, lock, command, fault>>

\* Mutant: the table is replaced before every worker has reported.
AllocateTableEarly ==
  /\ MGoto("wait global", "install")
  /\ init_count > 0
  /\ old' = primary
  /\ \/ primary' = NULL
     \/ /\ hashpower < MaxPower
        /\ primary' = [b \in 0..(hashsize(hashpower + 1) - 1) |-> {}]
  /\ UNCHANGED <<hashpower, expanding, expand_bucket, contents, switch, lock, command, fault>>

\* assoc_expand, with cache_lock but without an item lock: first the pointers,
\* primary_hashtable being NULL for a moment if there is no memory ...
AllocateTable ==
  /\ MGoto("wait global", "install")
  /\ wait_for_thread_registration
  /\ old' = primary
  /\ \/ primary' = NULL
     \/ /\ hashpower < MaxPower
        /\ primary' = [b \in 0..(hashsize(hashpower + 1) - 1) |-> {}]
  /\ UNCHANGED <<hashpower, expanding, expand_bucket, contents, switch, lock, command, fault>>

\* ... then the variables that say which table to use.
InstallTable ==
  /\ MGoto("install", "top")
  /\ \/ /\ primary # NULL
        /\ hashpower' = hashpower + 1 /\ expanding' = TRUE /\ expand_bucket' = 0
        /\ UNCHANGED <<primary, old>>
     \/ /\ primary = NULL
        /\ primary' = old
        /\ old' = NULL
        /\ UNCHANGED <<hashpower, expanding, expand_bucket>>
  /\ UNCHANGED <<contents, switch, lock, command, fault>>

-----------------------------------------------------------------------------
InCommand(w) ==
  \/ WalkChain(w) \/ HitLive(w) \/ HitExpired(w) \/ ReplaceUnlinks(w) \/ do_item_link(w)

Maintain ==
  \/ BulkMove \/ SwitchToGranular \/ ResumeAndSleep
  \/ PauseAndSwitchToGlobal \/ AllocateTable \/ InstallTable

Next ==
  \/ \E w \in Worker : Command(w) \/ item_lock(w) \/ InCommand(w) \/ FlipLockType(w)
  \/ \E i \in Item : Vanish(i)
  \/ Maintain \/ item_lock_global \/ SpuriousWakeup

\* Threads run, the event loop comes round to a readable pipe, and
\* a mutex that is released again and again is at last given to each waiter.
Fairness ==
  /\ WF_vars(Maintain) /\ SF_vars(item_lock_global)
  /\ \A w \in Worker : WF_vars(InCommand(w)) /\ SF_vars(item_lock(w)) /\ SF_vars(FlipLockType(w))

Spec == Init /\ [][Next]_vars /\ Fairness

-----------------------------------------------------------------------------
(* Properties *)

Tables == UNION {[0..(hashsize(n) - 1) -> SUBSET Item] : n \in 0..MaxPower}

\* The types; during an expansion expand_bucket "ranges from 0 .. hashsize(hashpower
\* - 1) - 1".
TypeOK ==
  /\ hashpower \in InitPower..MaxPower
  /\ expanding \in BOOLEAN /\ started_expanding \in BOOLEAN
  /\ expand_bucket \in Nat
  /\ expanding => expand_bucket < hashsize(hashpower - 1)
  /\ hash_items \in 0..Cardinality(Item)
  /\ {primary, old} \subseteq Tables \cup {NULL}
  /\ linked \subseteq Item
  /\ item_lock_type \in [Worker -> {"granular", "global"}]
  /\ pipe \in [Worker -> {"empty", "l", "g"}]
  /\ init_count \in 0..Cardinality(Worker)
  /\ lock \in [Locks -> Worker \cup {Nobody, Maintenance}]
  /\ fault \in {"none", "duplicate key", "NULL table"}

Cells(t) == IF t = NULL THEN {} ELSE UNION {t[b] : b \in DOMAIN t}

\* No item is lost or left behind by an expansion, however far it has got and
\* whatever is inserted and deleted meanwhile: whenever cache_lock is free every
\* linked item is in the chain where assoc_find looks for its key, the tables hold
\* no other, and hash_items counts them.
NothingLost ==
  CacheLockFree =>
    /\ Cells(primary) \cup Cells(old) = linked
    /\ \A i \in linked : i \in Chain(KeyOf[i])
    /\ hash_items = Cardinality(linked)

\* assoc_find takes no cache_lock.  Still no worker searches the table while
\* assoc_maintenance_thread moves buckets, and a search that chose the old table
\* still finds its bucket there when it gets to walk it.
SearchUndisturbed ==
  /\ mpc = "move" /\ expanding => \A w \in Worker : pc[w] \in {"idle", "lock"}
  /\ \A w \in Worker : pc[w] = "walk" /\ table[w] = "old" => InOld(key[w])

\* switch_item_lock_type brings all workers along: as long as buckets are moved
\* every worker uses the global lock, and the maintenance thread goes to sleep only
\* when all are back to the striped locks.
LockTypesSettled ==
  /\ expanding => \A w \in Worker : item_lock_type[w] = "global"
  /\ mpc = "sleeping" => \A w \in Worker : item_lock_type[w] = "granular"

\* An expansion ends: the maintenance thread is back at pthread_cond_wait, for which
\* every worker has to report twice, and every bucket to be moved against the
\* workers' demand for the global lock.
MaintenanceSleeps == (mpc # "sleeping") ~> mpc \in {"sleeping", "halted"}

\* assoc_insert: "The key must not already exist to call this".
KeyMustNotExist == fault # "duplicate key"
=============================================================================
