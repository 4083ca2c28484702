-------------------------- MODULE HashExpand_proofs --------------------------
(***************************************************************************)
(* Proofs about HashExpand, for any workers, items, keys and table sizes.   *)
(***************************************************************************)
EXTENDS HashExpand, FiniteSetTheorems, TLAPS

-----------------------------------------------------------------------------
(* The lock switch *)

MStates == {"top", "move", "moved", "wait granular", "sleeping", "woken", "wait global", "install",
            "halted"}

Searching == {"walk", "hit", "replace", "link"}

Reported == {w \in Worker : pipe[w] = "empty"}
AllUse(type) == \A w \in Worker : item_lock_type[w] = type

\* The maintenance thread waits for a report from every worker that still has a letter
\* in its pipe, and between its waits all of them use the locks of its last letter.
SInv ==
  /\ mpc \in MStates
  /\ pipe \in [Worker -> {"empty", "l", "g"}]
  /\ item_lock_type \in [Worker -> {"granular", "global"}]
  /\ init_count = Cardinality(Reported)
  /\ mpc = "wait granular" =>
       \A w \in Worker : IF pipe[w] = "empty" THEN item_lock_type[w] = "granular" ELSE pipe[w] = "l"
  /\ mpc = "wait global" =>
       \A w \in Worker : IF pipe[w] = "empty" THEN item_lock_type[w] = "global" ELSE pipe[w] = "g"
  /\ mpc \notin {"wait granular", "wait global", "halted"} => Reported = Worker
  /\ mpc \in {"sleeping", "woken"} => AllUse("granular")
  /\ mpc = "install" => AllUse("global")
  /\ expanding => mpc \in {"top", "move", "halted"} /\ AllUse("global")

\* Who searches has its item lock, and who moves buckets has the global one.
LInv ==
  /\ lock \in [Locks -> Worker \cup {Nobody, Maintenance}]
  /\ pc \in [Worker -> Searching \cup {"idle", "lock", "halted"}]
  /\ \A w \in Worker : pc[w] = "halted" <=> mpc = "halted"
  /\ key \in [Worker -> Key \cup {NULL}]
  /\ \A w \in Worker : pc[w] \in Searching \cup {"lock"} => key[w] \in Key
  /\ \A w \in Worker : pc[w] \in Searching => lock[LockOf(w)] = w
  /\ mpc = "move" => lock[GlobalLock] = Maintenance
  /\ \A w \in Worker : pc[w] = "walk" /\ table[w] = "old" => InOld(key[w])
  /\ table \in [Worker -> {"old", "primary"}]

Size(t, n) == t \in [0..(hashsize(n) - 1) -> SUBSET Item]

\* One item a key, and as many as hash_items says.
KInv ==
  /\ hashpower \in InitPower..MaxPower /\ expand_bucket \in Nat
  /\ linked \subseteq Item
  /\ \A i, j \in linked : KeyOf[i] = KeyOf[j] => i = j
  /\ hash_items = Cardinality(linked)
  /\ item \in [Worker -> Item \cup {NULL}]
  /\ \A w \in Worker : pc[w] \in {"replace", "link"} => item[w] \in Item
  /\ fault \in {"none", "duplicate key", "NULL table"}

\* The tables while no expansion begins: an item is where its key belongs, and
\* nowhere else.
Settled ==
  /\ Size(primary, hashpower)
  /\ ~expanding => old = NULL
  /\ expanding => /\ hashpower > InitPower /\ Size(old, hashpower - 1)
                  /\ expand_bucket < hashsize(hashpower - 1)
                  /\ \A b \in DOMAIN old : \A i \in old[b] :
                       i \in linked /\ InOld(KeyOf[i]) /\ b = OldBucket(KeyOf[i])
  /\ \A b \in DOMAIN primary : \A i \in primary[b] :
       i \in linked /\ ~InOld(KeyOf[i]) /\ b = NewBucket(KeyOf[i])
  /\ \A i \in linked : i \in Chain(KeyOf[i])

\* The tables between the two steps of assoc_expand.
Installing ==
  /\ ~expanding
  /\ Size(old, hashpower)
  /\ \/ primary = NULL
     \/ /\ hashpower < MaxPower /\ Size(primary, hashpower + 1)
        /\ \A b \in DOMAIN primary : primary[b] = {}
  /\ \A b \in DOMAIN old : \A i \in old[b] : i \in linked /\ b = NewBucket(KeyOf[i])
  /\ \A i \in linked : i \in old[NewBucket(KeyOf[i])]

CInv ==
  /\ mpc \notin {"install", "halted"} => Settled
  /\ mpc = "install" => Installing
  /\ mpc = "halted" => Settled \/ Installing

LEMMA Min2 ==
  ASSUME NEW a \in Int, NEW b \in Int
  PROVE  Min({a, b}) = IF a <= b THEN a ELSE b
  BY DEF Min

LEMMA SizesKnown ==
  /\ \A n \in 0..MaxPower : hashsize(n) \in Nat /\ hashsize(n) > 0
  /\ GlobalLock \in Nat /\ GlobalLock > 0
  BY SizeAssumption, PowerAssumption DEF GlobalLock, hashsize

LEMMA Remainder ==
  ASSUME NEW a \in Nat, NEW n \in Nat, n > 0
  PROVE  a % n \in 0..(n - 1)
  OBVIOUS

LEMMA LockKnown ==
  ASSUME LInv, NEW w \in Worker, pc[w] \in Searching \cup {"lock"}
  PROVE  LockOf(w) \in Locks
<1>1. hv[key[w]] \in Nat
  BY HashAssumption DEF LInv
<1>2. hv[key[w]] % hashsize(item_lock_hashpower) \in 0..(GlobalLock - 1)
  BY <1>1, SizesKnown, Remainder DEF GlobalLock
<1> QED BY <1>2, SizesKnown DEF LockOf, Locks

-----------------------------------------------------------------------------
LEMMA SwitchOfInit == Init => SInv
<1> SUFFICES ASSUME Init PROVE SInv
  OBVIOUS
<1>1. Reported = Worker
  BY DEF Init, Reported
<1> QED BY <1>1 DEF Init, SInv, MStates, AllUse

\* What is true when the wait for reports is over.
LEMMA AllReported ==
  ASSUME SInv, wait_for_thread_registration
  PROVE  Reported = Worker
<1>1. Reported \in SUBSET Worker
  BY DEF Reported
<1> QED BY <1>1, ThreadAssumption, FS_Subset DEF SInv, wait_for_thread_registration

\* Steps that neither touch the switch nor take the maintenance thread anywhere.
LEMMA SwitchAlone ==
  ASSUME SInv, UNCHANGED switch, expanding' => expanding,
         mpc' \in {mpc, "halted"} \/ (mpc = "sleeping" /\ mpc' = "woken")
  PROVE  SInv'
  BY DEF SInv, MStates, switch, Reported, AllUse

LEMMA SwitchOfWorker ==
  ASSUME SInv, NEW w \in Worker, Command(w) \/ item_lock(w) \/ InCommand(w)
  PROVE  SInv'
<1> USE DEF tables, contents
<1>1. CASE Command(w) \/ item_lock(w) \/ HitLive(w)
  BY <1>1, SwitchAlone DEF Command, item_lock, HitLive
<1>2. CASE WalkChain(w)
  <2>1. UNCHANGED <<switch, expanding>> /\ mpc' \in {mpc, "halted"}
    BY <1>2, Zenon DEF WalkChain, Halt
  <2> QED BY <2>1, SwitchAlone
<1>3. CASE HitExpired(w) \/ ReplaceUnlinks(w)
  BY <1>3, SwitchAlone DEF HitExpired, ReplaceUnlinks, do_item_unlink, assoc_delete, SetChain
<1>4. CASE do_item_link(w)
  <2>1. UNCHANGED <<switch, expanding>>
    BY <1>4, Zenon DEF do_item_link, assoc_insert, SetChain, Halt
  <2>2. mpc' \in {mpc, "halted"} \/ (mpc = "sleeping" /\ mpc' = "woken")
    BY <1>4, Zenon DEF do_item_link, assoc_insert, CountItem, Halt
  <2> QED BY <2>1, <2>2, SwitchAlone
<1> QED BY <1>1, <1>2, <1>3, <1>4 DEF InCommand

LEMMA SwitchOfFlip ==
  ASSUME SInv, LInv, NEW w \in Worker, FlipLockType(w)
  PROVE  SInv'
<1>1. Reported' = Reported \cup {w} /\ w \notin Reported
  BY DEF FlipLockType, Reported, SInv
<1>2. IsFiniteSet(Reported)
  <2>1. Reported \in SUBSET Worker
    BY DEF Reported
  <2> QED BY <2>1, ThreadAssumption, FS_Subset
<1>3. init_count' = Cardinality(Reported')
  BY <1>1, <1>2, FS_AddElement DEF FlipLockType, SInv
<1>4. /\ pipe' \in [Worker -> {"empty", "l", "g"}]
      /\ item_lock_type' \in [Worker -> {"granular", "global"}]
      /\ UNCHANGED <<mpc, expanding>>
  BY DEF FlipLockType, SInv, tables
<1>5. mpc \in {"wait granular", "wait global"} /\ ~expanding
  BY <1>1 DEF SInv, LInv, FlipLockType
<1> QED BY <1>3, <1>4, <1>5 DEF FlipLockType, SInv, AllUse

LEMMA SwitchOfMaintenance ==
  ASSUME SInv, Maintain \/ item_lock_global \/ SpuriousWakeup
  PROVE  SInv'
<1>1. CASE BulkMove
  <2>1. UNCHANGED switch /\ mpc = "move" /\ mpc' = (IF expanding' THEN "top" ELSE "moved")
    BY <1>1, Zenon DEF BulkMove
  <2>2. expanding' => expanding
    BY <1>1, Zenon DEF BulkMove, MoveBuckets, MoveUpTo, tables
  <2> QED BY <2>1, <2>2 DEF SInv, MStates, switch, Reported, AllUse
<1>2. CASE SwitchToGranular \/ PauseAndSwitchToGlobal
  <2>1. /\ \/ mpc = "moved" /\ mpc' = "wait granular" /\ pipe' = [w \in Worker |-> "l"]
           \/ mpc = "woken" /\ mpc' = "wait global" /\ pipe' = [w \in Worker |-> "g"]
        /\ init_count' = 0
        /\ UNCHANGED <<item_lock_type, expanding>>
    BY <1>2, Zenon DEF SwitchToGranular, PauseAndSwitchToGlobal, MGoto, SwitchTo, tables
  <2>2. Reported' = {}
    BY <2>1 DEF Reported
  <2>3. init_count' = Cardinality(Reported')
    BY <2>1, <2>2, FS_EmptySet
  <2> QED BY <2>1, <2>3 DEF SInv, MStates, AllUse
<1>3. CASE ResumeAndSleep
  <2>1. mpc = "wait granular" /\ mpc' = "sleeping" /\ Reported = Worker
        /\ UNCHANGED <<switch, expanding>>
    BY <1>3, AllReported DEF ResumeAndSleep, MGoto, tables
  <2>2. AllUse("granular")
    BY <2>1 DEF SInv, Reported, AllUse
  <2> QED BY <2>1, <2>2 DEF SInv, MStates, switch, Reported, AllUse
<1>4. CASE AllocateTable
  <2>1. mpc = "wait global" /\ mpc' = "install" /\ Reported = Worker
        /\ UNCHANGED <<switch, expanding>>
    BY <1>4, AllReported DEF AllocateTable, MGoto
  <2>2. AllUse("global")
    BY <2>1 DEF SInv, Reported, AllUse
  <2> QED BY <2>1, <2>2 DEF SInv, MStates, switch, Reported, AllUse
<1>5. CASE InstallTable
  <2>1. mpc = "install" /\ mpc' = "top" /\ UNCHANGED switch
    BY <1>5 DEF InstallTable, MGoto
  <2> QED BY <2>1 DEF SInv, MStates, switch, Reported, AllUse
<1>6. CASE item_lock_global \/ SpuriousWakeup
  <2>1. /\ UNCHANGED <<switch, expanding>>
        /\ \/ mpc = "top" /\ mpc' = "move"
           \/ mpc = "sleeping" /\ mpc' = "woken"
    BY <1>6 DEF item_lock_global, SpuriousWakeup, MGoto, tables
  <2> QED BY <2>1 DEF SInv, MStates, switch, Reported, AllUse
<1> QED BY <1>1, <1>2, <1>3, <1>4, <1>5, <1>6 DEF Maintain

LEMMA SwitchKept == SInv /\ LInv /\ [Next]_vars => SInv'
<1> SUFFICES ASSUME SInv, LInv, [Next]_vars PROVE SInv'
  OBVIOUS
<1>1. ASSUME NEW i \in Item, Vanish(i) PROVE SInv'
  <2>1. UNCHANGED <<switch, expanding, mpc>>
    BY <1>1 DEF Vanish, do_item_unlink, assoc_delete, SetChain, tables
  <2> QED BY <2>1, SwitchAlone
<1>2. CASE UNCHANGED vars
  BY <1>2, SwitchAlone DEF vars, tables
<1> QED BY <1>1, <1>2, SwitchOfWorker, SwitchOfFlip, SwitchOfMaintenance DEF Next

-----------------------------------------------------------------------------
LEMMA LocksOfInit == Init => LInv
<1> SUFFICES ASSUME Init PROVE LInv
  OBVIOUS
<1> QED BY SizesKnown DEF Init, LInv, Searching, Locks

\* Steps in which no worker takes or gives up a lock and the table is not touched.
LEMMA LocksAlone ==
  ASSUME LInv, UNCHANGED <<lock, item_lock_type, pc, key, table>>,
         UNCHANGED <<hashpower, expanding, expand_bucket>>,
         mpc' = mpc \/ {mpc, mpc'} \cap {"move", "halted"} = {}
  PROVE  LInv'
<1>1. \A w \in Worker : LockOf(w)' = LockOf(w)
  BY DEF LockOf
<1>2. \A k \in Key : InOld(k)' = InOld(k)
  BY DEF InOld, OldBucket
<1> QED BY <1>1, <1>2 DEF LInv, Searching

\* A worker goes on without giving up its lock, or gives it up.
LEMMA LocksGoOn ==
  ASSUME LInv, NEW w \in Worker, pc[w] \in Searching,
         UNCHANGED <<lock, item_lock_type, key, hashpower, expanding, expand_bucket>>,
         pc' = [pc EXCEPT ![w] = "hit"] \/ pc' = [pc EXCEPT ![w] = "replace"]
           \/ pc' = [pc EXCEPT ![w] = "link"],
         table' \in {table, [table EXCEPT ![w] = "primary"]},
         mpc' = mpc \/ (mpc # "move" /\ mpc' \notin {"move", "halted"})
  PROVE  LInv'
<1>1. \A u \in Worker : LockOf(u)' = LockOf(u)
  BY DEF LockOf
<1>2. \A k \in Key : InOld(k)' = InOld(k)
  BY DEF InOld, OldBucket
<1>3. mpc # "halted"
  BY DEF LInv, Searching
<1> QED BY <1>1, <1>2, <1>3 DEF LInv, Searching

LEMMA LocksGivenUp ==
  ASSUME LInv, NEW w \in Worker, pc[w] \in Searching, item_unlock(w),
         UNCHANGED <<item_lock_type, hashpower, expanding, expand_bucket>>,
         table' \in {table, [table EXCEPT ![w] = "primary"]},
         mpc' = mpc \/ (mpc # "move" /\ mpc' \notin {"move", "halted"})
  PROVE  LInv'
<1>1. LockOf(w) \in Locks /\ lock[LockOf(w)] = w
  BY LockKnown DEF LInv
<1>2. \A u \in Worker : u # w => LockOf(u)' = LockOf(u)
  BY DEF LockOf, item_unlock, LInv
<1>3. \A k \in Key : InOld(k)' = InOld(k)
  BY DEF InOld, OldBucket
<1>4. mpc # "halted"
  BY DEF LInv, Searching
<1>5. /\ lock' = [lock EXCEPT ![LockOf(w)] = Nobody]
      /\ pc' = [pc EXCEPT ![w] = "idle"] /\ key' = [key EXCEPT ![w] = NULL]
  BY DEF item_unlock, Goto
<1>6. \A u \in Worker : u # w /\ pc[u] \in Searching => lock'[LockOf(u)'] = u
  BY <1>1, <1>2, <1>5, LockKnown DEF LInv
<1>7. mpc = "move" => lock'[GlobalLock] = Maintenance
  BY <1>1, <1>5, SizesKnown, ThreadAssumption DEF LInv, Locks
<1> QED BY <1>1, <1>2, <1>3, <1>4, <1>5, <1>6, <1>7 DEF LInv, Searching

LEMMA LocksHalted ==
  ASSUME LInv, NEW reason, Halt(reason), NEW w \in Worker,
         table' \in {table, [table EXCEPT ![w] = "primary"]}
  PROVE  LInv'
<1>1. mpc' = "halted" /\ pc' = [u \in Worker |-> "halted"] /\ UNCHANGED <<lock, key>>
  BY DEF Halt
<1> QED BY <1>1 DEF LInv, Searching

LEMMA LocksOfWorker ==
  ASSUME SInv, LInv, NEW w \in Worker, InCommand(w)
  PROVE  LInv'
<1> USE DEF Searching
<1>1. CASE WalkChain(w)
  <2>0. /\ pc[w] = "walk" /\ table' = [table EXCEPT ![w] = "primary"] /\ UNCHANGED item_lock_type
        /\ UNCHANGED <<hashpower, expanding, expand_bucket>>
    BY <1>1, Zenon DEF WalkChain, Halt, switch, tables
  <2>1. CASE Halt("NULL table")
    BY <2>0, <2>1, LocksHalted
  <2>2. CASE item_unlock(w) /\ mpc' = mpc
    BY <2>0, <2>2, LocksGivenUp
  <2>3. CASE /\ UNCHANGED <<lock, key, mpc>>
             /\ Goto(w, "link") \/ Goto(w, "hit") \/ Goto(w, "replace")
    BY <2>0, <2>3, LocksGoOn DEF Goto
  <2> QED BY <1>1, <2>1, <2>2, <2>3, Zenon DEF WalkChain
<1>2. CASE HitLive(w)
  BY <1>2, LocksGivenUp DEF HitLive, switch, tables
<1>3. CASE HitExpired(w) \/ ReplaceUnlinks(w)
  <2>0. /\ pc[w] \in {"hit", "replace"} /\ UNCHANGED <<item_lock_type, mpc, table>>
        /\ UNCHANGED <<hashpower, expanding, expand_bucket>>
    BY <1>3, Zenon DEF HitExpired, ReplaceUnlinks, do_item_unlink, assoc_delete, SetChain, switch, tables
  <2>1. CASE HitExpired(w)
    BY <2>0, <2>1, LocksGivenUp DEF HitExpired
  <2>2. CASE ReplaceUnlinks(w)
    BY <2>0, <2>2, LocksGoOn DEF ReplaceUnlinks, Goto
  <2> QED BY <1>3, <2>1, <2>2
<1>4. CASE do_item_link(w)
  <2>0. /\ pc[w] = "link" /\ UNCHANGED <<item_lock_type, table>>
        /\ UNCHANGED <<hashpower, expanding, expand_bucket>>
    BY <1>4, Zenon DEF do_item_link, assoc_insert, SetChain, Halt, switch, tables
  <2>1. CASE Halt("duplicate key")
    BY <2>0, <2>1, LocksHalted
  <2>2. CASE item_unlock(w) /\ CountItem
    <3>1. mpc' = mpc \/ (mpc # "move" /\ mpc' \notin {"move", "halted"})
      <4>1. mpc' = mpc \/ (mpc = "sleeping" /\ mpc' = "woken")
        BY <2>2, Zenon DEF CountItem
      <4> QED BY <4>1
    <3> QED BY <2>0, <2>2, <3>1, LocksGivenUp
  <2> QED BY <1>4, <2>1, <2>2, Zenon DEF do_item_link, assoc_insert
<1> QED BY <1>1, <1>2, <1>3, <1>4 DEF InCommand

LEMMA LocksOfLock ==
  ASSUME SInv, LInv, NEW w \in Worker, item_lock(w)
  PROVE  LInv'
<1>1. /\ pc[w] = "lock" /\ key[w] \in Key /\ lock[LockOf(w)] = Nobody /\ LockOf(w) \in Locks
      /\ lock' = [lock EXCEPT ![LockOf(w)] = w]
      /\ pc' = [pc EXCEPT ![w] = "walk"]
      /\ UNCHANGED <<key, item_lock_type, hashpower, expanding, expand_bucket, mpc>>
  BY LockKnown DEF LInv, item_lock, Goto, switch, tables
<1>2. table' = [table EXCEPT ![w] = IF InOld(key[w]) THEN "old" ELSE "primary"]
  BY DEF item_lock
<1>3. \A u \in Worker : LockOf(u)' = LockOf(u)
  BY <1>1 DEF LockOf
<1>4. \A k \in Key : InOld(k)' = InOld(k)
  BY <1>1 DEF InOld, OldBucket
<1>5. lock' \in [Locks -> Worker \cup {Nobody, Maintenance}]
  BY <1>1 DEF LInv
<1>6. \A u \in Worker : u # w /\ pc[u] \in Searching => lock'[LockOf(u)] = u
  BY <1>1, LockKnown, ThreadAssumption DEF LInv
<1>7. mpc = "move" => lock'[GlobalLock] = Maintenance
  BY <1>1, SizesKnown, ThreadAssumption DEF LInv, Locks
<1>8. table' \in [Worker -> {"old", "primary"}]
  BY <1>2 DEF LInv
<1>9. \A u \in Worker : pc'[u] = "walk" /\ table'[u] = "old" => InOld(key[u])
  BY <1>1, <1>2 DEF LInv
<1>10. mpc # "halted"
  BY <1>1 DEF LInv
<1>11. \A u \in Worker : pc'[u] \in Searching => lock'[LockOf(u)] = u
  BY <1>1, <1>6 DEF LInv
<1>12. \A u \in Worker : pc'[u] = "walk" /\ table'[u] = "old" => InOld(key[u])'
  BY <1>1, <1>9 DEF InOld, OldBucket
<1>13. /\ pc' \in [Worker -> Searching \cup {"idle", "lock", "halted"}]
       /\ key' \in [Worker -> Key \cup {NULL}]
       /\ \A u \in Worker : pc'[u] \in Searching \cup {"lock"} => key'[u] \in Key
  BY <1>1 DEF LInv, Searching
<1> QED BY <1>1, <1>3, <1>5, <1>7, <1>8, <1>10, <1>11, <1>12, <1>13 DEF LInv

LEMMA LocksOfIdle ==
  ASSUME SInv, LInv, NEW w \in Worker, Command(w) \/ FlipLockType(w)
  PROVE  LInv'
<1>0. pc[w] = "idle" /\ UNCHANGED <<lock, table, hashpower, expanding, expand_bucket, mpc>>
  BY DEF Command, FlipLockType, tables, command
<1>1. \A k \in Key : InOld(k)' = InOld(k)
  BY <1>0 DEF InOld, OldBucket
<1>2. \A u \in Worker : u # w => key'[u] = key[u] /\ item_lock_type'[u] = item_lock_type[u]
  BY DEF Command, FlipLockType, LInv, SInv, switch, command
<1>3. \A u \in Worker : u # w => LockOf(u)' = LockOf(u)
  BY <1>2 DEF LockOf
<1>4. /\ \/ UNCHANGED <<pc, key>>
         \/ pc' = [pc EXCEPT ![w] = "lock"] /\ key'[w] \in Key
      /\ key' \in [Worker -> Key \cup {NULL}]
  <2>1. CASE Command(w)
    <3>1. \E k \in Key : key' = [key EXCEPT ![w] = k]
      BY <2>1, HashAssumption DEF Command
    <3> QED BY <2>1, <3>1 DEF Command, Goto, LInv
  <2>2. CASE FlipLockType(w)
    <3>1. UNCHANGED <<pc, key>>
      BY <2>2 DEF FlipLockType, command
    <3>2. key \in [Worker -> Key \cup {NULL}]
      BY DEF LInv
    <3> QED BY <3>1, <3>2, Zenon
  <2> QED BY <2>1, <2>2
<1> QED BY <1>0, <1>1, <1>2, <1>3, <1>4 DEF LInv, Searching

LEMMA LocksOfMaintenance ==
  ASSUME SInv, LInv, Maintain \/ item_lock_global \/ SpuriousWakeup
  PROVE  LInv'
<1>1. CASE BulkMove
  <2>1. /\ mpc = "move" /\ lock' = [lock EXCEPT ![GlobalLock] = Nobody] /\ mpc' \in {"top", "moved"}
        /\ UNCHANGED <<item_lock_type, pc, key, table>>
    BY <1>1 DEF BulkMove, switch, command
  <2>2. CASE expanding
    <3>1. \A w \in Worker : pc[w] \notin Searching
      <4> SUFFICES ASSUME NEW w \in Worker, pc[w] \in Searching PROVE FALSE
        OBVIOUS
      <4>1. LockOf(w) = GlobalLock
        BY <2>2 DEF LockOf, SInv, AllUse
      <4> QED BY <2>1, <4>1, ThreadAssumption DEF LInv
    <3>2. lock' \in [Locks -> Worker \cup {Nobody, Maintenance}]
      BY <2>1 DEF LInv
    <3> QED BY <2>1, <3>1, <3>2 DEF LInv, Searching
  <2>3. CASE ~expanding
    <3>1. UNCHANGED <<expanding, hashpower, expand_bucket>>
      BY <1>1, <2>3, Zenon DEF BulkMove, MoveBuckets, MoveUpTo, tables
    <3>2. \A k \in Key : InOld(k)' = InOld(k)
      BY <3>1 DEF InOld, OldBucket
    <3>3. \A w \in Worker : LockOf(w)' = LockOf(w)
      BY <2>1 DEF LockOf
    <3>4. \A w \in Worker : pc[w] \in Searching => lock'[LockOf(w)] = w
      BY <2>1, LockKnown, ThreadAssumption DEF LInv
    <3>5. lock' \in [Locks -> Worker \cup {Nobody, Maintenance}]
      BY <2>1 DEF LInv
    <3> QED BY <2>1, <3>2, <3>3, <3>4, <3>5 DEF LInv, Searching
  <2> QED BY <2>2, <2>3
<1>2. CASE SwitchToGranular \/ PauseAndSwitchToGlobal \/ ResumeAndSleep \/ AllocateTable \/ SpuriousWakeup
  <2>1. UNCHANGED <<lock, item_lock_type, pc, key, table, hashpower, expanding, expand_bucket>>
    BY <1>2, Zenon DEF SwitchToGranular, PauseAndSwitchToGlobal, ResumeAndSleep, AllocateTable,
       SpuriousWakeup, SwitchTo, switch, tables, command
  <2>2. {mpc, mpc'} \cap {"move", "halted"} = {}
    BY <1>2 DEF SwitchToGranular, PauseAndSwitchToGlobal, ResumeAndSleep, AllocateTable,
       SpuriousWakeup, MGoto
  <2> QED BY <2>1, <2>2, LocksAlone
<1>3. CASE InstallTable
  <2>1. /\ mpc = "install" /\ mpc' = "top"
        /\ UNCHANGED <<lock, item_lock_type, pc, key, table>>
    BY <1>3 DEF InstallTable, MGoto, switch, command
  <2>2. ~expanding
    BY <2>1 DEF SInv
  <2>3. \A w \in Worker : ~(pc[w] = "walk" /\ table[w] = "old")
    BY <2>2 DEF LInv, InOld
  <2>4. \A w \in Worker : LockOf(w)' = LockOf(w)
    BY <2>1 DEF LockOf
  <2> QED BY <2>1, <2>3, <2>4 DEF LInv, Searching
<1>4. CASE item_lock_global
  <2>1. /\ mpc = "top" /\ mpc' = "move" /\ lock[GlobalLock] = Nobody
        /\ lock' = [lock EXCEPT ![GlobalLock] = Maintenance]
        /\ UNCHANGED <<item_lock_type, pc, key, table, hashpower, expanding, expand_bucket>>
    BY <1>4 DEF item_lock_global, MGoto, switch, command, tables
  <2>2. \A k \in Key : InOld(k)' = InOld(k)
    BY <2>1 DEF InOld, OldBucket
  <2>3. \A w \in Worker : LockOf(w)' = LockOf(w)
    BY <2>1 DEF LockOf
  <2>4. /\ lock' \in [Locks -> Worker \cup {Nobody, Maintenance}]
        /\ lock'[GlobalLock] = Maintenance
    BY <2>1, SizesKnown DEF LInv, Locks
  <2>5. \A w \in Worker : pc[w] \in Searching => lock'[LockOf(w)] = w
    BY <2>1, LockKnown, ThreadAssumption DEF LInv
  <2> QED BY <2>1, <2>2, <2>3, <2>4, <2>5 DEF LInv, Searching
<1> QED BY <1>1, <1>2, <1>3, <1>4 DEF Maintain

LEMMA LocksKept == SInv /\ LInv /\ [Next]_vars => LInv'
<1> SUFFICES ASSUME SInv, LInv, [Next]_vars PROVE LInv'
  OBVIOUS
<1>1. ASSUME NEW i \in Item, Vanish(i) PROVE LInv'
  <2>1. UNCHANGED <<lock, item_lock_type, pc, key, table, hashpower, expanding, expand_bucket, mpc>>
    BY <1>1, Zenon DEF Vanish, do_item_unlink, assoc_delete, SetChain, tables, switch, command
  <2> QED BY <2>1, LocksAlone
<1>2. CASE UNCHANGED vars
  BY <1>2, LocksAlone DEF vars, tables, switch, command
<1> QED BY <1>1, <1>2, LocksOfWorker, LocksOfLock, LocksOfIdle, LocksOfMaintenance DEF Next

LEMMA SwitchAndLocksHold == Spec => [](SInv /\ LInv)
<1>1. SInv /\ LInv /\ [Next]_vars => (SInv /\ LInv)'
  BY SwitchKept, LocksKept
<1> QED BY SwitchOfInit, LocksOfInit, <1>1, PTL DEF Spec

\* As long as buckets are moved every worker uses the global lock, and the maintenance
\* thread sleeps only when all are back to the striped locks, however the workers'
\* commands and their reports are interleaved.
THEOREM LockTypesAreSettled == Spec => []LockTypesSettled
<1>1. SInv => LockTypesSettled
  BY DEF SInv, AllUse, LockTypesSettled
<1> QED BY <1>1, SwitchAndLocksHold, PTL

\* assoc_find, which takes no cache_lock, never runs while buckets are moved, and the
\* table it has chosen is still the right one when it walks the chain.
THEOREM SearchesAreUndisturbed == Spec => []SearchUndisturbed
<1>1. SInv /\ LInv => SearchUndisturbed
  <2> SUFFICES ASSUME SInv, LInv, mpc = "move", expanding, NEW w \in Worker,
                      pc[w] \notin {"idle", "lock"}
               PROVE  FALSE
    BY DEF LInv, SearchUndisturbed
  <2>1. LockOf(w) = GlobalLock /\ pc[w] # "halted"
    BY DEF LockOf, SInv, LInv, AllUse
  <2> QED BY <2>1, ThreadAssumption DEF LInv
<1> QED BY <1>1, SwitchAndLocksHold, PTL

-----------------------------------------------------------------------------
LEMMA BucketKnown ==
  ASSUME NEW k \in Key, NEW n \in 0..MaxPower
  PROVE  hv[k] % hashsize(n) \in 0..(hashsize(n) - 1)
  BY HashAssumption, SizesKnown, Remainder

LEMMA PowerKnown ==
  ASSUME KInv
  PROVE  /\ hashpower \in 0..MaxPower
         /\ hashpower > InitPower => hashpower - 1 \in 0..MaxPower
<1>1. hashpower \in InitPower..MaxPower
  BY DEF KInv
<1>2. InitPower \in Nat /\ MaxPower \in Nat
  BY PowerAssumption
<1> QED BY <1>1, <1>2

LEMMA ContentsOfInit == Init => KInv /\ CInv
<1> SUFFICES ASSUME Init PROVE KInv /\ CInv
  OBVIOUS
<1>1. KInv
  BY PowerAssumption, FS_EmptySet DEF Init, KInv
<1>2. CInv
  BY DEF Init, CInv, Settled, Size
<1> QED BY <1>1, <1>2

LEMMA LinkedFinite ==
  ASSUME KInv
  PROVE  IsFiniteSet(linked)
<1>1. linked \in SUBSET Item
  BY DEF KInv
<1> QED BY <1>1, HashAssumption, FS_Subset

\* A chain is replaced by one that holds the linked items of its bucket.
LEMMA ChainReplaced ==
  ASSUME KInv, Settled, NEW k \in Key, NEW c \in SUBSET Item, SetChain(k, c), linked' \subseteq Item,
         \A j \in c : j \in linked' /\ (j \in Chain(k) \/ KeyOf[j] = k),
         \A j \in linked' : j \in linked \/ (j \in c /\ KeyOf[j] = k),
         \A j \in Chain(k) : j \in linked' => j \in c,
         \A j \in linked : j \notin linked' => KeyOf[j] = k
  PROVE  Settled'
<1> DEFINE o == OldBucket(k)
           n == NewBucket(k)
<1>1. UNCHANGED <<hashpower, expanding, expand_bucket>>
  BY DEF SetChain
<1>2. /\ \A l \in Key : InOld(l)' = InOld(l)
      /\ \A l \in Key : OldBucket(l)' = OldBucket(l)
      /\ \A l \in Key : NewBucket(l)' = NewBucket(l)
  BY <1>1 DEF InOld, OldBucket, NewBucket
<1>3. n \in 0..(hashsize(hashpower) - 1) /\ DOMAIN primary = 0..(hashsize(hashpower) - 1)
  BY BucketKnown, PowerKnown DEF NewBucket, Settled, Size
<1>4. expanding => o \in 0..(hashsize(hashpower - 1) - 1)
  <2>1. expanding => hashpower - 1 \in 0..MaxPower
    BY PowerKnown DEF Settled
  <2> QED BY <2>1, BucketKnown DEF OldBucket
<1>k. \A j \in Item : KeyOf[j] \in Key
  BY HashAssumption
<1> HIDE DEF o, n
<1>5. CASE InOld(k)
  <2>1. expanding /\ old' = [old EXCEPT ![o] = c] /\ UNCHANGED primary /\ Chain(k) = old[o]
    BY <1>5 DEF SetChain, InOld, Chain, o
  <2>2. Size(old, hashpower - 1) /\ Size(old', hashpower - 1) /\ DOMAIN old = 0..(hashsize(hashpower - 1) - 1)
    BY <1>4, <2>1 DEF Settled, Size
  <2>3. ASSUME NEW b \in DOMAIN old, NEW j \in old'[b]
        PROVE  j \in linked' /\ InOld(KeyOf[j]) /\ b = OldBucket(KeyOf[j])
    <3>1. CASE b = o
      <4>1. j \in c
        BY <2>1, <2>2, <2>3, <3>1 DEF Size
      <4>2. CASE KeyOf[j] = k
        BY <1>5, <3>1, <4>1, <4>2 DEF o
      <4>3. CASE j \in old[o]
        BY <2>1, <2>2, <2>3, <3>1, <4>1, <4>3 DEF Settled
      <4> QED BY <2>1, <4>1, <4>2, <4>3
    <3>2. CASE b # o
      <4>1. j \in old[b]
        BY <2>1, <2>2, <2>3, <3>2 DEF Size
      <4>2. j \in linked /\ InOld(KeyOf[j]) /\ b = OldBucket(KeyOf[j])
        BY <2>1, <4>1 DEF Settled
      <4>3. KeyOf[j] # k
        BY <3>2, <4>2 DEF o
      <4> QED BY <4>2, <4>3
    <3> QED BY <3>1, <3>2
  <2>4. ASSUME NEW b \in DOMAIN primary, NEW j \in primary[b]
        PROVE  j \in linked' /\ ~InOld(KeyOf[j]) /\ b = NewBucket(KeyOf[j])
    <3>1. j \in linked /\ ~InOld(KeyOf[j]) /\ b = NewBucket(KeyOf[j])
      BY <2>4 DEF Settled
    <3>2. KeyOf[j] # k
      BY <1>5, <3>1
    <3> QED BY <3>1, <3>2
  <2>5. ASSUME NEW j \in linked'
        PROVE  j \in IF InOld(KeyOf[j]) THEN old'[OldBucket(KeyOf[j])] ELSE primary[NewBucket(KeyOf[j])]
    <3>1. CASE KeyOf[j] = k
      <4>1. j \in c
        BY <2>1, <2>5, <3>1 DEF Settled
      <4> QED BY <1>5, <2>1, <1>4, <2>2, <3>1, <4>1 DEF o, Size
    <3>2. CASE KeyOf[j] # k
      <4>1. j \in linked /\ j \in Chain(KeyOf[j])
        BY <2>5, <3>2 DEF Settled
      <4>2. CASE ~InOld(KeyOf[j])
        BY <4>1, <4>2 DEF Chain
      <4>3. CASE InOld(KeyOf[j])
        <5>1. j \in old[OldBucket(KeyOf[j])] /\ OldBucket(KeyOf[j]) \in DOMAIN old
          <6>1. KeyOf[j] \in Key /\ hashpower - 1 \in 0..MaxPower
            BY <1>k, <2>1, <2>5, PowerKnown DEF Settled
          <6> QED BY <2>2, <4>1, <4>3, <6>1, BucketKnown DEF Chain, OldBucket
        <5>2. CASE OldBucket(KeyOf[j]) = o
          <6>1. j \in Chain(k)
            BY <2>1, <5>1, <5>2
          <6> QED BY <2>1, <2>2, <2>5, <4>3, <5>1, <5>2, <6>1 DEF Size
        <5>3. CASE OldBucket(KeyOf[j]) # o
          BY <2>1, <2>2, <4>3, <5>1, <5>3 DEF Size
        <5> QED BY <5>2, <5>3
      <4> QED BY <4>2, <4>3
    <3> QED BY <3>1, <3>2
  <2>6. \A j \in linked' : KeyOf[j] \in Key
    BY <1>k
  <2>7. \A j \in linked' : j \in Chain(KeyOf[j])'
    BY <1>2, <2>1, <2>5, <2>6 DEF Chain
  <2>8. DOMAIN old' = DOMAIN old
    BY <2>1
  <2>9. /\ \A b \in DOMAIN old' : \A i \in old'[b] :
             i \in linked' /\ InOld(KeyOf[i])' /\ b = OldBucket(KeyOf[i])'
        /\ \A b \in DOMAIN primary' : \A i \in primary'[b] :
             i \in linked' /\ ~InOld(KeyOf[i])' /\ b = NewBucket(KeyOf[i])'
    BY <1>2, <2>1, <2>3, <2>4, <2>6, <2>8
  <2>10. /\ Size(primary, hashpower)' /\ Size(old, hashpower - 1)'
         /\ hashpower' > InitPower /\ expand_bucket' < hashsize(hashpower - 1)'
    BY <1>1, <2>1, <2>2 DEF Settled, Size
  <2> QED BY <1>1, <2>1, <2>7, <2>9, <2>10 DEF Settled
<1>6. CASE ~InOld(k)
  <2>1. primary' = [primary EXCEPT ![n] = c] /\ UNCHANGED old /\ Chain(k) = primary[n]
    BY <1>6 DEF SetChain, InOld, Chain, n
  <2>2. Size(primary, hashpower) /\ Size(primary', hashpower)
    BY <1>3, <2>1 DEF Settled, Size
  <2>3. ASSUME NEW b \in DOMAIN primary, NEW j \in primary'[b]
        PROVE  j \in linked' /\ ~InOld(KeyOf[j]) /\ b = NewBucket(KeyOf[j])
    <3>1. CASE b = n
      <4>1. j \in c
        BY <2>1, <2>2, <2>3, <3>1 DEF Size
      <4>2. CASE KeyOf[j] = k
        BY <1>6, <3>1, <4>1, <4>2 DEF n
      <4>3. CASE j \in primary[n]
        BY <2>1, <2>2, <2>3, <3>1, <4>1, <4>3 DEF Settled
      <4> QED BY <2>1, <4>1, <4>2, <4>3
    <3>2. CASE b # n
      <4>1. j \in primary[b]
        BY <2>1, <2>2, <2>3, <3>2 DEF Size
      <4>2. j \in linked /\ ~InOld(KeyOf[j]) /\ b = NewBucket(KeyOf[j])
        BY <2>1, <4>1 DEF Settled
      <4>3. KeyOf[j] # k
        BY <3>2, <4>2 DEF n
      <4> QED BY <4>2, <4>3
    <3> QED BY <3>1, <3>2
  <2>4. ASSUME expanding, NEW b \in DOMAIN old, NEW j \in old[b]
        PROVE  j \in linked' /\ InOld(KeyOf[j]) /\ b = OldBucket(KeyOf[j])
    <3>1. j \in linked /\ InOld(KeyOf[j]) /\ b = OldBucket(KeyOf[j])
      BY <2>4 DEF Settled
    <3>2. KeyOf[j] # k
      BY <1>6, <3>1
    <3> QED BY <3>1, <3>2
  <2>5. ASSUME NEW j \in linked'
        PROVE  j \in IF InOld(KeyOf[j]) THEN old[OldBucket(KeyOf[j])] ELSE primary'[NewBucket(KeyOf[j])]
    <3>1. CASE KeyOf[j] = k
      <4>1. j \in c
        BY <2>1, <2>5, <3>1 DEF Settled
      <4> QED BY <1>6, <2>1, <1>3, <2>2, <3>1, <4>1 DEF n, Size
    <3>2. CASE KeyOf[j] # k
      <4>1. j \in linked /\ j \in Chain(KeyOf[j])
        BY <2>5, <3>2 DEF Settled
      <4>2. CASE InOld(KeyOf[j])
        BY <4>1, <4>2 DEF Chain
      <4>3. CASE ~InOld(KeyOf[j])
        <5>1. j \in primary[NewBucket(KeyOf[j])] /\ NewBucket(KeyOf[j]) \in DOMAIN primary
          <6>1. KeyOf[j] \in Key /\ hashpower \in 0..MaxPower
            BY <1>k, <2>5, PowerKnown
          <6> QED BY <1>3, <4>1, <4>3, <6>1, BucketKnown DEF Chain, NewBucket
        <5>2. CASE NewBucket(KeyOf[j]) = n
          <6>1. j \in Chain(k)
            BY <2>1, <5>1, <5>2
          <6> QED BY <2>1, <2>2, <2>5, <4>3, <5>1, <5>2, <6>1 DEF Size
        <5>3. CASE NewBucket(KeyOf[j]) # n
          BY <2>1, <2>2, <4>3, <5>1, <5>3 DEF Size
        <5> QED BY <5>2, <5>3
      <4> QED BY <4>2, <4>3
    <3> QED BY <3>1, <3>2
  <2>6. \A j \in linked' : KeyOf[j] \in Key
    BY <1>k
  <2>7. \A j \in linked' : j \in Chain(KeyOf[j])'
    BY <1>2, <2>1, <2>5, <2>6 DEF Chain
  <2>8. DOMAIN primary' = DOMAIN primary
    BY <2>1
  <2>9. /\ expanding => \A b \in DOMAIN old' : \A i \in old'[b] :
             i \in linked' /\ InOld(KeyOf[i])' /\ b = OldBucket(KeyOf[i])'
        /\ \A b \in DOMAIN primary' : \A i \in primary'[b] :
             i \in linked' /\ ~InOld(KeyOf[i])' /\ b = NewBucket(KeyOf[i])'
    BY <1>2, <2>1, <2>3, <2>4, <2>6, <2>8
  <2>10. /\ Size(primary, hashpower)'
         /\ ~expanding' => old' = NULL
         /\ expanding' => /\ Size(old, hashpower - 1)' /\ hashpower' > InitPower
                          /\ expand_bucket' < hashsize(hashpower - 1)'
    BY <1>1, <2>1, <2>2 DEF Settled, Size
  <2> QED BY <1>1, <2>1, <2>7, <2>9, <2>10 DEF Settled
<1> QED BY <1>5, <1>6

LEMMA ChainIsLinked ==
  ASSUME KInv, Settled, NEW k \in Key
  PROVE  Chain(k) \subseteq linked
<1>1. CASE InOld(k)
  <2>1. expanding /\ hashpower - 1 \in 0..MaxPower
    BY <1>1, PowerKnown DEF InOld, Settled
  <2>2. OldBucket(k) \in DOMAIN old
    BY <2>1, BucketKnown DEF OldBucket, Settled, Size
  <2> QED BY <1>1, <2>1, <2>2 DEF Chain, Settled
<1>2. CASE ~InOld(k)
  <2>1. NewBucket(k) \in DOMAIN primary
    BY PowerKnown, BucketKnown DEF NewBucket, Settled, Size
  <2> QED BY <1>2, <2>1 DEF Chain, Settled
<1> QED BY <1>1, <1>2

\* What is linked is counted, whether the item at hand is still linked or not.
LEMMA Unlinked ==
  ASSUME KInv, Settled, NEW i, do_item_unlink(i)
  PROVE  /\ Settled'
         /\ linked' = linked \ {i} /\ hash_items' = Cardinality(linked')
         /\ UNCHANGED <<hashpower, expanding, expand_bucket, mpc>>
<1>1. CASE i \notin linked
  <2>1. UNCHANGED <<hashpower, expanding, expand_bucket, primary, old, linked, hash_items, mpc>>
    BY <1>1 DEF do_item_unlink, tables, contents
  <2>2. Settled'
    BY <2>1 DEF Settled, Size, Chain, InOld, OldBucket, NewBucket
  <2> QED BY <1>1, <2>1, <2>2 DEF KInv
<1>2. CASE i \in linked
  <2> DEFINE k == KeyOf[i]
             c == {j \in Chain(k) : KeyOf[j] # k}
  <2>1. i \in Item /\ k \in Key
    BY <1>2, HashAssumption DEF KInv
  <2>2. linked' = linked \ {i} /\ SetChain(k, c) /\ hash_items' = hash_items - 1 /\ UNCHANGED mpc
    BY <1>2 DEF do_item_unlink, assoc_delete
  <2>3. Chain(k) \subseteq linked /\ linked \subseteq Item
    BY <2>1, ChainIsLinked DEF KInv
  <2>4. c = Chain(k) \ {i}
    BY <1>2, <2>3 DEF KInv
  <2> HIDE DEF k, c
  <2>5. Settled'
    <3>1. c \in SUBSET Item
      BY <2>3, <2>4
    <3>2. linked' \subseteq Item
      BY <2>2, <2>3
    <3>3. \A j \in c : j \in linked' /\ (j \in Chain(k) \/ KeyOf[j] = k)
      BY <2>2, <2>3, <2>4
    <3>4. \A j \in linked' : j \in linked \/ (j \in c /\ KeyOf[j] = k)
      BY <2>2
    <3>5. \A j \in Chain(k) : j \in linked' => j \in c
      BY <2>2, <2>4
    <3>6. \A j \in linked : j \notin linked' => KeyOf[j] = k
      BY <2>2 DEF k
    <3> QED BY <2>1, <2>2, <3>1, <3>2, <3>3, <3>4, <3>5, <3>6, ChainReplaced
  <2>6. Cardinality(linked') = Cardinality(linked) - 1
    BY <1>2, <2>2, LinkedFinite, FS_RemoveElement
  <2> QED BY <2>2, <2>5, <2>6 DEF KInv, SetChain
<1> QED BY <1>1, <1>2

LEMMA Linked ==
  ASSUME KInv, Settled, NEW i \in Item, \A j \in linked : KeyOf[j] # KeyOf[i],
         linked' = linked \cup {i}, assoc_insert(i)
  PROVE  /\ Settled'
         /\ hash_items' = Cardinality(linked')
         /\ UNCHANGED <<hashpower, expanding, expand_bucket>>
<1> DEFINE k == KeyOf[i]
           c == Chain(k) \cup {i}
<1>1. k \in Key /\ i \notin linked
  BY HashAssumption
<1>2. SetChain(k, c) /\ hash_items' = hash_items + 1
  BY DEF assoc_insert, CountItem
<1>3. Chain(k) \subseteq linked /\ linked \subseteq Item
  BY <1>1, ChainIsLinked DEF KInv
<1> HIDE DEF k
<1>4. c \in SUBSET Item /\ linked' \subseteq Item
  BY <1>3
<1>5. /\ \A j \in c : j \in linked' /\ (j \in Chain(k) \/ KeyOf[j] = k)
      /\ \A j \in linked' : j \in linked \/ (j \in c /\ KeyOf[j] = k)
      /\ \A j \in Chain(k) : j \in linked' => j \in c
      /\ \A j \in linked : j \notin linked' => KeyOf[j] = k
  BY <1>3 DEF k
<1> HIDE DEF c
<1>6. Settled'
  BY <1>1, <1>2, <1>4, <1>5, ChainReplaced
<1>7. Cardinality(linked') = Cardinality(linked) + 1
  BY <1>1, LinkedFinite, FS_AddElement
<1> QED BY <1>2, <1>6, <1>7 DEF KInv, SetChain

\* The buckets from expand_bucket on go to the new table, and after the last one the
\* old table is gone: each item is in the chain that its key leads to now.
LEMMA Moved ==
  ASSUME KInv, Settled, MoveBuckets, UNCHANGED linked
  PROVE  Settled' /\ hashpower' = hashpower /\ expand_bucket' \in Nat
<1>1. CASE ~expanding
  <2>1. UNCHANGED <<hashpower, expanding, expand_bucket, primary, old>>
    BY <1>1, Zenon DEF MoveBuckets, MoveUpTo, tables
  <2>2. Settled'
    BY <2>1 DEF Settled, Size, Chain, InOld, OldBucket, NewBucket
  <2> QED BY <2>1, <2>2 DEF KInv
<1>2. CASE expanding
  <2> DEFINE size == hashsize(hashpower - 1)
             next == Min({expand_bucket + hash_bulk_move, size})
             moved == UNION {old[b] : b \in expand_bucket..(next - 1)}
  <2>0. hashpower - 1 \in 0..MaxPower /\ hashpower \in 0..MaxPower
    BY <1>2, PowerKnown DEF Settled
  <2>1. size \in Nat /\ expand_bucket \in Nat /\ expand_bucket < size
    BY <1>2, <2>0, SizesKnown DEF KInv, Settled
  <2>2. next \in Nat /\ expand_bucket < next /\ next <= size
    BY <2>1, PowerAssumption, Min2
  <2>3. /\ primary' = [b \in DOMAIN primary |->
                         primary[b] \cup {i \in moved : NewBucket(KeyOf[i]) = b}]
        /\ expand_bucket' = next
        /\ expanding' <=> next < size
        /\ old' = IF next < size THEN [b \in DOMAIN old |-> IF b < next THEN {} ELSE old[b]] ELSE NULL
        /\ UNCHANGED hashpower
    BY <1>2, Zenon DEF MoveBuckets, MoveUpTo
  <2>4. /\ DOMAIN old = 0..(size - 1) /\ DOMAIN primary = 0..(hashsize(hashpower) - 1)
        /\ Size(primary, hashpower) /\ Size(old, hashpower - 1)
    BY <1>2 DEF Settled, Size
  <2>5. ASSUME NEW i PROVE i \in moved <=> \E b \in expand_bucket..(next - 1) : i \in old[b]
    OBVIOUS
  <2> HIDE DEF moved, next
  <2>6. /\ \A k \in Key : OldBucket(k)' = OldBucket(k) /\ NewBucket(k)' = NewBucket(k)
        /\ \A k \in Key : OldBucket(k) \in 0..(size - 1) /\ NewBucket(k) \in DOMAIN primary
    BY <2>0, <2>3, <2>4, BucketKnown DEF OldBucket, NewBucket
  <2>7. \A k \in Key : InOld(k)' <=> OldBucket(k) >= next
    BY <2>1, <2>2, <2>3, <2>6 DEF InOld
  <2>8. \A k \in Key : InOld(k) <=> OldBucket(k) >= expand_bucket
    BY <1>2 DEF InOld
  <2> HIDE DEF size
  <2>9. \A i \in moved : /\ i \in linked /\ KeyOf[i] \in Key
                         /\ OldBucket(KeyOf[i]) \in expand_bucket..(next - 1)
    <3> SUFFICES ASSUME NEW i \in moved
                 PROVE  /\ i \in linked /\ KeyOf[i] \in Key
                        /\ OldBucket(KeyOf[i]) \in expand_bucket..(next - 1)
      OBVIOUS
    <3>1. PICK b \in expand_bucket..(next - 1) : i \in old[b]
      BY <2>5
    <3>2. b \in DOMAIN old
      BY <2>1, <2>2, <2>4
    <3>3. i \in linked /\ b = OldBucket(KeyOf[i])
      BY <1>2, <3>1, <3>2 DEF Settled
    <3> QED BY <3>1, <3>3, HashAssumption DEF KInv
  <2>10. \A i \in linked : i \in Item /\ KeyOf[i] \in Key
    BY HashAssumption DEF KInv
  <2>11. Size(primary', hashpower)
    <3>1. moved \subseteq Item
      BY <2>9, <2>10
    <3> QED BY <2>3, <2>4, <3>1 DEF Size
  <2>12. ASSUME NEW b \in DOMAIN primary, NEW i \in primary'[b]
         PROVE  i \in linked /\ ~InOld(KeyOf[i])' /\ b = NewBucket(KeyOf[i])
    <3>1. i \in primary[b] \/ (i \in moved /\ NewBucket(KeyOf[i]) = b)
      BY <2>3, <2>12
    <3>2. CASE i \in primary[b]
      <4>1. i \in linked /\ ~InOld(KeyOf[i]) /\ b = NewBucket(KeyOf[i])
        BY <3>2 DEF Settled
      <4>2. KeyOf[i] \in Key /\ OldBucket(KeyOf[i]) \in Nat
        BY <2>1, <2>6, <2>10, <4>1
      <4>3. ~InOld(KeyOf[i])'
        BY <2>1, <2>2, <2>7, <2>8, <4>1, <4>2
      <4> QED BY <4>1, <4>3
    <3>3. CASE i \in moved /\ NewBucket(KeyOf[i]) = b
      <4>1. i \in linked /\ KeyOf[i] \in Key /\ OldBucket(KeyOf[i]) \in expand_bucket..(next - 1)
        BY <2>9, <3>3
      <4>2. ~InOld(KeyOf[i])'
        BY <2>1, <2>2, <2>7, <4>1
      <4> QED BY <3>3, <4>1, <4>2
    <3> QED BY <3>1, <3>2, <3>3
  <2>13. ASSUME NEW i \in linked PROVE i \in Chain(KeyOf[i])'
    <3>1. i \in Chain(KeyOf[i]) /\ KeyOf[i] \in Key
      BY <2>10 DEF Settled
    <3>2. OldBucket(KeyOf[i]) \in 0..(size - 1) /\ NewBucket(KeyOf[i]) \in DOMAIN primary
      BY <2>6, <3>1
    <3>3. CASE OldBucket(KeyOf[i]) >= next
      <4>1. i \in old[OldBucket(KeyOf[i])]
        BY <2>1, <2>2, <2>8, <3>1, <3>2, <3>3 DEF Chain
      <4>2. next < size
        BY <2>1, <2>2, <3>2, <3>3
      <4>3. old'[OldBucket(KeyOf[i])] = old[OldBucket(KeyOf[i])]
        BY <2>1, <2>2, <2>3, <2>4, <3>2, <3>3, <4>2
      <4> QED BY <2>6, <2>7, <3>1, <3>3, <4>1, <4>3 DEF Chain
    <3>4. CASE OldBucket(KeyOf[i]) < next /\ OldBucket(KeyOf[i]) >= expand_bucket
      <4>1. i \in old[OldBucket(KeyOf[i])]
        BY <2>8, <3>1, <3>4 DEF Chain
      <4>2. i \in moved
        BY <2>1, <2>2, <2>5, <3>2, <3>4, <4>1
      <4>3. i \in primary'[NewBucket(KeyOf[i])]
        BY <2>3, <3>2, <4>2
      <4>4. ~InOld(KeyOf[i])'
        BY <2>1, <2>2, <2>7, <3>1, <3>2, <3>4
      <4> QED BY <2>6, <3>1, <4>3, <4>4 DEF Chain
    <3>5. CASE OldBucket(KeyOf[i]) < expand_bucket
      <4>1. ~InOld(KeyOf[i])
        BY <2>1, <2>8, <3>1, <3>2, <3>5
      <4>2. i \in primary'[NewBucket(KeyOf[i])]
        BY <2>3, <3>1, <3>2, <4>1 DEF Chain
      <4>3. ~InOld(KeyOf[i])'
        BY <2>1, <2>2, <2>7, <3>1, <3>2, <3>5
      <4> QED BY <2>6, <3>1, <4>2, <4>3 DEF Chain
    <3> QED BY <2>1, <2>2, <3>2, <3>3, <3>4, <3>5
  <2>14. ASSUME next < size
         PROVE  /\ Size(old', hashpower - 1)
                /\ \A b \in DOMAIN old' : \A i \in old'[b] :
                     i \in linked /\ InOld(KeyOf[i])' /\ b = OldBucket(KeyOf[i])
    <3>1. old' = [b \in DOMAIN old |-> IF b < next THEN {} ELSE old[b]]
      BY <2>3, <2>14
    <3>2. Size(old', hashpower - 1)
      BY <2>4, <3>1 DEF Size
    <3>3. ASSUME NEW b \in DOMAIN old', NEW i \in old'[b]
          PROVE  i \in linked /\ InOld(KeyOf[i])' /\ b = OldBucket(KeyOf[i])
      <4>1. b \in DOMAIN old /\ b \in Nat /\ b >= next /\ i \in old[b]
        BY <2>1, <2>2, <2>4, <3>1, <3>3
      <4>2. i \in linked /\ b = OldBucket(KeyOf[i])
        BY <1>2, <4>1 DEF Settled
      <4> QED BY <2>7, <2>10, <4>1, <4>2
    <3> QED BY <3>2, <3>3
  <2>15. /\ DOMAIN primary' = DOMAIN primary
         /\ \A i \in linked : /\ NewBucket(KeyOf[i])' = NewBucket(KeyOf[i])
                            /\ OldBucket(KeyOf[i])' = OldBucket(KeyOf[i])
    BY <2>3, <2>6, <2>10
  <2>16. Size(primary, hashpower)' /\ (~expanding' => old' = NULL)
    BY <2>3, <2>11
  <2>17. expanding' => /\ hashpower' > InitPower /\ Size(old, hashpower - 1)'
                       /\ expand_bucket' < hashsize(hashpower - 1)'
                       /\ \A b \in DOMAIN old' : \A i \in old'[b] :
                            i \in linked' /\ InOld(KeyOf[i])' /\ b = OldBucket(KeyOf[i])'
    BY <1>2, <2>3, <2>14, <2>15 DEF Settled, size
  <2>18. \A b \in DOMAIN primary' : \A i \in primary'[b] :
           i \in linked' /\ ~InOld(KeyOf[i])' /\ b = NewBucket(KeyOf[i])'
    BY <2>12, <2>15
  <2>19. \A i \in linked' : i \in Chain(KeyOf[i])'
    BY <2>13
  <2>20. Settled'
    BY <2>16, <2>17, <2>18, <2>19 DEF Settled
  <2> QED BY <2>2, <2>3, <2>20
<1> QED BY <1>1, <1>2

-----------------------------------------------------------------------------
LEMMA TablesAlone ==
  ASSUME UNCHANGED <<tables, linked>>
  PROVE  Settled' = Settled /\ Installing' = Installing
  BY DEF tables, Settled, Installing, Size, Chain, InOld, OldBucket, NewBucket

\* Steps after which the process goes on, or is dead, with the tables as they were.
LEMMA ContentsAlone ==
  ASSUME CInv, UNCHANGED <<tables, linked>>,
         mpc' = mpc \/ mpc' = "halted" \/ {mpc, mpc'} \cap {"install", "halted"} = {}
  PROVE  CInv'
<1>1. (Settled' <=> Settled) /\ (Installing' <=> Installing)
  BY TablesAlone
<1> QED BY <1>1 DEF CInv

\* The worker is done with its item, or is on its way to link it.
LEMMA ItemsKnown ==
  ASSUME KInv, LInv, NEW w \in Worker,
         \/ item_unlock(w)
         \/ UNCHANGED item /\ item[w] \in Item /\ \E l \in {"replace", "link"} : Goto(w, l)
         \/ UNCHANGED item /\ Goto(w, "hit")
         \/ UNCHANGED item /\ Goto(w, "walk")
         \/ UNCHANGED item /\ pc' = [u \in Worker |-> "halted"]
         \/ UNCHANGED <<item, pc>>
  PROVE  /\ item' \in [Worker -> Item \cup {NULL}]
         /\ \A u \in Worker : pc'[u] \in {"replace", "link"} => item'[u] \in Item
  BY DEF KInv, LInv, item_unlock, Goto, Searching

LEMMA ContentsOfUnlink ==
  ASSUME SInv, LInv, KInv, CInv, NEW w \in Worker, HitExpired(w) \/ ReplaceUnlinks(w)
  PROVE  KInv' /\ CInv'
<1>1. do_item_unlink(it[w]) /\ CacheLockFree /\ UNCHANGED fault
  BY DEF HitExpired, ReplaceUnlinks
<1>2. Settled /\ mpc \notin {"install", "halted"}
  BY <1>1 DEF CInv, CacheLockFree
<1>3. /\ Settled' /\ linked' \subseteq linked /\ hash_items' = Cardinality(linked')
      /\ UNCHANGED <<hashpower, expand_bucket, mpc>>
  BY <1>1, <1>2, Unlinked
<1>4. /\ item' \in [Worker -> Item \cup {NULL}]
      /\ \A u \in Worker : pc'[u] \in {"replace", "link"} => item'[u] \in Item
  <2>1. CASE HitExpired(w)
    BY <2>1, ItemsKnown DEF HitExpired
  <2>2. CASE ReplaceUnlinks(w)
    BY <2>2, ItemsKnown DEF ReplaceUnlinks, KInv
  <2> QED BY <2>1, <2>2
<1>5. CInv'
  BY <1>2, <1>3 DEF CInv
<1> QED BY <1>1, <1>3, <1>4, <1>5 DEF KInv

LEMMA ContentsOfLink ==
  ASSUME SInv, LInv, KInv, CInv, NEW w \in Worker, do_item_link(w)
  PROVE  KInv' /\ CInv'
<1> DEFINE i == item[w]
<1>1. i \in Item /\ CacheLockFree
  BY DEF do_item_link, KInv
<1>2. Settled /\ mpc \notin {"install", "halted"}
  BY <1>1 DEF CInv, CacheLockFree
<1> HIDE DEF i
<1>3. CASE /\ \A j \in linked : KeyOf[j] # KeyOf[i]
           /\ linked' = linked \cup {i} /\ assoc_insert(i) /\ item_unlock(w) /\ UNCHANGED fault
  <2>1. Settled' /\ hash_items' = Cardinality(linked') /\ UNCHANGED <<hashpower, expand_bucket>>
    BY <1>1, <1>2, <1>3, Linked
  <2>2. mpc' = mpc \/ (mpc = "sleeping" /\ mpc' = "woken")
    BY <1>3, Zenon DEF assoc_insert, CountItem
  <2>3. CInv'
    BY <1>2, <2>1, <2>2 DEF CInv
  <2>4. /\ item' \in [Worker -> Item \cup {NULL}]
        /\ \A u \in Worker : pc'[u] \in {"replace", "link"} => item'[u] \in Item
    BY <1>3, ItemsKnown
  <2>5. \A j, k \in linked' : KeyOf[j] = KeyOf[k] => j = k
    BY <1>3 DEF KInv
  <2> QED BY <1>1, <1>3, <2>1, <2>3, <2>4, <2>5 DEF KInv
<1>4. CASE Halt("duplicate key")
  <2>1. /\ UNCHANGED <<tables, linked, hash_items, item>> /\ fault' = "duplicate key"
        /\ mpc' = "halted" /\ pc' = [u \in Worker |-> "halted"]
    BY <1>4 DEF Halt, contents
  <2>2. CInv'
    BY <2>1, ContentsAlone
  <2> QED BY <2>1, <2>2, ItemsKnown DEF KInv, tables
<1> QED BY <1>3, <1>4, Zenon DEF do_item_link, i

LEMMA ContentsOfWalk ==
  ASSUME SInv, LInv, KInv, CInv, NEW w \in Worker, WalkChain(w)
  PROVE  KInv' /\ CInv'
<1>1. UNCHANGED <<tables, linked, hash_items>>
  BY Zenon DEF WalkChain, Halt, contents
<1>2. fault' \in {fault, "NULL table"} /\ mpc' \in {mpc, "halted"}
  BY Zenon DEF WalkChain, Halt
<1>3. CInv'
  BY <1>1, <1>2, ContentsAlone
<1>4. /\ item' \in [Worker -> Item \cup {NULL}]
      /\ \A u \in Worker : pc'[u] \in {"replace", "link"} => item'[u] \in Item
  <2>1. item[w] # NULL => item[w] \in Item
    BY DEF KInv
  <2>2. \/ item_unlock(w)
        \/ UNCHANGED item /\ item[w] # NULL /\ \E l \in {"replace", "link"} : Goto(w, l)
        \/ UNCHANGED item /\ Goto(w, "hit")
        \/ UNCHANGED item /\ pc' = [u \in Worker |-> "halted"]
    BY Zenon DEF WalkChain, Halt
  <2> QED BY <2>1, <2>2, ItemsKnown
<1> QED BY <1>1, <1>2, <1>3, <1>4 DEF KInv, tables

LEMMA ContentsOfOther ==
  ASSUME SInv, LInv, KInv, CInv, NEW w \in Worker,
         Command(w) \/ item_lock(w) \/ HitLive(w) \/ FlipLockType(w)
  PROVE  KInv' /\ CInv'
<1>1. UNCHANGED <<tables, linked, hash_items, fault, mpc>>
  BY DEF Command, item_lock, HitLive, FlipLockType, contents
<1>2. CInv'
  BY <1>1, ContentsAlone
<1>3. /\ item' \in [Worker -> Item \cup {NULL}]
      /\ \A u \in Worker : pc'[u] \in {"replace", "link"} => item'[u] \in Item
  <2>1. CASE Command(w)
    <3>1. \E i \in Item \cup {NULL} : item' = [item EXCEPT ![w] = i] \/ item' = item
      BY <2>1 DEF Command
    <3>2. pc' = [pc EXCEPT ![w] = "lock"]
      BY <2>1 DEF Command, Goto
    <3> QED BY <3>1, <3>2 DEF KInv, LInv
  <2>2. CASE item_lock(w)
    BY <2>2, ItemsKnown DEF item_lock
  <2>3. CASE HitLive(w)
    BY <2>3, ItemsKnown DEF HitLive
  <2>4. CASE FlipLockType(w)
    BY <2>4, ItemsKnown DEF FlipLockType, command
  <2> QED BY <2>1, <2>2, <2>3, <2>4
<1> QED BY <1>1, <1>2, <1>3 DEF KInv, tables

LEMMA ContentsOfMaintenance ==
  ASSUME SInv, LInv, KInv, CInv, Maintain \/ item_lock_global \/ SpuriousWakeup
  PROVE  KInv' /\ CInv'
<1>1. UNCHANGED <<linked, hash_items, item, pc, fault>>
  BY Zenon DEF Maintain, BulkMove, SwitchToGranular, PauseAndSwitchToGlobal, ResumeAndSleep,
     AllocateTable, InstallTable, item_lock_global, SpuriousWakeup, SwitchTo, contents, command
<1>2. CASE BulkMove
  <2>1. mpc = "move" /\ mpc' \in {"top", "moved"} /\ MoveBuckets
    BY <1>2 DEF BulkMove
  <2>2. Settled
    BY <2>1 DEF CInv
  <2>3. Settled' /\ hashpower' = hashpower /\ expand_bucket' \in Nat
    BY <1>1, <2>1, <2>2, Moved
  <2> QED BY <1>1, <2>1, <2>3 DEF KInv, CInv
<1>3. CASE SwitchToGranular \/ PauseAndSwitchToGlobal \/ ResumeAndSleep \/ item_lock_global
           \/ SpuriousWakeup
  <2>1. UNCHANGED tables
    BY <1>3 DEF SwitchToGranular, PauseAndSwitchToGlobal, ResumeAndSleep, item_lock_global,
       SpuriousWakeup, SwitchTo
  <2>2. {mpc, mpc'} \cap {"install", "halted"} = {}
    BY <1>3 DEF SwitchToGranular, PauseAndSwitchToGlobal, ResumeAndSleep, item_lock_global,
       SpuriousWakeup, MGoto
  <2>3. CInv'
    BY <1>1, <2>1, <2>2, ContentsAlone
  <2> QED BY <1>1, <2>1, <2>3 DEF KInv, tables
<1>4. CASE AllocateTable
  <2>1. /\ mpc = "wait global" /\ mpc' = "install" /\ old' = primary
        /\ UNCHANGED <<hashpower, expanding, expand_bucket>>
        /\ \/ primary' = NULL
           \/ /\ hashpower < MaxPower
              /\ primary' = [b \in 0..(hashsize(hashpower + 1) - 1) |-> {}]
    BY <1>4 DEF AllocateTable, MGoto
  <2>2. Settled /\ ~expanding
    BY <2>1 DEF CInv, SInv
  <2>3. \A k : ~InOld(k) /\ Chain(k) = primary[NewBucket(k)]
    BY <2>2 DEF InOld, Chain
  <2>4. \A k : NewBucket(k)' = NewBucket(k)
    BY <2>1 DEF NewBucket
  <2>5. /\ \A b \in DOMAIN old' : \A i \in old'[b] : i \in linked' /\ b = NewBucket(KeyOf[i])'
        /\ \A i \in linked' : i \in old'[NewBucket(KeyOf[i])']
    BY <1>1, <2>1, <2>2, <2>3, <2>4 DEF Settled
  <2>6. \/ primary' = NULL
        \/ /\ hashpower' < MaxPower /\ Size(primary, hashpower + 1)'
           /\ \A b \in DOMAIN primary' : primary'[b] = {}
    BY <2>1 DEF Size
  <2>7. ~expanding' /\ Size(old, hashpower)'
    BY <2>1, <2>2 DEF Settled, Size
  <2>8. Installing'
    BY <2>5, <2>6, <2>7 DEF Installing
  <2> QED BY <1>1, <2>1, <2>8 DEF KInv, CInv
<1>5. CASE InstallTable
  <2>1. /\ mpc = "install" /\ mpc' = "top"
        /\ \/ /\ primary # NULL
              /\ hashpower' = hashpower + 1 /\ expanding' = TRUE /\ expand_bucket' = 0
              /\ UNCHANGED <<primary, old>>
           \/ /\ primary = NULL /\ primary' = old /\ old' = NULL
              /\ UNCHANGED <<hashpower, expanding, expand_bucket>>
    BY <1>5 DEF InstallTable, MGoto
  <2>2. Installing
    BY <2>1 DEF CInv
  <2>p. hashpower \in 0..MaxPower /\ hashpower \in InitPower..MaxPower
        /\ InitPower \in Nat /\ MaxPower \in Nat
    BY PowerKnown, PowerAssumption DEF KInv
  <2>k. \A i \in linked : KeyOf[i] \in Key
    BY HashAssumption DEF KInv
  <2>3. CASE primary = NULL
    <3>1. primary' = old /\ old' = NULL /\ UNCHANGED <<hashpower, expanding, expand_bucket>>
      BY <2>1, <2>3
    <3>2. \A k : NewBucket(k)' = NewBucket(k) /\ ~InOld(k)' /\ Chain(k)' = old[NewBucket(k)]
      BY <2>2, <3>1 DEF NewBucket, InOld, Chain, Installing
    <3>3. Settled'
      BY <1>1, <2>2, <3>1, <3>2 DEF Settled, Installing, Size
    <3> QED BY <1>1, <2>1, <3>1, <3>3 DEF KInv, CInv
  <2>4. CASE primary # NULL
    <3>1. /\ hashpower' = hashpower + 1 /\ expanding' = TRUE /\ expand_bucket' = 0
          /\ UNCHANGED <<primary, old>> /\ hashpower < MaxPower
          /\ hashpower' - 1 = hashpower /\ hashpower' \in InitPower..MaxPower /\ hashpower' > InitPower
      BY <2>1, <2>2, <2>4, <2>p DEF Installing
    <3>2. ASSUME NEW k \in Key
          PROVE  /\ OldBucket(k)' = NewBucket(k) /\ InOld(k)' /\ Chain(k)' = old[NewBucket(k)]
      <4>1. NewBucket(k) \in 0..(hashsize(hashpower) - 1)
        BY <2>p, BucketKnown DEF NewBucket
      <4>2. OldBucket(k)' = NewBucket(k)
        BY <3>1 DEF OldBucket, NewBucket
      <4>3. InOld(k)'
        BY <3>1, <4>1, <4>2, <2>p, SizesKnown DEF InOld
      <4> QED BY <3>1, <4>2, <4>3 DEF Chain
    <3>3. Size(primary, hashpower)' /\ Size(old, hashpower - 1)'
      BY <2>2, <2>4, <3>1 DEF Installing, Size
    <3>4. expand_bucket' < hashsize(hashpower - 1)'
      BY <2>p, <3>1, SizesKnown
    <3>5. \A b \in DOMAIN old' : \A i \in old'[b] :
            i \in linked' /\ InOld(KeyOf[i])' /\ b = OldBucket(KeyOf[i])'
      BY <1>1, <2>2, <2>k, <3>1, <3>2 DEF Installing
    <3>6. \A b \in DOMAIN primary' : primary'[b] = {}
      BY <2>2, <2>4, <3>1 DEF Installing
    <3>7. \A i \in linked' : i \in Chain(KeyOf[i])'
      BY <1>1, <2>2, <2>k, <3>2 DEF Installing
    <3>8. Settled'
      BY <3>1, <3>3, <3>4, <3>5, <3>6, <3>7 DEF Settled
    <3> QED BY <1>1, <2>1, <3>1, <3>8 DEF KInv, CInv
  <2> QED BY <2>3, <2>4
<1> QED BY <1>2, <1>3, <1>4, <1>5 DEF Maintain

LEMMA ContentsKept == SInv /\ LInv /\ KInv /\ CInv /\ [Next]_vars => KInv' /\ CInv'
<1> SUFFICES ASSUME SInv, LInv, KInv, CInv, [Next]_vars PROVE KInv' /\ CInv'
  OBVIOUS
<1>1. ASSUME NEW i \in Item, Vanish(i) PROVE KInv' /\ CInv'
  <2>1. do_item_unlink(i) /\ CacheLockFree /\ UNCHANGED <<item, pc, fault>>
    BY <1>1 DEF Vanish, command
  <2>2. Settled /\ mpc \notin {"install", "halted"}
    BY <2>1 DEF CInv, CacheLockFree
  <2>3. /\ Settled' /\ linked' \subseteq linked /\ hash_items' = Cardinality(linked')
        /\ UNCHANGED <<hashpower, expand_bucket, mpc>>
    BY <2>1, <2>2, Unlinked
  <2> QED BY <2>1, <2>2, <2>3 DEF KInv, CInv
<1>2. CASE UNCHANGED vars
  <2>1. UNCHANGED <<tables, linked, hash_items, item, pc, fault, mpc>>
    BY <1>2 DEF vars, contents, command
  <2>2. CInv'
    BY <2>1, ContentsAlone
  <2> QED BY <2>1, <2>2 DEF KInv, tables
<1> QED BY <1>1, <1>2, ContentsOfUnlink, ContentsOfLink, ContentsOfWalk, ContentsOfOther,
           ContentsOfMaintenance DEF Next, InCommand

LEMMA ContentsHold == Spec => [](KInv /\ CInv)
<1>1. SInv /\ LInv /\ (KInv /\ CInv) /\ [Next]_vars => (KInv /\ CInv)'
  BY ContentsKept
<1> QED BY ContentsOfInit, SwitchAndLocksHold, <1>1, PTL DEF Spec

\* However far an expansion has got and whatever is inserted and deleted meanwhile,
\* each linked item is in the chain where assoc_find looks for its key, nothing else
\* is in the tables, and hash_items counts them.
THEOREM NothingIsLost == Spec => []NothingLost
<1>1. SInv /\ KInv /\ CInv => NothingLost
  <2> SUFFICES ASSUME SInv, KInv, CInv, CacheLockFree
               PROVE  /\ Cells(primary) \cup Cells(old) = linked
                      /\ \A i \in linked : i \in Chain(KeyOf[i])
                      /\ hash_items = Cardinality(linked)
    BY DEF NothingLost
  <2>1. Settled
    BY DEF CInv, CacheLockFree
  <2>2. Cells(primary) \subseteq linked
    BY <2>1 DEF Cells, Settled
  <2>3. Cells(old) \subseteq linked
    BY <2>1 DEF Cells, Settled
  <2>4. primary # NULL /\ (expanding => old # NULL)
    BY <2>1, PowerKnown, NullAssumption DEF Settled, Size, hashsize
  <2>5. ASSUME NEW i \in linked PROVE i \in Cells(primary) \cup Cells(old)
    <3>1. i \in Chain(KeyOf[i]) /\ KeyOf[i] \in Key
      BY <2>1, HashAssumption DEF Settled, KInv
    <3>2. CASE InOld(KeyOf[i])
      <4>1. expanding /\ i \in old[OldBucket(KeyOf[i])]
        BY <3>1, <3>2 DEF InOld, Chain
      <4>2. OldBucket(KeyOf[i]) \in DOMAIN old
        <5>1. hashpower - 1 \in 0..MaxPower
          BY <2>1, <4>1, PowerKnown DEF Settled
        <5> QED BY <2>1, <3>1, <4>1, <5>1, BucketKnown DEF OldBucket, Settled, Size
      <4> QED BY <2>4, <4>1, <4>2 DEF Cells
    <3>3. CASE ~InOld(KeyOf[i])
      <4>1. i \in primary[NewBucket(KeyOf[i])]
        BY <3>1, <3>3 DEF Chain
      <4>2. NewBucket(KeyOf[i]) \in DOMAIN primary
        BY <2>1, <3>1, PowerKnown, BucketKnown DEF NewBucket, Settled, Size
      <4> QED BY <2>4, <4>1, <4>2 DEF Cells
    <3> QED BY <3>2, <3>3
  <2> QED BY <2>1, <2>2, <2>3, <2>5 DEF Settled, KInv
<1> QED BY <1>1, SwitchAndLocksHold, ContentsHold, PTL

-----------------------------------------------------------------------------
Flags == expanding \in BOOLEAN /\ started_expanding \in BOOLEAN

LEMMA FlagsHold == Spec => []Flags
<1>1. Init => Flags
  BY Zenon DEF Init, Flags
<1>2. Flags /\ [Next]_vars => Flags'
  <2> SUFFICES ASSUME Flags, [Next]_vars PROVE Flags'
    OBVIOUS
  <2> USE DEF Flags, tables, contents
  <2>1. ASSUME NEW w \in Worker, Command(w) \/ item_lock(w) \/ FlipLockType(w) PROVE Flags'
    BY <2>1, Zenon DEF Command, item_lock, FlipLockType
  <2>2. ASSUME NEW w \in Worker, WalkChain(w) \/ HitLive(w) PROVE Flags'
    BY <2>2, Zenon DEF WalkChain, HitLive, Halt
  <2>3. ASSUME NEW w \in Worker, HitExpired(w) \/ ReplaceUnlinks(w) PROVE Flags'
    BY <2>3, Zenon DEF HitExpired, ReplaceUnlinks, do_item_unlink, assoc_delete, SetChain
  <2>4. ASSUME NEW w \in Worker, do_item_link(w) PROVE Flags'
    BY <2>4, Zenon DEF do_item_link, assoc_insert, SetChain, CountItem, Halt
  <2>5. ASSUME NEW i \in Item, Vanish(i) PROVE Flags'
    BY <2>5, Zenon DEF Vanish, do_item_unlink, assoc_delete, SetChain
  <2>6. CASE BulkMove
    <3>1. expanding' \in BOOLEAN
      <4>1. \A a, b : (a < b) \in BOOLEAN
        OBVIOUS
      <4> QED BY <2>6, <4>1, Zenon DEF BulkMove, MoveBuckets, MoveUpTo
    <3> QED BY <2>6, <3>1, Zenon DEF BulkMove
  <2>7. CASE SwitchToGranular \/ ResumeAndSleep \/ PauseAndSwitchToGlobal \/ AllocateTable \/ InstallTable
    BY <2>7, Zenon DEF SwitchToGranular, ResumeAndSleep, PauseAndSwitchToGlobal, AllocateTable,
       InstallTable, SwitchTo
  <2>8. CASE item_lock_global \/ SpuriousWakeup \/ UNCHANGED vars
    BY <2>8, Zenon DEF item_lock_global, SpuriousWakeup, vars
  <2> QED BY <2>1, <2>2, <2>3, <2>4, <2>5, <2>6, <2>7, <2>8 DEF Next, InCommand, Maintain
<1> QED BY <1>1, <1>2, PTL DEF Spec

\* The tables keep to their sizes and, during an expansion, expand_bucket to the range
\* that assoc.c promises for it.
THEOREM TypeCorrect == Spec => []TypeOK
<1>1. SInv /\ LInv /\ KInv /\ CInv /\ Flags => TypeOK
  <2> SUFFICES ASSUME SInv, LInv, KInv, CInv, Flags PROVE TypeOK
    OBVIOUS
  <2>1. hash_items \in 0..Cardinality(Item)
    <3>1. linked \in SUBSET Item
      BY DEF KInv
    <3>2. Cardinality(linked) <= Cardinality(Item)
      BY <3>1, HashAssumption, FS_Subset
    <3>3. Cardinality(linked) \in Nat /\ Cardinality(Item) \in Nat
      BY LinkedFinite, HashAssumption, FS_CardinalityType
    <3>4. hash_items = Cardinality(linked)
      BY DEF KInv
    <3> QED BY <3>2, <3>3, <3>4
  <2>2. init_count \in 0..Cardinality(Worker)
    <3>1. Reported \in SUBSET Worker
      BY DEF Reported
    <3>2. Cardinality(Reported) <= Cardinality(Worker) /\ IsFiniteSet(Reported)
      BY <3>1, ThreadAssumption, FS_Subset
    <3>3. Cardinality(Reported) \in Nat /\ Cardinality(Worker) \in Nat
      BY <3>2, ThreadAssumption, FS_CardinalityType
    <3>4. init_count = Cardinality(Reported)
      BY DEF SInv
    <3> QED BY <3>2, <3>3, <3>4
  <2>3. Settled \/ Installing
    BY DEF CInv
  <2>4. ASSUME NEW t, NEW n \in 0..MaxPower, Size(t, n) PROVE t \in Tables
    BY <2>4 DEF Size, Tables
  <2>5. {primary, old} \subseteq Tables \cup {NULL} /\ (expanding => expand_bucket < hashsize(hashpower - 1))
    <3>1. CASE Settled
      BY <2>4, <3>1, PowerKnown DEF Settled
    <3>2. CASE Installing
      <4>1. hashpower < MaxPower => hashpower + 1 \in 0..MaxPower
        BY PowerKnown, PowerAssumption
      <4> QED BY <2>4, <3>2, <4>1, PowerKnown DEF Installing
    <3> QED BY <2>3, <3>1, <3>2
  <2> QED BY <2>1, <2>2, <2>5, Zenon DEF TypeOK, SInv, LInv, KInv, Flags
<1> QED BY <1>1, SwitchAndLocksHold, ContentsHold, FlagsHold, PTL
=============================================================================
