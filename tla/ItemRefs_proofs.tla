--------------------------- MODULE ItemRefs_proofs ---------------------------
(***************************************************************************)
(* Proofs about ItemRefs, for any number of threads, chunks, keys, locks   *)
(* and reply slots.                                                        *)
(***************************************************************************)
EXTENDS ItemRefs, FiniteSetTheorems, TLAPS

\* Where a command holds the reference do_item_get gave it.
HasIt == {"check", "drop", "hit", "inplace", "alloc", "link", "unlink",
          "lock_unlink", "rel_it"}

\* Which references a command holds at which of its steps.
Shape(w) ==
  /\ pc[w] \in HasIt => ref[<<w, "it">>] \in Item
  /\ pc[w] \notin HasIt \cup {"linked"} => ref[<<w, "it">>] = NoItem
  /\ found[w] = NoItem <=> pc[w] # "incr"
  /\ ref[<<w, "item">>] = NoItem <=> (pc[w] = "idle" \/ op[w] \notin StoreOps)
  /\ ref[<<w, "new_it">>] # NoItem => pc[w] \in {"alloc", "link", "linked"}
  /\ pc[w] = "link" /\ op[w] \in {"append", "incr"} => ref[<<w, "new_it">>] # NoItem
  /\ pc[w] \in {"nread", "rel_item"} => op[w] \in StoreOps
  /\ pc[w] = "alloc" => op[w] \in {"append", "incr"}
  /\ pc[w] = "inplace" => op[w] = "incr"
  /\ pc[w] = "link" => op[w] \in {"set", "replace", "cas", "append", "incr"}
  /\ pc[w] = "linked" => op[w] \in StoreOps \cup {"incr"}
  /\ pc[w] \in {"unlink", "lock_unlink", "rel_it"} => op[w] \in {"get", "touch", "delete", "purge"}
  /\ pc[w] = "flush" => op[w] = "flush_all"

TInv == TypeOK /\ \A w \in Worker : Shape(w)

-----------------------------------------------------------------------------
(* Facts about the constants *)

LEMMA RefOf ==
  ASSUME NEW w \in Worker
  PROVE  /\ <<w, "it">> \in Refs /\ <<w, "item">> \in Refs /\ <<w, "new_it">> \in Refs
         /\ \A s \in Slot : <<w, s>> \in Refs
  BY DEF Refs

LEMMA RefsFinite == IsFiniteSet(Refs) /\ Cardinality(Refs) \in Nat
<1>1. IsFiniteSet({"it", "item", "new_it"})
  <2>1. IsFiniteSet({} \cup {"it"})
    BY FS_EmptySet, FS_AddElement
  <2>2. IsFiniteSet(({} \cup {"it"}) \cup {"item"})
    BY <2>1, FS_AddElement
  <2>3. IsFiniteSet((({} \cup {"it"}) \cup {"item"}) \cup {"new_it"})
    BY <2>2, FS_AddElement
  <2>4. {"it", "item", "new_it"} = (({} \cup {"it"}) \cup {"item"}) \cup {"new_it"}
    OBVIOUS
  <2> QED BY <2>3, <2>4
<1>2. IsFiniteSet({"it", "item", "new_it"} \cup Slot)
  BY <1>1, SlotAssumption, FS_Union
<1> QED BY <1>2, WorkerAssumption, FS_Product, FS_CardinalityType DEF Refs

LEMMA RefMaxPositive == RefMax \in Nat /\ RefMax >= 1
  BY RefsFinite, RefMaxAssumption

-----------------------------------------------------------------------------
(* Types and reference shape *)

LEMMA TInvInit == Init => TInv
  BY WorkerAssumption, SlotAssumption, RefMaxAssumption, StripeAssumption, RefOf
  DEF Init, TInv, TypeOK, Shape, PCs, LockedPCs, Ops, LookupOps, StoreOps, HasIt

LEMMA CountType ==
  ASSUME NEW n \in 0..RefMax
  PROVE  refcount_incr(n) \in 0..RefMax /\ refcount_decr(n) \in 0..RefMax
  BY RefMaxPositive DEF refcount_incr, refcount_decr

\* The types of what the primitives of items.c change.
LEMMA RemoveType ==
  ASSUME TypeOK, NEW r \in Refs, ref[r] \in Item, do_item_remove(r)
  PROVE  /\ refcount' \in [Item -> 0..RefMax]
         /\ slabbed' \in SUBSET Item
         /\ ref' \in [Refs -> Item \cup {NoItem}]
  BY RefMaxPositive DEF TypeOK, do_item_remove, refcount_decr

LEMMA UnlinkType ==
  ASSUME TypeOK, NEW i \in Item, do_item_unlink(i)
  PROVE  /\ refcount' \in [Item -> 0..RefMax]
         /\ slabbed' \in SUBSET Item
         /\ linked' \in SUBSET Item
  BY RefMaxPositive DEF TypeOK, do_item_unlink, refcount_decr

LEMMA LinkType ==
  ASSUME TypeOK, NEW i \in Item, do_item_link(i)
  PROVE  /\ refcount' \in [Item -> 0..RefMax]
         /\ linked' \in SUBSET Item
  BY RefMaxPositive DEF TypeOK, do_item_link, refcount_incr

LEMMA AllocType ==
  ASSUME TypeOK, NEW r \in Refs, NEW k \in Key, NEW h, NEW i \in Item,
         do_item_alloc(r, k, h, i)
  PROVE  /\ refcount' \in [Item -> 0..RefMax]
         /\ slabbed' \in SUBSET Item
         /\ linked' \in SUBSET Item
         /\ key' \in [Item -> Key \cup {NoKey}]
         /\ ref' \in [Refs -> Item \cup {NoItem}]
  BY RefMaxPositive DEF TypeOK, do_item_alloc

\* A step of thread v leaves the local state of the other threads alone.
Local(v) ==
  \A u \in Worker \ {v} :
    /\ pc'[u] = pc[u] /\ op'[u] = op[u] /\ opkey'[u] = opkey[u] /\ found'[u] = found[u]
    /\ \A n \in {"it", "item", "new_it"} \cup Slot : ref'[<<u, n>>] = ref[<<u, n>>]

LEMMA StepIsLocal ==
  ASSUME TypeOK, NEW v \in Worker, Lookup(v) \/ Finish(v)
  PROVE  Local(v)
<1> USE DEF TypeOK, Local, Goto, memory, locks, Refs
<1>1. CASE StartLookup(v)
  BY <1>1 DEF StartLookup
<1>2. CASE StartStore(v)
  BY <1>2 DEF StartStore, do_item_alloc
<1>3. CASE StartStoreFails(v)
  BY <1>3 DEF StartStoreFails
<1>4. CASE NreadComplete(v)
  BY <1>4 DEF NreadComplete
<1>5. CASE ItemLock(v)
  BY <1>5 DEF ItemLock
<1>6. CASE AssocFind(v)
  BY <1>6 DEF AssocFind
<1>7. CASE TakeReference(v)
  BY <1>7 DEF TakeReference
<1>8. CASE CheckLive(v)
  BY <1>8 DEF CheckLive
<1>9. CASE DropExpired(v)
  BY <1>9 DEF DropExpired, do_item_remove
<1>10. CASE MissEnds(v)
  BY <1>10 DEF MissEnds
<1>11. CASE MissLinks(v)
  BY <1>11 DEF MissLinks
<1>12. CASE HitGet(v)
  BY <1>12 DEF HitGet
<1>13. CASE HitReturns(v)
  BY <1>13 DEF HitReturns
<1>14. CASE ItemUnlinkLock(v)
  BY <1>14 DEF ItemUnlinkLock
<1>15. CASE ItemUnlink(v)
  BY <1>15 DEF ItemUnlink
<1>16. CASE HitIncr(v)
  BY <1>16 DEF HitIncr
<1>17. CASE IncrInPlace(v)
  BY <1>17 DEF IncrInPlace
<1>18. CASE HitStore(v)
  BY <1>18 DEF HitStore
<1>19. CASE AllocInside(v)
  BY <1>19 DEF AllocInside, do_item_alloc
<1>20. CASE ReplaceUnlinks(v)
  BY <1>20 DEF ReplaceUnlinks
<1>21. CASE ReplaceLinks(v)
  BY <1>21 DEF ReplaceLinks
<1>22. CASE ReleaseLocal(v)
  BY <1>22 DEF ReleaseLocal, do_item_remove
<1>23. CASE UnlockAfterStore(v)
  BY <1>23 DEF UnlockAfterStore
<1>24. CASE ReleaseLast(v)
  BY <1>24 DEF ReleaseLast, item_remove, do_item_remove
<1>25. CASE ReplySent(v)
  BY <1>25 DEF ReplySent, item_remove, do_item_remove
<1>26. CASE FlushBegin(v)
  BY <1>26 DEF FlushBegin
<1>27. CASE FlushItem(v)
  BY <1>27 DEF FlushItem
<1>28. CASE FlushEnd(v)
  BY <1>28 DEF FlushEnd
<1> QED BY <1>1, <1>2, <1>3, <1>4, <1>5, <1>6, <1>7, <1>8, <1>9, <1>10, <1>11, <1>12, <1>13, <1>14, <1>15, <1>16, <1>17, <1>18, <1>19, <1>20, <1>21, <1>22, <1>23, <1>24, <1>25, <1>26, <1>27, <1>28 DEF Lookup, Finish

\* What a step does to the worker that takes it.
LEMMA StepKeepsShape ==
  ASSUME TypeOK, NEW v \in Worker, Shape(v), Lookup(v) \/ Finish(v)
  PROVE  TypeOK' /\ Shape(v)'
<1>r. /\ <<v, "it">> \in Refs /\ <<v, "item">> \in Refs /\ <<v, "new_it">> \in Refs
      /\ \A s \in Slot : <<v, s>> \in Refs
  BY RefOf
<1> USE <1>r, ItemAssumption, SlotAssumption
<1> USE DEF TypeOK, Goto, memory, locks
<1>1. CASE StartLookup(v)
  <2>1. TypeOK'
    BY <1>1 DEF StartLookup, PCs, LockedPCs, Ops, LookupOps, StoreOps, Shape, HasIt
  <2>2. Shape(v)'
    BY <1>1 DEF StartLookup, Shape, HasIt, LookupOps, StoreOps
  <2> QED BY <2>1, <2>2
<1>2. CASE StartStore(v)
  <2>1. TypeOK'
    BY <1>2, AllocType DEF StartStore, PCs, LockedPCs, Ops, StoreOps
  <2>2. Shape(v)'
    BY <1>2 DEF StartStore, do_item_alloc, Shape, HasIt, LookupOps, StoreOps
  <2> QED BY <2>1, <2>2
<1>3. CASE StartStoreFails(v)
  <2>1. TypeOK'
    BY <1>3 DEF StartStoreFails, PCs, LockedPCs, Ops, LookupOps, StoreOps, Shape, HasIt
  <2>2. Shape(v)'
    BY <1>3 DEF StartStoreFails, Shape, HasIt, LookupOps, StoreOps
  <2> QED BY <2>1, <2>2
<1>4. CASE NreadComplete(v)
  <2>1. TypeOK'
    BY <1>4 DEF NreadComplete, PCs, LockedPCs, Ops, LookupOps, StoreOps, Shape, HasIt
  <2>2. Shape(v)'
    BY <1>4 DEF NreadComplete, Shape, HasIt, LookupOps, StoreOps
  <2> QED BY <2>1, <2>2
<1>5. CASE ItemLock(v)
  <2>1. TypeOK'
    BY <1>5 DEF ItemLock, item_lock, PCs, LockedPCs, Ops, LookupOps, StoreOps, Shape, HasIt
  <2>2. Shape(v)'
    BY <1>5 DEF ItemLock, item_lock, Shape, HasIt, LookupOps, StoreOps
  <2> QED BY <2>1, <2>2
<1>6. CASE AssocFind(v)
  <2>1. TypeOK'
    BY <1>6 DEF AssocFind, PCs, LockedPCs, Ops, LookupOps, StoreOps, Shape, HasIt
  <2>2. Shape(v)'
    BY <1>6 DEF AssocFind, Shape, HasIt, LookupOps, StoreOps
  <2> QED BY <2>1, <2>2
<1>7. CASE TakeReference(v)
  <2>1. TypeOK'
    <3>a. pc[v] = "incr"
      BY <1>7 DEF TakeReference
    <3>b. Shape(v)
      OBVIOUS
    <3>c. found[v] \in Item \cup {NoItem} /\ found[v] # NoItem
      BY <3>a, <3>b DEF Shape
    <3>1. found[v] \in Item
      BY <3>c
    <3>2. refcount' \in [Item -> 0..RefMax]
      BY <1>7, <3>1, CountType DEF TakeReference
    <3>3. ref' \in [Refs -> Item \cup {NoItem}] /\ found' \in [Worker -> Item \cup {NoItem}]
      BY <1>7, <3>1 DEF TakeReference
    <3> QED BY <1>7, <3>2, <3>3 DEF TakeReference, PCs, LockedPCs
  <2>2. Shape(v)'
    BY <1>7 DEF TakeReference, refcount_incr, Shape, HasIt, LookupOps, StoreOps
  <2> QED BY <2>1, <2>2
<1>8. CASE CheckLive(v)
  <2>1. TypeOK'
    <3>a. pc[v] = "check"
      BY <1>8 DEF CheckLive
    <3>b. Shape(v)
      OBVIOUS
    <3>1. ref[<<v, "it">>] \in Item
      BY <3>a, <3>b DEF Shape, HasIt
    <3>2. CASE Goto(v, "hit") /\ UNCHANGED memory
      BY <1>8, <3>2 DEF CheckLive, PCs, LockedPCs
    <3>3. CASE do_item_unlink(ref[<<v, "it">>]) /\ Goto(v, "drop") /\ UNCHANGED key
      BY <1>8, <3>1, <3>3, UnlinkType DEF CheckLive, PCs, LockedPCs
    <3> QED BY <1>8, <3>2, <3>3 DEF CheckLive
  <2>2. Shape(v)'
    BY <1>8 DEF CheckLive, do_item_unlink, refcount_decr, Shape, HasIt, LookupOps, StoreOps
  <2> QED BY <2>1, <2>2
<1>9. CASE DropExpired(v)
  <2>1. TypeOK'
    BY <1>9, RemoveType DEF DropExpired, PCs, LockedPCs, Ops, LookupOps, StoreOps, Shape, HasIt
  <2>2. Shape(v)'
    BY <1>9 DEF DropExpired, do_item_remove, refcount_decr, Shape, HasIt, LookupOps, StoreOps
  <2> QED BY <2>1, <2>2
<1>10. CASE MissEnds(v)
  <2>1. TypeOK'
    BY <1>10 DEF MissEnds, item_unlock, PCs, LockedPCs, Ops, LookupOps, StoreOps, Shape, HasIt
  <2>2. Shape(v)'
    BY <1>10 DEF MissEnds, item_unlock, Shape, HasIt, LookupOps, StoreOps
  <2> QED BY <2>1, <2>2
<1>11. CASE MissLinks(v)
  <2>1. TypeOK'
    <3>a. pc[v] = "missed" /\ op[v] \in StoreOps
      BY <1>11 DEF MissLinks, StoreOps
    <3>b. Shape(v)
      OBVIOUS
    <3>1. ref[<<v, "item">>] \in Item
      BY <3>a, <3>b DEF Shape
    <3>2. refcount' \in [Item -> 0..RefMax] /\ linked' \in SUBSET Item
      BY <1>11, <3>1, LinkType DEF MissLinks
    <3> QED BY <1>11, <3>2 DEF MissLinks, PCs, LockedPCs
  <2>2. Shape(v)'
    BY <1>11 DEF MissLinks, do_item_link, refcount_incr, Shape, HasIt, LookupOps, StoreOps
  <2> QED BY <2>1, <2>2
<1>12. CASE HitGet(v)
  <2>1. TypeOK'
    BY <1>12 DEF HitGet, item_unlock, PCs, LockedPCs, Ops, LookupOps, StoreOps, Shape, HasIt
  <2>2. Shape(v)'
    BY <1>12 DEF HitGet, item_unlock, Shape, HasIt, LookupOps, StoreOps
  <2> QED BY <2>1, <2>2
<1>13. CASE HitReturns(v)
  <2>1. TypeOK'
    BY <1>13 DEF HitReturns, item_unlock, PCs, LockedPCs, Ops, LookupOps, StoreOps, Shape, HasIt
  <2>2. Shape(v)'
    BY <1>13 DEF HitReturns, item_unlock, Shape, HasIt, LookupOps, StoreOps
  <2> QED BY <2>1, <2>2
<1>14. CASE ItemUnlinkLock(v)
  <2>1. TypeOK'
    BY <1>14 DEF ItemUnlinkLock, item_lock, PCs, LockedPCs, Ops, LookupOps, StoreOps, Shape, HasIt
  <2>2. Shape(v)'
    BY <1>14 DEF ItemUnlinkLock, item_lock, Shape, HasIt, LookupOps, StoreOps
  <2> QED BY <2>1, <2>2
<1>15. CASE ItemUnlink(v)
  <2>1. TypeOK'
    BY <1>15, UnlinkType DEF ItemUnlink, item_unlock, PCs, LockedPCs, Ops, LookupOps, StoreOps, Shape, HasIt
  <2>2. Shape(v)'
    BY <1>15 DEF ItemUnlink, item_unlock, do_item_unlink, refcount_decr, Shape, HasIt, LookupOps, StoreOps
  <2> QED BY <2>1, <2>2
<1>16. CASE HitIncr(v)
  <2>1. TypeOK'
    BY <1>16 DEF HitIncr, PCs, LockedPCs, Ops, LookupOps, StoreOps, Shape, HasIt
  <2>2. Shape(v)'
    BY <1>16 DEF HitIncr, Shape, HasIt, LookupOps, StoreOps
  <2> QED BY <2>1, <2>2
<1>17. CASE IncrInPlace(v)
  <2>1. TypeOK'
    BY <1>17 DEF IncrInPlace, PCs, LockedPCs, Ops, LookupOps, StoreOps, Shape, HasIt
  <2>2. Shape(v)'
    BY <1>17 DEF IncrInPlace, Shape, HasIt, LookupOps, StoreOps
  <2> QED BY <2>1, <2>2
<1>18. CASE HitStore(v)
  <2>1. TypeOK'
    <3>1. ref[<<v, "it">>] \in Item
      BY <1>18 DEF HitStore, Shape, HasIt
    <3>2. CASE UNCHANGED memory
      BY <1>18, <3>2 DEF HitStore, PCs, LockedPCs
    <3>3. CASE do_item_unlink(ref[<<v, "it">>])
      <4>1. /\ refcount' \in [Item -> 0..RefMax]
            /\ slabbed' \in SUBSET Item /\ linked' \in SUBSET Item
        BY <3>1, <3>3, UnlinkType
      <4> QED BY <1>18, <4>1 DEF HitStore, PCs, LockedPCs
    <3> QED BY <1>18, <3>2, <3>3 DEF HitStore
  <2>2. Shape(v)'
    BY <1>18 DEF HitStore, do_item_unlink, refcount_decr, Shape, HasIt, LookupOps, StoreOps
  <2> QED BY <2>1, <2>2
<1>19. CASE AllocInside(v)
  <2>1. TypeOK'
    BY <1>19, AllocType DEF AllocInside, PCs, LockedPCs, Ops, LookupOps, StoreOps, Shape, HasIt
  <2>2. Shape(v)'
    BY <1>19 DEF AllocInside, do_item_alloc, Shape, HasIt, LookupOps, StoreOps
  <2> QED BY <2>1, <2>2
<1>20. CASE ReplaceUnlinks(v)
  <2>1. TypeOK'
    BY <1>20, UnlinkType DEF ReplaceUnlinks, PCs, LockedPCs, Ops, LookupOps, StoreOps, Shape, HasIt
  <2>2. Shape(v)'
    BY <1>20 DEF ReplaceUnlinks, do_item_unlink, refcount_decr, Shape, HasIt, LookupOps, StoreOps
  <2> QED BY <2>1, <2>2
<1>21. CASE ReplaceLinks(v)
  <2>1. TypeOK'
    <3> DEFINE r == <<v, IF op[v] \in {"append", "incr"} THEN "new_it" ELSE "item">>
    <3>0. ref[r] # NoItem
      BY <1>21 DEF ReplaceLinks, Shape, StoreOps
    <3>1. PICK i \in Item : do_item_link(i)
      BY <1>21, <3>0 DEF ReplaceLinks
    <3>2. refcount' \in [Item -> 0..RefMax] /\ linked' \in SUBSET Item
      BY <3>1, LinkType
    <3> QED BY <1>21, <3>2 DEF ReplaceLinks, PCs, LockedPCs
  <2>2. Shape(v)'
    BY <1>21 DEF ReplaceLinks, do_item_link, refcount_incr, Shape, HasIt, LookupOps, StoreOps
  <2> QED BY <2>1, <2>2
<1>22. CASE ReleaseLocal(v)
  <2>1. TypeOK'
    BY <1>22, RemoveType DEF ReleaseLocal, PCs, LockedPCs, Ops, LookupOps, StoreOps, Shape, HasIt
  <2>2. Shape(v)'
    <3>1. PICK n \in {"it", "new_it"} : ref' = [ref EXCEPT ![<<v, n>>] = NoItem]
      BY <1>22 DEF ReleaseLocal, do_item_remove
    <3>2. ref'[<<v, "item">>] = ref[<<v, "item">>]
      BY <3>1
    <3>3. ref'[<<v, "new_it">>] # NoItem => ref[<<v, "new_it">>] # NoItem
      BY <3>1
    <3> QED BY <1>22, <3>2, <3>3 DEF ReleaseLocal, Shape, HasIt
  <2> QED BY <2>1, <2>2
<1>23. CASE UnlockAfterStore(v)
  <2>1. TypeOK'
    BY <1>23 DEF UnlockAfterStore, item_unlock, PCs, LockedPCs, Ops, LookupOps, StoreOps, Shape, HasIt
  <2>2. Shape(v)'
    BY <1>23 DEF UnlockAfterStore, item_unlock, Shape, HasIt, LookupOps, StoreOps
  <2> QED BY <2>1, <2>2
<1>24. CASE ReleaseLast(v)
  <2>1. CASE pc[v] = "rel_it" /\ item_remove(<<v, "it">>)
    <3>1. ref[<<v, "it">>] \in Item
      BY <2>1 DEF Shape, HasIt
    <3>2. /\ refcount' \in [Item -> 0..RefMax]
          /\ slabbed' \in SUBSET Item /\ ref' \in [Refs -> Item \cup {NoItem}]
      BY <2>1, <3>1, RemoveType DEF item_remove
    <3>3. TypeOK'
      BY <1>24, <3>2 DEF ReleaseLast, PCs
    <3>4. ref' = [ref EXCEPT ![<<v, "it">>] = NoItem]
      BY <2>1 DEF item_remove, do_item_remove
    <3> QED BY <1>24, <2>1, <3>3, <3>4 DEF ReleaseLast, Shape, HasIt, StoreOps
  <2>2. CASE pc[v] = "rel_item" /\ item_remove(<<v, "item">>)
    <3>0. ref[<<v, "item">>] # NoItem
      BY <2>2 DEF Shape
    <3>1. ref[<<v, "item">>] \in Item
      BY <3>0
    <3>2. /\ refcount' \in [Item -> 0..RefMax]
          /\ slabbed' \in SUBSET Item /\ ref' \in [Refs -> Item \cup {NoItem}]
      BY <2>2, <3>1, RemoveType DEF item_remove
    <3>3. TypeOK'
      BY <1>24, <3>2 DEF ReleaseLast, PCs
    <3>4. ref' = [ref EXCEPT ![<<v, "item">>] = NoItem]
      BY <2>2 DEF item_remove, do_item_remove
    <3> QED BY <1>24, <2>2, <3>3, <3>4 DEF ReleaseLast, Shape, HasIt, StoreOps
  <2> QED BY <1>24, <2>1, <2>2 DEF ReleaseLast
<1>25. CASE ReplySent(v)
  <2>1. TypeOK'
    BY <1>25, RemoveType DEF ReplySent, item_remove, PCs, LockedPCs, Ops, LookupOps, StoreOps, Shape, HasIt
  <2>2. Shape(v)'
    BY <1>25 DEF ReplySent, item_remove, do_item_remove, refcount_decr, Shape, HasIt, LookupOps, StoreOps
  <2> QED BY <2>1, <2>2
<1>26. CASE FlushBegin(v)
  <2>1. TypeOK'
    BY <1>26 DEF FlushBegin, PCs, LockedPCs, Ops, LookupOps, StoreOps, Shape, HasIt
  <2>2. Shape(v)'
    BY <1>26 DEF FlushBegin, Shape, HasIt, LookupOps, StoreOps
  <2> QED BY <2>1, <2>2
<1>27. CASE FlushItem(v)
  <2>1. TypeOK'
    BY <1>27, RefMaxPositive DEF FlushItem, refcount_decr, PCs, LockedPCs, Ops, LookupOps, StoreOps, Shape, HasIt
  <2>2. Shape(v)'
    BY <1>27 DEF FlushItem, refcount_decr, Shape, HasIt, LookupOps, StoreOps
  <2> QED BY <2>1, <2>2
<1>28. CASE FlushEnd(v)
  <2>1. TypeOK'
    BY <1>28 DEF FlushEnd, PCs, LockedPCs, Ops, LookupOps, StoreOps, Shape, HasIt
  <2>2. Shape(v)'
    BY <1>28 DEF FlushEnd, Shape, HasIt, LookupOps, StoreOps
  <2> QED BY <2>1, <2>2
<1> QED BY <1>1, <1>2, <1>3, <1>4, <1>5, <1>6, <1>7, <1>8, <1>9, <1>10, <1>11, <1>12, <1>13, <1>14, <1>15, <1>16, <1>17, <1>18, <1>19, <1>20, <1>21, <1>22, <1>23, <1>24, <1>25, <1>26, <1>27, <1>28 DEF Lookup, Finish

\* Every step keeps the types and the reference shape, in either lock mode and
\* with flush_all.
LEMMA TInvStep ==
  ASSUME TInv, NEW v \in Worker, Lookup(v) \/ Finish(v)
  PROVE  TInv'
<1>1. TypeOK' /\ Shape(v)'
  BY StepKeepsShape DEF TInv
<1>2. ASSUME NEW u \in Worker \ {v} PROVE Shape(u)'
  BY StepIsLocal DEF TInv, TypeOK, Local, Shape
<1> QED BY <1>1, <1>2 DEF TInv

LEMMA TInvNext == TInv /\ [Next]_vars => TInv'
<1> SUFFICES ASSUME TInv, [Next]_vars PROVE TInv'
  OBVIOUS
<1>1. CASE UNCHANGED vars
  BY <1>1 DEF vars, TInv, TypeOK, Shape
<1>2. CASE CrawlerReclaims
  <2>1. TypeOK'
    BY <1>2, RefMaxPositive DEF CrawlerReclaims, TInv, TypeOK, locks
  <2>2. UNCHANGED <<ref, found, pc, op>>
    BY <1>2 DEF CrawlerReclaims
  <2> QED BY <2>1, <2>2 DEF TInv, Shape
<1> QED BY <1>1, <1>2, TInvStep DEF Next

\* The variables keep their types in every behaviour: the refcount stays in its
\* field, and no primitive of items.c is ever applied to a NULL pointer.
THEOREM TypeCorrect == Spec => []TypeOK
<1>1. TInv => TypeOK
  BY DEF TInv
<1> QED BY <1>1, TInvInit, TInvNext, PTL DEF Spec

-----------------------------------------------------------------------------
(* Ownership of the item locks *)

Owns(w) ==
  \A l \in Stripe \cup {GlobalLock} :
    lock[l] = w <=> pc[w] \in LockedPCs /\ l = LockOf(opkey[w])

LInv == \A w \in Worker : Owns(w)

Acquires(v) ==
  /\ pc[v] \notin LockedPCs /\ pc'[v] \in LockedPCs /\ opkey'[v] = opkey[v]
  /\ lock[LockOf(opkey[v])] = NoWorker
  /\ lock' = [lock EXCEPT ![LockOf(opkey[v])] = v]

Releases(v) ==
  /\ pc[v] \in LockedPCs /\ pc'[v] \notin LockedPCs
  /\ lock' = [lock EXCEPT ![LockOf(opkey[v])] = NoWorker]

Keeps(v) ==
  /\ pc[v] \in LockedPCs <=> pc'[v] \in LockedPCs
  /\ pc[v] \in LockedPCs => opkey'[v] = opkey[v]
  /\ lock' = lock

\* Every step of a thread takes its item lock, gives it back, or does neither.
LEMMA LockStep ==
  ASSUME TypeOK, NEW v \in Worker, Lookup(v) \/ Finish(v)
  PROVE  Acquires(v) \/ Releases(v) \/ Keeps(v)
<1> USE DEF TypeOK, Goto, locks, LockedPCs
<1>1. CASE StartLookup(v)
  BY <1>1 DEF StartLookup, Keeps
<1>2. CASE StartStore(v)
  BY <1>2 DEF StartStore, Keeps
<1>3. CASE StartStoreFails(v)
  BY <1>3 DEF StartStoreFails, Keeps
<1>4. CASE NreadComplete(v)
  BY <1>4 DEF NreadComplete, Keeps
<1>5. CASE ItemLock(v)
  BY <1>5 DEF ItemLock, Acquires, item_lock
<1>6. CASE AssocFind(v)
  BY <1>6 DEF AssocFind, Keeps
<1>7. CASE TakeReference(v)
  BY <1>7 DEF TakeReference, Keeps
<1>8. CASE CheckLive(v)
  BY <1>8 DEF CheckLive, Keeps
<1>9. CASE DropExpired(v)
  BY <1>9 DEF DropExpired, Keeps
<1>10. CASE MissEnds(v)
  BY <1>10 DEF MissEnds, Releases, item_unlock
<1>11. CASE MissLinks(v)
  BY <1>11 DEF MissLinks, Keeps
<1>12. CASE HitGet(v)
  BY <1>12 DEF HitGet, Releases, item_unlock
<1>13. CASE HitReturns(v)
  BY <1>13 DEF HitReturns, Releases, item_unlock
<1>14. CASE ItemUnlinkLock(v)
  BY <1>14 DEF ItemUnlinkLock, Acquires, item_lock
<1>15. CASE ItemUnlink(v)
  BY <1>15 DEF ItemUnlink, Releases, item_unlock
<1>16. CASE HitIncr(v)
  BY <1>16 DEF HitIncr, Keeps
<1>17. CASE IncrInPlace(v)
  BY <1>17 DEF IncrInPlace, Keeps
<1>18. CASE HitStore(v)
  BY <1>18 DEF HitStore, Keeps
<1>19. CASE AllocInside(v)
  BY <1>19 DEF AllocInside, Keeps
<1>20. CASE ReplaceUnlinks(v)
  BY <1>20 DEF ReplaceUnlinks, Keeps
<1>21. CASE ReplaceLinks(v)
  BY <1>21 DEF ReplaceLinks, Keeps
<1>22. CASE ReleaseLocal(v)
  BY <1>22 DEF ReleaseLocal, Keeps
<1>23. CASE UnlockAfterStore(v)
  BY <1>23 DEF UnlockAfterStore, Releases, item_unlock
<1>24. CASE ReleaseLast(v)
  BY <1>24 DEF ReleaseLast, Keeps
<1>25. CASE ReplySent(v)
  BY <1>25 DEF ReplySent, Keeps
<1>26. CASE FlushBegin(v)
  BY <1>26 DEF FlushBegin, Keeps
<1>27. CASE FlushItem(v)
  BY <1>27 DEF FlushItem, Keeps
<1>28. CASE FlushEnd(v)
  BY <1>28 DEF FlushEnd, Keeps
<1> QED BY <1>1, <1>2, <1>3, <1>4, <1>5, <1>6, <1>7, <1>8, <1>9, <1>10, <1>11, <1>12, <1>13, <1>14, <1>15, <1>16, <1>17, <1>18, <1>19, <1>20, <1>21, <1>22, <1>23, <1>24, <1>25, <1>26, <1>27, <1>28 DEF Lookup, Finish

LEMMA LInvNext == TInv /\ LInv /\ [Next]_vars => LInv'
<1> SUFFICES ASSUME TInv, LInv, [Next]_vars PROVE LInv'
  OBVIOUS
<1> USE WorkerAssumption, StripeAssumption
<1> USE DEF LInv, Owns
<1>0. TypeOK
  BY DEF TInv
<1>1. \A k \in Key : LockOf(k) \in Stripe \cup {GlobalLock}
  BY DEF LockOf
<1>2. CASE CrawlerReclaims \/ UNCHANGED vars
  BY <1>2 DEF CrawlerReclaims, vars, locks, LockOf
<1>3. ASSUME NEW v \in Worker, Lookup(v) \/ Finish(v) PROVE LInv'
  <2>0. Local(v) /\ opkey[v] \in Key
    BY <1>0, <1>3, StepIsLocal DEF TypeOK
  <2>1. ASSUME NEW u \in Worker PROVE Owns(u)'
    <3>1. CASE u = v /\ Acquires(v)
      BY <1>0, <1>1, <2>0, <3>1 DEF TypeOK, Acquires, LockOf
    <3>2. CASE u # v /\ Acquires(v)
      BY <1>0, <1>1, <2>0, <3>2 DEF TypeOK, Acquires, Local, LockOf
    <3>3. CASE u = v /\ Releases(v)
      BY <1>0, <1>1, <2>0, <3>3 DEF TypeOK, Releases, LockOf
    <3>4. CASE u # v /\ Releases(v)
      BY <1>0, <1>1, <2>0, <3>4 DEF TypeOK, Releases, Local, LockOf
    <3>5. CASE Keeps(v)
      BY <1>0, <2>0, <3>5 DEF TypeOK, Keeps, Local, LockOf
    <3> QED BY <1>0, <1>3, <3>1, <3>2, <3>3, <3>4, <3>5, LockStep
  <2> QED BY <2>1
<1> QED BY <1>2, <1>3 DEF Next

\* A thread owns the item lock of its key exactly within the critical sections
\* of items.c and memcached.c, whatever the lock mode, the error returns of a
\* command and concurrent flush_all commands.
THEOREM LocksAreDisciplined == Spec => []LockDiscipline
<1>1. Init => LInv
  BY WorkerAssumption, StripeAssumption DEF Init, LInv, Owns, LockedPCs
<1>2. TInv /\ LInv => LockDiscipline
  BY StripeAssumption DEF TInv, TypeOK, LInv, Owns, LockDiscipline, LockOf
<1> QED BY <1>1, <1>2, TInvInit, TInvNext, LInvNext, PTL DEF Spec
-----------------------------------------------------------------------------
(* Reference counts *)

FreeExact == slabbed = {i \in Item : i \notin linked /\ Holders(i) = {}}

\* What a command refers to carries its key.
KeysFit(w) ==
  /\ \A n \in {"it", "item", "new_it"} :
       ref[<<w, n>>] # NoItem => key[ref[<<w, n>>]] = opkey[w]
  /\ found[w] # NoItem => found[w] \in linked /\ key[found[w]] = opkey[w]

\* A new item is private to the command until it is linked.
Private(r) == ref[r] \notin linked /\ Holders(ref[r]) = {r}

Fresh(w) ==
  /\ op[w] \in StoreOps /\ pc[w] \in
       {"nread", "lock", "find", "incr", "check", "drop", "hit", "missed", "alloc", "link"}
     => Private(<<w, "item">>)
  /\ ref[<<w, "new_it">>] # NoItem /\ pc[w] \in {"alloc", "link"} => Private(<<w, "new_it">>)

\* With the item lock held, the item found stays linked and is the only one of
\* its key; once it is unlinked, no other takes its place.
Present(w) ==
  /\ pc[w] \in {"check", "hit", "inplace", "alloc"} => ref[<<w, "it">>] \in linked
  /\ pc[w] \in {"drop", "missed", "link"} => \A i \in linked : key[i] # opkey[w]
  /\ pc[w] = "inplace" => Holders(ref[<<w, "it">>]) = {<<w, "it">>}

Command(w) == pc[w] # "flush" /\ KeysFit(w) /\ Fresh(w) /\ Present(w)

MInv ==
  /\ RefcountExact
  /\ FreeExact
  /\ UniqueKey
  /\ \A i \in linked : key[i] \in Key
  /\ \A w \in Worker : Command(w)

\* A reference is gained: r now refers to i.
LEMMA HoldersSet ==
  ASSUME TypeOK, NEW r \in Refs, NEW i \in Item, ref[r] = NoItem,
         ref' = [ref EXCEPT ![r] = i]
  PROVE  /\ r \notin Holders(i) /\ Holders(i)' = Holders(i) \cup {r}
         /\ \A j \in Item \ {i} : Holders(j)' = Holders(j)
  BY ItemAssumption DEF TypeOK, Holders

\* A reference is given up.
LEMMA HoldersClear ==
  ASSUME TypeOK, NEW r \in Refs, NEW i \in Item, ref[r] = i,
         ref' = [ref EXCEPT ![r] = NoItem]
  PROVE  /\ r \in Holders(i) /\ Holders(i)' = Holders(i) \ {r}
         /\ \A j \in Item \ {i} : Holders(j)' = Holders(j)
  BY ItemAssumption DEF TypeOK, Holders

LEMMA HoldersCount ==
  ASSUME NEW i
  PROVE  /\ IsFiniteSet(Holders(i)) /\ Cardinality(Holders(i)) \in Nat
         /\ Cardinality(Holders(i)) < RefMax
         /\ Cardinality(Holders(i)) = 0 <=> Holders(i) = {}
         /\ \A r : r \notin Holders(i) =>
              Cardinality(Holders(i) \cup {r}) = Cardinality(Holders(i)) + 1
         /\ \A r \in Holders(i) : Cardinality(Holders(i) \ {r}) = Cardinality(Holders(i)) - 1
<1>1. IsFiniteSet(Holders(i)) /\ Cardinality(Holders(i)) <= Cardinality(Refs)
  BY RefsFinite, FS_Subset DEF Holders
<1>2. Cardinality(Holders(i)) \in Nat
  BY <1>1, FS_CardinalityType
<1>3. Cardinality(Holders(i)) < RefMax
  BY <1>1, <1>2, RefsFinite, RefMaxAssumption
<1>4. Cardinality(Holders(i)) = 0 <=> Holders(i) = {}
  BY <1>1, FS_EmptySet
<1>5. \A r : r \notin Holders(i) => Cardinality(Holders(i) \cup {r}) = Cardinality(Holders(i)) + 1
  BY <1>1, FS_AddElement
<1>6. \A r \in Holders(i) : Cardinality(Holders(i) \ {r}) = Cardinality(Holders(i)) - 1
  BY <1>1, FS_RemoveElement
<1> QED BY <1>1, <1>2, <1>3, <1>4, <1>5, <1>6

\* The four primitives keep the counts and the free list exact.
LEMMA MemRemove ==
  ASSUME TypeOK, RefcountExact, FreeExact, NEW r \in Refs, NEW i \in Item, ref[r] = i,
         do_item_remove(r), linked' = linked
  PROVE  RefcountExact' /\ FreeExact'
<1>1. /\ r \in Holders(i) /\ Holders(i)' = Holders(i) \ {r}
      /\ \A j \in Item \ {i} : Holders(j)' = Holders(j)
  BY HoldersClear DEF do_item_remove
<1>2. /\ Cardinality(Holders(i)') = Cardinality(Holders(i)) - 1
      /\ Cardinality(Holders(i)) \in Nat /\ Cardinality(Holders(i)) # 0
      /\ Cardinality(Holders(i)') = 0 <=> Holders(i)' = {}
  <2>1. Cardinality(Holders(i)') = 0 <=> Holders(i)' = {}
    BY <1>1, HoldersCount, FS_EmptySet, FS_RemoveElement
  <2> QED BY <1>1, <2>1, HoldersCount
<1>3. refcount' = [refcount EXCEPT ![i] = refcount[i] - 1] /\ refcount[i] > 0
  <2>1. refcount[i] > 0
    BY <1>2 DEF RefcountExact
  <2>2. refcount_decr(refcount[i]) = refcount[i] - 1
    BY <2>1 DEF refcount_decr
  <2> QED BY <2>1, <2>2 DEF do_item_remove
<1>4. RefcountExact'
  <2>1. ASSUME NEW j \in Item
        PROVE  refcount'[j] = Cardinality(Holders(j)') + (IF j \in linked' THEN 1 ELSE 0)
    <3>1. CASE j = i
      BY <1>2, <1>3, <3>1 DEF RefcountExact, TypeOK
    <3>2. CASE j # i
      BY <1>1, <1>3, <3>2 DEF RefcountExact, TypeOK
    <3> QED BY <3>1, <3>2
  <2> QED BY <2>1 DEF RefcountExact
<1>5. slabbed' = IF refcount[i] - 1 = 0 THEN slabbed \cup {i} ELSE slabbed
  BY <1>3 DEF do_item_remove, refcount_decr
<1>6. refcount[i] - 1 = 0 <=> i \notin linked /\ Holders(i)' = {}
  BY <1>1, <1>2 DEF RefcountExact
<1>7. i \notin slabbed
  BY <1>1 DEF FreeExact
<1> QED BY <1>1, <1>4, <1>5, <1>6, <1>7 DEF FreeExact

LEMMA MemUnlink ==
  ASSUME TypeOK, RefcountExact, FreeExact, NEW i \in Item, do_item_unlink(i), ref' = ref
  PROVE  RefcountExact' /\ FreeExact'
<1>1. \A j \in Item : Holders(j)' = Holders(j)
  BY DEF Holders
<1>2. CASE i \notin linked
  BY <1>1, <1>2 DEF do_item_unlink, RefcountExact, FreeExact
<1>3. CASE i \in linked
  <2>1. /\ Cardinality(Holders(i)) \in Nat
        /\ Cardinality(Holders(i)) = 0 <=> Holders(i) = {}
    BY HoldersCount
  <2>2. refcount[i] = Cardinality(Holders(i)) + 1
    BY <1>3 DEF RefcountExact
  <2>a. refcount_decr(refcount[i]) = Cardinality(Holders(i))
    BY <2>1, <2>2 DEF refcount_decr
  <2>3. /\ refcount' = [refcount EXCEPT ![i] = Cardinality(Holders(i))]
        /\ slabbed' = IF Cardinality(Holders(i)) = 0 THEN slabbed \cup {i} ELSE slabbed
        /\ linked' = linked \ {i}
    BY <1>3, <2>a DEF do_item_unlink
  <2>4. RefcountExact'
    BY <1>1, <2>1, <2>3 DEF RefcountExact, TypeOK
  <2> QED BY <1>1, <1>3, <2>1, <2>3, <2>4 DEF FreeExact
<1> QED BY <1>2, <1>3

LEMMA MemLink ==
  ASSUME TypeOK, RefcountExact, FreeExact, NEW i \in Item \ linked, Holders(i) # {},
         do_item_link(i), ref' = ref, slabbed' = slabbed
  PROVE  RefcountExact' /\ FreeExact'
<1>1. \A j \in Item : Holders(j)' = Holders(j)
  BY DEF Holders
<1>2. refcount' = [refcount EXCEPT ![i] = refcount[i] + 1] /\ linked' = linked \cup {i}
  <2>1. refcount[i] < RefMax
    BY HoldersCount DEF RefcountExact
  <2>2. refcount_incr(refcount[i]) = refcount[i] + 1
    BY <2>1, RefMaxPositive DEF refcount_incr, TypeOK
  <2> QED BY <2>2 DEF do_item_link
<1>3. RefcountExact'
  BY <1>1, <1>2, HoldersCount DEF RefcountExact, TypeOK
<1> QED BY <1>1, <1>2, <1>3 DEF FreeExact

LEMMA MemTake ==
  ASSUME TypeOK, RefcountExact, FreeExact, NEW r \in Refs, ref[r] = NoItem,
         NEW i \in linked, linked' = linked, slabbed' = slabbed,
         ref' = [ref EXCEPT ![r] = i],
         refcount' = [refcount EXCEPT ![i] = refcount_incr(@)]
  PROVE  RefcountExact' /\ FreeExact'
<1>0. i \in Item
  BY DEF TypeOK
<1>1. /\ r \notin Holders(i) /\ Holders(i)' = Holders(i) \cup {r}
      /\ \A j \in Item \ {i} : Holders(j)' = Holders(j)
  BY <1>0, HoldersSet
<1>2. /\ Cardinality(Holders(i)') = Cardinality(Holders(i)) + 1
      /\ Cardinality(Holders(i)) \in Nat
  BY <1>1, HoldersCount
<1>3. Cardinality(Holders(i)') < RefMax
  <2>1. Holders(i)' \subseteq Refs
    BY DEF Holders
  <2> QED BY <2>1, RefsFinite, RefMaxAssumption, FS_Subset, FS_CardinalityType
<1>4. refcount[i] = Cardinality(Holders(i)) + 1
  BY <1>0 DEF RefcountExact
<1>5. refcount' = [refcount EXCEPT ![i] = refcount[i] + 1]
  <2>1. refcount_incr(refcount[i]) = refcount[i] + 1
    BY <1>2, <1>3, <1>4 DEF refcount_incr
  <2> QED BY <2>1
<1>6. RefcountExact'
  BY <1>0, <1>1, <1>2, <1>4, <1>5 DEF RefcountExact, TypeOK
<1> QED BY <1>0, <1>1, <1>6 DEF FreeExact

\* A reclaimable item is held by nobody.
LEMMA ReclaimableUnheld ==
  ASSUME TypeOK, RefcountExact, NEW i, NEW h, Reclaimable(i, h)
  PROVE  i \in linked /\ i \in Item /\ refcount[i] = 1 /\ Holders(i) = {}
<1>1. i \in linked /\ i \in Item
  BY DEF Reclaimable, TypeOK
<1>2. refcount[i] = 1
  BY <1>1, RefMaxPositive DEF Reclaimable, refcount_incr, TypeOK
<1>3. Cardinality(Holders(i)) = 0
  BY <1>1, <1>2, HoldersCount DEF RefcountExact
<1> QED BY <1>1, <1>2, <1>3, HoldersCount

LEMMA MemAlloc ==
  ASSUME TypeOK, RefcountExact, FreeExact, NEW r \in Refs, ref[r] = NoItem,
         NEW k, NEW h, NEW i \in Item, do_item_alloc(r, k, h, i)
  PROVE  /\ RefcountExact' /\ FreeExact'
         /\ Holders(i) = {} /\ Holders(i)' = {r}
         /\ \A j \in Item \ {i} : Holders(j)' = Holders(j)
<1>1. Holders(i) = {}
  BY ReclaimableUnheld DEF do_item_alloc, FreeExact
<1>2. Holders(i)' = {r} /\ \A j \in Item \ {i} : Holders(j)' = Holders(j)
  <2>1. ref' = [ref EXCEPT ![r] = i]
    BY DEF do_item_alloc
  <2>2. Holders(i)' = Holders(i) \cup {r} /\ \A j \in Item \ {i} : Holders(j)' = Holders(j)
    BY <2>1, HoldersSet
  <2> QED BY <1>1, <2>2
<1>3. Cardinality(Holders(i)') = 1
  BY <1>2, FS_Singleton
<1>4. refcount' = [refcount EXCEPT ![i] = 1] /\ linked' = linked \ {i} /\ slabbed' = slabbed \ {i}
  BY DEF do_item_alloc
<1>5. RefcountExact'
  <2>1. ASSUME NEW j \in Item
        PROVE  refcount'[j] = Cardinality(Holders(j)') + (IF j \in linked' THEN 1 ELSE 0)
    <3>1. CASE j = i
      BY <1>3, <1>4, <3>1 DEF TypeOK
    <3>2. CASE j # i
      BY <1>2, <1>4, <3>2 DEF RefcountExact, TypeOK
    <3> QED BY <3>1, <3>2
  <2> QED BY <2>1 DEF RefcountExact
<1>6. FreeExact'
  BY <1>2, <1>4 DEF FreeExact
<1> QED BY <1>1, <1>2, <1>5, <1>6

-----------------------------------------------------------------------------
(* One thread's steps do not disturb the command of another *)

\* The setting the safety theorems are about: no expansion of the hash table is
\* under way, and flush_all is disabled (option -F).
Safe == item_lock_type = "granular" /\ ~flush_enabled

Globals ==
  /\ RefcountExact
  /\ FreeExact
  /\ UniqueKey
  /\ \A i \in linked : key[i] \in Key

\* No thread but v is in a critical section for the key of i.
Foreign(i, v) == \A u \in Worker \ {v} : pc[u] \in LockedPCs => key[i] # opkey[u]

LEMMA OwnKeyIsForeign ==
  ASSUME Safe, TInv, LInv, NEW v \in Worker, pc[v] \in LockedPCs,
         NEW i \in Item, key[i] = opkey[v]
  PROVE  Foreign(i, v)
  BY WorkerAssumption, StripeAssumption
  DEF Safe, TInv, TypeOK, LInv, Owns, Foreign, LockOf

LEMMA ReclaimableIsForeign ==
  ASSUME Safe, TInv, LInv, Globals, NEW v, NEW i, NEW h, Reclaimable(i, h)
  PROVE  Foreign(i, v)
  BY WorkerAssumption, StripeAssumption
  DEF Safe, TInv, TypeOK, LInv, Owns, Foreign, LockOf, Reclaimable, TryLockSucceeds, Globals

\* What a step of v may do to items others use: unlink and link only under the
\* key's lock, link only its own new item, recycle only what nobody holds, and
\* take a reference only to an unheld chunk, to its own, or under the key's lock.
Benign(v) ==
  /\ Local(v)
  /\ \A i \in Item : i \in linked /\ i \notin linked' => Foreign(i, v)
  /\ \A i \in Item : i \notin linked /\ i \in linked' =>
       Foreign(i, v) /\ \E n \in {"item", "new_it"} : <<v, n>> \in Holders(i)
  /\ \A i \in Item : key'[i] # key[i] => Holders(i) = {} /\ i \notin linked'
  /\ \A i \in Item, r \in Refs : r \in Holders(i)' /\ r \notin Holders(i) =>
       \/ Holders(i) = {}
       \/ i \in linked /\ Foreign(i, v)
       \/ <<v, "it">> \in Holders(i)

LEMMA OthersUndisturbed ==
  ASSUME Safe, TInv, LInv, MInv, linked' \in SUBSET Item,
         NEW v, Benign(v), NEW u \in Worker \ {v}
  PROVE  Command(u)'
<1> DEFINE Names == {"it", "item", "new_it"}
<1>0. /\ pc'[u] = pc[u] /\ op'[u] = op[u] /\ opkey'[u] = opkey[u] /\ found'[u] = found[u]
      /\ \A n \in Names : ref'[<<u, n>>] = ref[<<u, n>>]
  BY DEF Benign, Local
<1>1. Command(u) /\ TypeOK /\ Shape(u)
  BY DEF MInv, TInv
<1>2. \A n \in Names : <<u, n>> \in Refs /\ ref[<<u, n>>] \in Item \cup {NoItem}
  BY <1>1, RefOf DEF TypeOK
<1>3. ASSUME NEW n \in Names, ref[<<u, n>>] # NoItem
      PROVE  key'[ref[<<u, n>>]] = key[ref[<<u, n>>]]
  <2>1. <<u, n>> \in Holders(ref[<<u, n>>]) /\ ref[<<u, n>>] \in Item
    BY <1>2, <1>3 DEF Holders
  <2> QED BY <2>1 DEF Benign
<1>4. ASSUME NEW i \in linked, pc[u] \in LockedPCs, key[i] = opkey[u]
      PROVE  i \in Item /\ i \in linked' /\ key'[i] = key[i]
  <2>1. i \in Item
    BY <1>1, <1>4 DEF TypeOK
  <2> QED BY <1>4, <2>1 DEF Benign, Foreign
<1>5. KeysFit(u)'
  <2>1. found[u] # NoItem => found[u] \in linked' /\ key'[found[u]] = opkey[u]
    BY <1>1, <1>4 DEF Command, KeysFit, Shape, LockedPCs
  <2> QED BY <1>0, <1>1, <1>3, <2>1 DEF Command, KeysFit
<1>6. ASSUME NEW n \in Names, ref[<<u, n>>] # NoItem, Private(<<u, n>>)
      PROVE  Private(<<u, n>>)'
  <2> DEFINE r == <<u, n>>
  <2>1. PICK i \in Item : ref[r] = i
    BY <1>2, <1>6
  <2>2. i \notin linked /\ Holders(i) = {r}
    BY <1>6, <2>1 DEF Private
  <2>3. i \notin linked'
    BY <2>1, <2>2 DEF Benign
  <2>4. Holders(i)' \subseteq {r}
    BY <2>1, <2>2 DEF Benign, Holders
  <2>5. ref'[r] = i
    BY <1>0, <2>1
  <2>6. r \in Holders(i)'
    BY <1>2, <2>5 DEF Holders
  <2> QED BY <2>3, <2>4, <2>5, <2>6 DEF Private, Holders
<1>7. Fresh(u)'
  <2>1. op[u] \in StoreOps /\ pc[u] # "idle" => ref[<<u, "item">>] # NoItem
    BY <1>1 DEF Shape
  <2> QED BY <1>0, <1>1, <1>6, <2>1 DEF Command, Fresh
<1>8. Present(u)'
  <2>1. pc[u] \in {"check", "hit", "inplace", "alloc"} => ref[<<u, "it">>] \in linked'
    BY <1>1, <1>4, ItemAssumption DEF Command, Present, KeysFit, Shape, HasIt, LockedPCs, TypeOK
  <2>2. pc[u] \in {"drop", "missed", "link"} => \A i \in linked' : key'[i] # opkey[u]
    <3> SUFFICES ASSUME pc[u] \in {"drop", "missed", "link"}, NEW i \in linked'
                 PROVE  key'[i] # opkey[u]
      OBVIOUS
    <3>1. i \in Item
      OBVIOUS
    <3>2. key'[i] = key[i]
      BY <3>1 DEF Benign
    <3>3. CASE i \in linked
      BY <1>1, <3>2, <3>3 DEF Command, Present
    <3>4. CASE i \notin linked
      BY <3>1, <3>2, <3>4 DEF Benign, Foreign, LockedPCs
    <3> QED BY <3>3, <3>4
  <2>3. pc[u] = "inplace" => Holders(ref[<<u, "it">>])' = {<<u, "it">>}
    <3> SUFFICES ASSUME pc[u] = "inplace" PROVE Holders(ref[<<u, "it">>])' = {<<u, "it">>}
      OBVIOUS
    <3>1. PICK i \in Item : ref[<<u, "it">>] = i
      BY <1>1 DEF Shape, HasIt
    <3>2. i \in linked /\ key[i] = opkey[u] /\ Holders(i) = {<<u, "it">>}
      BY <1>1, <3>1, ItemAssumption DEF Command, Present, KeysFit
    <3>3. ~Foreign(i, v)
      BY <3>2 DEF Foreign, LockedPCs
    <3>4. <<v, "it">> # <<u, "it">>
      OBVIOUS
    <3>5. Holders(i)' \subseteq {<<u, "it">>}
      BY <3>2, <3>3, <3>4 DEF Benign, Holders
    <3>6. ref'[<<u, "it">>] = i
      BY <1>0, <3>1
    <3> QED BY <1>2, <3>5, <3>6 DEF Holders
  <2> QED BY <1>0, <2>1, <2>2, <2>3 DEF Present
<1> QED BY <1>0, <1>1, <1>5, <1>7, <1>8 DEF Command

-----------------------------------------------------------------------------
(* The kinds of steps a command is made of *)

\* A step that touches neither memory nor references.
LEMMA ControlStep ==
  ASSUME Globals, NEW v, Local(v), UNCHANGED <<refcount, linked, slabbed, key, ref>>
  PROVE  Benign(v) /\ Globals'
<1>1. \A i : Holders(i)' = Holders(i)
  BY DEF Holders
<1>2. Benign(v)
  BY <1>1 DEF Benign
<1> QED BY <1>1, <1>2 DEF Globals, RefcountExact, FreeExact, UniqueKey

LEMMA UnlinkStep ==
  ASSUME TypeOK, Globals, NEW v, Local(v), NEW i \in Item, Foreign(i, v),
         do_item_unlink(i), UNCHANGED <<key, ref>>
  PROVE  Benign(v) /\ Globals'
<1>1. \A j : Holders(j)' = Holders(j)
  BY DEF Holders
<1>2. linked' = linked \ {i}
  BY DEF do_item_unlink
<1>3. Benign(v)
  BY <1>1, <1>2 DEF Benign
<1>4. RefcountExact' /\ FreeExact'
  BY MemUnlink DEF Globals
<1> QED BY <1>2, <1>3, <1>4 DEF Globals, UniqueKey

LEMMA LinkStep ==
  ASSUME TypeOK, Globals, NEW v \in Worker, Local(v), NEW n \in {"item", "new_it"},
         NEW i \in Item, ref[<<v, n>>] = i, Private(<<v, n>>), Foreign(i, v),
         key[i] \in Key, \A j \in linked : key[j] # key[i],
         do_item_link(i), UNCHANGED <<slabbed, key, ref>>
  PROVE  Benign(v) /\ Globals'
<1>1. \A j : Holders(j)' = Holders(j)
  BY DEF Holders
<1>2. linked' = linked \cup {i} /\ i \notin linked /\ Holders(i) = {<<v, n>>}
  BY DEF do_item_link, Private
<1>3. Benign(v)
  BY <1>1, <1>2 DEF Benign
<1>4. RefcountExact' /\ FreeExact'
  BY <1>2, MemLink DEF Globals
<1> QED BY <1>2, <1>3, <1>4 DEF Globals, UniqueKey

LEMMA RemoveStep ==
  ASSUME TypeOK, Globals, NEW v, Local(v), NEW r \in Refs, ref[r] # NoItem,
         do_item_remove(r), UNCHANGED <<linked, key>>
  PROVE  Benign(v) /\ Globals'
<1>1. PICK i \in Item : ref[r] = i
  BY DEF TypeOK
<1>2. /\ Holders(i)' = Holders(i) \ {r}
      /\ \A j \in Item \ {i} : Holders(j)' = Holders(j)
  BY <1>1, HoldersClear DEF do_item_remove
<1>3. Benign(v)
  BY <1>2 DEF Benign
<1>4. RefcountExact' /\ FreeExact'
  BY <1>1, MemRemove DEF Globals
<1> QED BY <1>3, <1>4 DEF Globals, UniqueKey

LEMMA TakeStep ==
  ASSUME TypeOK, Globals, NEW v, Local(v), NEW r \in Refs, ref[r] = NoItem,
         NEW i \in linked, Foreign(i, v), ref' = [ref EXCEPT ![r] = i],
         refcount' = [refcount EXCEPT ![i] = refcount_incr(@)],
         UNCHANGED <<linked, slabbed, key>>
  PROVE  Benign(v) /\ Globals'
<1>1. i \in Item
  BY DEF TypeOK
<1>2. \A j \in Item \ {i} : Holders(j)' = Holders(j)
  BY <1>1, HoldersSet
<1>3. Benign(v)
  BY <1>1, <1>2 DEF Benign
<1>4. RefcountExact' /\ FreeExact'
  BY MemTake DEF Globals
<1> QED BY <1>3, <1>4 DEF Globals, UniqueKey

LEMMA AllocStep ==
  ASSUME Safe, TInv, LInv, Globals, NEW v \in Worker, Local(v), NEW r \in Refs, ref[r] = NoItem,
         NEW k \in Key, NEW h, NEW i \in Item, do_item_alloc(r, k, h, i)
  PROVE  /\ Benign(v) /\ Globals'
         /\ ref' = [ref EXCEPT ![r] = i] /\ Private(r)' /\ key'[i] = k
         /\ linked' = linked \ {i} /\ i \notin {ref[q] : q \in Refs}
         /\ \A j \in Item \ {i} : Holders(j)' = Holders(j) /\ key'[j] = key[j]
         /\ Foreign(i, v) \/ i \notin linked
<1>0. TypeOK
  BY DEF TInv
<1>1. /\ RefcountExact' /\ FreeExact'
      /\ Holders(i) = {} /\ Holders(i)' = {r}
      /\ \A j \in Item \ {i} : Holders(j)' = Holders(j)
  BY <1>0, MemAlloc DEF Globals
<1>2. /\ linked' = linked \ {i} /\ key' = [key EXCEPT ![i] = k]
      /\ ref' = [ref EXCEPT ![r] = i]
  BY DEF do_item_alloc
<1>3. i \in linked => Foreign(i, v)
  <2>1. i \in linked => Reclaimable(i, h)
    BY DEF do_item_alloc, Globals, FreeExact
  <2> QED BY <2>1, ReclaimableIsForeign
<1>4. /\ key'[i] = k
      /\ \A j \in Item \ {i} : key'[j] = key[j]
  BY <1>0, <1>2 DEF TypeOK
<1>5. Benign(v)
  BY <1>1, <1>2, <1>3, <1>4 DEF Benign
<1>6. UniqueKey' /\ \A j \in linked' : key'[j] \in Key
  BY <1>0, <1>2, <1>4 DEF Globals, UniqueKey, TypeOK
<1>7. Private(r)'
  <2>1. ref'[r] = i
    BY <1>0, <1>2 DEF TypeOK
  <2> QED BY <1>1, <1>2, <2>1 DEF Private, Holders
<1>8. i \notin {ref[q] : q \in Refs}
  BY <1>1 DEF Holders
<1> QED BY <1>1, <1>2, <1>3, <1>4, <1>5, <1>6, <1>7, <1>8 DEF Globals

\* A reference moves from it to a reply slot.
LEMMA MoveStep ==
  ASSUME TypeOK, Globals, NEW v \in Worker, Local(v), NEW t \in Slot, ref[<<v, t>>] = NoItem,
         ref[<<v, "it">>] # NoItem, UNCHANGED <<refcount, linked, slabbed, key>>,
         ref' = [ref EXCEPT ![<<v, t>>] = ref[<<v, "it">>], ![<<v, "it">>] = NoItem]
  PROVE  Benign(v) /\ Globals'
<1> DEFINE a == <<v, "it">>
           b == <<v, t>>
<1>1. a \in Refs /\ b \in Refs /\ a # b
  BY RefOf, SlotAssumption
<1>2. PICK i \in Item : ref[a] = i
  BY <1>1 DEF TypeOK
<1>3. /\ a \in Holders(i) /\ b \notin Holders(i)
      /\ Holders(i)' = (Holders(i) \ {a}) \cup {b}
      /\ \A j \in Item \ {i} : Holders(j)' = Holders(j)
  BY <1>1, <1>2, ItemAssumption DEF TypeOK, Holders
<1>4. Benign(v)
  BY <1>3 DEF Benign
<1>5. Cardinality(Holders(i)') = Cardinality(Holders(i))
  <2>1. /\ IsFiniteSet(Holders(i) \ {a})
        /\ Cardinality(Holders(i) \ {a}) = Cardinality(Holders(i)) - 1
        /\ Cardinality(Holders(i)) \in Nat
    BY <1>3, HoldersCount, FS_RemoveElement
  <2>2. Cardinality((Holders(i) \ {a}) \cup {b}) = Cardinality(Holders(i) \ {a}) + 1
    BY <1>3, <2>1, FS_AddElement
  <2> QED BY <1>3, <2>1, <2>2
<1>6. RefcountExact'
  BY <1>3, <1>5 DEF Globals, RefcountExact
<1>7. FreeExact'
  BY <1>3 DEF Globals, FreeExact
<1> QED BY <1>4, <1>6, <1>7 DEF Globals, UniqueKey

LEMMA StillPrivate ==
  ASSUME UNCHANGED ref, linked' \subseteq linked
  PROVE  /\ \A r : Private(r) => Private(r)'
         /\ \A r : Holders(ref[r])' = Holders(ref[r])
  BY DEF Private, Holders

\* A reference r that is cleared or set elsewhere leaves a private item private.
LEMMA PrivateKept ==
  ASSUME TypeOK, NEW q \in Refs, NEW r \in Refs, q # r, Private(q), ref[q] # NoItem,
         NEW x, x # ref[q], ref' = [ref EXCEPT ![r] = x], linked' \subseteq linked
  PROVE  Private(q)'
  BY DEF TypeOK, Private, Holders

-----------------------------------------------------------------------------
(* Every step keeps MInv *)

LEMMA StepIsBenign ==
  ASSUME Safe, TInv, LInv, MInv, NEW v \in Worker, Lookup(v) \/ Finish(v)
  PROVE  Benign(v) /\ Globals' /\ Command(v)'
<1> DEFINE it == <<v, "it">>
           item == <<v, "item">>
           new_it == <<v, "new_it">>
<1>a. /\ TypeOK /\ Globals /\ Shape(v) /\ Local(v) /\ opkey[v] \in Key
      /\ pc[v] # "flush" /\ KeysFit(v) /\ Fresh(v) /\ Present(v)
  BY StepIsLocal DEF TInv, MInv, Globals, Command, TypeOK
<1>c. it \in Refs /\ item \in Refs /\ new_it \in Refs /\ it # item /\ it # new_it /\ item # new_it
  BY RefOf
<1> HIDE DEF it, item, new_it
<1>d. pc[v] \in LockedPCs => \A i \in Item : key[i] = opkey[v] => Foreign(i, v)
  BY OwnKeyIsForeign
<1> USE DEF Command
<1>1. CASE StartLookup(v)
  <2>1. UNCHANGED <<refcount, linked, slabbed, key, ref>>
    BY <1>1 DEF StartLookup, memory
  <2>2. Benign(v) /\ Globals'
    BY <1>a, <2>1, ControlStep
  <2>3. KeysFit(v)'
    BY <1>a, <1>1, <2>1 DEF StartLookup, Goto, KeysFit, Shape, HasIt, StoreOps, LookupOps, TypeOK
  <2>4. Fresh(v)'
    BY <1>a, <1>1, <2>1, StillPrivate DEF StartLookup, Goto, Fresh, Shape, StoreOps, LookupOps, TypeOK
  <2>5. Present(v)' /\ pc'[v] # "flush"
    BY <1>a, <1>1, <2>1, StillPrivate DEF StartLookup, Goto, Present, TypeOK
  <2> QED BY <2>2, <2>3, <2>4, <2>5
<1>2. CASE StartStore(v)
  <2>1. PICK k \in Key, i \in Item :
          do_item_alloc(item, k, NoKey, i) /\ opkey' = [opkey EXCEPT ![v] = k]
    BY <1>2 DEF StartStore, item
  <2>2. /\ ref[it] = NoItem /\ ref[item] = NoItem /\ ref[new_it] = NoItem
        /\ found[v] = NoItem /\ found' = found /\ pc'[v] = "nread"
    BY <1>a, <1>2 DEF StartStore, Shape, HasIt, it, item, new_it, TypeOK, Goto
  <2>3. /\ Benign(v) /\ Globals' /\ ref' = [ref EXCEPT ![item] = i]
        /\ Private(item)' /\ key'[i] = k
    BY <1>a, <1>c, <2>1, <2>2, AllocStep
  <2>4. ref'[it] = NoItem /\ ref'[item] = i /\ ref'[new_it] = NoItem /\ opkey'[v] = k
    BY <1>a, <1>c, <2>1, <2>2, <2>3 DEF TypeOK
  <2>5. KeysFit(v)' /\ Fresh(v)'
    BY <2>2, <2>3, <2>4 DEF KeysFit, Fresh, it, item, new_it
  <2> QED BY <2>2, <2>3, <2>5 DEF Present
<1>3. CASE StartStoreFails(v)
  <2>1. UNCHANGED <<refcount, linked, slabbed, key, ref>>
    BY <1>3 DEF StartStoreFails, memory
  <2>2. Benign(v) /\ Globals'
    BY <1>a, <2>1, ControlStep
  <2>3. KeysFit(v)'
    BY <1>a, <1>3, <2>1 DEF StartStoreFails, Goto, KeysFit, Shape, HasIt, StoreOps, LookupOps, TypeOK
  <2>4. Fresh(v)'
    BY <1>a, <1>3, <2>1, StillPrivate DEF StartStoreFails, Goto, Fresh, Shape, StoreOps, LookupOps, TypeOK
  <2>5. Present(v)' /\ pc'[v] # "flush"
    BY <1>a, <1>3, <2>1, StillPrivate DEF StartStoreFails, Goto, Present, TypeOK
  <2> QED BY <2>2, <2>3, <2>4, <2>5
<1>4. CASE NreadComplete(v)
  <2>1. UNCHANGED <<refcount, linked, slabbed, key, ref>>
    BY <1>4 DEF NreadComplete, memory
  <2>2. Benign(v) /\ Globals'
    BY <1>a, <2>1, ControlStep
  <2>3. KeysFit(v)'
    BY <1>a, <1>4, <2>1 DEF NreadComplete, Goto, KeysFit, Shape, HasIt, StoreOps, LookupOps, TypeOK
  <2>4. Fresh(v)'
    BY <1>a, <1>4, <2>1, StillPrivate DEF NreadComplete, Goto, Fresh, Shape, StoreOps, LookupOps, TypeOK
  <2>5. Present(v)' /\ pc'[v] # "flush"
    BY <1>a, <1>4, <2>1, StillPrivate DEF NreadComplete, Goto, Present, TypeOK
  <2> QED BY <2>2, <2>3, <2>4, <2>5
<1>5. CASE ItemLock(v)
  <2>1. UNCHANGED <<refcount, linked, slabbed, key, ref>>
    BY <1>5 DEF ItemLock, memory
  <2>2. Benign(v) /\ Globals'
    BY <1>a, <2>1, ControlStep
  <2>3. KeysFit(v)'
    BY <1>a, <1>5, <2>1 DEF ItemLock, Goto, KeysFit, Shape, HasIt, StoreOps, LookupOps, TypeOK
  <2>4. Fresh(v)'
    BY <1>a, <1>5, <2>1, StillPrivate DEF ItemLock, Goto, Fresh, Shape, StoreOps, LookupOps, TypeOK
  <2>5. Present(v)' /\ pc'[v] # "flush"
    BY <1>a, <1>5, <2>1, StillPrivate DEF ItemLock, Goto, Present, TypeOK
  <2> QED BY <2>2, <2>3, <2>4, <2>5
<1>6. CASE AssocFind(v)
  <2>1. UNCHANGED <<refcount, linked, slabbed, key, ref>>
    BY <1>6 DEF AssocFind, memory
  <2>2. Benign(v) /\ Globals'
    BY <1>a, <2>1, ControlStep
  <2>3. KeysFit(v)'
    BY <1>a, <1>6, <2>1 DEF AssocFind, Goto, KeysFit, Shape, HasIt, StoreOps, LookupOps, TypeOK
  <2>4. Fresh(v)'
    BY <1>a, <1>6, <2>1, StillPrivate DEF AssocFind, Goto, Fresh, Shape, StoreOps, LookupOps, TypeOK
  <2>5. Present(v)' /\ pc'[v] # "flush"
    BY <1>a, <1>6, <2>1, StillPrivate DEF AssocFind, Goto, Present, TypeOK
  <2> QED BY <2>2, <2>3, <2>4, <2>5
<1>7. CASE TakeReference(v)
  <2>1. PICK i \in linked : found[v] = i /\ i \in Item /\ key[i] = opkey[v]
    BY <1>a, <1>7 DEF TakeReference, Shape, KeysFit, TypeOK
  <2>2. ref[it] = NoItem
    BY <1>a, <1>7 DEF TakeReference, Shape, HasIt, it
  <2>3. /\ ref' = [ref EXCEPT ![it] = i] /\ refcount' = [refcount EXCEPT ![i] = refcount_incr(@)]
        /\ UNCHANGED <<linked, slabbed, key, op, opkey>>
        /\ pc'[v] = "check" /\ found'[v] = NoItem
    BY <1>a, <1>7, <2>1 DEF TakeReference, it, TypeOK, Goto
  <2>4. Benign(v) /\ Globals'
    <3>1. Foreign(i, v)
      BY <1>d, <2>1, <1>7 DEF TakeReference, LockedPCs
    <3> QED BY <1>a, <1>c, <2>1, <2>2, <2>3, <3>1, TakeStep
  <2>5. ref'[it] = i /\ ref'[item] = ref[item] /\ ref'[new_it] = ref[new_it]
    BY <1>a, <1>c, <2>3 DEF TypeOK
  <2>6. KeysFit(v)'
    BY <1>a, <2>1, <2>3, <2>5 DEF KeysFit, it, item, new_it
  <2>7. Fresh(v)'
    <3>1. op[v] \in StoreOps => Private(item) /\ ref[item] # NoItem /\ ref[new_it] = NoItem
      BY <1>a, <1>7 DEF TakeReference, Fresh, Shape, item, new_it
    <3>2. op[v] \in StoreOps => Private(item)'
      BY <1>a, <1>c, <2>1, <2>3, <3>1, PrivateKept DEF Private
    <3>3. ref[new_it] = NoItem
      BY <1>a, <1>7 DEF TakeReference, Shape, new_it
    <3> QED BY <2>3, <2>5, <3>2, <3>3 DEF Fresh, item, new_it
  <2>8. Present(v)'
    BY <2>1, <2>3, <2>5 DEF Present, it
  <2> QED BY <2>3, <2>4, <2>6, <2>7, <2>8
<1>8. CASE CheckLive(v)
  <2>1. CASE Goto(v, "hit") /\ UNCHANGED memory
    <3>1. UNCHANGED <<refcount, linked, slabbed, key, ref, found, op, opkey>>
      BY <1>8, <2>1 DEF CheckLive, memory
    <3>2. Benign(v) /\ Globals'
      BY <1>a, <3>1, ControlStep
    <3>3. KeysFit(v)'
      BY <1>a, <3>1 DEF KeysFit
    <3>4. Fresh(v)'
      BY <1>a, <1>8, <2>1, <3>1, StillPrivate DEF CheckLive, Goto, Fresh, Shape, TypeOK
    <3>5. Present(v)' /\ pc'[v] # "flush"
      BY <1>a, <1>8, <2>1, <3>1, StillPrivate DEF CheckLive, Goto, Present, TypeOK
    <3> QED BY <3>2, <3>3, <3>4, <3>5
  <2>2. CASE do_item_unlink(ref[<<v, "it">>]) /\ Goto(v, "drop") /\ UNCHANGED key
    <3>1. PICK i \in Item : ref[it] = i /\ key[i] = opkey[v] /\ do_item_unlink(i)
      BY <1>a, <1>8, <2>2, ItemAssumption DEF CheckLive, Shape, HasIt, KeysFit, it
    <3>2. UNCHANGED <<key, ref, found, op, opkey>> /\ pc'[v] = "drop" /\ linked' = linked \ {i}
      BY <1>a, <1>8, <2>2, <3>1 DEF CheckLive, Goto, TypeOK, do_item_unlink
    <3>3. Benign(v) /\ Globals'
      <4>1. Foreign(i, v)
        BY <1>d, <3>1, <1>8, <2>2 DEF CheckLive, LockedPCs
      <4> QED BY <1>a, <3>1, <3>2, <4>1, UnlinkStep
    <3>4. KeysFit(v)'
      BY <1>a, <1>8, <2>2, <3>2 DEF CheckLive, KeysFit, Shape
    <3>5. Fresh(v)'
      BY <1>a, <1>8, <2>2, <3>2, StillPrivate DEF CheckLive, Fresh, Shape, StoreOps
    <3>6. Present(v)'
      <4>1. i \in linked => \A j \in linked' : key[j] # opkey[v]
        BY <1>a, <3>1, <3>2 DEF Globals, UniqueKey
      <4> QED BY <1>a, <1>8, <2>2, <3>1, <3>2, <4>1 DEF CheckLive, Present, it
    <3> QED BY <3>2, <3>3, <3>4, <3>5, <3>6
  <2> QED BY <1>8, <2>1, <2>2 DEF CheckLive
<1>9. CASE DropExpired(v)
  <2>1. ref[it] # NoItem /\ do_item_remove(it) /\ ref' = [ref EXCEPT ![it] = NoItem]
    BY <1>a, <1>9, ItemAssumption DEF DropExpired, Shape, HasIt, it, do_item_remove
  <2>2. UNCHANGED <<linked, key, found, op, opkey>> /\ pc'[v] = "missed"
    BY <1>a, <1>9 DEF DropExpired, Goto, TypeOK
  <2>3. Benign(v) /\ Globals'
    BY <1>a, <1>c, <2>1, <2>2, RemoveStep
  <2>4. ref'[it] = NoItem /\ ref'[item] = ref[item] /\ ref'[new_it] = ref[new_it]
    BY <1>a, <1>c, <2>1 DEF TypeOK
  <2>5. KeysFit(v)'
    BY <1>a, <2>2, <2>4 DEF KeysFit, it, item, new_it
  <2>6. Fresh(v)'
    <3>1. op[v] \in StoreOps => Private(item) /\ ref[item] # NoItem
      BY <1>a, <1>9 DEF DropExpired, Fresh, Shape, item
    <3>2. op[v] \in StoreOps => Private(item)'
      BY <1>a, <1>c, <2>1, <2>2, <3>1, PrivateKept
    <3> QED BY <2>2, <2>4, <3>2 DEF Fresh, item, new_it
  <2>7. Present(v)'
    BY <1>a, <1>9, <2>2 DEF DropExpired, Present
  <2> QED BY <2>2, <2>3, <2>5, <2>6, <2>7
<1>10. CASE MissEnds(v)
  <2>1. UNCHANGED <<refcount, linked, slabbed, key, ref>>
    BY <1>10 DEF MissEnds, memory
  <2>2. Benign(v) /\ Globals'
    BY <1>a, <2>1, ControlStep
  <2>3. KeysFit(v)'
    BY <1>a, <1>10, <2>1 DEF MissEnds, Goto, KeysFit, Shape, HasIt, StoreOps, LookupOps, TypeOK
  <2>4. Fresh(v)'
    BY <1>a, <1>10, <2>1, StillPrivate DEF MissEnds, Goto, Fresh, Shape, StoreOps, LookupOps, TypeOK
  <2>5. Present(v)' /\ pc'[v] # "flush"
    BY <1>a, <1>10, <2>1, StillPrivate DEF MissEnds, Goto, Present, TypeOK
  <2> QED BY <2>2, <2>3, <2>4, <2>5
<1>11. CASE MissLinks(v)
  <2> DEFINE n == "item"
  <2>1. /\ n \in {"item", "new_it"} /\ Private(<<v, n>>) /\ ref[<<v, n>>] # NoItem
        /\ do_item_link(ref[<<v, n>>])
    BY <1>a, <1>11 DEF MissLinks, Fresh, Shape, StoreOps
  <2>2. PICK i \in Item : ref[<<v, n>>] = i /\ key[i] = opkey[v]
    BY <1>a, <2>1, RefOf DEF TypeOK, KeysFit
  <2>3. Benign(v) /\ Globals'
    <3>1. Foreign(i, v)
      BY <1>d, <2>2, <1>11 DEF MissLinks, LockedPCs
    <3>2. \A j \in linked : key[j] # key[i]
      BY <1>a, <1>11, <2>2 DEF MissLinks, Present
    <3>3. do_item_link(i) /\ UNCHANGED <<slabbed, key, ref>>
      BY <1>11, <2>1, <2>2 DEF MissLinks
    <3> QED BY <1>a, <2>1, <2>2, <3>1, <3>2, <3>3, LinkStep
  <2>4. pc'[v] = "linked" /\ UNCHANGED <<key, ref, found, op, opkey>>
    BY <1>a, <1>11 DEF MissLinks, Goto, TypeOK
  <2>5. found[v] = NoItem
    BY <1>a, <1>11 DEF MissLinks, Shape
  <2>6. KeysFit(v)' /\ Fresh(v)' /\ Present(v)'
    BY <1>a, <2>4, <2>5 DEF KeysFit, Fresh, Present
  <2> QED BY <2>3, <2>4, <2>6
<1>12. CASE HitGet(v)
  <2>1. PICK t \in Slot : /\ ref[<<v, t>>] = NoItem
                        /\ ref' = [ref EXCEPT ![<<v, t>>] = ref[<<v, "it">>], ![<<v, "it">>] = NoItem]
    BY <1>12 DEF HitGet
  <2>2. /\ UNCHANGED <<refcount, linked, slabbed, key, found, op, opkey>> /\ pc'[v] = "idle"
        /\ ref[<<v, "it">>] # NoItem
    BY <1>a, <1>12, ItemAssumption DEF HitGet, memory, Goto, TypeOK, Shape, HasIt
  <2>3. Benign(v) /\ Globals'
    BY <1>a, <2>1, <2>2, MoveStep
  <2>4. \A n \in {"it", "item", "new_it"} : ref'[<<v, n>>] = ref[<<v, n>>] \/ ref'[<<v, n>>] = NoItem
    BY <1>a, <1>c, <2>1, RefOf, SlotAssumption DEF TypeOK
  <2>5. KeysFit(v)' /\ Fresh(v)' /\ Present(v)'
    BY <1>a, <2>2, <2>4 DEF KeysFit, Fresh, Present
  <2> QED BY <2>2, <2>3, <2>5
<1>13. CASE HitReturns(v)
  <2>1. UNCHANGED <<refcount, linked, slabbed, key, ref>>
    BY <1>13 DEF HitReturns, memory
  <2>2. Benign(v) /\ Globals'
    BY <1>a, <2>1, ControlStep
  <2>3. KeysFit(v)'
    BY <1>a, <1>13, <2>1 DEF HitReturns, Goto, KeysFit, Shape, HasIt, StoreOps, LookupOps, TypeOK
  <2>4. Fresh(v)'
    BY <1>a, <1>13, <2>1, StillPrivate DEF HitReturns, Goto, Fresh, Shape, StoreOps, LookupOps, TypeOK
  <2>5. Present(v)' /\ pc'[v] # "flush"
    BY <1>a, <1>13, <2>1, StillPrivate DEF HitReturns, Goto, Present, TypeOK
  <2> QED BY <2>2, <2>3, <2>4, <2>5
<1>14. CASE ItemUnlinkLock(v)
  <2>1. UNCHANGED <<refcount, linked, slabbed, key, ref>>
    BY <1>14 DEF ItemUnlinkLock, memory
  <2>2. Benign(v) /\ Globals'
    BY <1>a, <2>1, ControlStep
  <2>3. KeysFit(v)'
    BY <1>a, <1>14, <2>1 DEF ItemUnlinkLock, Goto, KeysFit, Shape, HasIt, StoreOps, LookupOps, TypeOK
  <2>4. Fresh(v)'
    BY <1>a, <1>14, <2>1, StillPrivate DEF ItemUnlinkLock, Goto, Fresh, Shape, StoreOps, LookupOps, TypeOK
  <2>5. Present(v)' /\ pc'[v] # "flush"
    BY <1>a, <1>14, <2>1, StillPrivate DEF ItemUnlinkLock, Goto, Present, TypeOK
  <2> QED BY <2>2, <2>3, <2>4, <2>5
<1>15. CASE ItemUnlink(v)
  <2>1. PICK i \in Item : ref[it] = i /\ key[i] = opkey[v] /\ do_item_unlink(i)
    BY <1>a, <1>15, ItemAssumption DEF ItemUnlink, Shape, HasIt, KeysFit, it
  <2>2. UNCHANGED <<key, ref, found, op, opkey>> /\ pc'[v] = "rel_it" /\ linked' = linked \ {i}
    BY <1>a, <1>15, <2>1 DEF ItemUnlink, Goto, TypeOK, do_item_unlink
  <2>3. Benign(v) /\ Globals'
    <3>1. Foreign(i, v)
      BY <1>d, <2>1, <1>15 DEF ItemUnlink, LockedPCs
    <3> QED BY <1>a, <2>1, <2>2, <3>1, UnlinkStep
  <2>4. KeysFit(v)'
    BY <1>a, <1>15, <2>2 DEF ItemUnlink, KeysFit, Shape
  <2>5. Fresh(v)'
    BY <1>a, <1>15, <2>2, StillPrivate DEF ItemUnlink, Fresh, Shape, StoreOps
  <2>6. Present(v)'
    <3>1. i \in linked => \A j \in linked' : key[j] # opkey[v]
      BY <1>a, <2>1, <2>2 DEF Globals, UniqueKey
    <3> QED BY <1>a, <1>15, <2>1, <2>2, <3>1 DEF ItemUnlink, Present, it
  <2> QED BY <2>2, <2>3, <2>4, <2>5, <2>6
<1>16. CASE HitIncr(v)
  <2>1. PICK i \in Item : ref[it] = i /\ i \in linked
    BY <1>a, <1>16, ItemAssumption DEF HitIncr, Shape, HasIt, Present, it
  <2>2. it \in Holders(i)
    BY <1>c, <2>1 DEF Holders
  <2>3. refcount[i] = Cardinality(Holders(i)) + 1 /\ Cardinality(Holders(i)) \in Nat
        /\ Cardinality(Holders(i)) # 0
    BY <1>a, <2>1, <2>2, HoldersCount DEF Globals, RefcountExact
  <2>4. UNCHANGED <<refcount, linked, slabbed, key, ref, found, op, opkey>>
    BY <1>16, <2>1, <2>3 DEF HitIncr, memory, it
  <2>5. Benign(v) /\ Globals'
    BY <1>a, <2>4, ControlStep
  <2>6. refcount[i] = 2 => Holders(i) = {it}
    <3>1. Cardinality(Holders(i) \ {it}) = Cardinality(Holders(i)) - 1 /\ IsFiniteSet(Holders(i) \ {it})
      BY <2>2, HoldersCount, FS_RemoveElement
    <3>2. refcount[i] = 2 => Holders(i) \ {it} = {}
      BY <2>3, <3>1, FS_EmptySet
    <3> QED BY <2>2, <3>2
  <2>7. KeysFit(v)' /\ Fresh(v)'
    BY <1>a, <1>16, <2>4 DEF HitIncr, Goto, TypeOK, KeysFit, Fresh, Shape, StoreOps
  <2>8. Present(v)' /\ pc'[v] # "flush"
    BY <1>a, <1>16, <2>1, <2>4, <2>6, StillPrivate DEF HitIncr, Goto, TypeOK, Present, it
  <2> QED BY <2>5, <2>7, <2>8
<1>17. CASE IncrInPlace(v)
  <2>1. UNCHANGED <<refcount, linked, slabbed, key, ref>>
    BY <1>17 DEF IncrInPlace, memory
  <2>2. Benign(v) /\ Globals'
    BY <1>a, <2>1, ControlStep
  <2>3. KeysFit(v)'
    BY <1>a, <1>17, <2>1 DEF IncrInPlace, Goto, KeysFit, Shape, HasIt, StoreOps, LookupOps, TypeOK
  <2>4. Fresh(v)'
    BY <1>a, <1>17, <2>1, StillPrivate DEF IncrInPlace, Goto, Fresh, Shape, StoreOps, LookupOps, TypeOK
  <2>5. Present(v)' /\ pc'[v] # "flush"
    BY <1>a, <1>17, <2>1, StillPrivate DEF IncrInPlace, Goto, Present, TypeOK
  <2> QED BY <2>2, <2>3, <2>4, <2>5
<1>18. CASE HitStore(v)
  <2>1. CASE UNCHANGED memory /\ Goto(v, "linked")
    <3>1. UNCHANGED <<refcount, linked, slabbed, key, ref, found, op, opkey>>
      BY <1>18, <2>1 DEF HitStore, memory
    <3>2. Benign(v) /\ Globals'
      BY <1>a, <3>1, ControlStep
    <3>3. KeysFit(v)'
      BY <1>a, <3>1 DEF KeysFit
    <3>4. Fresh(v)'
      BY <1>a, <1>18, <2>1, <3>1, StillPrivate DEF HitStore, Goto, Fresh, Shape, TypeOK
    <3>5. Present(v)' /\ pc'[v] # "flush"
      BY <1>a, <1>18, <2>1, <3>1, StillPrivate DEF HitStore, Goto, Present, TypeOK
    <3> QED BY <3>2, <3>3, <3>4, <3>5
  <2>2. CASE UNCHANGED memory /\ Goto(v, "alloc")
    <3>1. UNCHANGED <<refcount, linked, slabbed, key, ref, found, op, opkey>>
      BY <1>18, <2>2 DEF HitStore, memory
    <3>2. Benign(v) /\ Globals'
      BY <1>a, <3>1, ControlStep
    <3>3. KeysFit(v)'
      BY <1>a, <3>1 DEF KeysFit
    <3>4. Fresh(v)'
      BY <1>a, <1>18, <2>2, <3>1, StillPrivate DEF HitStore, Goto, Fresh, Shape, TypeOK
    <3>5. Present(v)' /\ pc'[v] # "flush"
      BY <1>a, <1>18, <2>2, <3>1, StillPrivate DEF HitStore, Goto, Present, TypeOK
    <3> QED BY <3>2, <3>3, <3>4, <3>5
  <2>3. CASE do_item_unlink(ref[<<v, "it">>]) /\ Goto(v, "link") /\ UNCHANGED key
    <3>1. PICK i \in Item : ref[it] = i /\ key[i] = opkey[v] /\ do_item_unlink(i)
      BY <1>a, <1>18, <2>3, ItemAssumption DEF HitStore, Shape, HasIt, KeysFit, it
    <3>2. UNCHANGED <<key, ref, found, op, opkey>> /\ pc'[v] = "link" /\ linked' = linked \ {i}
      BY <1>a, <1>18, <2>3, <3>1 DEF HitStore, Goto, TypeOK, do_item_unlink
    <3>3. Benign(v) /\ Globals'
      <4>1. Foreign(i, v)
        BY <1>d, <3>1, <1>18, <2>3 DEF HitStore, LockedPCs
      <4> QED BY <1>a, <3>1, <3>2, <4>1, UnlinkStep
    <3>4. KeysFit(v)'
      BY <1>a, <1>18, <2>3, <3>2 DEF HitStore, KeysFit, Shape
    <3>5. Fresh(v)'
      BY <1>a, <1>18, <2>3, <3>2, StillPrivate DEF HitStore, Fresh, Shape, StoreOps
    <3>6. Present(v)'
      <4>1. i \in linked => \A j \in linked' : key[j] # opkey[v]
        BY <1>a, <3>1, <3>2 DEF Globals, UniqueKey
      <4> QED BY <1>a, <1>18, <2>3, <3>1, <3>2, <4>1 DEF HitStore, Present, it
    <3> QED BY <3>2, <3>3, <3>4, <3>5, <3>6
  <2> QED BY <1>18, <2>1, <2>2, <2>3 DEF HitStore
<1>19. CASE AllocInside(v)
  <2>1. CASE Goto(v, "linked") /\ UNCHANGED <<memory, ref>>
    <3>1. UNCHANGED <<refcount, linked, slabbed, key, ref, found, op, opkey>>
      BY <1>19, <2>1 DEF AllocInside, memory
    <3>2. Benign(v) /\ Globals'
      BY <1>a, <3>1, ControlStep
    <3>3. KeysFit(v)'
      BY <1>a, <3>1 DEF KeysFit
    <3>4. Fresh(v)'
      BY <1>a, <1>19, <2>1, <3>1, StillPrivate DEF AllocInside, Goto, Fresh, Shape, TypeOK
    <3>5. Present(v)' /\ pc'[v] # "flush"
      BY <1>a, <1>19, <2>1, <3>1, StillPrivate DEF AllocInside, Goto, Present, TypeOK
    <3> QED BY <3>2, <3>3, <3>4, <3>5
  <2>2. ASSUME NEW i \in Item, do_item_alloc(new_it, opkey[v], opkey[v], i), UNCHANGED pc
        PROVE  Benign(v) /\ Globals' /\ Command(v)'
    <3>1. ref[new_it] = NoItem /\ UNCHANGED <<found, op, opkey>> /\ pc[v] = "alloc"
      BY <1>19 DEF AllocInside, new_it
    <3>2. /\ Benign(v) /\ Globals'
          /\ ref' = [ref EXCEPT ![new_it] = i] /\ Private(new_it)' /\ key'[i] = opkey[v]
          /\ linked' = linked \ {i} /\ i \notin {ref[q] : q \in Refs}
          /\ \A j \in Item \ {i} : Holders(j)' = Holders(j) /\ key'[j] = key[j]
      BY <1>a, <1>c, <2>2, <3>1, AllocStep
    <3>3. ref'[new_it] = i /\ ref'[it] = ref[it] /\ ref'[item] = ref[item] /\ i # ref[it] /\ i # ref[item]
      BY <1>a, <1>c, <3>2 DEF TypeOK
    <3>4. found[v] = NoItem /\ ref[it] \in Item /\ ref[it] \in linked
      BY <1>a, <3>1 DEF Shape, HasIt, Present, it
    <3>5. KeysFit(v)'
      <4>1. ref'[it] # NoItem => key'[ref'[it]] = opkey[v]
        BY <1>a, <3>2, <3>3, <3>4 DEF KeysFit, it
      <4>2. ref'[item] # NoItem => key'[ref'[item]] = opkey[v]
        BY <1>a, <1>c, <3>2, <3>3 DEF KeysFit, item, TypeOK
      <4> QED BY <3>1, <3>2, <3>3, <3>4, <4>1, <4>2 DEF KeysFit, it, item, new_it
    <3>6. Fresh(v)'
      <4>1. op[v] \in StoreOps => Private(item) /\ ref[item] # NoItem
        BY <1>a, <3>1 DEF Fresh, Shape, item
      <4>2. op[v] \in StoreOps => Private(item)'
        BY <1>a, <1>c, <3>2, <3>3, <4>1, PrivateKept
      <4> QED BY <3>1, <3>2, <4>2, <2>2 DEF Fresh, item, new_it
    <3>7. Present(v)'
      BY <2>2, <3>1, <3>2, <3>3, <3>4 DEF Present, it
    <3> QED BY <2>2, <3>1, <3>2, <3>5, <3>6, <3>7
  <2> QED BY <1>19, <2>1, <2>2 DEF AllocInside, new_it
<1>20. CASE ReplaceUnlinks(v)
  <2>1. PICK i \in Item : ref[it] = i /\ key[i] = opkey[v] /\ do_item_unlink(i)
    BY <1>a, <1>20, ItemAssumption DEF ReplaceUnlinks, Shape, HasIt, KeysFit, it
  <2>2. UNCHANGED <<key, ref, found, op, opkey>> /\ pc'[v] = "link" /\ linked' = linked \ {i}
    BY <1>a, <1>20, <2>1 DEF ReplaceUnlinks, Goto, TypeOK, do_item_unlink
  <2>3. Benign(v) /\ Globals'
    <3>1. Foreign(i, v)
      BY <1>d, <2>1, <1>20 DEF ReplaceUnlinks, LockedPCs
    <3> QED BY <1>a, <2>1, <2>2, <3>1, UnlinkStep
  <2>4. KeysFit(v)'
    BY <1>a, <1>20, <2>2 DEF ReplaceUnlinks, KeysFit, Shape
  <2>5. Fresh(v)'
    BY <1>a, <1>20, <2>2, StillPrivate DEF ReplaceUnlinks, Fresh, Shape, StoreOps
  <2>6. Present(v)'
    <3>1. i \in linked => \A j \in linked' : key[j] # opkey[v]
      BY <1>a, <2>1, <2>2 DEF Globals, UniqueKey
    <3> QED BY <1>a, <1>20, <2>1, <2>2, <3>1 DEF ReplaceUnlinks, Present, it
  <2> QED BY <2>2, <2>3, <2>4, <2>5, <2>6
<1>21. CASE ReplaceLinks(v)
  <2> DEFINE n == IF op[v] \in {"append", "incr"} THEN "new_it" ELSE "item"
  <2>1. /\ n \in {"item", "new_it"} /\ Private(<<v, n>>) /\ ref[<<v, n>>] # NoItem
        /\ do_item_link(ref[<<v, n>>])
    BY <1>a, <1>21 DEF ReplaceLinks, Fresh, Shape, StoreOps
  <2>2. PICK i \in Item : ref[<<v, n>>] = i /\ key[i] = opkey[v]
    BY <1>a, <2>1, RefOf DEF TypeOK, KeysFit
  <2>3. Benign(v) /\ Globals'
    <3>1. Foreign(i, v)
      BY <1>d, <2>2, <1>21 DEF ReplaceLinks, LockedPCs
    <3>2. \A j \in linked : key[j] # key[i]
      BY <1>a, <1>21, <2>2 DEF ReplaceLinks, Present
    <3>3. do_item_link(i) /\ UNCHANGED <<slabbed, key, ref>>
      BY <1>21, <2>1, <2>2 DEF ReplaceLinks
    <3> QED BY <1>a, <2>1, <2>2, <3>1, <3>2, <3>3, LinkStep
  <2>4. pc'[v] = "linked" /\ UNCHANGED <<key, ref, found, op, opkey>>
    BY <1>a, <1>21 DEF ReplaceLinks, Goto, TypeOK
  <2>5. found[v] = NoItem
    BY <1>a, <1>21 DEF ReplaceLinks, Shape
  <2>6. KeysFit(v)' /\ Fresh(v)' /\ Present(v)'
    BY <1>a, <2>4, <2>5 DEF KeysFit, Fresh, Present
  <2> QED BY <2>3, <2>4, <2>6
<1>22. CASE ReleaseLocal(v)
  <2>1. PICK r \in Refs : ref[r] # NoItem /\ do_item_remove(r)
    BY <1>22, RefOf DEF ReleaseLocal
  <2>2. UNCHANGED <<linked, key, found, op, opkey>> /\ pc'[v] = "linked"
    BY <1>a, <1>22 DEF ReleaseLocal, Goto, TypeOK
  <2>3. Benign(v) /\ Globals'
    BY <1>a, <2>1, <2>2, RemoveStep
  <2>4. \A n \in {"it", "item", "new_it"} : ref'[<<v, n>>] = ref[<<v, n>>] \/ ref'[<<v, n>>] = NoItem
    BY <1>a, <2>1, RefOf DEF TypeOK, do_item_remove
  <2>5. KeysFit(v)' /\ Fresh(v)' /\ Present(v)'
    BY <1>a, <2>2, <2>4 DEF KeysFit, Fresh, Present
  <2> QED BY <2>2, <2>3, <2>5
<1>23. CASE UnlockAfterStore(v)
  <2>1. UNCHANGED <<refcount, linked, slabbed, key, ref>>
    BY <1>23 DEF UnlockAfterStore, memory
  <2>2. Benign(v) /\ Globals'
    BY <1>a, <2>1, ControlStep
  <2>3. KeysFit(v)'
    BY <1>a, <1>23, <2>1 DEF UnlockAfterStore, Goto, KeysFit, Shape, HasIt, StoreOps, LookupOps, TypeOK
  <2>4. Fresh(v)'
    BY <1>a, <1>23, <2>1, StillPrivate DEF UnlockAfterStore, Goto, Fresh, Shape, StoreOps, LookupOps, TypeOK
  <2>5. Present(v)' /\ pc'[v] # "flush"
    BY <1>a, <1>23, <2>1, StillPrivate DEF UnlockAfterStore, Goto, Present, TypeOK
  <2> QED BY <2>2, <2>3, <2>4, <2>5
<1>24. CASE ReleaseLast(v)
  <2>1. PICK r \in Refs : ref[r] # NoItem /\ do_item_remove(r)
    BY <1>a, <1>24, RefOf, ItemAssumption DEF ReleaseLast, item_remove, Shape, HasIt, StoreOps
  <2>2. UNCHANGED <<linked, key, found, op, opkey>> /\ pc'[v] = "idle"
    BY <1>a, <1>24 DEF ReleaseLast, Goto, TypeOK
  <2>3. Benign(v) /\ Globals'
    BY <1>a, <2>1, <2>2, RemoveStep
  <2>4. \A n \in {"it", "item", "new_it"} : ref'[<<v, n>>] = ref[<<v, n>>] \/ ref'[<<v, n>>] = NoItem
    BY <1>a, <2>1, RefOf DEF TypeOK, do_item_remove
  <2>5. KeysFit(v)' /\ Fresh(v)' /\ Present(v)'
    BY <1>a, <2>2, <2>4 DEF KeysFit, Fresh, Present
  <2> QED BY <2>2, <2>3, <2>5
<1>25. CASE ReplySent(v)
  <2>1. PICK r \in Refs : ref[r] # NoItem /\ do_item_remove(r)
    BY <1>25, RefOf DEF ReplySent, item_remove
  <2>2. UNCHANGED <<linked, key, found, op, opkey>> /\ pc'[v] = "idle"
    BY <1>a, <1>25 DEF ReplySent, Goto, TypeOK
  <2>3. Benign(v) /\ Globals'
    BY <1>a, <2>1, <2>2, RemoveStep
  <2>4. \A n \in {"it", "item", "new_it"} : ref'[<<v, n>>] = ref[<<v, n>>] \/ ref'[<<v, n>>] = NoItem
    BY <1>a, <2>1, RefOf DEF TypeOK, do_item_remove
  <2>5. KeysFit(v)' /\ Fresh(v)' /\ Present(v)'
    BY <1>a, <2>2, <2>4 DEF KeysFit, Fresh, Present
  <2> QED BY <2>2, <2>3, <2>5
<1>26. CASE FlushBegin(v)
  BY <1>26 DEF FlushBegin, Safe
<1>27. CASE FlushItem(v)
  BY <1>a, <1>27 DEF FlushItem
<1>28. CASE FlushEnd(v)
  BY <1>a, <1>28 DEF FlushEnd
<1> QED BY <1>1, <1>2, <1>3, <1>4, <1>5, <1>6, <1>7, <1>8, <1>9, <1>10, <1>11, <1>12, <1>13, <1>14, <1>15, <1>16, <1>17, <1>18, <1>19, <1>20, <1>21, <1>22, <1>23, <1>24, <1>25, <1>26, <1>27, <1>28 DEF Lookup, Finish

LEMMA MInvStep ==
  ASSUME Safe, TInv, LInv, MInv, NEW v \in Worker, Lookup(v) \/ Finish(v)
  PROVE  MInv'
<1>1. Benign(v) /\ Globals' /\ Command(v)'
  BY StepIsBenign
<1>2. linked' \in SUBSET Item
  BY TInvStep DEF TInv, TypeOK
<1> QED BY <1>1, <1>2, OthersUndisturbed DEF MInv, Globals

LEMMA MInvInit == Init => MInv
<1> SUFFICES ASSUME Init PROVE MInv
  OBVIOUS
<1>1. \A i \in Item : Holders(i) = {}
  BY ItemAssumption DEF Init, Holders
<1>2. RefcountExact /\ FreeExact
  <2>1. \A i \in Item : Cardinality(Holders(i)) = 0
    BY <1>1, FS_EmptySet
  <2> QED BY <1>1, <2>1, ItemAssumption DEF Init, RefcountExact, FreeExact
<1>3. \A w \in Worker : /\ pc[w] = "idle" /\ found[w] = NoItem
                         /\ \A n \in {"it", "item", "new_it"} : ref[<<w, n>>] = NoItem
  BY RefOf DEF Init
<1>4. linked = {} /\ UniqueKey
  BY DEF Init, UniqueKey
<1>5. \A w \in Worker : Command(w)
  BY <1>3, <1>4 DEF Command, KeysFit, Fresh, Present
<1> QED BY <1>2, <1>4, <1>5 DEF MInv

LEMMA MInvCrawler ==
  ASSUME Safe, TInv, LInv, MInv, CrawlerReclaims
  PROVE  MInv'
<1>1. PICK i \in Item : /\ Reclaimable(i, NoKey) /\ linked' = linked \ {i}
                       /\ refcount' = [refcount EXCEPT ![i] = 0]
                       /\ slabbed' = slabbed \cup {i}
  BY DEF CrawlerReclaims
<1>2. UNCHANGED <<key, ref, found, pc, op, opkey>>
  BY DEF CrawlerReclaims
<1>3. TypeOK /\ Globals
  BY DEF TInv, MInv, Globals
<1>4. i \in linked /\ Holders(i) = {} /\ \A j : Holders(j)' = Holders(j)
  BY <1>1, <1>2, <1>3, ReclaimableUnheld DEF Globals, Holders
<1>5. Cardinality(Holders(i)) = 0
  BY <1>4, FS_EmptySet
<1>6. Foreign(i, NoWorker)
  BY <1>1, <1>3, ReclaimableIsForeign
<1>7. Benign(NoWorker)
  BY <1>1, <1>2, <1>4, <1>6 DEF Benign, Local
<1>8. RefcountExact'
  <2>1. ASSUME NEW j \in Item
        PROVE  refcount'[j] = Cardinality(Holders(j)') + (IF j \in linked' THEN 1 ELSE 0)
    <3>1. CASE j = i
      <4>1. Holders(j)' = Holders(i)
        BY <1>4, <3>1
      <4>2. refcount'[j] = 0 /\ j \notin linked'
        BY <1>1, <1>3, <3>1 DEF TypeOK
      <4> QED BY <1>5, <4>1, <4>2
    <3>2. CASE j # i
      BY <1>1, <1>3, <1>4, <3>2 DEF Globals, RefcountExact, TypeOK
    <3> QED BY <3>1, <3>2
  <2> QED BY <2>1 DEF RefcountExact
<1>9. FreeExact' /\ UniqueKey' /\ linked' \in SUBSET Item /\ \A j \in linked' : key'[j] \in Key
  BY <1>1, <1>2, <1>3, <1>4 DEF Globals, FreeExact, UniqueKey, TypeOK
<1> QED BY <1>7, <1>8, <1>9, WorkerAssumption, OthersUndisturbed DEF MInv

LEMMA MInvNext == ASSUME Safe PROVE TInv /\ LInv /\ MInv /\ [Next]_vars => MInv'
<1> SUFFICES ASSUME TInv, LInv, MInv, [Next]_vars PROVE MInv'
  OBVIOUS
<1>1. CASE UNCHANGED vars
  <2>1. Local(NoWorker) /\ UNCHANGED <<refcount, linked, slabbed, key, ref>>
    BY <1>1 DEF vars, Local
  <2>2. Benign(NoWorker) /\ Globals'
    BY <2>1, ControlStep DEF MInv, Globals
  <2>3. linked' \in SUBSET Item
    BY <2>1 DEF TInv, TypeOK
  <2> QED BY <2>2, <2>3, WorkerAssumption, OthersUndisturbed DEF MInv, Globals
<1> QED BY <1>1, MInvStep, MInvCrawler DEF Next

LEMMA Invariance == ASSUME Safe PROVE Spec => [](TInv /\ LInv /\ MInv)
<1>1. Init => LInv
  BY WorkerAssumption, StripeAssumption DEF Init, LInv, Owns, LockedPCs
<1> QED BY <1>1, TInvInit, TInvNext, LInvNext, MInvInit, MInvNext, PTL DEF Spec

-----------------------------------------------------------------------------
(* The theorems *)

\* Every refcount is the number of references to the item, plus one while it is
\* linked: no command leaks a reference or gives one up twice.
THEOREM CountsAreExact == ASSUME Safe PROVE Spec => []RefcountExact
<1>1. MInv => RefcountExact
  BY DEF MInv
<1> QED BY <1>1, Invariance, PTL

\* A chunk is on the slab free list exactly when nothing refers to it; a pointer
\* just read from the hash table, not counted yet, is no exception.
THEOREM MemoryIsSafe == ASSUME Safe PROVE Spec => []NoUseAfterFree
<1>1. TInv /\ MInv => NoUseAfterFree
  BY ItemAssumption
  DEF TInv, TypeOK, MInv, FreeExact, NoUseAfterFree, Command, KeysFit
<1> QED BY <1>1, Invariance, PTL

\* The hash table never holds two items of one key.
THEOREM KeysAreUnique == ASSUME Safe PROVE Spec => []UniqueKey
<1>1. MInv => UniqueKey
  BY DEF MInv
<1> QED BY <1>1, Invariance, PTL

\* An incr or decr that overwrites the digits in place is alone with the item.
THEOREM InPlaceIsExclusive == ASSUME Safe PROVE Spec => []InPlaceExclusive
<1>1. MInv => InPlaceExclusive
  BY DEF MInv, Command, Present, InPlaceExclusive
<1> QED BY <1>1, Invariance, PTL

\* The chunk behind a reference is not recycled for another key.
THEOREM ReferencesAreStable == ASSUME Safe PROVE Spec => NotRecycled
<1> DEFINE Stable == \A r \in Refs : ref[r] # NoItem /\ ref'[r] = ref[r] => key'[ref[r]] = key[ref[r]]
<1>1. TInv /\ LInv /\ MInv /\ [Next]_vars => [Stable]_vars
  <2> SUFFICES ASSUME TInv, LInv, MInv, Next PROVE Stable
    BY DEF vars
  <2>1. CASE CrawlerReclaims
    BY <2>1 DEF CrawlerReclaims
  <2>2. ASSUME NEW v \in Worker, Lookup(v) \/ Finish(v) PROVE Stable
    <3>1. Benign(v)
      BY <2>2, StepIsBenign
    <3>2. ASSUME NEW r \in Refs, ref[r] # NoItem PROVE key'[ref[r]] = key[ref[r]]
      <4>1. ref[r] \in Item /\ r \in Holders(ref[r])
        BY <3>2 DEF TInv, TypeOK, Holders
      <4> QED BY <3>1, <4>1 DEF Benign
    <3> QED BY <3>2
  <2> QED BY <2>1, <2>2 DEF Next
<1> QED BY <1>1, Invariance, PTL DEF Spec, NotRecycled
=============================================================================
