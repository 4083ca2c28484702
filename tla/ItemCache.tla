----------------------------- MODULE ItemCache -----------------------------
(***************************************************************************)
(* The storage engine of items.c and the commands of memcached.c on it:    *)
(* hash table, LRU, expiry, eviction, cas ids, flush_all, LRU crawler.     *)
(*                                                                         *)
(* One action is one section under the item lock of a key.  get, touch and *)
(* delete have two, item_get and then item_update or item_unlink, between  *)
(* which only a reference keeps the item; a storage command allocates its  *)
(* item with the command line and stores it when its data has come.        *)
(*                                                                         *)
(* Abstractions: one slab class of MaxItems chunks, whose LRU is shorter   *)
(* than the 5 tries of do_item_alloc; every key has a lock of its own; no  *)
(* flush_all within a locked section (ItemRefs has that); tail_repair_time *)
(* is 0, its default; lru_crawler crawl waits for the crawler to be idle.  *)
(* The two error messages of a failed allocation are one answer, "OOM".    *)
(***************************************************************************)
EXTENDS Integers, Sequences, FiniteSets, Functions, FiniteSetsExt, Numbers

CONSTANTS
  Conn,                 \* connections, each served by a worker thread of its own
  Key,
  Token,                \* characters of the values sent by clients
  Deltas,               \* arguments of incr and decr
  MaxItems,             \* chunks of memory
  ExpTimes, TouchTimes, \* <exptime> arguments of storage commands and of touch
  FlushDelays,          \* arguments of flush_all
  evict_to_free,        \* settings.evict_to_free, switched off by option -M
  lru_crawler,          \* settings.lru_crawler
  ITEM_UPDATE_INTERVAL, REALTIME_MAXDELTA,
  process_started,      \* Unix time of the start
  RelTimeMod,           \* 2^32: rel_time_t is an unsigned int
  MaxTicks, MaxCas,     \* bounds on the clock and on the cas ids
  Crawler, NoEntry

ASSUME ClockAssumption ==
  /\ ITEM_UPDATE_INTERVAL \in Nat /\ REALTIME_MAXDELTA \in Nat /\ process_started \in Nat
  /\ REALTIME_MAXDELTA < process_started
  /\ RelTimeMod \in Nat /\ MaxTicks \in Nat /\ ITEM_UPDATE_INTERVAL + 2 + MaxTicks < RelTimeMod
  /\ ExpTimes \subseteq Int /\ TouchTimes \subseteq Int /\ FlushDelays \subseteq Int
ASSUME SizeAssumption ==
  IsFiniteSet(Conn) /\ MaxItems \in Nat /\ MaxCas \in Nat /\ Deltas \subseteq Nat
ASSUME CrawlerAssumption == Crawler \notin Key

RelTime == 0..(RelTimeMod - 1)
Value == UNION {[1..n -> Digit \cup Token \cup {Space}] : n \in 1..MaxLen}

\* The storage commands, and the commands that hold a reference to a linked item.
Storage == {"set", "add", "replace", "cas", "append", "prepend"}
Looking == {"get", "touch", "delete", "oom"}

\* NoEntry is neither an entry nor a command.
ASSUME NoEntryAssumption ==
  LET Comm == Storage \cup Looking \cup {"stale"}
      Val == Value \cup {<<>>}
  IN /\ NoEntry \notin [val : Value, cas : 0..MaxCas]
     /\ NoEntry \notin [comm : Comm, key : Key, val : Val, cas : 0..MaxCas, id : 0..MaxCas]
     /\ NoEntry \notin [comm : Comm, key : Key, val : Val, exptime : RelTime \cup TouchTimes,
                        cas : 0..MaxCas, id : 0..MaxCas]

VARIABLES
  cache,         \* the linked item of each key that has one
  lru,           \* the LRU from heads[] to tails[]: keys, and the crawler's pseudo item
  pending,       \* the command each connection is in the middle of, with its item
  cas_id,        \* get_cas_id's counter
  current_time,  \* seconds since process_started
  oldest_live,   \* settings.oldest_live
  reply,         \* the last reply
  flushed_cas    \* history: the last cas id given out before the last flush_all

vars == <<cache, lru, pending, cas_id, current_time, oldest_live, reply, flushed_cas>>
clock == <<current_time, oldest_live>>

StartTime == ITEM_UPDATE_INTERVAL + 2

Init ==
  /\ cache = <<>>
  /\ lru = <<>>
  /\ pending = [c \in Conn |-> NoEntry]
  /\ cas_id = 0
  /\ current_time = StartTime
  /\ oldest_live = 0
  /\ reply = [op |-> "none", res |-> "NONE", val |-> <<>>, cas |-> 0]
  /\ flushed_cas = 0

-----------------------------------------------------------------------------
(* Times *)

\* Mutant: negative times mean never, too.
realtimeNever(exptime) ==
  IF exptime <= 0 THEN 0
  ELSE IF exptime > REALTIME_MAXDELTA
       THEN IF exptime <= process_started THEN 1
            ELSE (exptime - process_started) % RelTimeMod
       ELSE (exptime + current_time) % RelTimeMod

\* A client's <exptime> as seconds since process_started: relative up to
\* REALTIME_MAXDELTA, else Unix time; a time before the start becomes 1.
realtime(exptime) ==
  IF exptime = 0 THEN 0
  ELSE IF exptime > REALTIME_MAXDELTA
       THEN IF exptime <= process_started THEN 1
            ELSE (exptime - process_started) % RelTimeMod
       ELSE (exptime + current_time) % RelTimeMod

\* process_update_command: "Negative exptimes can underflow and end up immortal".
UpdateExpTime(exptime) ==
  realtime(IF exptime < 0 THEN REALTIME_MAXDELTA + 1 ELSE exptime)

\* do_item_get's view of an item, and the one of do_item_alloc and the crawler.
Flushed(it) == oldest_live # 0 /\ oldest_live <= current_time /\ it.time <= oldest_live
Expired(it) == it.exptime # 0 /\ it.exptime <= current_time
\* Mutant: exptime 0 is a time like any other.
ReclaimableNever(it) == Flushed(it) \/ it.exptime < current_time
Reclaimable(it) == Flushed(it) \/ (it.exptime # 0 /\ it.exptime < current_time)

-----------------------------------------------------------------------------
(* Hash table and LRU: operators on a pair m of the two *)

Mem == [cache |-> cache, lru |-> lru]
SetMem(m) == cache' = m.cache /\ lru' = m.lru

\* The elements of s that are in S, in their order: the n-th is the one that has n of
\* them up to it.  (SelectSeq, in a form that can be reasoned about.)
Only(s, S) ==
  LET upto(i) == {j \in 1..i : s[j] \in S}
  IN [n \in 1..Cardinality(upto(Len(s))) |->
        s[CHOOSE i \in upto(Len(s)) : Cardinality(upto(i)) = n]]
Without(s, S) == Only(s, Range(s) \ S)

\* do_item_unlink of each of the keys ks.
\* Mutant: item_unlink_q is forgotten.
do_item_unlink_hash(m, ks) == [m EXCEPT !.cache = Restrict(m.cache, DOMAIN m.cache \ ks)]
do_item_unlink(m, ks) ==
  [cache |-> Restrict(m.cache, DOMAIN m.cache \ ks), lru |-> Without(m.lru, ks)]

\* do_item_link: new at the head, stamped with the time and the next cas id.
do_item_link(m, k, val, exptime) ==
  [cache |-> [x \in DOMAIN m.cache \cup {k} |->
                IF x = k THEN [val |-> val, exptime |-> exptime,
                               time |-> current_time, cas |-> cas_id + 1]
                         ELSE m.cache[x]],
   lru |-> <<k>> \o m.lru]

do_item_replace(m, k, val, exptime) ==
  do_item_link(do_item_unlink(m, {k}), k, val, exptime)

\* The keys of ks whose items are older than ITEM_UPDATE_INTERVAL, and these items' new times.
Old(m, ks) == {k \in ks : m.cache[k].time < current_time - ITEM_UPDATE_INTERVAL}
Stamped(m, ks) ==
  [k \in DOMAIN m.cache |-> IF k \in ks THEN [m.cache[k] EXCEPT !.time = current_time]
                                       ELSE m.cache[k]]

\* Mutant: the time is renewed, the place in the LRU is not.
do_item_update_time(m, ks) == [cache |-> Stamped(m, Old(m, ks)), lru |-> m.lru]

\* do_item_update of each of the keys ks, from the tail up: bumped to the head, at most once
\* in ITEM_UPDATE_INTERVAL.  The last one bumped was the one nearest to the head.
do_item_update(m, ks) ==
  LET old == Old(m, ks) IN
  [cache |-> Stamped(m, old), lru |-> Only(m.lru, old) \o Without(m.lru, old)]

\* do_item_get: whether the key is found, and memory after it: an expired or
\* flushed item is unlinked on sight.
Hit(k) == k \in DOMAIN cache /\ ~Flushed(cache[k]) /\ ~Expired(cache[k])
AfterGet(k) == IF Hit(k) THEN Mem ELSE do_item_unlink(Mem, {k})

Reply(op, res, val, cas) == [op |-> op, res |-> res, val |-> val, cas |-> cas]
Answer(op, res) == reply' = Reply(op, res, <<>>, 0)

Idle(c) == pending[c] = NoEntry
Doing(c, comms) == pending[c] # NoEntry /\ pending[c].comm \in comms

Begin(c, r) == pending' = [pending EXCEPT ![c] = r]
End(c) == Begin(c, NoEntry)

\* The item that c refers to is still linked.
StillLinked(c) == pending[c].key \in DOMAIN cache /\ cache[pending[c].key].cas = pending[c].id

\* Some connection has a reference to the item of k: its refcount is over 1.
Held(k) == \E c \in Conn : Doing(c, Looking) /\ pending[c].key = k /\ StillLinked(c)

-----------------------------------------------------------------------------
(* Memory *)

\* Chunks of linked items, of items whose data is awaited, and of items that are
\* unlinked but still referred to.
Used ==
  Cardinality(DOMAIN cache) + Cardinality({c \in Conn : Doing(c, Storage)})
  + Cardinality({pending[c].id : c \in {d \in Conn : Doing(d, Looking) /\ ~StillLinked(d)}})

\* The keys whose locks other workers may have at the moment.
LockedKeys == {ks \in SUBSET DOMAIN cache : Cardinality(ks) < Cardinality(Conn)}

\* do_item_alloc walks up from the tail: past the crawler, the command's own key
\* and locked items; items with references it moves to the head.  The first other
\* one is reused if it has expired, else slabs_alloc gives a chunk, else it is evicted.
do_item_alloc(own, locked) ==
  LET passed == {Crawler, own} \cup locked
      stops == {n \in DOMAIN lru : lru[n] \notin passed /\ ~Held(lru[n])}
      found == IF stops = {} THEN 0 ELSE Max(stops)
      m == do_item_update(Mem, {lru[n] : n \in (found + 1)..Len(lru)} \ passed)
      free == Used < MaxItems
  IN  IF found # 0 /\ (Reclaimable(cache[lru[found]]) \/ (~free /\ evict_to_free))
      THEN [ok |-> TRUE, mem |-> do_item_unlink(m, {lru[found]})]
      ELSE [ok |-> free, mem |-> m]

-----------------------------------------------------------------------------
(* get, touch and delete *)

\* item_get: a reference to the item, or no item.
item_get(c, comm, k) ==
  IF Hit(k)
  THEN /\ Begin(c, [comm |-> comm, key |-> k, val |-> cache[k].val, exptime |-> 0,
                    cas |-> cache[k].cas, id |-> cache[k].cas])
       /\ SetMem(Mem) /\ UNCHANGED reply
  ELSE /\ End(c)
       /\ SetMem(AfterGet(k))
       /\ IF comm = "oom" THEN Answer("set", "OOM") ELSE Answer(comm, "NOT_FOUND")

process_get_command(c, k) ==
  /\ Idle(c)
  /\ item_get(c, "get", k)
  /\ UNCHANGED <<cas_id, clock, flushed_cas>>

process_delete_command(c, k) ==
  /\ Idle(c)
  /\ item_get(c, "delete", k)
  /\ UNCHANGED <<cas_id, clock, flushed_cas>>

\* item_touch: item_get, and a new expiry time.
process_touch_command(c, k, e) ==
  /\ Idle(c)
  /\ IF Hit(k)
     THEN /\ Begin(c, [comm |-> "touch", key |-> k, val |-> cache[k].val, exptime |-> e,
                       cas |-> cache[k].cas, id |-> cache[k].cas])
          /\ SetMem([Mem EXCEPT !.cache[k].exptime = realtime(e)])
          /\ UNCHANGED reply
     ELSE item_get(c, "touch", k)
  /\ UNCHANGED <<cas_id, clock, flushed_cas>>

\* item_update of what get and touch have found, and the reply.
item_update(c) ==
  /\ Doing(c, {"get", "touch"})
  /\ SetMem(IF StillLinked(c) THEN do_item_update(Mem, {pending[c].key}) ELSE Mem)
  /\ IF pending[c].comm = "get"
     THEN reply' = Reply("get", "HIT", pending[c].val, pending[c].cas)
     ELSE Answer("touch", "TOUCHED")
  /\ End(c)
  /\ UNCHANGED <<cas_id, clock, flushed_cas>>

\* item_unlink of what delete, or a set without memory, has found.
item_unlink(c) ==
  /\ Doing(c, {"delete", "oom"})
  /\ SetMem(IF StillLinked(c) THEN do_item_unlink(Mem, {pending[c].key}) ELSE Mem)
  /\ IF pending[c].comm = "delete" THEN Answer("delete", "DELETED") ELSE Answer("set", "OOM")
  /\ End(c)
  /\ UNCHANGED <<cas_id, clock, flushed_cas>>

-----------------------------------------------------------------------------
(* incr and decr: do_add_delta *)

\* The key is not there or its value is no number.
DeltaFails(c, op, k) ==
  /\ Idle(c)
  /\ SetMem(AfterGet(k))
  /\ \/ ~Hit(k) /\ Answer(op, "NOT_FOUND")
     \/ Hit(k) /\ ~Numeric(cache[k].val) /\ Answer(op, "NON_NUMERIC")
  /\ UNCHANGED <<pending, cas_id, clock, flushed_cas>>

\* The digits fit and nobody else has the item.
InPlace(k, text) == Len(text) <= Len(cache[k].val) /\ ~Held(k)

\* Mutant: the cas id stays.
DeltaInPlaceOldCas(c, op, k, d) ==
  LET text == Result(op, cache[k].val, d) IN
  /\ Idle(c) /\ Hit(k) /\ Numeric(cache[k].val) /\ InPlace(k, text)
  /\ SetMem(do_item_update([Mem EXCEPT !.cache[k].val = Padded(text, Len(cache[k].val))], {k}))
  /\ reply' = Reply(op, "OK", text, 0)
  /\ UNCHANGED <<pending, cas_id, clock, flushed_cas>>

\* In place, padded with spaces, under a new cas id.
DeltaInPlace(c, op, k, d) ==
  LET text == Result(op, cache[k].val, d) IN
  /\ Idle(c) /\ Hit(k) /\ Numeric(cache[k].val) /\ InPlace(k, text)
  /\ cas_id < MaxCas
  /\ SetMem(do_item_update([Mem EXCEPT !.cache[k].val = Padded(text, Len(cache[k].val)),
                                       !.cache[k].cas = cas_id + 1], {k}))
  /\ cas_id' = cas_id + 1
  /\ reply' = Reply(op, "OK", text, 0)
  /\ UNCHANGED <<pending, clock, flushed_cas>>

\* Or by a new item; the old one, which others may have, gets the new cas id too.
DeltaReplaces(c, op, k, d) ==
  LET text == Result(op, cache[k].val, d) IN
  /\ Idle(c) /\ Hit(k) /\ Numeric(cache[k].val) /\ ~InPlace(k, text)
  /\ cas_id < MaxCas
  /\ \E locked \in LockedKeys :
       LET a == do_item_alloc(k, locked) IN
       IF a.ok
       THEN /\ SetMem(do_item_replace(a.mem, k, text, cache[k].exptime))
            /\ cas_id' = cas_id + 1
            /\ pending' = [x \in Conn |->
                 IF Doing(x, Looking) /\ pending[x].key = k /\ StillLinked(x)
                 THEN [pending[x] EXCEPT !.cas = cas_id + 1] ELSE pending[x]]
            /\ reply' = Reply(op, "OK", text, 0)
       ELSE SetMem(a.mem) /\ Answer(op, "EOM") /\ UNCHANGED <<pending, cas_id>>
  /\ UNCHANGED <<clock, flushed_cas>>

-----------------------------------------------------------------------------
(* Storage commands *)

\* process_update_command: the item is allocated and its data awaited, or the
\* command refused; then a set also drops the value it should have replaced.
process_update_command(c) ==
  /\ Idle(c)
  /\ \E locked \in LockedKeys :
       LET a == do_item_alloc(NoEntry, locked) IN
       /\ SetMem(a.mem)
       /\ \E comm \in Storage, k \in Key :
          \/ /\ a.ok
             /\ \E e \in ExpTimes, t \in Token,
                   cas \in IF comm \in {"cas", "append", "prepend"} THEN 0..cas_id ELSE {0} :
                  Begin(c, [comm |-> comm, key |-> k, val |-> <<t>>,
                            exptime |-> UpdateExpTime(e), cas |-> cas, id |-> 0])
             /\ UNCHANGED reply
          \/ /\ ~a.ok /\ comm = "set"
             /\ Begin(c, [comm |-> "stale", key |-> k, val |-> <<>>,
                          exptime |-> 0, cas |-> 0, id |-> 0])
             /\ UNCHANGED reply
          \/ ~a.ok /\ comm # "set" /\ Answer(comm, "OOM") /\ UNCHANGED pending
  /\ UNCHANGED <<cas_id, clock, flushed_cas>>

\* A set too large for any slab class: no chunk is looked for, and the old value goes as
\* it does without memory.  (Other commands that are too large change nothing.)
set_too_large(c) ==
  /\ Idle(c)
  /\ \E k \in Key :
       Begin(c, [comm |-> "stale", key |-> k, val |-> <<>>, exptime |-> 0, cas |-> 0, id |-> 0])
  /\ UNCHANGED <<cache, lru, reply, cas_id, clock, flushed_cas>>

\* "Avoid stale data persisting in cache because we failed alloc."
FindStale(c) ==
  /\ Doing(c, {"stale"})
  /\ item_get(c, "oom", pending[c].key)
  /\ UNCHANGED <<cas_id, clock, flushed_cas>>

\* do_store_item has the data: the outcome, and the item given back (c->item).
Leave(c, m, res) ==
  /\ SetMem(m)
  /\ Answer(pending[c].comm, res)
  /\ End(c)
  /\ UNCHANGED <<cas_id, clock, flushed_cas>>

Store(c, m, val, exptime) ==
  /\ cas_id < MaxCas
  /\ SetMem(do_item_replace(m, pending[c].key, val, exptime))
  /\ cas_id' = cas_id + 1
  /\ Answer(pending[c].comm, "STORED")
  /\ End(c)
  /\ UNCHANGED <<clock, flushed_cas>>

StoreSet(c) ==
  LET p == pending[c] IN
  /\ Doing(c, {"set"})
  /\ Store(c, AfterGet(p.key), p.val, p.exptime)

\* "add only adds a nonexistent item, but promote to head of LRU"
StoreAdd(c) ==
  LET p == pending[c] IN
  /\ Doing(c, {"add"})
  /\ \/ ~Hit(p.key) /\ Store(c, AfterGet(p.key), p.val, p.exptime)
     \/ Hit(p.key) /\ Leave(c, do_item_update(Mem, {p.key}), "NOT_STORED")

StoreReplace(c) ==
  LET p == pending[c] IN
  /\ Doing(c, {"replace"})
  /\ \/ Hit(p.key) /\ Store(c, Mem, p.val, p.exptime)
     \/ ~Hit(p.key) /\ Leave(c, AfterGet(p.key), "NOT_STORED")

\* Mutant: a newer item passes for the one that was fetched.
StoreCasNewer(c) ==
  LET p == pending[c] IN
  /\ Doing(c, {"cas"})
  /\ \/ ~Hit(p.key) /\ Leave(c, AfterGet(p.key), "NOT_FOUND")
     \/ Hit(p.key) /\ cache[p.key].cas >= p.cas /\ Store(c, Mem, p.val, p.exptime)
     \/ Hit(p.key) /\ cache[p.key].cas < p.cas /\ Leave(c, Mem, "EXISTS")

StoreCas(c) ==
  LET p == pending[c] IN
  /\ Doing(c, {"cas"})
  /\ \/ ~Hit(p.key) /\ Leave(c, AfterGet(p.key), "NOT_FOUND")
     \/ /\ Hit(p.key)
        /\ \/ cache[p.key].cas = p.cas /\ Store(c, Mem, p.val, p.exptime)
           \/ cache[p.key].cas # p.cas /\ Leave(c, Mem, "EXISTS")

\* append and prepend: a new item for both parts, with the old expiry time, unless the
\* two are too large for one.
StoreAppend(c) ==
  LET p == pending[c]
      old == cache[p.key]
  IN
  /\ Doing(c, {"append", "prepend"})
  /\ \/ ~Hit(p.key) /\ Leave(c, AfterGet(p.key), "NOT_STORED")
     \/ Hit(p.key) /\ p.cas \notin {0, old.cas} /\ Leave(c, Mem, "EXISTS")
     \/ /\ Hit(p.key) /\ p.cas \in {0, old.cas} /\ Len(old.val) = MaxLen
        /\ Leave(c, Mem, "NOT_STORED")
     \/ /\ Hit(p.key) /\ p.cas \in {0, old.cas} /\ Len(old.val) < MaxLen
        /\ \E locked \in LockedKeys :
             LET a == do_item_alloc(p.key, locked) IN
             \/ ~a.ok /\ Leave(c, a.mem, "NOT_STORED")
             \/ a.ok /\ Store(c, a.mem, IF p.comm = "append" THEN old.val \o p.val
                                                             ELSE p.val \o old.val, old.exptime)

\* A bad data block, or the connection is closed.
conn_release_items(c) ==
  /\ Doing(c, Storage)
  /\ End(c)
  /\ UNCHANGED <<cache, lru, cas_id, clock, reply, flushed_cas>>

-----------------------------------------------------------------------------
(* flush_all, the crawler and the clock *)

\* Mutant: items of the current second are left to the oldest_live checks.
FlushWalkNone(oldest) == {}

\* do_item_flush_expired walks from the head until it meets an item older than
\* oldest_live, or the crawler, whose time is 0.
FlushWalk(oldest) ==
  {k \in DOMAIN cache : \E n \in 1..Len(lru) :
     /\ lru[n] = k
     /\ \A i \in 1..n : lru[i] # Crawler /\ cache[lru[i]].time >= oldest}

flush_all(c, d) ==
  LET oldest == (IF d > 0 THEN realtime(d) - 1 ELSE current_time - 1) % RelTimeMod
      gone == IF oldest = 0 THEN {} ELSE FlushWalk(oldest)
  IN
  /\ Idle(c)
  /\ oldest_live' = oldest
  /\ SetMem(do_item_unlink(Mem, gone))
  /\ flushed_cas' = IF d > 0 THEN flushed_cas ELSE cas_id
  /\ Answer(IF d > 0 THEN "flush_later" ELSE "flush_all", "OK")
  /\ UNCHANGED <<pending, cas_id, current_time>>

\* lru_crawler crawl: the pseudo item goes to the tail of a nonempty LRU.
lru_crawler_crawl ==
  /\ lru_crawler /\ lru # <<>> /\ Crawler \notin Range(lru)
  /\ lru' = Append(lru, Crawler)
  /\ UNCHANGED <<cache, pending, cas_id, clock, reply, flushed_cas>>

\* One turn of item_crawler_thread: it leaves, at the head or after lru_crawler_tocrawl
\* items, or it passes the next item, which it reclaims if that has expired and is
\* neither locked nor referred to.
item_crawler_thread ==
  /\ Crawler \in Range(lru)
  /\ \/ lru' = Without(lru, {Crawler}) /\ UNCHANGED cache
     \/ \E n \in 2..Len(lru) :
          /\ lru[n] = Crawler
          /\ LET k == lru[n - 1]
                 moved == [Mem EXCEPT !.lru = [lru EXCEPT ![n - 1] = Crawler, ![n] = k]]
             IN \/ Reclaimable(cache[k]) /\ ~Held(k) /\ SetMem(do_item_unlink(moved, {k}))
                \/ ({k} \in LockedKeys \/ Held(k) \/ ~Reclaimable(cache[k])) /\ SetMem(moved)
  /\ UNCHANGED <<pending, cas_id, clock, reply, flushed_cas>>

clock_handler ==
  /\ current_time < StartTime + MaxTicks
  /\ current_time' = current_time + 1
  /\ UNCHANGED <<cache, lru, pending, cas_id, oldest_live, reply, flushed_cas>>

Next ==
  \/ \E c \in Conn, k \in Key :
       \/ process_get_command(c, k) \/ process_delete_command(c, k)
       \/ \E e \in TouchTimes : process_touch_command(c, k, e)
       \/ \E op \in {"incr", "decr"}, d \in Deltas :
            DeltaFails(c, op, k) \/ DeltaInPlace(c, op, k, d) \/ DeltaReplaces(c, op, k, d)
  \/ \E c \in Conn :
       \/ process_update_command(c) \/ set_too_large(c)
       \/ item_update(c) \/ item_unlink(c) \/ FindStale(c)
       \/ StoreSet(c) \/ StoreAdd(c) \/ StoreReplace(c) \/ StoreCas(c) \/ StoreAppend(c)
       \/ conn_release_items(c)
       \/ \E d \in FlushDelays : flush_all(c, d)
  \/ lru_crawler_crawl \/ item_crawler_thread \/ clock_handler

Spec == Init /\ [][Next]_vars

-----------------------------------------------------------------------------
(* Properties *)

Item == [val : Value, exptime : RelTime, time : StartTime..current_time, cas : 1..cas_id]
Command ==
  [comm : Storage, key : Key, val : {<<t>> : t \in Token}, exptime : RelTime,
   cas : 0..cas_id, id : {0}]
  \cup [comm : Looking, key : Key, val : Value, exptime : {0} \cup TouchTimes,
        cas : 1..cas_id, id : 1..cas_id]
  \cup [comm : {"stale"}, key : Key, val : {<<>>}, exptime : {0}, cas : {0}, id : {0}]

\* The types of the variables, with what the code relies on without checking it: the
\* hash table and the LRU hold the same items, each once, and no item is from the future.
TypeOK ==
  /\ DOMAIN cache \subseteq Key /\ cache \in [DOMAIN cache -> Item]
  /\ lru \in Seq(Key \cup {Crawler})
  /\ IsInjective(lru) /\ Range(lru) \ {Crawler} = DOMAIN cache
  /\ Crawler \in Range(lru) => lru_crawler
  /\ pending \in [Conn -> {NoEntry} \cup Command]
  /\ cas_id \in 0..MaxCas
  /\ current_time \in StartTime..(StartTime + MaxTicks)
  /\ oldest_live \in RelTime
  /\ flushed_cas \in 0..cas_id
  /\ Used <= MaxItems

\* do_item_flush_expired: "The LRU is sorted in decreasing time order", on which its
\* early stop relies, whatever was bumped, replaced, crawled over or evicted before.
LruSorted ==
  \A i, j \in 1..Len(lru) :
    i < j /\ Crawler \notin {lru[i], lru[j]} => cache[lru[i]].time >= cache[lru[j]].time

\* A live item goes only by a delete (or a set that got no chunk), by flush_all, or by
\* eviction when every chunk is in use; not by reclaiming, crawling or a flush to come.
NoSpuriousLoss ==
  [][\A k \in Key : Hit(k) /\ k \notin DOMAIN cache' =>
       \/ \E c \in Conn : Doing(c, {"delete", "oom"}) /\ pending[c].key = k /\ Idle(c)'
       \/ \E c \in Conn, d \in FlushDelays : flush_all(c, d)
       \/ evict_to_free /\ Used = MaxItems]_vars

\* doc/protocol.txt on flush_all: "After invalidation none of the items will be
\* returned in response to a retrieval command".
FlushInvalidates == \A k \in Key : Hit(k) => cache[k].cas > flushed_cas

\* doc/protocol.txt on gets: "<cas unique> is a unique 64-bit integer that uniquely
\* identifies this specific item": no value is returned under the cas id of another.
CasNamesValue ==
  \A k \in DOMAIN cache :
    reply.res = "HIT" /\ cache[k].cas = reply.cas => cache[k].val = reply.val

\* A touch with a negative exptime expires the item at once, as storing with one does
\* (process_update_command; doc/protocol.txt: "Works the same as with the update commands"):
\* realtime gets this right as long as the time is not before process_started.
TouchInThePast ==
  [][\A c \in Conn :
       Idle(c) /\ (Doing(c, {"touch"}) /\ pending[c].exptime \in (1 - current_time)..(-1))'
         => (~Hit(pending[c].key))']_vars

\* The engine is a KVCache: every reply is right for the entries a client can see, and
\* these appear by storage commands only, with fresh cas ids, and never come back.
Entries ==
  [k \in Key |-> IF Hit(k) THEN [val |-> cache[k].val, cas |-> cache[k].cas] ELSE NoEntry]
InProgress ==
  [c \in Conn |-> IF Idle(c) THEN NoEntry
                  ELSE [comm |-> pending[c].comm, key |-> pending[c].key, val |-> pending[c].val,
                        cas |-> pending[c].cas, id |-> pending[c].id]]

KV == INSTANCE KVCache WITH kv <- Entries, request <- InProgress, lastcas <- cas_id

ImplementsKVCache == KV!KVSpec
=============================================================================
