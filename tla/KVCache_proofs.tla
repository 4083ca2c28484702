--------------------------- MODULE KVCache_proofs ---------------------------
(***************************************************************************)
(* ItemCache implements KVCache: every step of the storage engine is a     *)
(* step of the map that clients see, or leaves it alone.                   *)
(***************************************************************************)
EXTENDS ItemCache_proofs

-----------------------------------------------------------------------------
(* The refinement mapping *)

EntryOf(k) == [val |-> cache[k].val, cas |-> cache[k].cas]

LEMMA EntryIs ==
  ASSUME Inv, NEW k \in Key
  PROVE  /\ Hit(k) => Entries[k] = EntryOf(k) /\ EntryOf(k) # NoEntry
         /\ ~Hit(k) => Entries[k] = NoEntry
<1>1. Entries[k] = IF Hit(k) THEN EntryOf(k) ELSE NoEntry
  BY DEF Entries, EntryOf
<1>2. ASSUME Hit(k) PROVE EntryOf(k) # NoEntry
  <2>1. cache[k].val \in Value /\ cache[k].cas \in 1..cas_id /\ cas_id \in 0..MaxCas /\ MaxCas \in Nat
    BY <1>2, HitFacts, Basics DEF Inv
  <2>2. EntryOf(k) \in [val : Value, cas : 0..MaxCas]
    BY <2>1 DEF EntryOf
  <2>3. NoEntry \notin [val : Value, cas : 0..MaxCas]
    BY NoEntryAssumption, Zenon
  <2> QED BY <2>2, <2>3
<1> QED BY <1>1, <1>2

LEMMA HitEntry ==
  ASSUME Inv, NEW k \in Key, Hit(k)
  PROVE  Entries[k] # NoEntry /\ Entries[k].val = cache[k].val /\ Entries[k].cas = cache[k].cas
<1>1. Entries[k] = EntryOf(k) /\ Entries[k] # NoEntry
  BY EntryIs
<1>2. EntryOf(k).val = cache[k].val /\ EntryOf(k).cas = cache[k].cas
  BY DEF EntryOf
<1> QED BY <1>1, <1>2

LEMMA EntriesDomain == DOMAIN Entries = Key /\ Entries = [k \in Key |-> Entries[k]]
BY DEF Entries

\* The same about the next state.
EntryFacts ==
  Inv => \A k \in Key : /\ Hit(k) => Entries[k] = EntryOf(k) /\ EntryOf(k) # NoEntry
                        /\ ~Hit(k) => Entries[k] = NoEntry

LEMMA EntryFactsHold == EntryFacts
BY EntryIs DEF EntryFacts

LEMMA EntryFactsNext == EntryFacts'
BY EntryFactsHold, PTL

LEMMA EntryIsNext ==
  ASSUME Inv', NEW k \in Key
  PROVE  /\ Hit(k)' => Entries'[k] = EntryOf(k)' /\ EntryOf(k)' # NoEntry
         /\ ~Hit(k)' => Entries'[k] = NoEntry
BY EntryFactsNext DEF EntryFacts

LEMMA EntriesDomainNext == DOMAIN Entries' = Key /\ Entries' = [k \in Key |-> Entries'[k]]
BY DEF Entries

\* The entry of k is the same, or not there any more.
KeptAt(k) ==
  Hit(k)' => Hit(k) /\ cache'[k].val = cache[k].val /\ cache'[k].cas = cache[k].cas

LEMMA KeptEntry ==
  ASSUME Inv, Inv', NEW k \in Key, KeptAt(k)
  PROVE  Entries'[k] = NoEntry \/ Entries'[k] = Entries[k]
<1>1. CASE Hit(k)'
  <2>1. Hit(k) /\ EntryOf(k)' = EntryOf(k)
    BY <1>1 DEF KeptAt, EntryOf
  <2> QED BY <1>1, <2>1, EntryIs, EntryIsNext
<1>2. CASE ~Hit(k)'
  BY <1>2, EntryIsNext
<1> QED BY <1>1, <1>2

LEMMA KeptKeep ==
  ASSUME Inv, Inv', \A k \in Key : KeptAt(k), cas_id' = cas_id
  PROVE  KV!Keep
<1>1. \A k \in Key : Entries'[k] = IF Entries'[k] = NoEntry THEN NoEntry ELSE Entries[k]
  BY KeptEntry
<1>2. Entries' = [k \in Key |-> IF Entries'[k] = NoEntry THEN NoEntry ELSE Entries[k]]
  BY <1>1, EntriesDomainNext
<1> QED BY <1>2 DEF KV!Keep, KV!Loses

\* k has the value v under the next cas id, or is gone again.
PutAt(k, v) ==
  /\ cas_id' = cas_id + 1
  /\ \A x \in Key : x # k => KeptAt(x)
  /\ Hit(k)' => cache'[k].val = v /\ cache'[k].cas = cas_id'

LEMMA PutPut ==
  ASSUME Inv, Inv', NEW k \in Key, NEW v, PutAt(k, v)
  PROVE  KV!Put(k, v)
<1>1. PICK new : new = [val |-> v, cas |-> cas_id']
  OBVIOUS
<1>2. Entries'[k] = NoEntry \/ Entries'[k] = new
  <2>1. CASE Hit(k)'
    <3>1. EntryOf(k)' = new
      BY <1>1, <2>1 DEF PutAt, EntryOf
    <3> QED BY <2>1, <3>1, EntryIsNext
  <2>2. CASE ~Hit(k)'
    BY <2>2, EntryIsNext
  <2> QED BY <2>1, <2>2
<1>3. \A x \in Key : x # k => Entries'[x] = NoEntry \/ Entries'[x] = Entries[x]
  BY KeptEntry DEF PutAt
<1>4. PICK f : f = [Entries EXCEPT ![k] = new]
  OBVIOUS
<1>5. f[k] = new /\ \A x \in Key : x # k => f[x] = Entries[x]
  BY <1>4, EntriesDomain
<1>6. \A x \in Key : Entries'[x] = IF Entries'[x] = NoEntry THEN NoEntry ELSE f[x]
  BY <1>2, <1>3, <1>5
<1>7. Entries' = [x \in Key |-> IF Entries'[x] = NoEntry THEN NoEntry ELSE f[x]]
  BY <1>6, EntriesDomainNext
<1>8. cas_id' > cas_id
  BY Basics DEF PutAt
<1> QED BY <1>1, <1>4, <1>7, <1>8 DEF KV!Put, KV!Loses

-----------------------------------------------------------------------------
(* Steps of the memory as steps of the map *)

LEMMA KeepsKept ==
  ASSUME Inv, FlushInv0, NEW gone, NEW ks, Keeps(gone, ks), Bumped(ks), UNCHANGED clock
  PROVE  \A k \in Key : KeptAt(k)
<1> SUFFICES ASSUME NEW k \in Key, Hit(k)'
             PROVE  Hit(k) /\ cache'[k].val = cache[k].val /\ cache'[k].cas = cache[k].cas
  BY DEF KeptAt
<1>1. /\ k \in DOMAIN cache' /\ oldest_live' = oldest_live /\ current_time' = current_time
      /\ ~(oldest_live # 0 /\ oldest_live <= current_time /\ cache'[k].time <= oldest_live)
      /\ ~(cache'[k].exptime # 0 /\ cache'[k].exptime <= current_time)
  BY DEF Hit, Flushed, Expired, clock
<1>2. /\ k \in DOMAIN cache /\ SameItem(cache[k], cache'[k])
      /\ cache'[k].time = cache[k].time \/ k \in ks
  BY <1>1 DEF Keeps, Change
<1>3. ~Flushed(cache[k])
  <2>1. CASE k \in ks
    <3>1. cache[k].time > oldest_live
      BY <2>1, LiveIsNew DEF Bumped
    <3> QED BY <1>2, <3>1, FlushNumbers DEF Flushed
  <2>2. CASE cache'[k].time = cache[k].time
    BY <1>1, <2>2 DEF Flushed
  <2> QED BY <1>2, <2>1, <2>2
<1>4. ~Expired(cache[k])
  BY <1>1, <1>2 DEF Expired, SameItem
<1> QED BY <1>2, <1>3, <1>4 DEF Hit, SameItem

LEMMA KeepKeep ==
  ASSUME Inv, Inv', FlushInv0, KeepStep, UNCHANGED <<clock, cas_id>>
  PROVE  KV!Keep
<1>1. PICK gone, ks : Keeps(gone, ks) /\ Bumped(ks)
  BY DEF KeepStep
<1>2. \A k \in Key : KeptAt(k)
  BY <1>1, KeepsKept
<1> QED BY <1>2, KeptKeep

LEMMA PutStepPut ==
  ASSUME Inv, Inv', FlushInv0, NEW k \in Key, NEW v, PutStep(k, v), UNCHANGED clock
  PROVE  KV!Put(k, v)
<1>1. PICK gone, ks : Puts(gone, ks, k, v) /\ Bumped(ks)
  BY DEF PutStep
<1>2. ASSUME NEW x \in Key, x # k, Hit(x)'
      PROVE  Hit(x) /\ cache'[x].val = cache[x].val /\ cache'[x].cas = cache[x].cas
  <2>1. /\ x \in DOMAIN cache' /\ oldest_live' = oldest_live /\ current_time' = current_time
        /\ ~(oldest_live # 0 /\ oldest_live <= current_time /\ cache'[x].time <= oldest_live)
        /\ ~(cache'[x].exptime # 0 /\ cache'[x].exptime <= current_time)
    BY <1>2 DEF Hit, Flushed, Expired, clock
  <2>2. /\ x \in DOMAIN cache /\ SameItem(cache[x], cache'[x])
        /\ cache'[x].time = cache[x].time \/ x \in ks
    BY <1>1, <1>2, <2>1 DEF Puts
  <2>3. ~Flushed(cache[x])
    <3>1. CASE x \in ks
      <4>1. cache[x].time > oldest_live
        BY <1>1, <3>1, LiveIsNew DEF Bumped
      <4> QED BY <2>2, <4>1, FlushNumbers DEF Flushed
    <3>2. CASE cache'[x].time = cache[x].time
      BY <2>1, <3>2 DEF Flushed
    <3> QED BY <2>2, <3>1, <3>2
  <2>4. ~Expired(cache[x])
    BY <2>1, <2>2 DEF Expired, SameItem
  <2> QED BY <2>2, <2>3, <2>4 DEF Hit, SameItem
<1>3. PutAt(k, v)
  BY <1>1, <1>2 DEF PutAt, KeptAt, Puts, PutStep
<1> QED BY <1>3, PutPut

-----------------------------------------------------------------------------
(* Commands in progress *)

Cut(r) == [comm |-> r.comm, key |-> r.key, val |-> r.val, cas |-> r.cas, id |-> r.id]

LEMMA RequestIs ==
  /\ InProgress = [c \in Conn |-> IF pending[c] = NoEntry THEN NoEntry ELSE Cut(pending[c])]
  /\ InProgress' = [c \in Conn |-> IF pending'[c] = NoEntry THEN NoEntry ELSE Cut(pending'[c])]
BY DEF InProgress, Idle, Cut

LEMMA CutFacts ==
  ASSUME NEW last \in 0..MaxCas, NEW r \in CommandAt(last)
  PROVE  /\ Cut(r) # NoEntry /\ r # NoEntry
         /\ Cut(r).comm = r.comm /\ Cut(r).key = r.key /\ Cut(r).val = r.val /\ Cut(r).cas = r.cas
         /\ Cut(r).id = r.id
<1>1. MaxCas \in Nat
  BY SizeAssumption
<1> DEFINE R == [comm : Storage \cup Looking \cup {"stale"}, key : Key, val : Value \cup {<<>>},
                 cas : 0..MaxCas, id : 0..MaxCas]
<1>2. last \in Nat /\ 0..last \subseteq 0..MaxCas /\ 1..last \subseteq 0..MaxCas
      /\ 0 \in 0..MaxCas
  BY <1>1
<1>3. {<<t>> : t \in Token} \subseteq Value
  BY CharValue
<1>4. /\ r.comm \in Storage \cup Looking \cup {"stale"} /\ r.key \in Key
      /\ r.val \in Value \cup {<<>>} /\ r.cas \in 0..MaxCas /\ r.id \in 0..MaxCas
  BY <1>2, <1>3 DEF CommandAt
<1>5. Cut(r) \in R
  BY <1>4 DEF Cut
<1>6. NoEntry \notin R
  BY NoEntryAssumption, Zenon
<1>7. r # NoEntry
  BY CommandFacts
<1> QED BY <1>5, <1>6, <1>7 DEF Cut

LEMMA SameRequest ==
  ASSUME pending' = pending
  PROVE  InProgress' = InProgress
BY RequestIs

LEMMA IdleRequest ==
  ASSUME NEW c \in Conn
  PROVE  Idle(c) => InProgress[c] = NoEntry
BY RequestIs DEF Idle

LEMMA BusyRequest ==
  ASSUME Inv, NEW c \in Conn, pending[c] # NoEntry
  PROVE  /\ InProgress[c] # NoEntry /\ InProgress[c] = Cut(pending[c])
         /\ InProgress[c].comm = pending[c].comm /\ InProgress[c].key = pending[c].key
         /\ InProgress[c].val = pending[c].val /\ InProgress[c].cas = pending[c].cas
         /\ InProgress[c].id = pending[c].id
<1>1. PICK r : r = pending[c]
  OBVIOUS
<1>2. r \in CommandAt(cas_id) /\ cas_id \in 0..MaxCas
  BY <1>1, PendFacts DEF Inv
<1>3. InProgress[c] = Cut(r)
  BY <1>1, RequestIs
<1> QED BY <1>1, <1>2, <1>3, CutFacts

LEMMA EndRequest ==
  ASSUME Inv, NEW c \in Conn, pending[c] # NoEntry, pending' = [pending EXCEPT ![c] = NoEntry]
  PROVE  KV!End(c)
<1>1. pending'[c] = NoEntry /\ \A d \in Conn : d # c => pending'[d] = pending[d]
  BY DEF Inv, PendOK
<1>2. InProgress' = [InProgress EXCEPT ![c] = NoEntry]
  BY <1>1, RequestIs
<1>3. InProgress[c] # NoEntry
  BY BusyRequest
<1> QED BY <1>2, <1>3 DEF KV!End

LEMMA SetRequest ==
  ASSUME Inv, NEW c \in Conn, NEW r \in CommandAt(cas_id), pending' = [pending EXCEPT ![c] = r]
  PROVE  InProgress' = [InProgress EXCEPT ![c] = Cut(r)] /\ InProgress'[c] = Cut(r)
<1>1. pending'[c] = r /\ \A d \in Conn : d # c => pending'[d] = pending[d]
  BY DEF Inv, PendOK
<1>2. r # NoEntry
  BY CommandFacts DEF Inv
<1>3. InProgress'[c] = Cut(r) /\ \A d \in Conn : d # c => InProgress'[d] = InProgress[d]
  BY <1>1, <1>2, RequestIs
<1>4. InProgress' = [InProgress EXCEPT ![c] = Cut(r)]
  BY <1>3, RequestIs
<1> QED BY <1>3, <1>4

-----------------------------------------------------------------------------
(* get, touch and delete *)

LEMMA FoundCut ==
  ASSUME Inv, NEW comm, NEW k \in Key, NEW e, Hit(k)
  PROVE  Cut(Found(comm, k, e)) = KV!Saw(comm, k) /\ Entries[k] # NoEntry
<1>1. Entries[k] # NoEntry /\ Entries[k].val = cache[k].val /\ Entries[k].cas = cache[k].cas
  BY HitEntry
<1> QED BY <1>1 DEF Cut, Found, KV!Saw

LEMMA LookKV ==
  ASSUME Inv, Inv', FlushInv0, NEW c \in Conn, Idle(c), NEW k \in Key,
         NEW comm \in {"get", "touch", "delete"}, item_get(c, comm, k),
         KeepStep, UNCHANGED <<clock, cas_id>>
  PROVE  KV!Look(c, comm, k)
<1>1. KV!Keep
  BY KeepKeep
<1>2. CASE Hit(k)
  <2>1. PICK r : r = Found(comm, k, 0)
    OBVIOUS
  <2>2. pending' = [pending EXCEPT ![c] = r] /\ reply' = reply
    BY <1>2, <2>1 DEF item_get, Begin, Found
  <2>3. r \in CommandAt(cas_id)
    <3>1. comm \in Looking
      BY DEF Looking
    <3> QED BY <1>2, <2>1, <3>1, FoundFacts
  <2>4. InProgress' = [InProgress EXCEPT ![c] = Cut(r)]
    BY <2>2, <2>3, SetRequest
  <2>5. Cut(r) = KV!Saw(comm, k) /\ Entries[k] # NoEntry
    BY <1>2, <2>1, FoundCut
  <2> QED BY <1>1, <2>2, <2>4, <2>5, IdleRequest DEF KV!Look, KV!Begin
<1>3. CASE ~Hit(k)
  <2>1. pending' = [pending EXCEPT ![c] = NoEntry] /\ reply' = Reply(comm, "NOT_FOUND", <<>>, 0)
    BY <1>3 DEF item_get, End, Begin, Answer
  <2>2. pending' = pending
    BY <2>1 DEF Idle, Inv, PendOK
  <2>3. InProgress' = InProgress /\ Entries[k] = NoEntry
    BY <1>3, <2>2, SameRequest, EntryIs
  <2> QED BY <1>1, <2>1, <2>3 DEF KV!Look, KV!Status, KV!Reply, Reply
<1> QED BY <1>2, <1>3

LEMMA GetKV ==
  ASSUME Inv, FlushInv0, NEW c \in Conn, NEW k \in Key, process_get_command(c, k)
  PROVE  KV!Look(c, "get", k)
<1>1. Idle(c) /\ item_get(c, "get", k) /\ UNCHANGED <<clock, cas_id>>
  BY DEF process_get_command
<1> QED BY <1>1, GetInv, LookKV

LEMMA DeleteKV ==
  ASSUME Inv, FlushInv0, NEW c \in Conn, NEW k \in Key, process_delete_command(c, k)
  PROVE  KV!Look(c, "delete", k)
<1>1. Idle(c) /\ item_get(c, "delete", k) /\ UNCHANGED <<clock, cas_id>>
  BY DEF process_delete_command
<1> QED BY <1>1, DeleteInv, LookKV

LEMMA TouchKV ==
  ASSUME Inv, FlushInv0, NEW c \in Conn, NEW k \in Key, NEW e \in TouchTimes,
         process_touch_command(c, k, e)
  PROVE  KV!Look(c, "touch", k)
<1>1. Idle(c) /\ UNCHANGED <<clock, cas_id>>
  BY DEF process_touch_command
<1>2. CASE Hit(k)
  <2>1. PICK r : r = Found("touch", k, e)
    OBVIOUS
  <2>2. pending' = [pending EXCEPT ![c] = r] /\ reply' = reply
    BY <1>2, <2>1 DEF process_touch_command, Begin, Found
  <2>3. r \in CommandAt(cas_id)
    <3>1. "touch" \in Looking
      BY DEF Looking
    <3> QED BY <1>2, <2>1, <3>1, FoundFacts
  <2>4. InProgress' = [InProgress EXCEPT ![c] = Cut(r)]
    BY <2>2, <2>3, SetRequest
  <2>5. Cut(r) = KV!Saw("touch", k) /\ Entries[k] # NoEntry
    BY <1>2, <2>1, FoundCut
  <2>6. Inv' /\ Touches(k, e)
    BY <1>2, TouchHit
  <2>7. \A x \in Key : KeptAt(x)
    <3> SUFFICES ASSUME NEW x \in Key, Hit(x)'
                 PROVE  Hit(x) /\ cache'[x].val = cache[x].val /\ cache'[x].cas = cache[x].cas
      BY DEF KeptAt
    <3>1. CASE x = k
      BY <1>2, <2>6, <3>1 DEF Touches
    <3>2. CASE x # k
      <4>1. x \in DOMAIN cache /\ cache'[x] = cache[x]
        BY <2>6, <3>2 DEF Touches, Hit
      <4> QED BY <1>1, <4>1 DEF Hit, Flushed, Expired, clock
    <3> QED BY <3>1, <3>2
  <2>8. KV!Keep
    BY <1>1, <2>6, <2>7, KeptKeep
  <2> QED BY <1>1, <2>2, <2>4, <2>5, <2>8, IdleRequest DEF KV!Look, KV!Begin
<1>3. CASE ~Hit(k)
  <2>1. item_get(c, "touch", k)
    BY <1>3 DEF process_touch_command
  <2> QED BY <1>1, <1>3, <2>1, TouchMiss, LookKV
<1> QED BY <1>2, <1>3

LEMMA UpdateKV ==
  ASSUME Inv, FlushInv0, NEW c \in Conn, item_update(c)
  PROVE  KV!GetReply(c) \/ KV!TouchReply(c)
<1>1. /\ pending[c] # NoEntry /\ pending[c].comm \in {"get", "touch"}
      /\ pending' = [pending EXCEPT ![c] = NoEntry] /\ UNCHANGED <<clock, cas_id>>
  BY DEF item_update, Doing, End, Begin
<1>2. KV!Keep
  BY <1>1, UpdateInv, KeepKeep
<1>3. KV!End(c)
  BY <1>1, EndRequest
<1>4. /\ InProgress[c].comm = pending[c].comm
      /\ InProgress[c].val = pending[c].val /\ InProgress[c].cas = pending[c].cas
  BY <1>1, BusyRequest
<1>5. CASE pending[c].comm = "get"
  <2>1. reply' = Reply("get", "HIT", pending[c].val, pending[c].cas)
    BY <1>5 DEF item_update
  <2> QED BY <1>2, <1>3, <1>4, <1>5, <2>1 DEF KV!GetReply, KV!Reply, Reply
<1>6. CASE pending[c].comm = "touch"
  <2>1. reply' = Reply("touch", "TOUCHED", <<>>, 0)
    BY <1>6 DEF item_update, Answer
  <2> QED BY <1>2, <1>3, <1>4, <1>6, <2>1 DEF KV!TouchReply, KV!Status, KV!Reply, Reply
<1> QED BY <1>1, <1>5, <1>6

LEMMA UnlinkKV ==
  ASSUME Inv, FlushInv0, NEW c \in Conn, item_unlink(c)
  PROVE  KV!DeleteReply(c)
<1>1. /\ pending[c] # NoEntry /\ pending[c].comm \in {"delete", "oom"}
      /\ pending' = [pending EXCEPT ![c] = NoEntry] /\ UNCHANGED <<clock, cas_id>>
      /\ reply' = IF pending[c].comm = "delete" THEN Reply("delete", "DELETED", <<>>, 0)
                                                ELSE Reply("set", "OOM", <<>>, 0)
  BY DEF item_unlink, Doing, End, Begin, Answer
<1>2. PICK k : k = pending[c].key
  OBVIOUS
<1>3. Inv'
  BY UnlinkInv
<1>4. PICK gone : Keeps(gone, {}) /\ gone \subseteq {k} /\ (StillLinked(c) => gone = {k})
  BY <1>2, UnlinkInv
<1>5. KV!Keep
  <2>1. Bumped({})
    BY DEF Bumped
  <2>2. \A x \in Key : KeptAt(x)
    BY <1>1, <1>4, <2>1, KeepsKept
  <2> QED BY <1>1, <1>3, <2>2, KeptKeep
<1>6. KV!End(c)
  BY <1>1, EndRequest
<1>7. /\ InProgress[c].comm = pending[c].comm /\ InProgress[c].key = k
      /\ InProgress[c].id = pending[c].id /\ k \in Key
  BY <1>1, <1>2, BusyRequest, PendFacts
<1>8. ASSUME Entries'[k] # NoEntry PROVE Entries'[k].cas # pending[c].id
  <2>1. Hit(k)' /\ Entries'[k] = EntryOf(k)'
    BY <1>3, <1>7, <1>8, EntryIsNext
  <2>2. k \in DOMAIN cache' /\ Entries'[k].cas = cache'[k].cas
    BY <2>1 DEF Hit, EntryOf
  <2>3. k \in DOMAIN cache /\ k \notin gone /\ cache'[k].cas = cache[k].cas
    BY <1>4, <2>2 DEF Keeps, Change, SameItem
  <2>4. ~StillLinked(c)
    BY <1>4, <2>3
  <2> QED BY <1>2, <2>2, <2>3, <2>4 DEF StillLinked
<1> QED BY <1>1, <1>5, <1>6, <1>7, <1>8 DEF KV!DeleteReply, KV!Status, KV!Reply, Reply

LEMMA StaleKV ==
  ASSUME Inv, FlushInv0, NEW c \in Conn, FindStale(c)
  PROVE  KV!FindStale(c)
<1>1. PICK k : k = pending[c].key
  OBVIOUS
<1>2. /\ pending[c] # NoEntry /\ pending[c].comm = "stale" /\ item_get(c, "oom", k)
      /\ UNCHANGED <<clock, cas_id>>
  BY <1>1 DEF FindStale, Doing
<1>3. KV!Keep
  BY <1>2, StaleInv, KeepKeep
<1>4. /\ InProgress[c] # NoEntry /\ InProgress[c].comm = "stale" /\ InProgress[c].key = k
      /\ k \in Key
  BY <1>1, <1>2, BusyRequest, PendFacts
<1>5. CASE Hit(k)
  <2>1. PICK r : r = Found("oom", k, 0)
    OBVIOUS
  <2>2. pending' = [pending EXCEPT ![c] = r] /\ reply' = reply
    BY <1>2, <1>5, <2>1 DEF item_get, Begin, Found
  <2>3. r \in CommandAt(cas_id)
    <3>1. "oom" \in Looking
      BY DEF Looking
    <3> QED BY <1>5, <2>1, <3>1, FoundFacts
  <2>4. InProgress' = [InProgress EXCEPT ![c] = Cut(r)]
    BY <2>2, <2>3, SetRequest
  <2>5. Cut(r) = KV!Saw("oom", k) /\ Entries[k] # NoEntry
    BY <1>4, <1>5, <2>1, FoundCut
  <2> QED BY <1>3, <1>4, <2>2, <2>4, <2>5 DEF KV!FindStale
<1>6. CASE ~Hit(k)
  <2>1. pending' = [pending EXCEPT ![c] = NoEntry] /\ reply' = Reply("set", "OOM", <<>>, 0)
    BY <1>2, <1>6 DEF item_get, End, Begin, Answer
  <2>2. KV!End(c) /\ Entries[k] = NoEntry
    BY <1>2, <1>4, <1>6, <2>1, EndRequest, EntryIs
  <2> QED BY <1>3, <1>4, <2>1, <2>2 DEF KV!FindStale, KV!Status, KV!Reply, Reply
<1> QED BY <1>5, <1>6

-----------------------------------------------------------------------------
(* incr and decr *)

\* The commands that incr gives its new cas id are those that refer to the item of k.
Sees(x, k) == InProgress[x] # NoEntry /\ InProgress[x].key = k /\ InProgress[x].id = Entries[k].cas

LEMMA SeesIs ==
  ASSUME Inv, NEW k \in Key, Hit(k), NEW x \in Conn
  PROVE  Sees(x, k) <=> Doing(x, Looking) /\ pending[x].key = k /\ StillLinked(x)
<1>1. Entries[k].cas = cache[k].cas /\ k \in DOMAIN cache /\ cache[k].cas \in 1..cas_id
  BY HitEntry, HitFacts
<1>2. CASE pending[x] = NoEntry
  <2>1. InProgress[x] = NoEntry
    BY <1>2, RequestIs
  <2> QED BY <1>2, <2>1 DEF Sees, Doing
<1>3. CASE pending[x] # NoEntry
  <2>1. /\ InProgress[x] # NoEntry /\ InProgress[x].key = pending[x].key
        /\ InProgress[x].id = pending[x].id
    BY <1>3, BusyRequest
  <2>2. /\ pending[x].comm \in Storage \cup Looking \cup {"stale"}
        /\ pending[x].comm \in Storage => pending[x].id = 0
        /\ pending[x].comm = "stale" => pending[x].id = 0
    BY <1>3, PendFacts
  <2>3. cache[k].cas # 0
    BY <1>1, Basics
  <2> QED BY <1>1, <1>3, <2>1, <2>2, <2>3 DEF Sees, Doing, StillLinked
<1> QED BY <1>2, <1>3

LEMMA DeltaFailsKV ==
  ASSUME Inv, FlushInv0, NEW c \in Conn, NEW op, NEW k \in Key, DeltaFails(c, op, k)
  PROVE  KV!ArithmeticFails(op, k)
<1>1. pending' = pending /\ UNCHANGED <<clock, cas_id>>
  BY DEF DeltaFails
<1>2. KV!Keep
  BY <1>1, DeltaFailsInv, KeepKeep
<1>3. InProgress' = InProgress
  BY <1>1, SameRequest
<1>4. CASE ~Hit(k)
  <2>1. reply' = Reply(op, "NOT_FOUND", <<>>, 0)
    BY <1>4 DEF DeltaFails, Answer
  <2>2. Entries[k] = NoEntry
    BY <1>4, EntryIs
  <2> QED BY <1>2, <1>3, <2>1, <2>2 DEF KV!ArithmeticFails, KV!Status, KV!Reply, Reply
<1>5. CASE Hit(k)
  <2>1. reply' = Reply(op, "NON_NUMERIC", <<>>, 0) /\ ~Numeric(cache[k].val)
    BY <1>5 DEF DeltaFails, Answer
  <2>2. Entries[k] # NoEntry /\ Entries[k].val = cache[k].val
    BY <1>5, HitEntry
  <2>3. ~Numeric(Entries[k].val)
    BY <2>1, <2>2
  <2> QED BY <1>2, <1>3, <2>1, <2>2, <2>3 DEF KV!ArithmeticFails, KV!Status, KV!Reply, Reply
<1> QED BY <1>4, <1>5

LEMMA InPlaceKV ==
  ASSUME Inv, FlushInv0, NEW c \in Conn, NEW op, NEW k \in Key, NEW d \in Deltas,
         DeltaInPlace(c, op, k, d)
  PROVE  KV!Arithmetic(op, k, d)
<1>1. PICK old : old = cache[k].val
  OBVIOUS
<1>2. PICK text : text = Result(op, old, d)
  OBVIOUS
<1>3. /\ Hit(k) /\ Numeric(old) /\ Len(text) <= Len(old) /\ ~Held(k)
      /\ reply' = Reply(op, "OK", text, 0) /\ pending' = pending /\ UNCHANGED clock
  BY <1>1, <1>2 DEF DeltaInPlace, InPlace
<1>4. Entries[k] # NoEntry /\ Entries[k].val = old
  BY <1>1, <1>3, HitEntry
<1>5. PICK v : v = Padded(text, Len(old))
  OBVIOUS
<1>6. Inv' /\ PutStep(k, v)
  BY <1>1, <1>2, <1>5, InPlaceInv
<1>7. KV!Put(k, v)
  BY <1>3, <1>6, PutStepPut
<1>8. KV!Restamp(k)
  <2>1. \A x \in Conn : ~Sees(x, k)
    BY <1>3, SeesIs DEF Held
  <2>2. InProgress' = InProgress /\ InProgress = [x \in Conn |-> InProgress[x]]
    BY <1>3, RequestIs
  <2>3. InProgress' = [x \in Conn |-> IF Sees(x, k) THEN [InProgress[x] EXCEPT !.cas = cas_id']
                                                   ELSE InProgress[x]]
    BY <2>1, <2>2
  <2> QED BY <2>3 DEF KV!Restamp, Sees
<1> QED BY <1>2, <1>3, <1>4, <1>5, <1>7, <1>8 DEF KV!Arithmetic, KV!Reply, Reply

LEMMA DeltaReplacesKV ==
  ASSUME Inv, FlushInv0, NEW c \in Conn, NEW op, NEW k \in Key, NEW d \in Deltas,
         DeltaReplaces(c, op, k, d)
  PROVE  KV!Arithmetic(op, k, d) \/ KV!ArithmeticFails(op, k)
<1>1. PICK old : old = cache[k].val
  OBVIOUS
<1>2. PICK text : text = Result(op, old, d)
  OBVIOUS
<1>3. Hit(k) /\ Numeric(old) /\ UNCHANGED clock
  BY <1>1, <1>2 DEF DeltaReplaces
<1>4. Entries[k] # NoEntry /\ Entries[k].val = old
  BY <1>1, <1>3, HitEntry
<1>5. Inv'
  BY DeltaReplacesInv
<1>6. CASE KeepStep /\ Answer(op, "EOM") /\ UNCHANGED <<pending, cas_id>>
  <2>1. KV!Keep /\ InProgress' = InProgress
    BY <1>3, <1>5, <1>6, KeepKeep, SameRequest
  <2>2. reply' = Reply(op, "EOM", <<>>, 0)
    BY <1>6 DEF Answer
  <2>3. KV!ArithmeticFails(op, k)
    BY <1>3, <1>4, <2>1, <2>2 DEF KV!ArithmeticFails, KV!Status, KV!Reply, Reply
  <2> QED BY <2>3
<1>7. CASE /\ PutStep(k, text) /\ reply' = Reply(op, "OK", text, 0)
           /\ pending' = [x \in Conn |->
                IF Doing(x, Looking) /\ pending[x].key = k /\ StillLinked(x)
                THEN [pending[x] EXCEPT !.cas = cas_id + 1] ELSE pending[x]]
  <2>1. KV!Put(k, text) /\ cas_id' = cas_id + 1
    BY <1>3, <1>5, <1>7, PutStepPut DEF PutStep
  <2>2. ASSUME NEW x \in Conn
        PROVE  InProgress'[x] = IF Sees(x, k) THEN [InProgress[x] EXCEPT !.cas = cas_id']
                                              ELSE InProgress[x]
    <3>1. CASE Sees(x, k)
      <4>1. pending[x] # NoEntry /\ pending'[x] = [pending[x] EXCEPT !.cas = cas_id + 1]
        BY <1>3, <1>7, <3>1, SeesIs DEF Doing
      <4>2. PICK r : r = pending[x]
        OBVIOUS
      <4>3. r \in CommandAt(cas_id) /\ InProgress[x] = Cut(r)
        BY <4>1, <4>2, PendFacts, BusyRequest
      <4>4. PICK q : q = [r EXCEPT !.cas = cas_id + 1]
        OBVIOUS
      <4>5. Cut(q) = [Cut(r) EXCEPT !.cas = cas_id + 1]
        <5>1. DOMAIN r = {"comm", "key", "val", "exptime", "cas", "id"}
          BY <4>3 DEF CommandAt
        <5>2. /\ q.comm = r.comm /\ q.key = r.key /\ q.val = r.val /\ q.id = r.id
              /\ q.cas = cas_id + 1
          BY <4>4, <5>1
        <5> QED BY <5>2 DEF Cut
      <4>6. pending'[x] = q
        BY <4>1, <4>2, <4>4
      <4>7. pending'[x] # NoEntry
        <5>1. q \in CommandAt(cas_id')
          <6>1. r.comm \in Looking /\ cas_id \in Nat
            BY <1>3, <3>1, <4>2, SeesIs, Basics DEF Doing
          <6>2. r \in [comm : Looking, key : Key, val : Value, exptime : {0} \cup TouchTimes,
                       cas : 1..cas_id, id : 1..cas_id]
            BY <4>3, <6>1 DEF CommandAt, Looking, Storage
          <6>3. 1..cas_id \subseteq 1..cas_id' /\ cas_id' \in 1..cas_id'
            BY <2>1, <6>1
          <6> QED BY <2>1, <4>4, <6>2, <6>3 DEF CommandAt
        <5>2. cas_id' \in 0..MaxCas
          BY <1>5 DEF Inv
        <5> QED BY <4>6, <5>1, <5>2, CommandFacts
      <4>8. InProgress'[x] = Cut(q)
        BY <4>6, <4>7, RequestIs
      <4> QED BY <2>1, <3>1, <4>3, <4>5, <4>8
    <3>2. CASE ~Sees(x, k)
      <4>1. pending'[x] = pending[x]
        BY <1>3, <1>7, <3>2, SeesIs
      <4> QED BY <3>2, <4>1, RequestIs
    <3> QED BY <3>1, <3>2
  <2>3. InProgress' = [x \in Conn |-> IF Sees(x, k) THEN [InProgress[x] EXCEPT !.cas = cas_id']
                                                   ELSE InProgress[x]]
    BY <2>2, RequestIs
  <2>4. KV!Restamp(k)
    BY <2>3 DEF KV!Restamp, Sees
  <2>5. KV!Arithmetic(op, k, d)
    BY <1>2, <1>3, <1>4, <1>7, <2>1, <2>4 DEF KV!Arithmetic, KV!Reply, Reply
  <2> QED BY <2>5
<1> QED BY <1>1, <1>2, <1>6, <1>7, DeltaReplacesInv

-----------------------------------------------------------------------------
(* Storage commands *)

LEMMA RequestKV ==
  ASSUME Inv, FlushInv0, NEW c \in Conn, process_update_command(c)
  PROVE  KV!Request(c) \/ KV!Refuse(c)
<1>1. Inv' /\ KeepStep /\ UNCHANGED <<clock, cas_id>> /\ Idle(c) /\ cas_id \in Nat
  BY RequestInv, Basics DEF process_update_command
<1>2. KV!Keep /\ InProgress[c] = NoEntry
  BY <1>1, KeepKeep, IdleRequest
<1>3. PICK comm \in Storage, k \in Key :
           \/ /\ \E e \in ExpTimes, t \in Token,
                    cas \in IF comm \in {"cas", "append", "prepend"} THEN 0..cas_id ELSE {0} :
                   Begin(c, [comm |-> comm, key |-> k, val |-> <<t>>,
                             exptime |-> UpdateExpTime(e), cas |-> cas, id |-> 0])
              /\ UNCHANGED reply
           \/ /\ Begin(c, [comm |-> "stale", key |-> k, val |-> <<>>,
                           exptime |-> 0, cas |-> 0, id |-> 0])
              /\ UNCHANGED reply
           \/ comm # "set" /\ Answer(comm, "OOM") /\ UNCHANGED pending
  BY Zenon DEF process_update_command
<1>4. ASSUME NEW e \in ExpTimes, NEW t \in Token,
             NEW cas \in IF comm \in {"cas", "append", "prepend"} THEN 0..cas_id ELSE {0},
             Begin(c, [comm |-> comm, key |-> k, val |-> <<t>>,
                       exptime |-> UpdateExpTime(e), cas |-> cas, id |-> 0]),
             UNCHANGED reply
      PROVE  KV!Request(c)
  <2>1. PICK x : x = UpdateExpTime(e)
    OBVIOUS
  <2>2. PICK r : r = [comm |-> comm, key |-> k, val |-> <<t>>, exptime |-> x, cas |-> cas, id |-> 0]
    OBVIOUS
  <2>3. x \in RelTime /\ cas \in 0..cas_id
    BY <1>1, <2>1, UpdateExpTimeType
  <2>4. r \in CommandAt(cas_id)
    BY <2>2, <2>3 DEF CommandAt
  <2>5. pending' = [pending EXCEPT ![c] = r]
    BY <1>4, <2>1, <2>2 DEF Begin
  <2>6. InProgress' = [InProgress EXCEPT ![c] = Cut(r)] /\ InProgress'[c] = Cut(r)
    BY <2>4, <2>5, SetRequest
  <2>7. Cut(r) \in KV!Requests
    BY <2>2, <2>3 DEF Cut, KV!Requests, KV!Storage, Storage
  <2> QED BY <1>2, <1>4, <2>6, <2>7 DEF KV!Request, KV!Begin
<1>5. ASSUME Begin(c, [comm |-> "stale", key |-> k, val |-> <<>>,
                       exptime |-> 0, cas |-> 0, id |-> 0]),
             UNCHANGED reply
      PROVE  KV!Refuse(c)
  <2>1. PICK r : r = [comm |-> "stale", key |-> k, val |-> <<>>, exptime |-> 0, cas |-> 0, id |-> 0]
    OBVIOUS
  <2>2. r \in CommandAt(cas_id)
    BY <2>1 DEF CommandAt
  <2>3. pending' = [pending EXCEPT ![c] = r]
    BY <1>5, <2>1 DEF Begin
  <2>4. InProgress' = [InProgress EXCEPT ![c] = Cut(r)]
    BY <2>2, <2>3, SetRequest
  <2>5. Cut(r) = [comm |-> "stale", key |-> k, val |-> <<>>, cas |-> 0, id |-> 0]
    BY <2>1 DEF Cut
  <2> QED BY <1>2, <1>5, <2>4, <2>5 DEF KV!Refuse, KV!Begin
<1>6. ASSUME comm # "set", Answer(comm, "OOM"), UNCHANGED pending PROVE KV!Refuse(c)
  <2>1. reply' = Reply(comm, "OOM", <<>>, 0) /\ InProgress' = InProgress
    BY <1>6, SameRequest DEF Answer
  <2>2. comm \in KV!Storage \ {"set"}
    BY <1>6 DEF KV!Storage, Storage
  <2> QED BY <1>2, <2>1, <2>2 DEF KV!Refuse, KV!Status, KV!Reply, Reply
<1> QED BY <1>3, <1>4, <1>5, <1>6

LEMMA TooLargeKV ==
  ASSUME Inv, FlushInv0, NEW c \in Conn, set_too_large(c)
  PROVE  KV!Refuse(c)
<1>1. PICK k \in Key :
        Begin(c, [comm |-> "stale", key |-> k, val |-> <<>>, exptime |-> 0, cas |-> 0, id |-> 0])
  BY DEF set_too_large
<1>2. Inv' /\ KeepStep /\ UNCHANGED <<clock, cas_id>> /\ Idle(c) /\ UNCHANGED reply
  BY TooLargeInv DEF set_too_large
<1>3. KV!Keep /\ InProgress[c] = NoEntry
  BY <1>2, KeepKeep, IdleRequest
<1>4. PICK r : r = [comm |-> "stale", key |-> k, val |-> <<>>, exptime |-> 0, cas |-> 0, id |-> 0]
  OBVIOUS
<1>5. r \in CommandAt(cas_id)
  BY <1>4 DEF CommandAt
<1>6. pending' = [pending EXCEPT ![c] = r]
  BY <1>1, <1>4 DEF Begin
<1>7. InProgress' = [InProgress EXCEPT ![c] = Cut(r)]
  BY <1>5, <1>6, SetRequest
<1>8. Cut(r) = [comm |-> "stale", key |-> k, val |-> <<>>, cas |-> 0, id |-> 0]
  BY <1>4 DEF Cut
<1> QED BY <1>2, <1>3, <1>7, <1>8 DEF KV!Refuse, KV!Begin

\* The end of a storage command that stores v, and of one that does not store.
Ends(c, res) ==
  /\ pending[c] # NoEntry /\ pending[c].comm \in Storage
  /\ pending' = [pending EXCEPT ![c] = NoEntry]
  /\ reply' = Reply(pending[c].comm, res, <<>>, 0)
  /\ UNCHANGED clock

LEMMA EndsKV ==
  ASSUME Inv, NEW c \in Conn, NEW res, Ends(c, res)
  PROVE  /\ KV!End(c) /\ InProgress[c].comm = pending[c].comm /\ InProgress[c].key = pending[c].key
         /\ InProgress[c].val = pending[c].val /\ InProgress[c].cas = pending[c].cas
         /\ InProgress[c].comm \in KV!Storage /\ pending[c].key \in Key
         /\ reply' = KV!Status(InProgress[c].comm, res)
<1>1. KV!End(c)
  BY EndRequest DEF Ends
<1>2. /\ InProgress[c].comm = pending[c].comm /\ InProgress[c].key = pending[c].key
      /\ InProgress[c].val = pending[c].val /\ InProgress[c].cas = pending[c].cas
  BY BusyRequest DEF Ends
<1>3. pending[c].comm \in KV!Storage
  BY DEF Ends, KV!Storage, Storage
<1>4. pending[c].key \in Key
  BY PendFacts DEF Ends
<1>5. reply' = KV!Status(InProgress[c].comm, res)
  BY <1>2 DEF Ends, KV!Status, KV!Reply, Reply
<1> QED BY <1>1, <1>2, <1>3, <1>4, <1>5

LEMMA StoredKV ==
  ASSUME Inv, Inv', FlushInv0, NEW c \in Conn, Ends(c, "STORED"), NEW v,
         PutStep(pending[c].key, v),
         KV!Stores(InProgress[c], Entries[pending[c].key]),
         v = KV!Content(InProgress[c], Entries[pending[c].key])
  PROVE  KV!Complete(c)
<1>1. PICK k : k = pending[c].key
  OBVIOUS
<1>2. /\ KV!End(c) /\ InProgress[c].comm \in KV!Storage /\ k \in Key /\ InProgress[c].key = k
      /\ reply' = KV!Status(InProgress[c].comm, "STORED")
  BY <1>1, EndsKV
<1>3. KV!Put(k, v)
  BY <1>1, <1>2, PutStepPut DEF Ends
<1> QED BY <1>1, <1>2, <1>3 DEF KV!Complete

LEMMA NotStoredKV ==
  ASSUME Inv, Inv', FlushInv0, NEW c \in Conn, NEW res, Ends(c, res), KeepStep, cas_id' = cas_id,
         \/ /\ ~KV!Stores(InProgress[c], Entries[pending[c].key])
            /\ res = KV!Failure(InProgress[c], Entries[pending[c].key])
         \/ pending[c].comm \in {"append", "prepend"} /\ res = "NOT_STORED"
  PROVE  KV!Complete(c)
<1>1. PICK k : k = pending[c].key
  OBVIOUS
<1>2. /\ KV!End(c) /\ InProgress[c].comm \in KV!Storage /\ InProgress[c].key = k
      /\ reply' = KV!Status(InProgress[c].comm, res) /\ InProgress[c].comm = pending[c].comm
  BY <1>1, EndsKV
<1>3. KV!Keep
  BY KeepKeep DEF Ends
<1> QED BY <1>1, <1>2, <1>3 DEF KV!Complete

LEMMA StoreEnds ==
  ASSUME Inv, NEW c \in Conn, NEW m, NEW v, NEW e, Store(c, m, v, e), Doing(c, Storage)
  PROVE  Ends(c, "STORED") /\ cas_id' = cas_id + 1
BY DEF Store, Ends, Doing, Answer, End, Begin

LEMMA LeaveEnds ==
  ASSUME Inv, NEW c \in Conn, NEW m, NEW res, Leave(c, m, res), Doing(c, Storage)
  PROVE  Ends(c, res) /\ cas_id' = cas_id
BY DEF Leave, Ends, Doing, Answer, End, Begin

\* What a storage command and the entry it meets are in the map.
LEMMA OldIs ==
  ASSUME Inv, NEW c \in Conn, NEW comms, Doing(c, comms), comms \subseteq Storage
  PROVE  /\ InProgress[c].comm = pending[c].comm /\ InProgress[c].comm \in comms
         /\ InProgress[c].val = pending[c].val /\ InProgress[c].cas = pending[c].cas
         /\ Hit(pending[c].key) <=> Entries[pending[c].key] # NoEntry
         /\ Hit(pending[c].key) =>
              /\ Entries[pending[c].key].val = cache[pending[c].key].val
              /\ Entries[pending[c].key].cas = cache[pending[c].key].cas
         /\ Doing(c, Storage)
<1>1. pending[c] # NoEntry /\ pending[c].comm \in comms /\ Doing(c, Storage)
  BY DEF Doing
<1>2. PICK k : k = pending[c].key
  OBVIOUS
<1>3. k \in Key
  BY <1>1, <1>2, PendFacts
<1>4. /\ Hit(k) <=> Entries[k] # NoEntry
      /\ Hit(k) => Entries[k].val = cache[k].val /\ Entries[k].cas = cache[k].cas
  BY <1>3, HitEntry, EntryIs
<1>5. /\ InProgress[c].comm = pending[c].comm
      /\ InProgress[c].val = pending[c].val /\ InProgress[c].cas = pending[c].cas
  BY <1>1, BusyRequest
<1> QED BY <1>1, <1>2, <1>4, <1>5

LEMMA StoreSetKV ==
  ASSUME Inv, FlushInv0, NEW c \in Conn, StoreSet(c)
  PROVE  KV!Complete(c)
<1>1. Doing(c, {"set"}) /\ {"set"} \subseteq Storage
  BY DEF StoreSet, Storage
<1>2. PICK m, v, e : Store(c, m, v, e)
  BY Zenon DEF StoreSet
<1>3. InProgress[c].comm = "set" /\ InProgress[c].val = pending[c].val /\ Doing(c, Storage)
  BY <1>1, OldIs
<1>4. Ends(c, "STORED")
  BY <1>2, <1>3, StoreEnds
<1>5. /\ KV!Stores(InProgress[c], Entries[pending[c].key])
      /\ pending[c].val = KV!Content(InProgress[c], Entries[pending[c].key])
  BY <1>3 DEF KV!Stores, KV!Content
<1> QED BY <1>4, <1>5, StoreSetInv, StoredKV

LEMMA StoreAddKV ==
  ASSUME Inv, FlushInv0, NEW c \in Conn, StoreAdd(c)
  PROVE  KV!Complete(c)
<1>1. Doing(c, {"add"}) /\ {"add"} \subseteq Storage
  BY DEF StoreAdd, Storage
<1>2. /\ InProgress[c].comm = "add" /\ InProgress[c].val = pending[c].val /\ Doing(c, Storage)
      /\ Hit(pending[c].key) <=> Entries[pending[c].key] # NoEntry
  BY <1>1, OldIs
<1>3. CASE ~Hit(pending[c].key)
  <2>1. PICK m, v, e : Store(c, m, v, e)
    BY <1>3, Zenon DEF StoreAdd
  <2>2. Ends(c, "STORED")
    BY <1>2, <2>1, StoreEnds
  <2>3. /\ KV!Stores(InProgress[c], Entries[pending[c].key])
        /\ pending[c].val = KV!Content(InProgress[c], Entries[pending[c].key])
    BY <1>2, <1>3 DEF KV!Stores, KV!Content
  <2> QED BY <1>3, <2>2, <2>3, StoreAddInv, StoredKV
<1>4. CASE Hit(pending[c].key)
  <2>1. PICK m : Leave(c, m, "NOT_STORED")
    BY <1>4, Zenon DEF StoreAdd
  <2>2. Ends(c, "NOT_STORED") /\ cas_id' = cas_id
    BY <1>2, <2>1, LeaveEnds
  <2>3. /\ ~KV!Stores(InProgress[c], Entries[pending[c].key])
        /\ "NOT_STORED" = KV!Failure(InProgress[c], Entries[pending[c].key])
    BY <1>2, <1>4 DEF KV!Stores, KV!Failure
  <2> QED BY <1>4, <2>2, <2>3, StoreAddInv, NotStoredKV
<1> QED BY <1>3, <1>4

LEMMA StoreReplaceKV ==
  ASSUME Inv, FlushInv0, NEW c \in Conn, StoreReplace(c)
  PROVE  KV!Complete(c)
<1>1. Doing(c, {"replace"}) /\ {"replace"} \subseteq Storage
  BY DEF StoreReplace, Storage
<1>2. /\ InProgress[c].comm = "replace" /\ InProgress[c].val = pending[c].val /\ Doing(c, Storage)
      /\ Hit(pending[c].key) <=> Entries[pending[c].key] # NoEntry
  BY <1>1, OldIs
<1>3. CASE Hit(pending[c].key)
  <2>1. PICK m, v, e : Store(c, m, v, e)
    BY <1>3, Zenon DEF StoreReplace
  <2>2. Ends(c, "STORED")
    BY <1>2, <2>1, StoreEnds
  <2>3. /\ KV!Stores(InProgress[c], Entries[pending[c].key])
        /\ pending[c].val = KV!Content(InProgress[c], Entries[pending[c].key])
    BY <1>2, <1>3 DEF KV!Stores, KV!Content
  <2> QED BY <1>3, <2>2, <2>3, StoreReplaceInv, StoredKV
<1>4. CASE ~Hit(pending[c].key)
  <2>1. PICK m : Leave(c, m, "NOT_STORED")
    BY <1>4, Zenon DEF StoreReplace
  <2>2. Ends(c, "NOT_STORED") /\ cas_id' = cas_id
    BY <1>2, <2>1, LeaveEnds
  <2>3. /\ ~KV!Stores(InProgress[c], Entries[pending[c].key])
        /\ "NOT_STORED" = KV!Failure(InProgress[c], Entries[pending[c].key])
    BY <1>2, <1>4 DEF KV!Stores, KV!Failure
  <2> QED BY <1>4, <2>2, <2>3, StoreReplaceInv, NotStoredKV
<1> QED BY <1>3, <1>4

LEMMA StoreCasKV ==
  ASSUME Inv, FlushInv0, NEW c \in Conn, StoreCas(c)
  PROVE  KV!Complete(c)
<1>1. Doing(c, {"cas"}) /\ {"cas"} \subseteq Storage
  BY DEF StoreCas, Storage
<1>2. /\ InProgress[c].comm = "cas" /\ InProgress[c].val = pending[c].val /\ Doing(c, Storage)
      /\ InProgress[c].cas = pending[c].cas
      /\ Hit(pending[c].key) <=> Entries[pending[c].key] # NoEntry
      /\ Hit(pending[c].key) => Entries[pending[c].key].cas = cache[pending[c].key].cas
  BY <1>1, OldIs
<1>3. CASE Hit(pending[c].key) /\ cache[pending[c].key].cas = pending[c].cas
  <2>1. Store(c, Mem, pending[c].val, pending[c].exptime)
    BY <1>3 DEF StoreCas
  <2>2. Inv' /\ PutStep(pending[c].key, pending[c].val)
    BY <1>1, <2>1, StoreOver
  <2>3. PICK m, v, e : Store(c, m, v, e)
    BY <2>1
  <2>4. Ends(c, "STORED")
    BY <1>2, <2>3, StoreEnds
  <2>5. /\ KV!Stores(InProgress[c], Entries[pending[c].key])
        /\ pending[c].val = KV!Content(InProgress[c], Entries[pending[c].key])
    BY <1>2, <1>3 DEF KV!Stores, KV!Content
  <2> QED BY <2>2, <2>4, <2>5, StoredKV
<1>4. CASE Hit(pending[c].key) /\ cache[pending[c].key].cas # pending[c].cas
  <2>1. PICK m : m = Mem /\ Leave(c, m, "EXISTS")
    BY <1>4 DEF StoreCas
  <2>2. Ends(c, "EXISTS") /\ cas_id' = cas_id
    BY <1>2, <2>1, LeaveEnds
  <2>3. /\ ~KV!Stores(InProgress[c], Entries[pending[c].key])
        /\ "EXISTS" = KV!Failure(InProgress[c], Entries[pending[c].key])
    BY <1>2, <1>4 DEF KV!Stores, KV!Failure
  <2>4. Inv' /\ KeepStep
    BY <2>1, LeaveSame
  <2> QED BY <2>2, <2>3, <2>4, NotStoredKV
<1>5. CASE ~Hit(pending[c].key)
  <2>1. PICK m : m = AfterGet(pending[c].key) /\ Leave(c, m, "NOT_FOUND")
    BY <1>5 DEF StoreCas
  <2>2. Ends(c, "NOT_FOUND") /\ cas_id' = cas_id
    BY <1>2, <2>1, LeaveEnds
  <2>3. /\ ~KV!Stores(InProgress[c], Entries[pending[c].key])
        /\ "NOT_FOUND" = KV!Failure(InProgress[c], Entries[pending[c].key])
    BY <1>2, <1>5 DEF KV!Stores, KV!Failure
  <2>4. PICK k : k = pending[c].key
    OBVIOUS
  <2>5. Inv' /\ KeepStep
    BY <2>1, <2>4, LeaveAfterGet
  <2> QED BY <2>2, <2>3, <2>5, NotStoredKV
<1> QED BY <1>3, <1>4, <1>5

LEMMA StoreAppendKV ==
  ASSUME Inv, FlushInv0, NEW c \in Conn, StoreAppend(c)
  PROVE  KV!Complete(c)
<1>1. Doing(c, {"append", "prepend"}) /\ {"append", "prepend"} \subseteq Storage
  BY DEF StoreAppend, Storage
<1>2. PICK k : k = pending[c].key
  OBVIOUS
<1>3. /\ InProgress[c].comm \in {"append", "prepend"} /\ InProgress[c].comm = pending[c].comm
      /\ InProgress[c].val = pending[c].val /\ Doing(c, Storage)
      /\ InProgress[c].cas = pending[c].cas
      /\ Hit(k) <=> Entries[k] # NoEntry
      /\ Hit(k) => Entries[k].cas = cache[k].cas /\ Entries[k].val = cache[k].val
  BY <1>1, <1>2, OldIs
<1>4. Inv' /\ cas_id \in Nat
  BY StoreAppendInv, Basics
<1>5. CASE ~Hit(k)
  <2>1. PICK m : Leave(c, m, "NOT_STORED")
    BY <1>2, <1>5, Zenon DEF StoreAppend
  <2>2. Ends(c, "NOT_STORED") /\ cas_id' = cas_id
    BY <1>3, <2>1, LeaveEnds
  <2>3. KeepStep
    BY <1>4, <2>2, StoreAppendInv DEF PutStep
  <2> QED BY <1>3, <1>4, <2>2, <2>3, NotStoredKV
<1>6. CASE Hit(k) /\ pending[c].cas \notin {0, cache[k].cas}
  <2>1. PICK m : Leave(c, m, "EXISTS")
    BY <1>2, <1>6, Zenon DEF StoreAppend
  <2>2. Ends(c, "EXISTS") /\ cas_id' = cas_id
    BY <1>3, <2>1, LeaveEnds
  <2>3. KeepStep
    BY <1>4, <2>2, StoreAppendInv DEF PutStep
  <2>4. /\ ~KV!Stores(InProgress[c], Entries[k])
        /\ "EXISTS" = KV!Failure(InProgress[c], Entries[k])
    BY <1>3, <1>6 DEF KV!Stores, KV!Failure
  <2> QED BY <1>2, <1>4, <2>2, <2>3, <2>4, NotStoredKV
<1>7. CASE Hit(k) /\ pending[c].cas \in {0, cache[k].cas}
  <2>1. \/ \E m : Leave(c, m, "NOT_STORED")
        \/ \E m, v, e : Store(c, m, v, e)
    BY <1>2, <1>7, Zenon DEF StoreAppend
  <2>2. ASSUME NEW m, Leave(c, m, "NOT_STORED") PROVE KV!Complete(c)
    <3>1. Ends(c, "NOT_STORED") /\ cas_id' = cas_id
      BY <1>3, <2>2, LeaveEnds
    <3>2. KeepStep
      BY <1>4, <3>1, StoreAppendInv DEF PutStep
    <3> QED BY <1>3, <1>4, <3>1, <3>2, NotStoredKV
  <2>3. ASSUME NEW m, NEW x, NEW e, Store(c, m, x, e) PROVE KV!Complete(c)
    <3>1. Ends(c, "STORED") /\ cas_id' = cas_id + 1
      BY <1>3, <2>3, StoreEnds
    <3>2. PICK v : v = IF pending[c].comm = "append" THEN cache[k].val \o pending[c].val
                                                     ELSE pending[c].val \o cache[k].val
      OBVIOUS
    <3>3. PutStep(pending[c].key, v)
      BY <1>2, <1>4, <3>1, <3>2, StoreAppendInv
    <3>4. KV!Stores(InProgress[c], Entries[k]) /\ v = KV!Content(InProgress[c], Entries[k])
      BY <1>3, <1>7, <3>2 DEF KV!Stores, KV!Content
    <3> QED BY <1>2, <1>4, <3>1, <3>3, <3>4, StoredKV
  <2> QED BY <2>1, <2>2, <2>3
<1> QED BY <1>5, <1>6, <1>7

LEMMA ReleaseKV ==
  ASSUME Inv, FlushInv0, NEW c \in Conn, conn_release_items(c)
  PROVE  KV!Abort(c)
<1>1. /\ pending[c] # NoEntry /\ pending[c].comm \in Storage
      /\ pending' = [pending EXCEPT ![c] = NoEntry] /\ reply' = reply /\ UNCHANGED <<clock, cas_id>>
  BY DEF conn_release_items, Doing, End, Begin
<1>2. KV!Keep
  BY <1>1, ReleaseInv, KeepKeep
<1>3. KV!End(c) /\ InProgress[c].comm = pending[c].comm
  BY <1>1, EndRequest, BusyRequest
<1>4. pending[c].comm \in KV!Storage
  BY <1>1 DEF KV!Storage, Storage
<1> QED BY <1>1, <1>2, <1>3, <1>4 DEF KV!Abort

-----------------------------------------------------------------------------
(* flush_all, the crawler and the clock *)

LEMMA FlushKV ==
  ASSUME FlushIsSafe, Inv, FlushInv0, NEW c \in Conn, NEW d \in FlushDelays, flush_all(c, d)
  PROVE  KV!FlushAll
<1>1. /\ Inv' /\ d <= 0 /\ oldest_live' = current_time - 1 /\ oldest_live' # 0
      /\ current_time' = current_time
      /\ \A k \in DOMAIN cache' : cache'[k].time <= current_time - 1
  BY FlushFlush
<1>2. d \in Int /\ current_time \in Nat
  BY ClockAssumption, Basics
<1>3. pending' = pending /\ cas_id' = cas_id /\ reply' = Reply("flush_all", "OK", <<>>, 0)
  BY <1>1, <1>2 DEF flush_all, Answer
<1>4. \A k \in Key : ~Hit(k)'
  BY <1>1, <1>2 DEF Hit, Flushed
<1>5. \A k \in Key : Entries'[k] = NoEntry
  BY <1>1, <1>4, EntryIsNext
<1>6. Entries' = [k \in Key |-> NoEntry]
  BY <1>5, EntriesDomainNext
<1>7. InProgress' = InProgress
  BY <1>3, SameRequest
<1> QED BY <1>3, <1>6, <1>7 DEF KV!FlushAll, KV!Status, KV!Reply, Reply

LEMMA CrawlKV ==
  ASSUME Inv, FlushInv0, lru_crawler_crawl \/ item_crawler_thread
  PROVE  KV!Vanish
<1>1. pending' = pending /\ reply' = reply /\ UNCHANGED <<clock, cas_id>>
  BY DEF lru_crawler_crawl, item_crawler_thread
<1>2. KV!Keep
  BY <1>1, CrawlInv, CrawlerInv, KeepKeep
<1> QED BY <1>1, <1>2, SameRequest DEF KV!Vanish

\* As time goes by items expire, and none comes back.
LEMMA ClockKV ==
  ASSUME Inv, FlushInv0, clock_handler
  PROVE  KV!Vanish
<1>1. /\ current_time' = current_time + 1
      /\ cache' = cache /\ pending' = pending /\ cas_id' = cas_id /\ oldest_live' = oldest_live
      /\ reply' = reply
  BY DEF clock_handler
<1>2. \A k \in Key : KeptAt(k)
  <2> SUFFICES ASSUME NEW k \in Key, Hit(k)' PROVE Hit(k)
    BY <1>1 DEF KeptAt
  <2>1. /\ k \in DOMAIN cache
        /\ ~(oldest_live # 0 /\ oldest_live <= current_time + 1 /\ cache[k].time <= oldest_live)
        /\ ~(cache[k].exptime # 0 /\ cache[k].exptime <= current_time + 1)
    BY <1>1 DEF Hit, Flushed, Expired
  <2>2. /\ oldest_live \in Nat /\ current_time \in Nat /\ cache[k].exptime \in Nat
        /\ cache[k].time \in Nat
    BY <2>1, FlushNumbers
  <2>3. ~(oldest_live # 0 /\ oldest_live <= current_time /\ cache[k].time <= oldest_live)
    BY <2>1, <2>2
  <2>4. ~(cache[k].exptime # 0 /\ cache[k].exptime <= current_time)
    BY <2>1, <2>2
  <2> QED BY <2>1, <2>3, <2>4 DEF Hit, Flushed, Expired
<1>3. KV!Keep
  BY <1>1, <1>2, ClockInv, KeptKeep
<1> QED BY <1>1, <1>3, SameRequest DEF KV!Vanish

-----------------------------------------------------------------------------
(* The refinement *)

LEMMA InitKV ==
  ASSUME Init
  PROVE  KV!KVInit
<1>1. cache = <<>> /\ pending = [c \in Conn |-> NoEntry] /\ cas_id = 0
      /\ reply = Reply("none", "NONE", <<>>, 0)
  BY DEF Init, Reply
<1>2. \A k \in Key : ~Hit(k)
  BY <1>1 DEF Hit
<1>3. Entries = [k \in Key |-> NoEntry]
  BY <1>2 DEF Entries
<1>4. InProgress = [c \in Conn |-> NoEntry]
  BY <1>1 DEF InProgress, Idle
<1> QED BY <1>1, <1>3, <1>4 DEF KV!KVInit, KV!Status, KV!Reply, Reply

LEMMA StutterKV ==
  ASSUME UNCHANGED vars
  PROVE  UNCHANGED KV!kvvars
<1>1. UNCHANGED <<cache, pending, cas_id, current_time, oldest_live, reply>>
  BY DEF vars
<1>2. Entries' = Entries
  BY <1>1 DEF Entries, Hit, Flushed, Expired
<1>3. InProgress' = InProgress
  BY <1>1, SameRequest
<1> QED BY <1>1, <1>2, <1>3 DEF KV!kvvars

LEMMA StepKV ==
  ASSUME FlushIsSafe, Inv, FlushInv0, [Next]_vars
  PROVE  [KV!KVNext]_KV!kvvars
<1>1. ASSUME NEW c \in Conn, NEW k \in Key, process_get_command(c, k) PROVE KV!KVNext
  BY <1>1, GetKV, Zenon DEF KV!KVNext
<1>2. ASSUME NEW c \in Conn, NEW k \in Key, process_delete_command(c, k) PROVE KV!KVNext
  BY <1>2, DeleteKV, Zenon DEF KV!KVNext
<1>3. ASSUME NEW c \in Conn, NEW k \in Key, NEW e \in TouchTimes, process_touch_command(c, k, e)
      PROVE  KV!KVNext
  BY <1>3, TouchKV, Zenon DEF KV!KVNext
<1>4. ASSUME NEW c \in Conn, NEW k \in Key, NEW op \in {"incr", "decr"}, DeltaFails(c, op, k)
      PROVE  KV!KVNext
  BY <1>4, DeltaFailsKV, Zenon DEF KV!KVNext
<1>5. ASSUME NEW c \in Conn, NEW k \in Key, NEW op \in {"incr", "decr"}, NEW d \in Deltas,
             DeltaInPlace(c, op, k, d)
      PROVE  KV!KVNext
  BY <1>5, InPlaceKV, Zenon DEF KV!KVNext
<1>6. ASSUME NEW c \in Conn, NEW k \in Key, NEW op \in {"incr", "decr"}, NEW d \in Deltas,
             DeltaReplaces(c, op, k, d)
      PROVE  KV!KVNext
  BY <1>6, DeltaReplacesKV, Zenon DEF KV!KVNext
<1>7. ASSUME NEW c \in Conn, process_update_command(c) PROVE KV!KVNext
  BY <1>7, RequestKV, Zenon DEF KV!KVNext
<1>7a. ASSUME NEW c \in Conn, set_too_large(c) PROVE KV!KVNext
  BY <1>7a, TooLargeKV, Zenon DEF KV!KVNext
<1>8. ASSUME NEW c \in Conn, item_update(c) PROVE KV!KVNext
  BY <1>8, UpdateKV, Zenon DEF KV!KVNext
<1>9. ASSUME NEW c \in Conn, item_unlink(c) PROVE KV!KVNext
  BY <1>9, UnlinkKV, Zenon DEF KV!KVNext
<1>10. ASSUME NEW c \in Conn, FindStale(c) PROVE KV!KVNext
  BY <1>10, StaleKV, Zenon DEF KV!KVNext
<1>11. ASSUME NEW c \in Conn,
              StoreSet(c) \/ StoreAdd(c) \/ StoreReplace(c) \/ StoreCas(c) \/ StoreAppend(c)
       PROVE  KV!KVNext
  <2>1. KV!Complete(c)
    BY <1>11, StoreSetKV, StoreAddKV, StoreReplaceKV, StoreCasKV, StoreAppendKV
  <2> QED BY <2>1, Zenon DEF KV!KVNext
<1>12. ASSUME NEW c \in Conn, conn_release_items(c) PROVE KV!KVNext
  BY <1>12, ReleaseKV, Zenon DEF KV!KVNext
<1>13. ASSUME NEW c \in Conn, NEW d \in FlushDelays, flush_all(c, d) PROVE KV!KVNext
  BY <1>13, FlushKV, Zenon DEF KV!KVNext
<1>14. ASSUME lru_crawler_crawl \/ item_crawler_thread \/ clock_handler PROVE KV!KVNext
  <2>1. KV!Vanish
    BY <1>14, CrawlKV, ClockKV
  <2> QED BY <2>1, Zenon DEF KV!KVNext
<1>15. CASE Next
  <2>1. KV!KVNext
    BY <1>1, <1>2, <1>3, <1>4, <1>5, <1>6, <1>7, <1>8, <1>9, <1>10, <1>11, <1>12, <1>13, <1>14,
       <1>15, <1>7a, NextCases, Zenon
  <2> QED BY <2>1
<1>16. CASE UNCHANGED vars
  BY <1>16, StutterKV
<1> QED BY <1>15, <1>16

\* The storage engine is a KVCache: every reply is right for the entries a client can see,
\* entries appear by storage commands and arithmetic only, under fresh cas ids, and what has
\* expired, or was evicted, deleted or flushed, never comes back.
THEOREM EngineIsCache == FlushIsSafe => (Spec => ImplementsKVCache)
<1> SUFFICES ASSUME FlushIsSafe PROVE Spec => ImplementsKVCache
  OBVIOUS
<1>1. Init => KV!KVInit
  BY InitKV
<1>2. Inv /\ FlushInv0 /\ [Next]_vars => [KV!KVNext]_KV!kvvars
  BY StepKV
<1> QED BY <1>1, <1>2, SpecFlush, PTL DEF Spec, ImplementsKVCache, KV!KVSpec
=============================================================================
