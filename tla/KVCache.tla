------------------------------ MODULE KVCache ------------------------------
(***************************************************************************)
(* What memcached promises its clients, without time, memory or LRU.       *)
(*                                                                         *)
(* A cache maps keys to entries.  An entry appears only because a storage  *)
(* command put it there, with a cas id no entry had before; it may vanish  *)
(* at any moment (expiry, eviction, a delayed flush) and never comes back; *)
(* flush_all without a delay leaves nothing.  Storage and arithmetic read  *)
(* and write the map in one step.  get, touch and delete look first and    *)
(* reply later: what get returns was there when it looked, and what delete *)
(* saw is gone when it replies, though a newer entry may have come.  Only  *)
(* the cas id that get returns may be a later one: arithmetic on an entry  *)
(* gives its new cas id to the commands in progress that saw the old one.  *)
(***************************************************************************)
EXTENDS Naturals, Sequences

CONSTANTS
  Conn, Key, Token, Deltas, NoEntry,
  Numeric(_),       \* a value is a number
  Result(_, _, _),  \* the text of a number after incr or decr
  Padded(_, _)      \* a text filled up with spaces

VARIABLES
  kv,       \* the entry of each key, or NoEntry
  request,  \* the command each connection is in the middle of
  lastcas,  \* the largest cas id given out
  reply     \* the last reply sent

kvvars == <<kv, request, lastcas, reply>>

Storage == {"set", "add", "replace", "cas", "append", "prepend"}

Reply(op, res, val, cas) == [op |-> op, res |-> res, val |-> val, cas |-> cas]
Status(op, res) == Reply(op, res, <<>>, 0)

Begin(c, r) == request[c] = NoEntry /\ request' = [request EXCEPT ![c] = r]
End(c) == request[c] # NoEntry /\ request' = [request EXCEPT ![c] = NoEntry]

\* The map becomes f, except that any entry may have vanished.
Loses(f) == LET new == kv' IN new = [k \in Key |-> IF new[k] = NoEntry THEN NoEntry ELSE f[k]]

\* The entry of k becomes val under a fresh cas id.
Put(k, val) ==
  /\ lastcas' > lastcas
  /\ Loses([kv EXCEPT ![k] = [val |-> val, cas |-> lastcas']])

Keep == Loses(kv) /\ UNCHANGED lastcas

-----------------------------------------------------------------------------
KVInit ==
  /\ kv = [k \in Key |-> NoEntry]
  /\ request = [c \in Conn |-> NoEntry]
  /\ lastcas = 0
  /\ reply = Status("none", "NONE")

Vanish == UNCHANGED <<request, reply>> /\ Keep

\* A command has found the entry of k, which it knows by its cas id.
Saw(comm, k) ==
  [comm |-> comm, key |-> k, val |-> kv[k].val, cas |-> kv[k].cas, id |-> kv[k].cas]

\* get, touch and delete look the key up.
Look(c, comm, k) ==
  /\ \/ reply' = Status(comm, "NOT_FOUND") /\ UNCHANGED request /\ kv[k] = NoEntry
     \/ /\ UNCHANGED reply
        /\ kv[k] # NoEntry
        /\ Begin(c, Saw(comm, k))
  /\ Keep

GetReply(c) ==
  /\ End(c) /\ request[c].comm = "get"
  /\ reply' = Reply("get", "HIT", request[c].val, request[c].cas)
  /\ Keep

TouchReply(c) ==
  /\ End(c) /\ request[c].comm = "touch"
  /\ reply' = Status("touch", "TOUCHED")
  /\ Keep

\* Also the end of a set that got no memory: the value it found may not stay.
DeleteReply(c) ==
  LET r == request[c] IN
  /\ End(c) /\ r.comm \in {"delete", "oom"}
  /\ reply' = IF r.comm = "delete" THEN Status("delete", "DELETED") ELSE Status("set", "OOM")
  /\ Keep /\ (kv'[r.key] # NoEntry => kv'[r.key].cas # r.id)

FlushAll ==
  /\ reply' = Status("flush_all", "OK")
  /\ kv' = [k \in Key |-> NoEntry]
  /\ UNCHANGED <<request, lastcas>>

FlushLater ==
  /\ reply' = Status("flush_later", "OK")
  /\ Keep
  /\ UNCHANGED request

\* A command that saw the entry of k will return the new cas id with the old value.
Restamp(k) ==
  request' = [c \in Conn |->
    IF request[c] # NoEntry /\ request[c].key = k /\ request[c].id = kv[k].cas
    THEN [request[c] EXCEPT !.cas = lastcas'] ELSE request[c]]

ArithmeticFails(op, k) ==
  /\ \/ kv[k] = NoEntry /\ reply' = Status(op, "NOT_FOUND")
     \/ kv[k] # NoEntry /\ ~Numeric(kv[k].val) /\ reply' = Status(op, "NON_NUMERIC")
     \/ kv[k] # NoEntry /\ Numeric(kv[k].val) /\ reply' = Status(op, "EOM")
  /\ Keep /\ UNCHANGED request

Arithmetic(op, k, d) ==
  LET val == kv[k].val
      new == Result(op, val, d)
  IN
  /\ kv[k] # NoEntry /\ Numeric(val)
  /\ \/ Put(k, new)
     \/ Len(new) <= Len(val) /\ Put(k, Padded(new, Len(val)))
  /\ Restamp(k)
  /\ reply' = Reply(op, "OK", new, 0)

\* The command line of a storage command, whose data will follow.
Requests ==
  [comm : Storage, key : Key, val : {<<t>> : t \in Token}, cas : 0..lastcas, id : {0}]

Request(c) ==
  /\ UNCHANGED reply
  /\ request'[c] \in Requests /\ Begin(c, request'[c])
  /\ Keep

\* No memory for it, or too large; a set goes on to drop the value it should have replaced.
Refuse(c) ==
  /\ \/ UNCHANGED request /\ \E comm \in Storage \ {"set"} : reply' = Status(comm, "OOM")
     \/ /\ UNCHANGED reply
        /\ \E k \in Key :
             Begin(c, [comm |-> "stale", key |-> k, val |-> <<>>, cas |-> 0, id |-> 0])
  /\ Keep

FindStale(c) ==
  LET k == request[c].key IN
  /\ request[c] # NoEntry /\ request[c].comm = "stale"
  /\ Keep
  /\ \/ kv[k] = NoEntry /\ End(c) /\ reply' = Status("set", "OOM")
     \/ /\ kv[k] # NoEntry
        /\ request' = [request EXCEPT ![c] = Saw("oom", k)]
        /\ UNCHANGED reply

\* A bad data block, or the connection is closed.
Abort(c) == End(c) /\ request[c].comm \in Storage /\ Keep /\ UNCHANGED reply

\* When a storage command with its data stores, and what.
Stores(r, old) ==
  \/ r.comm = "set"
  \/ r.comm = "add" /\ old = NoEntry
  \/ r.comm = "replace" /\ old # NoEntry
  \/ r.comm = "cas" /\ old # NoEntry /\ old.cas = r.cas
  \/ r.comm \in {"append", "prepend"} /\ old # NoEntry /\ r.cas \in {0, old.cas}

Content(r, old) ==
  CASE r.comm = "append" -> old.val \o r.val
    [] r.comm = "prepend" -> r.val \o old.val
    [] OTHER -> r.val

Failure(r, old) ==
  IF r.comm = "cas" /\ old = NoEntry THEN "NOT_FOUND"
  ELSE IF r.comm \in {"cas", "append", "prepend"} /\ old # NoEntry THEN "EXISTS"
  ELSE "NOT_STORED"

Complete(c) ==
  LET r == request[c]
      old == kv[r.key]
  IN
  /\ End(c) /\ r.comm \in Storage
  /\ \/ Stores(r, old) /\ Put(r.key, Content(r, old)) /\ reply' = Status(r.comm, "STORED")
     \/ ~Stores(r, old) /\ Keep /\ reply' = Status(r.comm, Failure(r, old))
     \* append and prepend: no memory for the combined value, or it is too large
     \/ r.comm \in {"append", "prepend"} /\ Keep /\ reply' = Status(r.comm, "NOT_STORED")

KVNext ==
  \/ Vanish \/ FlushAll \/ FlushLater
  \/ \E c \in Conn :
       \/ \E k \in Key, comm \in {"get", "touch", "delete"} : Look(c, comm, k)
       \/ GetReply(c) \/ TouchReply(c) \/ DeleteReply(c)
       \/ Request(c) \/ Refuse(c) \/ FindStale(c) \/ Abort(c) \/ Complete(c)
  \/ \E k \in Key, op \in {"incr", "decr"} :
       ArithmeticFails(op, k) \/ \E d \in Deltas : Arithmetic(op, k, d)

KVSpec == KVInit /\ [][KVNext]_kvvars
=============================================================================
