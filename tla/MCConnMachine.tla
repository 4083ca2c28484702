---------------------------- MODULE MCConnMachine ---------------------------
(***************************************************************************)
(* Instances of ConnMachine for TLC.                                       *)
(***************************************************************************)
EXTENDS ConnMachine

Request(op, quiets, results, key, val) ==
  [op : {op}, quiet : quiets, result : results, key : {key}, val : {val}]

Loud == {FALSE}
Either == {TRUE, FALSE}

\* Every command of the ASCII protocol, and storage commands refused before their data
\* has been read, but not with noreply.
LineRequests ==
  Request("get", Loud, {"hit", "miss"}, 0, 0) \cup Request("line", Either, {"ok"}, 0, 0)
  \cup Request("set", Either, {"ok"}, 0, 2) \cup Request("set", Loud, {"nomem"}, 0, 2)
  \cup Request("stats", Loud, {"ok"}, 0, 0) \cup Request("quit", Loud, {"ok"}, 0, 0)

\* Every command of the binary protocol.
HeaderRequests ==
  Request("get", Either, {"hit", "miss"}, 1, 0)
  \cup Request("set", Either, {"ok", "refused", "toolarge"}, 1, 1)
  \cup Request("append", Loud, {"ok"}, 1, 1)
  \cup Request("delete", Either, {"ok", "refused"}, 1, 0)
  \cup Request("incr", Loud, {"refused"}, 1, 0)
  \cup Request("flush", Loud, {"ok"}, 0, 0)
  \cup Request("stat", Loud, {"ok", "refused"}, 1, 0)
  \cup Request("noop", Loud, {"ok"}, 0, 0) \cup Request("version", Loud, {"ok"}, 0, 0)
  \cup Request("quit", Either, {"ok"}, 0, 0)
  \cup Request("unknown", Loud, {"refused"}, 1, 1) \cup Request("malformed", Loud, {"refused"}, 1, 0)
  \cup Request("sasl_list_mechs", Loud, {"ok", "refused"}, 0, 0)
  \cup Request("sasl_auth", Loud, {"ok", "continue", "badmech"}, 1, 1)

\* What ConnMachine_proofs assumes of requests holds of these.
ASSUME RequestsAreRegular ==
  (\A r \in LineRequests : RegularLine(r)) /\ (\A r \in HeaderRequests : RegularHeader(r))

\* A set with noreply that is too large or for which there is no memory.
SilentRefusal == Request("line", Loud, {"ok"}, 0, 0) \cup Request("set", {TRUE}, {"nomem"}, 0, 1)
=============================================================================
