------------------------------ MODULE ConnState -----------------------------
(***************************************************************************)
(* What a connection object remembers, and how a reply is prepared.  The   *)
(* commands of the two protocols (AsciiCommands, BinaryCommands) and the   *)
(* state machine that drives them (ConnMachine) share these variables.     *)
(*                                                                         *)
(* Bytes are counted in tokens, pieces of input that arrive whole.  What   *)
(* the bytes say is chosen when the code first looks at them: a request is *)
(* a record of its operation, whether it is quiet (noreply), what the      *)
(* storage engine or the memory allocator will answer, and the tokens of   *)
(* key (with extras) and value that follow its line or header.             *)
(***************************************************************************)
EXTENDS Integers

CONSTANTS
  AsciiRequests, BinaryRequests,   \* the requests clients send
  None

Requests == AsciiRequests \cup BinaryRequests

ASSUME RequestAssumption ==
  /\ None \notin Requests
  /\ \A r \in Requests : r.key \in Nat /\ r.val \in Nat /\ r.quiet \in BOOLEAN

VARIABLES
  sasl,            \* settings.sasl, option -S
  protocol, state, substate,
  write_and_go,
  cmd,             \* the request at hand, None between requests
  noreply, authenticated,
  rbytes,          \* tokens in the read buffer
  scanned,         \* how many of them are known to hold no end of line
  rlbytes, sbytes, \* tokens still to be read into an item, still to be swallowed
  used,            \* history: tokens of cmd's key and value taken from the input
  item, ileft,     \* whether c->item is set, how many items ilist holds
  refs,            \* references this connection owns in the items' refcounts
  wbytes,          \* tokens of the reply still to be written
  write_and_free,  \* whether a buffer is to be freed after the reply
  replies,         \* history: replies to cmd that have been written
  login            \* history: whether the client has proved who it is

input == <<rbytes, scanned, rlbytes, sbytes, used>>
items == <<item, ileft, refs>>
output == <<wbytes, write_and_free, replies>>
identity == <<noreply, authenticated, login>>
control == <<protocol, state, substate, write_and_go, cmd>>

\* item_get or item_alloc, and item_remove, as far as this connection's count goes.
TakeItem == item' = 1 /\ refs' = refs + 1 /\ UNCHANGED ileft
DropItem == item' = 0 /\ refs' = refs - item /\ UNCHANGED ileft

-----------------------------------------------------------------------------
(* Replies.  Each sets state, write_and_go and wbytes. *)

\* out_string(c, str), with the value of write_and_go that is in force afterwards.
\* A quiet request is over at once, whatever write_and_go says.
out_string(quiet, next) ==
  /\ write_and_go' = next
  /\ IF quiet THEN state' = "conn_new_cmd" /\ UNCHANGED wbytes
              ELSE state' = "conn_write" /\ wbytes' = 1
  /\ noreply' = FALSE

\* add_bin_header and what follows it, then conn_mwrite.
BinReply(next) ==
  /\ state' = "conn_mwrite" /\ wbytes' = 1
  /\ write_and_go' = next

\* Mutant: the rest of a refused request is not swallowed.
write_bin_error_keep(swallow) ==
  /\ BinReply("conn_new_cmd")
  /\ UNCHANGED sbytes

write_bin_error(swallow) ==
  /\ BinReply(IF swallow > 0 THEN "conn_swallow" ELSE "conn_new_cmd")
  /\ sbytes' = IF swallow > 0 THEN swallow ELSE sbytes

\* write_bin_error(..., swallow), and then conn_swallow whatever swallow is.
RefuseAndSwallow(swallow) ==
  /\ BinReply("conn_swallow")
  /\ sbytes' = IF swallow > 0 THEN swallow ELSE sbytes

\* Mutant: quiet commands are answered too.
write_bin_response_loud(quiet) == BinReply("conn_new_cmd")

write_bin_response(quiet) ==
  IF quiet THEN state' = "conn_new_cmd" /\ UNCHANGED <<wbytes, write_and_go>>
           ELSE BinReply("conn_new_cmd")

\* write_and_free: a reply of its own buffer, through conn_write.
WriteAndFree ==
  /\ state' = "conn_write" /\ wbytes' = 2
  /\ write_and_go' = "conn_new_cmd"
  /\ write_and_free' = TRUE
=============================================================================
