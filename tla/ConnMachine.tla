----------------------------- MODULE ConnMachine ----------------------------
(***************************************************************************)
(* drive_machine: the state machine of one TCP connection, driven by the   *)
(* events of its socket, with the client at the other end.  An action is   *)
(* one turn of drive_machine's loop; between two turns the client may      *)
(* send, read or hang up.  When a connection has been closed, its object   *)
(* serves the next client that gets the same descriptor.                   *)
(***************************************************************************)
EXTENDS AsciiCommands, BinaryCommands, FiniteSetsExt

CONSTANTS
  ReqsPerEvent,   \* settings.reqs_per_event
  HeaderTokens,   \* sizeof(c->binary_header)
  LongLine,       \* with so many tokens and no end of line the client may be cut off
  MaxLine,        \* bound: tokens of the longest line
  Window,         \* bound: tokens sent and not yet used
  OutCap          \* size of the socket's send buffer

ASSUME WindowAssumption ==
  /\ ReqsPerEvent \in Nat \ {0} /\ OutCap \in Nat \ {0} /\ LongLine \in Nat \ {0}
  /\ Window \in Nat /\ MaxLine \in 1..Window /\ HeaderTokens \in 1..MaxLine

VARIABLES
  running,   \* the worker is inside drive_machine for this connection
  nreqs,     \* requests it may still take up before it yields
  ev,        \* ev_flags: the event waited for
  sock, eof, \* tokens in the socket, and whether the client has hung up
  out        \* tokens of replies the client has not read yet

loop == <<running, nreqs, ev>>
socket == <<sock, eof, out>>
vars == <<sasl, control, identity, input, items, output, loop, socket>>

State == {"conn_new_cmd", "conn_waiting", "conn_read", "conn_parse_cmd", "conn_nread",
          "conn_swallow", "conn_write", "conn_mwrite", "conn_closing", "conn_closed"}

Init ==
  /\ sasl \in BOOLEAN
  /\ protocol = IF sasl THEN "binary" ELSE "negotiating"
  /\ state = "conn_new_cmd" /\ substate = "bin_no_state" /\ write_and_go = "conn_new_cmd"
  /\ cmd = None /\ noreply = FALSE /\ authenticated = FALSE /\ login = FALSE
  /\ rbytes = 0 /\ scanned = 0 /\ rlbytes = 0 /\ sbytes = 0 /\ used = 0
  /\ item = 0 /\ ileft = 0 /\ refs = 0
  /\ wbytes = 0 /\ write_and_free = FALSE /\ replies = 0
  /\ running = FALSE /\ nreqs = 0 /\ ev = "READ"
  /\ sock = 0 /\ eof = FALSE /\ out = 0

-----------------------------------------------------------------------------
(* The client *)

client == <<sasl, control, identity, input, items, output, loop>>

Send ==
  /\ ~eof /\ state # "conn_closed"
  /\ sock + rbytes < Window
  /\ sock' = sock + 1
  /\ UNCHANGED <<client, eof, out>>

ReadReplies ==
  /\ out > 0
  /\ out' = 0
  /\ UNCHANGED <<client, sock, eof>>

\* Hangs up, or shuts down its sending side.
HangUp ==
  /\ ~eof /\ state # "conn_closed"
  /\ eof' = TRUE
  /\ UNCHANGED <<client, sock, out>>

-----------------------------------------------------------------------------
(* Events *)

Ready == IF ev = "READ" THEN sock > 0 \/ eof ELSE out < OutCap \/ eof

event_handler ==
  /\ ~running /\ state # "conn_closed" /\ Ready
  /\ running' = TRUE /\ nreqs' = ReqsPerEvent
  /\ UNCHANGED <<sasl, control, identity, input, items, output, ev, socket>>

\* A turn of the loop that goes on, and one that ends it, waiting for an event.
Continue == UNCHANGED <<loop, sasl>>
StopFor(event) == running' = FALSE /\ ev' = event /\ UNCHANGED <<nreqs, sasl>>
Goto(next) == state' = next /\ UNCHANGED <<protocol, substate, write_and_go, cmd>>

-----------------------------------------------------------------------------
(* conn_new_cmd, conn_waiting, conn_read *)

\* conn_new_cmd, reset_cmd_handler
reset_cmd_handler ==
  /\ state = "conn_new_cmd" /\ nreqs > 0
  /\ nreqs' = nreqs - 1
  /\ cmd' = None /\ substate' = "bin_no_state"
  /\ DropItem
  /\ state' = IF rbytes > 0 THEN "conn_parse_cmd" ELSE "conn_waiting"
  /\ used' = 0 /\ replies' = 0
  /\ UNCHANGED <<sasl, protocol, write_and_go, identity, rbytes, scanned, rlbytes, sbytes,
                 wbytes, write_and_free, running, ev, socket>>

\* Mutant: a connection that yields waits for input, whatever it has read already.
Yield_read ==
  /\ state = "conn_new_cmd" /\ nreqs = 0
  /\ StopFor(ev)
  /\ UNCHANGED <<control, identity, input, items, output, socket>>

\* conn_new_cmd when the connection has had its share: what is in the read buffer
\* makes no read event, so wait until the socket can be written.
Yield ==
  /\ state = "conn_new_cmd" /\ nreqs = 0
  /\ StopFor(IF rbytes > 0 THEN "WRITE" ELSE ev)
  /\ UNCHANGED <<control, identity, input, items, output, socket>>

Waiting ==
  /\ state = "conn_waiting"
  /\ StopFor("READ")
  /\ Goto("conn_read")
  /\ UNCHANGED <<identity, input, items, output, socket>>

\* try_read_network: reads until the socket is empty, or the buffer has grown four
\* times.  An end of stream met after some data closes the connection at once.
ReadData(n) ==
  /\ state = "conn_read" /\ n \in 1..sock
  /\ sock' = sock - n /\ rbytes' = rbytes + n
  /\ \/ Goto("conn_parse_cmd")
     \/ eof /\ n = sock /\ Goto("conn_closing")
  /\ UNCHANGED <<scanned, rlbytes, sbytes, used, identity, items, output, eof, out>>
  /\ Continue

ReadNothing ==
  /\ state = "conn_read" /\ sock = 0
  /\ Goto(IF eof THEN "conn_closing" ELSE "conn_waiting")
  /\ UNCHANGED <<identity, input, items, output, socket>>
  /\ Continue

\* The read buffer is full and cannot grow: what has been read is dropped, and the
\* connection with it once the client has been told.
ReadOutOfMemory(n) ==
  /\ state = "conn_read" /\ n \in 0..sock /\ rbytes + n > 0
  /\ sock' = sock - n /\ rbytes' = 0 /\ scanned' = 0
  /\ IF protocol = "binary" THEN BinReply("conn_closing") /\ UNCHANGED noreply
                            ELSE out_string(noreply, "conn_closing")
  /\ UNCHANGED <<protocol, substate, cmd, authenticated, login, rlbytes, sbytes, used, items,
                 write_and_free, replies, eof, out>>
  /\ Continue

-----------------------------------------------------------------------------
(* conn_parse_cmd: try_read_command *)

Negotiated(p) ==
  /\ state = "conn_parse_cmd"
  /\ protocol' = p
  /\ protocol \in {p, "negotiating"}

Wait(next) ==
  /\ state' = next
  /\ UNCHANGED <<substate, write_and_go, cmd, identity, items, output, rbytes, rlbytes,
                 sbytes, used, socket>>
  /\ Continue

\* A line of n tokens is complete.
ParseLine(n, r) ==
  /\ Negotiated("ascii")
  /\ n \in (scanned + 1)..Min({rbytes, MaxLine})
  /\ cmd' = r
  /\ process_command(r)
  /\ rbytes' = rbytes - n /\ scanned' = 0
  /\ UNCHANGED <<used, replies, socket>>
  /\ Continue

\* No end of line yet.  Unless it looks like a get, a long line is not waited for.
ParseNoLine ==
  /\ Negotiated("ascii")
  /\ rbytes < MaxLine
  /\ scanned' = rbytes
  /\ \/ Wait("conn_waiting")
     \/ rbytes >= LongLine /\ Wait("conn_closing")

ParseHeader(r) ==
  /\ Negotiated("binary")
  /\ rbytes >= HeaderTokens
  /\ cmd' = r
  /\ dispatch_bin_command(r)
  /\ rbytes' = rbytes - HeaderTokens
  /\ UNCHANGED <<scanned, used, replies, socket>>
  /\ Continue

\* The header is incomplete, or does not start with the magic byte.
ParseNoHeader ==
  /\ Negotiated("binary")
  /\ Wait(IF rbytes < HeaderTokens THEN "conn_waiting" ELSE "conn_closing")
  /\ UNCHANGED scanned

-----------------------------------------------------------------------------
(* conn_nread, conn_swallow *)

\* Mutant: all that is wanted is taken, though less may have been read.
ToCopy_wanted(wanted) == wanted

\* How much of the read buffer belongs to the request at hand.
ToCopy(wanted) == Min({rbytes, wanted})

complete_nread ==
  /\ state = "conn_nread" /\ rlbytes = 0
  /\ complete_nread_ascii \/ complete_nread_binary
  /\ UNCHANGED <<protocol, cmd, rbytes, scanned, used, replies, socket>>
  /\ Continue

\* From the read buffer, and if that is not enough from the socket.
Nread ==
  LET copied == ToCopy(rlbytes)
      missing == rlbytes - copied
      got == Min({missing, sock})
  IN
  /\ state = "conn_nread" /\ rlbytes > 0
  /\ rbytes' = rbytes - copied /\ sock' = sock - got
  /\ rlbytes' = missing - got /\ used' = used + copied + got
  /\ IF missing = 0 \/ got > 0 \/ ~eof THEN UNCHANGED control ELSE Goto("conn_closing")
  /\ IF missing > 0 /\ got = 0 /\ ~eof THEN StopFor("READ") ELSE Continue
  /\ UNCHANGED <<scanned, sbytes, identity, items, output, eof, out>>

\* From the read buffer, or if that is empty from the socket.
Swallow ==
  LET copied == ToCopy(sbytes)
      got == IF rbytes > 0 THEN 0 ELSE Min({sbytes, sock})
  IN
  /\ state = "conn_swallow" /\ sbytes > 0
  /\ rbytes' = rbytes - copied /\ sock' = sock - got
  /\ sbytes' = sbytes - copied - got /\ used' = used + copied + got
  /\ IF copied + got > 0 \/ ~eof THEN UNCHANGED control ELSE Goto("conn_closing")
  /\ IF copied + got = 0 /\ ~eof THEN StopFor("READ") ELSE Continue
  /\ UNCHANGED <<scanned, rlbytes, identity, items, output, eof, out>>

SwallowDone ==
  /\ state = "conn_swallow" /\ sbytes = 0
  /\ Goto("conn_new_cmd")
  /\ UNCHANGED <<identity, input, items, output, socket>>
  /\ Continue

-----------------------------------------------------------------------------
(* conn_write, conn_mwrite: transmit *)

Writing == state \in {"conn_write", "conn_mwrite"}

Transmit ==
  /\ Writing /\ wbytes > 0
  /\ IF out < OutCap
     THEN out' = out + 1 /\ wbytes' = wbytes - 1 /\ Continue
     ELSE StopFor("WRITE") /\ UNCHANGED <<out, wbytes>>
  /\ UNCHANGED <<control, identity, input, items, write_and_free, replies, sock, eof>>

\* The client is gone.
TransmitError ==
  /\ Writing /\ wbytes > 0 /\ eof
  /\ Goto("conn_closing")
  /\ UNCHANGED <<identity, input, items, output, socket>>
  /\ Continue

\* Mutant: the items of a get are forgotten.
conn_release_items_item == item' = 0 /\ ileft' = 0 /\ refs' = refs - item

conn_release_items == item' = 0 /\ ileft' = 0 /\ refs' = refs - item - ileft

TransmitComplete ==
  /\ Writing /\ wbytes = 0
  /\ replies' = replies + 1
  /\ IF state = "conn_mwrite"
     THEN /\ conn_release_items
          /\ Goto(IF protocol = "binary" THEN write_and_go ELSE "conn_new_cmd")
          /\ UNCHANGED write_and_free
     ELSE /\ write_and_free' = FALSE
          /\ Goto(write_and_go)
          /\ UNCHANGED items
  /\ UNCHANGED <<identity, input, wbytes, socket>>
  /\ Continue

-----------------------------------------------------------------------------
(* conn_closing, and the next client *)

conn_close ==
  /\ state = "conn_closing"
  /\ conn_release_items
  /\ write_and_free' = FALSE
  /\ Goto("conn_closed")
  /\ running' = FALSE
  /\ UNCHANGED <<sasl, identity, input, wbytes, replies, nreqs, ev, socket>>

\* The fields conn_new sets, all but authenticated.
Renew ==
  /\ state = "conn_closed"
  /\ protocol' = IF sasl THEN "binary" ELSE "negotiating"
  /\ state' = "conn_new_cmd" /\ write_and_go' = "conn_new_cmd"
  /\ cmd' = None /\ noreply' = FALSE /\ login' = FALSE
  /\ rbytes' = 0 /\ scanned' = 0 /\ rlbytes' = 0 /\ used' = 0
  /\ item' = 0 /\ ileft' = 0
  /\ wbytes' = 0 /\ write_and_free' = FALSE /\ replies' = 0
  /\ ev' = "READ" /\ sock' = 0 /\ eof' = FALSE /\ out' = 0
  /\ UNCHANGED <<sasl, substate, sbytes, refs, running, nreqs>>

\* Mutant: the object keeps what the last client has proved.
conn_new_trusting == Renew /\ UNCHANGED authenticated

conn_new == Renew /\ authenticated' = FALSE

-----------------------------------------------------------------------------
Drive ==
  /\ running
  /\ \/ reset_cmd_handler \/ Yield \/ Waiting
     \/ ReadNothing \/ \E n \in 0..Window : ReadData(n) \/ ReadOutOfMemory(n)
     \/ \E r \in AsciiRequests, n \in 1..MaxLine : ParseLine(n, r)
     \/ ParseNoLine
     \/ \E r \in BinaryRequests : ParseHeader(r)
     \/ ParseNoHeader
     \/ complete_nread \/ Nread \/ Swallow \/ SwallowDone
     \/ Transmit \/ TransmitError \/ TransmitComplete
     \/ conn_close

Next == Send \/ ReadReplies \/ HangUp \/ event_handler \/ Drive \/ conn_new

\* The event loop runs the events that are ready, a turn of drive_machine's loop does
\* not block, and a client reads the replies it gets.  It need not send anything.
Fairness == WF_vars(event_handler) /\ WF_vars(Drive) /\ WF_vars(ReadReplies)

Spec == Init /\ [][Next]_vars /\ Fairness

-----------------------------------------------------------------------------
(* Properties *)

\* Requests as the protocols describe them.  What clients send is one of these, or a
\* line or header the code refuses.  Not among them are those after which the code has
\* lost its place in the input or forgotten a reference: a get of several items, and a
\* set with noreply or in binary, for which memory runs out, a value too large and
\* an overlong mechanism with an empty value.
RegularLine(r) ==
  /\ r.key = 0
  /\ r.op # "set" => r.val = 0
  /\ r.op \in {"get", "stats"} => ~r.quiet
  /\ r.result = "nomem" => ~r.quiet /\ r.op # "get"

RegularHeader(r) ==
  /\ r.op \in {"version", "noop", "sasl_list_mechs"} => r.key = 0
  /\ r.op \notin {"set", "append", "sasl_auth", "unknown", "malformed"} => r.val = 0
  /\ r.op \in {"version", "noop", "sasl_list_mechs", "stat", "sasl_auth"} => ~r.quiet
  /\ r.op = "get" => r.result \in {"hit", "miss"}
  /\ r.op = "unknown" => r.result # "ok"
  /\ r.result \in {"toolarge", "badmech"} => r.val > 0
  /\ r.result # "nomem"

Regular ==
  (\A r \in AsciiRequests : RegularLine(r)) /\ (\A r \in BinaryRequests : RegularHeader(r))

\* The fields keep to their types: the counts of bytes that nread and swallow take
\* from the read buffer and the socket never pass what is wanted.
TypeOK ==
  /\ sasl \in BOOLEAN /\ noreply \in BOOLEAN /\ authenticated \in BOOLEAN /\ login \in BOOLEAN
  /\ protocol \in {"negotiating", "ascii", "binary"}
  /\ state \in State /\ write_and_go \in State
  /\ substate \in {"bin_no_state", "bin_reading_key", "bin_read_set_value",
                   "bin_reading_sasl_auth_data"}
  /\ cmd \in Requests \cup {None}
  /\ rbytes \in 0..Window /\ sock \in 0..Window /\ scanned \in 0..rbytes
  /\ rlbytes \in Nat /\ sbytes \in Nat /\ used \in Nat
  /\ item \in 0..1 /\ ileft \in 0..1 /\ refs \in Nat
  /\ wbytes \in Nat /\ replies \in Nat /\ write_and_free \in BOOLEAN
  /\ running \in BOOLEAN /\ nreqs \in 0..ReqsPerEvent /\ ev \in {"READ", "WRITE"}
  /\ eof \in BOOLEAN /\ out \in 0..OutCap

\* The server and the client agree where a request ends: when a request is over,
\* exactly its key and its value have been taken from the input, however they
\* arrived and whether the request was carried out, refused or not understood.
Framing == state = "conn_new_cmd" /\ cmd # None => used = cmd.key + cmd.val

\* Requests that are not answered: those with noreply, a quiet get that finds nothing,
\* and a quiet command of the other kinds that succeeds.
Silent(r) ==
  r.quiet /\ (protocol = "ascii" \/ r.result = (IF r.op = "get" THEN "miss" ELSE "ok"))

\* A client that counts replies stays in step: every request that is over has been
\* answered once, or not at all if it is silent.
OneReplyEach ==
  state = "conn_new_cmd" /\ cmd # None => replies = IF Silent(cmd) THEN 0 ELSE 1

\* The references a connection has taken are the ones it remembers, and it has none
\* between requests and when it is closed, on whatever way it got there.
RefsRecorded ==
  /\ refs = item + ileft
  /\ state \in {"conn_waiting", "conn_read", "conn_parse_cmd", "conn_closed"} => refs = 0

\* With option -S no command but the ones that serve to authenticate is carried out
\* for a client that has not proved who it is; the last client's proof does not count.
AuthFirst == sasl /\ state = "conn_nread" /\ cmd.op \notin Public => login

\* A client waits for a reply no longer than it takes to send the request.  A request
\* that is over gives way to the next one, although no event announces what is in the
\* read buffer already; a line or header that has arrived is parsed; and a request
\* whose key and value have arrived is finished, unless the connection is closed.
Answered ==
  LET arrived == rbytes + sock
      over == state = "conn_new_cmd"
      closed == state = "conn_closed"
  IN
  /\ over /\ arrived > 0 ~> ~over
  /\ cmd = None /\ arrived >= MaxLine ~> cmd # None \/ closed
  /\ cmd # None /\ used + arrived >= cmd.key + cmd.val ~> over \/ closed
=============================================================================
