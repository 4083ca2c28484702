--------------------------- MODULE BinaryCommands ---------------------------
(***************************************************************************)
(* The commands of the binary protocol: dispatch_bin_command, when a       *)
(* header has been read, and complete_nread_binary, when the key, and then *)
(* the value, have been read too.  A quiet command is the plain one with   *)
(* c->noreply set.  SASL authentication is required with option -S.        *)
(*                                                                         *)
(* Lengths are naturals: left out are append, prepend and authentication   *)
(* with a body shorter than the key, whose rlbytes come out negative.      *)
(* conn_nread closes the connection when it sees that.                     *)
(***************************************************************************)
EXTENDS ConnState

\* What every command below leaves alone unless it says otherwise.
NoItem == UNCHANGED items
NoRead == UNCHANGED <<rlbytes, substate>>
NoAuth == UNCHANGED <<authenticated, login>>
NoBuffer == UNCHANGED write_and_free

-----------------------------------------------------------------------------
(* dispatch_bin_command *)

\* authenticated(c): these may be used before the client has proved who it is.
Public == {"sasl_list_mechs", "sasl_auth", "version"}
Permitted(r) == ~sasl \/ authenticated \/ r.op \in Public

\* handle_binary_protocol_error, and commands that must not be used yet: an error,
\* then the connection is closed with whatever else was sent.
RefuseAndClose(r) ==
  /\ ~Permitted(r) \/ r.op = "malformed"
  /\ BinReply("conn_closing")
  /\ noreply' = IF Permitted(r) THEN r.quiet ELSE noreply
  /\ NoItem /\ NoRead /\ NoAuth /\ NoBuffer /\ UNCHANGED sbytes

\* Commands of a header only: version, noop.
HeaderCommand(r) ==
  /\ Permitted(r) /\ r.op \in {"version", "noop"}
  /\ noreply' = r.quiet
  /\ write_bin_response(r.quiet)
  /\ NoItem /\ NoRead /\ NoAuth /\ NoBuffer /\ UNCHANGED sbytes

QuitBin(r) ==
  /\ Permitted(r) /\ r.op = "quit"
  /\ noreply' = r.quiet
  /\ IF r.quiet THEN state' = "conn_closing" /\ write_and_go' = "conn_closing" /\ UNCHANGED wbytes
                ELSE BinReply("conn_closing")
  /\ NoItem /\ NoRead /\ NoAuth /\ NoBuffer /\ UNCHANGED sbytes

UnknownCommand(r) ==
  /\ Permitted(r) /\ r.op = "unknown"
  /\ noreply' = r.quiet
  /\ write_bin_error(r.key + r.val)
  /\ NoItem /\ NoRead /\ NoAuth /\ NoBuffer

\* init_sasl_conn forgets an earlier authentication.
bin_list_sasl_mechs(r) ==
  /\ r.op = "sasl_list_mechs"
  /\ noreply' = r.quiet
  /\ IF sasl /\ r.result = "ok" THEN write_bin_response(r.quiet) /\ UNCHANGED sbytes
                                ELSE write_bin_error(r.val)
  /\ authenticated' = (authenticated /\ ~sasl)
  /\ login' = (login /\ ~sasl)
  /\ NoItem /\ NoRead /\ NoBuffer

\* Commands with a key: bin_read_key reads extras and key into the read buffer,
\* or closes the connection if that cannot grow.
WithKey == {"get", "set", "append", "delete", "incr", "flush", "stat", "sasl_auth"}

bin_read_key(r) ==
  /\ Permitted(r) /\ r.op \in WithKey
  /\ noreply' = r.quiet
  /\ rlbytes' = r.key
  /\ substate' = "bin_reading_key"
  /\ state' \in {"conn_nread", "conn_closing"}
  /\ NoItem /\ NoAuth /\ NoBuffer /\ UNCHANGED <<sbytes, wbytes, write_and_go>>

dispatch_bin_command(r) ==
  \/ RefuseAndClose(r) \/ HeaderCommand(r) \/ QuitBin(r) \/ UnknownCommand(r)
  \/ bin_list_sasl_mechs(r) \/ bin_read_key(r)

-----------------------------------------------------------------------------
(* complete_nread_binary *)

KeyRead(op) == substate = "bin_reading_key" /\ cmd.op = op

\* get, getk, touch, gat: a hit is always sent, a miss only if the command is not quiet.
process_bin_get_or_touch ==
  /\ KeyRead("get")
  /\ IF cmd.result = "hit"
     THEN TakeItem /\ BinReply("conn_new_cmd") /\ UNCHANGED sbytes
     ELSE /\ NoItem
          /\ IF noreply THEN state' = "conn_new_cmd" /\ UNCHANGED <<wbytes, write_and_go, sbytes>>
                        ELSE write_bin_error(0)
  /\ NoRead /\ NoAuth /\ NoBuffer

\* The value is read into a new item; a value that is too large is swallowed.  After
\* out_of_memory it should be, but nothing sets sbytes.
UpdateBin ==
  /\ IF cmd.result \in {"toolarge", "nomem"}
     THEN /\ RefuseAndSwallow(IF cmd.result = "toolarge" THEN cmd.val ELSE 0)
          /\ NoItem /\ NoRead
     ELSE /\ TakeItem
          /\ rlbytes' = cmd.val
          /\ substate' = "bin_read_set_value"
          /\ UNCHANGED <<state, sbytes, wbytes, write_and_go>>
  /\ NoAuth /\ NoBuffer

process_bin_update == KeyRead("set") /\ UpdateBin
process_bin_append_prepend == KeyRead("append") /\ UpdateBin

ResponseOrError ==
  /\ IF cmd.result = "ok" THEN write_bin_response(noreply) /\ UNCHANGED sbytes
                          ELSE write_bin_error(0)
  /\ NoRead /\ NoAuth /\ NoBuffer

\* The value has been read and goes into the cache, or is refused.
complete_update_bin ==
  /\ substate = "bin_read_set_value"
  /\ ResponseOrError
  /\ DropItem

\* delete, incr and flush give up what they look up before they return.
process_bin_delete == KeyRead("delete") /\ ResponseOrError /\ NoItem
complete_incr_bin == KeyRead("incr") /\ ResponseOrError /\ NoItem
process_bin_flush == KeyRead("flush") /\ ResponseOrError /\ NoItem

process_bin_stat ==
  /\ KeyRead("stat")
  /\ IF cmd.result = "ok" THEN WriteAndFree /\ UNCHANGED sbytes
                          ELSE write_bin_error(0) /\ NoBuffer
  /\ NoItem /\ NoRead /\ NoAuth

\* The mechanism has been read: read the credentials into an item.  Without -S the
\* command is unknown; a mechanism that is too long is refused, and so is the
\* command when there is no memory for the item.
process_bin_sasl_auth ==
  /\ KeyRead("sasl_auth")
  /\ IF ~sasl \/ cmd.result = "badmech"
     THEN /\ IF sasl THEN RefuseAndSwallow(cmd.val) ELSE write_bin_error(cmd.val)
          /\ NoItem /\ NoRead
     ELSE /\ TakeItem
          /\ rlbytes' = cmd.val
          /\ substate' = "bin_reading_sasl_auth_data"
          /\ UNCHANGED <<state, sbytes, wbytes, write_and_go>>
  /\ NoAuth /\ NoBuffer

\* The answer of sasl_server_start or sasl_server_step: the last one counts.
process_bin_complete_sasl_auth ==
  /\ substate = "bin_reading_sasl_auth_data"
  /\ authenticated' = (cmd.result = "ok")
  /\ login' = (cmd.result = "ok")
  /\ BinReply("conn_new_cmd")
  /\ NoItem /\ NoRead /\ NoBuffer /\ UNCHANGED sbytes

complete_nread_binary ==
  /\ protocol = "binary"
  /\ \/ process_bin_get_or_touch \/ process_bin_update \/ process_bin_append_prepend
     \/ complete_update_bin \/ process_bin_delete \/ complete_incr_bin
     \/ process_bin_flush \/ process_bin_stat
     \/ process_bin_sasl_auth \/ process_bin_complete_sasl_auth
  /\ UNCHANGED noreply
=============================================================================
