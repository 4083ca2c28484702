---------------------------- MODULE AsciiCommands ---------------------------
(***************************************************************************)
(* process_command: what a line of the ASCII protocol does to its          *)
(* connection.  The line has been taken from the read buffer already.      *)
(* What commands do to the cache is ItemCache.                             *)
(***************************************************************************)
EXTENDS ConnState

\* get and gets: the items found go into ilist and are sent from there.  When the
\* list of buffers cannot grow, the items stay in ilist behind an error message.
process_get_command(r) ==
  LET hits == IF r.result = "miss" THEN 0 ELSE 1 IN
  /\ r.op = "get"
  /\ ileft' = hits /\ refs' = refs + hits
  /\ IF r.result = "nomem"
     THEN out_string(FALSE, "conn_new_cmd")
     ELSE /\ state' = "conn_mwrite" /\ wbytes' = 1 + hits
          /\ UNCHANGED <<noreply, write_and_go>>
  /\ UNCHANGED <<item, substate, rlbytes, sbytes, write_and_free>>

\* set and the like: wait for the data in conn_nread, or refuse and swallow it.
process_update_command(r) ==
  /\ r.op = "set"
  /\ IF r.result = "nomem"
     THEN /\ out_string(r.quiet, "conn_swallow")
          /\ sbytes' = r.val
          /\ UNCHANGED <<items, rlbytes>>
     ELSE /\ TakeItem
          /\ rlbytes' = r.val
          /\ state' = "conn_nread"
          /\ noreply' = r.quiet
          /\ UNCHANGED <<sbytes, wbytes, write_and_go>>
  /\ UNCHANGED <<substate, write_and_free>>

\* Commands of one line: delete, incr, touch, flush_all, version, errors, ...
OneLineCommand(r) ==
  /\ r.op = "line"
  /\ out_string(r.quiet, "conn_new_cmd")
  /\ UNCHANGED <<items, substate, rlbytes, sbytes, write_and_free>>

process_stat(r) ==
  /\ r.op = "stats"
  /\ WriteAndFree
  /\ UNCHANGED <<items, substate, rlbytes, sbytes, noreply>>

Quit(r) ==
  /\ r.op = "quit"
  /\ state' = "conn_closing"
  /\ UNCHANGED <<items, substate, rlbytes, sbytes, noreply, write_and_go, wbytes, write_and_free>>

process_command(r) ==
  /\ \/ process_get_command(r) \/ process_update_command(r) \/ OneLineCommand(r)
     \/ process_stat(r) \/ Quit(r)
  /\ UNCHANGED <<authenticated, login>>

\* The data of a storage command has arrived, and goes into the cache or not: one
\* message in any case.
complete_nread_ascii ==
  /\ protocol = "ascii"
  /\ out_string(noreply, "conn_new_cmd")
  /\ DropItem
  /\ UNCHANGED <<substate, rlbytes, sbytes, write_and_free, authenticated, login>>
=============================================================================
