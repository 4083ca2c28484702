-------------------------- MODULE ConnMachine_proofs -------------------------
(***************************************************************************)
(* Proofs about ConnMachine, for any requests, windows and limits.         *)
(***************************************************************************)
EXTENDS ConnMachine, TLAPS

LEMMA Min2 ==
  ASSUME NEW a \in Int, NEW b \in Int
  PROVE  Min({a, b}) = IF a <= b THEN a ELSE b
  BY DEF Min

-----------------------------------------------------------------------------
(* Types *)

Flags ==
  /\ sasl \in BOOLEAN /\ noreply \in BOOLEAN /\ authenticated \in BOOLEAN /\ login \in BOOLEAN
  /\ write_and_free \in BOOLEAN /\ running \in BOOLEAN /\ eof \in BOOLEAN

\* Where a line may be in the read buffer without its end.
Scanning == {"conn_waiting", "conn_read", "conn_parse_cmd", "conn_closing", "conn_closed"}

Fields ==
  /\ protocol \in {"negotiating", "ascii", "binary"}
  /\ state \in State /\ write_and_go \in State
  /\ substate \in {"bin_no_state", "bin_reading_key", "bin_read_set_value",
                   "bin_reading_sasl_auth_data"}
  /\ cmd \in Requests \cup {None}
  /\ rbytes \in 0..Window /\ sock \in 0..Window /\ scanned \in 0..rbytes
  /\ rlbytes \in Nat /\ sbytes \in Nat /\ used \in Nat
  /\ item \in 0..1 /\ ileft \in 0..1 /\ refs \in Nat
  /\ wbytes \in Nat /\ replies \in Nat
  /\ nreqs \in 0..ReqsPerEvent /\ ev \in {"READ", "WRITE"}
  /\ out \in 0..OutCap

\* What keeps the counts in their ranges.
Bounds ==
  /\ sock + rbytes <= Window
  /\ scanned > 0 => state \in Scanning /\ protocol = "ascii"
  /\ refs >= item + ileft
  /\ state = "conn_nread" => cmd # None
  /\ write_and_go \in {"conn_new_cmd", "conn_swallow", "conn_closing"}

TInv == Flags /\ Fields /\ Bounds

LEMMA TypesOfInit == Init => TInv
<1> SUFFICES ASSUME Init PROVE TInv
  OBVIOUS
<1>1. Flags
  BY Zenon DEF Init, Flags
<1>2. Fields /\ Bounds
  BY WindowAssumption DEF Init, Fields, Bounds, State
<1> QED BY <1>1, <1>2 DEF TInv

LEMMA TypesKnown == TInv => TypeOK
  BY Zenon DEF TInv, Flags, Fields, TypeOK

\* The flags stay Boolean.
LEMMA FlagsKept ==
  ASSUME Flags, Next
  PROVE  Flags'
<1> USE DEF Flags, Continue, Goto, StopFor, control, identity, input, items, output, loop, socket
<1>1. CASE Send \/ ReadReplies \/ HangUp \/ event_handler
  BY <1>1, Zenon DEF Send, ReadReplies, HangUp, event_handler, client
<1>2. CASE reset_cmd_handler \/ Yield \/ Waiting \/ ReadNothing
  BY <1>2, Zenon DEF reset_cmd_handler, Yield, Waiting, ReadNothing
<1>3. ASSUME NEW n \in 0..Window, ReadData(n) \/ ReadOutOfMemory(n) PROVE Flags'
  BY <1>3, Zenon DEF ReadData, ReadOutOfMemory, out_string, BinReply
<1>4. ASSUME NEW r \in AsciiRequests, NEW n \in 1..MaxLine, ParseLine(n, r) PROVE Flags'
  <2>1. r.quiet \in BOOLEAN
    BY RequestAssumption DEF Requests
  <2>2. noreply' \in BOOLEAN /\ write_and_free' \in BOOLEAN
    BY <1>4, <2>1, Zenon DEF ParseLine, process_command, process_get_command,
       process_update_command, OneLineCommand, process_stat, Quit, out_string, WriteAndFree
  <2> QED BY <1>4, <2>2, Zenon DEF ParseLine, process_command
<1>5. ASSUME NEW r \in BinaryRequests, ParseHeader(r) PROVE Flags'
  <2>1. r.quiet \in BOOLEAN
    BY RequestAssumption DEF Requests
  <2>2. /\ noreply' \in BOOLEAN /\ authenticated' \in BOOLEAN /\ login' \in BOOLEAN
        /\ UNCHANGED write_and_free
    BY <1>5, <2>1, Zenon DEF ParseHeader, dispatch_bin_command, RefuseAndClose, HeaderCommand,
       QuitBin, UnknownCommand, bin_list_sasl_mechs, bin_read_key, NoAuth, NoBuffer
  <2> QED BY <1>5, <2>2, Zenon DEF ParseHeader
<1>6. CASE ParseNoLine \/ ParseNoHeader
  BY <1>6, Zenon DEF ParseNoLine, ParseNoHeader, Wait
<1>7. CASE complete_nread
  <2>1. CASE complete_nread_ascii
    BY <1>7, <2>1, Zenon DEF complete_nread, complete_nread_ascii, out_string
  <2>2. CASE complete_nread_binary
    <3>1. /\ authenticated' \in BOOLEAN /\ login' \in BOOLEAN /\ write_and_free' \in BOOLEAN
      BY <2>2, Zenon DEF complete_nread_binary, process_bin_get_or_touch, process_bin_update,
         process_bin_append_prepend, UpdateBin, complete_update_bin, process_bin_delete,
         complete_incr_bin, process_bin_flush, process_bin_stat, process_bin_sasl_auth,
         process_bin_complete_sasl_auth, ResponseOrError, WriteAndFree, NoAuth, NoBuffer
    <3> QED BY <1>7, <2>2, <3>1, Zenon DEF complete_nread, complete_nread_binary
  <2> QED BY <1>7, <2>1, <2>2, Zenon DEF complete_nread
<1>8. CASE Nread \/ Swallow \/ SwallowDone
  BY <1>8, Zenon DEF Nread, Swallow, SwallowDone
<1>9. CASE Transmit \/ TransmitError \/ TransmitComplete
  BY <1>9, Zenon DEF Transmit, TransmitError, TransmitComplete
<1>10. CASE conn_close \/ conn_new
  BY <1>10, Zenon DEF conn_close, conn_new, Renew
<1> QED BY <1>1, <1>2, <1>3, <1>4, <1>5, <1>6, <1>7, <1>8, <1>9, <1>10 DEF Next, Drive

\* The counts stay in their ranges.
LEMMA FieldsOfClient ==
  ASSUME TInv, Send \/ ReadReplies \/ HangUp \/ event_handler
  PROVE  Fields' /\ Bounds'
<1> USE WindowAssumption DEF TInv, Fields, Bounds, control, identity, input, items, output, loop, socket
<1>1. CASE Send
  BY <1>1 DEF Send, client
<1>2. CASE ReadReplies
  BY <1>2 DEF ReadReplies, client
<1>3. CASE HangUp
  BY <1>3 DEF HangUp, client
<1>4. CASE event_handler
  BY <1>4 DEF event_handler
<1> QED BY <1>1, <1>2, <1>3, <1>4

LEMMA FieldsOfRead ==
  ASSUME TInv,
         \/ reset_cmd_handler \/ Yield \/ Waiting \/ ReadNothing
         \/ \E n \in 0..Window : ReadData(n) \/ ReadOutOfMemory(n)
  PROVE  Fields' /\ Bounds'
<1> USE WindowAssumption
    DEF TInv, Fields, Bounds, State, Scanning, Goto, Continue, StopFor, identity, input, items,
        output, loop, socket
<1>1. CASE reset_cmd_handler
  BY <1>1 DEF reset_cmd_handler, DropItem
<1>2. CASE Yield
  BY <1>2 DEF Yield, control
<1>3. CASE Waiting
  BY <1>3 DEF Waiting
<1>4. CASE ReadNothing
  BY <1>4 DEF ReadNothing
<1>5. ASSUME NEW n \in 0..Window, ReadData(n) PROVE Fields' /\ Bounds'
  BY <1>5 DEF ReadData
<1>6. ASSUME NEW n \in 0..Window, ReadOutOfMemory(n) PROVE Fields' /\ Bounds'
  BY <1>6 DEF ReadOutOfMemory, out_string, BinReply
<1> QED BY <1>1, <1>2, <1>3, <1>4, <1>5, <1>6

LEMMA FieldsOfLine ==
  ASSUME TInv, NEW r \in AsciiRequests, NEW n \in 1..MaxLine, ParseLine(n, r)
  PROVE  Fields' /\ Bounds'
<1> USE WindowAssumption, RequestAssumption
    DEF TInv, Fields, Bounds, State, Scanning, socket, Continue, loop, items
<1>1. /\ n <= rbytes /\ r \in Requests /\ r.val \in Nat
      /\ protocol' = "ascii" /\ rbytes' = rbytes - n /\ scanned' = 0 /\ cmd' = r
      /\ UNCHANGED <<used, replies, sock, out, ev, nreqs>>
  BY Min2 DEF ParseLine, Requests, Negotiated
<1>2. process_command(r)
  BY DEF ParseLine
<1>3. CASE process_get_command(r)
  BY <1>1, <1>3 DEF process_get_command, out_string
<1>4. CASE process_update_command(r)
  BY <1>1, <1>4 DEF process_update_command, out_string, TakeItem
<1>5. CASE OneLineCommand(r)
  BY <1>1, <1>5 DEF OneLineCommand, out_string
<1>6. CASE process_stat(r)
  BY <1>1, <1>6 DEF process_stat, WriteAndFree
<1>7. CASE Quit(r)
  BY <1>1, <1>7 DEF Quit
<1> QED BY <1>2, <1>3, <1>4, <1>5, <1>6, <1>7 DEF process_command

LEMMA FieldsOfHeader ==
  ASSUME TInv, NEW r \in BinaryRequests, ParseHeader(r)
  PROVE  Fields' /\ Bounds'
<1> USE WindowAssumption, RequestAssumption
    DEF TInv, Fields, Bounds, State, Scanning, socket, Continue, loop, items,
        NoItem, NoRead, NoAuth, NoBuffer
<1>1. /\ r \in Requests /\ r.key \in Nat /\ r.val \in Nat
      /\ protocol' = "binary" /\ rbytes >= HeaderTokens /\ rbytes' = rbytes - HeaderTokens
      /\ scanned = 0 /\ scanned' = 0 /\ cmd' = r
      /\ UNCHANGED <<used, replies, sock, out, ev, nreqs>>
  BY DEF ParseHeader, Requests, Negotiated
<1>2. dispatch_bin_command(r)
  BY DEF ParseHeader
<1>3. CASE RefuseAndClose(r)
  BY <1>1, <1>3 DEF RefuseAndClose, BinReply
<1>4. CASE HeaderCommand(r)
  BY <1>1, <1>4 DEF HeaderCommand, write_bin_response, BinReply
<1>5. CASE QuitBin(r)
  BY <1>1, <1>5 DEF QuitBin, BinReply
<1>6. CASE UnknownCommand(r)
  BY <1>1, <1>6 DEF UnknownCommand, write_bin_error, BinReply
<1>7. CASE bin_list_sasl_mechs(r)
  BY <1>1, <1>7 DEF bin_list_sasl_mechs, write_bin_error, write_bin_response, BinReply
<1>8. CASE bin_read_key(r)
  BY <1>1, <1>8 DEF bin_read_key
<1> QED BY <1>2, <1>3, <1>4, <1>5, <1>6, <1>7, <1>8 DEF dispatch_bin_command

LEMMA FieldsOfWait ==
  ASSUME TInv, ParseNoLine \/ ParseNoHeader
  PROVE  Fields' /\ Bounds'
<1> USE WindowAssumption
    DEF TInv, Fields, Bounds, State, Scanning, Negotiated, Wait, Continue, identity, items, output,
        loop, socket
<1>1. CASE ParseNoLine
  <2>1. state' \in {"conn_waiting", "conn_closing"} /\ protocol' = "ascii" /\ scanned' = rbytes
    BY <1>1 DEF ParseNoLine
  <2>2. UNCHANGED <<substate, write_and_go, cmd, rbytes, sock, rlbytes, sbytes, used, item, ileft,
                    refs, wbytes, replies, nreqs, ev, out>>
    BY <1>1 DEF ParseNoLine
  <2> QED BY <2>1, <2>2
<1>2. CASE ParseNoHeader
  <2>1. scanned = 0 /\ state' \in {"conn_waiting", "conn_closing"} /\ protocol' = "binary"
    BY <1>2 DEF ParseNoHeader
  <2> QED BY <1>2, <2>1 DEF ParseNoHeader
<1> QED BY <1>1, <1>2

LEMMA FieldsOfComplete ==
  ASSUME TInv, complete_nread
  PROVE  Fields' /\ Bounds'
<1> USE WindowAssumption, RequestAssumption
    DEF TInv, Fields, Bounds, State, Scanning, socket, Continue, loop, items,
        NoItem, NoRead, NoAuth, NoBuffer, KeyRead, TakeItem, DropItem
<1>1. /\ state = "conn_nread" /\ rlbytes = 0 /\ scanned = 0
      /\ UNCHANGED <<protocol, cmd, rbytes, scanned, used, replies, sock, out, ev, nreqs>>
  BY DEF complete_nread
<1>2. CASE complete_nread_ascii
  BY <1>1, <1>2 DEF complete_nread_ascii, out_string
<1>3. CASE complete_nread_binary
  <2> USE <1>1 DEF write_bin_error, write_bin_response, RefuseAndSwallow, BinReply
  <2>0. cmd.key \in Nat /\ cmd.val \in Nat
    BY <1>1
  <2>1. CASE process_bin_get_or_touch
    BY <2>1 DEF process_bin_get_or_touch
  <2>2. CASE process_bin_update \/ process_bin_append_prepend
    BY <2>0, <2>2 DEF process_bin_update, process_bin_append_prepend, UpdateBin
  <2>3. CASE complete_update_bin
    BY <2>3 DEF complete_update_bin, ResponseOrError
  <2>4. CASE process_bin_delete \/ complete_incr_bin \/ process_bin_flush
    BY <2>4 DEF process_bin_delete, complete_incr_bin, process_bin_flush, ResponseOrError
  <2>5. CASE process_bin_stat
    BY <2>5 DEF process_bin_stat, WriteAndFree
  <2>6. CASE process_bin_sasl_auth
    BY <2>0, <2>6 DEF process_bin_sasl_auth
  <2>7. CASE process_bin_complete_sasl_auth
    BY <2>7 DEF process_bin_complete_sasl_auth
  <2> QED BY <1>3, <2>1, <2>2, <2>3, <2>4, <2>5, <2>6, <2>7 DEF complete_nread_binary
<1> QED BY <1>2, <1>3 DEF complete_nread

LEMMA FieldsOfInput ==
  ASSUME TInv, Nread \/ Swallow \/ SwallowDone
  PROVE  Fields' /\ Bounds'
<1> USE WindowAssumption, Min2
    DEF TInv, Fields, Bounds, State, Scanning, Goto, Continue, StopFor, ToCopy, identity, items,
        output, loop, socket, control
<1>1. CASE Nread
  <2> DEFINE copied == ToCopy(rlbytes)
             got == Min({rlbytes - copied, sock})
  <2>1. copied \in 0..rlbytes /\ copied <= rbytes
    OBVIOUS
  <2>2. got \in 0..(rlbytes - copied) /\ got <= sock
    BY <2>1
  <2> HIDE DEF copied, got
  <2>3. /\ rbytes' = rbytes - copied /\ sock' = sock - got
        /\ rlbytes' = rlbytes - copied - got /\ used' = used + copied + got
        /\ state = "conn_nread" /\ state' \in {"conn_nread", "conn_closing"}
        /\ ev' \in {"READ", ev}
        /\ UNCHANGED <<protocol, substate, write_and_go, cmd, scanned, sbytes, item, ileft, refs,
                       wbytes, replies, nreqs, out>>
    BY <1>1 DEF Nread, copied, got
  <2> QED BY <2>1, <2>2, <2>3
<1>2. CASE Swallow
  <2> DEFINE copied == ToCopy(sbytes)
             got == IF rbytes > 0 THEN 0 ELSE Min({sbytes, sock})
  <2>1. copied \in 0..sbytes /\ copied <= rbytes
    OBVIOUS
  <2>2. got \in 0..sock /\ copied + got <= sbytes
    BY <2>1
  <2> HIDE DEF copied, got
  <2>3. /\ rbytes' = rbytes - copied /\ sock' = sock - got
        /\ sbytes' = sbytes - copied - got /\ used' = used + copied + got
        /\ state = "conn_swallow" /\ state' \in {"conn_swallow", "conn_closing"}
        /\ ev' \in {"READ", ev}
        /\ UNCHANGED <<protocol, substate, write_and_go, cmd, scanned, rlbytes, item, ileft, refs,
                       wbytes, replies, nreqs, out>>
    BY <1>2 DEF Swallow, copied, got
  <2> QED BY <2>1, <2>2, <2>3
<1>3. CASE SwallowDone
  BY <1>3 DEF SwallowDone, input
<1> QED BY <1>1, <1>2, <1>3

LEMMA FieldsOfOutput ==
  ASSUME TInv, Transmit \/ TransmitError \/ TransmitComplete
  PROVE  Fields' /\ Bounds'
<1> USE WindowAssumption
    DEF TInv, Fields, Bounds, State, Scanning, Goto, Continue, StopFor, Writing, identity, items,
        input, output, loop, socket, control
<1>1. CASE Transmit
  BY <1>1 DEF Transmit
<1>2. CASE TransmitError
  BY <1>2 DEF TransmitError
<1>3. CASE TransmitComplete
  BY <1>3 DEF TransmitComplete, conn_release_items
<1> QED BY <1>1, <1>2, <1>3

LEMMA FieldsOfClose ==
  ASSUME TInv, conn_close \/ conn_new
  PROVE  Fields' /\ Bounds'
<1> USE WindowAssumption DEF TInv, Fields, Bounds, State, Scanning, identity, input, socket
<1>1. CASE conn_close
  BY <1>1 DEF conn_close, conn_release_items, Goto
<1>2. CASE conn_new
  BY <1>2 DEF conn_new, Renew
<1> QED BY <1>1, <1>2

LEMMA TypesKept == TInv /\ [Next]_vars => TInv'
<1> SUFFICES ASSUME TInv, [Next]_vars PROVE TInv'
  OBVIOUS
<1>1. CASE Next
  <2>1. Flags'
    BY <1>1, FlagsKept DEF TInv
  <2>2. Fields' /\ Bounds'
    BY <1>1, FieldsOfClient, FieldsOfRead, FieldsOfLine, FieldsOfHeader, FieldsOfWait,
       FieldsOfComplete, FieldsOfInput, FieldsOfOutput, FieldsOfClose DEF Next, Drive
  <2> QED BY <2>1, <2>2 DEF TInv
<1>2. CASE UNCHANGED vars
  BY <1>2 DEF TInv, Flags, Fields, Bounds, vars, control, identity, input, items, output, loop, socket
<1> QED BY <1>1, <1>2

LEMMA TypesHold == Spec => []TInv
  BY TypesOfInit, TypesKept, PTL DEF Spec

\* Whatever is sent and in whatever pieces, the fields of a connection keep to their
\* types: no count of bytes or references goes below zero or beyond its buffer.
THEOREM TypeCorrect == Spec => []TypeOK
  BY TypesHold, TypesKnown, PTL

-----------------------------------------------------------------------------
(* Authentication *)

\* What the object remembers of a login is true of the client it serves now, and
\* with option -S only the binary protocol is spoken.
AInv ==
  /\ authenticated => login
  /\ sasl => protocol = "binary"
  /\ AuthFirst

LEMMA AuthOfInit == Init => AInv
  BY Zenon DEF Init, AInv, AuthFirst

LEMMA AuthKept == TInv /\ TInv' /\ AInv /\ [Next]_vars => AInv'
<1> SUFFICES ASSUME TInv, TInv', AInv, [Next]_vars PROVE AInv'
  OBVIOUS
<1>0. Flags /\ Flags' /\ write_and_go # "conn_nread"
  BY DEF TInv, Bounds
<1> USE <1>0 DEF Flags, AInv, AuthFirst, Continue, Goto, StopFor, control, identity, input, items,
            output, loop, socket
<1>1. CASE Send \/ ReadReplies \/ HangUp \/ event_handler
  BY <1>1, Zenon DEF Send, ReadReplies, HangUp, event_handler, client
<1>2. CASE reset_cmd_handler \/ Yield \/ Waiting \/ ReadNothing
  <2>1. UNCHANGED <<sasl, authenticated, login, protocol>>
    BY <1>2, Zenon DEF reset_cmd_handler, Yield, Waiting, ReadNothing
  <2>2. state' # "conn_nread"
    BY <1>2 DEF reset_cmd_handler, Yield, Waiting, ReadNothing
  <2> QED BY <2>1, <2>2, Zenon
<1>3. ASSUME NEW n \in 0..Window, ReadData(n) \/ ReadOutOfMemory(n) PROVE AInv'
  <2>1. UNCHANGED <<sasl, authenticated, login, protocol>>
    BY <1>3, Zenon DEF ReadData, ReadOutOfMemory
  <2>2. state' # "conn_nread"
    BY <1>3 DEF ReadData, ReadOutOfMemory, out_string, BinReply
  <2> QED BY <2>1, <2>2, Zenon
<1>4. ASSUME NEW r \in AsciiRequests, NEW n \in 1..MaxLine, ParseLine(n, r) PROVE AInv'
  <2>1. UNCHANGED <<sasl, authenticated, login>> /\ protocol' = "ascii"
        /\ protocol \in {"ascii", "negotiating"}
    BY <1>4, Zenon DEF ParseLine, process_command, Negotiated
  <2>2. ~sasl
    BY <2>1
  <2> QED BY <2>1, <2>2, Zenon
<1>5. ASSUME NEW r \in BinaryRequests, ParseHeader(r) PROVE AInv'
  <2>1. UNCHANGED sasl /\ protocol' = "binary" /\ cmd' = r /\ dispatch_bin_command(r)
    BY <1>5, Zenon DEF ParseHeader, Negotiated
  <2>2. CASE RefuseAndClose(r) \/ HeaderCommand(r) \/ QuitBin(r) \/ UnknownCommand(r)
    <3>1. state' # "conn_nread"
      BY <2>2 DEF RefuseAndClose, HeaderCommand, QuitBin, UnknownCommand, write_bin_response,
                  write_bin_error, BinReply
    <3> QED BY <2>1, <2>2, <3>1, Zenon
            DEF RefuseAndClose, HeaderCommand, QuitBin, UnknownCommand, NoAuth
  <2>3. CASE bin_list_sasl_mechs(r)
    <3>1. state' # "conn_nread"
      BY <2>3 DEF bin_list_sasl_mechs, write_bin_response, write_bin_error, BinReply
    <3> QED BY <2>1, <2>3, <3>1, Zenon DEF bin_list_sasl_mechs
  <2>4. CASE bin_read_key(r)
    <3>1. sasl => login \/ r.op \in Public
      BY <2>4, Zenon DEF bin_read_key, Permitted
    <3> QED BY <2>1, <2>4, <3>1, Zenon DEF bin_read_key, NoAuth
  <2> QED BY <2>1, <2>2, <2>3, <2>4 DEF dispatch_bin_command
<1>6. CASE ParseNoLine \/ ParseNoHeader
  <2>1. UNCHANGED <<sasl, authenticated, login>> /\ protocol' \in {"ascii", "binary"}
        /\ protocol \in {protocol', "negotiating"}
    BY <1>6, Zenon DEF ParseNoLine, ParseNoHeader, Wait, Negotiated
  <2>2. state' # "conn_nread"
    BY <1>6 DEF ParseNoLine, ParseNoHeader, Wait
  <2> QED BY <2>1, <2>2, Zenon
<1>7. CASE complete_nread
  <2>1. UNCHANGED <<sasl, protocol, cmd>> /\ state = "conn_nread"
    BY <1>7, Zenon DEF complete_nread
  <2>2. CASE complete_nread_ascii
    BY <2>1, <2>2, Zenon DEF complete_nread_ascii
  <2>3. CASE complete_nread_binary
    <3>1. CASE process_bin_complete_sasl_auth
      <4>1. state' # "conn_nread"
        BY <3>1 DEF process_bin_complete_sasl_auth, BinReply
      <4> QED BY <2>1, <3>1, <4>1, Zenon DEF process_bin_complete_sasl_auth
    <3>2. CASE ~process_bin_complete_sasl_auth
      <4>1. UNCHANGED <<authenticated, login>>
        BY <2>3, <3>2, Zenon DEF complete_nread_binary, process_bin_get_or_touch, process_bin_update,
           process_bin_append_prepend, UpdateBin, complete_update_bin, process_bin_delete,
           complete_incr_bin, process_bin_flush, process_bin_stat, process_bin_sasl_auth,
           ResponseOrError, NoAuth
      <4> QED BY <2>1, <4>1, Zenon
    <3> QED BY <3>1, <3>2
  <2> QED BY <1>7, <2>2, <2>3 DEF complete_nread
<1>8. CASE Nread \/ Swallow \/ SwallowDone
  <2>1. UNCHANGED <<sasl, authenticated, login, protocol, cmd>>
    BY <1>8, Zenon DEF Nread, Swallow, SwallowDone
  <2>2. state' = "conn_nread" => state = "conn_nread"
    BY <1>8 DEF Nread, Swallow, SwallowDone
  <2> QED BY <2>1, <2>2, Zenon
<1>9. CASE Transmit \/ TransmitError \/ TransmitComplete
  <2>1. UNCHANGED <<sasl, authenticated, login, protocol, cmd>>
    BY <1>9, Zenon DEF Transmit, TransmitError, TransmitComplete
  <2>2. CASE TransmitComplete
    <3>1. state' # "conn_nread"
      BY <2>2 DEF TransmitComplete
    <3> QED BY <2>1, <3>1, Zenon
  <2>3. CASE Transmit \/ TransmitError
    <3>1. state' # "conn_nread"
      BY <2>3 DEF Transmit, TransmitError, Writing
    <3> QED BY <2>1, <3>1, Zenon
  <2> QED BY <1>9, <2>2, <2>3
<1>10. CASE conn_close \/ conn_new
  BY <1>10, Zenon DEF conn_close, conn_new, Renew
<1>11. CASE UNCHANGED vars
  BY <1>11, Zenon DEF vars
<1> QED BY <1>1, <1>2, <1>3, <1>4, <1>5, <1>6, <1>7, <1>8, <1>9, <1>10, <1>11 DEF Next, Drive

\* With option -S a command that is not public is carried out only for a client that
\* has proved who it is, whatever the clients before it on the same object have proved.
THEOREM AuthenticatedFirst == Spec => []AuthFirst
<1>1. AInv => AuthFirst
  BY DEF AInv
<1> QED BY AuthOfInit, AuthKept, TypesHold, <1>1, PTL DEF Spec

-----------------------------------------------------------------------------
(* References *)

Between == {"conn_waiting", "conn_read", "conn_parse_cmd"}

\* A get leaves the items it has found in ilist until they are sent, all other
\* commands have at most the item at hand, and a command begins with neither.
RInv ==
  /\ refs = item + ileft
  /\ ileft > 0 => state \in {"conn_mwrite", "conn_closing"}
  /\ item > 0 => \/ state \in {"conn_mwrite", "conn_closing"}
                 \/ state = "conn_nread" /\ substate # "bin_reading_key"
  /\ state \in Between => substate = "bin_no_state"
  /\ state = "conn_nread" /\ protocol = "ascii" => substate = "bin_no_state"

LEMMA RefsOfInit == Init => RInv
  BY DEF Init, RInv, Between

LEMMA RefsKept == ASSUME Regular PROVE TInv /\ RInv /\ [Next]_vars => RInv'
<1> SUFFICES ASSUME TInv, RInv, [Next]_vars PROVE RInv'
  OBVIOUS
<1>0. Fields /\ Bounds
  BY DEF TInv
<1> USE <1>0 DEF Fields, Bounds, RInv, Between, items, Goto
<1>1. CASE Send \/ ReadReplies \/ HangUp \/ event_handler
  BY <1>1 DEF Send, ReadReplies, HangUp, event_handler, client, control
<1>2. CASE reset_cmd_handler
  BY <1>2 DEF reset_cmd_handler, DropItem
<1>3. CASE Yield \/ Waiting \/ ReadNothing
  BY <1>3 DEF Yield, Waiting, ReadNothing, control
<1>4. ASSUME NEW n \in 0..Window, ReadData(n) \/ ReadOutOfMemory(n) PROVE RInv'
  BY <1>4 DEF ReadData, ReadOutOfMemory, out_string, BinReply
<1>5. ASSUME NEW r \in AsciiRequests, NEW n \in 1..MaxLine, ParseLine(n, r) PROVE RInv'
  <2>1. state = "conn_parse_cmd" /\ protocol' = "ascii" /\ process_command(r)
    BY <1>5 DEF ParseLine, Negotiated
  <2>2. item = 0 /\ ileft = 0 /\ refs = 0 /\ substate = "bin_no_state"
    BY <2>1
  <2>3. CASE process_get_command(r)
    <3>1. r.result # "nomem"
      BY <2>3 DEF Regular, RegularLine, process_get_command
    <3> QED BY <2>1, <2>2, <2>3, <3>1 DEF process_get_command
  <2>4. CASE process_update_command(r)
    BY <2>1, <2>2, <2>4 DEF process_update_command, out_string, TakeItem
  <2>5. CASE OneLineCommand(r) \/ process_stat(r) \/ Quit(r)
    BY <2>1, <2>2, <2>5 DEF OneLineCommand, process_stat, Quit, out_string, WriteAndFree
  <2> QED BY <2>1, <2>3, <2>4, <2>5 DEF process_command
<1>6. ASSUME NEW r \in BinaryRequests, ParseHeader(r) PROVE RInv'
  <2>1. state = "conn_parse_cmd" /\ protocol' = "binary" /\ dispatch_bin_command(r)
    BY <1>6 DEF ParseHeader, Negotiated
  <2>2. item = 0 /\ ileft = 0 /\ refs = 0
    BY <2>1
  <2>3. UNCHANGED items /\ state' \notin Between
    BY <2>1 DEF dispatch_bin_command, RefuseAndClose, HeaderCommand, QuitBin, UnknownCommand,
       bin_list_sasl_mechs, bin_read_key, write_bin_error, write_bin_response, BinReply, NoItem
  <2> QED BY <2>1, <2>2, <2>3
<1>7. CASE ParseNoLine \/ ParseNoHeader
  BY <1>7 DEF ParseNoLine, ParseNoHeader, Negotiated, Wait
<1>8. CASE complete_nread
  <2>1. state = "conn_nread" /\ ileft = 0 /\ UNCHANGED protocol
    BY <1>8 DEF complete_nread
  <2>2. CASE complete_nread_ascii
    BY <2>1, <2>2 DEF complete_nread_ascii, out_string, DropItem
  <2>3. CASE complete_nread_binary
    <3>0. protocol = "binary"
      BY <2>3 DEF complete_nread_binary
    <3> USE <2>1, <3>0 DEF KeyRead, NoItem, NoRead, TakeItem, DropItem, BinReply, write_bin_error,
                          write_bin_response, RefuseAndSwallow
    <3>1. CASE process_bin_get_or_touch
      BY <3>1 DEF process_bin_get_or_touch
    <3>2. CASE process_bin_update \/ process_bin_append_prepend
      BY <3>2 DEF process_bin_update, process_bin_append_prepend, UpdateBin
    <3>3. CASE complete_update_bin
      BY <3>3 DEF complete_update_bin, ResponseOrError
    <3>4. CASE process_bin_delete \/ complete_incr_bin \/ process_bin_flush
      BY <3>4 DEF process_bin_delete, complete_incr_bin, process_bin_flush, ResponseOrError
    <3>5. CASE process_bin_stat
      BY <3>5 DEF process_bin_stat, WriteAndFree
    <3>6. CASE process_bin_sasl_auth
      BY <3>6 DEF process_bin_sasl_auth
    <3>7. CASE process_bin_complete_sasl_auth
      BY <3>7 DEF process_bin_complete_sasl_auth
    <3> QED BY <2>3, <3>1, <3>2, <3>3, <3>4, <3>5, <3>6, <3>7 DEF complete_nread_binary
  <2> QED BY <1>8, <2>2, <2>3 DEF complete_nread
<1>9. CASE Nread \/ Swallow \/ SwallowDone
  <2>1. UNCHANGED <<items, protocol, substate>>
    BY <1>9 DEF Nread, Swallow, SwallowDone, control
  <2>2. \/ state = "conn_nread" /\ state' \in {"conn_nread", "conn_closing"}
        \/ state = "conn_swallow" /\ state' \in {"conn_swallow", "conn_closing", "conn_new_cmd"}
    BY <1>9 DEF Nread, Swallow, SwallowDone, control
  <2> QED BY <2>1, <2>2
<1>10. CASE Transmit \/ TransmitError
  BY <1>10 DEF Transmit, TransmitError, Writing, control
<1>11. CASE TransmitComplete
  BY <1>11 DEF TransmitComplete, Writing, conn_release_items
<1>12. CASE conn_close
  BY <1>12 DEF conn_close, conn_release_items
<1>13. CASE conn_new
  BY <1>13 DEF conn_new, Renew
<1>14. CASE UNCHANGED vars
  BY <1>14 DEF vars, control
<1> QED
  BY <1>1, <1>2, <1>3, <1>4, <1>5, <1>6, <1>7, <1>8, <1>9, <1>10, <1>11, <1>12, <1>13, <1>14
     DEF Next, Drive

\* A connection gives back every reference it takes, whatever the request, the answer
\* and the moment at which the client hangs up.
THEOREM RefsAreRecorded == ASSUME Regular PROVE Spec => []RefsRecorded
<1>1. TInv /\ RInv => RefsRecorded
  BY DEF TInv, Fields, RInv, RefsRecorded, Between
<1> QED BY RefsOfInit, RefsKept, TypesHold, <1>1, PTL DEF Spec

-----------------------------------------------------------------------------
(* Where requests end *)

\* How much of the request is to be taken from the input before its handler goes on.
Wanted ==
  IF protocol = "ascii" THEN cmd.val
  ELSE IF substate = "bin_reading_key" THEN cmd.key ELSE cmd.key + cmd.val

\* The state after the reply that is being written.
AfterReply == IF state = "conn_mwrite" /\ protocol # "binary" THEN "conn_new_cmd" ELSE write_and_go

\* The request at hand is one of the protocol in force, and none is before its line
\* or header has been parsed.
RequestAtHand ==
  /\ state \in Between => cmd = None /\ used = 0
  /\ cmd # None => \/ protocol = "ascii" /\ cmd \in AsciiRequests
                   \/ protocol = "binary" /\ cmd \in BinaryRequests
  /\ state = "conn_nread" /\ protocol = "binary" =>
       \/ substate = "bin_reading_key"
       \/ substate = "bin_reading_sasl_auth_data" /\ cmd.op = "sasl_auth"
       \/ substate # "bin_reading_sasl_auth_data" /\ cmd.op \in {"set", "append"}
  /\ state \in {"conn_write", "conn_mwrite"} /\ cmd = None => AfterReply = "conn_closing"
  /\ state = "conn_swallow" => cmd # None

\* What has been taken of the request, what is still to be read and what is to be
\* swallowed add up to the request.
FInv ==
  /\ RequestAtHand
  /\ state = "conn_nread" => used + rlbytes = Wanted
  /\ state \in {"conn_write", "conn_mwrite"} /\ cmd # None =>
       /\ AfterReply = "conn_new_cmd" => used = cmd.key + cmd.val
       /\ AfterReply = "conn_swallow" => used + sbytes = cmd.key + cmd.val
  /\ state = "conn_swallow" => used + sbytes = cmd.key + cmd.val
  /\ Framing

LEMMA FramesOfInit == Init => FInv
  BY DEF Init, FInv, RequestAtHand, Framing, Between

LEMMA FramesOfLine ==
  ASSUME Regular, TInv, FInv, NEW r \in AsciiRequests, NEW n \in 1..MaxLine, ParseLine(n, r)
  PROVE  FInv'
<1>1. /\ r \in Requests /\ r # None /\ r.val \in Nat /\ r.key = 0
      /\ r.op # "set" => r.val = 0
      /\ r.op = "get" => r.result # "nomem"
      /\ r.op = "set" /\ r.result = "nomem" => ~r.quiet
  BY RequestAssumption DEF Requests, Regular, RegularLine
<1>2. /\ used' = 0 /\ protocol' = "ascii" /\ cmd' = r
      /\ process_command(r)
  BY DEF ParseLine, Negotiated, FInv, RequestAtHand, Between
<1> USE <1>1, <1>2 DEF FInv, RequestAtHand, Framing, Between, Wanted, AfterReply, out_string
<1>3. CASE process_get_command(r)
  BY <1>3 DEF process_get_command
<1>4. CASE process_update_command(r)
  BY <1>4 DEF process_update_command
<1>5. CASE OneLineCommand(r)
  BY <1>5 DEF OneLineCommand
<1>6. CASE process_stat(r)
  BY <1>6 DEF process_stat, WriteAndFree
<1>7. CASE Quit(r)
  BY <1>7 DEF Quit
<1> QED BY <1>2, <1>3, <1>4, <1>5, <1>6, <1>7 DEF process_command

LEMMA FramesOfHeader ==
  ASSUME Regular, TInv, FInv, NEW r \in BinaryRequests, ParseHeader(r)
  PROVE  FInv'
<1>1. r \in Requests /\ r # None /\ r.val \in Nat /\ r.key \in Nat /\ RegularHeader(r)
  BY RequestAssumption DEF Requests, Regular
<1>2. /\ used' = 0 /\ protocol' = "binary" /\ cmd' = r
      /\ dispatch_bin_command(r)
  BY DEF ParseHeader, Negotiated, FInv, RequestAtHand, Between
<1> USE <1>1, <1>2 DEF FInv, RequestAtHand, Framing, Between, Wanted, AfterReply, RegularHeader,
        write_bin_error, write_bin_response, BinReply
<1>3. CASE RefuseAndClose(r)
  BY <1>3 DEF RefuseAndClose
<1>4. CASE HeaderCommand(r)
  BY <1>4 DEF HeaderCommand
<1>5. CASE QuitBin(r)
  BY <1>5 DEF QuitBin
<1>6. CASE UnknownCommand(r)
  BY <1>6 DEF UnknownCommand
<1>7. CASE bin_list_sasl_mechs(r)
  BY <1>7 DEF bin_list_sasl_mechs
<1>8. CASE bin_read_key(r)
  BY <1>8 DEF bin_read_key
<1> QED BY <1>2, <1>3, <1>4, <1>5, <1>6, <1>7, <1>8 DEF dispatch_bin_command

LEMMA FramesOfComplete ==
  ASSUME Regular, TInv, FInv, complete_nread
  PROVE  FInv'
<1>1. /\ state = "conn_nread" /\ rlbytes = 0 /\ UNCHANGED <<protocol, cmd, used>>
      /\ cmd \in Requests /\ cmd # None /\ cmd.val \in Nat /\ cmd.key \in Nat /\ used \in Nat
      /\ used = Wanted
  BY RequestAssumption DEF complete_nread, TInv, Fields, Bounds, FInv
<1> USE <1>1 DEF FInv, RequestAtHand, Framing, Between, Wanted, AfterReply
<1>2. CASE complete_nread_ascii
  <2>1. cmd.key = 0 /\ protocol = "ascii"
    BY <1>2 DEF complete_nread_ascii, Regular, RegularLine
  <2> QED BY <1>2, <2>1 DEF complete_nread_ascii, out_string
<1>3. CASE complete_nread_binary
  <2>1. protocol = "binary" /\ RegularHeader(cmd)
    BY <1>3 DEF complete_nread_binary, Regular
  <2> USE <2>1 DEF RegularHeader, KeyRead, NoRead, BinReply, write_bin_error, write_bin_response,
                   RefuseAndSwallow
  <2>2. CASE process_bin_get_or_touch
    BY <2>2 DEF process_bin_get_or_touch
  <2>3. CASE process_bin_update \/ process_bin_append_prepend
    BY <2>3 DEF process_bin_update, process_bin_append_prepend, UpdateBin
  <2>4. CASE complete_update_bin
    BY <2>4 DEF complete_update_bin, ResponseOrError
  <2>5. CASE process_bin_delete \/ complete_incr_bin \/ process_bin_flush
    BY <2>5 DEF process_bin_delete, complete_incr_bin, process_bin_flush, ResponseOrError
  <2>6. CASE process_bin_stat
    BY <2>6 DEF process_bin_stat, WriteAndFree
  <2>7. CASE process_bin_sasl_auth
    BY <2>7 DEF process_bin_sasl_auth
  <2>8. CASE process_bin_complete_sasl_auth
    BY <2>8 DEF process_bin_complete_sasl_auth
  <2> QED BY <1>3, <2>2, <2>3, <2>4, <2>5, <2>6, <2>7, <2>8 DEF complete_nread_binary
<1> QED BY <1>2, <1>3 DEF complete_nread

LEMMA FramesOfInput ==
  ASSUME TInv, FInv, Nread \/ Swallow \/ SwallowDone
  PROVE  FInv'
<1>0. /\ rbytes \in Nat /\ sock \in Nat /\ rlbytes \in Nat /\ sbytes \in Nat /\ used \in Nat
      /\ cmd # None => cmd.key \in Nat /\ cmd.val \in Nat
  BY WindowAssumption, RequestAssumption DEF TInv, Fields
<1> USE <1>0, Min2 DEF FInv, RequestAtHand, Framing, Between, Wanted, AfterReply, Goto, ToCopy, control
<1>1. CASE Nread
  <2> DEFINE copied == ToCopy(rlbytes)
             got == Min({rlbytes - copied, sock})
  <2>1. copied \in 0..rlbytes
    OBVIOUS
  <2>2. got \in 0..(rlbytes - copied)
    BY <2>1
  <2> HIDE DEF copied, got
  <2>3. /\ rlbytes' = rlbytes - copied - got /\ used' = used + copied + got
        /\ state = "conn_nread" /\ state' \in {"conn_nread", "conn_closing"}
        /\ UNCHANGED <<protocol, substate, write_and_go, cmd, sbytes>>
    BY <1>1 DEF Nread, copied, got
  <2>4. cmd # None
    BY <2>3 DEF TInv, Bounds
  <2>5. Wanted' = Wanted /\ Wanted \in Nat
    BY <2>3, <2>4
  <2> HIDE DEF Wanted
  <2> QED BY <2>1, <2>2, <2>3, <2>4, <2>5
<1>2. CASE Swallow
  <2> DEFINE copied == ToCopy(sbytes)
             got == IF rbytes > 0 THEN 0 ELSE Min({sbytes, sock})
  <2>1. copied \in 0..sbytes
    OBVIOUS
  <2>2. got \in 0..sbytes
    OBVIOUS
  <2> HIDE DEF copied, got
  <2>3. /\ sbytes' = sbytes - copied - got /\ used' = used + copied + got
        /\ state = "conn_swallow" /\ state' \in {"conn_swallow", "conn_closing"}
        /\ UNCHANGED <<protocol, substate, write_and_go, cmd, rlbytes>>
    BY <1>2 DEF Swallow, copied, got
  <2> QED BY <2>1, <2>2, <2>3
<1>3. CASE SwallowDone
  BY <1>3 DEF SwallowDone, input
<1> QED BY <1>1, <1>2, <1>3

LEMMA FramesKept == ASSUME Regular PROVE TInv /\ FInv /\ [Next]_vars => FInv'
<1> SUFFICES ASSUME TInv, FInv, [Next]_vars PROVE FInv'
  OBVIOUS
<1> USE DEF FInv, RequestAtHand, Framing, Between, Wanted, AfterReply, Goto, control, input
<1>1. CASE Send \/ ReadReplies \/ HangUp \/ event_handler
  BY <1>1 DEF Send, ReadReplies, HangUp, event_handler, client
<1>2. CASE reset_cmd_handler
  BY <1>2 DEF reset_cmd_handler
<1>3. CASE Yield \/ Waiting \/ ReadNothing
  BY <1>3 DEF Yield, Waiting, ReadNothing
<1>4. ASSUME NEW n \in 0..Window, ReadData(n) PROVE FInv'
  BY <1>4 DEF ReadData
<1>5. ASSUME NEW n \in 0..Window, ReadOutOfMemory(n) PROVE FInv'
  BY <1>5 DEF ReadOutOfMemory, out_string, BinReply
<1>6. CASE ParseNoLine \/ ParseNoHeader
  BY <1>6 DEF ParseNoLine, ParseNoHeader, Negotiated, Wait
<1>7. CASE Transmit \/ TransmitError
  BY <1>7 DEF Transmit, TransmitError, Writing
<1>8. CASE TransmitComplete
  BY <1>8 DEF TransmitComplete, Writing, TInv, Bounds
<1>9. CASE conn_close
  BY <1>9 DEF conn_close
<1>10. CASE conn_new
  BY <1>10 DEF conn_new, Renew
<1>11. CASE UNCHANGED vars
  BY <1>11 DEF vars
<1> HIDE DEF FInv, Goto, control, input
<1> QED
  BY <1>1, <1>2, <1>3, <1>4, <1>5, <1>6, <1>7, <1>8, <1>9, <1>10, <1>11, FramesOfLine, FramesOfHeader,
     FramesOfComplete, FramesOfInput DEF Next, Drive

\* The server and the client agree where a request ends, however its bytes arrive and
\* whatever the answer is: no byte of a value is taken for a command, nor the reverse.
THEOREM FramesAgree == ASSUME Regular PROVE Spec => []Framing
<1>1. FInv => Framing
  BY DEF FInv
<1> QED BY FramesOfInit, FramesKept, TypesHold, <1>1, PTL DEF Spec

-----------------------------------------------------------------------------
(* Replies *)

\* A request is answered by the reply being written, or has been, before its rest is
\* swallowed; it is not answered if it is silent.
PInv ==
  /\ state \in Between \cup {"conn_nread", "conn_write", "conn_mwrite"} => replies = 0
  /\ state = "conn_nread" => (noreply <=> cmd.quiet)
  /\ state \in {"conn_write", "conn_mwrite"} /\ cmd # None /\ AfterReply # "conn_closing" =>
       ~Silent(cmd)
  /\ state = "conn_swallow" => replies = 1 /\ ~Silent(cmd)
  /\ OneReplyEach

LEMMA RepliesOfInit == Init => PInv
  BY DEF Init, PInv, OneReplyEach, Between

LEMMA RepliesOfLine ==
  ASSUME Regular, FInv, PInv, NEW r \in AsciiRequests, NEW n \in 1..MaxLine, ParseLine(n, r)
  PROVE  PInv'
<1>1. /\ r.op = "get" => ~r.quiet /\ r.result # "nomem"
      /\ r.op = "stats" => ~r.quiet
      /\ r.op = "set" /\ r.result = "nomem" => ~r.quiet
  BY DEF Regular, RegularLine
<1>2. /\ replies = 0 /\ replies' = 0 /\ protocol' = "ascii" /\ cmd' = r
      /\ process_command(r)
  BY DEF ParseLine, Negotiated, PInv, Between
<1> USE <1>1, <1>2 DEF PInv, OneReplyEach, Silent, Between, AfterReply, out_string
<1>3. CASE process_get_command(r)
  BY <1>3 DEF process_get_command
<1>4. CASE process_update_command(r)
  BY <1>4 DEF process_update_command
<1>5. CASE OneLineCommand(r)
  BY <1>5 DEF OneLineCommand
<1>6. CASE process_stat(r)
  BY <1>6 DEF process_stat, WriteAndFree
<1>7. CASE Quit(r)
  BY <1>7 DEF Quit
<1> QED BY <1>2, <1>3, <1>4, <1>5, <1>6, <1>7 DEF process_command

LEMMA RepliesOfHeader ==
  ASSUME Regular, FInv, PInv, NEW r \in BinaryRequests, ParseHeader(r)
  PROVE  PInv'
<1>1. RegularHeader(r)
  BY DEF Regular
<1>2. /\ replies = 0 /\ replies' = 0 /\ protocol' = "binary" /\ cmd' = r
      /\ dispatch_bin_command(r)
  BY DEF ParseHeader, Negotiated, PInv, Between
<1> USE <1>1, <1>2 DEF PInv, OneReplyEach, Silent, Between, AfterReply, RegularHeader,
        write_bin_error, write_bin_response, BinReply
<1>3. CASE RefuseAndClose(r)
  BY <1>3 DEF RefuseAndClose
<1>4. CASE HeaderCommand(r)
  BY <1>4 DEF HeaderCommand
<1>5. CASE QuitBin(r)
  BY <1>5 DEF QuitBin
<1>6. CASE UnknownCommand(r)
  BY <1>6 DEF UnknownCommand
<1>7. CASE bin_list_sasl_mechs(r)
  BY <1>7 DEF bin_list_sasl_mechs
<1>8. CASE bin_read_key(r)
  BY <1>8 DEF bin_read_key
<1> QED BY <1>2, <1>3, <1>4, <1>5, <1>6, <1>7, <1>8 DEF dispatch_bin_command

LEMMA RepliesOfComplete ==
  ASSUME Regular, TInv, FInv, PInv, complete_nread
  PROVE  PInv'
<1>1. /\ state = "conn_nread" /\ UNCHANGED <<protocol, cmd, replies>> /\ replies = 0
      /\ noreply <=> cmd.quiet
      /\ cmd # None
  BY DEF complete_nread, TInv, Bounds, PInv
<1> USE <1>1 DEF PInv, OneReplyEach, Silent, Between, AfterReply
<1>2. CASE complete_nread_ascii
  BY <1>2 DEF complete_nread_ascii, out_string
<1>3. CASE complete_nread_binary
  <2>1. /\ protocol = "binary" /\ RegularHeader(cmd) /\ UNCHANGED noreply
        /\ \/ substate = "bin_reading_key"
           \/ substate = "bin_reading_sasl_auth_data" /\ cmd.op = "sasl_auth"
           \/ substate # "bin_reading_sasl_auth_data" /\ cmd.op \in {"set", "append"}
    BY <1>3 DEF complete_nread_binary, Regular, FInv, RequestAtHand
  <2> USE <2>1 DEF RegularHeader, KeyRead, NoRead, BinReply, write_bin_error, write_bin_response,
                   RefuseAndSwallow
  <2>2. CASE process_bin_get_or_touch
    BY <2>2 DEF process_bin_get_or_touch
  <2>3. CASE process_bin_update \/ process_bin_append_prepend
    BY <2>3 DEF process_bin_update, process_bin_append_prepend, UpdateBin
  <2>4. CASE complete_update_bin
    BY <2>4 DEF complete_update_bin, ResponseOrError
  <2>5. CASE process_bin_delete \/ complete_incr_bin \/ process_bin_flush
    BY <2>5 DEF process_bin_delete, complete_incr_bin, process_bin_flush, ResponseOrError
  <2>6. CASE process_bin_stat
    BY <2>6 DEF process_bin_stat, WriteAndFree
  <2>7. CASE process_bin_sasl_auth
    BY <2>7 DEF process_bin_sasl_auth
  <2>8. CASE process_bin_complete_sasl_auth
    BY <2>8 DEF process_bin_complete_sasl_auth
  <2> QED BY <1>3, <2>2, <2>3, <2>4, <2>5, <2>6, <2>7, <2>8 DEF complete_nread_binary
<1> QED BY <1>2, <1>3 DEF complete_nread

LEMMA RepliesKept == ASSUME Regular PROVE TInv /\ FInv /\ PInv /\ [Next]_vars => PInv'
<1> SUFFICES ASSUME TInv, FInv, PInv, [Next]_vars PROVE PInv'
  OBVIOUS
<1> USE DEF PInv, OneReplyEach, Silent, Between, AfterReply, Goto, control, identity, output
<1>1. CASE Send \/ ReadReplies \/ HangUp \/ event_handler
  BY <1>1 DEF Send, ReadReplies, HangUp, event_handler, client
<1>2. CASE reset_cmd_handler
  BY <1>2 DEF reset_cmd_handler
<1>3. CASE Yield \/ Waiting \/ ReadNothing
  BY <1>3 DEF Yield, Waiting, ReadNothing
<1>4. ASSUME NEW n \in 0..Window, ReadData(n) PROVE PInv'
  BY <1>4 DEF ReadData
<1>5. ASSUME NEW n \in 0..Window, ReadOutOfMemory(n) PROVE PInv'
  BY <1>5 DEF ReadOutOfMemory, out_string, BinReply, FInv, RequestAtHand
<1>6. CASE ParseNoLine \/ ParseNoHeader
  BY <1>6 DEF ParseNoLine, ParseNoHeader, Negotiated, Wait
<1>7. CASE Nread \/ Swallow
  BY <1>7 DEF Nread, Swallow
<1>8. CASE SwallowDone
  BY <1>8 DEF SwallowDone
<1>9. CASE Transmit \/ TransmitError
  BY <1>9 DEF Transmit, TransmitError, Writing
<1>10. CASE TransmitComplete
  BY <1>10 DEF TransmitComplete, Writing, TInv, Bounds, FInv, RequestAtHand
<1>11. CASE conn_close
  BY <1>11 DEF conn_close
<1>12. CASE conn_new
  BY <1>12 DEF conn_new, Renew
<1>13. CASE UNCHANGED vars
  BY <1>13 DEF vars
<1> HIDE DEF PInv, Goto, control, identity, output
<1> QED
  BY <1>1, <1>2, <1>3, <1>4, <1>5, <1>6, <1>7, <1>8, <1>9, <1>10, <1>11, <1>12, <1>13, RepliesOfLine,
     RepliesOfHeader, RepliesOfComplete DEF Next, Drive

\* A client that counts replies stays in step: each request that is over has been
\* answered exactly once, and one that is to be silent not at all.
THEOREM RepliesAgree == ASSUME Regular PROVE Spec => []OneReplyEach
<1>1. PInv => OneReplyEach
  BY DEF PInv
<1> QED BY FramesOfInit, FramesKept, RepliesOfInit, RepliesKept, TypesHold, <1>1, PTL DEF Spec
=============================================================================
