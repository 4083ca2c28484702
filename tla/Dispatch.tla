------------------------------ MODULE Dispatch ------------------------------
(***************************************************************************)
(* From accept to close: how connections reach the worker threads, and how *)
(* the listener is switched off when descriptors run out.                  *)
(*                                                                         *)
(* The main thread accepts a connection, puts it into the queue of the     *)
(* next worker and writes a letter into that worker's notify pipe.  The    *)
(* worker reads a letter, takes one connection from its queue and          *)
(* registers it with its event base.  The same pipes carry the letters of  *)
(* switch_item_lock_type.  A connection object belongs to its descriptor   *)
(* and is used again, maybe by another worker, as soon as the descriptor   *)
(* is closed and accepted anew.  When accept fails with EMFILE the main    *)
(* thread stops listening and polls allow_new_conns, which conn_close      *)
(* sets, from a timer.                                                     *)
(*                                                                         *)
(* Abstractions: what a connection does while it is open is ConnMachine;   *)
(* here a worker may close any of its connections at any time.  Sections   *)
(* of cq->lock, conn_lock and the stats lock are one step each.            *)
(***************************************************************************)
EXTENDS Integers, Sequences, FiniteSets, SequencesExt

CONSTANTS
  Fd,              \* descriptors the process may have open for clients
  num_threads,     \* settings.num_threads
  Limit,           \* settings.maxconns - 1 - stats.reserved_fds, if maxconns_fast is set
  Backlog,         \* bound: clients that wait to be accepted at a time
  NoFd

Thread == 0..(num_threads - 1)

ASSUME FdAssumption == IsFiniteSet(Fd) /\ NoFd \notin Fd
ASSUME ThreadAssumption == num_threads \in Nat \ {0}
ASSUME BoundAssumption == Limit \in Nat /\ Backlog \in Nat

VARIABLES
  pending,         \* clients in the kernel's queue of the listening socket
  fds,             \* descriptors open in the kernel
  listening,       \* the listener's event is EV_READ; stats.accepting_conns
  allow_new_conns,
  timer,           \* maxconnsevent is pending
  last_thread, mpc, mfd,   \* the main thread: last worker chosen, where it is, its fd
  cq, pipe,        \* of each worker: new_conn_queue, the letters in its notify pipe
  base,            \* of each worker: the descriptors its event base watches
  conn,            \* state of the object conns[fd], closed before its first use
  wpc, wfd,        \* of each worker: where it is in conn_close, and of which fd
  curr_conns

listener == <<listening, allow_new_conns, timer>>
main == <<last_thread, mpc, mfd>>
queues == <<cq, pipe>>
workers == <<base, conn, wpc, wfd, curr_conns>>
vars == <<pending, fds, listener, main, queues, workers>>

TypeOK ==
  /\ pending \in 0..Backlog /\ fds \subseteq Fd
  /\ listening \in BOOLEAN /\ allow_new_conns \in BOOLEAN /\ timer \in BOOLEAN
  /\ last_thread \in Thread \cup {-1}
  /\ mpc \in {"loop", "emfile", "dispatch", "notify"} /\ mfd \in Fd \cup {NoFd}
  /\ cq \in [Thread -> Seq(Fd)] /\ pipe \in [Thread -> Seq({"c", "l"})]
  /\ base \in [Thread -> SUBSET Fd]
  /\ conn \in [Fd -> {"open", "closed"}]
  /\ wpc \in [Thread -> {"loop", "close", "allow", "count"}]
  /\ wfd \in [Thread -> Fd \cup {NoFd}]
  /\ curr_conns \in 0..Cardinality(Fd) + num_threads

Init ==
  /\ pending = 0 /\ fds = {}
  /\ listening = TRUE /\ allow_new_conns = TRUE /\ timer = FALSE
  /\ last_thread = -1 /\ mpc = "loop" /\ mfd = NoFd
  /\ cq = [t \in Thread |-> <<>>] /\ pipe = [t \in Thread |-> <<>>]
  /\ base = [t \in Thread |-> {}]
  /\ conn = [f \in Fd |-> "closed"]
  /\ wpc = [t \in Thread |-> "loop"] /\ wfd = [t \in Thread |-> NoFd]
  /\ curr_conns = 0

-----------------------------------------------------------------------------
(* The main thread *)

Connect ==
  /\ pending < Backlog
  /\ pending' = pending + 1
  /\ UNCHANGED <<fds, listener, main, queues, workers>>

\* The listener's event: accept, then the test of maxconns_fast, which counts the
\* connections that workers have registered and not those still in their queues.
Accept ==
  /\ mpc = "loop" /\ listening /\ pending > 0
  /\ pending' = pending - 1
  /\ \E f \in Fd \ fds :
       \/ /\ curr_conns < Limit
          /\ fds' = fds \cup {f}
          /\ mfd' = f /\ mpc' = "dispatch"
       \/ curr_conns >= Limit /\ UNCHANGED <<fds, mfd, mpc>>
  /\ UNCHANGED <<listener, last_thread, queues, workers>>

AcceptFails ==
  /\ mpc = "loop" /\ listening /\ pending > 0
  /\ fds = Fd
  /\ mpc' = "emfile"
  /\ UNCHANGED <<pending, fds, listener, last_thread, mfd, queues, workers>>

\* accept_new_conns(false) under conn_lock; maxconns_handler(-42) sets the timer.
StopListening ==
  /\ mpc = "emfile"
  /\ listening' = FALSE /\ allow_new_conns' = FALSE /\ timer' = TRUE
  /\ mpc' = "loop"
  /\ UNCHANGED <<pending, fds, last_thread, mfd, queues, workers>>

\* Mutant: the timer is not set again while there is nothing to do.
maxconns_handler_once ==
  /\ mpc = "loop" /\ timer
  /\ timer' = FALSE
  /\ listening' = (listening \/ allow_new_conns)
  /\ UNCHANGED <<pending, fds, allow_new_conns, main, queues, workers>>

\* The timer fires: poll again in 10 ms, or accept_new_conns(true).
maxconns_handler ==
  /\ mpc = "loop" /\ timer
  /\ timer' = ~allow_new_conns
  /\ listening' = (listening \/ allow_new_conns)
  /\ UNCHANGED <<pending, fds, allow_new_conns, main, queues, workers>>

\* Mutant: the count does not wrap around.
NextThread_unwrapped == last_thread + 1

NextThread == (last_thread + 1) % num_threads

cq_push(t, f) == cq' = [cq EXCEPT ![t] = Append(@, f)]

\* dispatch_conn_new: queue the connection ...
dispatch_conn_new ==
  /\ mpc = "dispatch"
  /\ cq_push(NextThread, mfd)
  /\ last_thread' = NextThread
  /\ mpc' = "notify" /\ mfd' = NoFd
  /\ UNCHANGED <<pending, fds, listener, pipe, workers>>

\* ... unless cqi_new finds no memory ...
DispatchFails ==
  /\ mpc = "dispatch"
  /\ fds' = fds \ {mfd}
  /\ mpc' = "loop" /\ mfd' = NoFd
  /\ UNCHANGED <<pending, listener, last_thread, queues, workers>>

\* Mutant: a worker is only told of the first connection in its queue.
Notify_first ==
  /\ mpc = "notify"
  /\ pipe' = [pipe EXCEPT ![last_thread] = IF Len(cq[last_thread]) > 1 THEN @ ELSE Append(@, "c")]
  /\ mpc' = "loop"
  /\ UNCHANGED <<pending, fds, listener, last_thread, mfd, cq, workers>>

\* ... and tell the worker.
Notify ==
  /\ mpc = "notify"
  /\ pipe' = [pipe EXCEPT ![last_thread] = Append(@, "c")]
  /\ mpc' = "loop"
  /\ UNCHANGED <<pending, fds, listener, last_thread, mfd, cq, workers>>

\* switch_item_lock_type writes to every pipe, and not again before all have read.
SwitchLockType ==
  /\ \A t \in Thread : ~Contains(pipe[t], "l")
  /\ pipe' = [t \in Thread |-> Append(pipe[t], "l")]
  /\ UNCHANGED <<pending, fds, listener, main, cq, workers>>

-----------------------------------------------------------------------------
(* The workers *)

ReadLetter(t, letter) ==
  /\ wpc[t] = "loop"
  /\ pipe[t] # <<>> /\ Head(pipe[t]) = letter
  /\ pipe' = [pipe EXCEPT ![t] = Tail(@)]

cq_pop(t) == cq' = [cq EXCEPT ![t] = Tail(@)]

\* thread_libevent_process with 'c': conn_new takes the object of the descriptor,
\* whatever it was used for before, and event_add starts the events.
conn_new(t) ==
  /\ ReadLetter(t, "c") /\ cq[t] # <<>>
  /\ cq_pop(t)
  /\ conn' = [conn EXCEPT ![Head(cq[t])] = "open"]
  /\ base' = [base EXCEPT ![t] = @ \cup {Head(cq[t])}]
  /\ curr_conns' = curr_conns + 1
  /\ UNCHANGED <<pending, fds, listener, main, wpc, wfd>>

\* conn_new finds no memory: the descriptor is closed, and nobody is told.
ConnNewFails(t) ==
  /\ ReadLetter(t, "c") /\ cq[t] # <<>>
  /\ cq_pop(t)
  /\ fds' = fds \ {Head(cq[t])}
  /\ UNCHANGED <<pending, listener, main, workers>>

\* Letters of the lock switch, and a letter without a connection, change nothing here.
OtherLetter(t) ==
  /\ \E l \in {"c", "l"} : ReadLetter(t, l) /\ (l = "c" => cq[t] = <<>>)
  /\ UNCHANGED <<pending, fds, listener, main, cq, workers>>

\* Mutant: the descriptor is closed before the object is cleaned up.
conn_close_early(t) ==
  /\ wpc[t] = "loop"
  /\ \E f \in base[t] :
       /\ wfd' = [wfd EXCEPT ![t] = f]
       /\ base' = [base EXCEPT ![t] = @ \ {f}]
       /\ fds' = fds \ {f}
  /\ wpc' = [wpc EXCEPT ![t] = "close"]
  /\ UNCHANGED <<pending, listener, main, queues, conn, curr_conns>>

\* conn_close: event_del first, while the descriptor is still open ...
conn_close(t) ==
  /\ wpc[t] = "loop"
  /\ \E f \in base[t] :
       /\ wfd' = [wfd EXCEPT ![t] = f]
       /\ base' = [base EXCEPT ![t] = @ \ {f}]
  /\ wpc' = [wpc EXCEPT ![t] = "close"]
  /\ UNCHANGED <<pending, fds, listener, main, queues, conn, curr_conns>>

\* ... then conn_cleanup and close ...
CloseFd(t) ==
  /\ wpc[t] = "close"
  /\ conn' = [conn EXCEPT ![wfd[t]] = "closed"]
  /\ fds' = fds \ {wfd[t]}
  /\ wpc' = [wpc EXCEPT ![t] = "allow"] /\ wfd' = [wfd EXCEPT ![t] = NoFd]
  /\ UNCHANGED <<pending, listener, main, queues, base, curr_conns>>

\* ... then the listener may listen again ...
AllowNewConns(t) ==
  /\ wpc[t] = "allow"
  /\ allow_new_conns' = TRUE
  /\ wpc' = [wpc EXCEPT ![t] = "count"]
  /\ UNCHANGED <<pending, fds, listening, timer, main, queues, base, conn, wfd, curr_conns>>

\* ... and the connection no longer counts.
CountClosed(t) ==
  /\ wpc[t] = "count"
  /\ curr_conns' = curr_conns - 1
  /\ wpc' = [wpc EXCEPT ![t] = "loop"]
  /\ UNCHANGED <<pending, fds, listener, main, queues, base, conn, wfd>>

-----------------------------------------------------------------------------
Main ==
  \/ Accept \/ AcceptFails \/ StopListening \/ maxconns_handler
  \/ dispatch_conn_new \/ DispatchFails \/ Notify

Process(t) == conn_new(t) \/ ConnNewFails(t) \/ OtherLetter(t)
Closing(t) == CloseFd(t) \/ AllowNewConns(t) \/ CountClosed(t)

Next ==
  \/ Connect \/ SwitchLockType \/ Main
  \/ \E t \in Thread : Process(t) \/ conn_close(t) \/ Closing(t)

\* The main thread and the workers run, and an event loop comes to its pipe and to
\* its timer in the end, whatever else is ready.  Clients owe nothing.
Fairness ==
  /\ WF_vars(StopListening) /\ SF_vars(maxconns_handler)
  /\ WF_vars(dispatch_conn_new \/ DispatchFails) /\ WF_vars(Notify)
  /\ \A t \in Thread : SF_vars(Process(t)) /\ WF_vars(Closing(t))

Spec == Init /\ [][Next]_vars /\ Fairness

-----------------------------------------------------------------------------
(* Properties *)

\* Letters for connections, with the one the main thread is about to write.
Letters(t) ==
  Cardinality({n \in DOMAIN pipe[t] : pipe[t][n] = "c"})
    + (IF mpc = "notify" /\ last_thread = t THEN 1 ELSE 0)

\* Where a descriptor is: with the main thread, in a queue, watched, or being closed.
InQueue(f) == {t \in Thread : Contains(cq[t], f)}
Watched(f) == {t \in Thread : f \in base[t]}
Closed(f) == {t \in Thread : wfd[t] = f}

\* Every open descriptor is in one place and with one thread: none is leaked on an
\* error path or between two threads, and none is with two of them.  The object of
\* one that is watched is open: the worker that closed the descriptor's last
\* connection no longer touches it.
OneOwner ==
  \A f \in Fd :
    /\ (IF mfd = f THEN 1 ELSE 0) + Cardinality(InQueue(f)) + Cardinality(Watched(f))
         + Cardinality(Closed(f)) = (IF f \in fds THEN 1 ELSE 0)
    /\ Watched(f) # {} => conn[f] = "open"

\* A letter for every queued connection: thread_libevent_process takes one connection
\* a letter, so that a letter too few would leave the last one waiting for the next.
LetterForEach == \A t \in Thread : Letters(t) = Len(cq[t])

\* "notify the listener thread of when to listen again": a connection closed while
\* the listener is off turns it on again.
ListensAgain == (~listening /\ allow_new_conns) ~> listening
=============================================================================
