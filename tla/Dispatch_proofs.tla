--------------------------- MODULE Dispatch_proofs --------------------------
(***************************************************************************)
(* Proofs about Dispatch, for any number of workers and descriptors.        *)
(***************************************************************************)
EXTENDS Dispatch, FiniteSetTheorems, SequenceTheorems, TLAPS

-----------------------------------------------------------------------------
(* Types *)

Flags == listening \in BOOLEAN /\ allow_new_conns \in BOOLEAN /\ timer \in BOOLEAN

\* The types, and where a thread stands when it has a descriptor in its hands.
TInv ==
  /\ pending \in 0..Backlog /\ fds \subseteq Fd
  /\ last_thread \in Thread \cup {-1}
  /\ mpc \in {"loop", "emfile", "dispatch", "notify"} /\ mfd \in Fd \cup {NoFd}
  /\ cq \in [Thread -> Seq(Fd)] /\ pipe \in [Thread -> Seq({"c", "l"})]
  /\ base \in [Thread -> SUBSET Fd]
  /\ conn \in [Fd -> {"open", "closed"}]
  /\ wpc \in [Thread -> {"loop", "close", "allow", "count"}]
  /\ wfd \in [Thread -> Fd \cup {NoFd}]
  /\ mpc = "dispatch" <=> mfd # NoFd
  /\ mpc = "notify" => last_thread \in Thread
  /\ \A t \in Thread : wpc[t] = "close" <=> wfd[t] # NoFd

-----------------------------------------------------------------------------
(* Owners *)

Distinct(s) == \A m, n \in 1..Len(s) : s[m] = s[n] => m = n

\* A descriptor is with one thread, in one of its places, and once in its queue.
OInv ==
  /\ \A t \in Thread : Distinct(cq[t])
  /\ \A f \in Fd : \A t, u \in Thread :
       /\ Contains(cq[t], f) /\ Contains(cq[u], f) => t = u
       /\ f \in base[t] /\ f \in base[u] => t = u
       /\ wfd[t] = f /\ wfd[u] = f => t = u
       /\ ~(mfd = f /\ Contains(cq[t], f)) /\ ~(mfd = f /\ f \in base[t]) /\ ~(mfd = f /\ wfd[t] = f)
       /\ ~(Contains(cq[t], f) /\ f \in base[u]) /\ ~(Contains(cq[t], f) /\ wfd[u] = f)
       /\ ~(f \in base[t] /\ wfd[u] = f)
  /\ \A f \in Fd : f \in fds <=> \/ mfd = f
                                 \/ \E t \in Thread : Contains(cq[t], f)
                                 \/ \E t \in Thread : f \in base[t]
                                 \/ \E t \in Thread : wfd[t] = f
  /\ \A f \in Fd : \A t \in Thread : f \in base[t] => conn[f] = "open"

\* The connections that count: those that are watched, and those being closed.
Open == {f \in Fd : \E t \in Thread : f \in base[t]}
Leaving == {t \in Thread : wpc[t] # "loop"}
NInv == curr_conns = Cardinality(Open) + Cardinality(Leaving)

-----------------------------------------------------------------------------
(* Sequences *)

LEMMA Appended ==
  ASSUME NEW S, NEW s \in Seq(S), NEW e \in S
  PROVE  /\ Append(s, e) \in Seq(S)
         /\ Len(Append(s, e)) = Len(s) + 1
         /\ \A f : Contains(Append(s, e), f) <=> Contains(s, f) \/ f = e
<1>1. /\ Append(s, e) \in Seq(S) /\ Len(s) \in Nat /\ Len(Append(s, e)) = Len(s) + 1
      /\ \A n \in 1..Len(s) : Append(s, e)[n] = s[n]
      /\ Append(s, e)[Len(s) + 1] = e
  OBVIOUS
<1>2. \A n : n \in 1..Len(Append(s, e)) <=> n \in 1..Len(s) \/ n = Len(s) + 1
  BY <1>1
<1> QED BY <1>1, <1>2 DEF Contains

LEMMA DistinctAppended ==
  ASSUME NEW S, NEW s \in Seq(S), NEW e \in S, Distinct(s), ~Contains(s, e)
  PROVE  Distinct(Append(s, e))
<1>1. /\ Len(s) \in Nat /\ Len(Append(s, e)) = Len(s) + 1
      /\ \A n \in 1..Len(s) : Append(s, e)[n] = s[n]
      /\ Append(s, e)[Len(s) + 1] = e
  OBVIOUS
<1>2. \A n : n \in 1..Len(Append(s, e)) <=> n \in 1..Len(s) \/ n = Len(s) + 1
  BY <1>1
<1>3. \A n \in 1..Len(s) : s[n] # e
  BY DEF Contains
<1> QED BY <1>1, <1>2, <1>3 DEF Distinct

LEMMA TailTaken ==
  ASSUME NEW S, NEW s \in Seq(S), s # <<>>, Distinct(s)
  PROVE  /\ Head(s) \in S /\ Contains(s, Head(s))
         /\ Tail(s) \in Seq(S) /\ Len(Tail(s)) = Len(s) - 1
         /\ Distinct(Tail(s))
         /\ \A f : Contains(Tail(s), f) <=> Contains(s, f) /\ f # Head(s)
<1>1. /\ Len(s) \in Nat /\ Len(s) > 0 /\ Tail(s) \in Seq(S) /\ Len(Tail(s)) = Len(s) - 1
      /\ Head(s) = s[1] /\ Head(s) \in S
      /\ \A n \in 1..Len(Tail(s)) : Tail(s)[n] = s[n + 1]
  OBVIOUS
<1>2. Contains(s, Head(s))
  BY <1>1 DEF Contains
<1>3. Distinct(Tail(s))
  <2> SUFFICES ASSUME NEW m \in 1..Len(Tail(s)), NEW n \in 1..Len(Tail(s)), Tail(s)[m] = Tail(s)[n]
               PROVE  m = n
    BY DEF Distinct
  <2>1. m + 1 \in 1..Len(s) /\ n + 1 \in 1..Len(s) /\ s[m + 1] = s[n + 1]
    BY <1>1
  <2>2. m + 1 = n + 1
    BY <2>1 DEF Distinct
  <2> QED BY <2>2
<1>4. ASSUME NEW f, Contains(Tail(s), f) PROVE Contains(s, f) /\ f # Head(s)
  <2>1. PICK n \in 1..Len(Tail(s)) : Tail(s)[n] = f
    BY <1>4 DEF Contains
  <2>2. n + 1 \in 1..Len(s) /\ s[n + 1] = f /\ n + 1 # 1 /\ 1 \in 1..Len(s)
    BY <1>1, <2>1
  <2>3. f # s[1]
    BY <2>2 DEF Distinct
  <2> QED BY <1>1, <2>2, <2>3 DEF Contains
<1>5. ASSUME NEW f, Contains(s, f), f # Head(s) PROVE Contains(Tail(s), f)
  <2>1. PICK n \in 1..Len(s) : s[n] = f
    BY <1>5 DEF Contains
  <2>2. n # 1
    BY <1>1, <1>5, <2>1
  <2>3. n - 1 \in 1..Len(Tail(s)) /\ Tail(s)[n - 1] = s[n]
    BY <1>1, <2>1, <2>2
  <2> QED BY <2>1, <2>3 DEF Contains
<1> QED BY <1>1, <1>2, <1>3, <1>4, <1>5

\* How often a letter is in a pipe.
Places(s) == {n \in DOMAIN s : s[n] = "c"}

LEMMA PlacesAppended ==
  ASSUME NEW s \in Seq({"c", "l"}), NEW l \in {"c", "l"}
  PROVE  /\ IsFiniteSet(Places(s)) /\ Cardinality(Places(s)) \in Nat
         /\ Cardinality(Places(Append(s, l))) = Cardinality(Places(s)) + (IF l = "c" THEN 1 ELSE 0)
<1>1. /\ Len(s) \in Nat /\ DOMAIN s = 1..Len(s) /\ DOMAIN Append(s, l) = 1..(Len(s) + 1)
      /\ \A n \in 1..Len(s) : Append(s, l)[n] = s[n]
      /\ Append(s, l)[Len(s) + 1] = l
  OBVIOUS
<1>2. IsFiniteSet(Places(s)) /\ Cardinality(Places(s)) \in Nat
  <2>1. IsFiniteSet(1..Len(s))
    BY <1>1, FS_Interval
  <2>2. Places(s) \in SUBSET (1..Len(s))
    BY <1>1 DEF Places
  <2>3. IsFiniteSet(Places(s))
    BY <2>1, <2>2, FS_Subset
  <2> QED BY <2>3, FS_CardinalityType
<1>3. \A n : n \in 1..(Len(s) + 1) <=> n \in 1..Len(s) \/ n = Len(s) + 1
  BY <1>1
<1>4. CASE l = "c"
  <2>1. Places(Append(s, l)) = Places(s) \cup {Len(s) + 1}
    BY <1>1, <1>3, <1>4 DEF Places
  <2>2. Len(s) + 1 \notin Places(s)
    BY <1>1 DEF Places
  <2> QED BY <1>2, <1>4, <2>1, <2>2, FS_AddElement
<1>5. CASE l # "c"
  <2>1. Places(Append(s, l)) = Places(s)
    BY <1>1, <1>3, <1>5 DEF Places
  <2> QED BY <1>2, <1>5, <2>1
<1> QED BY <1>2, <1>4, <1>5

LEMMA PlacesTaken ==
  ASSUME NEW s \in Seq({"c", "l"}), s # <<>>
  PROVE  Cardinality(Places(Tail(s))) = Cardinality(Places(s)) - (IF Head(s) = "c" THEN 1 ELSE 0)
<1>1. /\ Len(s) \in Nat /\ Len(s) > 0 /\ DOMAIN s = 1..Len(s) /\ DOMAIN Tail(s) = 1..(Len(s) - 1)
      /\ Tail(s) \in Seq({"c", "l"}) /\ Head(s) = s[1]
      /\ \A n \in 1..(Len(s) - 1) : Tail(s)[n] = s[n + 1]
  OBVIOUS
<1> DEFINE A == Places(Tail(s))
           B == Places(s) \ {1}
           f == [n \in A |-> n + 1]
<1>2. f \in Bijection(A, B)
  <2>1. \A n \in A : n \in Nat /\ n + 1 \in B
    BY <1>1 DEF Places
  <2>2. \A n \in B : n - 1 \in A /\ n = (n - 1) + 1
    BY <1>1 DEF Places
  <2>3. f \in [A -> B]
    BY <2>1
  <2>4. \A m, n \in A : f[m] = f[n] => m = n
    BY <2>1
  <2>5. \A n \in B : \E m \in A : f[m] = n
    BY <2>2
  <2> HIDE DEF A, B, f
  <2>6. f \in Injection(A, B)
    BY <2>3, <2>4 DEF Injection, IsInjective
  <2> QED BY <2>3, <2>5, <2>6 DEF Bijection, Surjection
<1>3. IsFiniteSet(A) /\ IsFiniteSet(Places(s)) /\ Cardinality(Places(s)) \in Nat
  BY <1>1, PlacesAppended
<1>4. Cardinality(B) = Cardinality(A)
  <2>1. ExistsBijection(A, B)
    BY <1>2 DEF ExistsBijection
  <2> HIDE DEF A, B
  <2> QED BY <1>3, <2>1, FS_Bijection
<1>5. Cardinality(B) = IF 1 \in Places(s) THEN Cardinality(Places(s)) - 1 ELSE Cardinality(Places(s))
  BY <1>3, FS_RemoveElement
<1>6. 1 \in Places(s) <=> Head(s) = "c"
  BY <1>1 DEF Places
<1> QED BY <1>3, <1>4, <1>5, <1>6

-----------------------------------------------------------------------------
(* Types are kept *)

LEMMA NextThreadKnown ==
  ASSUME last_thread \in Thread \cup {-1}
  PROVE  NextThread \in Thread
<1>1. num_threads \in Nat /\ num_threads > 0 /\ last_thread + 1 \in Nat
  BY ThreadAssumption DEF Thread
<1>2. (last_thread + 1) % num_threads \in 0..(num_threads - 1)
  BY <1>1
<1> QED BY <1>2 DEF NextThread, Thread

LEMMA TypesOfInit == Init => Flags /\ TInv
<1> SUFFICES ASSUME Init PROVE Flags /\ TInv
  OBVIOUS
<1>1. Flags
  BY Zenon DEF Init, Flags
<1>2. <<>> \in Seq(Fd) /\ <<>> \in Seq({"c", "l"})
  OBVIOUS
<1>3. TInv
  BY <1>2, BoundAssumption DEF Init, TInv
<1> QED BY <1>1, <1>3

LEMMA FlagsKept == Flags /\ [Next]_vars => Flags'
<1> SUFFICES ASSUME Flags, [Next]_vars PROVE Flags'
  OBVIOUS
<1> USE DEF Flags, listener
<1>1. CASE Connect \/ SwitchLockType \/ Accept \/ AcceptFails \/ dispatch_conn_new \/ DispatchFails \/ Notify
  BY <1>1, Zenon DEF Connect, SwitchLockType, Accept, AcceptFails, dispatch_conn_new, DispatchFails, Notify
<1>2. CASE StopListening
  BY <1>2, Zenon DEF StopListening
<1>3. CASE maxconns_handler
  BY <1>3, Zenon DEF maxconns_handler
<1>4. ASSUME NEW t \in Thread, Process(t) \/ conn_close(t) \/ Closing(t) PROVE Flags'
  BY <1>4, Zenon DEF Process, conn_new, ConnNewFails, OtherLetter, conn_close, Closing, CloseFd,
     AllowNewConns, CountClosed
<1>5. CASE UNCHANGED vars
  BY <1>5, Zenon DEF vars
<1> QED BY <1>1, <1>2, <1>3, <1>4, <1>5 DEF Next, Main

\* A letter is written to one pipe, or taken from it.
LEMMA LettersKnown ==
  ASSUME TInv, NEW t \in Thread, NEW l \in {"c", "l"}, ReadLetter(t, l)
  PROVE  pipe' \in [Thread -> Seq({"c", "l"})]
<1>1. pipe[t] \in Seq({"c", "l"}) /\ pipe[t] # <<>> /\ pipe' = [pipe EXCEPT ![t] = Tail(@)]
  BY DEF TInv, ReadLetter
<1>2. Tail(pipe[t]) \in Seq({"c", "l"})
  BY <1>1
<1> QED BY <1>1, <1>2 DEF TInv

LEMMA TypesOfMain ==
  ASSUME TInv, Connect \/ SwitchLockType \/ Main
  PROVE  TInv'
<1> USE DEF TInv, listener, main, queues, workers
<1>1. CASE Connect
  BY <1>1, BoundAssumption DEF Connect
<1>2. CASE SwitchLockType
  <2>1. \A t \in Thread : Append(pipe[t], "l") \in Seq({"c", "l"})
    OBVIOUS
  <2>2. pipe' \in [Thread -> Seq({"c", "l"})]
    BY <1>2, <2>1 DEF SwitchLockType
  <2> QED BY <1>2, <2>2 DEF SwitchLockType
<1>3. CASE Accept
  BY <1>3, BoundAssumption, FdAssumption DEF Accept
<1>4. CASE AcceptFails \/ StopListening \/ maxconns_handler
  BY <1>4 DEF AcceptFails, StopListening, maxconns_handler
<1>5. CASE dispatch_conn_new
  <2>1. mfd \in Fd /\ NextThread \in Thread
    BY <1>5, NextThreadKnown DEF dispatch_conn_new
  <2>2. Append(cq[NextThread], mfd) \in Seq(Fd)
    BY <2>1
  <2>3. cq' \in [Thread -> Seq(Fd)]
    BY <1>5, <2>1, <2>2 DEF dispatch_conn_new, cq_push
  <2> QED BY <1>5, <2>1, <2>3 DEF dispatch_conn_new
<1>6. CASE DispatchFails
  BY <1>6 DEF DispatchFails
<1>7. CASE Notify
  <2>1. last_thread \in Thread
    BY <1>7 DEF Notify
  <2>2. Append(pipe[last_thread], "c") \in Seq({"c", "l"})
    BY <2>1
  <2>3. pipe' \in [Thread -> Seq({"c", "l"})]
    BY <1>7, <2>1, <2>2 DEF Notify
  <2> QED BY <1>7, <2>3 DEF Notify
<1> QED BY <1>1, <1>2, <1>3, <1>4, <1>5, <1>6, <1>7 DEF Main

LEMMA TypesOfWorker ==
  ASSUME TInv, NEW t \in Thread, Process(t) \/ conn_close(t) \/ Closing(t)
  PROVE  TInv'
<1> USE DEF TInv, listener, main, queues, workers
<1>1. CASE conn_new(t) \/ ConnNewFails(t)
  <2>1. pipe' \in [Thread -> Seq({"c", "l"})]
    BY <1>1, LettersKnown DEF conn_new, ConnNewFails
  <2>2. cq[t] \in Seq(Fd) /\ cq[t] # <<>> /\ cq' = [cq EXCEPT ![t] = Tail(@)]
    BY <1>1 DEF conn_new, ConnNewFails, cq_pop
  <2>3. Tail(cq[t]) \in Seq(Fd) /\ Head(cq[t]) \in Fd
    BY <2>2
  <2>4. cq' \in [Thread -> Seq(Fd)]
    BY <2>2, <2>3
  <2>5. conn' \in [Fd -> {"open", "closed"}] /\ base' \in [Thread -> SUBSET Fd] /\ fds' \subseteq Fd
    <3>1. CASE conn_new(t)
      BY <2>3, <3>1 DEF conn_new
    <3>2. CASE ConnNewFails(t)
      BY <3>2 DEF ConnNewFails
    <3> QED BY <1>1, <3>1, <3>2
  <2>6. UNCHANGED <<pending, last_thread, mpc, mfd, wpc, wfd>>
    BY <1>1 DEF conn_new, ConnNewFails
  <2> QED BY <2>1, <2>4, <2>5, <2>6
<1>2. CASE OtherLetter(t)
  <2>1. pipe' \in [Thread -> Seq({"c", "l"})]
    BY <1>2, LettersKnown DEF OtherLetter
  <2> QED BY <1>2, <2>1 DEF OtherLetter
<1>3. CASE conn_close(t)
  <2>1. PICK f \in base[t] : wfd' = [wfd EXCEPT ![t] = f] /\ base' = [base EXCEPT ![t] = @ \ {f}]
    BY <1>3 DEF conn_close
  <2>2. f \in Fd /\ f # NoFd
    BY FdAssumption
  <2>3. wfd' \in [Thread -> Fd \cup {NoFd}] /\ base' \in [Thread -> SUBSET Fd]
    BY <2>1, <2>2
  <2>4. wpc' = [wpc EXCEPT ![t] = "close"]
        /\ UNCHANGED <<pending, fds, last_thread, mpc, mfd, cq, pipe, conn>>
    BY <1>3 DEF conn_close
  <2>5. /\ wpc' \in [Thread -> {"loop", "close", "allow", "count"}]
        /\ \A u \in Thread : wpc'[u] = "close" <=> wfd'[u] # NoFd
    BY <2>1, <2>2, <2>4
  <2> QED BY <2>3, <2>4, <2>5
<1>4. CASE CloseFd(t)
  BY <1>4 DEF CloseFd
<1>5. CASE AllowNewConns(t) \/ CountClosed(t)
  BY <1>5 DEF AllowNewConns, CountClosed
<1> QED BY <1>1, <1>2, <1>3, <1>4, <1>5 DEF Process, Closing

LEMMA TypesKept == TInv /\ [Next]_vars => TInv'
<1>1. ASSUME TInv, UNCHANGED vars PROVE TInv'
  BY <1>1 DEF TInv, vars, main, queues, workers
<1> QED BY <1>1, TypesOfMain, TypesOfWorker DEF Next

LEMMA TypesHold == Spec => [](Flags /\ TInv)
<1>1. (Flags /\ TInv) /\ [Next]_vars => (Flags /\ TInv)'
  BY FlagsKept, TypesKept
<1> QED BY TypesOfInit, <1>1, PTL DEF Spec

-----------------------------------------------------------------------------
(* Every descriptor has one owner *)

LEMMA OwnersOfInit == Init => OInv
<1> SUFFICES ASSUME Init PROVE OInv
  OBVIOUS
<1>1. \A t \in Thread : Distinct(cq[t]) /\ \A f : ~Contains(cq[t], f)
  BY DEF Init, Distinct, Contains
<1> QED BY <1>1, FdAssumption DEF Init, OInv

\* Steps that move no descriptor.
LEMMA OwnersAlone ==
  ASSUME OInv, UNCHANGED <<fds, mfd, cq, base, wfd, conn>>
  PROVE  OInv'
  BY DEF OInv

LEMMA OwnersOfMain ==
  ASSUME TInv, OInv, Connect \/ SwitchLockType \/ Main
  PROVE  OInv'
<1> USE DEF listener, main, queues, workers
<1>1. CASE Connect \/ SwitchLockType \/ AcceptFails \/ StopListening \/ maxconns_handler \/ Notify
  BY <1>1, OwnersAlone DEF Connect, SwitchLockType, AcceptFails, StopListening, maxconns_handler, Notify
<1>2. CASE Accept
  <2>1. UNCHANGED <<cq, base, wfd, conn>>
    BY <1>2 DEF Accept
  <2>2. CASE UNCHANGED <<fds, mfd>>
    BY <2>1, <2>2, OwnersAlone
  <2>3. CASE \E f \in Fd \ fds : fds' = fds \cup {f} /\ mfd' = f
    <3>1. mfd = NoFd
      BY <1>2 DEF Accept, TInv
    <3> QED BY <2>1, <2>3, <3>1, FdAssumption DEF OInv
  <2> QED BY <1>2, <2>2, <2>3 DEF Accept
<1>3. CASE dispatch_conn_new
  <2> DEFINE n == NextThread
  <2>1. mfd \in Fd /\ n \in Thread /\ cq[n] \in Seq(Fd)
    BY <1>3, NextThreadKnown DEF dispatch_conn_new, TInv
  <2>2. cq' = [cq EXCEPT ![n] = Append(@, mfd)] /\ mfd' = NoFd /\ UNCHANGED <<fds, base, wfd, conn>>
    BY <1>3 DEF dispatch_conn_new, cq_push
  <2> HIDE DEF n
  <2>3. ~Contains(cq[n], mfd)
    BY <2>1 DEF OInv
  <2>4. Distinct(Append(cq[n], mfd))
    BY <2>1, <2>3, DistinctAppended DEF OInv
  <2>5. \A f : Contains(Append(cq[n], mfd), f) <=> Contains(cq[n], f) \/ f = mfd
    BY <2>1, Appended
  <2>6. \A t \in Thread : cq'[t] = IF t = n THEN Append(cq[n], mfd) ELSE cq[t]
    BY <2>1, <2>2 DEF TInv
  <2>7. \A t \in Thread : /\ Distinct(cq'[t])
                          /\ \A f : Contains(cq'[t], f) <=> Contains(cq[t], f) \/ (t = n /\ f = mfd)
    BY <2>4, <2>5, <2>6 DEF OInv
  <2>8. \A f \in Fd : f # mfd' /\ (f = mfd => \A t \in Thread : ~Contains(cq[t], f) /\ f \notin base[t] /\ wfd[t] # f)
    BY <2>2, FdAssumption DEF OInv
  <2>9. \A f \in Fd : \A t, u \in Thread :
          /\ Contains(cq'[t], f) /\ Contains(cq'[u], f) => t = u
          /\ ~(Contains(cq'[t], f) /\ f \in base[u]) /\ ~(Contains(cq'[t], f) /\ wfd[u] = f)
    BY <2>7, <2>8 DEF OInv
  <2>10. \A f \in Fd : (mfd = f \/ \E t \in Thread : Contains(cq[t], f)) <=> \E t \in Thread : Contains(cq'[t], f)
    BY <2>1, <2>7
  <2>11. \A f \in Fd : f \in fds' <=> \/ mfd' = f
                                      \/ \E t \in Thread : Contains(cq'[t], f)
                                      \/ \E t \in Thread : f \in base'[t]
                                      \/ \E t \in Thread : wfd'[t] = f
    BY <2>2, <2>8, <2>10 DEF OInv
  <2> QED BY <2>2, <2>7, <2>8, <2>9, <2>11 DEF OInv
<1>4. CASE DispatchFails
  <2>1. mfd \in Fd /\ fds' = fds \ {mfd} /\ mfd' = NoFd /\ UNCHANGED <<cq, base, wfd, conn>>
    BY <1>4 DEF DispatchFails, TInv
  <2> QED BY <2>1, FdAssumption DEF OInv
<1> QED BY <1>1, <1>2, <1>3, <1>4 DEF Main

\* The queue of a worker without its first descriptor.
LEMMA QueuePopped ==
  ASSUME TInv, OInv, NEW t \in Thread, cq[t] # <<>>, cq_pop(t)
  PROVE  /\ Head(cq[t]) \in Fd /\ Contains(cq[t], Head(cq[t]))
         /\ \A u \in Thread : /\ Distinct(cq'[u])
                              /\ \A f : Contains(cq'[u], f) <=> Contains(cq[u], f) /\ ~(u = t /\ f = Head(cq[t]))
<1>1. cq[t] \in Seq(Fd) /\ Distinct(cq[t])
  BY DEF TInv, OInv
<1>2. \A u \in Thread : cq'[u] = IF u = t THEN Tail(cq[t]) ELSE cq[u]
  BY DEF cq_pop, TInv
<1> QED BY <1>1, <1>2, TailTaken DEF OInv

LEMMA OwnersOfWorker ==
  ASSUME TInv, OInv, NEW t \in Thread, Process(t) \/ conn_close(t) \/ Closing(t)
  PROVE  OInv'
<1> USE DEF listener, main, queues, workers
<1>1. CASE OtherLetter(t) \/ AllowNewConns(t) \/ CountClosed(t)
  BY <1>1, OwnersAlone DEF OtherLetter, AllowNewConns, CountClosed
<1>2. CASE conn_new(t)
  <2> DEFINE h == Head(cq[t])
  <2>1. /\ h \in Fd /\ Contains(cq[t], h)
        /\ \A u \in Thread : /\ Distinct(cq'[u])
                             /\ \A f : Contains(cq'[u], f) <=> Contains(cq[u], f) /\ ~(u = t /\ f = h)
    BY <1>2, QueuePopped DEF conn_new
  <2>2. /\ conn' = [conn EXCEPT ![h] = "open"] /\ base' = [base EXCEPT ![t] = @ \cup {h}]
        /\ UNCHANGED <<fds, mfd, wfd>>
    BY <1>2 DEF conn_new
  <2> HIDE DEF h
  <2>3. /\ \A u \in Thread : \A f : f \in base'[u] <=> f \in base[u] \/ (u = t /\ f = h)
        /\ \A f \in Fd : conn'[f] = IF f = h THEN "open" ELSE conn[f]
    BY <2>1, <2>2 DEF TInv
  <2> QED BY <2>1, <2>2, <2>3 DEF OInv
<1>3. CASE ConnNewFails(t)
  <2> DEFINE h == Head(cq[t])
  <2>1. /\ h \in Fd /\ Contains(cq[t], h)
        /\ \A u \in Thread : /\ Distinct(cq'[u])
                             /\ \A f : Contains(cq'[u], f) <=> Contains(cq[u], f) /\ ~(u = t /\ f = h)
    BY <1>3, QueuePopped DEF ConnNewFails
  <2>2. fds' = fds \ {h} /\ UNCHANGED <<mfd, base, wfd, conn>>
    BY <1>3 DEF ConnNewFails
  <2> HIDE DEF h
  <2> QED BY <2>1, <2>2 DEF OInv
<1>4. CASE conn_close(t)
  <2>1. PICK h \in base[t] : wfd' = [wfd EXCEPT ![t] = h] /\ base' = [base EXCEPT ![t] = @ \ {h}]
    BY <1>4 DEF conn_close
  <2>2. h \in Fd /\ wfd[t] = NoFd /\ UNCHANGED <<fds, mfd, cq, conn>>
    BY <1>4 DEF conn_close, TInv
  <2>3. \A u \in Thread : /\ \A f : f \in base'[u] <=> f \in base[u] /\ ~(u = t /\ f = h)
                          /\ wfd'[u] = IF u = t THEN h ELSE wfd[u]
    BY <2>1 DEF TInv
  <2> QED BY <2>2, <2>3, FdAssumption DEF OInv
<1>5. CASE CloseFd(t)
  <2> DEFINE h == wfd[t]
  <2>1. /\ h \in Fd /\ conn' = [conn EXCEPT ![h] = "closed"] /\ fds' = fds \ {h}
        /\ wfd' = [wfd EXCEPT ![t] = NoFd] /\ UNCHANGED <<mfd, cq, base>>
    BY <1>5 DEF CloseFd, TInv
  <2>2. /\ \A u \in Thread : wfd'[u] = IF u = t THEN NoFd ELSE wfd[u]
        /\ \A f \in Fd : conn'[f] = IF f = h THEN "closed" ELSE conn[f]
    BY <2>1 DEF TInv
  <2> QED BY <2>1, <2>2, FdAssumption DEF OInv
<1> QED BY <1>1, <1>2, <1>3, <1>4, <1>5 DEF Process, Closing

LEMMA OwnersKept == TInv /\ OInv /\ [Next]_vars => OInv'
<1>1. ASSUME OInv, UNCHANGED vars PROVE OInv'
  BY <1>1, OwnersAlone DEF vars, main, queues, workers
<1> QED BY <1>1, OwnersOfMain, OwnersOfWorker DEF Next

LEMMA OwnersHold == Spec => []OInv
  BY OwnersOfInit, OwnersKept, TypesHold, PTL DEF Spec

\* None or one: the threads that satisfy a predicate which two cannot.
LEMMA NoneOrOne ==
  ASSUME NEW S, \A t, u \in S : t = u
  PROVE  Cardinality(S) = IF S = {} THEN 0 ELSE 1
<1>1. CASE S = {}
  BY <1>1, FS_EmptySet
<1>2. CASE S # {}
  <2>1. PICK t : S = {t}
    BY <1>2
  <2> QED BY <1>2, <2>1, FS_Singleton
<1> QED BY <1>1, <1>2

\* Each descriptor that is open in the kernel has exactly one owner, on every way
\* through dispatch and close and on every error path, and its object is in use when
\* its events are watched.
THEOREM OneOwnerEach == Spec => []OneOwner
<1>1. OInv => OneOwner
  <2> SUFFICES ASSUME OInv, NEW f \in Fd
               PROVE  /\ (IF mfd = f THEN 1 ELSE 0) + Cardinality(InQueue(f)) + Cardinality(Watched(f))
                           + Cardinality(Closed(f)) = (IF f \in fds THEN 1 ELSE 0)
                      /\ Watched(f) # {} => conn[f] = "open"
    BY DEF OneOwner
  <2>1. /\ Cardinality(InQueue(f)) = IF InQueue(f) = {} THEN 0 ELSE 1
        /\ Cardinality(Watched(f)) = IF Watched(f) = {} THEN 0 ELSE 1
        /\ Cardinality(Closed(f)) = IF Closed(f) = {} THEN 0 ELSE 1
    <3>1. /\ \A t, u \in InQueue(f) : t = u
          /\ \A t, u \in Watched(f) : t = u
          /\ \A t, u \in Closed(f) : t = u
      BY DEF OInv, InQueue, Watched, Closed
    <3> QED BY <3>1, NoneOrOne
  <2>2. /\ f \in fds <=> mfd = f \/ InQueue(f) # {} \/ Watched(f) # {} \/ Closed(f) # {}
        /\ mfd = f => InQueue(f) = {} /\ Watched(f) = {} /\ Closed(f) = {}
        /\ InQueue(f) # {} => Watched(f) = {} /\ Closed(f) = {}
        /\ Watched(f) # {} => Closed(f) = {}
    BY DEF OInv, InQueue, Watched, Closed
  <2>3. Watched(f) # {} => conn[f] = "open"
    BY DEF OInv, Watched
  <2> HIDE DEF InQueue, Watched, Closed
  <2> QED BY <2>1, <2>2, <2>3
<1> QED BY <1>1, OwnersHold, PTL

-----------------------------------------------------------------------------
(* Letters *)

\* The letters in a worker's pipe, and the one that the main thread owes it.
Sent(t) == Cardinality(Places(pipe[t]))
Owed(t) == IF mpc = "notify" /\ last_thread = t THEN 1 ELSE 0

LEMMA LettersCounted == LetterForEach <=> \A t \in Thread : Sent(t) + Owed(t) = Len(cq[t])
  BY DEF LetterForEach, Letters, Sent, Owed, Places

LEMMA LettersNumbers ==
  ASSUME TInv, NEW t \in Thread
  PROVE  /\ pipe[t] \in Seq({"c", "l"}) /\ cq[t] \in Seq(Fd)
         /\ Sent(t) \in Nat /\ Owed(t) \in Nat /\ Len(cq[t]) \in Nat
<1>1. pipe[t] \in Seq({"c", "l"}) /\ cq[t] \in Seq(Fd)
  BY DEF TInv
<1>2. Sent(t) \in Nat
  BY <1>1, PlacesAppended DEF Sent
<1> QED BY <1>1, <1>2 DEF Owed

LEMMA LettersBalance ==
  ASSUME TInv, NEW t \in Thread, Sent(t) + Owed(t) = Len(cq[t]), NEW a \in Int, NEW b \in Int
  PROVE  (Sent(t) + a) + (Owed(t) + b) = Len(cq[t]) + (a + b)
<1>1. Sent(t) \in Nat /\ Owed(t) \in Nat /\ Len(cq[t]) \in Nat
  BY LettersNumbers
<1>2. \A x, y, z \in Nat : x + y = z => (x + a) + (y + b) = z + (a + b)
  OBVIOUS
<1> QED BY <1>1, <1>2, Zenon

LEMMA LetterRead ==
  ASSUME TInv, NEW t \in Thread, NEW l \in {"c", "l"}, ReadLetter(t, l), NEW u \in Thread
  PROVE  Sent(u)' = Sent(u) + (IF u = t /\ l = "c" THEN -1 ELSE 0)
<1>1. /\ pipe[t] # <<>> /\ Head(pipe[t]) = l /\ pipe[t] \in Seq({"c", "l"})
      /\ pipe'[u] = IF u = t THEN Tail(pipe[t]) ELSE pipe[u]
  BY DEF ReadLetter, TInv
<1>2. Sent(u) \in Nat
  BY LettersNumbers
<1>3. CASE u = t
  <2>1. Cardinality(Places(Tail(pipe[t]))) = Cardinality(Places(pipe[t])) - (IF Head(pipe[t]) = "c" THEN 1 ELSE 0)
    BY <1>1, PlacesTaken
  <2> QED BY <1>1, <1>2, <1>3, <2>1 DEF Sent
<1>4. CASE u # t
  BY <1>1, <1>2, <1>4 DEF Sent
<1> QED BY <1>3, <1>4

\* Steps that write no letter and move no connection.
LEMMA LettersAlone ==
  ASSUME TInv, NEW t \in Thread, Sent(t) + Owed(t) = Len(cq[t]),
         UNCHANGED <<pipe, cq>>, Owed(t)' = Owed(t)
  PROVE  (Sent(t) + Owed(t) = Len(cq[t]))'
  BY DEF Sent

LEMMA LettersKept ==
  ASSUME TInv, \A t \in Thread : Sent(t) + Owed(t) = Len(cq[t]), [Next]_vars, NEW u \in Thread
  PROVE  (Sent(u) + Owed(u) = Len(cq[u]))'
<1> USE DEF listener, main, queues, workers
<1>1. CASE Connect \/ Accept \/ AcceptFails \/ StopListening \/ maxconns_handler \/ DispatchFails
  <2>1. UNCHANGED <<pipe, cq, last_thread>> /\ (mpc' = "notify" <=> mpc = "notify")
    BY <1>1 DEF Connect, Accept, AcceptFails, StopListening, maxconns_handler, DispatchFails
  <2>2. Owed(u)' = Owed(u)
    BY <2>1 DEF Owed
  <2> QED BY <2>1, <2>2, LettersAlone
<1>2. CASE dispatch_conn_new
  <2>1. /\ NextThread \in Thread /\ mfd \in Fd /\ mpc = "dispatch"
        /\ mpc' = "notify" /\ last_thread' = NextThread /\ UNCHANGED pipe
        /\ cq' = [cq EXCEPT ![NextThread] = Append(@, mfd)]
    BY <1>2, NextThreadKnown DEF dispatch_conn_new, cq_push, TInv
  <2> DEFINE b == IF u = NextThread THEN 1 ELSE 0
  <2>2. cq[u] \in Seq(Fd) /\ Sent(u) \in Nat /\ Len(cq[u]) \in Nat
    BY LettersNumbers
  <2>3. cq'[u] = IF u = NextThread THEN Append(cq[u], mfd) ELSE cq[u]
    BY <2>1 DEF TInv
  <2>4. Len(cq'[u]) = Len(cq[u]) + (0 + b)
    <3>1. Len(Append(cq[u], mfd)) = Len(cq[u]) + 1
      BY <2>1, <2>2, Appended
    <3>2. CASE u = NextThread
      BY <2>2, <2>3, <3>1, <3>2
    <3>3. CASE u # NextThread
      BY <2>2, <2>3, <3>3
    <3> QED BY <3>2, <3>3
  <2>5. Owed(u)' = Owed(u) + b
    BY <2>1 DEF Owed
  <2>6. Sent(u)' = Sent(u) + 0
    BY <2>1, <2>2 DEF Sent
  <2>7. b \in Int /\ 0 \in Int
    OBVIOUS
  <2> HIDE DEF b
  <2> QED BY <2>4, <2>5, <2>6, <2>7, LettersBalance
<1>3. CASE Notify
  <2>1. /\ last_thread \in Thread /\ mpc = "notify" /\ mpc' = "loop" /\ UNCHANGED cq
        /\ pipe' = [pipe EXCEPT ![last_thread] = Append(@, "c")]
    BY <1>3 DEF Notify, TInv
  <2> DEFINE a == IF u = last_thread THEN 1 ELSE 0
  <2>2. pipe[u] \in Seq({"c", "l"}) /\ Sent(u) \in Nat /\ Len(cq[u]) \in Nat
    BY LettersNumbers
  <2>3. pipe'[u] = IF u = last_thread THEN Append(pipe[u], "c") ELSE pipe[u]
    BY <2>1 DEF TInv
  <2>4. Cardinality(Places(Append(pipe[u], "c"))) = Cardinality(Places(pipe[u])) + 1
    BY <2>2, PlacesAppended
  <2>5. Sent(u)' = Sent(u) + a
    BY <2>2, <2>3, <2>4 DEF Sent
  <2>6. Owed(u)' = Owed(u) + (- a)
    BY <2>1 DEF Owed
  <2>7. a \in Int /\ - a \in Int /\ Len(cq'[u]) = Len(cq[u]) + (a + (- a))
    BY <2>1, <2>2
  <2> HIDE DEF a
  <2> QED BY <2>5, <2>6, <2>7, LettersBalance
<1>4. CASE SwitchLockType
  <2>1. UNCHANGED <<mpc, last_thread, cq>> /\ pipe'[u] = Append(pipe[u], "l")
    BY <1>4 DEF SwitchLockType
  <2>2. pipe[u] \in Seq({"c", "l"}) /\ "l" # "c"
    BY LettersNumbers
  <2>3. Cardinality(Places(pipe[u])) \in Nat
        /\ Cardinality(Places(Append(pipe[u], "l"))) = Cardinality(Places(pipe[u])) + (IF "l" = "c" THEN 1 ELSE 0)
    BY <2>2, PlacesAppended
  <2>4. Sent(u)' = Sent(u) /\ Owed(u)' = Owed(u)
    BY <2>1, <2>2, <2>3 DEF Sent, Owed
  <2> QED BY <2>1, <2>4
<1>5. ASSUME NEW t \in Thread, conn_new(t) \/ ConnNewFails(t)
      PROVE  (Sent(u) + Owed(u) = Len(cq[u]))'
  <2>1. /\ ReadLetter(t, "c") /\ cq[t] # <<>> /\ UNCHANGED <<mpc, last_thread>>
        /\ cq' = [cq EXCEPT ![t] = Tail(@)]
    BY <1>5 DEF conn_new, ConnNewFails, cq_pop
  <2> DEFINE a == IF u = t THEN -1 ELSE 0
  <2>2. cq[u] \in Seq(Fd) /\ Sent(u) \in Nat /\ Owed(u) \in Nat /\ Len(cq[u]) \in Nat
    BY LettersNumbers
  <2>3. cq'[u] = IF u = t THEN Tail(cq[u]) ELSE cq[u]
    BY <2>1 DEF TInv
  <2>4. Len(cq'[u]) = Len(cq[u]) + (a + 0)
    <3>1. cq[u] # <<>> => Len(Tail(cq[u])) = Len(cq[u]) - 1
      BY <2>2
    <3>2. CASE u = t
      <4>1. Len(cq'[u]) = Len(cq[u]) - 1
        BY <2>1, <2>3, <3>1, <3>2
      <4>2. a = -1
        BY <3>2
      <4> HIDE DEF a
      <4> QED BY <2>2, <4>1, <4>2
    <3>3. CASE u # t
      BY <2>2, <2>3, <3>3
    <3> QED BY <3>2, <3>3
  <2>5. Sent(u)' = Sent(u) + a
    BY <2>1, LetterRead
  <2>6. Owed(u)' = Owed(u) + 0
    BY <2>1, <2>2 DEF Owed
  <2>7. a \in Int /\ 0 \in Int
    OBVIOUS
  <2> HIDE DEF a
  <2> QED BY <2>4, <2>5, <2>6, <2>7, LettersBalance
<1>6. ASSUME NEW t \in Thread, OtherLetter(t)
      PROVE  (Sent(u) + Owed(u) = Len(cq[u]))'
  <2>1. PICK l \in {"c", "l"} : ReadLetter(t, l) /\ (l = "c" => cq[t] = <<>>)
    BY <1>6 DEF OtherLetter
  <2>2. UNCHANGED <<mpc, last_thread, cq>>
    BY <1>6 DEF OtherLetter
  <2>3. l # "c"                              \* no letter is without its connection
    <3> SUFFICES ASSUME l = "c" PROVE FALSE
      OBVIOUS
    <3>1. /\ pipe[t] \in Seq({"c", "l"}) /\ Sent(t) \in Nat /\ Owed(t) \in Nat
          /\ Sent(t) + Owed(t) = Len(cq[t]) /\ Len(cq[t]) = 0
      BY <2>1, LettersNumbers
    <3>2. Cardinality(Places(pipe[t])) = 0 /\ IsFiniteSet(Places(pipe[t]))
      <4>1. Sent(t) = 0
        BY <3>1
      <4> QED BY <3>1, <4>1, PlacesAppended DEF Sent
    <3>3. pipe[t] # <<>> /\ Head(pipe[t]) = "c"
      BY <2>1 DEF ReadLetter
    <3>4. 1 \in DOMAIN pipe[t] /\ pipe[t][1] = "c"
      <4>1. \A s \in Seq({"c", "l"}) : s # <<>> => 1 \in DOMAIN s /\ s[1] = Head(s)
        OBVIOUS
      <4> QED BY <3>1, <3>3, <4>1
    <3>5. 1 \in Places(pipe[t])
      BY <3>4 DEF Places
    <3> QED BY <3>2, <3>5, FS_EmptySet
  <2>4. Sent(u)' = Sent(u) + 0
    BY <2>1, <2>3, LetterRead
  <2>5. Sent(u) \in Nat /\ Owed(u)' = Owed(u)
    BY <2>2, LettersNumbers DEF Owed
  <2> QED BY <2>2, <2>4, <2>5
<1>7. CASE UNCHANGED vars \/ \E t \in Thread : conn_close(t) \/ Closing(t)
  <2>1. UNCHANGED <<pipe, cq, last_thread, mpc>>
    BY <1>7 DEF vars, conn_close, Closing, CloseFd, AllowNewConns, CountClosed
  <2>2. Owed(u)' = Owed(u)
    BY <2>1 DEF Owed
  <2> QED BY <2>1, <2>2, LettersAlone
<1> QED BY <1>1, <1>2, <1>3, <1>4, <1>5, <1>6, <1>7 DEF Next, Main, Process

\* A letter for every queued connection, wherever the letters of the lock switch come
\* between them: no queued connection has to wait for the next client, and no letter
\* is read for which thread_libevent_process finds the queue empty.
THEOREM LetterForEachOne == Spec => []LetterForEach
<1>1. Init => LetterForEach
  <2> SUFFICES ASSUME Init, NEW t \in Thread PROVE Sent(t) + Owed(t) = Len(cq[t])
    BY LettersCounted
  <2>1. pipe[t] = <<>> /\ cq[t] = <<>> /\ mpc = "loop"
    BY DEF Init
  <2>2. Places(pipe[t]) = {}
    BY <2>1 DEF Places
  <2> QED BY <2>1, <2>2, FS_EmptySet DEF Sent, Owed
<1>2. TInv /\ LetterForEach /\ [Next]_vars => LetterForEach'
  <2> SUFFICES ASSUME TInv, LetterForEach, [Next]_vars PROVE LetterForEach'
    OBVIOUS
  <2>1. \A t \in Thread : Sent(t) + Owed(t) = Len(cq[t])
    BY LettersCounted
  <2>2. \A t \in Thread : (Sent(t) + Owed(t) = Len(cq[t]))'
    BY <2>1, LettersKept
  <2>3. (\A t \in Thread : Sent(t) + Owed(t) = Len(cq[t]))' => LetterForEach'
    BY LettersCounted DEF LetterForEach, Letters, Sent, Owed, Places
  <2> QED BY <2>2, <2>3
<1> QED BY <1>1, <1>2, TypesHold, PTL DEF Spec

-----------------------------------------------------------------------------
(* The count of connections *)

LEMMA CountsFinite ==
  /\ IsFiniteSet(Open) /\ Cardinality(Open) \in Nat /\ Cardinality(Open) <= Cardinality(Fd)
  /\ IsFiniteSet(Leaving) /\ Cardinality(Leaving) \in Nat /\ Cardinality(Leaving) <= num_threads
  /\ Cardinality(Fd) \in Nat
<1>1. IsFiniteSet(Thread) /\ Cardinality(Thread) = num_threads
  <2>1. num_threads \in Nat /\ num_threads > 0
    BY ThreadAssumption
  <2>2. IsFiniteSet(0..(num_threads - 1)) /\ Cardinality(0..(num_threads - 1)) = (num_threads - 1) - 0 + 1
    BY <2>1, FS_Interval
  <2> QED BY <2>1, <2>2 DEF Thread
<1>2. Open \in SUBSET Fd /\ Leaving \in SUBSET Thread
  BY DEF Open, Leaving
<1>3. /\ IsFiniteSet(Open) /\ Cardinality(Open) <= Cardinality(Fd)
      /\ IsFiniteSet(Leaving) /\ Cardinality(Leaving) <= num_threads
  BY <1>1, <1>2, FdAssumption, FS_Subset
<1> QED BY <1>3, FdAssumption, FS_CardinalityType

LEMMA CountOfInit == Init => NInv
<1> SUFFICES ASSUME Init PROVE NInv
  OBVIOUS
<1>1. Open = {} /\ Leaving = {} /\ curr_conns = 0
  BY DEF Init, Open, Leaving
<1> QED BY <1>1, FS_EmptySet DEF NInv

\* Steps that register and close nothing.
LEMMA CountAlone ==
  ASSUME NInv, UNCHANGED <<base, wpc, curr_conns>>
  PROVE  NInv'
<1>1. Open' = Open /\ Leaving' = Leaving
  BY DEF Open, Leaving
<1> QED BY <1>1 DEF NInv

LEMMA CountKept == TInv /\ OInv /\ NInv /\ [Next]_vars => NInv'
<1> SUFFICES ASSUME TInv, OInv, NInv, [Next]_vars PROVE NInv'
  OBVIOUS
<1> USE DEF listener, main, queues, workers
<1>1. CASE UNCHANGED vars \/ Connect \/ SwitchLockType \/ Main
  <2>1. UNCHANGED <<base, wpc, curr_conns>>
    BY <1>1 DEF vars, Connect, SwitchLockType, Main, Accept, AcceptFails, StopListening, maxconns_handler,
       dispatch_conn_new, DispatchFails, Notify
  <2> QED BY <2>1, CountAlone
<1>2. ASSUME NEW t \in Thread, ConnNewFails(t) \/ OtherLetter(t) PROVE NInv'
  BY <1>2, CountAlone DEF ConnNewFails, OtherLetter
<1>3. curr_conns = Cardinality(Open) + Cardinality(Leaving)
  BY DEF NInv
<1>4. /\ IsFiniteSet(Open) /\ Cardinality(Open) \in Nat
      /\ IsFiniteSet(Leaving) /\ Cardinality(Leaving) \in Nat
  BY CountsFinite
<1>5. ASSUME NEW t \in Thread, conn_new(t) PROVE NInv'
  <2> DEFINE h == Head(cq[t])
  <2>1. h \in Fd /\ Contains(cq[t], h)
    BY <1>5, QueuePopped DEF conn_new
  <2>2. base' = [base EXCEPT ![t] = @ \cup {h}] /\ curr_conns' = curr_conns + 1 /\ UNCHANGED wpc
    BY <1>5 DEF conn_new
  <2> HIDE DEF h
  <2>3. h \notin Open
    BY <2>1 DEF OInv, Open
  <2>4. \A u \in Thread : \A f : f \in base'[u] <=> f \in base[u] \/ (u = t /\ f = h)
    BY <2>2 DEF TInv
  <2>5. Open' = Open \cup {h} /\ Leaving' = Leaving
    BY <2>1, <2>2, <2>4 DEF Open, Leaving
  <2>6. Cardinality(Open \cup {h}) = Cardinality(Open) + 1
    BY <1>4, <2>3, FS_AddElement
  <2>7. curr_conns' = Cardinality(Open \cup {h}) + Cardinality(Leaving)
    BY <1>3, <1>4, <2>2, <2>6
  <2> QED BY <2>5, <2>7 DEF NInv
<1>6. ASSUME NEW t \in Thread, conn_close(t) PROVE NInv'
  <2>1. PICK h \in base[t] : base' = [base EXCEPT ![t] = @ \ {h}]
    BY <1>6 DEF conn_close
  <2>2. /\ h \in Fd /\ wpc[t] = "loop" /\ wpc' = [wpc EXCEPT ![t] = "close"] /\ UNCHANGED curr_conns
    BY <1>6 DEF conn_close, TInv
  <2>3. \A u \in Thread : h \in base[u] => u = t
    BY <2>2 DEF OInv
  <2>4. \A u \in Thread : \A f : f \in base'[u] <=> f \in base[u] /\ ~(u = t /\ f = h)
    BY <2>1 DEF TInv
  <2>5. h \in Open /\ Open' = Open \ {h}
    BY <2>1, <2>2, <2>3, <2>4 DEF Open
  <2>6. t \notin Leaving /\ Leaving' = Leaving \cup {t}
    BY <2>2 DEF Leaving, TInv
  <2>7. Cardinality(Open \ {h}) = Cardinality(Open) - 1
    BY <1>4, <2>5, FS_RemoveElement
  <2>8. Cardinality(Leaving \cup {t}) = Cardinality(Leaving) + 1
    BY <1>4, <2>6, FS_AddElement
  <2>9. curr_conns' = Cardinality(Open \ {h}) + Cardinality(Leaving \cup {t})
    BY <1>3, <1>4, <2>2, <2>7, <2>8
  <2> QED BY <2>5, <2>6, <2>9 DEF NInv
<1>7. ASSUME NEW t \in Thread, CloseFd(t) \/ AllowNewConns(t) PROVE NInv'
  <2>1. UNCHANGED <<base, curr_conns>> /\ Leaving' = Leaving
    BY <1>7 DEF CloseFd, AllowNewConns, Leaving, TInv
  <2>2. Open' = Open
    BY <2>1 DEF Open
  <2> QED BY <2>1, <2>2 DEF NInv
<1>8. ASSUME NEW t \in Thread, CountClosed(t) PROVE NInv'
  <2>1. /\ wpc[t] = "count" /\ curr_conns' = curr_conns - 1 /\ UNCHANGED base
        /\ wpc' = [wpc EXCEPT ![t] = "loop"]
    BY <1>8 DEF CountClosed
  <2>2. t \in Leaving /\ Leaving' = Leaving \ {t} /\ Open' = Open
    BY <2>1 DEF Leaving, Open, TInv
  <2>3. Cardinality(Leaving \ {t}) = Cardinality(Leaving) - 1
    BY <1>4, <2>2, FS_RemoveElement
  <2>4. curr_conns' = Cardinality(Open) + Cardinality(Leaving \ {t})
    BY <1>3, <1>4, <2>1, <2>3
  <2> QED BY <2>2, <2>4 DEF NInv
<1> QED BY <1>1, <1>2, <1>5, <1>6, <1>7, <1>8 DEF Next, Process, Closing

LEMMA CountHolds == Spec => []NInv
  BY CountOfInit, CountKept, TypesHold, OwnersHold, PTL DEF Spec

\* Every variable keeps its type; stats.curr_conns, which conn_new and conn_close
\* change without looking at it, never underflows, and is never more than one for
\* each descriptor and one for each worker that has still to count a connection off.
THEOREM TypeCorrect == Spec => []TypeOK
<1>1. Flags /\ TInv /\ NInv => TypeOK
  <2> SUFFICES ASSUME Flags, TInv, NInv PROVE TypeOK
    OBVIOUS
  <2>1. curr_conns \in 0..Cardinality(Fd) + num_threads
    <3>1. curr_conns = Cardinality(Open) + Cardinality(Leaving)
      BY DEF NInv
    <3>2. num_threads \in Nat
      BY ThreadAssumption
    <3> QED BY <3>1, <3>2, CountsFinite
  <2> QED BY <2>1, Zenon DEF Flags, TInv, TypeOK
<1> QED BY <1>1, TypesHold, CountHolds, PTL
=============================================================================
