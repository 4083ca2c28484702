----------------------------- MODULE LruCrawler -----------------------------
(***************************************************************************)
(* The LRU crawler: a background thread that walks LRU queues from the     *)
(* tail to the head and frees the expired items it meets.                  *)
(*                                                                         *)
(* "lru_crawler crawl" links a pseudo item, crawlers[sid], at the tail of  *)
(* each queue to be walked.  The thread swings it past one entry at a      *)
(* time, under cache_lock, while workers link, bump and unlink items in    *)
(* the same queues between its steps.  lru_crawler_lock belongs to the     *)
(* thread while it crawls; "crawl" only tries that lock, "disable" waits   *)
(* for it, and the condition variable carries no memory: a signal that     *)
(* finds nobody waiting is lost.                                           *)
(*                                                                         *)
(* Abstractions: a section of cache_lock is one step.  Whether an item is  *)
(* expired, locked or referred to is a choice (ItemCache and ItemRefs      *)
(* model what it depends on).  The queues are modelled by their pointers.  *)
(* The assertions of items.c are no steps: memcached is built with NDEBUG. *)
(* What a failed one lets happen is modelled: a second "crawl" before the  *)
(* thread has woken links a pseudo item to itself and counts it twice.     *)
(* Nothing is modelled past a pthread_join of a thread that is not there   *)
(* to be joined (fault).  A request for class POWER_LARGEST passes the     *)
(* check and writes one entry past tocrawl[]; the model leaves that to the *)
(* compiler and asks for no such class.                                    *)
(***************************************************************************)
EXTENDS Integers, FiniteSets

CONSTANTS
  Item, LargestId,
  ClassOf,         \* slabs_clsid of each item
  Worker,
  Admin,           \* the workers whose clients send lru_crawler enable and disable
  Thread,          \* bound: thread identifiers pthread_create can return
  ToCrawl,         \* values clients give to "lru_crawler tocrawl"
  MaxCount,        \* bound: crawlers counted at a time
  NULL, Nobody

Class == 1..LargestId    \* crawlers[sid] is the node sid
Node == Item \cup Class
NodeOrNull == Node \cup {NULL}

ASSUME ClassAssumption == LargestId \in Nat /\ ClassOf \in [Item -> Class]
ASSUME NodeAssumption == IsFiniteSet(Item) /\ Item \cap Class = {} /\ NULL \notin Node
ASSUME ThreadAssumption ==
  Worker \cap Thread = {} /\ Admin \subseteq Worker /\ {Nobody, NULL} \cap (Worker \cup Thread) = {}
ASSUME ToCrawlAssumption == ToCrawl \subseteq Nat
ASSUME MaxCountAssumption == MaxCount \in Nat

VARIABLES
  q,               \* heads, tails and the next and prev pointers of every node
  linked,          \* items with ITEM_LINKED
  enabled,         \* classes whose crawler has it_flags = 1
  remaining,       \* crawlers[sid].remaining
  crawler_count,
  tocrawl,         \* settings.lru_crawler_tocrawl
  lru_crawler,     \* settings.lru_crawler
  do_run,          \* do_run_lru_crawler_thread
  tid,             \* item_crawler_tid
  lru_crawler_lock,
  tpc, i,          \* of each crawler thread: where it is, its class
  pc,              \* of each worker: idle, or where it is in a command
  unseen,          \* history: items queued since a crawl began and not reached by it
  twice,           \* history: classes whose crawler was linked while it was linked
  fault

queues == <<q, linked>>
crawl == <<enabled, remaining, crawler_count, unseen, twice>>
settings == <<tocrawl, lru_crawler>>
thread == <<do_run, tid, lru_crawler_lock, tpc, i>>
vars == <<queues, crawl, settings, thread, pc, fault>>

TypeOK ==
  /\ q \in [heads : [Class -> NodeOrNull], tails : [Class -> NodeOrNull],
            next : [Node -> NodeOrNull], prev : [Node -> NodeOrNull]]
  /\ linked \subseteq Item /\ enabled \subseteq Class
  /\ remaining \in [Class -> Nat] /\ crawler_count \in Int
  /\ tocrawl \in Nat /\ lru_crawler \in BOOLEAN /\ do_run \in BOOLEAN
  /\ tid \in Thread \cup {NULL}
  /\ lru_crawler_lock \in Thread \cup {Nobody}
  /\ tpc \in [Thread -> {"none", "start", "waiting", "woken", "crawling", "exited"}]
  /\ i \in [Thread -> 1..(LargestId + 1)]
  /\ pc \in [Worker -> {"idle", "enable", "disable", "join", "crawl"}]
  /\ unseen \in [Class -> SUBSET Item] /\ twice \subseteq Class
  /\ fault \in {"none", "join"}

\* The server starts with empty queues and no thread.
Init ==
  /\ q = [heads |-> [s \in Class |-> NULL], tails |-> [s \in Class |-> NULL],
          next |-> [n \in Node |-> NULL], prev |-> [n \in Node |-> NULL]]
  /\ linked = {} /\ enabled = {}
  /\ remaining = [s \in Class |-> 0] /\ crawler_count = 0
  /\ tocrawl = 0 /\ lru_crawler = FALSE /\ do_run = FALSE
  /\ tid = NULL /\ lru_crawler_lock = Nobody
  /\ tpc = [t \in Thread |-> "none"] /\ i = [t \in Thread |-> 1]
  /\ pc = [w \in Worker |-> "idle"]
  /\ unseen = [s \in Class |-> {}] /\ twice = {}
  /\ fault = "none"

-----------------------------------------------------------------------------
(* The queues.  Each operator takes the pointers and returns the new ones. *)

ClassOfNode(n) == IF n \in Class THEN n ELSE ClassOf[n]

\* f[n] = v, unless n is the null pointer.
Put(f, n, v) == IF n = NULL THEN f ELSE [f EXCEPT ![n] = v]

\* item_link_q: the new head.
item_link_q(l, n) ==
  LET s == ClassOfNode(n) IN
  [heads |-> [l.heads EXCEPT ![s] = n],
   tails |-> [l.tails EXCEPT ![s] = IF @ = NULL THEN n ELSE @],
   next |-> [l.next EXCEPT ![n] = l.heads[s]],
   prev |-> Put([l.prev EXCEPT ![n] = NULL], l.heads[s], n)]

\* item_unlink_q and crawler_unlink_q.  The node's own pointers are stale from here
\* on and are set again before it is linked; the model clears them.
unlink_q(l, n) ==
  LET s == ClassOfNode(n) IN
  [heads |-> [l.heads EXCEPT ![s] = IF @ = n THEN l.next[n] ELSE @],
   tails |-> [l.tails EXCEPT ![s] = IF @ = n THEN l.prev[n] ELSE @],
   next |-> [Put(l.next, l.prev[n], l.next[n]) EXCEPT ![n] = NULL],
   prev |-> [Put(l.prev, l.next[n], l.prev[n]) EXCEPT ![n] = NULL]]

\* crawler_link_q for each class in S: the crawler is the new tail, and the next of the old
\* one.  One that is the tail already becomes its own next and prev.
crawler_link_q(l, S) ==
  [heads |-> [s \in Class |-> IF s \in S /\ l.heads[s] = NULL THEN s ELSE l.heads[s]],
   tails |-> [s \in Class |-> IF s \in S THEN s ELSE l.tails[s]],
   next |-> [n \in Node |-> IF \E s \in S : l.tails[s] = n THEN CHOOSE s \in S : l.tails[s] = n
                            ELSE IF n \in S THEN NULL
                            ELSE l.next[n]],
   prev |-> [n \in Node |-> IF n \in S THEN l.tails[n] ELSE l.prev[n]]]

\* Mutant: crawler_crawl_q forgets the new predecessor's next pointer.
crawler_crawl_q_short(l, c) ==
  LET p == l.prev[c]  n == l.next[c]  prev == Put(l.prev, n, p) IN
  IF p = NULL
  THEN [l EXCEPT !.heads[c] = IF n = NULL THEN @ ELSE n, !.prev = Put(@, n, NULL)]
  ELSE [heads |-> [l.heads EXCEPT ![c] = IF @ = p THEN c ELSE @],
        tails |-> [l.tails EXCEPT ![c] = IF @ = c THEN p ELSE @],
        next |-> [l.next EXCEPT ![p] = n, ![c] = p],
        prev |-> [prev EXCEPT ![c] = prev[p], ![p] = c]]

\* crawler_crawl_q: a crawler at the head pops off, any other changes places with
\* the entry before it.  In the order of the assignments, since after a second crawl
\* that entry may be the crawler itself.
crawler_crawl_q(l, c) ==
  LET p == l.prev[c]  n == l.next[c]  prev == Put(l.prev, n, p) IN
  IF p = NULL
  THEN [l EXCEPT !.heads[c] = IF n = NULL THEN @ ELSE n, !.prev = Put(@, n, NULL)]
  ELSE [heads |-> [l.heads EXCEPT ![c] = IF @ = p THEN c ELSE @],
        tails |-> [l.tails EXCEPT ![c] = IF @ = c THEN p ELSE @],
        next |-> Put([l.next EXCEPT ![p] = n, ![c] = p], prev[p], c),
        prev |-> [prev EXCEPT ![c] = prev[p], ![p] = c]]

\* What crawler_crawl_q returns: the entry it swung past, NULL when it is done.
Search(c) == q.prev[c]

-----------------------------------------------------------------------------
(* Workers: items come and go.  Each is a section of cache_lock. *)

do_item_link(n) ==
  /\ n \notin linked
  /\ q' = item_link_q(q, n)
  /\ linked' = linked \cup {n}
  /\ UNCHANGED <<crawl, settings, thread, pc, fault>>

\* An item that leaves its queue is no longer any crawl's business.
do_item_unlink(n) ==
  /\ n \in linked
  /\ q' = unlink_q(q, n)
  /\ linked' = linked \ {n}
  /\ unseen' = [s \in Class |-> unseen[s] \ {n}]
  /\ UNCHANGED <<enabled, remaining, crawler_count, twice, settings, thread, pc, fault>>

\* Mutant: a bumped item goes behind the tail, where the crawler has been.
do_item_update_tail(n) ==
  LET s == ClassOf[n]  l == unlink_q(q, n) IN
  /\ n \in linked
  /\ q' = IF l.tails[s] = NULL THEN item_link_q(l, n)
          ELSE [l EXCEPT !.prev[n] = l.tails[s], !.next[l.tails[s]] = n, !.tails[s] = n]
  /\ UNCHANGED <<linked, crawl, settings, thread, pc, fault>>

\* do_item_update moves an item to the head.
do_item_update(n) ==
  /\ n \in linked
  /\ q' = item_link_q(unlink_q(q, n), n)
  /\ UNCHANGED <<linked, crawl, settings, thread, pc, fault>>

-----------------------------------------------------------------------------
(* Clients: the lru_crawler commands *)

Goto(w, l) == pc' = [pc EXCEPT ![w] = l]

\* pthread_cond_signal: wakes one of those that wait now.
Signal(threads) ==
  IF \E t \in Thread : threads[t] = "waiting"
  THEN \E t \in Thread : threads[t] = "waiting" /\ tpc' = [threads EXCEPT ![t] = "woken"]
  ELSE tpc' = threads

\* The setting is read without a lock when the command is parsed.
CrawlParsed(w) ==
  /\ pc[w] = "idle" /\ lru_crawler
  /\ Goto(w, "crawl")
  /\ UNCHANGED <<queues, crawl, settings, thread, fault>>

\* CRAWLER_RUNNING and CRAWLER_BADCLASS.
CrawlRefused(w) ==
  /\ pc[w] = "crawl"
  /\ Goto(w, "idle")
  /\ UNCHANGED <<queues, crawl, settings, thread, fault>>

\* lru_crawler_crawl.  tocrawl[] is not initialised: besides the classes of the
\* request any others may be crawled, so the model takes any set of classes.
lru_crawler_crawl(w) ==
  /\ pc[w] = "crawl"
  /\ lru_crawler_lock = Nobody
  /\ \E asked \in SUBSET Class :
       LET S == {s \in asked : q.tails[s] # NULL} IN
       /\ crawler_count + Cardinality(S) <= MaxCount
       /\ q' = crawler_link_q(q, S)
       /\ enabled' = enabled \cup S
       /\ remaining' = [s \in Class |-> IF s \in S THEN tocrawl ELSE remaining[s]]
       /\ crawler_count' = crawler_count + Cardinality(S)
       /\ unseen' = [s \in Class |-> IF s \in S THEN {n \in linked : ClassOf[n] = s} ELSE unseen[s]]
       /\ twice' = twice \cup (S \cap enabled)
  /\ Signal(tpc)
  /\ Goto(w, "idle")
  /\ UNCHANGED <<linked, settings, do_run, tid, lru_crawler_lock, i, fault>>

SetToCrawl ==
  /\ tocrawl' \in ToCrawl
  /\ UNCHANGED <<queues, crawl, lru_crawler, thread, pc, fault>>

EnableParsed(w) ==
  /\ pc[w] = "idle" /\ w \in Admin /\ ~lru_crawler
  /\ Goto(w, "enable")
  /\ UNCHANGED <<queues, crawl, settings, thread, fault>>

\* start_item_crawler_thread; pthread_create may fail, and leaves the setting on.
start_item_crawler_thread(w) ==
  /\ pc[w] = "enable"
  /\ lru_crawler_lock = Nobody
  /\ do_run' = TRUE
  /\ lru_crawler' = TRUE
  /\ \/ \E t \in Thread :
          /\ tpc[t] = "none"
          /\ tpc' = [tpc EXCEPT ![t] = "start"]
          /\ tid' = t
     \/ UNCHANGED <<tpc, tid>>
  /\ Goto(w, "idle")
  /\ UNCHANGED <<queues, crawl, tocrawl, lru_crawler_lock, i, fault>>

\* stop_item_crawler_thread waits for the lock, whether or not there is a thread ...
DisableParsed(w) ==
  /\ pc[w] = "idle" /\ w \in Admin
  /\ Goto(w, "disable")
  /\ UNCHANGED <<queues, crawl, settings, thread, fault>>

\* Mutant: the thread is told to stop without a signal.
stop_item_crawler_thread_silent(w) ==
  /\ pc[w] = "disable"
  /\ lru_crawler_lock = Nobody
  /\ do_run' = FALSE
  /\ Goto(w, "join")
  /\ UNCHANGED <<queues, crawl, settings, tid, lru_crawler_lock, tpc, i, fault>>

stop_item_crawler_thread(w) ==
  /\ pc[w] = "disable"
  /\ lru_crawler_lock = Nobody
  /\ do_run' = FALSE
  /\ Signal(tpc)
  /\ Goto(w, "join")
  /\ UNCHANGED <<queues, crawl, settings, tid, lru_crawler_lock, i, fault>>

\* ... and joins the thread started last.
StopJoins(w) ==
  /\ pc[w] = "join"
  /\ \/ /\ tid # NULL /\ tpc[tid] = "exited"
        /\ tpc' = [tpc EXCEPT ![tid] = "none"]
        /\ lru_crawler' = FALSE
        /\ Goto(w, "idle")
        /\ UNCHANGED fault
     \/ /\ tid \notin {t \in Thread : tpc[t] # "none"}
        /\ fault' = "join"
        /\ UNCHANGED <<tpc, lru_crawler, pc>>
  /\ UNCHANGED <<queues, crawl, tocrawl, do_run, tid, lru_crawler_lock, i>>

-----------------------------------------------------------------------------
(* item_crawler_thread *)

\* The head of "while (do_run_lru_crawler_thread)": wait, or return.
WaitOrExit(t) == tpc' = [tpc EXCEPT ![t] = IF do_run THEN "waiting" ELSE "exited"]

ThreadStarts(t) ==
  /\ tpc[t] = "start" /\ lru_crawler_lock = Nobody
  /\ WaitOrExit(t)
  /\ UNCHANGED <<queues, crawl, settings, do_run, tid, lru_crawler_lock, i, pc, fault>>

\* pthread_cond_wait returns with the lock.
ThreadWakes(t) ==
  /\ tpc[t] = "woken" /\ lru_crawler_lock = Nobody
  /\ tpc' = [tpc EXCEPT ![t] = "crawling"]
  /\ i' = [i EXCEPT ![t] = LargestId + 1]
  /\ lru_crawler_lock' = t
  /\ UNCHANGED <<queues, crawl, settings, do_run, tid, pc, fault>>

\* "while (crawler_count)": once more over the classes, or done.
CrawlRound(t) ==
  /\ tpc[t] = "crawling" /\ i[t] > LargestId
  /\ i' = [i EXCEPT ![t] = 1]
  /\ IF crawler_count # 0
     THEN UNCHANGED <<tpc, lru_crawler_lock>>
     ELSE WaitOrExit(t) /\ lru_crawler_lock' = Nobody
  /\ UNCHANGED <<queues, crawl, settings, do_run, tid, pc, fault>>

InRound(t) == tpc[t] = "crawling" /\ i[t] \in Class

CrawlSkips(t) ==
  /\ InRound(t) /\ i[t] \notin enabled
  /\ i' = [i EXCEPT ![t] = @ + 1]
  /\ UNCHANGED <<queues, crawl, settings, do_run, tid, lru_crawler_lock, tpc, pc, fault>>


\* Whether this step is the crawler's last: the head, or as many items as it may see.
Done(s) == Search(s) = NULL \/ remaining[s] = 1

CrawlDone(s) ==
  /\ Done(s)
  /\ q' = unlink_q(crawler_crawl_q(q, s), s)
  /\ enabled' = enabled \ {s}
  /\ crawler_count' = crawler_count - 1
  /\ remaining' = [remaining EXCEPT ![s] = IF Search(s) = NULL THEN @ ELSE 0]
  /\ unseen' = [unseen EXCEPT ![s] = {}]
  /\ UNCHANGED <<linked, twice>>

\* Mutant: no limit is taken for a limit of none.
Remaining_unchecked(s) == remaining[s] - 1

\* crawlers[s].remaining && --crawlers[s].remaining
Remaining(s) == IF remaining[s] = 0 THEN 0 ELSE remaining[s] - 1

\* item_crawler_evaluate on an item that is expired and that nobody holds, or an
\* item passed over: locked, referred to, or live.  A crawler that meets itself has a
\* refcount of 0 and is passed over.
CrawlItem(s) ==
  LET l == crawler_crawl_q(q, s)  n == Search(s) IN
  /\ ~Done(s)
  /\ remaining' = [remaining EXCEPT ![s] = Remaining(s)]
  /\ \/ n \in linked /\ q' = unlink_q(l, n) /\ linked' = linked \ {n}
     \/ q' = l /\ UNCHANGED linked
  /\ unseen' = [unseen EXCEPT ![s] = @ \ {n}]
  /\ UNCHANGED <<enabled, crawler_count, twice>>

CrawlStep(t) ==
  LET s == i[t] IN
  /\ InRound(t) /\ s \in enabled
  /\ CrawlDone(s) \/ CrawlItem(s)
  /\ i' = [i EXCEPT ![t] = s + 1]
  /\ UNCHANGED <<settings, do_run, tid, lru_crawler_lock, tpc, pc, fault>>

-----------------------------------------------------------------------------
CrawlerThread(t) ==
  ThreadStarts(t) \/ ThreadWakes(t) \/ CrawlRound(t) \/ CrawlSkips(t) \/ CrawlStep(t)

Command(w) ==
  \/ CrawlParsed(w) \/ CrawlRefused(w) \/ lru_crawler_crawl(w)
  \/ EnableParsed(w) \/ start_item_crawler_thread(w)
  \/ DisableParsed(w) \/ stop_item_crawler_thread(w) \/ StopJoins(w)

Next ==
  /\ fault = "none"
  /\ \/ \E n \in Item : do_item_link(n) \/ do_item_unlink(n) \/ do_item_update(n)
     \/ SetToCrawl
     \/ \E w \in Worker : Command(w)
     \/ \E t \in Thread : CrawlerThread(t)

\* The scheduler runs the crawler's thread, and a worker whose join can return.
Fairness ==
  /\ \A t \in Thread : WF_vars(fault = "none" /\ CrawlerThread(t))
  /\ \A w \in Admin : WF_vars(fault = "none" /\ StopJoins(w))

Spec == Init /\ [][Next]_vars /\ Fairness

-----------------------------------------------------------------------------
(* Properties *)

Members(s) == {n \in linked : ClassOf[n] = s} \cup (enabled \cap {s})

\* The n-th entry of a queue from its head.
Walk(s) ==
  LET w[n \in 0..Cardinality(Node)] ==
        IF n = 0 THEN q.heads[s] ELSE IF w[n - 1] = NULL THEN NULL ELSE q.next[w[n - 1]]
  IN w

\* Whatever links, bumps and unlinks come between the steps of the crawlers, the queue of a
\* class whose crawler was not linked twice stays a doubly linked list of exactly its items
\* and its crawler (the assertions of crawler_crawl_q), even while crawlers linked twice ruin
\* others.  crawler_count, which the thread waits to see at 0, is the number of crawlers in
\* the queues if none was linked twice, and can never come down to 0 again if one was.
QueuesIntact ==
  /\ crawler_count >= Cardinality(enabled)
  /\ crawler_count = Cardinality(enabled) <=> twice = {}
  /\ \A s \in Class \ twice :
       LET w == Walk(s)  len == Cardinality(Members(s)) IN
       /\ {w[n] : n \in 0..(len - 1)} = Members(s)
       /\ w[len] = NULL
       /\ \A n \in 1..(len - 1) : q.prev[w[n]] = w[n - 1]
       /\ IF len = 0 THEN q.tails[s] = NULL
          ELSE q.prev[w[0]] = NULL /\ q.tails[s] = w[len - 1]

\* What a crawl has not reached yet is in front of its crawler, so that one that
\* reaches the head has passed every item that was queued all the while; of crawlers that
\* were not linked twice.
NothingPassedOver ==
  \A s \in enabled \ twice :
    LET w == Walk(s) IN
    \A n \in unseen[s] : \E a, b \in DOMAIN w : a < b /\ w[a] = n /\ w[b] = s

\* "assert(it != *tail)" of crawler_link_q, for the next crawl: while no thread crawls no
\* class has its crawler at the tail.  The code does not keep to it: nothing but the sleeping
\* thread takes a crawler away again.
NotTheTail ==
  \A w \in Worker : pc[w] = "crawl" /\ lru_crawler_lock = Nobody => \A s \in Class : q.tails[s] # s


\* "lru_crawler disable" answers: the thread it joins sees the request, unless a crawl
\* without a limit keeps it busy, or a crawler that was linked twice keeps crawler_count
\* above 0 for ever.
DisableReturns ==
  \A w \in Admin :
    pc[w] = "join" ~> (pc[w] # "join" \/ fault # "none" \/ twice # {} \/ \E s \in enabled : remaining[s] = 0)
=============================================================================
