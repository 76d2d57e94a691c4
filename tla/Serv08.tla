------------------------------- MODULE Serv08 -------------------------------
(***************************************************************************)
(* 30chp/serv08.c: the prethreaded server in which only the main thread    *)
(* calls accept.  It puts each connected descriptor in the ring clifd and  *)
(* signals a condition variable; the pool's threads take descriptors out   *)
(* of the ring and serve them.  All of clifd, iget and iput is guarded by  *)
(* clifd_mutex.                                                            *)
(*                                                                         *)
(* A descriptor is named by the call of accept that returned it, so that   *)
(* two connections never have the same name; the calls that returned -1    *)
(* (the code does not look) are those in AcceptErrors.  web_child's        *)
(* request/reply rounds change no state of the server, and are not steps.  *)
(***************************************************************************)
EXTENDS Integers, Sequences, FiniteSets

CONSTANTS
  Threads,       \* the nthreads threads of the pool
  Conns,         \* the calls of accept that return
  AcceptErrors,  \* those among them that returned -1
  MAXNCLI,       \* slots of the ring
  NoConn         \* a descriptor variable or slot not written yet

Main == "main"
Free == "free"

ASSUME ThreadsAssumption == IsFiniteSet(Threads) /\ Main \notin Threads /\ Free \notin Threads
ASSUME ConnsAssumption == AcceptErrors \subseteq Conns /\ NoConn \notin Conns
ASSUME MAXNCLIAssumption == MAXNCLI \in Nat /\ MAXNCLI >= 2

Procs == Threads \union {Main}

VARIABLES
  clifd, iget, iput,  \* the ring and its two indexes
  owner,              \* who holds clifd_mutex
  pc,                 \* where each thread is
  connfd,             \* the local variable connfd of main and of each thread
  thread_count,       \* tptr[i].thread_count
  running,            \* the process has not called exit
  accepted,           \* the calls of accept that have returned
  taken               \* history: what was taken out of the ring, in order

ring == <<clifd, iget, iput>>
vars == <<clifd, iget, iput, owner, pc, connfd, thread_count, running, accepted, taken>>

Init ==
  /\ clifd = [i \in 0 .. MAXNCLI - 1 |-> NoConn]
  /\ iget = 0
  /\ iput = 0
  /\ owner = Free
  /\ pc = [p \in Procs |-> IF p = Main THEN "make" ELSE "unborn"]
  /\ connfd = [p \in Procs |-> NoConn]
  /\ thread_count = [t \in Threads |-> 0]
  /\ running = TRUE
  /\ accepted = {}
  /\ taken = <<>>

Goto(p, from, to) ==
  /\ running
  /\ pc[p] = from
  /\ pc' = [pc EXCEPT ![p] = to]

\* ++i, wrapping at the end of the ring.
Advance(i) == IF i + 1 = MAXNCLI THEN 0 ELSE i + 1

-----------------------------------------------------------------------------
(* The main thread. *)

\* thread_make: pthread_create of one more thread of the pool.
ThreadMake(t) ==
  /\ running
  /\ pc[Main] = "make"
  /\ pc[t] = "unborn"
  /\ pc' = [pc EXCEPT ![t] = "lock"]
  /\ UNCHANGED <<ring, owner, connfd, thread_count, running, accepted, taken>>

\* Only when every thread exists does main enter its accept loop.
MadeAll ==
  /\ \A t \in Threads : pc[t] # "unborn"
  /\ Goto(Main, "make", "accept")
  /\ UNCHANGED <<ring, owner, connfd, thread_count, running, accepted, taken>>

Accept(c) ==
  /\ c \notin accepted
  /\ Goto(Main, "accept", "lock")
  /\ connfd' = [connfd EXCEPT ![Main] = c]
  /\ accepted' = accepted \union {c}
  /\ UNCHANGED <<ring, owner, thread_count, running, taken>>

MainLock ==
  /\ owner = Free
  /\ owner' = Main
  /\ Goto(Main, "lock", "put")
  /\ UNCHANGED <<ring, connfd, thread_count, running, accepted, taken>>

\* The slot is written before the indexes are compared: a ring that this
\* connection fills is one too many, and the whole process exits.
Put ==
  /\ Goto(Main, "put", "signal")
  /\ clifd' = [clifd EXCEPT ![iput] = connfd[Main]]
  /\ iput' = Advance(iput)
  /\ running' = (iput' # iget)
  /\ UNCHANGED <<iget, owner, connfd, thread_count, accepted, taken>>

Sleeping == {t \in Threads : pc[t] = "sleep"}

\* Mutant of Signal: a sleeper is woken only when the ring was empty before.
SignalIfWasEmpty ==
  /\ running
  /\ pc[Main] = "signal"
  /\ IF Sleeping = {} \/ iput # Advance(iget)
       THEN pc' = [pc EXCEPT ![Main] = "unlock"]
       ELSE \E t \in Sleeping : pc' = [pc EXCEPT ![Main] = "unlock", ![t] = "woken"]
  /\ UNCHANGED <<ring, owner, connfd, thread_count, running, accepted, taken>>

\* pthread_cond_signal wakes one sleeper if there is one.
Signal ==
  /\ running
  /\ pc[Main] = "signal"
  /\ IF Sleeping = {}
       THEN pc' = [pc EXCEPT ![Main] = "unlock"]
       ELSE \E t \in Sleeping : pc' = [pc EXCEPT ![Main] = "unlock", ![t] = "woken"]
  /\ UNCHANGED <<ring, owner, connfd, thread_count, running, accepted, taken>>

MainUnlock ==
  /\ owner' = Free
  /\ Goto(Main, "unlock", "accept")
  /\ UNCHANGED <<ring, connfd, thread_count, running, accepted, taken>>

-----------------------------------------------------------------------------
(* A thread of the pool: thread_main. *)

ThreadLock(t) ==
  /\ owner = Free
  /\ owner' = t
  /\ Goto(t, "lock", "check")
  /\ UNCHANGED <<ring, connfd, thread_count, running, accepted, taken>>

\* while (iget == iput) pthread_cond_wait: the mutex is given up and the
\* thread put to sleep in one step.
Check(t) ==
  /\ IF iget = iput
       THEN Goto(t, "check", "sleep") /\ owner' = Free
       ELSE Goto(t, "check", "take") /\ UNCHANGED owner
  /\ UNCHANGED <<ring, connfd, thread_count, running, accepted, taken>>

\* POSIX lets pthread_cond_wait return although nobody signalled.
SpuriousWakeup(t) ==
  /\ Goto(t, "sleep", "woken")
  /\ UNCHANGED <<ring, owner, connfd, thread_count, running, accepted, taken>>

\* Mutant of Relock: if (iget == iput) instead of while.
RelockNoRecheck(t) ==
  /\ owner = Free
  /\ owner' = t
  /\ Goto(t, "woken", "take")
  /\ UNCHANGED <<ring, connfd, thread_count, running, accepted, taken>>

\* pthread_cond_wait takes the mutex again before it returns to the while.
Relock(t) ==
  /\ owner = Free
  /\ owner' = t
  /\ Goto(t, "woken", "check")
  /\ UNCHANGED <<ring, connfd, thread_count, running, accepted, taken>>

\* Mutant of Take: the index advanced before the slot is read.
TakeAfterAdvance(t) ==
  /\ Goto(t, "take", "unlock")
  /\ connfd' = [connfd EXCEPT ![t] = clifd[Advance(iget)]]
  /\ taken' = Append(taken, clifd[Advance(iget)])
  /\ iget' = Advance(iget)
  /\ UNCHANGED <<clifd, iput, owner, thread_count, running, accepted>>

Take(t) ==
  /\ Goto(t, "take", "unlock")
  /\ connfd' = [connfd EXCEPT ![t] = clifd[iget]]
  /\ taken' = Append(taken, clifd[iget])
  /\ iget' = Advance(iget)
  /\ UNCHANGED <<clifd, iput, owner, thread_count, running, accepted>>

ThreadUnlock(t) ==
  /\ owner' = Free
  /\ Goto(t, "unlock", "count")
  /\ UNCHANGED <<ring, connfd, thread_count, running, accepted, taken>>

\* thread_count is touched outside the mutex, by its own thread only.
Count(t) ==
  /\ Goto(t, "count", "serve")
  /\ thread_count' = [thread_count EXCEPT ![t] = @ + 1]
  /\ UNCHANGED <<ring, owner, connfd, running, accepted, taken>>

\* web_child returns when read says the client has closed.
ServeUntilEOF(t) ==
  /\ connfd[t] \notin AcceptErrors
  /\ Goto(t, "serve", "close")
  /\ UNCHANGED <<ring, owner, connfd, thread_count, running, accepted, taken>>

\* A request for no bytes or for too many (what read leaves in line on an
\* error counts too) makes web_child call exit: every thread goes.
BadRequest(t) ==
  /\ running
  /\ pc[t] = "serve"
  /\ running' = FALSE
  /\ UNCHANGED <<ring, owner, pc, connfd, thread_count, accepted, taken>>

Close(t) ==
  /\ Goto(t, "close", "lock")
  /\ connfd' = [connfd EXCEPT ![t] = NoConn]
  /\ UNCHANGED <<ring, owner, thread_count, running, accepted, taken>>

\* sig_int prints the counters and exits; it is installed once the threads
\* exist.
SigInt ==
  /\ running
  /\ pc[Main] # "make"
  /\ running' = FALSE
  /\ UNCHANGED <<ring, owner, pc, connfd, thread_count, accepted, taken>>

-----------------------------------------------------------------------------
MainStep == MadeAll \/ MainLock \/ Put \/ Signal \/ MainUnlock \/ (\E t \in Threads : ThreadMake(t))

ThreadStep(t) ==
  \/ ThreadLock(t) \/ Check(t) \/ Relock(t) \/ Take(t) \/ ThreadUnlock(t) \/ Count(t) \/ Close(t)

Environment ==
  \/ \E c \in Conns : Accept(c)
  \/ \E t \in Threads : SpuriousWakeup(t) \/ ServeUntilEOF(t) \/ BadRequest(t)
  \/ SigInt

Next == MainStep \/ (\E t \in Threads : ThreadStep(t)) \/ Environment

Spec == Init /\ [][Next]_vars

\* The scheduler runs every thread that can run.  Nothing is assumed of the
\* clients (they may keep a connection open for ever) or of the mutex (it
\* may be granted in any order).
Fairness == WF_vars(MainStep) /\ \A t \in Threads : WF_vars(ThreadStep(t))

FairSpec == Spec /\ Fairness

-----------------------------------------------------------------------------
(* Properties. *)

MainPcs == {"make", "accept", "lock", "put", "signal", "unlock"}
ThreadPcs == {"unborn", "lock", "check", "sleep", "woken", "take", "unlock", "count",
              "serve", "close"}

\* Every variable keeps its type; the indexes stay inside the ring.
TypeOK ==
  /\ clifd \in [0 .. MAXNCLI - 1 -> Conns \union {NoConn}]
  /\ iget \in 0 .. MAXNCLI - 1
  /\ iput \in 0 .. MAXNCLI - 1
  /\ owner \in Procs \union {Free}
  /\ pc \in [Procs -> MainPcs \union ThreadPcs]
  /\ pc[Main] \in MainPcs
  /\ \A t \in Threads : pc[t] \in ThreadPcs
  /\ connfd \in [Procs -> Conns \union {NoConn}]
  /\ thread_count \in [Threads -> Nat]
  /\ running \in BOOLEAN
  /\ accepted \in SUBSET Conns
  /\ taken \in Seq(Conns \union {NoConn})

\* Slot i lies on the way round the ring from slot g up to, not including, p.
Between(g, p, i) == IF g <= p THEN g <= i /\ i < p ELSE g <= i \/ i < p

\* Slot i holds a connection that waits for a thread.
Occupied(i) == Between(iget, iput, i)

\* The places a connection can be in while the process runs.
InMain(c) == pc[Main] \in {"lock", "put"} /\ connfd[Main] = c
InRing(c) == \E i \in 0 .. MAXNCLI - 1 : Occupied(i) /\ clifd[i] = c
Holding(t) == pc[t] \in {"unlock", "count", "serve", "close"}
InThread(t, c) == Holding(t) /\ connfd[t] = c

\* A connection is never in two hands: not served by two threads, not served
\* while it still waits in the ring, not in two slots (thread_main, the while
\* around pthread_cond_wait and ++iget; main, the overflow test).
OneOwner ==
  running =>
    /\ \A t, u \in Threads : t # u /\ Holding(t) /\ Holding(u) => connfd[t] # connfd[u]
    /\ \A t \in Threads : Holding(t) => connfd[t] # NoConn /\ ~InRing(connfd[t])
    /\ \A i, j \in 0 .. MAXNCLI - 1 : i # j /\ Occupied(i) /\ Occupied(j) => clifd[i] # clifd[j]
    /\ \A c \in Conns : InMain(c) => ~InRing(c) /\ \A t \in Threads : ~InThread(t, c)

\* An accepted connection that no thread has taken is still in main's hand or
\* in the ring: overwriting an unread slot would lose it (main, lines 242-248).
NoneLost ==
  running =>
    \A c \in accepted : InMain(c) \/ InRing(c) \/ \E k \in 1 .. Len(taken) : taken[k] = c

Distance(g, p) == IF g <= p THEN p - g ELSE p + MAXNCLI - g

Waiting == Distance(iget, iput)

Coming == {t \in Threads : pc[t] \in {"lock", "woken", "check", "take"}}

\* No lost wakeup: while some thread sleeps, each connection in the ring has a
\* thread of its own on the way to it, or main is about to signal one
\* (cond_signal under the mutex against cond_wait in a loop).
NoStrandedWork ==
  running /\ Sleeping # {} =>
    Waiting <= Cardinality(Coming) + (IF pc[Main] = "signal" THEN 1 ELSE 0)

\* The ring is a FIFO of MAXNCLI - 1 places: what waits is what lies between
\* the two indexes, oldest first.
SlotFrom(g, k) == IF g + k - 1 < MAXNCLI THEN g + k - 1 ELSE g + k - 1 - MAXNCLI

Ring == [k \in 1 .. Waiting |-> clifd[SlotFrom(iget, k)]]

Fifo == INSTANCE Handoff WITH
  Items <- Conns, Capacity <- MAXNCLI - 1,
  pending <- IF running THEN Ring ELSE <<>>, handed <- taken, open <- running

\* Every step of the server is a step of the FIFO or leaves it alone: threads
\* take connections in the order main accepted them, each once, and the ring
\* never holds more than MAXNCLI - 1.
ImplementsHandoff == Fifo!HSpec

\* A connection that waits in the ring is taken, unless the process ends or
\* every thread is busy with a client (pthread_cond_signal on every put).
WorkIsTaken ==
  \A c \in Conns :
    (running /\ InRing(c)) ~> (~running \/ ~InRing(c) \/ \A t \in Threads : pc[t] = "serve")
=============================================================================
