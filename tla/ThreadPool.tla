----------------------------- MODULE ThreadPool -----------------------------
(***************************************************************************)
(* highperformenceserver/examples/15/15-3threadpool.h with the sem and     *)
(* locker of 14/14-2locker.h: a list of requests guarded by a mutex, a     *)
(* semaphore that counts them, and detached worker threads.  append is     *)
(* called by any thread (15-6main.cpp calls it from its event loop);       *)
(* requests are pointers, so the same one may be appended many times.      *)
(*                                                                         *)
(* The result of sem.wait is ignored by run (line 98): sem_wait returns    *)
(* without a token when a signal handler interrupts it.                    *)
(***************************************************************************)
EXTENDS Integers, Sequences, FiniteSets

CONSTANTS
  Workers,       \* the m_thread_number threads
  Producers,     \* the threads that call append
  Requests,      \* the pointers that may be appended
  NULL,          \* the null pointer, which append does not refuse
  MAX_REQUESTS,  \* m_max_requests
  MaxAppends,    \* bound: calls of append
  MaxInterrupts  \* bound: returns of sem_wait with EINTR

Free == "free"

ASSUME PoolAssumption ==
  /\ IsFiniteSet(Workers) /\ IsFiniteSet(Producers)
  /\ Workers \intersect Producers = {}
  /\ Free \notin Workers \union Producers
  /\ MAX_REQUESTS \in Nat \ {0}
  /\ MaxAppends \in Nat
  /\ MaxInterrupts \in Nat

Procs == Workers \union Producers

VARIABLES
  m_workqueue,    \* the list of requests
  m_queuelocker,  \* who holds the mutex
  m_queuestat,    \* the value of the semaphore
  m_stop,         \* set by the destructor
  pc,
  request,        \* the local variable of append and of run
  appends,        \* bound: calls of append so far
  interrupts,     \* bound: interrupted waits so far
  taken           \* history: what the workers took, in order

vars == <<m_workqueue, m_queuelocker, m_queuestat, m_stop, pc, request, appends, interrupts, taken>>
counters == <<appends, interrupts>>

Init ==
  /\ m_workqueue = <<>>
  /\ m_queuelocker = Free
  /\ m_queuestat = 0
  /\ m_stop = FALSE
  /\ pc = [p \in Procs |-> IF p \in Workers THEN "loop" ELSE "idle"]
  /\ request = [p \in Procs |-> NULL]
  /\ appends = 0
  /\ interrupts = 0
  /\ taken = <<>>

\* A step of a thread that uses the pool; after the destructor there is
\* nothing left to use.
Goto(p, from, to) ==
  /\ ~m_stop
  /\ pc[p] = from
  /\ pc' = [pc EXCEPT ![p] = to]

Lock(p) == m_queuelocker = Free /\ m_queuelocker' = p
Unlock == m_queuelocker' = Free

-----------------------------------------------------------------------------
(* append *)

AppendCall(p, r) ==
  /\ appends < MaxAppends
  /\ appends' = appends + 1
  /\ Goto(p, "idle", "appendLock")
  /\ request' = [request EXCEPT ![p] = r]
  /\ UNCHANGED <<m_workqueue, m_queuelocker, m_queuestat, m_stop, interrupts, taken>>

AppendLock(p) ==
  /\ Lock(p)
  /\ Goto(p, "appendLock", "append")
  /\ UNCHANGED <<m_workqueue, m_queuestat, m_stop, request, counters, taken>>

\* Mutant of AppendPush: the size is not looked at.
AppendPushAlways(p) ==
  /\ Goto(p, "append", "appendUnlock")
  /\ m_workqueue' = Append(m_workqueue, request[p])
  /\ UNCHANGED <<m_queuelocker, m_queuestat, m_stop, request, counters, taken>>

AppendPush(p) ==
  /\ Len(m_workqueue) <= MAX_REQUESTS
  /\ Goto(p, "append", "appendUnlock")
  /\ m_workqueue' = Append(m_workqueue, request[p])
  /\ UNCHANGED <<m_queuelocker, m_queuestat, m_stop, request, counters, taken>>

AppendUnlock(p) ==
  /\ Unlock
  /\ Goto(p, "appendUnlock", "appendPost")
  /\ UNCHANGED <<m_workqueue, m_queuestat, m_stop, request, counters, taken>>

\* Mutant of AppendPost: no post while the semaphore is up.
AppendPostIfZero(p) ==
  /\ Goto(p, "appendPost", "idle")
  /\ m_queuestat' = IF m_queuestat = 0 THEN 1 ELSE m_queuestat
  /\ UNCHANGED <<m_workqueue, m_queuelocker, m_stop, request, counters, taken>>

AppendPost(p) ==
  /\ Goto(p, "appendPost", "idle")
  /\ m_queuestat' = m_queuestat + 1
  /\ UNCHANGED <<m_workqueue, m_queuelocker, m_stop, request, counters, taken>>

\* return false: nothing was queued and nothing is posted.
AppendRefuse(p) ==
  /\ Len(m_workqueue) > MAX_REQUESTS
  /\ Unlock
  /\ Goto(p, "append", "idle")
  /\ UNCHANGED <<m_workqueue, m_queuestat, m_stop, request, counters, taken>>

-----------------------------------------------------------------------------
(* run *)

SemWait(w) ==
  /\ m_queuestat > 0
  /\ m_queuestat' = m_queuestat - 1
  /\ Goto(w, "loop", "lock")
  /\ UNCHANGED <<m_workqueue, m_queuelocker, m_stop, request, counters, taken>>

SemInterrupted(w) ==
  /\ interrupts < MaxInterrupts
  /\ interrupts' = interrupts + 1
  /\ Goto(w, "loop", "lock")
  /\ UNCHANGED <<m_workqueue, m_queuelocker, m_queuestat, m_stop, request, appends, taken>>

WorkerLock(w) ==
  /\ Lock(w)
  /\ Goto(w, "lock", "test")
  /\ UNCHANGED <<m_workqueue, m_queuestat, m_stop, request, counters, taken>>

\* m_workqueue.empty(): unlock and go round again.
FoundEmpty(w) ==
  /\ m_workqueue = <<>>
  /\ Unlock
  /\ Goto(w, "test", "loop")
  /\ UNCHANGED <<m_workqueue, m_queuestat, m_stop, request, counters, taken>>

\* Mutant of Pop: the newest request first.
PopBack(w) ==
  /\ m_workqueue # <<>>
  /\ Goto(w, "test", "unlock")
  /\ request' = [request EXCEPT ![w] = m_workqueue[Len(m_workqueue)]]
  /\ taken' = Append(taken, m_workqueue[Len(m_workqueue)])
  /\ m_workqueue' = SubSeq(m_workqueue, 1, Len(m_workqueue) - 1)
  /\ UNCHANGED <<m_queuelocker, m_queuestat, m_stop, counters>>

Pop(w) ==
  /\ m_workqueue # <<>>
  /\ Goto(w, "test", "unlock")
  /\ request' = [request EXCEPT ![w] = Head(m_workqueue)]
  /\ taken' = Append(taken, Head(m_workqueue))
  /\ m_workqueue' = Tail(m_workqueue)
  /\ UNCHANGED <<m_queuelocker, m_queuestat, m_stop, counters>>

\* A null request is skipped, any other is processed outside the mutex.
WorkerUnlock(w) ==
  /\ Unlock
  /\ Goto(w, "unlock", IF request[w] = NULL THEN "loop" ELSE "process")
  /\ UNCHANGED <<m_workqueue, m_queuestat, m_stop, request, counters, taken>>

\* request->process() returns.
Processed(w) ==
  /\ Goto(w, "process", "loop")
  /\ UNCHANGED <<m_workqueue, m_queuelocker, m_queuestat, m_stop, request, counters, taken>>

-----------------------------------------------------------------------------
\* ~threadpool, called by the thread that appends, when it is not appending.
\* It does not post the semaphore: a worker in sem_wait never sees m_stop.
Destroy ==
  /\ ~m_stop
  /\ \A p \in Producers : pc[p] = "idle"
  /\ m_stop' = TRUE
  /\ UNCHANGED <<m_workqueue, m_queuelocker, m_queuestat, pc, request, counters, taken>>

AppendStep(p) ==
  AppendLock(p) \/ AppendPush(p) \/ AppendUnlock(p) \/ AppendPost(p) \/ AppendRefuse(p)

WorkerStep(w) ==
  SemWait(w) \/ WorkerLock(w) \/ FoundEmpty(w) \/ Pop(w) \/ WorkerUnlock(w)

Next ==
  \/ \E p \in Producers : AppendStep(p) \/ \E r \in Requests : AppendCall(p, r)
  \/ \E w \in Workers : WorkerStep(w) \/ SemInterrupted(w) \/ Processed(w)
  \/ Destroy

Spec == Init /\ [][Next]_vars

\* Threads that can run do; a request may be processed for ever.
FairSpec ==
  /\ Spec
  /\ \A p \in Producers : WF_vars(AppendStep(p))
  /\ \A w \in Workers : WF_vars(WorkerStep(w))

-----------------------------------------------------------------------------
(* Properties. *)

Pointers == Requests \union {NULL}

WorkerPcs == {"loop", "lock", "test", "unlock", "process"}
ProducerPcs == {"idle", "appendLock", "append", "appendUnlock", "appendPost"}

\* Every variable keeps its type; the semaphore is never negative.
TypeOK ==
  /\ m_workqueue \in Seq(Pointers)
  /\ m_queuelocker \in Procs \union {Free}
  /\ m_queuestat \in Nat
  /\ m_stop \in BOOLEAN
  /\ pc \in [Procs -> WorkerPcs \union ProducerPcs]
  /\ \A w \in Workers : pc[w] \in WorkerPcs
  /\ \A p \in Producers : pc[p] \in ProducerPcs
  /\ request \in [Procs -> Pointers]
  /\ appends \in Nat
  /\ interrupts \in Nat
  /\ taken \in Seq(Pointers)

Posting == {p \in Producers : pc[p] \in {"appendUnlock", "appendPost"}}
Coming == {w \in Workers : pc[w] \in {"lock", "test"}}

\* No request is stranded: each one in the list has a token in the semaphore,
\* a producer about to post, or a worker on its way to the list (append posts
\* after it unlocks; run ignores interrupted waits).
NoStrandedRequest ==
  Len(m_workqueue) <= m_queuestat + Cardinality(Posting) + Cardinality(Coming)

\* The list, with the mutex, is a FIFO; it takes one request more than
\* m_max_requests, because append compares with > (line 74).
Fifo == INSTANCE Handoff WITH
  Items <- Pointers, Capacity <- MAX_REQUESTS + 1,
  pending <- IF m_stop THEN <<>> ELSE m_workqueue, handed <- taken, open <- ~m_stop

\* Requests are taken in the order in which append queued them, each once for
\* each time it was queued, and the list never outgrows its bound.
ImplementsHandoff == Fifo!HSpec

\* A queued request is taken unless the pool is destroyed or every worker is
\* inside a request's process().
RequestIsTaken ==
  \A n \in 1 .. MaxAppends :
    (Len(taken) + Len(m_workqueue) >= n)
      ~> (Len(taken) >= n \/ m_stop \/ \A w \in Workers : pc[w] = "process")
=============================================================================
