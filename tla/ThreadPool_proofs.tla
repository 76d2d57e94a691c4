-------------------------- MODULE ThreadPool_proofs --------------------------
(***************************************************************************)
(* For every number of workers and producers and every bound of the list:  *)
(* ThreadPool keeps its types, strands no request, and implements Handoff. *)
(***************************************************************************)
EXTENDS ThreadPool, FiniteSetTheorems, SequenceTheorems, TLAPS

USE PoolAssumption DEF Procs, Pointers

LEMMA InitType == Init => TypeOK
<1> SUFFICES ASSUME Init PROVE TypeOK OBVIOUS
<1>1. \A p \in Producers : p \notin Workers OBVIOUS
<1>2. m_workqueue \in Seq(Pointers) /\ taken \in Seq(Pointers) BY DEF Init
<1> QED BY <1>1, <1>2 DEF Init, TypeOK, WorkerPcs, ProducerPcs

LEMMA AppendType ==
  ASSUME TypeOK, NEW p \in Producers,
         AppendStep(p) \/ \E r \in Requests : AppendCall(p, r)
  PROVE  TypeOK'
<1> USE DEF TypeOK, WorkerPcs, ProducerPcs, Goto, Lock, Unlock, counters
<1>1. ASSUME NEW r \in Requests, AppendCall(p, r) PROVE TypeOK' BY <1>1 DEF AppendCall
<1>2. CASE AppendLock(p) BY <1>2 DEF AppendLock
<1>3. CASE AppendPush(p)
  <2>1. m_workqueue' \in Seq(Pointers) BY <1>3 DEF AppendPush
  <2> QED BY <1>3, <2>1 DEF AppendPush
<1>4. CASE AppendUnlock(p) BY <1>4 DEF AppendUnlock
<1>5. CASE AppendPost(p) BY <1>5 DEF AppendPost
<1>6. CASE AppendRefuse(p) BY <1>6 DEF AppendRefuse
<1> QED BY <1>1, <1>2, <1>3, <1>4, <1>5, <1>6 DEF AppendStep

LEMMA WorkerType ==
  ASSUME TypeOK, NEW w \in Workers, WorkerStep(w) \/ SemInterrupted(w) \/ Processed(w)
  PROVE  TypeOK'
<1> USE DEF TypeOK, WorkerPcs, ProducerPcs, Goto, Lock, Unlock, counters
<1>1. CASE SemWait(w) BY <1>1 DEF SemWait
<1>2. CASE SemInterrupted(w) BY <1>2 DEF SemInterrupted
<1>3. CASE WorkerLock(w) BY <1>3 DEF WorkerLock
<1>4. CASE FoundEmpty(w) BY <1>4 DEF FoundEmpty
<1>5. CASE Pop(w)
  <2>1. Head(m_workqueue) \in Pointers /\ Tail(m_workqueue) \in Seq(Pointers)
    BY <1>5, HeadTailProperties DEF Pop
  <2>2. taken' \in Seq(Pointers) /\ m_workqueue' \in Seq(Pointers)
    BY <1>5, <2>1, AppendProperties DEF Pop
  <2> QED BY <1>5, <2>1, <2>2 DEF Pop
<1>6. CASE WorkerUnlock(w) BY <1>6 DEF WorkerUnlock
<1>7. CASE Processed(w) BY <1>7 DEF Processed
<1> QED BY <1>1, <1>2, <1>3, <1>4, <1>5, <1>6, <1>7 DEF WorkerStep

LEMMA NextType == TypeOK /\ [Next]_vars => TypeOK'
<1> SUFFICES ASSUME TypeOK, [Next]_vars PROVE TypeOK' OBVIOUS
<1>1. ASSUME NEW p \in Producers, AppendStep(p) \/ \E r \in Requests : AppendCall(p, r)
      PROVE  TypeOK'
  BY <1>1, AppendType
<1>3. ASSUME NEW w \in Workers, WorkerStep(w) \/ SemInterrupted(w) \/ Processed(w) PROVE TypeOK'
  BY <1>3, WorkerType
<1>4. CASE Destroy BY <1>4 DEF Destroy, TypeOK, counters
<1>5. CASE UNCHANGED vars BY <1>5 DEF vars, TypeOK
<1> QED BY <1>1, <1>3, <1>4, <1>5 DEF Next

\* Every variable keeps its type; sem_wait never takes a token that is not
\* there (14-2locker.h 22-29).
THEOREM TypeCorrect == Spec => []TypeOK
BY InitType, NextType, PTL DEF Spec
-----------------------------------------------------------------------------
(* The list implements the FIFO of Handoff. *)

LEMMA FifoInit == Init => Fifo!HInit
BY DEF Init, Fifo!HInit

LEMMA FifoStep == TypeOK /\ [Next]_vars => [Fifo!HNext]_(Fifo!hvars)
<1> SUFFICES ASSUME TypeOK, [Next]_vars PROVE [Fifo!HNext]_(Fifo!hvars) OBVIOUS
<1> USE DEF Goto, counters
<1>1. ASSUME NEW p \in Producers, NEW r \in Requests, AppendCall(p, r)
      PROVE  UNCHANGED Fifo!hvars
  BY <1>1 DEF AppendCall, Fifo!hvars
<1>2. ASSUME NEW p \in Producers, AppendStep(p), ~AppendPush(p) PROVE UNCHANGED Fifo!hvars
  BY <1>2 DEF AppendStep, AppendLock, AppendUnlock, AppendPost, AppendRefuse, Fifo!hvars
<1>3. ASSUME NEW p \in Producers, AppendPush(p) PROVE Fifo!HNext
  <2>1. request[p] \in Pointers BY <1>3 DEF TypeOK
  <2>2. Len(m_workqueue) < MAX_REQUESTS + 1 BY <1>3 DEF AppendPush, TypeOK
  <2>3. Fifo!Offer(request[p]) BY <1>3, <2>2 DEF AppendPush, Fifo!Offer, TypeOK
  <2> QED BY <2>1, <2>3 DEF Fifo!HNext
<1>4. ASSUME NEW w \in Workers, WorkerStep(w) \/ SemInterrupted(w) \/ Processed(w), ~Pop(w)
      PROVE  UNCHANGED Fifo!hvars
  BY <1>4
  DEF WorkerStep, SemWait, SemInterrupted, WorkerLock, FoundEmpty, WorkerUnlock, Processed,
      Fifo!hvars
<1>5. ASSUME NEW w \in Workers, Pop(w) PROVE Fifo!HNext
  BY <1>5 DEF Pop, Fifo!TakeOldest, Fifo!HNext, TypeOK
<1>6. CASE Destroy BY <1>6 DEF Destroy, Fifo!Stop, Fifo!HNext, TypeOK
<1>7. CASE UNCHANGED vars BY <1>7 DEF vars, Fifo!hvars
<1> QED BY <1>1, <1>2, <1>3, <1>4, <1>5, <1>6, <1>7 DEF Next

\* Requests are taken in the order append queued them, and at most
\* m_max_requests + 1 wait (15-3threadpool.h 71-83, 94-113).
THEOREM Refinement == Spec => ImplementsHandoff
BY FifoInit, FifoStep, TypeCorrect, PTL DEF Spec, ImplementsHandoff, Fifo!HSpec

-----------------------------------------------------------------------------
(* No request is stranded. *)

LEMMA Finite ==
  /\ IsFiniteSet(Posting) /\ Cardinality(Posting) \in Nat
  /\ IsFiniteSet(Coming) /\ Cardinality(Coming) \in Nat
<1>1. Posting \subseteq Producers /\ Coming \subseteq Workers BY DEF Posting, Coming
<1> QED BY <1>1, FS_Subset, FS_CardinalityType

\* One element joins a set, or leaves it.
LEMMA Joins ==
  ASSUME NEW S, IsFiniteSet(S), NEW x, x \notin S
  PROVE  Cardinality(S \union {x}) = Cardinality(S) + 1
BY FS_AddElement

LEMMA Leaves ==
  ASSUME NEW S, IsFiniteSet(S), NEW x \in S
  PROVE  Cardinality(S \ {x}) = Cardinality(S) - 1
BY FS_RemoveElement

LEMMA StrandedStep == TypeOK /\ NoStrandedRequest /\ [Next]_vars => NoStrandedRequest'
<1> SUFFICES ASSUME TypeOK, NoStrandedRequest, [Next]_vars PROVE NoStrandedRequest'
  OBVIOUS
<1> USE Finite DEF Goto, counters, NoStrandedRequest
<1>q. Len(m_workqueue) \in Nat /\ m_queuestat \in Nat BY DEF TypeOK
<1>same. ASSUME Posting' = Posting, Coming' = Coming, UNCHANGED <<m_workqueue, m_queuestat>>
         PROVE  NoStrandedRequest'
  BY <1>same
<1>1. ASSUME NEW p \in Producers, NEW r \in Requests, AppendCall(p, r) PROVE NoStrandedRequest'
  BY <1>1, <1>same DEF AppendCall, TypeOK, Posting, Coming
<1>2. ASSUME NEW p \in Producers, AppendLock(p) \/ AppendUnlock(p) \/ AppendRefuse(p)
      PROVE  NoStrandedRequest'
  BY <1>2, <1>same DEF AppendLock, AppendUnlock, AppendRefuse, TypeOK, Posting, Coming
<1>3. ASSUME NEW p \in Producers, AppendPush(p) PROVE NoStrandedRequest'
  <2>1. p \notin Posting /\ Posting' = Posting \union {p} /\ Coming' = Coming
    BY <1>3 DEF AppendPush, TypeOK, Posting, Coming
  <2>2. Cardinality(Posting') = Cardinality(Posting) + 1 BY <2>1, Joins
  <2>3. Len(m_workqueue') = Len(m_workqueue) + 1 /\ m_queuestat' = m_queuestat
    BY <1>3 DEF AppendPush, TypeOK
  <2> QED BY <2>1, <2>2, <2>3, <1>q
<1>4. ASSUME NEW p \in Producers, AppendPost(p) PROVE NoStrandedRequest'
  <2>1. p \in Posting /\ Posting' = Posting \ {p} /\ Coming' = Coming
    BY <1>4 DEF AppendPost, TypeOK, Posting, Coming
  <2>2. Cardinality(Posting') = Cardinality(Posting) - 1 BY <2>1, Leaves
  <2> QED BY <1>4, <2>1, <2>2, <1>q DEF AppendPost
<1>5. ASSUME NEW w \in Workers, SemWait(w) \/ SemInterrupted(w) PROVE NoStrandedRequest'
  <2>1. w \notin Coming /\ Coming' = Coming \union {w} /\ Posting' = Posting
    BY <1>5 DEF SemWait, SemInterrupted, TypeOK, Posting, Coming
  <2>2. Cardinality(Coming') = Cardinality(Coming) + 1 BY <2>1, Joins
  <2>3. m_queuestat' >= m_queuestat - 1 /\ m_workqueue' = m_workqueue /\ m_queuestat' \in Int
    BY <1>5, <1>q DEF SemWait, SemInterrupted
  <2> QED BY <2>1, <2>2, <2>3, <1>q
<1>6. ASSUME NEW w \in Workers, WorkerLock(w) \/ WorkerUnlock(w) \/ Processed(w)
      PROVE  NoStrandedRequest'
  BY <1>6, <1>same DEF WorkerLock, WorkerUnlock, Processed, TypeOK, Posting, Coming
<1>7. ASSUME NEW w \in Workers, FoundEmpty(w) PROVE NoStrandedRequest'
  <2>1. Len(m_workqueue') = 0 /\ m_queuestat' = m_queuestat /\ Posting' = Posting
    BY <1>7 DEF FoundEmpty, TypeOK, Posting
  <2>2. Coming' \subseteq Workers BY DEF Coming
  <2>3. Cardinality(Coming') \in Nat BY <2>2, FS_Subset, FS_CardinalityType
  <2> QED BY <2>1, <2>3, <1>q
<1>8. ASSUME NEW w \in Workers, Pop(w) PROVE NoStrandedRequest'
  <2>1. w \in Coming /\ Coming' = Coming \ {w} /\ Posting' = Posting
    BY <1>8 DEF Pop, TypeOK, Posting, Coming
  <2>2. Cardinality(Coming') = Cardinality(Coming) - 1 BY <2>1, Leaves
  <2>3. Len(m_workqueue') = Len(m_workqueue) - 1 /\ m_queuestat' = m_queuestat
    BY <1>8, HeadTailProperties DEF Pop, TypeOK
  <2> QED BY <2>1, <2>2, <2>3, <1>q
<1>9. CASE Destroy BY <1>9, <1>same DEF Destroy, Posting, Coming
<1>10. CASE UNCHANGED vars BY <1>10, <1>same DEF vars, Posting, Coming
<1> QED BY <1>1, <1>2, <1>3, <1>4, <1>5, <1>6, <1>7, <1>8, <1>9, <1>10
        DEF Next, AppendStep, WorkerStep

\* Each queued request has a token, a poster or a worker coming: for any
\* number of threads no wakeup is lost (15-3threadpool.h 79-81, 98-104).
THEOREM NoStrandedRequestHolds == Spec => []NoStrandedRequest
<1>1. Init => NoStrandedRequest
  <2> SUFFICES ASSUME Init PROVE NoStrandedRequest OBVIOUS
  <2>1. Len(m_workqueue) = 0 /\ m_queuestat = 0 BY DEF Init
  <2> QED BY <2>1, Finite DEF NoStrandedRequest
<1> QED BY <1>1, StrandedStep, TypeCorrect, PTL DEF Spec
=============================================================================
