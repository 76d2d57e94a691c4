----------------------------- MODULE Unp_proofs -----------------------------
(***************************************************************************)
(* serv08 for every number of threads, every size of the ring and every    *)
(* set of connections: its types, mutual exclusion, that no connection is  *)
(* in two hands or lost, and that it implements Handoff.  The servers with *)
(* a process or a thread for each connection, and the clients that echo,   *)
(* for any clients and any sizes of the buffers: they keep nothing and     *)
(* drop nothing.                                                           *)
(***************************************************************************)
EXTENDS MCUnp, SequenceTheorems, FiniteSetTheorems, TLAPS

\* The critical sections of clifd_mutex.
InCS(p) == pc[p] \in {"put", "signal", "unlock", "check", "take"}

MutexInv == \A p \in Procs : InCS(p) <=> owner = p

\* A thread that is about to take found the ring not empty, and still does:
\* nobody else has had the mutex since.
TakeInv == \A t \in Threads : pc[t] = "take" => iget # iput

USE DEF Main, Free, Procs

LEMMA AdvanceType ==
  ASSUME NEW i \in 0 .. MAXNCLI - 1
  PROVE  Advance(i) \in 0 .. MAXNCLI - 1
BY MAXNCLIAssumption DEF Advance

-----------------------------------------------------------------------------
LEMMA InitType == Init => TypeOK
BY MAXNCLIAssumption, ThreadsAssumption DEF Init, TypeOK, MainPcs, ThreadPcs

LEMMA MainType == TypeOK /\ MainStep => TypeOK'
<1> SUFFICES ASSUME TypeOK, MainStep PROVE TypeOK' OBVIOUS
<1> USE ThreadsAssumption, MAXNCLIAssumption DEF TypeOK, MainPcs, ThreadPcs, Goto, ring
<1>1. CASE MadeAll BY <1>1 DEF MadeAll
<1>2. CASE MainLock BY <1>2 DEF MainLock
<1>3. CASE Put BY <1>3, AdvanceType DEF Put
<1>4. CASE Signal
  <2>1. CASE Sleeping = {} BY <1>4, <2>1 DEF Signal
  <2>2. CASE Sleeping # {}
    <3>1. PICK t \in Sleeping : pc' = [pc EXCEPT ![Main] = "unlock", ![t] = "woken"]
      BY <1>4, <2>2 DEF Signal
    <3> QED BY <1>4, <3>1 DEF Signal, Sleeping
  <2> QED BY <2>1, <2>2
<1>5. CASE MainUnlock BY <1>5 DEF MainUnlock
<1>6. ASSUME NEW t \in Threads, ThreadMake(t) PROVE TypeOK' BY <1>6 DEF ThreadMake
<1> QED BY <1>1, <1>2, <1>3, <1>4, <1>5, <1>6 DEF MainStep

LEMMA ThreadType == ASSUME NEW t \in Threads PROVE TypeOK /\ ThreadStep(t) => TypeOK'
<1> SUFFICES ASSUME TypeOK, ThreadStep(t) PROVE TypeOK' OBVIOUS
<1> USE ThreadsAssumption, MAXNCLIAssumption DEF TypeOK, MainPcs, ThreadPcs, Goto, ring
<1>1. CASE ThreadLock(t) BY <1>1 DEF ThreadLock
<1>2. CASE Check(t) BY <1>2 DEF Check
<1>3. CASE Relock(t) BY <1>3 DEF Relock
<1>4. CASE Take(t)
  <2>1. taken' \in Seq(Conns \union {NoConn}) BY <1>4 DEF Take
  <2>2. iget' \in 0 .. MAXNCLI - 1 BY <1>4, AdvanceType DEF Take
  <2> QED BY <1>4, <2>1, <2>2 DEF Take
<1>5. CASE ThreadUnlock(t) BY <1>5 DEF ThreadUnlock
<1>6. CASE Count(t) BY <1>6 DEF Count
<1>7. CASE Close(t) BY <1>7 DEF Close
<1> QED BY <1>1, <1>2, <1>3, <1>4, <1>5, <1>6, <1>7 DEF ThreadStep

LEMMA EnvironmentType == TypeOK /\ Environment => TypeOK'
<1> SUFFICES ASSUME TypeOK, Environment PROVE TypeOK' OBVIOUS
<1> USE ThreadsAssumption DEF TypeOK, MainPcs, ThreadPcs, Goto, ring
<1>1. ASSUME NEW c \in Conns, Accept(c) PROVE TypeOK' BY <1>1 DEF Accept
<1>2. ASSUME NEW t \in Threads, SpuriousWakeup(t) \/ ServeUntilEOF(t) \/ BadRequest(t)
      PROVE TypeOK'
  BY <1>2 DEF SpuriousWakeup, ServeUntilEOF, BadRequest
<1>3. CASE SigInt BY <1>3 DEF SigInt
<1> QED BY <1>1, <1>2, <1>3 DEF Environment

\* Every variable keeps its type: in particular both indexes stay inside
\* clifd (++i with the wrap, serv08.c 196 and 243).
THEOREM TypeCorrect == Spec => []TypeOK
<1>1. TypeOK /\ [Next]_vars => TypeOK'
  <2> SUFFICES ASSUME TypeOK, [Next]_vars PROVE TypeOK' OBVIOUS
  <2>1. CASE UNCHANGED vars BY <2>1 DEF vars, TypeOK
  <2>2. CASE Next BY <2>2, MainType, ThreadType, EnvironmentType DEF Next
  <2> QED BY <2>1, <2>2
<1> QED BY InitType, <1>1, PTL DEF Spec

-----------------------------------------------------------------------------
(* Mutual exclusion. *)

LEMMA MutexInit == Init => MutexInv /\ TakeInv
BY ThreadsAssumption DEF Init, MutexInv, TakeInv, InCS

LEMMA MutexStep == TypeOK /\ MutexInv /\ TakeInv /\ [Next]_vars => MutexInv' /\ TakeInv'
<1> SUFFICES ASSUME TypeOK, MutexInv, TakeInv, [Next]_vars PROVE MutexInv' /\ TakeInv'
  OBVIOUS
<1> USE ThreadsAssumption DEF TypeOK, MainPcs, ThreadPcs, MutexInv, InCS, TakeInv, Goto, ring
<1>1. ASSUME NEW t \in Threads, ThreadMake(t) PROVE MutexInv' /\ TakeInv'
  BY <1>1 DEF ThreadMake
<1>2. CASE MadeAll BY <1>2 DEF MadeAll
<1>3. CASE MainLock BY <1>3 DEF MainLock
<1>4. CASE Put
  <2>1. owner = Main BY <1>4 DEF Put
  <2>2. \A t \in Threads : pc[t] # "take" BY <2>1
  <2> QED BY <1>4, <2>1, <2>2 DEF Put
<1>5. CASE Signal
  <2>1. CASE Sleeping = {} BY <1>5, <2>1 DEF Signal
  <2>2. CASE Sleeping # {}
    <3>1. PICK t \in Sleeping : pc' = [pc EXCEPT ![Main] = "unlock", ![t] = "woken"]
      BY <1>5, <2>2 DEF Signal
    <3> QED BY <1>5, <3>1 DEF Signal, Sleeping
  <2> QED BY <2>1, <2>2
<1>6. CASE MainUnlock BY <1>6 DEF MainUnlock
<1>7. ASSUME NEW t \in Threads, ThreadLock(t) PROVE MutexInv' /\ TakeInv'
  BY <1>7 DEF ThreadLock
<1>8. ASSUME NEW t \in Threads, Check(t) PROVE MutexInv' /\ TakeInv'
  BY <1>8 DEF Check
<1>9. ASSUME NEW t \in Threads, Relock(t) PROVE MutexInv' /\ TakeInv'
  BY <1>9 DEF Relock
<1>10. ASSUME NEW t \in Threads, Take(t) PROVE MutexInv' /\ TakeInv'
  <2>1. owner = t BY <1>10 DEF Take
  <2>2. \A u \in Threads : u # t => pc[u] # "take" BY <2>1
  <2> QED BY <1>10, <2>1, <2>2 DEF Take
<1>11. ASSUME NEW t \in Threads, ThreadUnlock(t) PROVE MutexInv' /\ TakeInv'
  BY <1>11 DEF ThreadUnlock
<1>12. ASSUME NEW t \in Threads, Count(t) \/ Close(t) PROVE MutexInv' /\ TakeInv'
  BY <1>12 DEF Count, Close
<1>13. ASSUME NEW c \in Conns, Accept(c) PROVE MutexInv' /\ TakeInv'
  BY <1>13 DEF Accept
<1>14. ASSUME NEW t \in Threads, SpuriousWakeup(t) \/ ServeUntilEOF(t) \/ BadRequest(t)
       PROVE MutexInv' /\ TakeInv'
  BY <1>14 DEF SpuriousWakeup, ServeUntilEOF, BadRequest
<1>15. CASE SigInt BY <1>15 DEF SigInt
<1>16. CASE UNCHANGED vars BY <1>16 DEF vars
<1> QED
  BY <1>1, <1>2, <1>3, <1>4, <1>5, <1>6, <1>7, <1>8, <1>9, <1>10, <1>11, <1>12, <1>13,
     <1>14, <1>15, <1>16
  DEF Next, MainStep, ThreadStep, Environment
-----------------------------------------------------------------------------
(* The ring as an interval of slots. *)

Slots == 0 .. MAXNCLI - 1

\* The slot main writes is never one that waits to be read.
LEMMA BetweenPut ==
  ASSUME NEW g \in Slots, NEW p \in Slots, Advance(p) # g, NEW i \in Slots
  PROVE  /\ ~Between(g, p, p)
         /\ Between(g, Advance(p), i) <=> Between(g, p, i) \/ i = p
BY MAXNCLIAssumption DEF Slots, Between, Advance

\* Taking removes exactly the slot at iget.
LEMMA BetweenTake ==
  ASSUME NEW g \in Slots, NEW p \in Slots, g # p, NEW i \in Slots
  PROVE  /\ Between(g, p, g)
         /\ Between(Advance(g), p, i) <=> Between(g, p, i) /\ i # g
BY MAXNCLIAssumption DEF Slots, Between, Advance

\* Each accepted connection that the process still holds is in one place.
RingInv ==
  /\ \A i \in Slots : Occupied(i) => clifd[i] \in accepted
  /\ \A i, j \in Slots : i # j /\ Occupied(i) /\ Occupied(j) => clifd[i] # clifd[j]

HandInv ==
  /\ \A t \in Threads : Holding(t) => connfd[t] \in accepted
  /\ \A t, u \in Threads : t # u /\ Holding(t) /\ Holding(u) => connfd[t] # connfd[u]
  /\ \A t \in Threads : Holding(t) => \A i \in Slots : Occupied(i) => clifd[i] # connfd[t]

MainInv ==
  pc[Main] \in {"lock", "put"} =>
    /\ connfd[Main] \in accepted
    /\ \A i \in Slots : Occupied(i) => clifd[i] # connfd[Main]
    /\ \A t \in Threads : Holding(t) => connfd[t] # connfd[Main]

OwnInv == running => RingInv /\ HandInv /\ MainInv

Inv == TypeOK /\ MutexInv /\ TakeInv /\ OwnInv

\* What OwnInv says depends on these alone.
OwnDepends == <<clifd, iget, iput, connfd, accepted>>

LEMMA OwnFrame ==
  ASSUME TypeOK, OwnInv, running' => running, UNCHANGED OwnDepends,
         \A t \in Threads : Holding(t)' => Holding(t),
         pc'[Main] \in {"lock", "put"} => pc[Main] \in {"lock", "put"}
  PROVE  OwnInv'
BY DEF OwnInv, RingInv, HandInv, MainInv, OwnDepends, Occupied, Between

LEMMA OwnInit == Init => OwnInv
BY ThreadsAssumption, MAXNCLIAssumption
DEF Init, OwnInv, RingInv, HandInv, MainInv, Occupied, Between, Holding, Slots

LEMMA OwnAccept == ASSUME NEW c \in Conns, Inv, Accept(c) PROVE OwnInv'
BY ThreadsAssumption
DEF Inv, TypeOK, Accept, Goto, ring, OwnInv, RingInv, HandInv, MainInv, Occupied, Between, Holding

LEMMA OwnPut == ASSUME Inv, Put PROVE OwnInv'
<1> SUFFICES ASSUME running' PROVE RingInv' /\ HandInv' /\ MainInv' BY DEF OwnInv
<1> USE ThreadsAssumption DEF Put, Goto, ring
<1>1. iget \in Slots /\ iput \in Slots /\ Advance(iput) # iget /\ running
  BY DEF Inv, TypeOK, Slots
<1>2. RingInv /\ HandInv /\ MainInv BY <1>1 DEF Inv, OwnInv
<1>3. \A i \in Slots : Occupied(i)' <=> Occupied(i) \/ i = iput
  BY <1>1, BetweenPut DEF Occupied
<1>4. ~Occupied(iput) BY <1>1, BetweenPut DEF Occupied
<1>5. \A i \in Slots : clifd'[i] = IF i = iput THEN connfd[Main] ELSE clifd[i]
  BY DEF Inv, TypeOK, Slots
<1>6. pc[Main] = "put" /\ pc'[Main] = "signal" BY DEF Inv, TypeOK
<1>7. \A t \in Threads : Holding(t)' <=> Holding(t) BY DEF Inv, TypeOK, Holding
<1>8. connfd[Main] \in accepted
      /\ (\A i \in Slots : Occupied(i) => clifd[i] # connfd[Main])
      /\ (\A t \in Threads : Holding(t) => connfd[t] # connfd[Main])
  BY <1>2, <1>6 DEF MainInv
<1>9. RingInv' BY <1>1, <1>2, <1>3, <1>4, <1>5, <1>8 DEF RingInv
<1>10. HandInv' BY <1>1, <1>2, <1>3, <1>4, <1>5, <1>7, <1>8 DEF HandInv
<1>11. MainInv' BY <1>6 DEF MainInv
<1> QED BY <1>9, <1>10, <1>11

LEMMA OwnTake == ASSUME NEW t \in Threads, Inv, Take(t) PROVE OwnInv'
<1> USE ThreadsAssumption DEF Take, Goto, ring
<1>1. iget \in Slots /\ iput \in Slots /\ iget # iput /\ running /\ pc[t] = "take"
  BY DEF Inv, TypeOK, TakeInv, Slots
<1>2. RingInv /\ HandInv /\ MainInv BY <1>1 DEF Inv, OwnInv
<1>3. \A i \in Slots : Occupied(i)' <=> Occupied(i) /\ i # iget
  BY <1>1, BetweenTake DEF Occupied
<1>4. Occupied(iget) BY <1>1, BetweenTake DEF Occupied
<1>5. ~Holding(t) BY <1>1 DEF Holding
<1>6. pc'[Main] = pc[Main] /\ connfd'[Main] = connfd[Main] BY DEF Inv, TypeOK
<1>7. \A u \in Threads : u # t => (Holding(u)' <=> Holding(u)) /\ connfd'[u] = connfd[u]
  BY DEF Inv, TypeOK, Holding
<1>8. connfd'[t] = clifd[iget] BY DEF Inv, TypeOK
<1>9. RingInv' BY <1>1, <1>2, <1>3 DEF RingInv
<1>10. HandInv'
  <2>1. \A u \in Threads : Holding(u)' => connfd'[u] \in accepted'
    BY <1>1, <1>2, <1>4, <1>7, <1>8 DEF HandInv, RingInv
  <2>2. \A u, v \in Threads : u # v /\ Holding(u)' /\ Holding(v)' => connfd'[u] # connfd'[v]
    BY <1>1, <1>2, <1>4, <1>7, <1>8 DEF HandInv
  <2>3. \A u \in Threads : Holding(u)' =>
          \A i \in Slots : Occupied(i)' => clifd'[i] # connfd'[u]
    BY <1>1, <1>2, <1>3, <1>4, <1>7, <1>8 DEF HandInv, RingInv
  <2> QED BY <2>1, <2>2, <2>3 DEF HandInv
<1>11. MainInv'
  <2> SUFFICES ASSUME pc'[Main] \in {"lock", "put"}
               PROVE  /\ connfd'[Main] \in accepted'
                      /\ \A i \in Slots : Occupied(i)' => clifd'[i] # connfd'[Main]
                      /\ \A u \in Threads : Holding(u)' => connfd'[u] # connfd'[Main]
    BY DEF MainInv
  <2> QED BY <1>1, <1>2, <1>3, <1>4, <1>6, <1>7, <1>8 DEF MainInv
<1> QED BY <1>9, <1>10, <1>11 DEF OwnInv

LEMMA OwnStep == Inv /\ [Next]_vars => OwnInv'
<1> SUFFICES ASSUME Inv, [Next]_vars PROVE OwnInv' OBVIOUS
<1>t. TypeOK /\ OwnInv BY DEF Inv
<1> USE ThreadsAssumption, <1>t, OwnFrame
    DEF Holding, Goto, ring, OwnDepends, MainPcs, ThreadPcs
<1>1. ASSUME NEW t \in Threads, ThreadMake(t) PROVE OwnInv' BY <1>1 DEF ThreadMake, TypeOK
<1>2. CASE MadeAll BY <1>2 DEF MadeAll, TypeOK
<1>3. CASE MainLock BY <1>3 DEF MainLock, TypeOK
<1>4. CASE Put BY <1>4, OwnPut
<1>5. CASE Signal
  <2>1. CASE Sleeping = {} BY <1>5, <2>1 DEF Signal, TypeOK
  <2>2. CASE Sleeping # {}
    <3>1. PICK t \in Sleeping : pc' = [pc EXCEPT ![Main] = "unlock", ![t] = "woken"]
      BY <1>5, <2>2 DEF Signal
    <3> QED BY <1>5, <3>1 DEF Signal, Sleeping, TypeOK
  <2> QED BY <2>1, <2>2
<1>6. CASE MainUnlock BY <1>6 DEF MainUnlock, TypeOK
<1>7. ASSUME NEW t \in Threads, ThreadLock(t) PROVE OwnInv' BY <1>7 DEF ThreadLock, TypeOK
<1>8. ASSUME NEW t \in Threads, Check(t) PROVE OwnInv' BY <1>8 DEF Check, TypeOK
<1>9. ASSUME NEW t \in Threads, Relock(t) PROVE OwnInv' BY <1>9 DEF Relock, TypeOK
<1>10. ASSUME NEW t \in Threads, Take(t) PROVE OwnInv' BY <1>10, OwnTake
<1>11. ASSUME NEW t \in Threads, ThreadUnlock(t) PROVE OwnInv'
  BY <1>11 DEF ThreadUnlock, TypeOK
<1>12. ASSUME NEW t \in Threads, Count(t) PROVE OwnInv' BY <1>12 DEF Count, TypeOK
<1>13. ASSUME NEW t \in Threads, Close(t) PROVE OwnInv'
  BY <1>13
  DEF Close, TypeOK, OwnInv, RingInv, HandInv, MainInv, Occupied, Between
<1>14. ASSUME NEW c \in Conns, Accept(c) PROVE OwnInv' BY <1>14, OwnAccept
<1>15. ASSUME NEW t \in Threads, SpuriousWakeup(t) \/ ServeUntilEOF(t) \/ BadRequest(t)
       PROVE OwnInv'
  BY <1>15 DEF SpuriousWakeup, ServeUntilEOF, BadRequest, TypeOK
<1>16. CASE SigInt BY <1>16 DEF SigInt, TypeOK
<1>17. CASE UNCHANGED vars BY <1>17 DEF vars, TypeOK
<1> QED
  BY <1>1, <1>2, <1>3, <1>4, <1>5, <1>6, <1>7, <1>8, <1>9, <1>10, <1>11, <1>12, <1>13,
     <1>14, <1>15, <1>16, <1>17
  DEF Next, MainStep, ThreadStep, Environment

LEMMA InvHolds == Spec => []Inv
<1>1. Init => Inv BY InitType, MutexInit, OwnInit DEF Inv
<1>2. Inv /\ TypeOK' /\ [Next]_vars => Inv' BY MutexStep, OwnStep DEF Inv
<1> QED BY <1>1, <1>2, TypeCorrect, PTL DEF Spec

\* No connection is in two hands: for any number of threads and slots, none
\* is served twice, and none is served while it waits (serv08.c 192-198 and
\* 241-250 under clifd_mutex).
THEOREM OneOwnerHolds == Spec => []OneOwner
<1>1. Inv => OneOwner
  <2> SUFFICES ASSUME Inv, running PROVE OneOwner BY DEF OneOwner
  <2> USE ConnsAssumption DEF Inv, OwnInv, RingInv, HandInv, MainInv, TypeOK, InRing, Slots
  <2> QED BY DEF OneOwner, InMain, InThread
<1> QED BY <1>1, InvHolds, PTL
-----------------------------------------------------------------------------
(* Nothing is lost. *)

LEMMA NoneLostInit == Init => NoneLost
BY DEF Init, NoneLost

Taken(c) == \E k \in 1 .. Len(taken) : taken[k] = c

LEMMA NoneLostStep == Inv /\ NoneLost /\ [Next]_vars => NoneLost'
<1> SUFFICES ASSUME Inv, NoneLost, [Next]_vars, running', NEW c \in accepted'
             PROVE  InMain(c)' \/ InRing(c)' \/ Taken(c)'
  BY DEF NoneLost, Taken
<1>r. running
  BY DEF Next, MainStep, ThreadStep, Environment, Goto, ThreadMake, MadeAll, MainLock, Put,
         Signal, MainUnlock, ThreadLock, Check, Relock, Take, ThreadUnlock, Count, Close,
         Accept, SpuriousWakeup, ServeUntilEOF, BadRequest, SigInt, vars
<1>t. TypeOK BY DEF Inv
<1>old. c \in accepted => InMain(c) \/ InRing(c) \/ Taken(c)
  BY <1>r DEF NoneLost, Taken
<1>same. ASSUME UNCHANGED OwnDepends, UNCHANGED taken,
                pc[Main] \in {"lock", "put"} => pc'[Main] \in {"lock", "put"}
         PROVE  InMain(c)' \/ InRing(c)' \/ Taken(c)'
  BY <1>same, <1>old DEF OwnDepends, InMain, InRing, Taken, Occupied, Between
<1> USE ThreadsAssumption, <1>t, <1>old DEF Goto, ring, MainPcs, ThreadPcs
<1>1. CASE MainStep /\ ~Put
  BY <1>1, <1>same
  DEF MainStep, ThreadMake, MadeAll, MainLock, Signal, MainUnlock, TypeOK, OwnDepends
<1>2. CASE Put
  <2> USE <1>2 DEF Put
  <2>1. iget \in Slots /\ iput \in Slots /\ Advance(iput) # iget
    BY DEF TypeOK, Slots
  <2>2. \A i \in Slots : Occupied(i)' <=> Occupied(i) \/ i = iput
    BY <2>1, BetweenPut DEF Occupied
  <2>3. ~Occupied(iput) BY <2>1, BetweenPut DEF Occupied
  <2>4. \A i \in Slots : clifd'[i] = IF i = iput THEN connfd[Main] ELSE clifd[i]
    BY DEF TypeOK, Slots
  <2>5. CASE InMain(c) BY <2>1, <2>2, <2>4, <2>5 DEF InMain, InRing, Slots
  <2>6. CASE InRing(c) BY <2>1, <2>2, <2>3, <2>4, <2>6 DEF InRing, Slots
  <2>7. CASE Taken(c) BY <2>7 DEF Taken
  <2> QED BY <2>5, <2>6, <2>7
<1>3. ASSUME NEW t \in Threads, ThreadStep(t), ~Take(t), ~Close(t)
      PROVE  InMain(c)' \/ InRing(c)' \/ Taken(c)'
  BY <1>3, <1>same
  DEF ThreadStep, ThreadLock, Check, Relock, ThreadUnlock, Count, TypeOK, OwnDepends
<1>4. ASSUME NEW t \in Threads, Take(t) PROVE InMain(c)' \/ InRing(c)' \/ Taken(c)'
  <2> USE <1>4 DEF Take
  <2>1. iget \in Slots /\ iput \in Slots /\ iget # iput
    BY DEF Inv, TypeOK, TakeInv, Slots
  <2>2. \A i \in Slots : Occupied(i)' <=> Occupied(i) /\ i # iget
    BY <2>1, BetweenTake DEF Occupied
  <2>3. /\ Len(taken') = Len(taken) + 1
        /\ taken'[Len(taken) + 1] = clifd[iget]
        /\ \A k \in 1 .. Len(taken) : taken'[k] = taken[k]
        /\ Len(taken) \in Nat
    BY <2>1 DEF TypeOK, Slots
  <2>4. CASE InMain(c) BY <2>4 DEF InMain, TypeOK
  <2>5. CASE InRing(c)
    <3>1. PICK i \in Slots : Occupied(i) /\ clifd[i] = c BY <2>5 DEF InRing, Slots
    <3>2. CASE i = iget BY <2>3, <3>1, <3>2 DEF Taken
    <3>3. CASE i # iget BY <2>2, <3>1, <3>3 DEF InRing, Slots
    <3> QED BY <3>2, <3>3
  <2>6. CASE Taken(c) BY <2>3, <2>6 DEF Taken
  <2> QED BY <2>4, <2>5, <2>6
<1>5. ASSUME NEW t \in Threads, Close(t) PROVE InMain(c)' \/ InRing(c)' \/ Taken(c)'
  BY <1>5 DEF Close, TypeOK, InMain, InRing, Taken, Occupied, Between
<1>6. ASSUME NEW d \in Conns, Accept(d) PROVE InMain(c)' \/ InRing(c)' \/ Taken(c)'
  <2>1. CASE c = d BY <1>6, <2>1 DEF Accept, TypeOK, InMain
  <2>2. CASE c # d
    BY <1>6, <2>2 DEF Accept, TypeOK, InMain, InRing, Taken, Occupied, Between
  <2> QED BY <2>1, <2>2
<1>7. ASSUME NEW t \in Threads, SpuriousWakeup(t) \/ ServeUntilEOF(t) \/ BadRequest(t)
      PROVE  InMain(c)' \/ InRing(c)' \/ Taken(c)'
  BY <1>7, <1>same DEF SpuriousWakeup, ServeUntilEOF, BadRequest, TypeOK, OwnDepends
<1>8. CASE SigInt BY <1>8, <1>same DEF SigInt, OwnDepends
<1>9. CASE UNCHANGED vars BY <1>9, <1>same DEF vars, OwnDepends
<1> QED
  BY <1>1, <1>2, <1>3, <1>4, <1>5, <1>6, <1>7, <1>8, <1>9 DEF Next, Environment, ThreadStep

\* Whatever accept returned is in main's hand, in the ring or was taken: the
\* overflow test (serv08.c 245-248) exits before an unread slot is lost.
THEOREM NoneLostHolds == Spec => []NoneLost
BY NoneLostInit, NoneLostStep, InvHolds, PTL DEF Spec
-----------------------------------------------------------------------------
(* The ring implements the FIFO of Handoff. *)

\* The connections from slot g up to slot p of ring r, oldest first.
Stretch(r, g, p) == [k \in 1 .. Distance(g, p) |-> r[SlotFrom(g, k)]]

LEMMA DistanceType ==
  ASSUME NEW g \in Slots, NEW p \in Slots
  PROVE  Distance(g, p) \in 0 .. MAXNCLI - 1 /\ (Distance(g, p) = 0 <=> g = p)
BY MAXNCLIAssumption DEF Slots, Distance

LEMMA SlotFromType ==
  ASSUME NEW g \in Slots, NEW p \in Slots, NEW k \in 1 .. Distance(g, p)
  PROVE  SlotFrom(g, k) \in Slots /\ Between(g, p, SlotFrom(g, k))
BY MAXNCLIAssumption DEF Slots, Distance, SlotFrom, Between

\* Writing slot p and advancing p appends.
LEMMA StretchPut ==
  ASSUME clifd \in [Slots -> Conns \union {NoConn}], iget \in Slots, iput \in Slots,
         Advance(iput) # iget, NEW c \in Conns
  PROVE  /\ Distance(iget, iput) < MAXNCLI - 1
         /\ Stretch([clifd EXCEPT ![iput] = c], iget, Advance(iput)) = Append(Stretch(clifd, iget, iput), c)
<1> DEFINE S == Conns \union {NoConn}
           r == clifd
           g == iget
           p == iput
           n == Distance(g, p)
           q == [r EXCEPT ![p] = c]
<1>0. r \in [Slots -> S] /\ g \in Slots /\ p \in Slots /\ Advance(p) # g /\ c \in S OBVIOUS
<1> HIDE DEF S, r, g, p
<1>1. n \in Nat /\ n < MAXNCLI - 1 /\ Distance(g, Advance(p)) = n + 1
  BY <1>0, MAXNCLIAssumption DEF Slots, Distance, Advance
<1>2. \A k \in 1 .. n : SlotFrom(g, k) \in Slots /\ SlotFrom(g, k) # p
  BY <1>0, SlotFromType, BetweenPut
<1>3. SlotFrom(g, n + 1) = p BY <1>0, MAXNCLIAssumption DEF Slots, Distance, SlotFrom
<1>4. Stretch(r, g, p) \in Seq(S) /\ Len(Stretch(r, g, p)) = n
  BY <1>0, <1>1, <1>2 DEF Stretch
<1>5. \A k \in 1 .. n + 1 :
        q[SlotFrom(g, k)] = IF k = n + 1 THEN c ELSE r[SlotFrom(g, k)]
  BY <1>0, <1>1, <1>2, <1>3
<1>6. Stretch(q, g, Advance(p)) = [k \in 1 .. n + 1 |-> q[SlotFrom(g, k)]]
  BY <1>1 DEF Stretch
<1>7. Stretch(q, g, Advance(p)) \in Seq(S) /\ Len(Stretch(q, g, Advance(p))) = n + 1
  <2>1. \A k \in 1 .. n + 1 : q[SlotFrom(g, k)] \in S BY <1>0, <1>1, <1>2, <1>5
  <2> QED BY <1>1, <1>6, <2>1
<1>8. \A k \in 1 .. n + 1 : Stretch(q, g, Advance(p))[k] = Append(Stretch(r, g, p), c)[k]
  <2>1. \A k \in 1 .. n : Stretch(r, g, p)[k] = r[SlotFrom(g, k)] BY DEF Stretch
  <2>2. \A k \in 1 .. n : Append(Stretch(r, g, p), c)[k] = r[SlotFrom(g, k)]
    BY <1>0, <1>4, <2>1, AppendProperties
  <2>3. Append(Stretch(r, g, p), c)[n + 1] = c BY <1>0, <1>4, AppendProperties
  <2>4. \A k \in 1 .. n + 1 : Stretch(q, g, Advance(p))[k] = q[SlotFrom(g, k)] BY <1>6
  <2>5. \A k \in 1 .. n + 1 : k = n + 1 \/ k \in 1 .. n BY <1>1
  <2> HIDE DEF n, q
  <2> QED BY <1>1, <1>5, <2>2, <2>3, <2>4, <2>5
<1>9. Stretch(q, g, Advance(p)) = Append(Stretch(r, g, p), c)
  <2>1. Append(Stretch(r, g, p), c) \in Seq(S) /\ Len(Append(Stretch(r, g, p), c)) = n + 1
    BY <1>0, <1>4, AppendProperties
  <2> HIDE DEF n, q
  <2> QED BY <1>7, <1>8, <2>1, SeqEqual
<1> QED BY <1>1, <1>9 DEF r, g, p

\* Advancing g takes the head off.
LEMMA StretchTake ==
  ASSUME NEW S, NEW r \in [Slots -> S], NEW g \in Slots, NEW p \in Slots, g # p
  PROVE  /\ Stretch(r, g, p) # <<>>
         /\ Head(Stretch(r, g, p)) = r[g]
         /\ Stretch(r, Advance(g), p) = Tail(Stretch(r, g, p))
<1> DEFINE n == Distance(g, p)
<1>1. n \in Nat /\ n > 0 /\ Distance(Advance(g), p) = n - 1
  BY MAXNCLIAssumption DEF Slots, Distance, Advance
<1>2. \A k \in 1 .. n : SlotFrom(g, k) \in Slots BY SlotFromType
<1>3. SlotFrom(g, 1) = g BY MAXNCLIAssumption DEF Slots, SlotFrom
<1>4. Stretch(r, g, p) \in Seq(S) /\ Len(Stretch(r, g, p)) = n
  BY <1>1, <1>2 DEF Stretch
<1>5. \A k \in 1 .. n - 1 : SlotFrom(Advance(g), k) = SlotFrom(g, k + 1)
  BY <1>1, MAXNCLIAssumption DEF Slots, SlotFrom, Advance, Distance
<1>6. Head(Stretch(r, g, p)) = r[g] BY <1>1, <1>3, <1>4 DEF Stretch
<1>7. Tail(Stretch(r, g, p)) \in Seq(S) /\ Len(Tail(Stretch(r, g, p))) = n - 1
      /\ \A k \in 1 .. n - 1 : Tail(Stretch(r, g, p))[k] = Stretch(r, g, p)[k + 1]
  BY <1>1, <1>4, HeadTailProperties
<1>8. \A k \in 1 .. n - 1 : Stretch(r, g, p)[k + 1] = r[SlotFrom(g, k + 1)]
  BY <1>1 DEF Stretch
<1>9. Stretch(r, Advance(g), p) = [k \in 1 .. n - 1 |-> r[SlotFrom(Advance(g), k)]]
  BY <1>1 DEF Stretch
<1>11. Stretch(r, Advance(g), p) \in Seq(S) /\ Len(Stretch(r, Advance(g), p)) = n - 1
  <2>1. \A k \in 1 .. n - 1 : r[SlotFrom(Advance(g), k)] \in S BY <1>1, <1>2, <1>5
  <2> QED BY <1>1, <1>9, <2>1
<1>10. Stretch(r, Advance(g), p) = Tail(Stretch(r, g, p))
  <2>1. \A k \in 1 .. n - 1 : Stretch(r, Advance(g), p)[k] = Tail(Stretch(r, g, p))[k]
    BY <1>5, <1>7, <1>8, <1>9
  <2> HIDE DEF n
  <2> QED BY <1>7, <1>11, <2>1, SeqEqual
<1> QED BY <1>1, <1>4, <1>6, <1>10

LEMMA RingIsStretch == Ring = Stretch(clifd, iget, iput)
BY DEF Ring, Stretch, Waiting

LEMMA FifoInit == Init => Fifo!HInit
<1> SUFFICES ASSUME Init PROVE Ring = <<>> /\ taken = <<>> /\ running = TRUE
  BY DEF Fifo!HInit
<1>1. Waiting = 0 BY DEF Init, Waiting, Distance
<1> QED BY <1>1 DEF Init, Ring

LEMMA FifoStep == Inv /\ [Next]_vars => [Fifo!HNext]_(Fifo!hvars)
<1> SUFFICES ASSUME Inv, [Next]_vars PROVE [Fifo!HNext]_(Fifo!hvars) OBVIOUS
<1> DEFINE H == IF running THEN Ring ELSE <<>>
<1>a. ASSUME UNCHANGED <<ring, running, taken>> PROVE UNCHANGED Fifo!hvars
  BY <1>a, RingIsStretch DEF Fifo!hvars, ring, Ring, Waiting
<1>b. ASSUME running, ~running', UNCHANGED taken PROVE Fifo!Stop
  BY <1>b DEF Fifo!Stop, Inv, TypeOK
<1>1. CASE MainStep /\ ~Put
  BY <1>1, <1>a DEF MainStep, ThreadMake, MadeAll, MainLock, Signal, MainUnlock
<1>2. CASE Put
  <2>1. CASE ~running'
    <3>1. Fifo!Stop BY <1>2, <2>1, <1>b DEF Put, Goto
    <3> QED BY <3>1 DEF Fifo!HNext
  <2>2. CASE running'
    <3>0. running BY <1>2 DEF Put, Goto
    <3>1. /\ clifd \in [Slots -> Conns \union {NoConn}]
          /\ iget \in Slots /\ iput \in Slots /\ Advance(iput) # iget
          /\ connfd[Main] \in Conns /\ connfd[Main] \in Conns \union {NoConn}
      BY <1>2, <2>2, <3>0, ConnsAssumption
      DEF Put, Goto, Inv, TypeOK, Slots, OwnInv, MainInv
    <3>2. Distance(iget, iput) < MAXNCLI - 1
          /\ Stretch([clifd EXCEPT ![iput] = connfd[Main]], iget, Advance(iput))
               = Append(Stretch(clifd, iget, iput), connfd[Main])
      BY <3>1, StretchPut
    <3>3. Ring' = Stretch(clifd', iget', iput') BY DEF Ring, Stretch, Waiting
    <3>4. Ring' = Append(Ring, connfd[Main])
      BY <1>2, <3>2, <3>3, RingIsStretch DEF Put, ring
    <3>5. Len(Ring) < MAXNCLI - 1
      BY <3>1, <3>2, DistanceType DEF Ring, Waiting
    <3>6. Fifo!Offer(connfd[Main])
      BY <1>2, <2>2, <3>0, <3>4, <3>5 DEF Fifo!Offer, Put
    <3> QED BY <3>1, <3>6 DEF Fifo!HNext
  <2> QED BY <2>1, <2>2
<1>3. ASSUME NEW t \in Threads, ThreadStep(t), ~Take(t) PROVE UNCHANGED Fifo!hvars
  BY <1>3, <1>a DEF ThreadStep, ThreadLock, Check, Relock, ThreadUnlock, Count, Close
<1>4. ASSUME NEW t \in Threads, Take(t) PROVE Fifo!TakeOldest
  <2>0. running /\ running' /\ UNCHANGED <<clifd, iput>> BY <1>4 DEF Take, Goto
  <2>1. /\ clifd \in [Slots -> Conns \union {NoConn}]
        /\ iget \in Slots /\ iput \in Slots /\ iget # iput
    BY <1>4 DEF Take, Goto, Inv, TypeOK, TakeInv, Slots
  <2>2. /\ Stretch(clifd, iget, iput) # <<>>
        /\ Head(Stretch(clifd, iget, iput)) = clifd[iget]
        /\ Stretch(clifd, Advance(iget), iput) = Tail(Stretch(clifd, iget, iput))
    BY <2>1, StretchTake
  <2>3. Ring' = Stretch(clifd', iget', iput') BY DEF Ring, Stretch, Waiting
  <2>4. Ring # <<>> /\ Head(Ring) = clifd[iget] /\ Ring' = Tail(Ring)
    BY <1>4, <2>0, <2>2, <2>3, RingIsStretch DEF Take
  <2>5. taken' = Append(taken, clifd[iget]) BY <1>4 DEF Take
  <2> QED BY <2>0, <2>4, <2>5 DEF Fifo!TakeOldest
<1>5. CASE Environment
  <2>1. ASSUME NEW t \in Threads, BadRequest(t) PROVE Fifo!Stop
    BY <2>1, <1>b DEF BadRequest
  <2>2. ASSUME SigInt PROVE Fifo!Stop BY <2>2, <1>b DEF SigInt
  <2>3. ASSUME NEW t \in Threads, SpuriousWakeup(t) \/ ServeUntilEOF(t)
        PROVE  UNCHANGED Fifo!hvars
    BY <2>3, <1>a DEF SpuriousWakeup, ServeUntilEOF
  <2>4. ASSUME NEW c \in Conns, Accept(c) PROVE UNCHANGED Fifo!hvars
    BY <2>4, <1>a DEF Accept
  <2> QED BY <1>5, <2>1, <2>2, <2>3, <2>4 DEF Environment, Fifo!HNext
<1>6. CASE UNCHANGED vars BY <1>6, <1>a DEF vars, ring
<1> QED BY <1>1, <1>2, <1>3, <1>4, <1>5, <1>6 DEF Next, Fifo!HNext

\* For any number of threads and any size of the ring, the server's steps on
\* clifd, iget and iput are those of a FIFO of MAXNCLI - 1 places (serv08.c
\* 192-198, 241-250).
THEOREM Refinement == Spec => ImplementsHandoff
BY FifoInit, FifoStep, InvHolds, PTL DEF Spec, ImplementsHandoff, Fifo!HSpec
-----------------------------------------------------------------------------
(* No lost wakeup. *)

LEMMA ComingFinite == IsFiniteSet(Coming) /\ Cardinality(Coming) \in Nat
<1>1. Coming \subseteq Threads BY DEF Coming
<1> QED BY <1>1, ThreadsAssumption, FS_Subset, FS_CardinalityType

\* A thread joins those that are coming, or leaves them.
LEMMA Joins ==
  ASSUME NEW S, IsFiniteSet(S), NEW x, x \notin S
  PROVE  Cardinality(S \union {x}) = Cardinality(S) + 1
BY FS_AddElement

LEMMA Leaves ==
  ASSUME NEW S, IsFiniteSet(S), NEW x \in S
  PROVE  Cardinality(S \ {x}) = Cardinality(S) - 1
BY FS_RemoveElement

Signalling == IF pc[Main] = "signal" THEN 1 ELSE 0

LEMMA WaitingType == ASSUME TypeOK PROVE Waiting \in Nat /\ (Waiting = 0 <=> iget = iput)
BY DistanceType DEF TypeOK, Waiting, Slots

LEMMA StrandedStep == Inv /\ Inv' /\ NoStrandedWork /\ [Next]_vars => NoStrandedWork'
<1> SUFFICES ASSUME Inv, Inv', NoStrandedWork, [Next]_vars, running', Sleeping' # {}
             PROVE  Waiting' <= Cardinality(Coming') + Signalling'
  BY DEF NoStrandedWork, Signalling
<1>r. running
  BY DEF Next, MainStep, ThreadStep, Environment, Goto, ThreadMake, MadeAll, MainLock, Put,
         Signal, MainUnlock, ThreadLock, Check, Relock, Take, ThreadUnlock, Count, Close,
         Accept, SpuriousWakeup, ServeUntilEOF, BadRequest, SigInt, vars
<1>t. TypeOK /\ TypeOK' BY DEF Inv
<1>w. Waiting \in Nat /\ Waiting' \in Nat
  <2>1. Waiting' \in Nat BY <1>t, DistanceType DEF TypeOK, Waiting, Slots
  <2> QED BY <1>t, <2>1, WaitingType
<1>c. Cardinality(Coming) \in Nat /\ IsFiniteSet(Coming) /\ Cardinality(Coming') \in Nat
  <2>1. Coming' \subseteq Threads BY DEF Coming
  <2> QED BY <2>1, ComingFinite, ThreadsAssumption, FS_Subset, FS_CardinalityType
<1>s. Signalling \in 0 .. 1 /\ Signalling' \in 0 .. 1 BY DEF Signalling
<1>old. Sleeping # {} => Waiting <= Cardinality(Coming) + Signalling
  BY <1>r DEF NoStrandedWork, Signalling
<1>same. ASSUME UNCHANGED ring, Coming' = Coming, Signalling' = Signalling, Sleeping # {}
         PROVE  Waiting' <= Cardinality(Coming') + Signalling'
  BY <1>same, <1>old, <1>w, <1>c, <1>s DEF ring, Waiting, Distance
<1>more. ASSUME NEW t \in Threads, t \notin Coming, Coming' = Coming \union {t}, UNCHANGED ring,
                Signalling' >= Signalling - 1, Sleeping # {}
         PROVE  Waiting' <= Cardinality(Coming') + Signalling'
  <2>1. Cardinality(Coming') = Cardinality(Coming) + 1 BY <1>more, <1>c, Joins
  <2> QED BY <1>more, <2>1, <1>old, <1>w, <1>c, <1>s DEF ring, Waiting, Distance
<1> USE ThreadsAssumption DEF Goto, MainPcs, ThreadPcs
<1>1. ASSUME NEW t \in Threads, ThreadMake(t) PROVE Waiting' <= Cardinality(Coming') + Signalling'
  <2>1. t \notin Coming /\ Coming' = Coming \union {t} /\ Signalling' = Signalling
    BY <1>1, <1>t DEF ThreadMake, TypeOK, Coming, Signalling
  <2>2. Sleeping # {} /\ UNCHANGED ring BY <1>1, <1>t DEF ThreadMake, TypeOK, Sleeping
  <2> QED BY <2>1, <2>2, <1>s, <1>more
<1>2. CASE MadeAll \/ MainLock \/ MainUnlock \/ \E c \in Conns : Accept(c)
  <2>1. Coming' = Coming /\ Signalling' = Signalling /\ Sleeping # {} /\ UNCHANGED ring
    BY <1>2, <1>t
    DEF MadeAll, MainLock, MainUnlock, Accept, TypeOK, Coming, Signalling, Sleeping
  <2> QED BY <2>1, <1>same
<1>3. CASE Put
  <2>1. Coming' = Coming /\ Signalling = 0 /\ Signalling' = 1 /\ Sleeping # {}
    BY <1>3, <1>t DEF Put, TypeOK, Coming, Signalling, Sleeping
  <2>2. Waiting' = Waiting + 1
    <3>1. iget \in Slots /\ iput \in Slots /\ Advance(iput) # iget
          /\ iget' = iget /\ iput' = Advance(iput)
      BY <1>3, <1>t DEF Put, TypeOK, Slots
    <3> QED BY <3>1, MAXNCLIAssumption DEF Slots, Waiting, Distance, Advance
  <2> QED BY <2>1, <2>2, <1>old, <1>w, <1>c
<1>4. CASE Signal
  <2>1. Sleeping # {}
    BY <1>4, <1>t DEF Signal, Sleeping, TypeOK
  <2>2. PICK t \in Sleeping : pc' = [pc EXCEPT ![Main] = "unlock", ![t] = "woken"]
    BY <1>4, <2>1 DEF Signal
  <2>3. t \in Threads /\ t \notin Coming /\ Coming' = Coming \union {t}
    <3>1. t \in Threads /\ pc[t] = "sleep" /\ Main \notin Threads /\ pc \in [Procs -> MainPcs \union ThreadPcs]
      BY <2>2, <1>t DEF Sleeping, TypeOK
    <3>2. pc'[t] = "woken" /\ \A u \in Threads \ {t} : pc'[u] = pc[u]
      BY <2>2, <3>1
    <3> QED
      BY <3>1, <3>2 DEF Coming
  <2>4. Signalling = 1 /\ Signalling' = 0 BY <1>4, <2>2, <1>t DEF Signal, Signalling, TypeOK, Sleeping
  <2>5. UNCHANGED ring BY <1>4 DEF Signal
  <2> QED BY <2>1, <2>3, <2>4, <2>5, <1>more
<1>5. ASSUME NEW t \in Threads,
             ThreadLock(t) \/ Relock(t) \/ ThreadUnlock(t) \/ Count(t) \/ ServeUntilEOF(t)
      PROVE  Waiting' <= Cardinality(Coming') + Signalling'
  <2>1. PICK to \in ThreadPcs \ {"sleep"} :
          pc' = [pc EXCEPT ![t] = to] /\ (t \in Coming <=> to \in {"lock", "woken", "check", "take"})
          /\ pc[t] # "sleep"
    BY <1>5, <1>t DEF ThreadLock, Relock, ThreadUnlock, Count, ServeUntilEOF, TypeOK, Coming
  <2>2. Coming' = Coming /\ Signalling' = Signalling /\ Sleeping' = Sleeping
    BY <2>1, <1>t DEF TypeOK, Coming, Signalling, Sleeping
  <2>3. UNCHANGED ring BY <1>5 DEF ThreadLock, Relock, ThreadUnlock, Count, ServeUntilEOF
  <2> QED BY <2>2, <2>3, <1>same
<1>6. ASSUME NEW t \in Threads, Check(t) PROVE Waiting' <= Cardinality(Coming') + Signalling'
  <2>1. CASE iget = iput
    BY <1>6, <2>1, <1>t, <1>c, <1>s, WaitingType DEF Check, ring, Waiting, Distance, TypeOK
  <2>2. CASE iget # iput
    <3>1. Coming' = Coming /\ Signalling' = Signalling /\ Sleeping # {} /\ UNCHANGED ring
      BY <1>6, <2>2, <1>t DEF Check, TypeOK, Coming, Signalling, Sleeping
    <3> QED BY <3>1, <1>same
  <2> QED BY <2>1, <2>2
<1>7. ASSUME NEW t \in Threads, Take(t) PROVE Waiting' <= Cardinality(Coming') + Signalling'
  <2>1. t \in Coming /\ Coming' = Coming \ {t} /\ Signalling' = Signalling /\ Sleeping # {}
    BY <1>7, <1>t DEF Take, TypeOK, Coming, Signalling, Sleeping
  <2>2. Cardinality(Coming') = Cardinality(Coming) - 1 BY <2>1, <1>c, Leaves
  <2>3. iget # iput BY <1>7 DEF Take, Inv, TakeInv
  <2>4. Waiting' = Waiting - 1
    BY <1>7, <2>3, <1>t, MAXNCLIAssumption DEF Take, TypeOK, Waiting, Distance, Advance
  <2> QED BY <2>1, <2>2, <2>4, <1>old, <1>w, <1>c, <1>s
<1>8. ASSUME NEW t \in Threads, Close(t) \/ SpuriousWakeup(t)
      PROVE  Waiting' <= Cardinality(Coming') + Signalling'
  <2>0. PICK to \in {"lock", "woken"} : pc' = [pc EXCEPT ![t] = to] /\ pc[t] \in {"close", "sleep"}
    BY <1>8 DEF Close, SpuriousWakeup
  <2>1. t \notin Coming /\ Coming' = Coming \union {t} /\ Signalling' = Signalling
    BY <2>0, <1>t DEF TypeOK, Coming, Signalling
  <2>2. Sleeping # {} /\ UNCHANGED ring
    BY <1>8, <1>t DEF Close, SpuriousWakeup, TypeOK, Sleeping
  <2> QED BY <2>1, <2>2, <1>s, <1>more
<1>9. CASE UNCHANGED vars
  BY <1>9, <1>same DEF vars, ring, Coming, Signalling, Sleeping
<1>10. ~SigInt /\ \A t \in Threads : ~BadRequest(t) BY DEF SigInt, BadRequest
<1> QED BY <1>1, <1>2, <1>3, <1>4, <1>5, <1>6, <1>7, <1>8, <1>9, <1>10
        DEF Next, MainStep, ThreadStep, Environment

\* While a thread sleeps each waiting connection has a thread of its own on
\* the way to it or a signal about to be sent: no wakeup is lost
\* (pthread_cond_signal and the while loop, serv08.c 193-194 and 249).
THEOREM NoStrandedWorkHolds == Spec => []NoStrandedWork
<1>1. Init => NoStrandedWork BY DEF Init, NoStrandedWork, Sleeping
<1> QED BY <1>1, StrandedStep, InvHolds, PTL DEF Spec
-----------------------------------------------------------------------------
(* The servers with a process or a thread for each connection.  What main has open *)
(* is, between two connections, what its threads serve and what none could be made *)
(* for; and the connection it is busy with otherwise.                              *)

Kinds == PerConn!Forks \union PerConn!ThreadKinds \union {"serv00"}
States == {"none", "start", "read", "close", "zombie", "gone"}

\* What threads serve.
Threaded == {c \in Clients : kind \in PerConn!ThreadKinds /\ PerConn!Alive(c)}
Kept == leaked \union Threaded

Busy ==
  /\ at = "start" => open = {} /\ leaked = {} /\ \A c \in Clients : worker[c] = "none"
  /\ at = "accept" => open = Kept
  /\ at = "make" =>
       kind # "serv00" /\ conn_fd \in Clients /\ worker[conn_fd] = "start" /\ open = Kept \union {conn_fd}
  /\ at = "close" => kind \in PerConn!Forks /\ conn_fd \in Clients /\ open = {conn_fd}
  /\ at = "serve" => kind = "serv00" /\ conn_fd \in Clients /\ open = {conn_fd}

ConnInv ==
  /\ kind \in Kinds /\ at \in {"start", "accept", "make", "serve", "stuck", "close", "exit"}
  /\ worker \in [Clients -> States] /\ open \subseteq Clients /\ leaked \subseteq Clients
  /\ Busy
  /\ \A c \in leaked : kind \in PerConn!ThreadKinds /\ worker[c] = "gone"
  /\ kind = "serv00" => \A c \in Clients : worker[c] # "read"
  /\ kind = "do_it" /\ at # "exit" => \A c \in Clients : worker[c] = "zombie" => sigchld

LEMMA KindsDiffer ==
  /\ \A k : ~(k \in PerConn!Forks /\ k \in PerConn!ThreadKinds)
  /\ "serv00" \notin PerConn!Forks \union PerConn!ThreadKinds
  /\ "do_it" \in PerConn!Forks /\ "serv01" \in PerConn!Forks
  /\ {"v2", "v3", "do_it"} \subseteq PerConn!Forks
  /\ {"serv06", "str_echo"} \subseteq PerConn!ThreadKinds
BY DEF PerConn!Forks, PerConn!ThreadKinds

\* A worker goes on, and is alive as before; or, of a process, is not.
LEMMA WorkerGoesOn ==
  ASSUME ConnInv, NEW c \in Clients, NEW s \in States, worker' = [worker EXCEPT ![c] = s],
         UNCHANGED <<kind, at, conn_fd, open, leaked>>,
         worker[c] # "none", worker[c] # "gone", at = "make" => c # conn_fd,
         kind = "serv00" => s # "read",
         kind \in PerConn!ThreadKinds => s \in {"start", "read", "close"} /\ PerConn!Alive(c),
         kind = "do_it" /\ at # "exit" /\ (s = "zombie" \/ sigchld) => sigchld'
  PROVE  ConnInv'
<1>1. worker \in [Clients -> States] /\ worker' \in [Clients -> States]
      /\ worker'[c] = s /\ \A d \in Clients \ {c} : worker'[d] = worker[d]
  BY DEF ConnInv
<1>2. Threaded' = Threaded
  BY <1>1 DEF Threaded, PerConn!Alive
<1>3. at # "start"
  BY DEF ConnInv, Busy
<1>4. Busy'
  BY <1>1, <1>2, <1>3 DEF ConnInv, Busy, Kept
<1>5. c \notin leaked
  BY DEF ConnInv
<1> QED
  BY <1>1, <1>4, <1>5, KindsDiffer DEF ConnInv

\* Nothing that the invariant is about.
LEMMA ConnRest ==
  ASSUME ConnInv, UNCHANGED <<kind, at, conn_fd, open, leaked, worker, sigchld>>
  PROVE  ConnInv'
BY DEF ConnInv, Busy, Kept, Threaded, PerConn!Alive

LEMMA ConnAccepts == ConnInv /\ PerConn!Accepts => ConnInv'
<1> SUFFICES ASSUME ConnInv, NEW c \in Clients, NEW next \in {"serve", "make"}, PerConn!Accept(c, next),
                    next = "serve" <=> kind = "serv00"
             PROVE  ConnInv'
  BY DEF PerConn!Accepts, PerConn!AcceptAndServe, PerConn!AcceptAndFork, PerConn!AcceptAndMake,
         PerConn!AcceptAndDoit, PerConn!AcceptAndForkDoIt
<1>1. /\ at = "accept" /\ at' = next /\ conn_fd' = c /\ open' = open \union {c} /\ UNCHANGED <<kind, sigchld, leaked>>
      /\ worker' = [worker EXCEPT ![c] = "start"] /\ worker[c] = "none" /\ c \notin open \union leaked
  BY DEF PerConn!Accept
<1>2. worker \in [Clients -> States] /\ worker' \in [Clients -> States]
      /\ worker'[c] = "start" /\ \A d \in Clients \ {c} : worker'[d] = worker[d]
  BY <1>1 DEF ConnInv, States
<1>3. Threaded' = IF kind \in PerConn!ThreadKinds THEN Threaded \union {c} ELSE {}
  BY <1>1, <1>2 DEF Threaded, PerConn!Alive
<1>4. kind \notin PerConn!ThreadKinds => Kept = {} /\ Kept' = {}
  BY <1>1 DEF Kept, Threaded, ConnInv
<1>5. open = Kept
  BY <1>1 DEF ConnInv, Busy
<1>6. CASE next = "serve"
  <2>1. Busy'
    BY <1>1, <1>4, <1>5, <1>6, KindsDiffer DEF Busy
  <2> QED
    BY <1>1, <1>2, <2>1 DEF ConnInv
<1>7. CASE next = "make"
  <2>1. open' = Kept' \union {c}
    BY <1>1, <1>3, <1>4, <1>5 DEF Kept
  <2>2. Busy'
    BY <1>1, <1>2, <1>7, <2>1 DEF Busy
  <2> QED
    BY <1>1, <1>2, <1>7, <2>2 DEF ConnInv
<1> QED
  BY <1>6, <1>7

\* The process or thread is made, or cannot be.
LEMMA ConnMakes ==
  ConnInv /\ (PerConn!Fork \/ PerConn!PthreadCreate \/ PerConn!ForkFails \/ PerConn!ThreadFails) => ConnInv'
<1> SUFFICES ASSUME ConnInv, PerConn!Fork \/ PerConn!PthreadCreate \/ PerConn!ForkFails \/ PerConn!ThreadFails
             PROVE  ConnInv'
  OBVIOUS
<1>1. /\ at = "make" /\ UNCHANGED <<kind, conn_fd, open, sigchld>>
      /\ \E x \in {"read", "gone"} : worker' = [worker EXCEPT ![conn_fd] = x]
  BY DEF PerConn!Fork, PerConn!PthreadCreate, PerConn!Begins, PerConn!ForkFails, PerConn!ThreadFails
<1>2. /\ worker \in [Clients -> States] /\ conn_fd \in Clients /\ worker[conn_fd] = "start" /\ kind # "serv00"
      /\ open = Kept \union {conn_fd} /\ leaked \subseteq Clients
  BY <1>1 DEF ConnInv, Busy
<1>3. worker' \in [Clients -> States] /\ \A d \in Clients \ {conn_fd} : worker'[d] = worker[d]
  BY <1>1, <1>2 DEF States
<1>4. worker'[conn_fd] \in {"read", "gone"} /\ conn_fd \notin leaked
  BY <1>1, <1>2 DEF ConnInv
<1>5. kind = "do_it" => sigchld' = sigchld /\ \A d \in Clients : worker'[d] = "zombie" => worker[d] = "zombie"
  BY <1>1, <1>3, <1>4
<1>6. CASE PerConn!Fork \/ PerConn!ForkFails
  <2>1. kind \in PerConn!Forks /\ at' = "close" /\ leaked' = leaked
    BY <1>6, KindsDiffer DEF PerConn!Fork, PerConn!Begins, PerConn!ForkFails
  <2>2. Kept = {}
    BY <2>1, KindsDiffer DEF Kept, Threaded, ConnInv
  <2>3. Busy'
    BY <1>1, <1>2, <2>1, <2>2 DEF Busy
  <2> QED
    BY <1>1, <1>2, <1>3, <1>4, <1>5, <2>1, <2>3, KindsDiffer DEF ConnInv
<1>7. CASE PerConn!PthreadCreate
  <2>1. kind \in PerConn!ThreadKinds /\ at' = "accept" /\ leaked' = leaked /\ worker'[conn_fd] = "read"
    BY <1>2, <1>7 DEF PerConn!PthreadCreate, PerConn!Begins
  <2>2. Threaded' = Threaded /\ conn_fd \in Threaded
    BY <1>1, <1>2, <1>3, <2>1 DEF Threaded, PerConn!Alive
  <2>3. open' = Kept'
    BY <1>1, <1>2, <2>1, <2>2 DEF Kept
  <2>4. Busy'
    BY <2>1, <2>3 DEF Busy
  <2> QED
    BY <1>1, <1>2, <1>3, <1>4, <1>5, <2>1, <2>4, KindsDiffer DEF ConnInv
<1>8. CASE PerConn!ThreadFails
  <2>1. /\ kind \in PerConn!ThreadKinds /\ at' = "accept" /\ leaked' = leaked \union {conn_fd}
        /\ worker'[conn_fd] = "gone"
    BY <1>2, <1>8 DEF PerConn!ThreadFails
  <2>2. Threaded' = Threaded \ {conn_fd} /\ conn_fd \in Threaded
    BY <1>1, <1>2, <1>3, <2>1 DEF Threaded, PerConn!Alive
  <2>3. open' = Kept'
    BY <1>1, <1>2, <2>1, <2>2 DEF Kept
  <2>4. Busy'
    BY <2>1, <2>3 DEF Busy
  <2> QED
    BY <1>1, <1>2, <1>3, <1>4, <1>5, <2>1, <2>4, KindsDiffer DEF ConnInv
<1> QED
  BY <1>6, <1>7, <1>8

\* The end of the server.
LEMMA ConnExits == ConnInv /\ PerConn!Exits => ConnInv'
<1> SUFFICES ASSUME ConnInv, PerConn!Exits PROVE ConnInv'
  OBVIOUS
<1>1. /\ at' = "exit" /\ open' = {} /\ UNCHANGED <<kind, leaked>>
      /\ worker' = [c \in Clients |-> IF kind \in PerConn!Forks /\ worker[c] \in {"read", "close"} THEN worker[c]
                                      ELSE IF worker[c] = "none" THEN "none" ELSE "gone"]
  BY DEF PerConn!Exits
<1>2. worker \in [Clients -> States] /\ leaked \subseteq Clients
  BY DEF ConnInv
<1>3. \A c \in Clients : worker'[c] \in {worker[c], "none", "gone"} /\ (worker[c] = "gone" => worker'[c] = "gone")
  BY <1>1, <1>2
<1>4. worker' \in [Clients -> States]
  BY <1>1, <1>2, <1>3 DEF States
<1>5. Busy'
  BY <1>1 DEF Busy
<1> QED
  BY <1>1, <1>3, <1>4, <1>5 DEF ConnInv

LEMMA ConnStep == ConnInv /\ [PerConn!Next]_(PerConn!vars) => ConnInv'
<1> SUFFICES ASSUME ConnInv, [PerConn!Next]_(PerConn!vars) PROVE ConnInv'
  OBVIOUS
<1>0. worker \in [Clients -> States] /\ open \subseteq Clients /\ kind \in Kinds
  BY DEF ConnInv
<1>1. CASE \/ PerConn!ClientsWaited \/ UNCHANGED PerConn!vars
           \/ \E c \in Clients : PerConn!Client(c) \/ PerConn!Connect(c) \/ PerConn!Leaves(c)
  BY <1>1, ConnRest DEF PerConn!ClientsWaited, PerConn!vars, PerConn!Client, PerConn!Request, PerConn!Reply,
                        PerConn!ReplyShort, PerConn!Connect, PerConn!Leaves, PerConn!main
<1>2. CASE PerConn!TcpListen \/ PerConn!Bind
  <2>1. PerConn!Listens
    BY <1>2 DEF PerConn!TcpListen, PerConn!Bind
  <2>2. at = "start" /\ at' \in {"accept", "exit"} /\ UNCHANGED <<kind, conn_fd, open, leaked, worker, sigchld>>
    BY <2>1 DEF PerConn!Listens
  <2>3. Threaded = {} /\ open = {} /\ leaked = {}
    BY <2>2 DEF Threaded, PerConn!Alive, ConnInv, Busy
  <2>4. Threaded' = Threaded
    BY <2>2 DEF Threaded, PerConn!Alive
  <2>5. Busy'
    BY <2>2, <2>3, <2>4 DEF Busy, Kept
  <2> QED
    BY <2>2, <2>5 DEF ConnInv
<1>3. CASE PerConn!Accepts
  BY <1>3, ConnAccepts
<1>4. CASE PerConn!Fork \/ PerConn!PthreadCreate \/ PerConn!ForkFails \/ PerConn!ThreadFails
  BY <1>4, ConnMakes
<1>5. CASE PerConn!ParentCloses
  <2>1. /\ at = "close" /\ at' = "accept" /\ open' = open \ {conn_fd} /\ kind \in PerConn!Forks
        /\ UNCHANGED <<kind, conn_fd, leaked, worker, sigchld>>
    BY <1>5 DEF PerConn!ParentCloses
  <2>2. open' = {} /\ Kept' = {}
    BY <2>1, KindsDiffer DEF ConnInv, Busy, Kept, Threaded
  <2>3. Busy'
    BY <2>1, <2>2 DEF Busy
  <2> QED
    BY <2>1, <2>3 DEF ConnInv
<1>6. CASE PerConn!Handles
  <2>1. /\ kind \in {"v3", "do_it"} /\ UNCHANGED <<kind, at, conn_fd, open, leaked>>
        /\ worker' \in [Clients -> States]
        /\ \A c \in Clients : worker'[c] = worker[c] \/ (worker[c] = "zombie" /\ worker'[c] = "gone")
    BY <1>0, <1>6 DEF PerConn!Handles, PerConn!WaitsOnce, PerConn!WaitsForAll, PerConn!Zombies, PerConn!main, States
  <2>2. kind = "do_it" => \A c \in Clients : worker'[c] # "zombie"
    BY <1>0, <1>6 DEF PerConn!Handles, PerConn!WaitsOnce, PerConn!WaitsForAll, PerConn!Zombies
  <2>3. Threaded' = Threaded
    BY <2>1, KindsDiffer DEF Threaded
  <2>4. Busy'
    BY <2>1, <2>3 DEF ConnInv, Busy, Kept
  <2>5. kind # "serv00"
    BY <2>1
  <2> QED
    BY <2>1, <2>2, <2>4, <2>5 DEF ConnInv
<1>7. CASE PerConn!ForkFailsExit \/ PerConn!AcceptFailsExit \/ PerConn!NoFdEndsAll
  BY <1>7, ConnExits DEF PerConn!ForkFailsExit, PerConn!AcceptFailsExit, PerConn!NoFdEndsAll
<1>8. ASSUME NEW c \in Clients, PerConn!BadRequestEndsAll(c) PROVE ConnInv'
  BY <1>8, ConnExits DEF PerConn!BadRequestEndsAll
<1>9. ASSUME NEW c \in Clients, PerConn!WebChild(c) \/ PerConn!StrEcho(c) PROVE ConnInv'
  <2>1. worker' = [worker EXCEPT ![c] = worker[c]] /\ UNCHANGED <<kind, at, conn_fd, open, leaked, sigchld>>
    BY <1>9 DEF PerConn!WebChild, PerConn!StrEcho, PerConn!Answer, PerConn!main
  <2>2. worker' = worker
    BY <1>0, <2>1
  <2> QED
    BY <2>1, <2>2, ConnRest
<1>10. ASSUME NEW c \in Clients, PerConn!DoIt(c) \/ PerConn!ReadsEnd(c) PROVE ConnInv'
  <2>1. /\ worker' = [worker EXCEPT ![c] = "close"] /\ UNCHANGED <<kind, at, conn_fd, open, leaked, sigchld>>
        /\ PerConn!Serves(c) /\ kind # "serv00"
    BY <1>10 DEF PerConn!DoIt, PerConn!ReadsEnd, PerConn!Answer, PerConn!AtEnd, PerConn!main
  <2>2. worker[c] = "read"
    BY <2>1 DEF PerConn!Serves, ConnInv, Busy
  <2>3. at = "make" => c # conn_fd
    BY <2>2 DEF ConnInv, Busy
  <2> QED
    BY <2>1, <2>2, <2>3, WorkerGoesOn DEF PerConn!Alive, States
<1>11. ASSUME NEW c \in Clients, PerConn!ServeEnds(c) PROVE ConnInv'
  <2>1. /\ kind = "serv00" /\ at' = "accept" /\ open' = open \ {c} /\ worker' = [worker EXCEPT ![c] = "gone"]
        /\ UNCHANGED <<kind, conn_fd, leaked, sigchld>> /\ at = "serve" /\ conn_fd = c
    BY <1>11 DEF PerConn!ServeEnds, PerConn!AtEnd, PerConn!Serves, ConnInv
  <2>2. open' = {} /\ Kept' = {}
    BY <2>1, KindsDiffer DEF ConnInv, Busy, Kept, Threaded
  <2>3. Busy'
    BY <2>1, <2>2 DEF Busy
  <2>4. worker' \in [Clients -> States] /\ \A d \in Clients : worker'[d] \in {worker[d], "gone"}
    BY <1>0, <2>1 DEF States
  <2> QED
    BY <2>1, <2>2, <2>3, <2>4, KindsDiffer DEF ConnInv
<1>12. ASSUME NEW c \in Clients, PerConn!ChildExits(c) \/ PerConn!BadRequest(c) PROVE ConnInv'
  <2>1. /\ PerConn!Dies(c) /\ UNCHANGED <<kind, at, conn_fd, open, leaked>>
        /\ worker[c] \in {"read", "close"} /\ kind \in PerConn!Forks
    BY <1>12, KindsDiffer DEF PerConn!ChildExits, PerConn!BadRequest, PerConn!main
  <2>2. PICK s \in {"zombie", "gone"} : worker' = [worker EXCEPT ![c] = s] /\ sigchld'
    BY <2>1 DEF PerConn!Dies
  <2>3. at = "make" => c # conn_fd
    BY <2>1 DEF ConnInv, Busy
  <2>4. s \in States /\ s # "read" /\ kind \notin PerConn!ThreadKinds /\ worker[c] # "none" /\ worker[c] # "gone"
    BY <2>1, KindsDiffer DEF States
  <2> QED
    BY <2>1, <2>2, <2>3, <2>4, WorkerGoesOn
<1>13. ASSUME NEW c \in Clients, PerConn!DoitEnds(c) PROVE ConnInv'
  <2>1. /\ kind \in PerConn!ThreadKinds /\ worker[c] = "close" /\ open' = open \ {c}
        /\ worker' = [worker EXCEPT ![c] = "gone"] /\ UNCHANGED <<kind, at, conn_fd, leaked, sigchld>>
    BY <1>13 DEF PerConn!DoitEnds
  <2>2. worker' \in [Clients -> States] /\ worker'[c] = "gone" /\ \A d \in Clients \ {c} : worker'[d] = worker[d]
    BY <1>0, <2>1 DEF States
  <2>3. Threaded' = Threaded \ {c} /\ c \notin leaked
    BY <2>1, <2>2 DEF Threaded, PerConn!Alive, ConnInv
  <2>4. Kept' = Kept \ {c}
    BY <2>1, <2>3 DEF Kept
  <2>5. at # "start" /\ (at = "make" => c # conn_fd) /\ at # "close" /\ at # "serve"
    BY <2>1, KindsDiffer DEF ConnInv, Busy
  <2>6. Busy'
    BY <2>1, <2>2, <2>4, <2>5 DEF ConnInv, Busy
  <2>7. \A d \in Clients : worker'[d] = "zombie" => worker[d] = "zombie"
    BY <2>2
  <2> QED
    BY <2>1, <2>2, <2>3, <2>6, <2>7, KindsDiffer DEF ConnInv
<1>14. CASE PerConn!AcceptFails
  <2>1. /\ at = "accept" /\ at' \in {"accept", "stuck"} /\ UNCHANGED <<kind, conn_fd, open, leaked, worker, sigchld>>
        /\ kind \notin PerConn!Forks
    BY <1>14 DEF PerConn!AcceptFails
  <2>2. Threaded' = Threaded
    BY <2>1 DEF Threaded, PerConn!Alive
  <2>3. Busy'
    BY <2>1, <2>2 DEF ConnInv, Busy, Kept
  <2> QED
    BY <2>1, <2>3, KindsDiffer DEF ConnInv
<1> QED
  BY <1>1, <1>2, <1>3, <1>4, <1>5, <1>6, <1>7, <1>8, <1>9, <1>10, <1>11, <1>12, <1>13, <1>14
     DEF PerConn!Next, PerConn!Main, PerConn!ServedBy

LEMMA KeepsNothingHolds == PerConn!Spec => []PerConn!KeepsNothing
<1>1. PerConn!Init => ConnInv
  BY DEF PerConn!Init, ConnInv, Busy, Kinds, States
<1>2. ConnInv => PerConn!KeepsNothing
  BY DEF ConnInv, Busy, Kept, Threaded, PerConn!KeepsNothing, PerConn!Zombies
<1> QED
  BY <1>1, <1>2, ConnStep, PTL DEF PerConn!Spec
-----------------------------------------------------------------------------
(* The clients that echo.  While the server lives, what was typed is at stdin, in  *)
(* one of the two buffers, on its way, at the server, in the hands of the one that *)
(* shows, or shown; and what select has found is still so when the loop comes to   *)
(* it.                                                                             *)

Sums ==
  /\ toiptr \in Nat /\ tooptr \in Nat /\ friptr \in Nat /\ froptr \in Nat /\ typed \in Nat /\ total \in Nat
  /\ up \in Nat /\ server \in Nat /\ down \in Nat /\ shown \in Nat
  /\ tooptr <= toiptr /\ froptr <= friptr

InHand == IF shower = "show" THEN 1 ELSE 0

NothingLost ==
  ~died => total = typed + (toiptr - tooptr) + up + server + down + InHand + (friptr - froptr) + shown

\* Only nonb keeps what it has read from the socket, and what it has read from stdin
\* beyond the next write.
Buffers ==
  echo_kind # "nonb" =>
    /\ friptr = 0 /\ froptr = 0
    /\ IF echo_pc = "write" THEN tooptr < toiptr ELSE toiptr = 0 /\ tooptr = 0

EndOfInput ==
  /\ stdineof => typed = 0 /\ eof
  /\ fin => stdineof /\ tooptr = toiptr

Found ==
  /\ echo_kind \in {"nonb", "select"} /\ "in" \in ready /\ echo_pc \in {"stdin", "socket"} =>
       typed > 0 \/ eof \/ (echo_kind = "nonb" /\ echo_pc = "socket")
  /\ echo_kind \in {"nonb", "select"} /\ "read" \in ready =>
       /\ echo_pc = "socket" => down > 0 \/ echo = "closed"
       /\ echo_pc = "stdin" /\ echo_kind = "nonb" => down > 0 \/ echo = "closed"
  /\ echo_kind = "select" => (echo_pc = "socket" => "read" \in ready) /\ (echo_pc = "stdin" => "in" \in ready)

ServerSide ==
  /\ echo \in {"read", "write", "closed"}
  /\ echo = "write" <=> server > 0
  /\ echo = "closed" /\ ~died => up = 0 /\ fin

AtTheEnd ==
  end # "not" /\ ~died => end = "normal" /\ echo = "closed" /\ down = 0 /\ shower = "read"

EchoInv ==
  /\ echo_kind \in {"nonb", "select", "fork", "thread"}
  /\ shower \in {"read", "show"} /\ (echo_kind \in {"nonb", "select"} => shower = "read")
  /\ Sums /\ NothingLost /\ Buffers /\ EndOfInput /\ Found /\ ServerSide /\ AtTheEnd

\* Who types, and the server.
LEMMA AroundKeeps ==
  EchoInv /\ (Echo!Types \/ Echo!TypesEnd \/ Echo!Server \/ Echo!ServerDies) => EchoInv'
<1> SUFFICES ASSUME EchoInv, Echo!Types \/ Echo!TypesEnd \/ Echo!Server \/ Echo!ServerDies PROVE EchoInv'
  OBVIOUS
<1> USE DEF EchoInv, Sums, NothingLost, InHand, Buffers, EndOfInput, Found, ServerSide, AtTheEnd,
            Echo!to, Echo!fr, Echo!keys, Echo!net, Echo!serv
<1>1. CASE Echo!Types
  BY <1>1 DEF Echo!Types
<1>2. CASE Echo!TypesEnd
  BY <1>2 DEF Echo!TypesEnd
<1>3. CASE Echo!ServerReads
  <2>1. PICK k \in 1 .. MAXLINE : k <= up /\ server' = k /\ up' = up - k
    BY <1>3 DEF Echo!ServerReads
  <2>2. k \in Nat /\ k > 0
    BY <2>1, EchoAssumption
  <2> QED
    BY <1>3, <2>1, <2>2 DEF Echo!ServerReads
<1>4. CASE Echo!ServerWrites
  BY <1>4 DEF Echo!ServerWrites
<1>5. CASE Echo!ServerCloses
  BY <1>5 DEF Echo!ServerCloses
<1>6. CASE Echo!ServerDies
  BY <1>6 DEF Echo!ServerDies
<1> QED
  BY <1>1, <1>2, <1>3, <1>4, <1>5, <1>6 DEF Echo!Server

\* strclinonb.
LEMMA NonbKeeps == EchoInv /\ Echo!Nonb => EchoInv'
<1> SUFFICES ASSUME EchoInv, Echo!Nonb PROVE EchoInv'
  OBVIOUS
<1> USE DEF EchoInv, Sums, NothingLost, InHand, Buffers, EndOfInput, Found, ServerSide, AtTheEnd,
            Echo!to, Echo!fr, Echo!keys, Echo!net, Echo!serv, Echo!Goto, Echo!Runs
<1>1. CASE Echo!NonbSelect
  <2>1. /\ "in" \in ready' => typed > 0 \/ eof
        /\ "read" \in ready' => down > 0 \/ echo = "closed"
    BY <1>1 DEF Echo!NonbSelect, Echo!Readable
  <2> QED
    BY <1>1, <2>1 DEF Echo!NonbSelect
<1>2. CASE Echo!NonbStdin
  <2>1. PICK k \in 1 .. MAXLINE - toiptr : k <= typed /\ typed' = typed - k /\ toiptr' = toiptr + k
    BY <1>2 DEF Echo!NonbStdin, Echo!Reads
  <2>2. k \in Nat /\ k > 0
    BY <2>1, EchoAssumption
  <2>3. UNCHANGED <<eof, total>>
    BY <1>2 DEF Echo!NonbStdin, Echo!Reads
  <2> QED
    BY <1>2, <2>1, <2>2, <2>3 DEF Echo!NonbStdin
<1>3. CASE Echo!NonbStdinEnd
  BY <1>3 DEF Echo!NonbStdinEnd, Echo!Shutdown
<1>4. CASE Echo!NonbSocket
  <2>1. PICK k \in 1 .. MAXLINE - friptr : k <= down /\ down' = down - k /\ friptr' = friptr + k
    BY <1>4 DEF Echo!NonbSocket, Echo!Receives
  <2>2. k \in Nat /\ k > 0
    BY <2>1, EchoAssumption
  <2>3. UNCHANGED <<fin, up>>
    BY <1>4 DEF Echo!NonbSocket, Echo!Receives
  <2> QED
    BY <1>4, <2>1, <2>2, <2>3 DEF Echo!NonbSocket
<1>5. CASE Echo!NonbSocketEnd
  BY <1>5 DEF Echo!NonbSocketEnd
<1>6. CASE Echo!NonbStdout
  <2>1. PICK k \in 0 .. friptr - froptr :
          /\ shown' = shown + k
          /\ IF froptr + k = friptr THEN froptr' = 0 /\ friptr' = 0 ELSE froptr' = froptr + k /\ UNCHANGED friptr
    BY <1>6 DEF Echo!NonbStdout
  <2>2. k \in Nat
    BY <2>1
  <2> QED
    BY <1>6, <2>1, <2>2 DEF Echo!NonbStdout
<1>7. CASE Echo!NonbWrite
  <2>1. PICK k \in 0 .. toiptr - tooptr :
          IF k > 0 /\ tooptr + k = toiptr
          THEN /\ tooptr' = 0 /\ toiptr' = 0
               /\ up' = IF echo = "closed" THEN up ELSE up + k
               /\ fin' = (fin \/ stdineof) /\ UNCHANGED down
          ELSE Echo!Sends(k) /\ tooptr' = tooptr + k /\ UNCHANGED toiptr
    BY <1>7 DEF Echo!NonbWrite
  <2>2. k \in Nat
    BY <2>1
  <2>3. /\ echo_kind = "nonb" /\ echo_pc' = "select" /\ end = "not"
        /\ UNCHANGED <<echo_kind, shower, ready, stdineof, friptr, froptr, typed, eof, total, server, echo, died, shown, end>>
    BY <1>7 DEF Echo!NonbWrite
  <2>4. CASE k > 0 /\ tooptr + k = toiptr
    <3>1. /\ tooptr' = 0 /\ toiptr' = 0 /\ up' = (IF echo = "closed" THEN up ELSE up + k)
          /\ down' = down /\ tooptr < toiptr
      BY <2>1, <2>2, <2>4
    <3>2. fin' = (fin \/ stdineof)
      BY <2>1, <2>4
    <3>3. fin' => stdineof
      BY <3>2
    <3>4. ~(echo = "closed" /\ ~died)
      BY <3>1
    <3> QED
      BY <2>2, <2>3, <2>4, <3>1, <3>3, <3>4
  <2>5. CASE ~(k > 0 /\ tooptr + k = toiptr)
    <3>1. /\ tooptr' = tooptr + k /\ toiptr' = toiptr /\ up' = (IF echo = "closed" THEN up ELSE up + k)
          /\ fin' = fin /\ down' = down /\ tooptr + k <= toiptr
      BY <2>1, <2>2, <2>5 DEF Echo!Sends
    <3> QED
      BY <2>2, <2>3, <2>5, <3>1
  <2> QED
    BY <2>4, <2>5
<1>8. CASE Echo!NonbNotReady
  BY <1>8 DEF Echo!NonbNotReady
<1> QED
  BY <1>1, <1>2, <1>3, <1>4, <1>5, <1>6, <1>7, <1>8 DEF Echo!Nonb

\* str_cli on select.
LEMMA SelectKeeps == EchoInv /\ (Echo!SelSelect \/ Echo!SelSocket \/ Echo!SelStdin) => EchoInv'
<1> SUFFICES ASSUME EchoInv, Echo!SelSelect \/ Echo!SelSocket \/ Echo!SelStdin PROVE EchoInv'
  OBVIOUS
<1> USE DEF EchoInv, Sums, NothingLost, InHand, Buffers, EndOfInput, Found, ServerSide, AtTheEnd,
            Echo!to, Echo!fr, Echo!keys, Echo!net, Echo!serv, Echo!Goto, Echo!Runs
<1>1. CASE Echo!SelSelect
  <2>1. /\ "in" \in ready' => typed > 0 \/ eof
        /\ "read" \in ready' => down > 0 \/ echo = "closed"
        /\ "in" \in ready' \/ "read" \in ready'
    BY <1>1 DEF Echo!SelSelect, Echo!Readable
  <2> QED
    BY <1>1, <2>1 DEF Echo!SelSelect
<1>2. CASE Echo!SelSocket
  <2>1. CASE down = 0
    BY <1>2, <2>1 DEF Echo!SelSocket
  <2>2. CASE down # 0
    <3>1. PICK k \in 1 .. MAXLINE : k <= down /\ down' = down - k /\ UNCHANGED <<fin, up>> /\ shown' = shown + k
      BY <1>2, <2>2 DEF Echo!SelSocket, Echo!Receives
    <3>2. k \in Nat
      BY <3>1, EchoAssumption
    <3> QED
      BY <1>2, <2>2, <3>1, <3>2 DEF Echo!SelSocket
  <2> QED
    BY <2>1, <2>2
<1>3. CASE Echo!SelStdin
  <2>1. CASE typed = 0
    BY <1>3, <2>1 DEF Echo!SelStdin, Echo!Shutdown
  <2>2. CASE typed # 0
    <3>1. PICK k \in 1 .. MAXLINE : k <= typed /\ typed' = typed - k /\ UNCHANGED <<eof, total>> /\ toiptr' = k
      BY <1>3, <2>2 DEF Echo!SelStdin, Echo!Reads
    <3>2. k \in Nat /\ k > 0
      BY <3>1, EchoAssumption
    <3> QED
      BY <1>3, <2>2, <3>1, <3>2 DEF Echo!SelStdin
  <2> QED
    BY <2>1, <2>2
<1> QED
  BY <1>1, <1>2, <1>3

\* The process or thread that sends, and the write of select.
LEMMA SendsKeeps == EchoInv /\ (Echo!Fgets \/ Echo!FgetsEnd \/ Echo!Writen) => EchoInv'
<1> SUFFICES ASSUME EchoInv, Echo!Fgets \/ Echo!FgetsEnd \/ Echo!Writen PROVE EchoInv'
  OBVIOUS
<1> USE DEF EchoInv, Sums, NothingLost, InHand, Buffers, EndOfInput, Found, ServerSide, AtTheEnd,
            Echo!to, Echo!fr, Echo!keys, Echo!net, Echo!serv, Echo!Goto, Echo!Runs, Echo!Single
<1>1. CASE Echo!Fgets
  BY <1>1 DEF Echo!Fgets, Echo!Reads
<1>2. CASE Echo!FgetsEnd
  BY <1>2 DEF Echo!FgetsEnd, Echo!Shutdown
<1>3. CASE Echo!Writen
  <2>1. /\ tooptr < toiptr /\ ~fin /\ echo_pc' \in {"write", "select", "stdin"}
        /\ UNCHANGED <<echo_kind, shower, ready, stdineof, friptr, froptr, typed, eof, total, server, echo, died, shown, end,
                       fin, down>>
    BY <1>3 DEF Echo!Writen, Echo!Sends
  <2>2. up' = IF echo = "closed" THEN up ELSE up + 1
    BY <1>3 DEF Echo!Writen, Echo!Sends
  <2>3. \/ tooptr + 1 = toiptr /\ tooptr' = 0 /\ toiptr' = 0 /\ echo_pc' # "write"
        \/ tooptr + 1 < toiptr /\ tooptr' = tooptr + 1 /\ toiptr' = toiptr /\ echo_pc' = "write"
    BY <1>3, <2>1 DEF Echo!Writen
  <2> QED
    BY <1>3, <2>1, <2>2, <2>3 DEF Echo!Writen
<1> QED
  BY <1>1, <1>2, <1>3

\* The one that shows.
LEMMA ShowsKeeps == EchoInv /\ (Echo!Shower \/ Echo!Killed) => EchoInv'
<1> SUFFICES ASSUME EchoInv, Echo!Shower \/ Echo!Killed PROVE EchoInv'
  OBVIOUS
<1> USE DEF EchoInv, Sums, NothingLost, InHand, Buffers, EndOfInput, Found, ServerSide, AtTheEnd,
            Echo!to, Echo!fr, Echo!keys, Echo!net, Echo!serv, Echo!Runs, Echo!Single
<1>1. CASE Echo!Readline
  BY <1>1 DEF Echo!Readline, Echo!Receives
<1>2. CASE Echo!Fputs
  BY <1>2 DEF Echo!Fputs
<1>3. CASE Echo!ChildEnds \/ Echo!MainEnds
  <2>1. /\ down = 0 /\ echo = "closed" /\ shower = "read" /\ end' = "normal" /\ echo_kind \in {"fork", "thread"}
        /\ UNCHANGED Echo!to /\ UNCHANGED Echo!fr /\ UNCHANGED Echo!keys /\ UNCHANGED Echo!net /\ UNCHANGED Echo!serv
        /\ UNCHANGED <<echo_kind, echo_pc, shower, ready, stdineof, shown>>
    BY <1>3 DEF Echo!ChildEnds, Echo!MainEnds
  <2> QED
    BY <2>1
<1>4. CASE Echo!Killed
  BY <1>4 DEF Echo!Killed
<1> QED
  BY <1>1, <1>2, <1>3, <1>4 DEF Echo!Shower

LEMMA EchoStep == EchoInv /\ [Echo!Next]_(Echo!vars) => EchoInv'
<1>1. EchoInv /\ UNCHANGED Echo!vars => EchoInv'
  BY DEF EchoInv, Sums, NothingLost, InHand, Buffers, EndOfInput, Found, ServerSide, AtTheEnd,
         Echo!vars, Echo!to, Echo!fr, Echo!keys, Echo!net, Echo!serv
<1> QED
  BY <1>1, AroundKeeps, NonbKeeps, SelectKeeps, SendsKeeps, ShowsKeeps DEF Echo!Next, Echo!Sender

LEMMA NothingDroppedHolds == Echo!Spec => []Echo!NothingDropped
<1>1. Echo!Init => EchoInv
  BY DEF Echo!Init, Echo!Single, EchoInv, Sums, NothingLost, InHand, Buffers, EndOfInput, Found, ServerSide, AtTheEnd
<1>2. EchoInv => Echo!NothingDropped
  BY DEF EchoInv, Sums, NothingLost, InHand, EndOfInput, ServerSide, AtTheEnd, Echo!NothingDropped
<1> QED
  BY <1>1, <1>2, EchoStep, PTL DEF Echo!Spec

-----------------------------------------------------------------------------
\* What the ends of connections, of input and of servers leave behind is nothing, in
\* whatever order they come, and but for what NothingDropped names.
THEOREM NothingKeptHolds == PerConn!Spec /\ Echo!Spec => []NothingKept
<1>1. PerConn!KeepsNothing /\ Echo!NothingDropped <=> NothingKept
  BY DEF NothingKept
<1> QED
  BY <1>1, KeepsNothingHolds, NothingDroppedHolds, PTL
=============================================================================
