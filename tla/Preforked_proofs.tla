-------------------------- MODULE Preforked_proofs --------------------------
(***************************************************************************)
(* One process at a time is in accept, for any number of children, however *)
(* they are made, serve and are killed.                                    *)
(*                                                                         *)
(* OneAccepter is not inductive: the lock must be known to be held by the  *)
(* one who is in accept, and a lock whose holder dies must not be one that *)
(* another has meanwhile.                                                  *)
(***************************************************************************)
EXTENDS Preforked, TLAPS

InAccept == {"accept", "release"}

HolderAccepts == Locking => \A a \in Actors : pc[a] \in InAccept => holder = a

Inv == TypeOK /\ HolderAccepts

LEMMA Numbers == N \in Nat /\ NoOne \notin Actors /\ N \in Actors
BY NAssumption DEF NoOne, Actors

LEMMA InitInv == Init => Inv
BY Numbers DEF Init, Inv, TypeOK, HolderAccepts, Locking, InAccept, Actors, NoOne

-----------------------------------------------------------------------------
\* Who dies is not in accept; the lock is still with whoever is.
LEMMA DiedKeeps ==
  ASSUME Inv, NEW D \in SUBSET Actors, Died(D), kind' = kind
  PROVE  pc' \in [Actors -> Working \union {"none", "zombie", "gone"}] /\ holder' \in Actors \union {NoOne} /\ HolderAccepts'
<1>1. pc' \in [Actors -> Working \union {"none", "zombie", "gone"}]
  BY DEF Died, Inv, TypeOK
<1>2. holder' \in Actors \union {NoOne}
  BY DEF Died, HolderAfter, Inv, TypeOK
<1>3. ASSUME NEW a \in Actors, Locking, pc'[a] \in InAccept PROVE holder' = a
  <2>1. a \notin D /\ pc[a] \in InAccept
    BY <1>3 DEF Died, InAccept
  <2>2. holder = a
    BY <1>3, <2>1 DEF Inv, HolderAccepts
  <2> QED
    BY <2>1, <2>2 DEF Died, HolderAfter
<1> QED
  BY <1>1, <1>2, <1>3 DEF HolderAccepts, Locking

\* The end of all threads.
LEMMA ExitAllKeeps ==
  ASSUME Inv, NEW s \in {"exited", "failed", "killed"}, ExitAll(s), kind' = kind, holder' = holder
  PROVE  main' = s /\ pc' \in [Actors -> Working \union {"none", "zombie", "gone"}] /\ HolderAccepts'
BY DEF ExitAll, Alive, Working, Inv, TypeOK, HolderAccepts, Locking, InAccept

\* Nobody comes into accept, and the lock stays.
LEMMA QuietKeeps ==
  ASSUME Inv, kind' = kind, holder' = holder, \A a \in Actors : pc'[a] \in InAccept => pc[a] \in InAccept
  PROVE  HolderAccepts'
BY DEF Inv, HolderAccepts, Locking

\* Whoever gets the lock is alone: the one before has left accept.
LEMMA LockKeeps ==
  ASSUME Inv, NEW a \in Actors, Lock(a)
  PROVE  Inv'
<1>1. TypeOK'
  BY DEF Inv, TypeOK, Lock, NoLock, FileLock, SharedLock, ThreadLock, Goto, Working
<1>2. CASE NoLock(a)
  BY <1>1, <1>2 DEF Inv, NoLock, HolderAccepts, Locking
<1>3. CASE FileLock(a) \/ SharedLock(a) \/ ThreadLock(a)
  <2>1. holder = NoOne /\ holder' = a /\ kind' = kind /\ kind # "serv02" /\ pc' = [pc EXCEPT ![a] = "accept"]
    BY <1>3 DEF FileLock, SharedLock, ThreadLock, Goto
  <2>2. \A b \in Actors : pc[b] \notin InAccept
    BY <2>1, Numbers DEF Inv, HolderAccepts, Locking
  <2>3. \A b \in Actors : b # a => pc'[b] = pc[b]
    BY <2>1 DEF Inv, TypeOK
  <2>4. HolderAccepts'
    BY <2>1, <2>2, <2>3 DEF HolderAccepts
  <2> QED
    BY <1>1, <2>4 DEF Inv
<1> QED
  BY <1>2, <1>3 DEF Lock

\* Whoever gives the lock back is not in accept, and no other was.
LEMMA UnlockKeeps ==
  ASSUME Inv, NEW a \in Actors, Unlock(a)
  PROVE  Inv'
<1>1. TypeOK'
  BY DEF Inv, TypeOK, Unlock, FileUnlock, SharedUnlock, ThreadUnlock, Goto, Working
<1>2. Locking /\ pc[a] = "release" /\ pc' = [pc EXCEPT ![a] = "serve"] /\ kind' = kind
  BY DEF Unlock, FileUnlock, SharedUnlock, ThreadUnlock, Goto, Locking
<1>3. \A b \in Actors : b # a => pc[b] \notin InAccept
  BY <1>2 DEF Inv, HolderAccepts, InAccept
<1>4. \A b \in Actors : pc'[b] \notin InAccept
  BY <1>2, <1>3 DEF Inv, TypeOK, InAccept
<1> QED
  BY <1>1, <1>4 DEF Inv, HolderAccepts

-----------------------------------------------------------------------------
LEMMA MainKeeps ==
  ASSUME Inv, Main
  PROVE  Inv'
<1> USE DEF Inv
<1>1. CASE TcpListen
  BY <1>1, QuietKeeps DEF TcpListen, TypeOK
<1>2. CASE ChildMake
  <2>1. made \in Actors /\ TypeOK'
    BY <1>2, Numbers DEF ChildMake, TypeOK, Actors, Working
  <2>2. \A a \in Actors : pc'[a] \in InAccept => pc[a] \in InAccept
    BY <1>2 DEF ChildMake, TypeOK, InAccept
  <2> QED
    BY <1>2, <2>1, <2>2, QuietKeeps DEF ChildMake
<1>3. CASE ForkFails
  <2>1. TypeOK'
    BY <1>3 DEF ForkFails, TypeOK, Working
  <2>2. \A a \in Actors : pc'[a] \in InAccept => pc[a] \in InAccept
    BY <1>3 DEF ForkFails, TypeOK, InAccept
  <2> QED
    BY <1>3, <2>1, <2>2, QuietKeeps DEF ForkFails
<1>4. CASE ThreadMake
  <2>1. made \in Actors /\ TypeOK'
    BY <1>4, Numbers DEF ThreadMake, TypeOK, Actors, Working
  <2>2. \A a \in Actors : pc'[a] \in InAccept => pc[a] \in InAccept
    BY <1>4 DEF ThreadMake, TypeOK, InAccept
  <2> QED
    BY <1>4, <2>1, <2>2, QuietKeeps DEF ThreadMake
<1>5. CASE Installed
  BY <1>5, QuietKeeps DEF Installed, TypeOK
<1>6. CASE SigInt
  BY <1>6, QuietKeeps DEF SigInt, TypeOK
<1>7. CASE \E a \in Actors : Reap(a)
  <2>1. PICK a \in Actors : Reap(a)
    BY <1>7
  <2>2. \A b \in Actors : pc'[b] \in InAccept => pc[b] \in InAccept
    BY <2>1 DEF Reap, TypeOK, InAccept
  <2> QED
    BY <2>1, <2>2, QuietKeeps DEF Reap, TypeOK, Working
<1>8. CASE ExitAfterReap
  BY <1>8, QuietKeeps DEF ExitAfterReap, TypeOK
<1>9. CASE SigIntThreads
  BY <1>9, ExitAllKeeps DEF SigIntThreads, TypeOK
<1>10. CASE KilledEarly
  <2>1. CASE kind = "serv07"
    BY <1>10, <2>1, ExitAllKeeps DEF KilledEarly, TypeOK
  <2>2. CASE kind # "serv07"
    <3>1. kind' = kind /\ main' = "killed" /\ pc' = [pc EXCEPT ![N] = "gone"] /\ holder' = HolderAfter({N})
      BY <1>10, <2>2 DEF KilledEarly
    <3>2. TypeOK'
      BY <1>10, <3>1 DEF KilledEarly, TypeOK, HolderAfter, Working
    <3>3. ASSUME NEW a \in Actors, Locking, pc'[a] \in InAccept PROVE holder' = a
      <4>1. a # N /\ pc[a] \in InAccept
        BY <3>1, <3>3, Numbers DEF TypeOK, InAccept
      <4>2. holder = a
        BY <3>3, <4>1 DEF HolderAccepts
      <4> QED
        BY <3>1, <4>1, <4>2 DEF HolderAfter
    <3> QED
      BY <3>1, <3>2, <3>3 DEF HolderAccepts, Locking
  <2> QED
    BY <2>1, <2>2
<1> QED
  BY <1>1, <1>2, <1>3, <1>4, <1>5, <1>6, <1>7, <1>8, <1>9, <1>10 DEF Main

LEMMA StepInv == Inv /\ [Next]_vars => Inv'
<1> SUFFICES ASSUME Inv, [Next]_vars PROVE Inv'
  OBVIOUS
<1>1. CASE Main
  BY <1>1, MainKeeps
<1>2. CASE Connect
  BY <1>2, QuietKeeps DEF Connect, Inv, TypeOK
<1>3. ASSUME NEW a \in Actors, Lock(a) PROVE Inv'
  BY <1>3, LockKeeps
<1>4. ASSUME NEW a \in Actors, Accept(a) PROVE Inv'
  <2>1. TypeOK'
    BY <1>4 DEF Accept, Goto, Inv, TypeOK, Working
  <2>2. kind' = kind /\ holder' = holder /\ \A b \in Actors : pc'[b] \in InAccept => pc[b] \in InAccept
    BY <1>4 DEF Accept, Goto, Inv, TypeOK, InAccept
  <2> QED
    BY <2>1, <2>2, QuietKeeps DEF Inv
<1>5. ASSUME NEW a \in Actors, Unlock(a) PROVE Inv'
  BY <1>5, UnlockKeeps
<1>6. ASSUME NEW a \in Actors, ServeUntilEOF(a) PROVE Inv'
  <2>1. TypeOK'
    BY <1>6 DEF ServeUntilEOF, Goto, Inv, TypeOK, Working
  <2>2. kind' = kind /\ holder' = holder /\ \A b \in Actors : pc'[b] \in InAccept => pc[b] \in InAccept
    BY <1>6 DEF ServeUntilEOF, Goto, Inv, TypeOK, InAccept
  <2> QED
    BY <2>1, <2>2, QuietKeeps DEF Inv
<1>7. ASSUME NEW a \in Actors, BadRequest(a) PROVE Inv'
  <2>1. CASE kind = "serv07"
    BY <1>7, <2>1, ExitAllKeeps DEF BadRequest, Inv, TypeOK
  <2>2. CASE kind # "serv07"
    BY <1>7, <2>2, DiedKeeps DEF BadRequest, Inv, TypeOK
  <2> QED
    BY <2>1, <2>2
<1>8. ASSUME NEW a \in Actors, Die(a) PROVE Inv'
  BY <1>8, DiedKeeps DEF Die, Inv, TypeOK
<1>9. ASSUME NEW a \in Actors, Kill(a) PROVE Inv'
  BY <1>9, DiedKeeps DEF Kill, Inv, TypeOK
<1>10. CASE UNCHANGED vars
  BY <1>10 DEF vars, Inv, TypeOK, HolderAccepts, Locking
<1>11. ASSUME NEW a \in Actors, AcceptFails(a) PROVE Inv'
  <2>1. TypeOK'
    BY <1>11 DEF AcceptFails, Goto, Inv, TypeOK, Working
  <2>2. kind' = kind /\ holder' = holder /\ \A b \in Actors : pc'[b] \in InAccept => pc[b] \in InAccept
    BY <1>11 DEF AcceptFails, Goto, Inv, TypeOK, InAccept
  <2> QED
    BY <2>1, <2>2, QuietKeeps DEF Inv
<1> QED
  BY <1>1, <1>2, <1>3, <1>4, <1>5, <1>6, <1>7, <1>8, <1>9, <1>10, <1>11 DEF Next

\* Whatever the kind of lock, the number of children and their deaths, whoever is in
\* accept holds the lock.
THEOREM InvHolds == Spec => []Inv
BY InitInv, StepInv, PTL DEF Spec

\* Never two in accept ("Only one child process blocks in accept", serv03.c:5), for any
\* number of children.
THEOREM OneAccepterHolds == Spec => []OneAccepter
<1>1. Inv => OneAccepter
  BY DEF Inv, HolderAccepts, OneAccepter, InAccept
<1> QED
  BY <1>1, InvHolds, PTL
=============================================================================
