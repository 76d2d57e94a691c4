------------------------ MODULE EventServers_proofs ------------------------
(***************************************************************************)
(* The servers of MCEventServers, for any number of connections, timers,   *)
(* descriptors and signals: the one that closes idle connections (11-3),   *)
(* the one on select (6chp) and the loop that reads its signals (10-1).    *)
(***************************************************************************)
EXTENDS MCEventServers, SequenceTheorems, FiniteSetTheorems, WellFoundedInduction, TLAPS

-----------------------------------------------------------------------------
(* 11-3nonactive_conn.cpp.  OneTimerEach and NoStaleEvent are inductive only       *)
(* together: an event of a closed connection would be read through a pointer to a  *)
(* freed timer, and a connection loses its event before it is closed.  What makes  *)
(* OnlyIdleAreClosed hold is that the time a timer has left and the time its       *)
(* connection has been idle always make up the whole timeout.                      *)

IdleIsLeft == \A fd \in open : idle[fd] + left[timer[fd]] = Timeout

Inv == TypeOK /\ OneTimerEach /\ NoStaleEvent /\ AlarmGoesOn /\ IdleIsLeft

LEMMA Numbers ==
  /\ NFds \in Nat /\ TIMESLOT \in Nat /\ TIMESLOT > 0 /\ Timeout \in Nat
  /\ Listen \notin Fds /\ Pipe \notin Fds /\ Listen # Pipe
  /\ Fds \subseteq Nat
  /\ NULL \notin Nat /\ NULL \notin Timers
BY ConnsAssumption DEF Timeout, Listen, Pipe, Fds

LEMMA LessType ==
  ASSUME NEW m \in Nat, NEW n \in 0 .. m \union {NULL}
  PROVE  /\ Less(n) \in 0 .. m \union {NULL}
         /\ Less(n) = NULL <=> n = NULL
         /\ n \in 0 .. m => Less(n) = IF n = 0 THEN 0 ELSE n - 1
BY Numbers DEF Less

LEMMA InitInv == Init => Inv
<1> SUFFICES ASSUME Init PROVE Inv
  OBVIOUS
<1>1. TypeOK
  <2>1. 0 \in 0 .. Timeout /\ TIMESLOT \in 0 .. TIMESLOT
    BY Numbers
  <2> QED
    BY <2>1 DEF Init, TypeOK
<1>2. Allocated = {}
  BY DEF Init, Allocated
<1> QED
  BY <1>1, <1>2, Numbers DEF Init, Inv, OneTimerEach, NoStaleEvent, AlarmGoesOn, IdleIsLeft

-----------------------------------------------------------------------------
\* Connections are closed and their timers deleted: the rest keep their own.
LEMMA CloseKeeps ==
  ASSUME Inv, NEW fds \in SUBSET open, Closed(fds), Deleted({timer[fd] : fd \in fds})
  PROVE  OneTimerEach' /\ IdleIsLeft'
<1>1. \A fd \in open : timer[fd] \in Allocated /\ user_data[timer[fd]] = fd
  BY DEF Inv, OneTimerEach
<1>2. \A t \in Allocated : user_data[t] \in open /\ timer[user_data[t]] = t /\ t \in Timers
  BY DEF Inv, OneTimerEach, Allocated
<1>3. open' = open \ fds /\ timer' = timer
  BY DEF Closed, Deleted
<1>4. ASSUME NEW t \in Timers
      PROVE  /\ t \in {timer[fd] : fd \in fds} => left'[t] = NULL
             /\ t \notin {timer[fd] : fd \in fds} => left'[t] = left[t] /\ user_data'[t] = user_data[t]
  BY DEF Deleted
<1>5. ASSUME NEW fd \in open'
      PROVE  /\ fd \in open /\ fd \in Fds /\ timer[fd] \in Timers
             /\ timer[fd] \in Allocated' /\ left'[timer[fd]] = left[timer[fd]]
             /\ user_data'[timer[fd]] = fd /\ idle'[fd] = idle[fd]
  <2>1. fd \in open /\ fd \notin fds /\ fd \in Fds
    BY <1>3 DEF Inv, TypeOK
  <2>2. timer[fd] \in Timers /\ left[timer[fd]] # NULL
    BY <2>1, <1>1 DEF Allocated
  <2>3. timer[fd] \notin {timer[other] : other \in fds}
    BY <2>1, <1>1
  <2>4. idle'[fd] = idle[fd]
    BY <2>1 DEF Closed
  <2> QED
    BY <2>1, <2>2, <2>3, <2>4, <1>1, <1>4 DEF Allocated
<1>6. ASSUME NEW t \in Allocated'
      PROVE  user_data'[t] \in open' /\ timer'[user_data'[t]] = t
  <2>1. t \in Timers /\ left'[t] # NULL
    BY DEF Allocated
  <2>2. t \notin {timer[fd] : fd \in fds} /\ left[t] = left'[t] /\ user_data'[t] = user_data[t]
    BY <2>1, <1>4
  <2>3. t \in Allocated
    BY <2>1, <2>2 DEF Allocated
  <2>4. user_data[t] \notin fds
    BY <2>2, <2>3, <1>2
  <2> QED
    BY <2>2, <2>3, <2>4, <1>2, <1>3
<1>7. OneTimerEach'
  BY <1>3, <1>5, <1>6 DEF OneTimerEach
<1>8. IdleIsLeft'
  BY <1>3, <1>5 DEF Inv, IdleIsLeft
<1> QED
  BY <1>7, <1>8

\* The connections that the timers of a tick close, and their timers.
LEMMA FiredAre ==
  ASSUME Inv, NEW fired \in SUBSET Allocated, NEW fds, fds = {user_data[t] : t \in fired}
  PROVE  fds \subseteq open /\ fired = {timer[fd] : fd \in fds}
BY DEF Inv, OneTimerEach

LEMMA ClosedTypes ==
  ASSUME Inv, NEW fds \in SUBSET open, NEW ts, Closed(fds), Deleted(ts)
  PROVE  /\ open' \subseteq Fds /\ ready' \subseteq open' \union {Listen, Pipe}
         /\ data' \in [Fds -> Nat] /\ end' \in [Fds -> BOOLEAN]
         /\ idle' \in [Fds -> 0 .. Timeout]
         /\ timer' \in [Fds -> Timers \union {NULL}]
         /\ left' \in [Timers -> 0 .. Timeout \union {NULL}]
         /\ user_data' \in [Timers -> Fds \union {NULL}]
         /\ Pipe \in ready => Pipe \in ready'
<1>1. open' = open \ fds /\ ready' = ready \ fds /\ timer' = timer
  BY DEF Closed, Deleted
<1>2. open' \subseteq Fds /\ ready' \subseteq open' \union {Listen, Pipe}
  BY <1>1 DEF Inv, TypeOK
<1>3. data' \in [Fds -> Nat] /\ end' \in [Fds -> BOOLEAN] /\ idle' \in [Fds -> 0 .. Timeout]
  <2>1. 0 \in 0 .. Timeout
    BY Numbers
  <2> QED
    BY <2>1 DEF Closed, Inv, TypeOK
<1>4. left' \in [Timers -> 0 .. Timeout \union {NULL}] /\ user_data' \in [Timers -> Fds \union {NULL}]
  BY DEF Deleted, Inv, TypeOK
<1>5. Pipe \in ready => Pipe \in ready'
  BY <1>1, Numbers DEF Inv, TypeOK
<1> QED
  BY <1>1, <1>2, <1>3, <1>4, <1>5 DEF Inv, TypeOK

-----------------------------------------------------------------------------
(* One lemma for each action. *)

LEMMA ConnectInv == ASSUME Inv, Connect PROVE Inv'
<1>1. TypeOK'
  BY DEF Connect, loop, timers, Inv, TypeOK
<1> QED
  BY <1>1 DEF Connect, loop, timers, Inv, OneTimerEach, Allocated, NoStaleEvent, AlarmGoesOn, IdleIsLeft

LEMMA PeerSendsInv == ASSUME Inv, NEW fd \in Fds, PeerSends(fd) PROVE Inv'
<1>1. TypeOK'
  BY DEF PeerSends, loop, timers, Inv, TypeOK
<1> QED
  BY <1>1 DEF PeerSends, loop, timers, Inv, OneTimerEach, Allocated, NoStaleEvent, AlarmGoesOn, IdleIsLeft

LEMMA PeerEndsInv == ASSUME Inv, NEW fd \in Fds, PeerEnds(fd) PROVE Inv'
<1>1. TypeOK'
  BY DEF PeerEnds, loop, timers, Inv, TypeOK
<1> QED
  BY <1>1 DEF PeerEnds, loop, timers, Inv, OneTimerEach, Allocated, NoStaleEvent, AlarmGoesOn, IdleIsLeft

LEMMA SignalInv ==
  ASSUME Inv, NEW sig \in {"SIGALRM", "SIGTERM"}, Signal(sig),
         alarm' \in {alarm, NULL}, alarm' # alarm => sig = "SIGALRM"
  PROVE  Inv'
<1>1. TypeOK'
  BY DEF Signal, loop, timers, sockets, Inv, TypeOK
<1>2. AlarmGoesOn'
  BY DEF Signal, loop, Inv, AlarmGoesOn
<1> QED
  BY <1>1, <1>2 DEF Signal, loop, timers, sockets, Inv, OneTimerEach, Allocated, NoStaleEvent, IdleIsLeft

LEMMA TimePassesInv == ASSUME Inv, TimePasses PROVE Inv'
<1>1. \A t \in Timers : left[t] \in 0 .. Timeout \union {NULL} /\ left'[t] = Less(left[t])
  BY DEF TimePasses, Inv, TypeOK
<1>2. left' \in [Timers -> 0 .. Timeout \union {NULL}]
  BY <1>1, LessType, Numbers DEF TimePasses
<1>3. alarm' \in 0 .. TIMESLOT \union {NULL} /\ (alarm' = NULL <=> alarm = NULL)
  BY LessType, Numbers DEF TimePasses, Inv, TypeOK
<1>4. idle' \in [Fds -> 0 .. Timeout]
  BY Numbers DEF TimePasses, Inv, TypeOK
<1>5. TypeOK'
  BY <1>2, <1>3, <1>4 DEF TimePasses, loop, sockets, Inv, TypeOK
<1>6. Allocated' = Allocated
  BY <1>1, LessType, Numbers DEF Allocated
<1>7. OneTimerEach'
  BY <1>6 DEF TimePasses, sockets, Inv, OneTimerEach
<1>8. ASSUME NEW fd \in open'
      PROVE  idle'[fd] + left'[timer'[fd]] = Timeout
  <2>1. fd \in open /\ fd \in Fds /\ timer'[fd] = timer[fd]
    BY DEF TimePasses, sockets, Inv, TypeOK
  <2>2. timer[fd] \in Timers /\ left[timer[fd]] \in 0 .. Timeout
    BY <1>1, <2>1 DEF Inv, OneTimerEach, Allocated
  <2>3. left'[timer[fd]] = IF left[timer[fd]] = 0 THEN 0 ELSE left[timer[fd]] - 1
    BY <1>1, <2>2, LessType, Numbers
  <2>4. idle'[fd] = IF idle[fd] < Timeout THEN idle[fd] + 1 ELSE idle[fd]
    BY <2>1 DEF TimePasses
  <2>5. idle[fd] \in 0 .. Timeout /\ idle[fd] + left[timer[fd]] = Timeout
    BY <2>1 DEF Inv, TypeOK, IdleIsLeft
  <2> QED
    BY <2>1, <2>2, <2>3, <2>4, <2>5, Numbers
<1> QED
  BY <1>3, <1>5, <1>7, <1>8 DEF TimePasses, loop, sockets, Inv, NoStaleEvent, AlarmGoesOn, IdleIsLeft

LEMMA EpollWaitInv == ASSUME Inv, EpollWait PROVE Inv'
<1>1. TypeOK'
  BY DEF EpollWait, timers, sockets, Inv, TypeOK
<1>2. NoStaleEvent'
  BY Numbers DEF EpollWait, sockets, Inv, TypeOK, NoStaleEvent
<1>3. AlarmGoesOn'
  BY DEF EpollWait, Inv, TypeOK, AlarmGoesOn
<1> QED
  BY <1>1, <1>2, <1>3 DEF EpollWait, timers, sockets, Inv, OneTimerEach, Allocated, IdleIsLeft

LEMMA AcceptInv == ASSUME Inv, Accept PROVE Inv'
<1>1. PICK new \in Fds \ open, n \in 0 .. MaxData, ended \in BOOLEAN, t \in Timers \ Allocated :
        /\ open' = open \union {new}
        /\ data' = [data EXCEPT ![new] = n]
        /\ end' = [end EXCEPT ![new] = ended]
        /\ ready' = IF n > 0 \/ ended THEN ready \union {new} ELSE ready
        /\ timer' = [timer EXCEPT ![new] = t]
        /\ left' = [left EXCEPT ![t] = Timeout]
        /\ user_data' = [user_data EXCEPT ![t] = new]
        /\ idle' = [idle EXCEPT ![new] = 0]
  BY DEF Accept
<1>2. /\ events' = events \ {Listen} /\ pc' = pc /\ backlog' = backlog - 1 /\ backlog > 0
      /\ timeout' = timeout /\ stop_server' = stop_server /\ sigs' = sigs /\ alarm' = alarm
  BY DEF Accept, Handles
<1>3. Timeout \in 0 .. Timeout /\ 0 \in 0 .. Timeout /\ 0 .. MaxData \subseteq Nat /\ NULL # Timeout
  BY Numbers
<1>4. backlog' \in Nat
  BY <1>2 DEF Inv, TypeOK
<1>5. TypeOK'
  <2>1. data' \in [Fds -> Nat] /\ end' \in [Fds -> BOOLEAN] /\ idle' \in [Fds -> 0 .. Timeout]
    BY <1>1, <1>3 DEF Inv, TypeOK
  <2>2. /\ timer' \in [Fds -> Timers \union {NULL}]
        /\ left' \in [Timers -> 0 .. Timeout \union {NULL}]
        /\ user_data' \in [Timers -> Fds \union {NULL}]
    BY <1>1, <1>3 DEF Inv, TypeOK
  <2>3. open' \subseteq Fds /\ ready' \subseteq open' \union {Listen, Pipe}
    BY <1>1 DEF Inv, TypeOK
  <2> QED
    BY <1>2, <1>4, <2>1, <2>2, <2>3 DEF Inv, TypeOK
<1>6. Allocated' = Allocated \union {t}
  BY <1>1, <1>3 DEF Allocated, Inv, TypeOK
<1>7. \A fd \in open : fd \in Fds /\ fd # new /\ timer[fd] \in Allocated /\ timer[fd] # t /\ timer[fd] \in Timers
  BY DEF Inv, TypeOK, OneTimerEach, Allocated
<1>8. \A u \in Allocated : u \in Timers /\ u # t /\ user_data[u] \in open
  BY DEF Inv, OneTimerEach, Allocated
<1>9. timer'[new] = t /\ user_data'[t] = new /\ left'[t] = Timeout /\ idle'[new] = 0
  BY <1>1 DEF Inv, TypeOK
<1>10. \A fd \in open : timer'[fd] = timer[fd] /\ idle'[fd] = idle[fd]
  BY <1>1, <1>7 DEF Inv, TypeOK
<1>11. \A u \in Allocated : user_data'[u] = user_data[u] /\ left'[u] = left[u]
  BY <1>1, <1>8 DEF Inv, TypeOK
<1>12. OneTimerEach'
  BY <1>1, <1>6, <1>7, <1>8, <1>9, <1>10, <1>11 DEF Inv, OneTimerEach
<1>13. IdleIsLeft'
  BY <1>1, <1>7, <1>9, <1>10, <1>11, Numbers DEF Inv, IdleIsLeft
<1>14. NoStaleEvent' /\ AlarmGoesOn'
  BY <1>1, <1>2, Numbers DEF Inv, NoStaleEvent, AlarmGoesOn
<1> QED
  BY <1>5, <1>12, <1>13, <1>14 DEF Inv

LEMMA SignalsInv == ASSUME Inv, Signals PROVE Inv'
<1>1. TypeOK'
  BY DEF Signals, Handles, timers, sockets, Inv, TypeOK
<1>2. AlarmGoesOn'
  BY DEF Signals, Handles, Inv, AlarmGoesOn
<1>3. NoStaleEvent'
  BY DEF Signals, Handles, sockets, Inv, NoStaleEvent
<1> QED
  BY <1>1, <1>2, <1>3 DEF Signals, timers, sockets, Inv, OneTimerEach, Allocated, IdleIsLeft

LEMMA ReadInv == ASSUME Inv, NEW fd \in Fds, Read(fd) PROVE Inv'
<1>1. fd \in open /\ fd # Pipe /\ timer[fd] \in Timers /\ left[timer[fd]] # NULL
  BY Numbers DEF Read, Handles, Inv, NoStaleEvent, OneTimerEach, Allocated
<1>2. data' \in [Fds -> Nat] /\ left' \in [Timers -> 0 .. Timeout \union {NULL}] /\ idle' \in [Fds -> 0 .. Timeout]
  <2>1. 0 \in 0 .. Timeout /\ Timeout \in 0 .. Timeout
    BY Numbers
  <2>2. PICK k \in 0 .. data[fd] - 1 : data' = [data EXCEPT ![fd] = k]
    BY DEF Read
  <2>3. data[fd] \in Nat /\ k \in Nat
    BY <2>2 DEF Inv, TypeOK
  <2>4. data' \in [Fds -> Nat]
    BY <2>2, <2>3 DEF Inv, TypeOK
  <2> QED
    BY <2>1, <2>4 DEF Read, Inv, TypeOK
<1>3. TypeOK'
  BY <1>2 DEF Read, Handles, Inv, TypeOK
<1>4. Allocated' = Allocated
  BY <1>1, Numbers DEF Read, Allocated, Inv, TypeOK
<1>5. OneTimerEach'
  BY <1>4 DEF Read, Inv, OneTimerEach
<1>6. ASSUME NEW other \in open
      PROVE  idle'[other] + left'[timer[other]] = Timeout
  <2>1. other \in Fds /\ timer[other] \in Timers
    BY DEF Inv, TypeOK, OneTimerEach, Allocated
  <2>2. CASE other = fd
    <3>1. idle'[other] = 0 /\ left'[timer[other]] = Timeout
      BY <1>1, <2>2 DEF Read, Inv, TypeOK
    <3> QED
      BY <3>1, Numbers
  <2>3. CASE other # fd
    <3>1. timer[other] # timer[fd]
      BY <1>1, <2>3 DEF Inv, OneTimerEach
    <3>2. idle'[other] = idle[other] /\ left'[timer[other]] = left[timer[other]]
      BY <2>1, <2>3, <3>1 DEF Read, Inv, TypeOK
    <3> QED
      BY <3>2 DEF Inv, IdleIsLeft
  <2> QED
    BY <2>2, <2>3
<1>7. IdleIsLeft'
  BY <1>6 DEF Read, IdleIsLeft
<1>8. NoStaleEvent' /\ AlarmGoesOn'
  BY <1>1 DEF Read, Handles, Inv, NoStaleEvent, AlarmGoesOn
<1> QED
  BY <1>3, <1>5, <1>7, <1>8 DEF Inv

LEMMA ReadNothingInv == ASSUME Inv, NEW fd \in Fds, ReadNothing(fd) PROVE Inv'
<1>1. fd # Pipe
  BY Numbers
<1>2. TypeOK' /\ NoStaleEvent' /\ AlarmGoesOn'
  BY <1>1 DEF ReadNothing, Handles, sockets, timers, Inv, TypeOK, NoStaleEvent, AlarmGoesOn
<1>3. OneTimerEach' /\ IdleIsLeft'
  BY DEF ReadNothing, sockets, timers, Inv, OneTimerEach, Allocated, IdleIsLeft
<1> QED
  BY <1>2, <1>3 DEF Inv

LEMMA ReadEndInv == ASSUME Inv, NEW fd \in Fds, ReadEnd(fd) PROVE Inv'
<1>1. fd \in open /\ fd # Pipe
  BY Numbers DEF ReadEnd, Handles, Inv, NoStaleEvent
<1> DEFINE fds == {fd}
           ts == {timer[fd]}
<1>2. fds \in SUBSET open /\ ts = {timer[other] : other \in fds}
  BY <1>1
<1>3. Closed(fds) /\ Deleted(ts)
  BY DEF ReadEnd
<1>4. /\ events' = events \ {fd} /\ pc = "batch" /\ pc' = pc /\ timeout' = timeout /\ stop_server' = stop_server
      /\ backlog' = backlog /\ sigs' = sigs /\ alarm' = alarm
  BY DEF ReadEnd, Handles
<1>5. open' = open \ fds /\ (Pipe \in ready => Pipe \in ready')
  BY <1>1, <1>3 DEF Closed
<1> HIDE DEF fds, ts
<1>6. OneTimerEach' /\ IdleIsLeft'
  BY <1>2, <1>3, CloseKeeps
<1>7. TypeOK'
  BY <1>2, <1>3, <1>4, ClosedTypes DEF Inv, TypeOK
<1>8. NoStaleEvent'
  BY <1>4, <1>5 DEF fds, Inv, NoStaleEvent
<1>9. AlarmGoesOn'
  BY <1>1, <1>4, <1>5 DEF Inv, AlarmGoesOn
<1> QED
  BY <1>6, <1>7, <1>8, <1>9 DEF Inv

LEMMA BatchEndsInv == ASSUME Inv, BatchEnds PROVE Inv'
<1>1. /\ events = {} /\ events' = {} /\ pc = "batch" /\ pc' \in {"wait", "done"}
      /\ timeout' = FALSE /\ stop_server' = stop_server /\ sigs' = sigs
  BY DEF BatchEnds
<1>2. CASE timeout
  <2> DEFINE fired == {t \in Allocated : left[t] = 0}
             fds == {user_data[t] : t \in fired}
  <2>1. Closed(fds) /\ Deleted(fired) /\ alarm' = TIMESLOT /\ backlog' = backlog
    BY <1>2 DEF BatchEnds, Tick
  <2>2. fired \in SUBSET Allocated /\ fds = {user_data[t] : t \in fired}
    OBVIOUS
  <2> HIDE DEF fired, fds
  <2>3. fds \in SUBSET open /\ fired = {timer[fd] : fd \in fds}
    BY <2>2, FiredAre
  <2>4. OneTimerEach' /\ IdleIsLeft'
    BY <2>1, <2>3, CloseKeeps
  <2>5. Pipe \in ready => Pipe \in ready'
    BY <2>1, <2>3, ClosedTypes
  <2>6. TypeOK'
    <3>1. alarm' \in 0 .. TIMESLOT \union {NULL}
      BY <2>1, Numbers
    <3> QED
      BY <1>1, <2>1, <2>3, <3>1, ClosedTypes DEF Inv, TypeOK
  <2>7. NoStaleEvent' /\ AlarmGoesOn'
    BY <1>1, <2>1, <2>5, Numbers DEF Inv, NoStaleEvent, AlarmGoesOn
  <2> QED
    BY <2>4, <2>6, <2>7 DEF Inv
<1>3. CASE ~timeout
  <2>1. UNCHANGED <<sockets, timers, ready, alarm, idle>>
    BY <1>3 DEF BatchEnds
  <2>2. TypeOK'
    BY <1>1, <2>1 DEF sockets, timers, Inv, TypeOK
  <2> QED
    BY <1>1, <1>3, <2>1, <2>2
    DEF sockets, timers, Inv, OneTimerEach, Allocated, IdleIsLeft, NoStaleEvent, AlarmGoesOn
<1> QED
  BY <1>2, <1>3

LEMMA StepInv == Inv /\ [Next]_vars => Inv'
<1> SUFFICES ASSUME Inv, [Next]_vars PROVE Inv'
  OBVIOUS
<1>1. CASE Server
  BY <1>1, EpollWaitInv, AcceptInv, SignalsInv, BatchEndsInv, ReadInv, ReadNothingInv, ReadEndInv DEF Server
<1>2. CASE Peers
  BY <1>2, ConnectInv, PeerSendsInv, PeerEndsInv DEF Peers
<1>3. CASE TimePasses
  BY <1>3, TimePassesInv
<1>4. CASE AlarmRings
  BY <1>4, SignalInv DEF AlarmRings
<1>5. CASE Terminate
  BY <1>5, SignalInv DEF Terminate
<1>6. CASE UNCHANGED vars
  BY <1>6 DEF vars, loop, sockets, timers, Inv, TypeOK, OneTimerEach, Allocated, NoStaleEvent, AlarmGoesOn, IdleIsLeft
<1> QED
  BY <1>1, <1>2, <1>3, <1>4, <1>5, <1>6 DEF Next

-----------------------------------------------------------------------------
\* The inductive invariant of the server that closes idle connections.
THEOREM InvHolds == Spec => []Inv
BY InitInv, StepInv, PTL DEF Spec

\* Type correctness of the server (TypeOK).
THEOREM TypeCorrect == Spec => []TypeOK
<1>1. Inv => TypeOK
  BY DEF Inv
<1> QED
  BY <1>1, InvHolds, PTL

\* No timer is leaked, and none is followed after it was freed (OneTimerEach).
THEOREM OneTimerEachHolds == Spec => []OneTimerEach
<1>1. Inv => OneTimerEach
  BY DEF Inv
<1> QED
  BY <1>1, InvHolds, PTL

\* No event outlives its connection (NoStaleEvent).
THEOREM NoStaleEventHolds == Spec => []NoStaleEvent
<1>1. Inv => NoStaleEvent
  BY DEF Inv
<1> QED
  BY <1>1, InvHolds, PTL

\* The chain of alarms does not break (AlarmGoesOn).
THEOREM AlarmGoesOnHolds == Spec => []AlarmGoesOn
<1>1. Inv => AlarmGoesOn
  BY DEF Inv
<1> QED
  BY <1>1, InvHolds, PTL

-----------------------------------------------------------------------------
LEMMA StepClosesIdle ==
  ASSUME Inv, [Next]_vars, NEW fd \in open
  PROVE  fd \in open' \/ end[fd] \/ idle[fd] = Timeout
<1>1. fd \in Fds /\ timer[fd] \in Allocated /\ user_data[timer[fd]] = fd
  BY DEF Inv, TypeOK, OneTimerEach
<1>2. CASE BatchEnds
  <2> DEFINE fired == {t \in Allocated : left[t] = 0}
  <2>1. CASE timeout /\ left[timer[fd]] = 0
    <3>1. idle[fd] \in Nat /\ idle[fd] + 0 = Timeout
      BY <2>1 DEF Inv, TypeOK, IdleIsLeft
    <3> QED
      BY <3>1
  <2>2. CASE timeout /\ left[timer[fd]] # 0
    <3>1. open' = open \ {user_data[t] : t \in fired}
      BY <1>2, <2>2 DEF BatchEnds, Tick, Closed
    <3>2. \A t \in fired : user_data[t] # fd
      BY <2>2 DEF Inv, OneTimerEach
    <3> QED
      BY <3>1, <3>2
  <2>3. CASE ~timeout
    BY <1>2, <2>3 DEF BatchEnds, sockets
  <2> QED
    BY <2>1, <2>2, <2>3
<1>3. ASSUME NEW other \in Fds, ReadEnd(other)
      PROVE  fd \in open' \/ end[fd]
  <2>1. other \in open
    BY <1>3 DEF ReadEnd, Handles, Inv, NoStaleEvent
  <2> QED
    BY <1>3, <2>1 DEF ReadEnd, Closed
<1>4. CASE Server
  BY <1>2, <1>3, <1>4 DEF Server, EpollWait, Accept, Signals, Read, ReadNothing, sockets
<1>5. CASE Peers \/ TimePasses \/ AlarmRings \/ Terminate \/ UNCHANGED vars
  BY <1>5 DEF Peers, Connect, PeerSends, PeerEnds, TimePasses, AlarmRings, Terminate, Signal, sockets, vars
<1> QED
  BY <1>4, <1>5 DEF Next

\* A timer closes none but idle connections (OnlyIdleAreClosed).
THEOREM OnlyIdleAreClosedHolds == Spec => OnlyIdleAreClosed
<1>1. Inv /\ [Next]_vars => [\A fd \in open : fd \in open' \/ end[fd] \/ idle[fd] = Timeout]_vars
  BY StepClosesIdle
<1> QED
  BY <1>1, InvHolds, PTL DEF Spec, OnlyIdleAreClosed

-----------------------------------------------------------------------------
(* The signals of 10-1.  One recv empties the pipe, and whoever writes into it     *)
(* makes an edge: what is in the pipe is told of, by the edge or by the batch it   *)
(* has become part of, until it is read.                                           *)

LEMMA SameCardinality == \A S : Loop!Cardinality(S) = Cardinality(S) /\ Select!Cardinality(S) = Cardinality(S)
BY DEF Loop!Cardinality, Select!Cardinality, Cardinality

\* A batch has each of the edges.
LEMMA BatchHasAll ==
  ASSUME NEW S, IsFiniteSet(S), NEW W, S \subseteq W, NEW seq \in Loop!SetToSeqs(S)
  PROVE  seq \in Seq(W) /\ \A x \in S : \E k \in 1 .. Len(seq) : seq[k] = x
<1> DEFINE n == Cardinality(S)
<1>1. n \in Nat
  BY FS_CardinalityType
<1>2. seq \in [1 .. n -> S] /\ \A i, j \in 1 .. n : i # j => seq[i] # seq[j]
  BY SameCardinality DEF Loop!SetToSeqs
<1>3. IsFiniteSet(1 .. n) /\ Cardinality(1 .. n) = n
  <2> HIDE DEF n
  <2> QED
    BY <1>1, FS_Interval
<1>4. seq \in Injection(1 .. n, S)
  BY <1>2 DEF Injection, IsInjective
<1>5. seq \in Surjection(1 .. n, S)
  BY <1>3, <1>4, FS_Injection
<1> HIDE DEF n
<1>6. seq \in [1 .. n -> W]
  BY <1>2
<1>7. seq \in Seq(W) /\ Len(seq) = n
  BY <1>1, <1>6
<1> QED
  BY <1>5, <1>7 DEF Surjection

Watched == {"listenfd", "pipefd"}

LEMMA WatchedFinite == IsFiniteSet(Watched)
<1>1. IsFiniteSet({"listenfd"})
  BY FS_Singleton
<1>2. {"listenfd"} \union {"pipefd"} = Watched
  BY DEF Watched
<1>3. IsFiniteSet({"listenfd"} \union {"pipefd"})
  BY <1>1, FS_AddElement
<1> QED
  BY <1>2, <1>3

\* A batch is of what is watched and has each of the edges.
LEMMA WatchedBatch ==
  ASSUME edges \subseteq Watched, NEW seq \in Loop!SetToSeqs(edges)
  PROVE  seq \in Seq(Watched) /\ \A x \in edges : \E k \in 1 .. Len(seq) : seq[k] = x
<1>1. IsFiniteSet(edges)
  BY WatchedFinite, FS_Subset
<1> QED
  BY <1>1, BatchHasAll

PipeInv ==
  /\ pipe \in Seq(Signums) /\ Len(pipe) <= Room
  /\ sig_events \in Seq(Watched) /\ edges \subseteq Watched
  /\ sig_loop # "events" => sig_events = <<>>
  /\ Loop!NoSignalLeftBehind

LEMMA PipeStep == PipeInv /\ [Loop!Next]_(Loop!vars) => PipeInv'
<1> SUFFICES ASSUME PipeInv, [Loop!Next]_(Loop!vars) PROVE PipeInv'
  OBVIOUS
<1> USE DEF PipeInv, Loop!NoSignalLeftBehind, Watched
<1>1. CASE Loop!Start
  BY <1>1 DEF Loop!Start
<1>2. CASE Loop!Connect
  BY <1>2 DEF Loop!Connect
<1>3. ASSUME NEW sig \in Signums, Loop!Raise(sig) PROVE PipeInv'
  BY <1>3 DEF Loop!Raise
<1>4. ASSUME NEW sig \in Signums, Loop!Handler(sig) PROVE PipeInv'
  <2>1. CASE Len(pipe) < Room
    <3>1. /\ pipe' = Append(pipe, sig) /\ edges' = edges \union {"pipefd"}
          /\ UNCHANGED <<sig_events, sig_loop>>
      BY <1>4, <2>1 DEF Loop!Handler
    <3>2. Room \in Nat /\ Len(pipe) \in Nat
      BY LoopsAssumption
    <3>3. pipe' \in Seq(Signums) /\ Len(pipe') = Len(pipe) + 1
      BY <3>1
    <3>4. Len(pipe') <= Room
      BY <2>1, <3>2, <3>3
    <3> QED
      BY <3>1, <3>3, <3>4
  <2>2. CASE ~(Len(pipe) < Room)
    BY <1>4, <2>2 DEF Loop!Handler
  <2> QED
    BY <2>1, <2>2
<1>5. CASE Loop!EpollWait
  <2>1. sig_events' \in Loop!SetToSeqs(edges) /\ sig_loop = "wait" /\ pipe' = pipe /\ edges' = {}
    BY <1>5 DEF Loop!EpollWait
  <2>2. edges \subseteq Watched
    OBVIOUS
  <2>3. sig_events' \in Seq(Watched) /\ \A x \in edges : \E k \in 1 .. Len(sig_events') : sig_events'[k] = x
    <3> HIDE DEF Watched, PipeInv, Loop!NoSignalLeftBehind
    <3> QED
      BY <2>1, <2>2, WatchedBatch
  <2>4. pipe # <<>> => "pipefd" \in edges
    BY <2>1
  <2>5. sig_loop' = "events"
    BY <1>5 DEF Loop!EpollWait
  <2> QED
    BY <2>1, <2>3, <2>4, <2>5
<1>6. CASE Loop!Accept
  <2>1. sig_events # <<>> /\ sig_events' = Tail(sig_events) /\ sig_events[1] # "pipefd"
    BY <1>6 DEF Loop!Accept
  <2> QED
    BY <1>6, <2>1 DEF Loop!Accept
<1>7. CASE Loop!ReadSignals
  <2>1. Len(pipe) \in Nat /\ Len(pipe) <= ToRead /\ ToRead \in Nat
    BY LoopsAssumption
  <2>2. pipe' = SubSeq(pipe, Len(pipe) + 1, Len(pipe))
    <3> DEFINE k == IF Len(pipe) < ToRead THEN Len(pipe) ELSE ToRead
    <3>1. k = Len(pipe)
      BY <2>1
    <3>2. pipe' = SubSeq(pipe, k + 1, Len(pipe))
      BY <1>7 DEF Loop!ReadSignals
    <3> QED
      BY <3>1, <3>2
  <2>3. pipe' = <<>>
    BY <2>1, <2>2
  <2>4. sig_events # <<>> /\ sig_events' = Tail(sig_events) /\ sig_loop' = "events" /\ edges' = edges
    BY <1>7 DEF Loop!ReadSignals
  <2> QED
    BY <2>3, <2>4, LoopsAssumption
<1>8. CASE Loop!NothingRead
  BY <1>8 DEF Loop!NothingRead
<1>9. CASE Loop!EventsEnd
  BY <1>9 DEF Loop!EventsEnd
<1>10. CASE UNCHANGED Loop!vars
  BY <1>10 DEF Loop!vars
<1> QED
  BY <1>1, <1>2, <1>3, <1>4, <1>5, <1>6, <1>7, <1>8, <1>9, <1>10 DEF Loop!Next

LEMMA PipeInvHolds == Loop!Spec => []PipeInv
<1>1. Loop!Init => PipeInv
  <2>1. <<>> \in Seq(Signums) /\ <<>> \in Seq(Watched) /\ Len(<<>>) = 0 /\ Room \in Nat
    BY LoopsAssumption
  <2> QED
    BY <2>1 DEF Loop!Init, PipeInv, Loop!NoSignalLeftBehind
<1> QED
  BY <1>1, PipeStep, PTL DEF Loop!Spec

-----------------------------------------------------------------------------
(* The server on select.  nready is how many of those select has returned are      *)
(* still to be looked at; a client accepted in the same pass is not among them,    *)
(* since a descriptor that is free is not in rset.                                 *)

\* The entries from n on that select has found ready.
ToLookAt(n) == {k \in n .. maxi : client[k] \in rset}

SelectInv ==
  /\ Select!TypeOK /\ Select!ReadyAreLookedAt
  /\ select_at = "accept" =>
       3 \in rset /\ rset \subseteq allset /\ nready = Cardinality(rset) /\ select_i = 1
       /\ select_backlog > 0
  /\ select_at = "clients" => select_i >= 1 /\ 0 \notin rset

LEMMA SelectNumbers ==
  /\ FD_SETSIZE \in Nat /\ SelectFds \subseteq Nat
  /\ \A fd \in SelectFds : fd \in Nat /\ fd # 0 /\ fd # 3
  /\ Select!Free = 0 /\ Select!Listenfd = 3 /\ Select!Index = 1 .. FD_SETSIZE
<1>1. FD_SETSIZE \in Nat /\ SelectFds \subseteq Nat \ (0 .. 3)
  BY LoopsAssumption
<1>2. \A fd \in SelectFds : fd \in Nat /\ fd \notin 0 .. 3
  BY <1>1
<1>3. 0 \in 0 .. 3 /\ 3 \in 0 .. 3
  OBVIOUS
<1> QED
  BY <1>1, <1>2, <1>3 DEF Select!Free, Select!Listenfd, Select!Index

LEMMA ToLookAtFinite ==
  ASSUME maxi \in Nat, NEW n \in Nat
  PROVE  IsFiniteSet(ToLookAt(n)) /\ Cardinality(ToLookAt(n)) \in Nat
<1>1. ToLookAt(n) \in SUBSET (n .. maxi) /\ IsFiniteSet(n .. maxi)
  BY FS_Interval DEF ToLookAt
<1> QED
  BY <1>1, FS_Subset, FS_CardinalityType

\* Who is looked at is one less to look at.
LEMMA OneLess ==
  ASSUME maxi \in Nat, NEW n \in Nat, n <= maxi
  PROVE  /\ client[n] \in rset => /\ Cardinality(ToLookAt(n)) >= 1
                                  /\ Cardinality(ToLookAt(n + 1)) = Cardinality(ToLookAt(n)) - 1
         /\ client[n] \notin rset => ToLookAt(n + 1) = ToLookAt(n)
<1>1. n + 1 .. maxi = (n .. maxi) \ {n} /\ n \in n .. maxi
  OBVIOUS
<1>2. ToLookAt(n + 1) = ToLookAt(n) \ {n}
  BY <1>1 DEF ToLookAt
<1>3. n \in ToLookAt(n) <=> client[n] \in rset
  BY <1>1 DEF ToLookAt
<1>4. IsFiniteSet(ToLookAt(n)) /\ Cardinality(ToLookAt(n)) \in Nat
  BY ToLookAtFinite
<1>5. CASE client[n] \in rset
  <2>1. Cardinality(ToLookAt(n + 1)) = Cardinality(ToLookAt(n)) - 1
    BY <1>2, <1>3, <1>4, <1>5, FS_RemoveElement
  <2>2. n + 1 \in Nat
    OBVIOUS
  <2>3. Cardinality(ToLookAt(n + 1)) \in Nat
    BY <2>2, ToLookAtFinite
  <2> QED
    BY <1>4, <1>5, <2>1, <2>3
<1>6. CASE client[n] \notin rset
  BY <1>2, <1>3, <1>6
<1> QED
  BY <1>5, <1>6

\* Select counts the descriptors, the pass the entries: they are as many.
LEMMA EntriesReady ==
  ASSUME SelectInv, select_at \in {"select", "accept", "clients"},
         NEW R, R \subseteq allset
  PROVE  /\ IsFiniteSet(R)
         /\ Cardinality({k \in 1 .. maxi : client[k] \in R}) = IF 3 \in R THEN Cardinality(R) - 1 ELSE Cardinality(R)
<1> DEFINE E == {k \in 1 .. maxi : client[k] \in R}
           D == R \ {3}
           f == [k \in E |-> client[k]]
<1>1. /\ maxi \in 0 .. FD_SETSIZE /\ client \in [1 .. FD_SETSIZE -> SelectFds \union {0}]
      /\ allset = ({client[k] : k \in 1 .. FD_SETSIZE} \ {0}) \union {3}
      /\ \A k, l \in 1 .. FD_SETSIZE : client[k] = client[l] /\ client[k] # 0 => k = l
      /\ \A k \in 1 .. FD_SETSIZE : client[k] # 0 => k <= maxi
  BY SelectNumbers DEF SelectInv, Select!TypeOK, Select!ReadyAreLookedAt, Select!Open
<1>2. \A k \in 1 .. maxi : k \in 1 .. FD_SETSIZE /\ client[k] # 3
  BY <1>1, SelectNumbers
<1>3. 0 \notin allset
  BY <1>1
<1>4. \A d \in D : \E k \in E : client[k] = d
  <2> SUFFICES ASSUME NEW d \in D PROVE \E k \in E : client[k] = d
    OBVIOUS
  <2>1. PICK k \in 1 .. FD_SETSIZE : client[k] = d /\ d # 0
    BY <1>1, <1>3
  <2>2. k <= maxi
    BY <1>1, <2>1
  <2>3. k \in 1 .. maxi
    BY <1>1, <2>1, <2>2, SelectNumbers
  <2> QED
    BY <2>1, <2>3
<1>5. \A k \in E : client[k] \in D
  BY <1>2
<1>6. \A k, l \in E : client[k] = client[l] => k = l
  BY <1>1, <1>2, <1>3
<1>7. IsFiniteSet(E)
  <2>1. E \in SUBSET (1 .. maxi) /\ maxi \in Nat
    BY <1>1, SelectNumbers
  <2>2. IsFiniteSet(1 .. maxi)
    BY <2>1, FS_Interval
  <2> QED
    BY <2>1, <2>2, FS_Subset
<1> HIDE DEF E, D
<1>8. f \in Bijection(E, D)
  BY <1>4, <1>5, <1>6 DEF Bijection, Injection, Surjection, IsInjective
<1>9. IsFiniteSet(D) /\ Cardinality(D) = Cardinality(E)
  <2>1. ExistsBijection(E, D)
    BY <1>8, Zenon DEF ExistsBijection
  <2> QED
    BY <1>7, <2>1, FS_Bijection
<1>10. CASE 3 \in R
  <2>1. R = D \union {3} /\ 3 \notin D
    BY <1>10 DEF D
  <2>2. IsFiniteSet(R) /\ Cardinality(R) = Cardinality(D) + 1 /\ Cardinality(D) \in Nat
    BY <1>9, <2>1, FS_AddElement, FS_CardinalityType
  <2> QED
    BY <1>9, <1>10, <2>2 DEF E
<1>11. CASE 3 \notin R
  <2>1. R = D
    BY <1>11 DEF D
  <2> QED
    BY <1>9, <1>11, <2>1 DEF E
<1> QED
  BY <1>10, <1>11

LEMMA LeastMember == \A T \in SUBSET Nat : T # {} => \E x \in T : \A y \in T : x <= y
<1> SUFFICES ASSUME NEW T \in SUBSET Nat, T # {} PROVE \E x \in T : \A y \in T : x <= y
  OBVIOUS
<1> DEFINE R == OpToRel(<, Nat)
<1>1. IsWellFoundedOn(R, Nat)
  BY NatLessThanWellFounded
<1>2. \A x, y \in Nat : <<x, y>> \in R <=> x < y
  BY DEF OpToRel
<1> HIDE DEF R
<1>3. PICK x \in T : \A y \in T : <<y, x>> \notin R
  BY <1>1, WFMin
<1>4. \A y \in T : ~(y < x)
  <2> SUFFICES ASSUME NEW y \in T PROVE ~(y < x)
    OBVIOUS
  <2>1. <<y, x>> \notin R /\ x \in Nat /\ y \in Nat
    BY <1>3
  <2> QED
    BY <1>2, <2>1
<1>5. \A y \in T : x \in Int /\ y \in Int
  OBVIOUS
<1> QED
  BY <1>4, <1>5

\* The search finds the first free entry, if there is one.
LEMMA FirstFree ==
  ASSUME ~(\A k \in Select!Index : client[k] # Select!Free)
  PROVE  LET n == CHOOSE k \in Select!Index : client[k] = Select!Free /\ \A l \in 1 .. k - 1 : client[l] # Select!Free
         IN  n \in Select!Index /\ client[n] = Select!Free
<1> DEFINE T == {k \in Select!Index : client[k] = Select!Free}
<1>1. T \in SUBSET Nat /\ T # {} /\ Select!Index = 1 .. FD_SETSIZE /\ FD_SETSIZE \in Nat
  BY SelectNumbers
<1>2. PICK k \in T : \A l \in T : k <= l
  <2> HIDE DEF T
  <2> QED
    BY <1>1, LeastMember
<1>3. \A l \in 1 .. k - 1 : client[l] # Select!Free
  <2> SUFFICES ASSUME NEW l \in 1 .. k - 1, client[l] = Select!Free PROVE FALSE
    OBVIOUS
  <2>1. k \in Nat /\ k <= FD_SETSIZE
    BY <1>1, <1>2
  <2>2. l \in 1 .. FD_SETSIZE /\ ~(k <= l)
    BY <1>1, <2>1
  <2>3. l \in T
    BY <1>1, <2>2
  <2> QED
    BY <1>2, <2>2, <2>3
<1> QED
  BY <1>2, <1>3

LEMMA SelectStep == SelectInv /\ [Select!Next]_(Select!vars) => SelectInv'
<1> SUFFICES ASSUME SelectInv, [Select!Next]_(Select!vars) PROVE SelectInv'
  OBVIOUS
<1>0. /\ Select!TypeOK /\ Select!ReadyAreLookedAt /\ maxi \in Nat /\ maxi \in 0 .. FD_SETSIZE
      /\ Select!Index = 1 .. FD_SETSIZE
  BY SelectNumbers DEF SelectInv, Select!TypeOK
<1>1. CASE Select!Connect
  BY <1>1, SameCardinality DEF Select!Connect, Select!sets, Select!table, SelectInv, Select!TypeOK, Select!ReadyAreLookedAt, Select!Open
<1>2. ASSUME NEW fd \in SelectFds, Select!Writes(fd) PROVE SelectInv'
  BY <1>2 DEF Select!Writes, Select!sets, Select!table, SelectInv, Select!TypeOK, Select!ReadyAreLookedAt, Select!Open
<1>3. ASSUME NEW fd \in SelectFds, Select!EndsAs(fd) PROVE SelectInv'
  BY <1>3 DEF Select!EndsAs, Select!sets, Select!table, SelectInv, Select!TypeOK, Select!ReadyAreLookedAt, Select!Open
<1>4. CASE Select!Select
  <2>0. 3 \in rset' => select_backlog > 0
    BY <1>4, SelectNumbers DEF Select!Select
  <2>1. /\ select_at = "select" /\ rset' \subseteq allset /\ rset' # {} /\ nready' = Cardinality(rset')
        /\ select_at' = IF 3 \in rset' THEN "accept" ELSE "clients"
        /\ select_i' = 1 /\ UNCHANGED <<client, maxi, allset, maxfd, connfd, select_backlog, select_input, select_ended>>
    BY <1>4, SameCardinality, SelectNumbers DEF Select!Select, Select!table, Select!peers
  <2>2. IsFiniteSet(rset') /\ Cardinality(rset') \in Nat
    BY <2>1, EntriesReady, FS_CardinalityType
  <2>3. 0 \notin rset'
    BY <1>0, <2>1, SelectNumbers DEF Select!ReadyAreLookedAt, Select!Open
  <2>4. Select!TypeOK'
    BY <1>0, <2>1, <2>2 DEF Select!TypeOK
  <2>5. select_at' = "clients" => nready' = Select!Cardinality({k \in 1 .. maxi : client[k] \in rset'})
    BY <2>1, <2>2, EntriesReady, SameCardinality
  <2>6. Select!ReadyAreLookedAt'
    BY <1>0, <2>1, <2>5 DEF Select!ReadyAreLookedAt, Select!Open
  <2> QED
    BY <2>0, <2>1, <2>3, <2>4, <2>6 DEF SelectInv
<1>5. ASSUME NEW fd \in SelectFds, Select!Accept(fd) PROVE SelectInv'
  <2>1. /\ select_at = "accept" /\ fd \notin Select!Open /\ connfd' = fd /\ select_backlog' = select_backlog - 1
        /\ UNCHANGED <<select_i, rset, select_input, select_ended>>
    BY <1>5 DEF Select!Accept
  <2>2. /\ 3 \in rset /\ rset \subseteq allset /\ nready = Cardinality(rset) /\ select_i = 1
        /\ select_backlog \in Nat /\ select_backlog > 0
    BY <1>0, <2>1 DEF SelectInv, Select!TypeOK
  <2>3. select_backlog' \in Nat
    BY <2>1, <2>2
  <2>4. CASE \A k \in Select!Index : client[k] # Select!Free
    <3>1. select_at' = "exit" /\ UNCHANGED <<client, maxi, allset, maxfd, nready>>
      BY <1>5, <2>4 DEF Select!Accept, Select!table
    <3> QED
      BY <1>0, <2>1, <2>3, <3>1 DEF SelectInv, Select!TypeOK, Select!ReadyAreLookedAt
  <2>5. CASE ~(\A k \in Select!Index : client[k] # Select!Free)
    <3> DEFINE n == CHOOSE k \in Select!Index : client[k] = Select!Free /\ \A l \in 1 .. k - 1 : client[l] # Select!Free
    <3>1. n \in 1 .. FD_SETSIZE /\ client[n] = 0
      BY <2>5, FirstFree, SelectNumbers
    <3>2. /\ client' = [client EXCEPT ![n] = fd] /\ maxi' = IF n > maxi THEN n ELSE maxi
          /\ allset' = allset \union {fd} /\ maxfd' = IF fd > maxfd THEN fd ELSE maxfd
          /\ nready' = nready - 1 /\ select_at' = IF nready = 1 THEN "select" ELSE "clients"
      BY <1>5, <2>5 DEF Select!Accept
    <3> HIDE DEF n
    <3>3. /\ client \in [1 .. FD_SETSIZE -> SelectFds \union {0}]
          /\ allset = ({client[k] : k \in 1 .. FD_SETSIZE} \ {0}) \union {3}
          /\ \A k, l \in 1 .. FD_SETSIZE : client[k] = client[l] /\ client[k] # 0 => k = l
          /\ \A k \in 1 .. FD_SETSIZE : client[k] # 0 => k <= maxi
          /\ \A d \in allset : d <= maxfd
      BY <1>0, <2>1, SelectNumbers DEF Select!TypeOK, Select!ReadyAreLookedAt, Select!Open
    <3>4. fd # 0 /\ fd # 3 /\ fd \in Nat /\ (\A k \in 1 .. FD_SETSIZE : client[k] # fd) /\ fd \notin rset /\ 0 \notin rset
      BY <2>1, <2>2, <3>3, SelectNumbers DEF Select!Open
    <3>5. /\ client' \in [1 .. FD_SETSIZE -> SelectFds \union {0}] /\ client'[n] = fd
          /\ \A k \in 1 .. FD_SETSIZE : k # n => client'[k] = client[k]
      BY <3>1, <3>2, <3>3
    <3>6. /\ maxi' \in 0 .. FD_SETSIZE /\ n <= maxi' /\ maxi <= maxi'
          /\ \A k \in 1 .. FD_SETSIZE : k <= maxi' => k <= maxi \/ k = n \/ client[k] = 0
      BY <1>0, <3>1, <3>2, <3>3
    <3>7. {k \in 1 .. maxi' : client'[k] \in rset} = {k \in 1 .. maxi : client[k] \in rset}
      <4>1. \A k \in 1 .. maxi' : k \in 1 .. FD_SETSIZE
        BY <3>6, SelectNumbers
      <4>2. \A k \in 1 .. maxi : k \in 1 .. maxi' /\ k \in 1 .. FD_SETSIZE
        BY <1>0, <3>6, SelectNumbers
      <4>3. \A k \in 1 .. maxi' : client'[k] \in rset => k <= maxi /\ client[k] \in rset
        BY <3>4, <3>5, <3>6, <4>1
      <4>4. \A k \in 1 .. maxi : client[k] \in rset => client'[k] \in rset
        BY <3>1, <3>4, <3>5, <4>2
      <4>5. \A k \in 1 .. maxi' : k <= maxi => k \in 1 .. maxi
        BY <1>0
      <4> QED
        BY <4>2, <4>3, <4>4, <4>5
    <3>8. /\ nready \in Nat /\ nready >= 1 /\ nready' \in Nat /\ (nready = 1 => nready' = 0)
          /\ nready' = Cardinality({k \in 1 .. maxi : client[k] \in rset})
      <4>1. IsFiniteSet(rset) /\ Cardinality({k \in 1 .. maxi : client[k] \in rset}) = Cardinality(rset) - 1
        BY <2>1, <2>2, EntriesReady
      <4>2. nready \in Nat /\ nready # 0
        BY <2>2, <4>1, FS_CardinalityType, FS_EmptySet
      <4> QED
        BY <2>2, <3>2, <4>1, <4>2
    <3>9. Select!TypeOK'
      <4>1. allset' \subseteq SelectFds \union {3} /\ maxfd' \in SelectFds \union {3}
        BY <1>0, <3>2, SelectNumbers DEF Select!TypeOK
      <4> QED
        BY <1>0, <2>1, <2>3, <3>2, <3>5, <3>6, <3>8, <4>1, SelectNumbers DEF Select!TypeOK
    <3>10. Select!ReadyAreLookedAt'
      <4>1. \A k, l \in 1 .. FD_SETSIZE : client'[k] = client'[l] /\ client'[k] # 0 => k = l
        BY <3>3, <3>4, <3>5
      <4>2. allset' = ({client'[k] : k \in 1 .. FD_SETSIZE} \ {0}) \union {3}
        <5>1. \A d \in {client[k] : k \in 1 .. FD_SETSIZE} \ {0} : d \in {client'[k] : k \in 1 .. FD_SETSIZE}
          BY <3>1, <3>5
        <5>2. \A d \in {client'[k] : k \in 1 .. FD_SETSIZE} : d = fd \/ d \in {client[k] : k \in 1 .. FD_SETSIZE}
          BY <3>1, <3>5
        <5>3. fd \in {client'[k] : k \in 1 .. FD_SETSIZE}
          BY <3>1, <3>5
        <5> QED
          BY <3>2, <3>3, <3>4, <5>1, <5>2, <5>3
      <4>3. \A d \in allset' : d <= maxfd'
        <5>1. maxfd \in Nat /\ \A d \in allset : d \in Nat
          BY <1>0, SelectNumbers DEF Select!TypeOK
        <5> SUFFICES ASSUME NEW d \in allset' PROVE d <= maxfd'
          OBVIOUS
        <5>2. CASE d = fd
          BY <3>2, <3>4, <5>1, <5>2
        <5>3. CASE d \in allset
          <6>1. d \in Nat /\ d <= maxfd
            BY <3>3, <5>1, <5>3
          <6> QED
            BY <3>2, <3>4, <5>1, <6>1
        <5> QED
          BY <3>2, <5>2, <5>3
      <4>4. \A k \in 1 .. FD_SETSIZE : client'[k] # 0 => k <= maxi'
        <5>1. \A k \in 1 .. FD_SETSIZE : k \in Nat
          OBVIOUS
        <5>2. maxi' \in Nat
          BY <3>6, SelectNumbers
        <5> QED
          BY <1>0, <3>3, <3>5, <3>6, <5>1, <5>2
      <4>5. nready' = Select!Cardinality({k \in select_i' .. maxi' : client'[k] \in rset'})
        BY <2>1, <2>2, <3>7, <3>8, SameCardinality
      <4> QED
        BY <3>2, <3>8, <4>1, <4>2, <4>3, <4>4, <4>5, SelectNumbers DEF Select!ReadyAreLookedAt, Select!Open
    <3> QED
      BY <2>1, <2>2, <3>2, <3>4, <3>9, <3>10 DEF SelectInv
  <2> QED
    BY <2>4, <2>5
<1>6. CASE Select!AcceptFails
  BY <1>6 DEF Select!AcceptFails, Select!sets, Select!table, Select!peers, SelectInv, Select!TypeOK, Select!ReadyAreLookedAt
<1>7. CASE Select!NotReady
  <2>1. /\ select_at = "clients" /\ select_i <= maxi /\ client[select_i] \notin rset /\ select_i' = select_i + 1
        /\ UNCHANGED <<select_at, client, maxi, allset, rset, maxfd, nready, connfd, select_backlog, select_input, select_ended>>
    BY <1>7 DEF Select!NotReady, Select!table, Select!sets, Select!peers
  <2>2. select_i \in Nat
    BY <1>0 DEF Select!TypeOK
  <2>3. ToLookAt(select_i + 1) = ToLookAt(select_i)
    BY <1>0, <2>1, <2>2, OneLess
  <2>4. Select!TypeOK'
    BY <1>0, <2>1, <2>2 DEF Select!TypeOK
  <2>5. Select!ReadyAreLookedAt'
    BY <1>0, <2>1, <2>3 DEF Select!ReadyAreLookedAt, Select!Open, ToLookAt
  <2> QED
    BY <2>1, <2>2, <2>4, <2>5 DEF SelectInv
<1>8. CASE Select!AllChecked
  <2>1. /\ select_at = "clients" /\ select_i > maxi /\ select_at' = "select" /\ select_i' = 0
        /\ UNCHANGED <<client, maxi, allset, rset, maxfd, nready, connfd, select_backlog, select_input, select_ended>>
    BY <1>8 DEF Select!AllChecked, Select!table, Select!sets, Select!peers
  <2>2. nready = 0
    <3>1. select_i \in Nat
      BY <1>0 DEF Select!TypeOK
    <3>2. {k \in select_i .. maxi : client[k] \in rset} = {}
      BY <1>0, <2>1, <3>1
    <3> QED
      BY <1>0, <2>1, <3>2, SameCardinality, FS_EmptySet DEF Select!ReadyAreLookedAt
  <2>3. Select!TypeOK'
    BY <1>0, <2>1 DEF Select!TypeOK
  <2>4. Select!ReadyAreLookedAt'
    BY <1>0, <2>1, <2>2 DEF Select!ReadyAreLookedAt, Select!Open
  <2> QED
    BY <2>1, <2>3, <2>4 DEF SelectInv
<1>9. ASSUME Select!Ready, Select!Looked, UNCHANGED <<maxi, rset, connfd, select_backlog>>,
             Select!Echo \/ Select!ClientEnded
      PROVE  SelectInv'
  <2>1. /\ select_at = "clients" /\ select_i <= maxi /\ client[select_i] \in rset /\ nready' = nready - 1
        /\ nready = 1 => select_at' = "select" /\ select_i' = 0
        /\ nready # 1 => select_at' = select_at /\ select_i' = select_i + 1
        /\ select_i \in 1 .. FD_SETSIZE /\ select_i \in Nat /\ 0 \notin rset
    <3>1. /\ select_at = "clients" /\ select_i <= maxi /\ client[select_i] \in rset /\ nready' = nready - 1
          /\ nready = 1 => select_at' = "select" /\ select_i' = 0
          /\ nready # 1 => select_at' = select_at /\ select_i' = select_i + 1
      BY <1>9 DEF Select!Ready, Select!Looked
    <3>2. select_i \in Nat /\ select_i >= 1 /\ 0 \notin rset
      BY <1>0, <3>1 DEF SelectInv, Select!TypeOK
    <3>3. select_i \in 1 .. FD_SETSIZE
      BY <1>0, <3>1, <3>2, SelectNumbers
    <3> QED
      BY <3>1, <3>2, <3>3
  <2>2. /\ client \in [1 .. FD_SETSIZE -> SelectFds \union {0}] /\ nready \in Nat /\ select_i + 1 \in Nat
        /\ allset = ({client[k] : k \in 1 .. FD_SETSIZE} \ {0}) \union {3}
        /\ \A k, l \in 1 .. FD_SETSIZE : client[k] = client[l] /\ client[k] # 0 => k = l
        /\ \A k \in 1 .. FD_SETSIZE : client[k] # 0 => k <= maxi
        /\ \A d \in allset : d <= maxfd
        /\ nready = Cardinality(ToLookAt(select_i))
    BY <1>0, <2>1, SelectNumbers, SameCardinality DEF Select!TypeOK, Select!ReadyAreLookedAt, Select!Open, ToLookAt
  <2>3. nready >= 1 /\ Cardinality(ToLookAt(select_i + 1)) = nready - 1
    BY <1>0, <2>1, <2>2, OneLess
  <2>4. nready' \in Nat /\ (nready = 1 => nready' = 0) /\ nready' = Cardinality(ToLookAt(select_i + 1))
    BY <2>1, <2>2, <2>3
  <2>5. /\ select_at' \in {"select", "clients"} /\ select_i' \in Nat /\ (select_at' = "clients" => select_i' >= 1)
        /\ select_at' = "clients" => select_i' = select_i + 1
        /\ select_at' = "select" => nready' = 0
    BY <2>1, <2>2, <2>4
  <2>6. CASE Select!Echo
    <3>1. UNCHANGED <<client, maxi, allset, rset, maxfd, connfd, select_backlog, select_ended>> /\ select_input' \subseteq SelectFds
      BY <1>0, <2>6 DEF Select!Echo, Select!table, Select!sets, Select!TypeOK
    <3>2. Select!TypeOK'
      BY <1>0, <2>4, <2>5, <3>1 DEF Select!TypeOK
    <3>3. Select!ReadyAreLookedAt'
      BY <1>0, <2>1, <2>4, <2>5, <3>1, SameCardinality DEF Select!ReadyAreLookedAt, Select!Open, ToLookAt
    <3> QED
      BY <2>1, <2>5, <3>1, <3>2, <3>3 DEF SelectInv
  <2>7. CASE Select!ClientEnded
    <3>1. /\ client' = [client EXCEPT ![select_i] = 0] /\ allset' = allset \ {client[select_i]}
          /\ UNCHANGED <<maxi, rset, maxfd, connfd, select_backlog, select_input>> /\ select_ended' \subseteq SelectFds
      BY <1>0, <2>7, SelectNumbers DEF Select!ClientEnded, Select!TypeOK
    <3>2. /\ client' \in [1 .. FD_SETSIZE -> SelectFds \union {0}] /\ client'[select_i] = 0
          /\ \A k \in 1 .. FD_SETSIZE : k # select_i => client'[k] = client[k]
      BY <2>1, <2>2, <3>1
    <3>3. client[select_i] # 0 /\ client[select_i] # 3
      BY <2>1, <2>2, SelectNumbers
    <3>4. Select!TypeOK'
      <4>1. allset' \subseteq SelectFds \union {3} /\ rset' \subseteq SelectFds \union {3} /\ maxi' \in 0 .. FD_SETSIZE
        BY <1>0, <3>1, SelectNumbers DEF Select!TypeOK
      <4>2. /\ maxfd' \in SelectFds \union {3} /\ connfd' \in SelectFds \union {0}
            /\ select_backlog' \in Nat /\ select_input' \subseteq SelectFds
        BY <1>0, <3>1, SelectNumbers DEF Select!TypeOK
      <4> QED
        BY <2>4, <2>5, <3>1, <3>2, <4>1, <4>2, SelectNumbers DEF Select!TypeOK
    <3>5. allset' = ({client'[k] : k \in 1 .. FD_SETSIZE} \ {0}) \union {3}
      <4>1. \A d \in {client[k] : k \in 1 .. FD_SETSIZE} : d # client[select_i] => d \in {client'[k] : k \in 1 .. FD_SETSIZE}
        BY <3>2
      <4>2. \A k \in 1 .. FD_SETSIZE : client'[k] # 0 => client'[k] = client[k] /\ client[k] # client[select_i]
        BY <2>1, <2>2, <3>2
      <4> QED
        BY <2>2, <3>1, <3>3, <4>1, <4>2
    <3>6. /\ \A k, l \in 1 .. FD_SETSIZE : client'[k] = client'[l] /\ client'[k] # 0 => k = l
          /\ \A k \in 1 .. FD_SETSIZE : client'[k] # 0 => k <= maxi'
          /\ \A d \in allset' : d <= maxfd'
      BY <2>1, <2>2, <3>1, <3>2
    <3>7. {k \in select_i + 1 .. maxi : client'[k] \in rset} = ToLookAt(select_i + 1)
      <4>1. \A k \in select_i + 1 .. maxi : client'[k] = client[k]
        BY <1>0, <2>1, <3>2, SelectNumbers
      <4> QED
        BY <4>1 DEF ToLookAt
    <3>8. select_at' = "clients" => nready' = Select!Cardinality({k \in select_i' .. maxi' : client'[k] \in rset'})
      BY <2>4, <2>5, <3>1, <3>7, SameCardinality
    <3>9. Select!ReadyAreLookedAt'
      BY <2>5, <3>5, <3>6, <3>8, SelectNumbers DEF Select!ReadyAreLookedAt, Select!Open
    <3> QED
      BY <2>1, <2>5, <3>1, <3>4, <3>9 DEF SelectInv
  <2> QED
    BY <1>9, <2>6, <2>7
<1>10. CASE Select!Echo \/ Select!ClientEnded
  BY <1>9, <1>10 DEF Select!Echo, Select!ClientEnded, Select!table, Select!sets
<1>11. CASE UNCHANGED Select!vars
  BY <1>11 DEF Select!vars, Select!table, Select!sets, Select!peers, SelectInv, Select!TypeOK, Select!ReadyAreLookedAt, Select!Open
<1> QED
  BY <1>1, <1>2, <1>3, <1>4, <1>5, <1>6, <1>7, <1>8, <1>10, <1>11 DEF Select!Next

LEMMA SelectInvHolds == Select!Spec => []SelectInv
<1>1. Select!Init => SelectInv
  <2> SUFFICES ASSUME Select!Init PROVE SelectInv
    OBVIOUS
  <2>1. /\ select_at = "select" /\ select_i = 0 /\ maxi = 0 /\ client = [k \in 1 .. FD_SETSIZE |-> 0]
        /\ allset = {3} /\ rset = {} /\ maxfd = 3 /\ nready = 0 /\ connfd = 0
        /\ select_backlog = 0 /\ select_input = {} /\ select_ended = {}
    BY SelectNumbers DEF Select!Init
  <2>2. Select!TypeOK
    BY <2>1, SelectNumbers DEF Select!TypeOK
  <2>3. {client[k] : k \in 1 .. FD_SETSIZE} \ {0} = {}
    BY <2>1
  <2>4. Select!ReadyAreLookedAt
    BY <2>1, <2>3, SelectNumbers DEF Select!ReadyAreLookedAt, Select!Open
  <2> QED
    BY <2>1, <2>2, <2>4 DEF SelectInv
<1> QED
  BY <1>1, SelectStep, PTL DEF Select!Spec

\* The pass that ends when nready has been counted down has looked at every client that
\* is ready (6chp), and the loop of 10-1 never sleeps on a signal in its pipe.
THEOREM NobodyLeftBehindHolds == Select!Spec /\ Loop!Spec => []NobodyLeftBehind
<1>1. SelectInv /\ PipeInv => NobodyLeftBehind
  BY DEF SelectInv, PipeInv, NobodyLeftBehind
<1> QED
  BY <1>1, SelectInvHolds, PipeInvHolds, PTL
====
