----------------------------- MODULE Http_proofs -----------------------------
(***************************************************************************)
(* A connection of 15-5 is in one hand, also while a worker closes it, and *)
(* m_user_count counts the open connections and those that are being       *)
(* closed, for any number of descriptors, workers, places in the pool and  *)
(* clients: until a descriptor that a worker gave back is accepted with    *)
(* before the worker is done (reused), and, for the count, until two       *)
(* changes of it meet (torn).                                              *)
(*                                                                         *)
(* The two are proved together: the main thread takes back what a worker   *)
(* registers through m_sockfd, which is right as long as the connection is *)
(* open, and that it is comes from its being in one hand only.             *)
(*                                                                         *)
(* Last, of the parser of 8-3: where the reads of a connection cut the     *)
(* request does not matter (CutsDoNotMatter).                              *)
(***************************************************************************)
EXTENDS MCHttp, SequenceTheorems, FiniteSetTheorems, WellFoundedInduction, TLAPS

\* The types of what the two properties are about.
Shape ==
  /\ open \subseteq Fds
  /\ armed \in [Fds -> {"IN", "OUT", "off"}]
  /\ m_sockfd \in [Fds -> Fds \union {NoFd}]
  /\ m_user_count \in Int /\ seen \in Int
  /\ queue \in Seq(Fds)
  /\ pc \in [Workers -> {"idle", "process", "close", "forget", "load", "store", "rearm"}]
  /\ job \in [Workers -> Fds \union {NoFd}] /\ tmp \in [Workers -> Int]
  /\ events \subseteq (Fds \union {Listen}) \X {"IN", "OUT", "HUP"}

\* A batch is handled before the next is fetched.
Loop ==
  /\ main \in {"wait", "batch", "count"}
  /\ main = "wait" => events = {}

\* OneHand: of each hand what it holds, and that it holds it once.
Working ==
  /\ \A w \in Workers : Busy(w) =>
        job[w] \in Fds \ (Queued \union Noted \union Watched) /\ (job[w] \in open <=> ~Gone(w))
  /\ \A v, w \in Workers : Busy(v) /\ Busy(w) /\ job[v] = job[w] => v = w
Waiting ==
  /\ Queued \subseteq open \ (Noted \union Watched)
  /\ \A i, j \in DOMAIN queue : queue[i] = queue[j] => i = j
Told ==
  /\ Noted \subseteq open \ Watched
  /\ \A e, f \in events : e[1] = f[1] => e = f
Registered == Watched \subseteq open
Hands == Working /\ Waiting /\ Told /\ Registered

\* CountIsOpen.
Closers == {w \in Workers : Closing(w)}
Counted ==
  torn = TRUE \/ m_user_count = Cardinality(open) + Cardinality(Closers) - (IF main = "count" THEN 1 ELSE 0)

\* An http_conn has the number of its descriptor until close_conn has forgotten it.
Left(fd) == \E w \in Workers : pc[w] = "forget" /\ job[w] = fd
Own == \A fd \in Fds : m_sockfd[fd] = IF fd \in open \/ Left(fd) THEN fd ELSE NoFd

Before == ~reused /\ Shape /\ Loop /\ Hands /\ Counted /\ Own
Inv == reused = TRUE \/ Before

LEMMA Numbers ==
  /\ Fds \subseteq Nat /\ IsFiniteSet(Fds) /\ IsFiniteSet(Workers)
  /\ Listen \notin Fds /\ NoFd \notin Fds
BY HttpAssumption DEF Listen, NoFd

LEMMA InitInv == Init => Inv
<1> SUFFICES ASSUME Init PROVE Before
  BY DEF Inv
<1>1. Shape
  <2>1. <<>> \in Seq(Fds)
    OBVIOUS
  <2> QED
    BY <2>1 DEF Init, Shape
<1>2. /\ Queued = {} /\ Noted = {} /\ Watched = {} /\ \A w \in Workers : ~Busy(w)
      /\ Closers = {} /\ \A fd : ~Left(fd)
  BY DEF Init, Queued, Noted, Watched, Busy, Closers, Closing, Left
<1>3. Hands
  BY <1>2 DEF Init, Hands, Working, Waiting, Told, Registered
<1>4. Counted /\ Own
  BY <1>2, FS_EmptySet DEF Init, Counted, Own
<1> QED
  BY <1>1, <1>3, <1>4 DEF Init, Before, Loop

-----------------------------------------------------------------------------
\* The pool's list, longer and shorter.
LEMMA Longer ==
  ASSUME Shape, Waiting, NEW fd \in Fds, fd \notin Queued, queue' = Append(queue, fd)
  PROVE  /\ queue' \in Seq(Fds) /\ Queued' = Queued \union {fd}
         /\ \A i, j \in DOMAIN queue' : queue'[i] = queue'[j] => i = j
<1>1. Len(queue) \in Nat /\ DOMAIN queue = 1 .. Len(queue) /\ DOMAIN queue' = 1 .. Len(queue) + 1
  BY DEF Shape
<1>2. queue'[Len(queue) + 1] = fd /\ \A i \in 1 .. Len(queue) : queue'[i] = queue[i]
  BY <1>1 DEF Shape
<1>3. \A i \in 1 .. Len(queue) : queue[i] # fd
  BY <1>1 DEF Queued
<1>4. \A i, j \in DOMAIN queue' : queue'[i] = queue'[j] => i = j
  BY <1>1, <1>2, <1>3 DEF Waiting
<1>5. Queued' = Queued \union {fd}
  BY <1>1, <1>2 DEF Queued
<1> QED
  BY <1>4, <1>5 DEF Shape

LEMMA Shorter ==
  ASSUME Shape, Waiting, queue # <<>>, queue' = Tail(queue)
  PROVE  /\ queue' \in Seq(Fds) /\ Head(queue) \in Queued /\ Head(queue) \in Fds
         /\ Queued' = Queued \ {Head(queue)}
         /\ \A i, j \in DOMAIN queue' : queue'[i] = queue'[j] => i = j
<1>1. /\ Len(queue) \in Nat \ {0} /\ DOMAIN queue = 1 .. Len(queue) /\ DOMAIN queue' = 1 .. Len(queue) - 1
      /\ Head(queue) = queue[1]
  BY DEF Shape
<1>2. \A i \in 1 .. Len(queue) - 1 : queue'[i] = queue[i + 1] /\ i + 1 \in DOMAIN queue /\ queue[i + 1] # queue[1]
  BY <1>1 DEF Shape, Waiting
<1>3. \A i, j \in DOMAIN queue' : queue'[i] = queue'[j] => i = j
  BY <1>1, <1>2 DEF Waiting
<1>4. Queued' \subseteq Queued \ {Head(queue)}
  BY <1>1, <1>2 DEF Queued
<1>5. ASSUME NEW fd \in Queued, fd # Head(queue) PROVE fd \in Queued'
  <2>1. PICK i \in DOMAIN queue : fd = queue[i]
    BY DEF Queued
  <2>2. i - 1 \in DOMAIN queue' /\ queue'[i - 1] = fd
    BY <2>1, <1>1, <1>2, <1>5
  <2> QED
    BY <2>2 DEF Queued
<1>6. queue' \in Seq(Fds) /\ Head(queue) \in Fds
  BY DEF Shape
<1>7. Head(queue) \in Queued
  BY <1>1 DEF Queued
<1> QED
  BY <1>3, <1>4, <1>5, <1>6, <1>7

\* Who is on his way is where he was, if nobody moves and nobody's m_sockfd changes.
LEMMA Standing ==
  ASSUME UNCHANGED <<pc, job>>,
         \A w \in Workers : Busy(w) => m_sockfd'[job[w]] = m_sockfd[job[w]]
  PROVE  /\ \A w \in Workers : (Busy(w)' <=> Busy(w)) /\ (Busy(w) => (Gone(w)' <=> Gone(w)))
         /\ Closers' = Closers /\ \A fd : Left(fd)' <=> Left(fd)
<1>1. \A w \in Workers : (Busy(w)' <=> Busy(w)) /\ (Closing(w)' <=> Closing(w))
  BY DEF Busy, Closing
<1>2. \A w \in Workers : Busy(w) => (Gone(w)' <=> Gone(w))
  BY <1>1 DEF Gone
<1>3. Closers' = Closers
  BY <1>1 DEF Closers
<1>4. \A fd : Left(fd)' <=> Left(fd)
  BY DEF Left
<1> QED
  BY <1>1, <1>2, <1>3, <1>4

\* The size of what is counted.
LEMMA Sizes ==
  ASSUME Shape
  PROVE  /\ IsFiniteSet(open) /\ Cardinality(open) \in Nat
         /\ IsFiniteSet(Closers) /\ Cardinality(Closers) \in Nat
<1>1. open \subseteq Fds /\ Closers \subseteq Workers
  BY DEF Shape, Closers
<1>2. IsFiniteSet(open) /\ IsFiniteSet(Closers)
  BY <1>1, Numbers, FS_Subset
<1> QED
  BY <1>2, FS_CardinalityType

\* An event is taken from the batch.
LEMMA Taken ==
  ASSUME Before, NEW fd \in Fds, NEW k \in {"IN", "OUT", "HUP"}, Handles(<<fd, k>>)
  PROVE  /\ main = "batch" /\ events' \subseteq events /\ fd \in Noted /\ Noted' = Noted \ {fd}
         /\ fd \in open /\ m_sockfd[fd] = fd /\ fd \notin Queued /\ fd \notin Watched
         /\ \A w \in Workers : Busy(w) => job[w] # fd
         /\ \A e, f \in events' : e[1] = f[1] => e = f
<1>1. <<fd, k>> \in events /\ events' = events \ {<<fd, k>>} /\ main = "batch"
  BY DEF Handles
<1>2. fd \in Noted
  BY <1>1, Numbers DEF Noted
<1>3. \A e \in events : e[1] = fd => e = <<fd, k>>
  BY <1>1 DEF Before, Hands, Told
<1>4. Noted' = Noted \ {fd}
  BY <1>1, <1>3 DEF Noted
<1>5. fd \in open /\ fd \notin Watched /\ fd \notin Queued
  BY <1>2 DEF Before, Hands, Told, Waiting
<1>6. \A w \in Workers : Busy(w) => job[w] # fd
  BY <1>2 DEF Before, Hands, Working
<1>7. \A e, f \in events' : e[1] = f[1] => e = f
  BY <1>1 DEF Before, Hands, Told
<1>8. m_sockfd[fd] = fd
  BY <1>5 DEF Before, Own
<1> QED
  BY <1>1, <1>2, <1>4, <1>5, <1>6, <1>7, <1>8

\* So is the listening socket's.
LEMMA TakenListen ==
  ASSUME Before, Handles(<<Listen, "IN">>)
  PROVE  main = "batch" /\ events' \subseteq events /\ Noted' = Noted /\ \A e, f \in events' : e[1] = f[1] => e = f
BY DEF Handles, Noted, Before, Hands, Told

\* Nothing changes hands.
LEMMA QuietKeeps ==
  ASSUME Before, UNCHANGED <<open, armed, m_sockfd, m_user_count, torn, queue, pc, job, tmp, reused>>,
         events' \subseteq events, Noted' = Noted, main' = main, seen' = seen
  PROVE  Before'
<1>1. Queued' = Queued /\ Watched' = Watched
  BY DEF Queued, Watched
<1>2. /\ \A w \in Workers : (Busy(w)' <=> Busy(w)) /\ (Busy(w) => (Gone(w)' <=> Gone(w)))
      /\ Closers' = Closers /\ \A fd : Left(fd)' <=> Left(fd)
  BY Standing
<1>3. Shape' /\ Loop'
  BY DEF Before, Shape, Loop
<1>4. Counted' /\ Own'
  BY <1>2 DEF Before, Counted, Own
<1>5. Hands'
  BY <1>1, <1>2 DEF Before, Hands, Working, Waiting, Told, Registered
<1> QED
  BY <1>3, <1>4, <1>5 DEF Before

\* The main thread closes the connection whose event it has.
LEMMA CloseKeeps ==
  ASSUME Before, NEW fd \in Fds, NEW k \in {"IN", "OUT", "HUP"}, Handles(<<fd, k>>), CloseConn(fd),
         UNCHANGED <<queue, pc, job, tmp, reused, main, seen>>
  PROVE  Before'
<1>1. /\ main = "batch" /\ fd \in open /\ Noted' = Noted \ {fd} /\ fd \notin Watched /\ fd \notin Queued
      /\ events' \subseteq events /\ \A e, f \in events' : e[1] = f[1] => e = f
      /\ \A w \in Workers : Busy(w) => job[w] # fd
      /\ m_sockfd[fd] = fd /\ fd # NoFd
  BY Taken, Numbers
<1>2. /\ open' = open \ {fd} /\ armed' = [armed EXCEPT ![fd] = "off"]
      /\ m_sockfd' = [m_sockfd EXCEPT ![fd] = NoFd] /\ m_user_count' = m_user_count - 1 /\ torn' = torn
  BY <1>1 DEF CloseConn, Removefd
<1>3. Watched' = Watched /\ Queued' = Queued
  BY <1>1, <1>2 DEF Watched, Queued, Before, Shape
<1>4. /\ \A w \in Workers : (Busy(w)' <=> Busy(w)) /\ (Busy(w) => (Gone(w)' <=> Gone(w)))
      /\ Closers' = Closers /\ \A f : Left(f)' <=> Left(f)
  <2>1. \A w \in Workers : Busy(w) => m_sockfd'[job[w]] = m_sockfd[job[w]]
    BY <1>1, <1>2 DEF Before, Shape
  <2> QED
    BY <2>1, Standing
<1>5. Shape' /\ Loop'
  BY <1>1, <1>2 DEF Before, Shape, Loop
<1>6. Working'
  BY <1>1, <1>2, <1>3, <1>4 DEF Before, Hands, Working
<1>7. Waiting' /\ Told' /\ Registered'
  BY <1>1, <1>2, <1>3 DEF Before, Hands, Waiting, Told, Registered
<1>8. Counted'
  <2>1. Cardinality(open') = Cardinality(open) - 1
    BY <1>1, <1>2, Sizes, FS_RemoveElement DEF Before
  <2> QED
    BY <1>1, <1>2, <1>4, <2>1, Sizes DEF Before, Counted, Shape
<1>9. Own'
  <2>1. ~Left(fd)
    BY <1>1 DEF Left, Busy
  <2> QED
    BY <1>1, <1>2, <1>4, <2>1 DEF Before, Shape, Own
<1> QED
  BY <1>5, <1>6, <1>7, <1>8, <1>9 DEF Before, Hands

\* The main thread registers the connection whose event it has again.
LEMMA RegisterKeeps ==
  ASSUME Before, NEW fd \in Fds, NEW k \in {"IN", "OUT", "HUP"}, Handles(<<fd, k>>),
         NEW ev \in {"IN", "OUT"}, Modfd(fd, ev),
         UNCHANGED <<open, m_sockfd, m_user_count, torn, queue, pc, job, tmp, reused, main, seen>>
  PROVE  Before'
<1>1. /\ main = "batch" /\ fd \in open /\ Noted' = Noted \ {fd} /\ fd \notin Queued
      /\ events' \subseteq events /\ \A e, f \in events' : e[1] = f[1] => e = f
      /\ \A w \in Workers : Busy(w) => job[w] # fd
  BY Taken
<1>2. armed' = [armed EXCEPT ![fd] = ev]
  BY <1>1 DEF Modfd
<1>3. Watched' = Watched \union {fd} /\ Queued' = Queued
  BY <1>2 DEF Watched, Queued, Before, Shape
<1>4. /\ \A w \in Workers : (Busy(w)' <=> Busy(w)) /\ (Busy(w) => (Gone(w)' <=> Gone(w)))
      /\ Closers' = Closers /\ \A f : Left(f)' <=> Left(f)
  BY Standing
<1>5. Shape' /\ Loop'
  BY <1>1, <1>2 DEF Before, Shape, Loop
<1>6. Counted' /\ Own'
  BY <1>4 DEF Before, Counted, Own
<1>7. Working'
  BY <1>1, <1>3, <1>4 DEF Before, Hands, Working
<1>8. Waiting' /\ Told' /\ Registered'
  BY <1>1, <1>3 DEF Before, Hands, Waiting, Told, Registered
<1> QED
  BY <1>5, <1>6, <1>7, <1>8 DEF Before, Hands

-----------------------------------------------------------------------------
(* The main thread. *)

LEMMA EpollWaitKeeps ==
  ASSUME Before, EpollWait
  PROVE  Before'
<1> DEFINE raised == {fd \in Fds : Raised(fd)}
<1>1. /\ events = {} /\ main = "wait" /\ main' = "batch"
      /\ events' = {<<fd, EventOf(fd)>> : fd \in raised} \union (IF arrived THEN {<<Listen, "IN">>} ELSE {})
      /\ armed' = [fd \in Fds |-> IF fd \in raised THEN "off" ELSE armed[fd]]
      /\ UNCHANGED <<open, m_sockfd, m_user_count, torn, queue, pc, job, tmp, reused, seen>>
  BY DEF EpollWait, Before, Loop, users, counting, pool
<1>2. raised \subseteq Watched /\ Watched' = Watched \ raised /\ Queued' = Queued
  BY <1>1 DEF Watched, Raised, Queued
<1>3. \A fd \in raised : EventOf(fd) \in {"IN", "OUT", "HUP"}
  BY DEF EventOf, Raised, Before, Shape
<1>4. Noted' = raised
  <2>1. \A fd \in raised : <<fd, EventOf(fd)>> \in events' /\ fd # Listen
    BY <1>1, Numbers
  <2>2. \A e \in events' : e[1] \in raised \union {Listen}
    BY <1>1
  <2>3. Noted' = {e[1] : e \in events'} \ {Listen}
    BY DEF Noted
  <2>4. \A fd \in raised : fd \in {e[1] : e \in events'}
    <3> SUFFICES ASSUME NEW fd \in raised PROVE \E e \in events' : fd = e[1]
      OBVIOUS
    <3>1. fd = <<fd, EventOf(fd)>>[1]
      OBVIOUS
    <3> QED
      BY <2>1, <3>1
  <2> HIDE DEF raised
  <2> QED
    BY <2>1, <2>2, <2>3, <2>4
<1>5. \A e, f \in events' : e[1] = f[1] => e = f
  BY <1>1, Numbers
<1>6. /\ \A w \in Workers : (Busy(w)' <=> Busy(w)) /\ (Busy(w) => (Gone(w)' <=> Gone(w)))
      /\ Closers' = Closers /\ \A f : Left(f)' <=> Left(f)
  BY <1>1, Standing
<1>7. Shape' /\ Loop'
  BY <1>1, <1>3 DEF Before, Shape, Loop
<1>8. Counted' /\ Own'
  BY <1>1, <1>6 DEF Before, Counted, Own
<1> HIDE DEF raised
<1>9. Working'
  BY <1>1, <1>2, <1>4, <1>6 DEF Before, Hands, Working
<1>10. Waiting' /\ Told' /\ Registered'
  BY <1>1, <1>2, <1>4, <1>5 DEF Before, Hands, Waiting, Told, Registered
<1> QED
  BY <1>1, <1>7, <1>8, <1>9, <1>10 DEF Before, Hands

\* With a descriptor that a worker is not done with, it happens what the properties except.
LEMMA AcceptKeeps ==
  ASSUME Before, Accept
  PROVE  reused' = TRUE \/ Before'
<1>1. PICK fd \in Fds \ open :
        /\ open' = open \union {fd} /\ m_sockfd' = [m_sockfd EXCEPT ![fd] = fd]
        /\ armed' = [armed EXCEPT ![fd] = "IN"]
        /\ reused' = (reused \/ \E w \in Workers : pc[w] # "idle" /\ job[w] = fd)
  BY DEF Accept
<1>2. CASE \E w \in Workers : pc[w] # "idle" /\ job[w] = fd
  BY <1>1, <1>2
<1>3. CASE ~\E w \in Workers : pc[w] # "idle" /\ job[w] = fd
  <2>1. main = "batch" /\ events' \subseteq events /\ Noted' = Noted /\ \A e, f \in events' : e[1] = f[1] => e = f
    BY TakenListen DEF Accept
  <2>2. /\ UNCHANGED <<m_user_count, torn, queue, pc, job, tmp>> /\ main' = "count" /\ seen' = m_user_count
        /\ ~reused'
    BY <1>1, <1>3 DEF Accept, counting, Before
  <2>3. Watched' = Watched \union {fd} /\ Queued' = Queued
    BY <1>1, <2>2 DEF Watched, Queued, Before, Shape
  <2>4. fd \notin Noted /\ fd \notin Queued /\ \A w \in Workers : Busy(w) => job[w] # fd
    BY <1>3 DEF Before, Hands, Waiting, Told, Busy
  <2>5. /\ \A w \in Workers : (Busy(w)' <=> Busy(w)) /\ (Busy(w) => (Gone(w)' <=> Gone(w)))
        /\ Closers' = Closers /\ \A f : Left(f)' <=> Left(f)
    <3>1. \A w \in Workers : Busy(w) => m_sockfd'[job[w]] = m_sockfd[job[w]]
      BY <1>1, <2>4 DEF Before, Shape
    <3> QED
      BY <2>2, <3>1, Standing
  <2>6. Shape' /\ Loop'
    BY <1>1, <2>1, <2>2 DEF Before, Shape, Loop
  <2>7. Working'
    BY <1>1, <2>1, <2>2, <2>3, <2>4, <2>5 DEF Before, Hands, Working
  <2>8. Waiting' /\ Told' /\ Registered'
    BY <1>1, <2>1, <2>2, <2>3, <2>4 DEF Before, Hands, Waiting, Told, Registered
  <2>9. Counted'
    <3>1. Cardinality(open') = Cardinality(open) + 1
      BY <1>1, Sizes, FS_AddElement DEF Before
    <3> QED
      BY <2>1, <2>2, <2>5, <3>1, Sizes DEF Before, Counted, Shape
  <2>10. Own'
    BY <1>1, <2>5 DEF Before, Shape, Own
  <2> QED
    BY <2>2, <2>6, <2>7, <2>8, <2>9, <2>10 DEF Before, Hands
<1> QED
  BY <1>2, <1>3

\* The count goes up by one if nobody has changed it since it was read.
LEMMA CountKeeps ==
  ASSUME Before, Count
  PROVE  Before'
<1>1. /\ main = "count" /\ main' = "batch" /\ m_user_count' = seen + 1 /\ seen' = 0
      /\ torn' = (torn \/ m_user_count # seen)
      /\ UNCHANGED <<open, armed, m_sockfd, queue, pc, job, tmp, reused, events>>
  BY DEF Count, sockets, users, pool
<1>2. Queued' = Queued /\ Watched' = Watched /\ Noted' = Noted
  BY <1>1 DEF Queued, Watched, Noted
<1>3. /\ \A w \in Workers : (Busy(w)' <=> Busy(w)) /\ (Busy(w) => (Gone(w)' <=> Gone(w)))
      /\ Closers' = Closers /\ \A f : Left(f)' <=> Left(f)
  BY <1>1, Standing
<1>4. Shape' /\ Loop'
  BY <1>1 DEF Before, Shape, Loop
<1>5. Own'
  BY <1>1, <1>3 DEF Before, Own
<1>6. Hands'
  BY <1>1, <1>2, <1>3 DEF Before, Hands, Working, Waiting, Told, Registered
<1>7. Counted'
  <2> SUFFICES ASSUME torn' # TRUE
               PROVE  m_user_count' = Cardinality(open') + Cardinality(Closers') - (IF main' = "count" THEN 1 ELSE 0)
    BY DEF Counted
  <2>1. torn # TRUE /\ m_user_count = seen
    BY <1>1
  <2>2. m_user_count = Cardinality(open) + Cardinality(Closers) - 1
    BY <1>1, <2>1 DEF Before, Counted
  <2> QED
    BY <1>1, <1>3, <2>1, <2>2, Sizes DEF Before, Shape
<1> QED
  BY <1>1, <1>4, <1>5, <1>6, <1>7 DEF Before

LEMMA ReadKeeps ==
  ASSUME Before, NEW fd \in Fds, Read(fd)
  PROVE  Before'
<1>1. /\ main = "batch" /\ fd \in open /\ Noted' = Noted \ {fd} /\ fd \in Noted /\ fd \notin Queued /\ fd \notin Watched
      /\ events' \subseteq events /\ \A e, f \in events' : e[1] = f[1] => e = f
      /\ \A w \in Workers : Busy(w) => job[w] # fd
  BY Taken DEF Read
<1>2. /\ UNCHANGED <<open, armed, m_sockfd, m_user_count, torn, pc, job, tmp, reused, main, seen>>
      /\ Watched' = Watched
  BY DEF Read, counting, Watched
<1>3. /\ \A w \in Workers : (Busy(w)' <=> Busy(w)) /\ (Busy(w) => (Gone(w)' <=> Gone(w)))
      /\ Closers' = Closers /\ \A f : Left(f)' <=> Left(f)
  BY <1>2, Standing
<1>4. /\ queue' \in Seq(Fds) /\ Queued' \subseteq Queued \union {fd}
      /\ \A i, j \in DOMAIN queue' : queue'[i] = queue'[j] => i = j
  <2>1. CASE queue' = Append(queue, fd)
    BY <1>1, <2>1, Longer DEF Before, Hands
  <2>2. CASE queue' = queue
    BY <2>2 DEF Queued, Before, Shape, Hands, Waiting
  <2> QED
    BY <2>1, <2>2 DEF Read
<1>5. Shape' /\ Loop'
  BY <1>1, <1>2, <1>4 DEF Before, Shape, Loop
<1>6. Counted' /\ Own'
  BY <1>2, <1>3 DEF Before, Counted, Own
<1>7. Working'
  BY <1>1, <1>2, <1>3, <1>4 DEF Before, Hands, Working
<1>8. Waiting' /\ Told' /\ Registered'
  BY <1>1, <1>2, <1>4 DEF Before, Hands, Waiting, Told, Registered
<1> QED
  BY <1>2, <1>5, <1>6, <1>7, <1>8 DEF Before, Hands

LEMMA HandlerKeeps ==
  ASSUME Before, NEW fd \in Fds, Handler(fd)
  PROVE  Before'
<1>1. CASE Hangup(fd) \/ ReadFails(fd) \/ WriteFails(fd)
  BY <1>1, CloseKeeps DEF Hangup, ReadFails, WriteFails, pool
<1>2. CASE Read(fd)
  BY <1>2, ReadKeeps
<1>3. CASE WriteNothing(fd)
  <2>1. m_sockfd[fd] = fd
    BY <1>3, Taken DEF WriteNothing
  <2> QED
    BY <1>3, <2>1, RegisterKeeps DEF WriteNothing, pool, counting
<1>4. CASE WriteAll(fd)
  <2>1. CASE m_linger[fd]
    BY <1>4, <2>1, RegisterKeeps DEF WriteAll, pool, counting
  <2>2. CASE ~m_linger[fd]
    BY <1>4, <2>2, CloseKeeps DEF WriteAll, pool
  <2> QED
    BY <2>1, <2>2
<1>5. CASE WriteBlocks(fd)
  BY <1>5, RegisterKeeps DEF WriteBlocks, users, pool, counting
<1> QED
  BY <1>1, <1>2, <1>3, <1>4, <1>5 DEF Handler

LEMMA MainKeeps ==
  ASSUME Before, Main
  PROVE  reused' = TRUE \/ Before'
<1>1. CASE EpollWait
  BY <1>1, EpollWaitKeeps
<1>2. CASE AcceptFails \/ Refuse
  <2>1. UNCHANGED <<open, armed, m_sockfd, m_user_count, torn, queue, pc, job, tmp, reused, main, seen>>
    BY <1>2 DEF AcceptFails, Refuse, sockets, users, counting, pool
  <2>2. events' \subseteq events /\ Noted' = Noted
    BY <1>2, TakenListen DEF AcceptFails, Refuse
  <2> QED
    BY <2>1, <2>2, QuietKeeps
<1>3. CASE Accept
  BY <1>3, AcceptKeeps
<1>4. CASE Count
  BY <1>4, CountKeeps
<1>5. CASE BatchEnds
  <2>1. /\ UNCHANGED <<open, armed, m_sockfd, m_user_count, torn, queue, pc, job, tmp, reused, events, seen>>
        /\ main = "batch" /\ events = {} /\ main' = "wait"
    BY <1>5 DEF BatchEnds, sockets, users, counting, pool
  <2>2. Queued' = Queued /\ Watched' = Watched /\ Noted' = Noted
    BY <2>1 DEF Queued, Watched, Noted
  <2>3. /\ \A w \in Workers : (Busy(w)' <=> Busy(w)) /\ (Busy(w) => (Gone(w)' <=> Gone(w)))
        /\ Closers' = Closers /\ \A f : Left(f)' <=> Left(f)
    BY <2>1, Standing
  <2>4. Shape' /\ Loop'
    BY <2>1 DEF Before, Shape, Loop
  <2>5. Own' /\ Counted'
    BY <2>1, <2>3 DEF Before, Own, Counted
  <2>6. Hands'
    BY <2>1, <2>2, <2>3 DEF Before, Hands, Working, Waiting, Told, Registered
  <2> QED
    BY <2>1, <2>4, <2>5, <2>6 DEF Before
<1>6. ASSUME NEW fd \in Fds, Handler(fd) PROVE Before'
  BY <1>6, HandlerKeeps
<1> QED
  BY <1>1, <1>2, <1>3, <1>4, <1>5, <1>6 DEF Main

-----------------------------------------------------------------------------
(* A worker.  What it has in hand is no other's, so that a step of its own leaves *)
(* where the others are with theirs.                                              *)

LEMMA OthersStay ==
  ASSUME NEW w \in Workers,
         \A v \in Workers \ {w} : pc'[v] = pc[v] /\ job'[v] = job[v],
         \A v \in Workers \ {w} : Busy(v) => m_sockfd'[job[v]] = m_sockfd[job[v]]
  PROVE  /\ \A v \in Workers \ {w} : (Busy(v)' <=> Busy(v)) /\ (Busy(v) => (Gone(v)' <=> Gone(v)))
         /\ Closing(w)' => Closers' = Closers \union {w}
         /\ ~Closing(w)' => Closers' = Closers \ {w}
<1>1. \A v \in Workers \ {w} : (Busy(v)' <=> Busy(v)) /\ (Closing(v)' <=> Closing(v))
  BY DEF Busy, Closing
<1>2. \A v \in Workers \ {w} : Busy(v) => (Gone(v)' <=> Gone(v))
  BY <1>1 DEF Gone
<1>3. CASE Closing(w)'
  <2>1. Closers' = Closers \union {w}
    BY <1>1, <1>3 DEF Closers
  <2> QED
    BY <1>1, <1>2, <1>3, <2>1
<1>4. CASE ~Closing(w)'
  <2>1. Closers' = Closers \ {w}
    BY <1>1, <1>4 DEF Closers
  <2> QED
    BY <1>1, <1>2, <1>4, <2>1
<1> QED
  BY <1>3, <1>4

LEMMA TakeKeeps ==
  ASSUME Before, NEW w \in Workers, Take(w)
  PROVE  Before'
<1> DEFINE fd == Head(queue)
<1>1. /\ queue' \in Seq(Fds) /\ fd \in Queued /\ fd \in Fds /\ Queued' = Queued \ {fd}
      /\ \A i, j \in DOMAIN queue' : queue'[i] = queue'[j] => i = j
  BY Shorter DEF Take, Before, Hands
<1>2. /\ pc[w] = "idle" /\ pc' = [pc EXCEPT ![w] = "process"] /\ job' = [job EXCEPT ![w] = fd]
      /\ UNCHANGED <<open, armed, m_sockfd, m_user_count, torn, tmp, reused, main, events, seen>>
  BY DEF Take, Goto, sockets, users, counting, loop
<1> HIDE DEF fd
<1>3. Watched' = Watched /\ Noted' = Noted
  BY <1>2 DEF Watched, Noted
<1>4. /\ \A v \in Workers \ {w} : /\ job'[v] = job[v] /\ pc'[v] = pc[v]
                                   /\ (Busy(v)' <=> Busy(v)) /\ (Busy(v) => (Gone(v)' <=> Gone(v)))
      /\ job'[w] = fd /\ pc'[w] = "process" /\ Busy(w)' /\ ~Busy(w) /\ Closers' = Closers
  <2>1. job'[w] = fd /\ pc'[w] = "process" /\ \A v \in Workers \ {w} : job'[v] = job[v] /\ pc'[v] = pc[v]
    BY <1>2 DEF Before, Shape
  <2>2. ~Busy(w) /\ w \notin Closers /\ Busy(w)' /\ ~Closing(w)'
    BY <1>2, <2>1 DEF Busy, Closers, Closing
  <2> QED
    BY <1>2, <2>1, <2>2, OthersStay
<1>5. fd \in open \ (Noted \union Watched) /\ \A v \in Workers : Busy(v) => job[v] # fd
  BY <1>1 DEF Before, Hands, Waiting, Working
<1>6. ~Gone(w)'
  BY <1>4 DEF Gone, Closing
<1>7. Shape' /\ Loop'
  BY <1>1, <1>2 DEF Before, Shape, Loop
<1>8. Counted'
  BY <1>2, <1>4 DEF Before, Counted
<1>9. Own'
  <2>1. \A f : Left(f)' <=> Left(f)
    BY <1>2, <1>4 DEF Left
  <2> QED
    BY <1>2, <2>1 DEF Before, Own
<1>10. Working'
  BY <1>1, <1>2, <1>3, <1>4, <1>5, <1>6 DEF Before, Hands, Working
<1>11. Waiting' /\ Told' /\ Registered'
  BY <1>1, <1>2, <1>3 DEF Before, Hands, Waiting, Told, Registered
<1> QED
  BY <1>2, <1>7, <1>8, <1>9, <1>10, <1>11 DEF Before, Hands

\* The worker registers its connection, if it has not closed it, and forgets it.
LEMMA GiveBackKeeps ==
  ASSUME Before, NEW w \in Workers, pc[w] \in {"process", "rearm"},
         NEW ev \in {"IN", "OUT"}, Modfd(m_sockfd[job[w]], ev),
         pc' = [pc EXCEPT ![w] = "idle"], job' = [job EXCEPT ![w] = NoFd],
         UNCHANGED <<open, m_sockfd, m_user_count, torn, queue, tmp, reused, main, events, seen>>
  PROVE  Before'
<1> DEFINE fd == job[w]
<1>1. /\ Busy(w) /\ ~Closing(w) /\ pc[w] # "forget" /\ fd \in Fds
      /\ fd \notin Queued /\ fd \notin Noted /\ (fd \in open <=> ~Gone(w))
      /\ \A v \in Workers : Busy(v) /\ job[v] = fd => v = w
  <2>1. Busy(w) /\ ~Closing(w) /\ pc[w] # "forget"
    BY DEF Busy, Closing
  <2>2. /\ fd \notin Queued /\ fd \notin Noted /\ (fd \in open <=> ~Gone(w))
        /\ \A v \in Workers : Busy(v) /\ job[v] = fd => v = w
    BY <2>1 DEF Before, Hands, Working
  <2>3. fd \in Fds
    BY <2>1 DEF Before, Hands, Working
  <2> QED
    BY <2>1, <2>2, <2>3
<1>2. Queued' = Queued /\ Noted' = Noted
  BY DEF Queued, Noted
<1>3. armed' \in [Fds -> {"IN", "OUT", "off"}] /\ Watched' \subseteq Watched \union ({fd} \intersect open)
  <2>1. CASE fd \in open
    <3>1. m_sockfd[fd] = fd
      BY <1>1, <2>1 DEF Before, Own
    <3>2. armed' = [armed EXCEPT ![fd] = ev]
      BY <2>1, <3>1 DEF Modfd
    <3> QED
      BY <2>1, <3>2 DEF Watched, Before, Shape
  <2>2. CASE fd \notin open
    <3>1. m_sockfd[fd] = NoFd
      BY <1>1, <2>2 DEF Gone
    <3>2. armed' = armed
      BY <3>1, Numbers DEF Modfd, Before, Shape
    <3> QED
      BY <3>2 DEF Watched, Before, Shape
  <2> QED
    BY <2>1, <2>2
<1>4. /\ \A v \in Workers \ {w} : /\ job'[v] = job[v] /\ pc'[v] = pc[v]
                                   /\ (Busy(v)' <=> Busy(v)) /\ (Busy(v) => (Gone(v)' <=> Gone(v)))
      /\ ~Busy(w)' /\ pc'[w] = "idle" /\ Closers' = Closers
  <2>1. pc'[w] = "idle" /\ \A v \in Workers \ {w} : job'[v] = job[v] /\ pc'[v] = pc[v]
    BY DEF Before, Shape
  <2>2. w \notin Closers /\ ~Busy(w)' /\ ~Closing(w)'
    BY <1>1, <2>1 DEF Closers, Busy, Closing
  <2> QED
    BY <2>1, <2>2, OthersStay
<1>5. Shape' /\ Loop'
  BY <1>3 DEF Before, Shape, Loop
<1>6. Counted'
  BY <1>4 DEF Before, Counted
<1>7. Own'
  <2>1. \A f : Left(f)' <=> Left(f)
    BY <1>1, <1>4 DEF Left
  <2> QED
    BY <2>1 DEF Before, Own
<1>8. Working'
  BY <1>1, <1>2, <1>3, <1>4 DEF Before, Hands, Working
<1>9. Waiting' /\ Told' /\ Registered'
  BY <1>1, <1>2, <1>3 DEF Before, Hands, Waiting, Told, Registered
<1> QED
  BY <1>5, <1>6, <1>7, <1>8, <1>9 DEF Before, Hands

\* A worker goes on with its connection as it is, except for m_sockfd and the count.
LEMMA GoesOn ==
  ASSUME Before, NEW w \in Workers, Busy(w),
         pc'[w] \in {"close", "load", "store", "rearm"}, pc' = [pc EXCEPT ![w] = pc'[w]],
         UNCHANGED <<open, armed, queue, job, reused, main, events, seen>>,
         \A v \in Workers \ {w} : Busy(v) => m_sockfd'[job[v]] = m_sockfd[job[v]],
         Gone(w)' <=> Gone(w), tmp' \in [Workers -> Int], m_sockfd' \in [Fds -> Fds \union {NoFd}],
         m_user_count' \in Int, Counted', Own'
  PROVE  Before'
<1>1. Queued' = Queued /\ Noted' = Noted /\ Watched' = Watched
  BY DEF Queued, Noted, Watched
<1>2. \A v \in Workers : (Busy(v)' <=> Busy(v)) /\ (Busy(v) => (Gone(v)' <=> Gone(v)))
  <2>1. \A v \in Workers \ {w} : pc'[v] = pc[v] /\ job'[v] = job[v]
    BY DEF Before, Shape
  <2>2. Busy(w)'
    BY DEF Busy
  <2> QED
    BY <2>1, <2>2, OthersStay
<1>3. Shape' /\ Loop'
  <2>1. pc' \in [Workers -> {"idle", "process", "close", "forget", "load", "store", "rearm"}]
    BY DEF Before, Shape
  <2>2. Shape'
    BY <2>1 DEF Before, Shape
  <2>3. Loop'
    BY DEF Before, Loop
  <2> QED
    BY <2>2, <2>3
<1>4. Hands'
  BY <1>1, <1>2 DEF Before, Hands, Working, Waiting, Told, Registered
<1> QED
  BY <1>3, <1>4 DEF Before

LEMMA ReplyKeeps ==
  ASSUME Before, NEW w \in Workers, Reply(w)
  PROVE  Before'
<1>1. /\ pc[w] = "process"
      /\ UNCHANGED <<open, armed, m_sockfd, m_user_count, torn, queue, job, tmp, reused, main, events, seen>>
  BY DEF Reply, sockets, counting, loop
<1>2. PICK p \in {"close", "rearm"} : pc' = [pc EXCEPT ![w] = p]
  BY DEF Reply, Goto
<1>3. /\ Busy(w) /\ w \notin Closers /\ job[w] \in open
      /\ pc'[w] = p /\ \A v \in Workers \ {w} : pc'[v] = pc[v]
  <2>1. Busy(w) /\ ~Gone(w) /\ w \notin Closers
    BY <1>1 DEF Busy, Gone, Closing, Closers
  <2> QED
    BY <1>2, <2>1 DEF Before, Hands, Working, Shape
<1>4. m_sockfd[job[w]] # NoFd
  BY <1>3, Numbers DEF Before, Own, Shape
<1>5. ~Gone(w)' /\ ~Gone(w)
  BY <1>1, <1>3, <1>4 DEF Gone, Closing
<1>6. Counted'
  <2>1. Closers' = Closers
    BY <1>1, <1>3, <1>5, OthersStay DEF Gone
  <2> QED
    BY <1>1, <2>1 DEF Before, Counted
<1>7. Own'
  <2>1. \A f : Left(f)' <=> Left(f)
    BY <1>1, <1>3 DEF Left
  <2> QED
    BY <1>1, <2>1 DEF Before, Own
<1> QED
  BY <1>1, <1>2, <1>3, <1>5, <1>6, <1>7, GoesOn DEF Before, Shape

-----------------------------------------------------------------------------
(* A worker's close_conn.  The descriptor is no longer in epoll or open, and the *)
(* count is still to go down.                                                    *)

LEMMA RemovesKeeps ==
  ASSUME Before, NEW w \in Workers, CloseRemoves(w)
  PROVE  Before'
<1> DEFINE fd == job[w]
<1>1. pc[w] = "close" /\ UNCHANGED <<m_sockfd, m_user_count, torn, queue, job, tmp, reused, main, events, seen>>
  BY DEF CloseRemoves, users, counting, loop
<1>2. Busy(w) /\ ~Gone(w) /\ w \notin Closers
  BY <1>1 DEF Busy, Gone, Closing, Closers
<1>3. /\ fd \in open /\ fd \in Fds /\ fd \notin Queued /\ fd \notin Noted /\ fd \notin Watched
      /\ \A v \in Workers : Busy(v) /\ job[v] = fd => v = w
  BY <1>2 DEF Before, Hands, Working, Shape
<1>4. m_sockfd[fd] = fd /\ fd # NoFd
  BY <1>3, Numbers DEF Before, Own
<1>5. pc' = [pc EXCEPT ![w] = "forget"] /\ open' = open \ {fd} /\ armed' = [armed EXCEPT ![fd] = "off"]
  BY <1>4 DEF CloseRemoves, Goto, Removefd
<1>6. Queued' = Queued /\ Noted' = Noted /\ Watched' = Watched
  BY <1>1, <1>3, <1>5 DEF Queued, Noted, Watched, Before, Shape
<1>8. /\ pc'[w] = "forget" /\ Gone(w)' /\ Busy(w)' /\ Closing(w)'
      /\ \A v \in Workers \ {w} : pc'[v] = pc[v]
  <2>1. pc'[w] = "forget" /\ \A v \in Workers \ {w} : pc'[v] = pc[v]
    BY <1>5 DEF Before, Shape
  <2> QED
    BY <2>1 DEF Gone, Closing, Busy
<1>7. /\ \A v \in Workers \ {w} : (Busy(v)' <=> Busy(v)) /\ (Busy(v) => (Gone(v)' <=> Gone(v)))
      /\ Closers' = Closers \union {w}
  BY <1>1, <1>8, OthersStay
<1>9. Shape' /\ Loop'
  BY <1>1, <1>5 DEF Before, Shape, Loop
<1>10. Working'
  BY <1>1, <1>2, <1>3, <1>5, <1>6, <1>7, <1>8 DEF Before, Hands, Working
<1>11. Waiting' /\ Told' /\ Registered'
  BY <1>1, <1>3, <1>5, <1>6 DEF Before, Hands, Waiting, Told, Registered
<1>12. Counted'
  <2>1. Cardinality(open') = Cardinality(open) - 1
    BY <1>3, <1>5, Sizes, FS_RemoveElement DEF Before
  <2>2. Cardinality(Closers') = Cardinality(Closers) + 1
    BY <1>2, <1>7, Sizes, FS_AddElement DEF Before
  <2> QED
    BY <1>1, <2>1, <2>2, Sizes DEF Before, Counted
<1>13. Own'
  <2>1. \A f \in Fds : (f \in open' \/ Left(f)') <=> (f \in open \/ Left(f))
    <3>1. \A f \in Fds : f = fd => Left(f)'
      BY <1>1, <1>8 DEF Left
    <3>2. \A f \in Fds \ {fd} : Left(f)' <=> Left(f)
      BY <1>1, <1>7, <1>8 DEF Left
    <3> HIDE DEF fd
    <3>3. \A f \in Fds \ {fd} : f \in open' <=> f \in open
      BY <1>5
    <3> QED
      BY <1>3, <3>1, <3>2, <3>3
  <2> QED
    BY <1>1, <2>1 DEF Before, Own
<1> QED
  BY <1>1, <1>9, <1>10, <1>11, <1>12, <1>13 DEF Before, Hands

LEMMA ForgetsKeeps ==
  ASSUME Before, NEW w \in Workers, CloseForgets(w)
  PROVE  Before'
<1> DEFINE fd == job[w]
<1>1. /\ pc[w] = "forget" /\ pc' = [pc EXCEPT ![w] = "load"] /\ m_sockfd' = [m_sockfd EXCEPT ![fd] = NoFd]
      /\ UNCHANGED <<open, armed, m_user_count, torn, queue, job, tmp, reused, main, events, seen>>
  BY DEF CloseForgets, Goto, sockets, counting, loop
<1>2. Busy(w) /\ Gone(w) /\ w \in Closers
  BY <1>1 DEF Busy, Gone, Closing, Closers
<1>3. fd \notin open /\ \A v \in Workers : Busy(v) /\ job[v] = fd => v = w
  BY <1>2 DEF Before, Hands, Working
<1>4. \A v \in Workers \ {w} : Busy(v) => m_sockfd'[job[v]] = m_sockfd[job[v]]
  BY <1>1, <1>3 DEF Before, Shape
<1>5. pc'[w] = "load" /\ \A v \in Workers \ {w} : pc'[v] = pc[v]
  BY <1>1 DEF Before, Shape
<1>6. Gone(w)' /\ Closing(w)'
  BY <1>5 DEF Gone, Closing
<1>7. Counted'
  <2>1. Closers' = Closers
    BY <1>1, <1>2, <1>4, <1>5, <1>6, OthersStay
  <2> QED
    BY <1>1, <2>1 DEF Before, Counted
<1>8. Own'
  <2>1. ~Left(fd)'
    BY <1>1, <1>3, <1>5 DEF Left, Busy
  <2>2. \A f \in Fds \ {fd} : Left(f)' <=> Left(f)
    BY <1>1, <1>5 DEF Left
  <2> QED
    BY <1>1, <1>3, <2>1, <2>2 DEF Before, Own, Shape
<1>9. m_sockfd' \in [Fds -> Fds \union {NoFd}]
  BY <1>1 DEF Before, Shape
<1> QED
  BY <1>1, <1>2, <1>4, <1>5, <1>6, <1>7, <1>8, <1>9, GoesOn DEF Before, Shape

LEMMA LoadsKeeps ==
  ASSUME Before, NEW w \in Workers, CloseLoads(w)
  PROVE  Before'
<1>1. /\ pc[w] = "load" /\ pc' = [pc EXCEPT ![w] = "store"] /\ tmp' = [tmp EXCEPT ![w] = m_user_count]
      /\ UNCHANGED <<open, armed, m_sockfd, m_user_count, torn, queue, job, reused, main, events, seen>>
  BY DEF CloseLoads, Goto, sockets, users, counting, loop
<1>2. Busy(w) /\ Gone(w) /\ w \in Closers
  BY <1>1 DEF Busy, Gone, Closing, Closers
<1>3. pc'[w] = "store" /\ \A v \in Workers \ {w} : pc'[v] = pc[v]
  BY <1>1 DEF Before, Shape
<1>4. Gone(w)' /\ Closing(w)'
  BY <1>3 DEF Gone, Closing
<1>5. Counted'
  <2>1. Closers' = Closers
    BY <1>1, <1>2, <1>3, <1>4, OthersStay
  <2> QED
    BY <1>1, <2>1 DEF Before, Counted
<1>6. Own'
  <2>1. \A f : Left(f)' <=> Left(f)
    BY <1>1, <1>3 DEF Left
  <2> QED
    BY <1>1, <2>1 DEF Before, Own
<1>7. tmp' \in [Workers -> Int]
  BY <1>1 DEF Before, Shape
<1> QED
  BY <1>1, <1>2, <1>3, <1>4, <1>5, <1>6, <1>7, GoesOn DEF Before, Shape

LEMMA StoresKeeps ==
  ASSUME Before, NEW w \in Workers, CloseStores(w)
  PROVE  Before'
<1>1. /\ pc[w] = "store" /\ pc' = [pc EXCEPT ![w] = "rearm"] /\ tmp' = [tmp EXCEPT ![w] = 0]
      /\ m_user_count' = tmp[w] - 1 /\ torn' = (torn \/ m_user_count # tmp[w])
      /\ UNCHANGED <<open, armed, m_sockfd, queue, job, reused, main, events, seen>>
  BY DEF CloseStores, Goto, sockets, users, loop
<1>2. Busy(w) /\ Gone(w) /\ w \in Closers
  BY <1>1 DEF Busy, Gone, Closing, Closers
<1>3. job[w] \notin open /\ \A v \in Workers : Busy(v) /\ job[v] = job[w] => v = w
  BY <1>2 DEF Before, Hands, Working
<1>4. pc'[w] = "rearm" /\ \A v \in Workers \ {w} : pc'[v] = pc[v]
  BY <1>1 DEF Before, Shape
<1>5. m_sockfd[job[w]] = NoFd
  <2>1. job[w] \in Fds
    BY <1>2 DEF Before, Hands, Working
  <2>2. ~Left(job[w])
    BY <1>1, <1>3 DEF Left, Busy
  <2> QED
    BY <1>3, <2>1, <2>2 DEF Before, Own
<1>6. Gone(w)' /\ ~Closing(w)'
  BY <1>1, <1>4, <1>5 DEF Gone, Closing
<1>7. Counted'
  <2> SUFFICES ASSUME torn' # TRUE
               PROVE  m_user_count' = Cardinality(open') + Cardinality(Closers') - (IF main' = "count" THEN 1 ELSE 0)
    BY DEF Counted
  <2>1. torn # TRUE /\ m_user_count = tmp[w]
    BY <1>1
  <2>2. Closers' = Closers \ {w}
    BY <1>1, <1>4, <1>6, OthersStay
  <2>3. Cardinality(Closers') = Cardinality(Closers) - 1
    BY <1>2, <2>2, Sizes, FS_RemoveElement DEF Before
  <2> QED
    <3>1. m_user_count = Cardinality(open) + Cardinality(Closers) - (IF main = "count" THEN 1 ELSE 0)
      BY <2>1 DEF Before, Counted
    <3>2. /\ m_user_count' = m_user_count - 1 /\ open' = open /\ main' = main
          /\ Cardinality(open) \in Nat /\ Cardinality(Closers) \in Nat
      BY <1>1, <2>1, Sizes DEF Before
    <3> QED
      BY <2>3, <3>1, <3>2
<1>8. Own'
  <2>1. \A f : Left(f)' <=> Left(f)
    BY <1>1, <1>4 DEF Left
  <2> QED
    BY <1>1, <2>1 DEF Before, Own
<1>9. tmp' \in [Workers -> Int] /\ m_user_count' \in Int
  BY <1>1 DEF Before, Shape
<1> QED
  BY <1>1, <1>2, <1>4, <1>6, <1>7, <1>8, <1>9, GoesOn DEF Before, Shape

LEMMA WorkKeeps ==
  ASSUME Before, NEW w \in Workers, Work(w)
  PROVE  Before'
<1>1. CASE Take(w)
  BY <1>1, TakeKeeps
<1>2. CASE NoRequest(w) \/ Rearm(w)
  <2>1. /\ pc[w] \in {"process", "rearm"} /\ pc' = [pc EXCEPT ![w] = "idle"] /\ job' = [job EXCEPT ![w] = NoFd]
        /\ UNCHANGED <<open, m_sockfd, m_user_count, torn, queue, tmp, reused, main, events, seen>>
        /\ Modfd(m_sockfd[job[w]], "IN") \/ Modfd(m_sockfd[job[w]], "OUT")
    BY <1>2 DEF NoRequest, Rearm, Goto, users, counting, loop
  <2> QED
    BY <2>1, GiveBackKeeps
<1>3. CASE Reply(w)
  BY <1>3, ReplyKeeps
<1> QED
  BY <1>1, <1>2, <1>3, RemovesKeeps, ForgetsKeeps, LoadsKeeps, StoresKeeps DEF Work

-----------------------------------------------------------------------------
\* What has happened has happened.
LEMMA ReusedStays == reused = TRUE /\ [Next]_vars => reused' = TRUE
<1> SUFFICES ASSUME reused = TRUE, [Next]_vars PROVE reused' = TRUE
  OBVIOUS
<1>1. CASE Main
  BY <1>1 DEF Main, EpollWait, AcceptFails, Refuse, Accept, Count, BatchEnds, Handler, Hangup, Read, ReadFails,
       WriteNothing, WriteAll, WriteBlocks, WriteFails, pool
<1>2. ASSUME NEW w \in Workers, Work(w) PROVE reused' = TRUE
  BY <1>2 DEF Work, Take, NoRequest, Reply, Rearm, CloseRemoves, CloseForgets, CloseLoads, CloseStores
<1>3. CASE Connect \/ \E fd \in Fds : Peer(fd)
  BY <1>3 DEF Connect, Peer, PeerReads, PeerEnds, PeerSends, pool
<1> QED
  BY <1>1, <1>2, <1>3 DEF Next, vars, pool

LEMMA StepInv == Inv /\ [Next]_vars => Inv'
<1> SUFFICES ASSUME Before, [Next]_vars PROVE reused' = TRUE \/ Before'
  BY ReusedStays DEF Inv
<1>1. CASE Main
  BY <1>1, MainKeeps
<1>2. ASSUME NEW w \in Workers, Work(w) PROVE Before'
  BY <1>2, WorkKeeps
<1>3. CASE Connect \/ \E fd \in Fds : Peer(fd)
  <2>1. UNCHANGED <<open, armed, m_sockfd, m_user_count, torn, queue, pc, job, tmp, reused, main, events, seen>>
    BY <1>3 DEF Connect, Peer, PeerReads, PeerEnds, PeerSends, users, counting, pool, loop
  <2> QED
    BY <2>1, QuietKeeps DEF Noted
<1>4. CASE UNCHANGED vars
  BY <1>4, QuietKeeps DEF vars, sockets, users, counting, pool, loop, Noted
<1> QED
  BY <1>1, <1>2, <1>3, <1>4 DEF Next

\* Until a descriptor is accepted with before the worker that gave it back is done, the
\* hands, the count and m_sockfd agree.
THEOREM InvHolds == Spec => []Inv
BY InitInv, StepInv, PTL DEF Spec

\* EPOLLONESHOT keeps every connection in one hand: no worker and no event has one that
\* another has, also while workers close theirs, for any number of workers.
THEOREM OneHandHolds == Spec => []OneHand
<1>1. Inv => OneHand
  BY DEF Inv, Before, Hands, Working, Waiting, Told, Registered, OneHand
<1> QED
  BY <1>1, InvHolds, PTL

\* Main and the workers change m_user_count without a lock, and as long as no change falls
\* between the reading and the writing of another, it counts the open connections and the
\* closes under way, for any number of both.
THEOREM CountIsOpenHolds == Spec => []CountIsOpen
<1>1. Inv => CountIsOpen
  BY DEF Inv, Before, Shape, Counted, Closers, CountIsOpen
<1> QED
  BY <1>1, InvHolds, PTL

-----------------------------------------------------------------------------
(* The parser.  parse_line never looks twice at what it has passed, and stops at  *)
(* the first place that ends a line, looks like an end, or may become one: up to  *)
(* there the text has no flaw and no empty line, whatever comes after it.         *)

LEMMA LeastMember == \A T \in SUBSET Nat : T # {} => \E x \in T : \A y \in T : x <= y
<1> SUFFICES ASSUME NEW T \in SUBSET Nat, T # {} PROVE \E x \in T : \A y \in T : x <= y
  OBVIOUS
<1> DEFINE R == OpToRel(<, Nat)
<1>1. IsWellFoundedOn(R, Nat)
  BY NatLessThanWellFounded
<1>2. \A x, y \in Nat : <<x, y>> \in R <=> x < y
  BY DEF OpToRel
<1> HIDE DEF R
<1>3. PICK x \in T : \A y \in T : <<y, x>> \notin R
  BY <1>1, WFMin
<1>4. \A y \in T : ~(y < x)
  <2> SUFFICES ASSUME NEW y \in T PROVE ~(y < x)
    OBVIOUS
  <2>1. <<y, x>> \notin R /\ x \in Nat /\ y \in Nat
    BY <1>3
  <2> QED
    BY <1>2, <2>1
<1>5. \A y \in T : x <= y
  <2> SUFFICES ASSUME NEW y \in T PROVE x <= y
    OBVIOUS
  <2>1. x \in Nat /\ y \in Nat /\ ~(y < x)
    BY <1>4
  <2> QED
    BY <2>1
<1> QED
  BY <1>5

LEMMA FirstIsIt ==
  ASSUME NEW S \in SUBSET Nat, NEW m \in S, \A l \in S : m <= l, NEW after
  PROVE  Parser!FirstOf(S, after) = m
<1>1. \A k \in S : (\A l \in S : k <= l) => k = m
  <2> SUFFICES ASSUME NEW k \in S, \A l \in S : k <= l PROVE k = m
    OBVIOUS
  <2>1. k <= m /\ m <= k /\ k \in Nat /\ m \in Nat
    OBVIOUS
  <2> QED
    BY <2>1
<1> QED
  BY <1>1 DEF Parser!FirstOf

LEMMA FirstIsIn ==
  ASSUME NEW S \in SUBSET Nat, NEW after, S # {}
  PROVE  Parser!FirstOf(S, after) \in S /\ \A l \in S : Parser!FirstOf(S, after) <= l
<1>1. PICK m \in S : \A l \in S : m <= l
  BY LeastMember
<1> QED
  BY <1>1, FirstIsIt

-----------------------------------------------------------------------------
\* Verdict, with its parts named.
EndsOf(s) == {k \in 1 .. Len(s) - 1 : s[k] = "r" /\ s[k + 1] = "n"}
FlawsOf(s) == {k \in 1 .. Len(s) : \/ s[k] = "r" /\ k < Len(s) /\ s[k + 1] # "n"
                                   \/ s[k] = "n" /\ k - 1 \notin EndsOf(s)}
FirstEnd(s) == Parser!FirstOf(EndsOf(s), Len(s) + 1)
Flaw(s) == Parser!FirstOf(FlawsOf(s), Len(s) + 1)
EmptiesOf(s) == {k \in EndsOf(s) : k > FirstEnd(s) /\ k - 2 \in EndsOf(s)}
Empty(s) == Parser!FirstOf(EmptiesOf(s), Len(s) + 1)

LEMMA VerdictIs ==
  ASSUME NEW s
  PROVE  Parser!Verdict(s) =
    IF FirstEnd(s) < Flaw(s) /\ FirstEnd(s) < Len(s) /\ ~Parser!IsRequest(SubSeq(s, 1, FirstEnd(s) - 1)) THEN "BAD_REQUEST"
    ELSE IF Empty(s) < Flaw(s) /\ Empty(s) < Len(s) THEN "GET_REQUEST"
    ELSE IF Flaw(s) <= Len(s) THEN "BAD_REQUEST" ELSE "NO_REQUEST"
BY DEF Parser!Verdict, EndsOf, FlawsOf, FirstEnd, Flaw, EmptiesOf, Empty

\* Where the first of each is: past the text, or a place in it.
LEMMA Places ==
  ASSUME NEW s \in Seq(STRING)
  PROVE  /\ Len(s) \in Nat
         /\ FirstEnd(s) \in EndsOf(s) \/ (EndsOf(s) = {} /\ FirstEnd(s) = Len(s) + 1)
         /\ Flaw(s) \in FlawsOf(s) \/ (FlawsOf(s) = {} /\ Flaw(s) = Len(s) + 1)
         /\ Empty(s) \in EmptiesOf(s) \/ (EmptiesOf(s) = {} /\ Empty(s) = Len(s) + 1)
         /\ EndsOf(s) \subseteq 1 .. Len(s) - 1 /\ FlawsOf(s) \subseteq 1 .. Len(s)
         /\ EmptiesOf(s) \subseteq EndsOf(s)
<1>1. Len(s) \in Nat
  OBVIOUS
<1>2. EndsOf(s) \subseteq 1 .. Len(s) - 1 /\ FlawsOf(s) \subseteq 1 .. Len(s) /\ EmptiesOf(s) \subseteq EndsOf(s)
  BY DEF EndsOf, FlawsOf, EmptiesOf
<1>3. EndsOf(s) \in SUBSET Nat /\ FlawsOf(s) \in SUBSET Nat /\ EmptiesOf(s) \in SUBSET Nat
  BY <1>1, <1>2
<1>4. FirstEnd(s) \in EndsOf(s) \/ (EndsOf(s) = {} /\ FirstEnd(s) = Len(s) + 1)
  BY <1>3, FirstIsIn DEF FirstEnd, Parser!FirstOf
<1>5. Flaw(s) \in FlawsOf(s) \/ (FlawsOf(s) = {} /\ Flaw(s) = Len(s) + 1)
  BY <1>3, FirstIsIn DEF Flaw, Parser!FirstOf
<1>6. Empty(s) \in EmptiesOf(s) \/ (EmptiesOf(s) = {} /\ Empty(s) = Len(s) + 1)
  BY <1>3, FirstIsIn DEF Empty, Parser!FirstOf
<1> QED
  BY <1>1, <1>2, <1>4, <1>5, <1>6

\* A text without a request line yet, or with a good one and no empty line, is good as far
\* as it is without a flaw.
StillOpen(s, k) ==
  \/ \A e \in EndsOf(s) : e >= k
  \/ /\ Parser!IsRequest(SubSeq(s, 1, FirstEnd(s) - 1))
     /\ \A e \in EmptiesOf(s) : e >= k

LEMMA VerdictNone ==
  ASSUME NEW s \in Seq(STRING), FlawsOf(s) = {}, StillOpen(s, Len(s) + 1)
  PROVE  Parser!Verdict(s) = "NO_REQUEST"
<1>1. Flaw(s) = Len(s) + 1 /\ Len(s) \in Nat
  BY Places
<1>2. CASE \A e \in EndsOf(s) : e >= Len(s) + 1
  <2>1. EndsOf(s) = {}
    <3> SUFFICES ASSUME NEW e \in EndsOf(s) PROVE FALSE
      OBVIOUS
    <3>1. e \in 1 .. Len(s) - 1 /\ e >= Len(s) + 1
      BY <1>2, Places
    <3> QED BY <3>1, <1>1
  <2>2. EmptiesOf(s) = {}
    BY <2>1, Places
  <2>3. FirstEnd(s) = Len(s) + 1 /\ Empty(s) = Len(s) + 1
    BY <2>1, <2>2, Places
  <2> QED
    BY <1>1, <2>3, VerdictIs
<1>3. CASE Parser!IsRequest(SubSeq(s, 1, FirstEnd(s) - 1)) /\ \A e \in EmptiesOf(s) : e >= Len(s) + 1
  <2>2. EmptiesOf(s) = {}
    <3> SUFFICES ASSUME NEW e \in EmptiesOf(s) PROVE FALSE
      OBVIOUS
    <3>1. e \in 1 .. Len(s) - 1 /\ e >= Len(s) + 1
      BY <1>3, Places
    <3> QED BY <3>1, <1>1
  <2>3. Empty(s) = Len(s) + 1
    BY <2>2, Places
  <2> QED
    BY <1>1, <1>3, <2>3, VerdictIs
<1> QED
  BY <1>2, <1>3 DEF StillOpen

LEMMA VerdictFlaw ==
  ASSUME NEW s \in Seq(STRING), NEW k \in FlawsOf(s), \A l \in FlawsOf(s) : k <= l, StillOpen(s, k)
  PROVE  Parser!Verdict(s) = "BAD_REQUEST"
<1>1. Flaw(s) = k /\ Len(s) \in Nat /\ k \in 1 .. Len(s)
  <2>1. FlawsOf(s) \in SUBSET Nat
    BY Places
  <2> QED
    BY <2>1, FirstIsIt, Places DEF Flaw
<1>2. CASE \A e \in EndsOf(s) : e >= k
  <2>1. FirstEnd(s) \in Nat /\ FirstEnd(s) >= k
    <3>1. FirstEnd(s) \in 1 .. Len(s) - 1 \/ FirstEnd(s) = Len(s) + 1
      BY Places
    <3>2. FirstEnd(s) >= k \/ FirstEnd(s) = Len(s) + 1
      BY Places, <1>2
    <3> QED BY <3>1, <3>2, <1>1
  <2>2. Empty(s) \in Nat /\ Empty(s) >= k
    <3>1. Empty(s) \in 1 .. Len(s) - 1 \/ Empty(s) = Len(s) + 1
      BY Places
    <3>2. Empty(s) >= k \/ Empty(s) = Len(s) + 1
      BY Places, <1>2
    <3> QED BY <3>1, <3>2, <1>1
  <2>3. ~(FirstEnd(s) < Flaw(s)) /\ ~(Empty(s) < Flaw(s)) /\ Flaw(s) <= Len(s)
    BY <1>1, <2>1, <2>2
  <2> QED
    BY <2>3, VerdictIs
<1>3. CASE Parser!IsRequest(SubSeq(s, 1, FirstEnd(s) - 1)) /\ \A e \in EmptiesOf(s) : e >= k
  <2>2. Empty(s) \in Nat /\ Empty(s) >= k
    <3>1. Empty(s) \in 1 .. Len(s) - 1 \/ Empty(s) = Len(s) + 1
      BY Places
    <3>2. Empty(s) >= k \/ Empty(s) = Len(s) + 1
      BY Places, <1>3
    <3> QED BY <3>1, <3>2, <1>1
  <2>3. ~(Empty(s) < Flaw(s)) /\ Flaw(s) <= Len(s)
    BY <1>1, <2>2
  <2> QED
    BY <1>3, <2>3, VerdictIs
<1> QED
  BY <1>2, <1>3 DEF StillOpen

LEMMA VerdictGet ==
  ASSUME NEW s \in Seq(STRING), NEW e \in EmptiesOf(s), \A d \in EmptiesOf(s) : e <= d,
         \A l \in FlawsOf(s) : e < l, Parser!IsRequest(SubSeq(s, 1, FirstEnd(s) - 1))
  PROVE  Parser!Verdict(s) = "GET_REQUEST"
<1>1. Empty(s) = e /\ Len(s) \in Nat /\ e \in 1 .. Len(s) - 1
  <2>1. EmptiesOf(s) \in SUBSET Nat /\ e \in 1 .. Len(s) - 1 /\ Len(s) \in Nat
    BY Places
  <2> QED
    BY <2>1, FirstIsIt DEF Empty
<1>2. Flaw(s) \in Nat /\ e < Flaw(s)
  <2>1. Flaw(s) \in 1 .. Len(s) \/ Flaw(s) = Len(s) + 1
    BY Places
  <2>2. e < Flaw(s) \/ Flaw(s) = Len(s) + 1
    BY Places
  <2> QED
    BY <1>1, <2>1, <2>2
<1>3. Empty(s) < Flaw(s) /\ Empty(s) < Len(s)
  BY <1>1, <1>2
<1> QED
  BY <1>3, VerdictIs

LEMMA VerdictBad ==
  ASSUME NEW s \in Seq(STRING), NEW e \in EndsOf(s), \A d \in EndsOf(s) : e <= d,
         \A l \in FlawsOf(s) : e < l, ~Parser!IsRequest(SubSeq(s, 1, e - 1))
  PROVE  Parser!Verdict(s) = "BAD_REQUEST"
<1>1. FirstEnd(s) = e /\ Len(s) \in Nat /\ e \in 1 .. Len(s) - 1
  <2>1. EndsOf(s) \in SUBSET Nat /\ e \in 1 .. Len(s) - 1 /\ Len(s) \in Nat
    BY Places
  <2> QED
    BY <2>1, FirstIsIt DEF FirstEnd
<1>2. Flaw(s) \in Nat /\ e < Flaw(s)
  <2>1. Flaw(s) \in 1 .. Len(s) \/ Flaw(s) = Len(s) + 1
    BY Places
  <2>2. e < Flaw(s) \/ Flaw(s) = Len(s) + 1
    BY Places
  <2> QED
    BY <1>1, <2>1, <2>2
<1>3. FirstEnd(s) < Flaw(s) /\ FirstEnd(s) < Len(s)
  BY <1>1, <1>2
<1> QED
  BY <1>1, <1>3, VerdictIs

-----------------------------------------------------------------------------
\* The two that end a line.
PairAt(k) == text[k] = "r" /\ text[k + 1] = "n"

\* What has been looked at is as it should be, up to the line that is not complete.
LinesOk ==
  /\ \A k \in 1 .. start_line : text[k] = "r" => k < start_line /\ text[k + 1] = "n"
  /\ \A k \in 1 .. start_line : text[k] = "n" => k > 1 /\ text[k - 1] = "r"
  /\ \A k \in start_line + 1 .. checked_index : text[k] \notin {"r", "n"}

\* f is the end of the first line, a request, and no line since then was empty.
Asked(f) ==
  /\ PairAt(f) /\ \A k \in 1 .. f - 1 : ~PairAt(k)
  /\ Parser!IsRequest(SubSeq(text, 1, f - 1))
  /\ \A k \in f + 1 .. start_line - 1 : k > 2 /\ PairAt(k) => ~PairAt(k - 2)

Heard ==
  \/ checkstate = "REQUESTLINE" /\ start_line = 0
  \/ /\ checkstate = "HEADER" /\ start_line >= 2 /\ PairAt(start_line - 1)
     /\ \E f \in 1 .. start_line - 1 : Asked(f)

ParserTypes ==
  /\ at \in {"recv", "parse", "done"} /\ text \in Texts
  /\ start_line \in Nat /\ checked_index \in Nat /\ read_index \in Nat
  /\ start_line <= checked_index /\ checked_index <= read_index /\ read_index <= BUFFER_SIZE
  /\ checkstate \in {"REQUESTLINE", "HEADER"}
  /\ result \in {"NO_REQUEST", "GET_REQUEST", "BAD_REQUEST", "closed", "failed"}
  /\ read_index <= Len(text)

ParserInv ==
  /\ ParserTypes
  /\ at # "done" => result = "NO_REQUEST" /\ LinesOk /\ Heard
  /\ CutsDoNotMatter

Arrived == SubSeq(text, 1, read_index)

LEMMA ArrivedIs ==
  ASSUME ParserTypes
  PROVE  /\ text \in Seq(STRING) /\ Arrived \in Seq(STRING)
         /\ Len(Arrived) = read_index /\ Len(text) \in Nat
         /\ \A k \in 1 .. read_index : Arrived[k] = text[k]
<1>1. text \in Seq(STRING) /\ read_index \in Nat /\ read_index <= Len(text)
  BY ParserAssumption DEF ParserTypes
<1>2. Len(text) \in Nat /\ \A k \in 1 .. Len(text) : text[k] \in STRING
  BY <1>1, ElementOfSeq
<1>3. \A k \in 1 .. read_index : text[k] \in STRING
  BY <1>1, <1>2
<1>4. /\ Arrived \in Seq(STRING)
      /\ Len(Arrived) = IF 1 <= read_index THEN read_index - 1 + 1 ELSE 0
      /\ \A k \in 1 .. read_index - 1 + 1 : Arrived[k] = text[1 + k - 1]
  BY <1>1, <1>3, SubSeqProperties DEF Arrived
<1>5. Len(Arrived) = read_index
  BY <1>1, <1>4
<1>6. \A k \in 1 .. read_index : Arrived[k] = text[k]
  BY <1>1, <1>4
<1> QED
  BY <1>1, <1>2, <1>4, <1>5, <1>6

\* A piece from the front is the same in what has arrived.
LEMMA FrontIs ==
  ASSUME ParserTypes, NEW e \in 1 .. read_index
  PROVE  SubSeq(Arrived, 1, e - 1) = SubSeq(text, 1, e - 1)
<1>1. text \in Seq(STRING) /\ read_index \in 1 .. Len(text) /\ e \in Nat /\ Len(text) \in Nat /\ read_index \in Nat
  BY ArrivedIs DEF ParserTypes
<1>2. CASE e = 1
  BY <1>2, SubSeqEmpty
<1>3. CASE e # 1
  <2>1. 1 \in 1 .. Len(text) /\ 1 \in 1 .. read_index - 1 + 1 /\ (e - 1) \in 1 .. read_index - 1 + 1
    BY <1>1, <1>3
  <2>2. SubSeq(SubSeq(text, 1, read_index), 1, e - 1) = SubSeq(text, 1 + 1 - 1, 1 + (e - 1) - 1)
    BY <1>1, <2>1, SubSeqOfSubSeq
  <2>3. 1 + 1 - 1 = 1 /\ 1 + (e - 1) - 1 = e - 1
    BY <1>1
  <2> QED
    BY <2>2, <2>3 DEF Arrived
<1> QED
  BY <1>2, <1>3

\* With no end of a line after start_line up to n, what counts is what came before.
LEMMA UpTo ==
  ASSUME ParserTypes, LinesOk, Heard, NEW n \in start_line .. read_index,
         \A k \in start_line + 1 .. n : text[k] \notin {"r", "n"}
  PROVE  /\ \A k \in EndsOf(Arrived) : k <= n => k < start_line
         /\ \A k \in FlawsOf(Arrived) : n < k
         /\ StillOpen(Arrived, n + 1)
<1>1. /\ start_line \in Nat /\ read_index \in Nat /\ n \in Nat /\ start_line <= n /\ n <= read_index
  BY DEF ParserTypes
<1>2. Arrived \in Seq(STRING) /\ Len(Arrived) = read_index /\ \A k \in 1 .. read_index : Arrived[k] = text[k]
  BY ArrivedIs
<1>3. \A k \in EndsOf(Arrived) : k \in Nat /\ 1 <= k /\ k < read_index /\ PairAt(k)
  <2> SUFFICES ASSUME NEW k \in EndsOf(Arrived) PROVE k \in Nat /\ 1 <= k /\ k < read_index /\ PairAt(k)
    OBVIOUS
  <2>1. k \in 1 .. read_index - 1 /\ Arrived[k] = "r" /\ Arrived[k + 1] = "n"
    BY <1>2 DEF EndsOf
  <2>2. k \in 1 .. read_index /\ k + 1 \in 1 .. read_index
    BY <1>1, <2>1
  <2> QED
    BY <1>1, <1>2, <2>1, <2>2 DEF PairAt
<1>4. \A k \in Nat : 1 <= k /\ k < read_index /\ PairAt(k) => k \in EndsOf(Arrived)
  <2> SUFFICES ASSUME NEW k \in Nat, 1 <= k, k < read_index, PairAt(k) PROVE k \in EndsOf(Arrived)
    OBVIOUS
  <2>2. k \in 1 .. read_index /\ k + 1 \in 1 .. read_index /\ k \in 1 .. read_index - 1
    BY <1>1
  <2> QED
    BY <1>2, <2>2 DEF PairAt, EndsOf
<1>5. \A k \in EndsOf(Arrived) : k <= n => k < start_line
  <2> SUFFICES ASSUME NEW k \in EndsOf(Arrived), k <= n PROVE k < start_line
    OBVIOUS
  <2>1. k \in Nat /\ 1 <= k /\ text[k] = "r"
    BY <1>3 DEF PairAt
  <2>2. ~(k \in start_line + 1 .. n)
    BY <2>1
  <2>3. k \in 1 .. start_line
    BY <1>1, <2>1, <2>2
  <2> QED
    BY <2>1, <2>3 DEF LinesOk
<1>6. \A k \in FlawsOf(Arrived) : n < k
  <2> SUFFICES ASSUME NEW k \in FlawsOf(Arrived), ~(n < k) PROVE FALSE
    OBVIOUS
  <2>1. k \in 1 .. read_index /\ k \in Nat /\ k <= n /\ 1 <= k
    <3>1. k \in 1 .. read_index
      BY <1>2 DEF FlawsOf
    <3> QED
      BY <1>1, <3>1
  <2>2. \/ text[k] = "r" /\ k < read_index /\ Arrived[k + 1] # "n"
        \/ text[k] = "n" /\ k - 1 \notin EndsOf(Arrived)
    BY <1>2, <2>1 DEF FlawsOf
  <2>3. k \in 1 .. start_line
    <3>1. ~(k \in start_line + 1 .. n)
      BY <2>2
    <3> QED
      BY <1>1, <2>1, <3>1
  <2>4. CASE text[k] = "r" /\ k < read_index /\ Arrived[k + 1] # "n"
    <3>1. k < start_line /\ text[k + 1] = "n"
      BY <2>3, <2>4 DEF LinesOk
    <3>2. k + 1 \in 1 .. read_index
      BY <1>1, <2>1, <2>4
    <3> QED
      BY <1>2, <2>4, <3>1, <3>2
  <2>5. CASE text[k] = "n" /\ k - 1 \notin EndsOf(Arrived)
    <3>1. k > 1 /\ text[k - 1] = "r"
      BY <2>3, <2>5 DEF LinesOk
    <3>2. (k - 1) \in Nat /\ 1 <= k - 1 /\ k - 1 < read_index /\ (k - 1) + 1 = k
      BY <1>1, <2>1, <3>1
    <3>3. PairAt(k - 1)
      BY <2>5, <3>1, <3>2 DEF PairAt
    <3> QED
      BY <1>4, <2>5, <3>2, <3>3
  <2> QED
    BY <2>2, <2>4, <2>5
<1>7. StillOpen(Arrived, n + 1)
  <2>1. CASE checkstate = "REQUESTLINE" /\ start_line = 0
    <3>1. ASSUME NEW k \in EndsOf(Arrived) PROVE k >= n + 1
      <4>1. k \in Nat /\ ~(k <= n)
        BY <1>3, <1>5, <2>1
      <4> QED
        BY <1>1, <4>1
    <3> QED
      BY <3>1 DEF StillOpen
  <2>2. CASE checkstate = "HEADER" /\ start_line >= 2 /\ PairAt(start_line - 1)
             /\ \E f \in 1 .. start_line - 1 : Asked(f)
    <3>1. PICK f \in 1 .. start_line - 1 : Asked(f)
      BY <2>2
    <3>2. f \in Nat /\ 1 <= f /\ f < start_line /\ f < read_index
      BY <1>1, <3>1
    <3>3. f \in EndsOf(Arrived)
      BY <1>4, <3>1, <3>2 DEF Asked
    <3>4. \A k \in EndsOf(Arrived) : f <= k
      <4> SUFFICES ASSUME NEW k \in EndsOf(Arrived), ~(f <= k) PROVE FALSE
        OBVIOUS
      <4>1. k \in Nat /\ 1 <= k /\ PairAt(k)
        BY <1>3
      <4>2. k \in 1 .. f - 1
        BY <3>2, <4>1
      <4> QED
        BY <3>1, <4>1, <4>2 DEF Asked
    <3>5. FirstEnd(Arrived) = f
      <4>1. EndsOf(Arrived) \in SUBSET Nat
        BY <1>3
      <4> QED
        BY <3>3, <3>4, <4>1, FirstIsIt DEF FirstEnd
    <3>6. Parser!IsRequest(SubSeq(Arrived, 1, FirstEnd(Arrived) - 1))
      <4>1. f \in 1 .. read_index
        BY <1>1, <3>2
      <4>2. SubSeq(Arrived, 1, f - 1) = SubSeq(text, 1, f - 1)
        BY <4>1, FrontIs
      <4> QED
        BY <3>1, <3>5, <4>2 DEF Asked
    <3>7. \A k \in EmptiesOf(Arrived) : k >= n + 1
      <4> SUFFICES ASSUME NEW k \in EmptiesOf(Arrived), ~(k >= n + 1) PROVE FALSE
        OBVIOUS
      <4>1. k \in EndsOf(Arrived) /\ k > f /\ k - 2 \in EndsOf(Arrived)
        BY <3>5 DEF EmptiesOf
      <4>2. k \in Nat /\ PairAt(k) /\ 1 <= k - 2 /\ PairAt(k - 2)
        BY <1>3, <4>1
      <4>3. k <= n
        BY <1>1, <4>2
      <4>4. k < start_line
        BY <1>5, <4>1, <4>3
      <4>5. k \in f + 1 .. start_line - 1 /\ k > 2
        BY <1>1, <3>2, <4>1, <4>2, <4>4
      <4> QED
        BY <3>1, <4>2, <4>5 DEF Asked
    <3> QED
      BY <3>6, <3>7 DEF StillOpen
  <2> QED
    BY <2>1, <2>2 DEF Heard
<1> QED
  BY <1>5, <1>6, <1>7

\* Where parse_line stops.
Here == Parser!Stop

LEMMA StopIs ==
  ASSUME ParserTypes, LinesOk
  PROVE  /\ Here \in checked_index .. read_index
         /\ \A k \in start_line + 1 .. Here : text[k] \notin {"r", "n"}
         /\ Here < read_index => text[Here + 1] \in {"r", "n"}
<1> DEFINE S == {k \in checked_index .. read_index - 1 : Parser!Char(k) \in {"r", "n"}}
<1>1. /\ start_line \in Nat /\ read_index \in Nat /\ checked_index \in Nat
      /\ start_line <= checked_index /\ checked_index <= read_index
  BY DEF ParserTypes
<1>2. Here = Parser!FirstOf(S, read_index)
  BY DEF Here, Parser!Stop
<1>3. \A k : Parser!Char(k) = text[k + 1]
  BY DEF Parser!Char
<1>4. \/ S = {} /\ Here = read_index
      \/ Here \in S /\ \A k \in S : Here <= k
  <2>1. S \in SUBSET Nat
    BY <1>1
  <2> QED
    BY <1>2, <2>1, FirstIsIn DEF Parser!FirstOf
<1>5. Here \in checked_index .. read_index
  BY <1>1, <1>4
<1>6. \A k \in start_line + 1 .. Here : text[k] \notin {"r", "n"}
  <2> SUFFICES ASSUME NEW k \in start_line + 1 .. Here, text[k] \in {"r", "n"} PROVE FALSE
    OBVIOUS
  <2>1. k \in Nat /\ start_line + 1 <= k /\ k <= Here /\ Here \in Nat
    BY <1>1, <1>5
  <2>2. ~(k \in start_line + 1 .. checked_index)
    BY DEF LinesOk
  <2>3. (k - 1) \in checked_index .. read_index - 1 /\ (k - 1) + 1 = k
    BY <1>1, <1>5, <2>1, <2>2
  <2>4. (k - 1) \in S
    BY <1>3, <2>3
  <2>5. Here <= k - 1
    BY <1>4, <2>4
  <2> QED
    BY <2>1, <2>5
<1>7. Here < read_index => text[Here + 1] \in {"r", "n"}
  BY <1>1, <1>3, <1>4
<1> QED
  BY <1>5, <1>6, <1>7

\* A line that is whole: its end is where parse_line stops.
LEMMA LineIs ==
  ASSUME ParserTypes, LinesOk, Heard, Parser!LineOk
  PROVE  /\ Here + 1 < read_index /\ PairAt(Here + 1)
         /\ checked_index' = Here + 2
<1>1. /\ start_line \in Nat /\ read_index \in Nat /\ checked_index \in Nat
      /\ start_line <= checked_index /\ checked_index <= read_index
  BY DEF ParserTypes
<1>2. Here \in Nat /\ checked_index <= Here /\ Here <= read_index
  BY <1>1, StopIs
<1>3. \A k : Parser!Char(k) = text[k + 1]
  BY DEF Parser!Char
<1>4. /\ Here < read_index
      /\ \/ text[Here + 1] = "r" /\ Here + 1 < read_index /\ text[(Here + 1) + 1] = "n" /\ checked_index' = Here + 2
         \/ text[Here + 1] = "n" /\ Here > 1 /\ text[(Here - 1) + 1] = "r" /\ checked_index' = Here + 1
  BY <1>3 DEF Parser!LineOk, Here
<1>5. ~(Here > 1 /\ text[(Here - 1) + 1] = "r")
  <2> SUFFICES ASSUME Here > 1, text[(Here - 1) + 1] = "r" PROVE FALSE
    OBVIOUS
  <2>1. (Here - 1) + 1 = Here
    BY <1>2
  <2>2. ~(Here \in start_line + 1 .. Here)
    BY <2>1, StopIs
  <2>3. Here = start_line /\ Here \in 1 .. start_line
    BY <1>1, <1>2, <2>2
  <2>4. Here < start_line
    BY <2>1, <2>3 DEF LinesOk
  <2> QED
    BY <1>1, <2>3, <2>4
<1> QED
  BY <1>4, <1>5 DEF PairAt

\* After a whole line everything is as it should be.
LEMMA LineKeeps ==
  ASSUME ParserTypes, LinesOk, Heard, Parser!LineOk, start_line' = checked_index', text' = text
  PROVE  LinesOk'
<1>1. /\ start_line \in Nat /\ start_line <= Here /\ Here \in Nat
  BY StopIs DEF ParserTypes
<1>2. PairAt(Here + 1) /\ checked_index' = Here + 2 /\ start_line' = Here + 2
  BY LineIs
<1>3. text[Here + 1] = "r" /\ text[Here + 2] = "n"
  <2>1. (Here + 1) + 1 = Here + 2
    BY <1>1
  <2> QED
    BY <1>2, <2>1 DEF PairAt
<1>4. \A k \in 1 .. Here + 2 : k \in 1 .. start_line \/ k \in start_line + 1 .. Here \/ k = Here + 1 \/ k = Here + 2
  BY <1>1
<1>5. \A k \in start_line + 1 .. Here : text[k] \notin {"r", "n"}
  BY StopIs
<1>6. ASSUME NEW k \in 1 .. Here + 2, text[k] = "r" PROVE k < Here + 2 /\ text[k + 1] = "n"
  <2>1. CASE k \in 1 .. start_line
    <3>1. k < start_line /\ text[k + 1] = "n"
      BY <1>6, <2>1 DEF LinesOk
    <3> QED
      BY <1>1, <3>1
  <2>2. CASE k = Here + 1
    <3>1. k + 1 = Here + 2 /\ k < Here + 2
      BY <1>1, <2>2
    <3> QED
      BY <1>3, <3>1
  <2> QED
    BY <1>3, <1>4, <1>5, <1>6, <2>1, <2>2
<1>7. ASSUME NEW k \in 1 .. Here + 2, text[k] = "n" PROVE k > 1 /\ text[k - 1] = "r"
  <2>1. CASE k \in 1 .. start_line
    BY <1>7, <2>1 DEF LinesOk
  <2>2. CASE k = Here + 2
    <3>1. k - 1 = Here + 1 /\ k > 1
      BY <1>1, <2>2
    <3> QED
      BY <1>3, <3>1
  <2> QED
    BY <1>3, <1>4, <1>5, <1>7, <2>1, <2>2
<1>8. \A k \in Here + 2 + 1 .. Here + 2 : FALSE
  BY <1>1
<1> QED
  BY <1>2, <1>6, <1>7, <1>8 DEF LinesOk

\* The line's end is one of the text's that has arrived, and no flaw comes before the next.
LEMMA EndArrived ==
  ASSUME ParserTypes, LinesOk, Heard, Parser!LineOk
  PROVE  /\ Here + 1 \in EndsOf(Arrived)
         /\ \A k \in FlawsOf(Arrived) : Here + 1 < k
         /\ \A k \in EndsOf(Arrived) : k <= Here => k < start_line
<1>1. /\ start_line \in Nat /\ start_line <= Here /\ Here \in Nat /\ read_index \in Nat
      /\ Here \in start_line .. read_index
  BY StopIs DEF ParserTypes
<1>2. PairAt(Here + 1) /\ Here + 1 < read_index
  BY LineIs
<1>3. Arrived \in Seq(STRING) /\ Len(Arrived) = read_index /\ \A k \in 1 .. read_index : Arrived[k] = text[k]
  BY ArrivedIs
<1>4. Here + 1 \in 1 .. read_index /\ (Here + 1) + 1 \in 1 .. read_index /\ Here + 1 \in 1 .. read_index - 1
  BY <1>1, <1>2
<1>5. Arrived[Here + 1] = "r" /\ Arrived[(Here + 1) + 1] = "n"
  BY <1>2, <1>3, <1>4 DEF PairAt
<1>6. \A k \in start_line + 1 .. Here : text[k] \notin {"r", "n"}
  BY StopIs
<1>7. /\ \A k \in FlawsOf(Arrived) : Here < k
      /\ \A k \in EndsOf(Arrived) : k <= Here => k < start_line
  BY <1>1, <1>6, UpTo
<1>8. Here + 1 \notin FlawsOf(Arrived)
  BY <1>5 DEF FlawsOf
<1>9. \A k \in FlawsOf(Arrived) : Here + 1 < k
  <2> SUFFICES ASSUME NEW k \in FlawsOf(Arrived) PROVE Here + 1 < k
    OBVIOUS
  <2>1. k \in Nat /\ Here < k /\ k # Here + 1
    BY <1>3, <1>7, <1>8, Places
  <2> QED
    BY <1>1, <2>1
<1> QED
  BY <1>3, <1>4, <1>5, <1>7, <1>9 DEF EndsOf

LEMMA RequestLineKeeps == ParserInv /\ Parser!RequestLine => ParserInv'
<1> SUFFICES ASSUME ParserInv, Parser!RequestLine PROVE ParserInv'
  OBVIOUS
<1>1. /\ at = "parse" /\ checkstate = "REQUESTLINE" /\ Parser!LineOk
      /\ start_line' = checked_index' /\ text' = text /\ read_index' = read_index
  BY DEF Parser!RequestLine
<1>2. ParserTypes /\ LinesOk /\ Heard /\ result = "NO_REQUEST"
  BY <1>1 DEF ParserInv
<1>3. start_line = 0
  BY <1>1, <1>2 DEF Heard
<1>4. /\ Here \in Nat /\ Here + 1 < read_index /\ read_index \in Nat /\ PairAt(Here + 1)
      /\ checked_index' = Here + 2
  BY <1>1, <1>2, LineIs, StopIs DEF ParserTypes
<1>5. Parser!Line(start_line, checked_index') = SubSeq(text, 1, Here)
  <2>1. start_line + 1 = 1 /\ checked_index' - 2 = Here
    BY <1>3, <1>4
  <2> QED
    BY <2>1 DEF Parser!Line
<1>6. SubSeq(Arrived, 1, (Here + 1) - 1) = SubSeq(text, 1, Here)
  <2>1. Here + 1 \in 1 .. read_index /\ (Here + 1) - 1 = Here
    BY <1>4
  <2> QED
    BY <1>2, <2>1, FrontIs
<1>7. ParserTypes'
  BY <1>1, <1>2, <1>4 DEF ParserTypes, Parser!RequestLine
<1>8. LinesOk'
  BY <1>1, <1>2, LineKeeps
<1>9. CASE Parser!IsRequest(SubSeq(text, 1, Here))
  <2>1. checkstate' = "HEADER" /\ at' = at /\ result' = result
    BY <1>5, <1>9 DEF Parser!RequestLine
  <2>2. \A f : f = Here + 1 => Asked(f)'
    <3>1. \A k \in 1 .. Here : ~PairAt(k)
      <4>1. \A k \in start_line + 1 .. Here : text[k] \notin {"r", "n"}
        BY <1>2, StopIs
      <4> QED
        BY <1>3, <4>1 DEF PairAt
    <3>2. (Here + 1) - 1 = Here /\ start_line' = Here + 2 /\ \A k \in (Here + 1) + 1 .. (Here + 2) - 1 : FALSE
      BY <1>1, <1>4
    <3>3. \A k : PairAt(k)' <=> PairAt(k)
      BY <1>1 DEF PairAt
    <3> QED
      BY <1>1, <1>4, <1>9, <3>1, <3>2, <3>3 DEF Asked
  <2>3. Heard'
    <3>1. start_line' = Here + 2 /\ start_line' - 1 = Here + 1 /\ Here + 1 \in 1 .. start_line' - 1 /\ start_line' >= 2
      BY <1>1, <1>4
    <3>2. PairAt(start_line - 1)'
      BY <1>1, <1>4, <3>1 DEF PairAt
    <3>3. \E f \in 1 .. start_line' - 1 : Asked(f)'
      BY <2>2, <3>1
    <3> QED
      BY <2>1, <3>1, <3>2, <3>3 DEF Heard
  <2>4. at' = "parse" /\ result' = "NO_REQUEST"
    BY <1>1, <1>2, <2>1
  <2> QED
    BY <1>7, <1>8, <2>3, <2>4 DEF ParserInv, CutsDoNotMatter, Parser!CutsDoNotMatter
<1>10. CASE ~Parser!IsRequest(SubSeq(text, 1, Here))
  <2>1. at' = "done" /\ result' = "BAD_REQUEST"
    BY <1>5, <1>10 DEF Parser!RequestLine
  <2>2. /\ Here + 1 \in EndsOf(Arrived)
        /\ \A k \in FlawsOf(Arrived) : Here + 1 < k
        /\ \A k \in EndsOf(Arrived) : k <= Here => k < start_line
    BY <1>1, <1>2, EndArrived
  <2>3. \A k \in EndsOf(Arrived) : Here + 1 <= k
    <3> SUFFICES ASSUME NEW k \in EndsOf(Arrived) PROVE Here + 1 <= k
      OBVIOUS
    <3>1. k \in 1 .. read_index - 1
      BY <1>2, ArrivedIs, Places
    <3>2. ~(k <= Here)
      BY <1>3, <2>2, <3>1
    <3> QED
      BY <1>4, <3>1, <3>2
  <2>4. Arrived \in Seq(STRING)
    BY <1>2, ArrivedIs
  <2>5. Parser!Verdict(Arrived) = "BAD_REQUEST"
    BY <1>6, <1>10, <2>2, <2>3, <2>4, VerdictBad
  <2>6. Arrived' = Arrived
    BY <1>1 DEF Arrived
  <2>7. CutsDoNotMatter'
    BY <2>1, <2>5, <2>6 DEF CutsDoNotMatter, Parser!CutsDoNotMatter, Arrived
  <2> QED
    BY <1>7, <2>1, <2>7 DEF ParserInv
<1> QED
  BY <1>9, <1>10

LEMMA HeaderKeeps == ParserInv /\ Parser!Header => ParserInv'
<1> SUFFICES ASSUME ParserInv, Parser!Header PROVE ParserInv'
  OBVIOUS
<1>1. /\ at = "parse" /\ checkstate = "HEADER" /\ Parser!LineOk
      /\ start_line' = checked_index' /\ text' = text /\ read_index' = read_index /\ checkstate' = checkstate
  BY DEF Parser!Header
<1>2. ParserTypes /\ LinesOk /\ Heard /\ result = "NO_REQUEST"
  BY <1>1 DEF ParserInv
<1>3. start_line >= 2 /\ PairAt(start_line - 1) /\ \E f \in 1 .. start_line - 1 : Asked(f)
  BY <1>1, <1>2 DEF Heard
<1>4. /\ Here \in Nat /\ start_line \in Nat /\ start_line <= Here
      /\ Here + 1 < read_index /\ read_index \in Nat /\ PairAt(Here + 1)
      /\ checked_index' = Here + 2
  BY <1>1, <1>2, LineIs, StopIs DEF ParserTypes
<1>5. Parser!Line(start_line, checked_index') = SubSeq(text, start_line + 1, Here)
  <2>1. checked_index' - 2 = Here
    BY <1>4
  <2> QED
    BY <2>1 DEF Parser!Line
<1>6. Parser!IsEnd(Parser!Line(start_line, checked_index')) <=> Here = start_line
  <2>1. CASE Here = start_line
    <3>1. Here < start_line + 1 /\ start_line + 1 \in Int /\ Here \in Int
      BY <1>4, <2>1
    <3>2. SubSeq(text, start_line + 1, Here) = <<>>
      BY <3>1, SubSeqEmpty
    <3> QED
      BY <1>5, <2>1, <3>2 DEF Parser!IsEnd
  <2>2. CASE Here # start_line
    <3>1. start_line + 1 <= Here /\ start_line + 1 \in Int /\ Here \in Int
      BY <1>4, <2>2
    <3>2. \A k \in start_line + 1 .. Here : text[k] \in STRING
      <4>1. text \in Seq(STRING) /\ Len(text) \in Nat /\ read_index <= Len(text)
        BY <1>2, ArrivedIs DEF ParserTypes
      <4> SUFFICES ASSUME NEW k \in start_line + 1 .. Here PROVE text[k] \in STRING
        OBVIOUS
      <4>2. k \in 1 .. Len(text)
        BY <1>4, <4>1
      <4> QED
        BY <4>1, <4>2, ElementOfSeq
    <3>3. Len(SubSeq(text, start_line + 1, Here)) = Here - (start_line + 1) + 1
      BY <3>1, <3>2, SubSeqProperties
    <3>4. SubSeq(text, start_line + 1, Here) # <<>>
      <4>1. Here - (start_line + 1) + 1 # 0
        BY <1>4, <3>1
      <4> QED
        BY <3>3, <4>1, EmptySeq
    <3> QED
      BY <1>5, <2>2, <3>4 DEF Parser!IsEnd
  <2> QED
    BY <2>1, <2>2
<1>7. ParserTypes'
  BY <1>1, <1>2, <1>4 DEF ParserTypes, Parser!Header
<1>8. LinesOk'
  BY <1>1, <1>2, LineKeeps
<1>9. PICK f \in 1 .. start_line - 1 : Asked(f)
  BY <1>3
<1>10. f \in Nat /\ 1 <= f /\ f < start_line
  BY <1>4
<1>11. \A k : PairAt(k)' <=> PairAt(k)
  BY <1>1 DEF PairAt
<1>12. CASE Here # start_line
  <2>1. at' = "parse" /\ result' = "NO_REQUEST"
    BY <1>1, <1>2, <1>6, <1>12 DEF Parser!Header
  <2>2. \A k \in f + 1 .. (Here + 2) - 1 : k > 2 /\ PairAt(k) => ~PairAt(k - 2)
    <3> SUFFICES ASSUME NEW k \in f + 1 .. (Here + 2) - 1, k > 2, PairAt(k), PairAt(k - 2) PROVE FALSE
      OBVIOUS
    <3>1. k \in Nat /\ f + 1 <= k /\ k <= Here + 1
      BY <1>4, <1>10
    <3>2. \A j \in start_line + 1 .. Here : text[j] \notin {"r", "n"}
      BY <1>2, StopIs
    <3>3. text[k] = "r" /\ text[k - 2] = "r"
      BY DEF PairAt
    <3>4. CASE k <= start_line - 1
      <4>1. k \in f + 1 .. start_line - 1
        BY <1>4, <1>10, <3>1, <3>4
      <4> QED
        BY <1>9, <4>1 DEF Asked
    <3>5. CASE k = start_line
      <4>1. k \in 1 .. start_line /\ ~(k < start_line)
        BY <1>4, <3>1, <3>5
      <4> QED
        BY <1>2, <3>3, <4>1 DEF LinesOk
    <3>6. CASE start_line < k /\ k <= Here
      <4>1. k \in start_line + 1 .. Here
        BY <1>4, <3>1, <3>6
      <4> QED
        BY <3>2, <3>3, <4>1
    <3>7. CASE k = Here + 1
      <4>1. CASE start_line < k - 2
        <5>1. k - 2 \in start_line + 1 .. Here
          BY <1>4, <3>1, <3>7, <4>1
        <5> QED
          BY <3>2, <3>3, <5>1
      <4>2. CASE k - 2 = start_line
        <5>1. k - 2 \in 1 .. start_line /\ ~(k - 2 < start_line)
          BY <1>3, <1>4, <3>1, <4>2
        <5> QED
          BY <1>2, <3>3, <5>1 DEF LinesOk
      <4> QED
        BY <1>4, <1>12, <3>1, <3>7, <4>1, <4>2
    <3> QED
      BY <1>4, <3>1, <3>4, <3>5, <3>6, <3>7
  <2>3. Heard'
    <3>1. start_line' = Here + 2 /\ start_line' - 1 = Here + 1 /\ f \in 1 .. start_line' - 1 /\ start_line' >= 2
      BY <1>1, <1>4, <1>10
    <3>2. PairAt(start_line - 1)'
      BY <1>1, <1>4, <3>1 DEF PairAt
    <3>3. Asked(f)'
      BY <1>1, <1>4, <1>9, <1>11, <2>2 DEF Asked
    <3> QED
      BY <1>1, <3>1, <3>2, <3>3 DEF Heard
  <2> QED
    BY <1>7, <1>8, <2>1, <2>3 DEF ParserInv, CutsDoNotMatter, Parser!CutsDoNotMatter
<1>13. CASE Here = start_line
  <2>1. at' = "done" /\ result' = "GET_REQUEST"
    BY <1>6, <1>13 DEF Parser!Header
  <2>2. /\ Here + 1 \in EndsOf(Arrived)
        /\ \A k \in FlawsOf(Arrived) : Here + 1 < k
    BY <1>1, <1>2, EndArrived
  <2>3. /\ Here \in start_line .. read_index
        /\ \A k \in start_line + 1 .. Here : text[k] \notin {"r", "n"}
    BY <1>2, <1>4, StopIs
  <2>4. StillOpen(Arrived, Here + 1)
    BY <1>2, <2>3, UpTo
  <2>5. Arrived \in Seq(STRING) /\ Len(Arrived) = read_index /\ \A k \in 1 .. read_index : Arrived[k] = text[k]
    BY <1>2, ArrivedIs
  <2>6. start_line - 1 \in EndsOf(Arrived)
    <3>1. start_line - 1 \in 1 .. read_index - 1 /\ start_line - 1 \in 1 .. read_index /\ (start_line - 1) + 1 \in 1 .. read_index
      BY <1>3, <1>4
    <3> QED
      BY <1>3, <2>5, <3>1 DEF PairAt, EndsOf
  <2>7. /\ Parser!IsRequest(SubSeq(Arrived, 1, FirstEnd(Arrived) - 1))
        /\ \A e \in EmptiesOf(Arrived) : e >= Here + 1
    <3>1. ~(\A e \in EndsOf(Arrived) : e >= Here + 1)
      <4>1. ~(start_line - 1 >= Here + 1)
        BY <1>4
      <4> QED
        BY <2>6, <4>1
    <3> QED
      BY <2>4, <3>1 DEF StillOpen
  <2>8. FirstEnd(Arrived) \in EndsOf(Arrived) /\ FirstEnd(Arrived) <= start_line - 1
    <3>1. EndsOf(Arrived) \in SUBSET Nat
      <4>1. EndsOf(Arrived) \subseteq 1 .. read_index - 1
        BY <2>5, Places
      <4> QED
        BY <1>4, <4>1
    <3> QED
      BY <2>6, <3>1, FirstIsIn DEF FirstEnd
  <2>9. Here + 1 \in EmptiesOf(Arrived)
    <3>1. FirstEnd(Arrived) \in 1 .. read_index - 1
      BY <2>5, <2>8, Places
    <3>2. Here + 1 > FirstEnd(Arrived) /\ (Here + 1) - 2 = start_line - 1
      BY <1>4, <1>13, <2>8, <3>1
    <3> QED
      BY <2>2, <2>6, <3>2 DEF EmptiesOf
  <2>10. \A e \in EmptiesOf(Arrived) : Here + 1 <= e
    <3> SUFFICES ASSUME NEW e \in EmptiesOf(Arrived) PROVE Here + 1 <= e
      OBVIOUS
    <3>1. e \in 1 .. read_index - 1 /\ e >= Here + 1
      BY <2>5, <2>7, Places
    <3> QED
      BY <1>4, <3>1
  <2>11. Parser!Verdict(Arrived) = "GET_REQUEST"
    BY <2>2, <2>5, <2>7, <2>9, <2>10, VerdictGet
  <2>12. CutsDoNotMatter'
    BY <1>1, <2>1, <2>11 DEF CutsDoNotMatter, Parser!CutsDoNotMatter, Arrived
  <2> QED
    BY <1>7, <2>1, <2>12 DEF ParserInv
<1> QED
  BY <1>12, <1>13

LEMMA BadLineKeeps == ParserInv /\ Parser!BadLine => ParserInv'
<1> SUFFICES ASSUME ParserInv, Parser!BadLine PROVE ParserInv'
  OBVIOUS
<1>1. /\ at = "parse" /\ at' = "done" /\ result' = "BAD_REQUEST" /\ Parser!LineBad
      /\ text' = text /\ read_index' = read_index /\ start_line' = start_line
      /\ checkstate' = checkstate /\ checked_index' = checked_index
  BY DEF Parser!BadLine, Parser!LineBad
<1>2. ParserTypes /\ LinesOk /\ Heard
  BY <1>1 DEF ParserInv
<1>3. /\ Here \in Nat /\ start_line \in Nat /\ start_line <= Here /\ Here \in start_line .. read_index
      /\ read_index \in Nat
      /\ \A k \in start_line + 1 .. Here : text[k] \notin {"r", "n"}
      /\ Here < read_index => text[Here + 1] \in {"r", "n"}
  BY <1>2, StopIs DEF ParserTypes
<1>4. /\ Here < read_index
      /\ IF text[Here + 1] = "r"
         THEN Here + 1 < read_index /\ text[(Here + 1) + 1] # "n"
         ELSE ~(Here > 1 /\ text[(Here - 1) + 1] = "r")
  BY <1>1 DEF Parser!LineBad, Here, Parser!Char
<1>5. /\ \A k \in EndsOf(Arrived) : k <= Here => k < start_line
      /\ \A k \in FlawsOf(Arrived) : Here < k
      /\ StillOpen(Arrived, Here + 1)
  BY <1>2, <1>3, UpTo
<1>6. Arrived \in Seq(STRING) /\ Len(Arrived) = read_index /\ \A k \in 1 .. read_index : Arrived[k] = text[k]
  BY <1>2, ArrivedIs
<1>7. Here + 1 \in FlawsOf(Arrived)
  <2>1. Here + 1 \in 1 .. read_index
    BY <1>3, <1>4
  <2>2. CASE text[Here + 1] = "r"
    <3>1. (Here + 1) + 1 \in 1 .. read_index
      BY <1>3, <1>4, <2>2
    <3> QED
      BY <1>4, <1>6, <2>1, <2>2, <3>1 DEF FlawsOf
  <2>3. CASE text[Here + 1] # "r"
    <3>1. Arrived[Here + 1] = "n"
      BY <1>3, <1>4, <1>6, <2>1, <2>3
    <3>2. (Here + 1) - 1 = Here /\ Here <= Here /\ ~(Here < start_line)
      BY <1>3
    <3>3. Here \notin EndsOf(Arrived)
      BY <1>5, <3>2
    <3> QED
      BY <1>6, <2>1, <3>1, <3>2, <3>3 DEF FlawsOf
  <2> QED
    BY <2>2, <2>3
<1>8. \A k \in FlawsOf(Arrived) : Here + 1 <= k
  <2> SUFFICES ASSUME NEW k \in FlawsOf(Arrived) PROVE Here + 1 <= k
    OBVIOUS
  <2>1. k \in 1 .. read_index /\ Here < k
    BY <1>5, <1>6, Places
  <2> QED
    BY <1>3, <2>1
<1>9. Parser!Verdict(Arrived) = "BAD_REQUEST"
  BY <1>5, <1>6, <1>7, <1>8, VerdictFlaw
<1>10. CutsDoNotMatter'
  BY <1>1, <1>9 DEF CutsDoNotMatter, Parser!CutsDoNotMatter, Arrived
<1>11. ParserTypes'
  BY <1>1, <1>2 DEF ParserTypes
<1> QED
  BY <1>1, <1>10, <1>11 DEF ParserInv

LEMMA WaitsKeeps == ParserInv /\ Parser!WaitsForMore => ParserInv'
<1> SUFFICES ASSUME ParserInv, Parser!WaitsForMore PROVE ParserInv'
  OBVIOUS
<1>1. /\ at = "parse" /\ at' = "recv" /\ result' = result /\ Parser!LineOpen
      /\ text' = text /\ read_index' = read_index /\ start_line' = start_line
      /\ checkstate' = checkstate /\ checked_index' = Here
  BY DEF Parser!WaitsForMore, Parser!LineOpen, Here
<1>2. ParserTypes /\ LinesOk /\ Heard /\ result = "NO_REQUEST"
  BY <1>1 DEF ParserInv
<1>3. /\ Here \in Nat /\ start_line \in Nat /\ start_line <= Here /\ Here \in start_line .. read_index
      /\ read_index \in Nat /\ Here <= read_index
      /\ \A k \in start_line + 1 .. Here : text[k] \notin {"r", "n"}
  BY <1>2, StopIs DEF ParserTypes
<1>4. Here < read_index => text[Here + 1] = "r" /\ Here + 1 = read_index
  BY <1>1 DEF Parser!LineOpen, Here, Parser!Char
<1>5. /\ \A k \in FlawsOf(Arrived) : Here < k
      /\ StillOpen(Arrived, Here + 1)
  BY <1>2, <1>3, UpTo
<1>6. Arrived \in Seq(STRING) /\ Len(Arrived) = read_index /\ \A k \in 1 .. read_index : Arrived[k] = text[k]
  BY <1>2, ArrivedIs
<1>7. FlawsOf(Arrived) = {}
  <2> SUFFICES ASSUME NEW k \in FlawsOf(Arrived) PROVE FALSE
    OBVIOUS
  <2>1. k \in 1 .. read_index /\ Here < k
    BY <1>5, <1>6, Places
  <2>2. k = read_index /\ Here < read_index
    BY <1>3, <1>4, <2>1
  <2>3. Arrived[k] = "r" /\ ~(k < Len(Arrived))
    BY <1>3, <1>4, <1>6, <2>1, <2>2
  <2> QED
    BY <2>3 DEF FlawsOf
<1>8. StillOpen(Arrived, Len(Arrived) + 1)
  <2>1. ASSUME NEW k \in EndsOf(Arrived), k >= Here + 1 PROVE k >= read_index + 1
    <3>1. k \in 1 .. read_index - 1
      BY <1>6, Places
    <3> QED
      BY <1>3, <1>4, <2>1, <3>1
  <2>2. EmptiesOf(Arrived) \subseteq EndsOf(Arrived)
    BY DEF EmptiesOf
  <2> QED
    BY <1>5, <1>6, <2>1, <2>2 DEF StillOpen
<1>9. Parser!Verdict(Arrived) = "NO_REQUEST"
  BY <1>6, <1>7, <1>8, VerdictNone
<1>10. CutsDoNotMatter'
  BY <1>1, <1>2, <1>9 DEF CutsDoNotMatter, Parser!CutsDoNotMatter, Arrived
<1>11. ParserTypes'
  BY <1>1, <1>2, <1>3 DEF ParserTypes
<1>12. LinesOk'
  BY <1>1, <1>2, <1>3 DEF LinesOk
<1>13. Heard'
  BY <1>1, <1>2 DEF Heard, Asked, PairAt
<1> QED
  BY <1>1, <1>2, <1>10, <1>11, <1>12, <1>13 DEF ParserInv

LEMMA RecvKeeps == ParserInv /\ Parser!Recv => ParserInv'
<1> SUFFICES ASSUME ParserInv, Parser!Recv PROVE ParserInv'
  OBVIOUS
<1>1. /\ at = "recv" /\ at' = "parse" /\ result' = result /\ text' = text /\ start_line' = start_line
      /\ checkstate' = checkstate /\ checked_index' = checked_index
      /\ \E n \in 1 .. BUFFER_SIZE - read_index : read_index + n <= Len(text) /\ read_index' = read_index + n
  BY DEF Parser!Recv, Parser!place
<1>2. ParserTypes /\ LinesOk /\ Heard /\ result = "NO_REQUEST"
  BY <1>1 DEF ParserInv
<1>3. ParserTypes'
  <2>1. Len(text) \in Nat /\ BUFFER_SIZE \in Nat /\ read_index \in Nat /\ checked_index \in Nat /\ checked_index <= read_index
    BY <1>2, ArrivedIs, ParserAssumption DEF ParserTypes
  <2>2. read_index' \in Nat /\ checked_index <= read_index' /\ read_index' <= BUFFER_SIZE /\ read_index' <= Len(text)
    BY <1>1, <2>1
  <2> QED
    BY <1>1, <1>2, <2>2 DEF ParserTypes
<1>4. LinesOk' /\ Heard'
  BY <1>1, <1>2 DEF LinesOk, Heard, Asked, PairAt
<1> QED
  BY <1>1, <1>2, <1>3, <1>4 DEF ParserInv, CutsDoNotMatter, Parser!CutsDoNotMatter

LEMMA ParserStep == ParserInv /\ [Parser!Next]_(Parser!vars) => ParserInv'
<1> SUFFICES ASSUME ParserInv, [Parser!Next]_(Parser!vars) PROVE ParserInv'
  OBVIOUS
<1>1. CASE Parser!RecvNothing \/ Parser!RecvFails
  <2>1. /\ at' = "done" /\ result' \in {"closed", "failed"} /\ text' = text /\ start_line' = start_line
        /\ read_index' = read_index /\ checkstate' = checkstate /\ checked_index' = checked_index
    BY <1>1 DEF Parser!RecvNothing, Parser!RecvFails, Parser!place
  <2>2. ParserTypes'
    BY <2>1 DEF ParserInv, ParserTypes
  <2>3. CutsDoNotMatter'
    BY <2>1 DEF CutsDoNotMatter, Parser!CutsDoNotMatter
  <2> QED
    BY <2>1, <2>2, <2>3 DEF ParserInv
<1>2. CASE UNCHANGED Parser!vars
  <2>1. /\ at' = at /\ result' = result /\ text' = text /\ start_line' = start_line
        /\ read_index' = read_index /\ checkstate' = checkstate /\ checked_index' = checked_index
    BY <1>2 DEF Parser!vars, Parser!place
  <2>2. ParserTypes'
    BY <2>1 DEF ParserInv, ParserTypes
  <2>3. at' # "done" => LinesOk' /\ Heard' /\ result' = "NO_REQUEST"
    BY <2>1 DEF ParserInv, LinesOk, Heard, Asked, PairAt
  <2>4. CutsDoNotMatter'
    BY <2>1 DEF ParserInv, CutsDoNotMatter, Parser!CutsDoNotMatter
  <2> QED
    BY <2>2, <2>3, <2>4 DEF ParserInv
<1> QED
  BY <1>1, <1>2, RequestLineKeeps, HeaderKeeps, BadLineKeeps, WaitsKeeps, RecvKeeps DEF Parser!Next

LEMMA ParserStart == Parser!Init => ParserInv
<1> SUFFICES ASSUME Parser!Init PROVE ParserInv
  OBVIOUS
<1>1. /\ at = "recv" /\ text \in Texts /\ read_index = 0 /\ checked_index = 0 /\ start_line = 0
      /\ checkstate = "REQUESTLINE" /\ result = "NO_REQUEST"
  BY DEF Parser!Init
<1>2. text \in Seq(STRING) /\ Len(text) \in Nat /\ BUFFER_SIZE \in Nat
  BY <1>1, ParserAssumption
<1>3. ParserTypes
  BY <1>1, <1>2 DEF ParserTypes
<1>4. LinesOk /\ Heard
  BY <1>1 DEF LinesOk, Heard
<1>5. FlawsOf(Arrived) = {} /\ EndsOf(Arrived) = {}
  <2>1. Len(Arrived) = 0
    BY <1>1, <1>3, ArrivedIs
  <2> QED
    BY <2>1 DEF FlawsOf, EndsOf
<1>6. StillOpen(Arrived, Len(Arrived) + 1) /\ Arrived \in Seq(STRING)
  BY <1>3, <1>5, ArrivedIs DEF StillOpen
<1>7. Parser!Verdict(Arrived) = "NO_REQUEST"
  BY <1>5, <1>6, VerdictNone
<1> QED
  BY <1>1, <1>3, <1>4, <1>7 DEF ParserInv, CutsDoNotMatter, Parser!CutsDoNotMatter, Arrived

\* Wherever recv cuts a request, it is judged as if it had come at once, for texts and
\* buffers of any length.
THEOREM CutsDoNotMatterHolds == Parser!Spec => []CutsDoNotMatter
<1>1. ParserInv => CutsDoNotMatter
  BY DEF ParserInv
<1> QED
  BY <1>1, ParserStart, ParserStep, PTL DEF Parser!Spec
=============================================================================
