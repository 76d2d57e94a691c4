----------------------------- MODULE HttpServer -----------------------------
(***************************************************************************)
(* HP/15/15-5http_conn.cpp and 15-6main.cpp: the main thread accepts,      *)
(* reads and writes, the workers of the thread pool parse requests and     *)
(* make replies.  An http_conn is the entry of users[] with the number of  *)
(* its descriptor.  It is shared without a lock: every registration is     *)
(* one-shot, so whoever was given a connection's event is alone with it    *)
(* until he registers it again.                                            *)
(*                                                                         *)
(* The pool is what ThreadPool is shown to be, a FIFO of MAX_REQUESTS + 1  *)
(* places.  A request comes in pieces: "more" does not complete it, "keep" *)
(* and "close" do, with and without keep-alive, "empty" asks for an empty  *)
(* file, and "junk" holds a line that is not ended as it should be.        *)
(***************************************************************************)
EXTENDS Integers, Sequences, FiniteSets

CONSTANTS
  Fds,               \* descriptors the kernel may give to connections
  Workers,
  MAX_FD,
  MAX_REQUESTS,      \* m_max_requests of the pool
  READ_BUFFER_SIZE,  \* in pieces
  MaxClients,        \* bound: connections made at all
  MaxPieces          \* bound: pieces sent at all

ASSUME HttpAssumption ==
  /\ Fds \subseteq Nat /\ IsFiniteSet(Fds) /\ IsFiniteSet(Workers)
  /\ MAX_FD \in Nat /\ MAX_REQUESTS \in Nat /\ READ_BUFFER_SIZE \in Nat
  /\ MaxClients \in Nat /\ MaxPieces \in Nat

Pieces == {"more", "keep", "close", "empty", "junk"}
Listen == -2
NoFd == -1

VARIABLES
  backlog, arrived,            \* the listening socket: clients waiting, and its edge
  open,                        \* descriptors of connections
  armed,                       \* what each is registered for: "IN", "OUT", or "off" after its event
  inq, ended, room,            \* pieces to receive; the peer has shut down; there is room to send
  m_sockfd, m_read_buf, m_write_idx, m_linger,
  m_user_count,
  queue,                       \* the pool's list
  pc, job, tmp,                \* of each worker: where, with whose http_conn, m_user_count as it read it
  main, events, seen,          \* the loop: where, the rest of its batch, m_user_count as it read it
  clients, pieces,             \* bounds: so far
  reused, torn                 \* history: see the properties

sockets == <<backlog, arrived, open, armed, inq, ended, room>>
users == <<m_sockfd, m_read_buf, m_write_idx, m_linger>>
counting == <<m_user_count, torn>>
pool == <<queue, pc, job, tmp, reused>>
loop == <<main, events, seen>>
bounds == <<clients, pieces>>
vars == <<sockets, users, counting, pool, loop, bounds>>

Init ==
  /\ backlog = 0 /\ arrived = FALSE /\ open = {}
  /\ armed = [fd \in Fds |-> "off"] /\ inq = [fd \in Fds |-> <<>>]
  /\ ended = [fd \in Fds |-> FALSE] /\ room = [fd \in Fds |-> TRUE]
  /\ m_sockfd = [fd \in Fds |-> NoFd] /\ m_read_buf = [fd \in Fds |-> <<>>]
  /\ m_write_idx = [fd \in Fds |-> 0] /\ m_linger = [fd \in Fds |-> FALSE]
  /\ m_user_count = 0
  /\ queue = <<>> /\ pc = [w \in Workers |-> "idle"]
  /\ job = [w \in Workers |-> NoFd] /\ tmp = [w \in Workers |-> 0]
  /\ main = "wait" /\ events = {} /\ seen = 0
  /\ clients = 0 /\ pieces = 0 /\ reused = FALSE /\ torn = FALSE

-----------------------------------------------------------------------------
(* The clients. *)

Connect ==
  /\ clients < MaxClients
  /\ clients' = clients + 1
  /\ backlog' = backlog + 1 /\ arrived' = TRUE
  /\ UNCHANGED <<open, armed, inq, ended, room, users, counting, pool, loop, pieces>>

PeerSends(fd, p) ==
  /\ fd \in open /\ ~ended[fd] /\ pieces < MaxPieces
  /\ pieces' = pieces + 1
  /\ inq' = [inq EXCEPT ![fd] = Append(@, p)]
  /\ UNCHANGED <<backlog, arrived, open, armed, ended, room, users, counting, pool, loop, clients>>

PeerReads(fd) ==
  /\ fd \in open /\ ~room[fd]
  /\ room' = [room EXCEPT ![fd] = TRUE]
  /\ UNCHANGED <<backlog, arrived, open, armed, inq, ended, users, counting, pool, loop, bounds>>

PeerEnds(fd) ==
  /\ fd \in open /\ ~ended[fd]
  /\ ended' = [ended EXCEPT ![fd] = TRUE]
  /\ UNCHANGED <<backlog, arrived, open, armed, inq, room, users, counting, pool, loop, bounds>>

-----------------------------------------------------------------------------
(* The operations of http_conn. *)

\* Fails without a word for a descriptor that is not open.
Modfd(fd, ev) == armed' = IF fd \in open THEN [armed EXCEPT ![fd] = ev] ELSE armed

Removefd(fd) ==
  /\ open' = open \ {fd}
  /\ armed' = [armed EXCEPT ![fd] = "off"] /\ inq' = [inq EXCEPT ![fd] = <<>>]
  /\ ended' = [ended EXCEPT ![fd] = FALSE] /\ room' = [room EXCEPT ![fd] = TRUE]

\* init(): ready for the next request.
Cleared(fd) ==
  /\ m_read_buf' = [m_read_buf EXCEPT ![fd] = <<>>]
  /\ m_write_idx' = [m_write_idx EXCEPT ![fd] = 0]
  /\ m_linger' = [m_linger EXCEPT ![fd] = FALSE]

\* Mutant of CloseConn: the count is forgotten.
CloseConnUncounted(fd) ==
  /\ IF m_sockfd[fd] # NoFd
     THEN Removefd(m_sockfd[fd]) /\ m_sockfd' = [m_sockfd EXCEPT ![fd] = NoFd]
     ELSE UNCHANGED <<open, armed, inq, ended, room, m_sockfd>>
  /\ UNCHANGED counting

\* close_conn in the main thread, at once: the steps of a worker in it show all
\* that the two can do to each other.
CloseConn(fd) ==
  IF m_sockfd[fd] # NoFd
  THEN /\ Removefd(m_sockfd[fd])
       /\ m_sockfd' = [m_sockfd EXCEPT ![fd] = NoFd]
       /\ m_user_count' = m_user_count - 1 /\ UNCHANGED torn
  ELSE UNCHANGED <<open, armed, inq, ended, room, m_sockfd, counting>>

\* process_read: the first line that is not as it should be stops the parser for
\* good, and what it returns is the same as for a request that is not complete.
ProcessRead(buf) ==
  LET said == {i \in DOMAIN buf : buf[i] # "more"}
      first == CHOOSE i \in said : \A j \in said : i <= j
  IN IF said = {} \/ buf[first] = "junk" THEN "NO_REQUEST" ELSE buf[first]

-----------------------------------------------------------------------------
(* The main thread. *)

\* An event is of the first kind its handler looks for.
EventOf(fd) == IF ended[fd] THEN "HUP" ELSE armed[fd]

Raised(fd) ==
  /\ fd \in open /\ armed[fd] # "off"
  /\ ended[fd] \/ (armed[fd] = "IN" /\ inq[fd] # <<>>) \/ (armed[fd] = "OUT" /\ room[fd])

\* Mutant of EpollWait: connections are registered without EPOLLONESHOT.
EpollWaitAgain ==
  LET raised == {fd \in Fds : Raised(fd)}
  IN /\ main = "wait"
     /\ raised # {} \/ arrived
     /\ events' = {<<fd, EventOf(fd)>> : fd \in raised}
                     \union (IF arrived THEN {<<Listen, "IN">>} ELSE {})
     /\ arrived' = FALSE
     /\ main' = "batch"
     /\ UNCHANGED <<backlog, open, armed, inq, ended, room, users, counting, pool, seen, bounds>>

EpollWait ==
  LET raised == {fd \in Fds : Raised(fd)}
  IN /\ main = "wait"
     /\ raised # {} \/ arrived
     /\ events' = {<<fd, EventOf(fd)>> : fd \in raised}
                     \union (IF arrived THEN {<<Listen, "IN">>} ELSE {})
     /\ armed' = [fd \in Fds |-> IF fd \in raised THEN "off" ELSE armed[fd]]
     /\ arrived' = FALSE
     /\ main' = "batch"
     /\ UNCHANGED <<backlog, open, inq, ended, room, users, counting, pool, seen, bounds>>

Handles(e) == main = "batch" /\ e \in events /\ events' = events \ {e}

\* One accept for one edge, however many clients wait.  It fails when there are
\* no descriptors left.
AcceptFails ==
  /\ Handles(<<Listen, "IN">>)
  /\ Fds \subseteq open
  /\ UNCHANGED <<sockets, users, counting, pool, main, seen, bounds>>

\* "Internal server busy".
Refuse ==
  /\ Handles(<<Listen, "IN">>)
  /\ ~(Fds \subseteq open) /\ m_user_count >= MAX_FD
  /\ backlog' = backlog - 1
  /\ UNCHANGED <<arrived, open, armed, inq, ended, room, users, counting, pool, main, seen, bounds>>

\* init( sockfd, addr ), up to the reading of m_user_count.
Accept ==
  /\ Handles(<<Listen, "IN">>)
  /\ m_user_count < MAX_FD
  /\ backlog' = backlog - 1
  /\ \E fd \in Fds \ open :
        /\ open' = open \union {fd}
        /\ m_sockfd' = [m_sockfd EXCEPT ![fd] = fd]
        /\ armed' = [armed EXCEPT ![fd] = "IN"]
        /\ Cleared(fd)
        /\ reused' = (reused \/ \E w \in Workers : pc[w] # "idle" /\ job[w] = fd)
  /\ seen' = m_user_count
  /\ main' = "count"
  /\ UNCHANGED <<arrived, inq, ended, room, counting, queue, pc, job, tmp, bounds>>

Count ==
  /\ main = "count"
  /\ m_user_count' = seen + 1
  /\ torn' = (torn \/ m_user_count # seen)
  /\ seen' = 0
  /\ main' = "batch"
  /\ UNCHANGED <<sockets, users, pool, events, bounds>>

Hangup(fd) ==
  /\ Handles(<<fd, "HUP">>)
  /\ CloseConn(fd)
  /\ UNCHANGED <<backlog, arrived, m_read_buf, m_write_idx, m_linger, pool, main, seen, bounds>>

\* read: all there is.  A buffer that is full, even by what makes the request
\* complete, is taken for the end: recv of no bytes returns 0.
CanRead(fd) ==
  /\ m_sockfd[fd] = fd /\ ~ended[fd]
  /\ Len(m_read_buf[fd]) + Len(inq[fd]) < READ_BUFFER_SIZE

\* The result of append is not looked at: refused, the connection has no event.
Read(fd) ==
  /\ Handles(<<fd, "IN">>)
  /\ CanRead(fd)
  /\ m_read_buf' = [m_read_buf EXCEPT ![fd] = @ \o inq[fd]]
  /\ inq' = [inq EXCEPT ![fd] = <<>>]
  /\ queue' = IF Len(queue) <= MAX_REQUESTS THEN Append(queue, fd) ELSE queue
  /\ UNCHANGED <<backlog, arrived, open, armed, ended, room, m_sockfd, m_write_idx, m_linger,
                 counting, pc, job, tmp, reused, main, seen, bounds>>

ReadFails(fd) ==
  /\ Handles(<<fd, "IN">>)
  /\ ~CanRead(fd)
  /\ CloseConn(fd)
  /\ UNCHANGED <<backlog, arrived, m_read_buf, m_write_idx, m_linger, pool, main, seen, bounds>>

\* write when there is nothing to write.
WriteNothing(fd) ==
  /\ Handles(<<fd, "OUT">>)
  /\ m_write_idx[fd] = 0
  /\ Modfd(m_sockfd[fd], "IN")
  /\ Cleared(fd)
  /\ UNCHANGED <<backlog, arrived, open, inq, ended, room, m_sockfd, counting, pool, main, seen, bounds>>

CanWrite(fd) == m_write_idx[fd] # 0 /\ m_sockfd[fd] = fd /\ ~ended[fd]

\* writev took half of the headers or more, which write takes for all of the reply.
WriteAll(fd) ==
  /\ Handles(<<fd, "OUT">>)
  /\ CanWrite(fd)
  /\ IF m_linger[fd]
     THEN /\ Cleared(fd) /\ Modfd(fd, "IN")
          /\ \E r \in BOOLEAN : room' = [room EXCEPT ![fd] = r]
          /\ UNCHANGED <<open, inq, ended, m_sockfd, counting>>
     ELSE CloseConn(fd) /\ UNCHANGED <<m_read_buf, m_write_idx, m_linger>>
  /\ UNCHANGED <<backlog, arrived, pool, main, seen, bounds>>

\* It took less, or nothing, and the next call of it would block: the reply is
\* written again from its start when there is room.
WriteBlocks(fd) ==
  /\ Handles(<<fd, "OUT">>)
  /\ CanWrite(fd)
  /\ Modfd(fd, "OUT")
  /\ room' = [room EXCEPT ![fd] = FALSE]
  /\ UNCHANGED <<backlog, arrived, open, inq, ended, users, counting, pool, main, seen, bounds>>

WriteFails(fd) ==
  /\ Handles(<<fd, "OUT">>)
  /\ m_write_idx[fd] # 0 /\ ~CanWrite(fd)
  /\ CloseConn(fd)
  /\ UNCHANGED <<backlog, arrived, m_read_buf, m_write_idx, m_linger, pool, main, seen, bounds>>

BatchEnds ==
  /\ main = "batch" /\ events = {}
  /\ main' = "wait"
  /\ UNCHANGED <<sockets, users, counting, pool, events, seen, bounds>>

-----------------------------------------------------------------------------
(* A worker. *)

Goto(w, from, to) == pc[w] = from /\ pc' = [pc EXCEPT ![w] = to]

Take(w) ==
  /\ Goto(w, "idle", "process")
  /\ queue # <<>>
  /\ job' = [job EXCEPT ![w] = Head(queue)]
  /\ queue' = Tail(queue)
  /\ UNCHANGED <<sockets, users, counting, tmp, reused, loop, bounds>>

\* Mutant of NoRequest: the connection is not registered again.
NoRequestNoEvent(w) ==
  /\ Goto(w, "process", "idle")
  /\ ProcessRead(m_read_buf[job[w]]) = "NO_REQUEST"
  /\ job' = [job EXCEPT ![w] = NoFd]
  /\ UNCHANGED <<sockets, users, counting, queue, tmp, reused, loop, bounds>>

NoRequest(w) ==
  /\ Goto(w, "process", "idle")
  /\ ProcessRead(m_read_buf[job[w]]) = "NO_REQUEST"
  /\ Modfd(m_sockfd[job[w]], "IN")
  /\ job' = [job EXCEPT ![w] = NoFd]
  /\ UNCHANGED <<backlog, arrived, open, inq, ended, room, users, counting, queue, tmp, reused, loop, bounds>>

\* process_write: for an empty file it makes a reply, and then falls into the case
\* that returns false (520).
Reply(w) ==
  LET fd == job[w]
      request == ProcessRead(m_read_buf[fd])
  IN /\ pc[w] = "process" /\ request # "NO_REQUEST"
     /\ Goto(w, "process", IF request = "empty" THEN "close" ELSE "rearm")
     /\ m_write_idx' = [m_write_idx EXCEPT ![fd] = 1]
     /\ m_linger' = [m_linger EXCEPT ![fd] = (request = "keep")]
     /\ UNCHANGED <<sockets, m_sockfd, m_read_buf, counting, queue, job, tmp, reused, loop, bounds>>

\* close_conn by a worker: the descriptor is free from here on ...
CloseRemoves(w) ==
  LET fd == m_sockfd[job[w]]
  IN /\ pc[w] = "close"
     /\ IF fd = NoFd
        THEN Goto(w, "close", "rearm") /\ UNCHANGED <<open, armed, inq, ended, room>>
        ELSE Goto(w, "close", "forget") /\ Removefd(fd)
     /\ UNCHANGED <<backlog, arrived, users, counting, queue, job, tmp, reused, loop, bounds>>

\* ... and main may have given it to the next client, in the same http_conn, by now.
CloseForgets(w) ==
  /\ Goto(w, "forget", "load")
  /\ m_sockfd' = [m_sockfd EXCEPT ![job[w]] = NoFd]
  /\ UNCHANGED <<sockets, m_read_buf, m_write_idx, m_linger, counting, queue, job, tmp, reused, loop, bounds>>

CloseLoads(w) ==
  /\ Goto(w, "load", "store")
  /\ tmp' = [tmp EXCEPT ![w] = m_user_count]
  /\ UNCHANGED <<sockets, users, counting, queue, job, reused, loop, bounds>>

CloseStores(w) ==
  /\ Goto(w, "store", "rearm")
  /\ m_user_count' = tmp[w] - 1
  /\ torn' = (torn \/ m_user_count # tmp[w])
  /\ tmp' = [tmp EXCEPT ![w] = 0]
  /\ UNCHANGED <<sockets, users, queue, job, reused, loop, bounds>>

\* The last line of process, also after close_conn.
Rearm(w) ==
  /\ Goto(w, "rearm", "idle")
  /\ Modfd(m_sockfd[job[w]], "OUT")
  /\ job' = [job EXCEPT ![w] = NoFd]
  /\ UNCHANGED <<backlog, arrived, open, inq, ended, room, users, counting, queue, tmp, reused, loop, bounds>>

-----------------------------------------------------------------------------
Handler(fd) ==
  Hangup(fd) \/ Read(fd) \/ ReadFails(fd) \/ WriteNothing(fd) \/ WriteAll(fd) \/ WriteBlocks(fd) \/ WriteFails(fd)

Main ==
  EpollWait \/ AcceptFails \/ Refuse \/ Accept \/ Count \/ BatchEnds \/ \E fd \in Fds : Handler(fd)

Work(w) ==
  \/ Take(w) \/ NoRequest(w) \/ Reply(w) \/ Rearm(w)
  \/ CloseRemoves(w) \/ CloseForgets(w) \/ CloseLoads(w) \/ CloseStores(w)

Peer(fd) == PeerReads(fd) \/ PeerEnds(fd) \/ \E p \in Pieces : PeerSends(fd, p)

Next == Main \/ (\E w \in Workers : Work(w)) \/ Connect \/ \E fd \in Fds : Peer(fd)

Spec == Init /\ [][Next]_vars

\* The threads are scheduled, a peer that is sent a reply reads it, and the room
\* that is reported for writing is not for ever less than half of the headers.
FairSpec ==
  /\ Spec
  /\ WF_vars(Main)
  /\ \A w \in Workers : WF_vars(Work(w))
  /\ \A fd \in Fds : WF_vars(PeerReads(fd)) /\ SF_vars(WriteAll(fd))

-----------------------------------------------------------------------------
(* Properties.  A worker's close_conn gives the descriptor back before the     *)
(* worker is done with the http_conn, and nothing keeps main from accepting    *)
(* with it in between (reused); and m_user_count is read and written without a *)
(* lock, so that a change may be overwritten by whoever had read it before     *)
(* (torn).  The properties are about the server until that happens; a worker's *)
(* close_conn, in whatever order with what main does, is not excepted.         *)

Busy(w) == pc[w] # "idle"
Closing(w) == pc[w] \in {"forget", "load", "store"}
Gone(w) == Closing(w) \/ (pc[w] = "rearm" /\ m_sockfd[job[w]] = NoFd)
Queued == {queue[i] : i \in DOMAIN queue}
Noted == {e[1] : e \in events} \ {Listen}
Watched == {fd \in Fds : armed[fd] # "off"}

\* Types.
TypeOK ==
  /\ backlog \in Int /\ arrived \in BOOLEAN /\ open \subseteq Fds
  /\ armed \in [Fds -> {"IN", "OUT", "off"}] /\ inq \in [Fds -> Seq(Pieces)]
  /\ ended \in [Fds -> BOOLEAN] /\ room \in [Fds -> BOOLEAN]
  /\ m_sockfd \in [Fds -> Fds \union {NoFd}] /\ m_read_buf \in [Fds -> Seq(Pieces)]
  /\ m_write_idx \in [Fds -> {0, 1}] /\ m_linger \in [Fds -> BOOLEAN]
  /\ m_user_count \in Int
  /\ queue \in Seq(Fds)
  /\ pc \in [Workers -> {"idle", "process", "close", "forget", "load", "store", "rearm"}]
  /\ job \in [Workers -> Fds \union {NoFd}] /\ \A w \in Workers : Busy(w) => job[w] \in Fds
  /\ tmp \in [Workers -> Int]
  /\ main \in {"wait", "batch", "count"} /\ seen \in Int
  /\ events \subseteq (Fds \union {Listen}) \X {"IN", "OUT", "HUP"}
  /\ clients \in Nat /\ pieces \in Nat /\ reused \in BOOLEAN /\ torn \in BOOLEAN

\* A connection is in one hand: watched by epoll or noted in the batch, waiting
\* in the pool's list, or with one worker; and only while it is open, or the worker
\* that has it is the one that has closed it.
OneHand ==
  \/ reused
  \/ /\ \A w \in Workers : Busy(w) =>
           job[w] \notin Queued \union Noted \union Watched /\ (job[w] \in open <=> ~Gone(w))
     /\ \A v, w \in Workers : Busy(v) /\ Busy(w) /\ job[v] = job[w] => v = w
     /\ Queued \subseteq open \ (Noted \union Watched)
     /\ \A i, j \in DOMAIN queue : queue[i] = queue[j] => i = j
     /\ Noted \subseteq open \ Watched
     /\ \A e, f \in events : e[1] = f[1] => e = f
     /\ Watched \subseteq open

\* m_user_count, which main and the workers change without a lock, counts the open
\* connections and those whose close_conn is under way, whoever closes them and however
\* that overlaps with what the others do.
CountIsOpen ==
  \/ reused \/ torn
  \/ m_user_count = Cardinality(open) + Cardinality({w \in Workers : Closing(w)}) - (IF main = "count" THEN 1 ELSE 0)

\* The one-shot event of a connection always comes back: what a client has sent
\* is read, or its connection closed, as long as the pool's list has a place for
\* every connection.
EachIsHeard ==
  \A fd \in Fds : (fd \in open /\ inq[fd] # <<>>) ~> (fd \notin open \/ inq[fd] = <<>> \/ reused)
=============================================================================
