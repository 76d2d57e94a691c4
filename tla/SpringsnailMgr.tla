--------------------------- MODULE SpringsnailMgr ---------------------------
(***************************************************************************)
(* springsnail/mgr.cpp with the event loop of processpool::run_child: the  *)
(* child's pool of connections to its server.  Each conn object moves      *)
(* between three maps, m_conns (idle), m_used (bound to a client, under    *)
(* both descriptors) and m_freed (closed, to be connected again).          *)
(*                                                                         *)
(* Descriptors are small numbers that the kernel hands out lowest first    *)
(* and hands out again once closed.  What a session does with its bytes is *)
(* SpringsnailRelay's matter: here handling an event of a descriptor just  *)
(* may or may not find that an end has closed.                             *)
(***************************************************************************)
EXTENDS Integers, Sequences, FiniteSets

CONSTANTS
  Conns,             \* the conn objects, m_conncnt of them
  NFD,               \* bound: descriptors the process may have for sessions, more
                     \* than two for each conn
  MAX_EVENT_NUMBER,  \* events one epoll_wait returns at most
  NULL               \* a null conn*

Fds == 1 .. NFD
Pipe == 0            \* pipefd_read, the pipe from the parent
NoFd == -1

VARIABLES
  openfds,         \* the process's open descriptors (clients' and server's)
  registered,      \* those in epoll
  m_cltfd, m_srvfd, m_srv_closed,  \* of each conn
  m_conns, m_used, m_freed,        \* the maps
  batch            \* the events epoll_wait returned and not yet handled

maps == <<m_conns, m_used, m_freed>>
fields == <<m_cltfd, m_srvfd, m_srv_closed>>
vars == <<openfds, registered, fields, maps, batch>>

-----------------------------------------------------------------------------
(* std::map<int, conn*> as a function on the keys present. *)

EmptyMap == [k \in {} |-> NULL]

\* insert keeps the entry that is already there.
Insert(m, k, c) == [x \in DOMAIN m \union {k} |-> IF x \in DOMAIN m THEN m[x] ELSE c]

Erase(m, k) == [x \in DOMAIN m \ {k} |-> m[x]]

\* operator[] makes a null entry for a key that is not there.
Lookup(m, k) == IF k \in DOMAIN m THEN m[k] ELSE NULL

\* How many members of T, a set of numbers, are below x.
Rank(x, T) == Cardinality({y \in T : y < x})

\* The descriptors the kernel gives to the members of S, a set of numbers, in
\* their order, when those in used are taken: the i-th free one to the i-th.
LowestFree(S, used) ==
  [a \in S |-> CHOOSE f \in Fds \ used : Rank(f, Fds \ used) = Rank(a, S)]

-----------------------------------------------------------------------------
\* The constructor has tried to connect each conn; those it could not connect
\* do not exist (here: are in no map).
Init ==
  /\ \E n \in 0 .. Cardinality(Conns) :
       \E conn \in [1 .. n -> Conns] :
         /\ \A i, j \in 1 .. n : conn[i] = conn[j] => i = j
         /\ m_conns = [fd \in 1 .. n |-> conn[fd]]
         /\ m_srvfd = [c \in Conns |->
              IF \E fd \in 1 .. n : conn[fd] = c THEN CHOOSE fd \in 1 .. n : conn[fd] = c ELSE NoFd]
         /\ openfds = 1 .. n
  /\ registered = {}
  /\ m_cltfd = [c \in Conns |-> NoFd]
  /\ m_srv_closed = [c \in Conns |-> FALSE]
  /\ m_used = EmptyMap
  /\ m_freed = EmptyMap
  /\ batch = <<>>

\* epoll_wait: events of any of the registered descriptors and of the pipe, in
\* any order, each descriptor once.
EpollWait ==
  /\ batch = <<>>
  /\ \E n \in 1 .. MAX_EVENT_NUMBER :
       \E events \in [1 .. n -> registered \union {Pipe}] :
         /\ \A i, j \in 1 .. n : events[i] = events[j] => i = j
         /\ batch' = events
  /\ UNCHANGED <<openfds, registered, fields, maps>>

\* Mutant of Recycle: m_freed is not cleared.
RecycleNotCleared ==
  /\ batch = <<>>
  /\ m_freed # EmptyMap
  /\ \E ok \in SUBSET DOMAIN m_freed :
       LET fd == LowestFree(ok, openfds)
           again == {m_freed[k] : k \in ok}
           key(c) == CHOOSE k \in ok : m_freed[k] = c
       IN /\ m_srvfd' = [c \in Conns |-> IF c \in again THEN fd[key(c)] ELSE m_srvfd[c]]
          /\ m_conns' = [f \in DOMAIN m_conns \union {fd[k] : k \in ok} |->
               IF f \in DOMAIN m_conns THEN m_conns[f]
               ELSE m_freed[CHOOSE k \in ok : fd[k] = f]]
          /\ openfds' = openfds \union {fd[k] : k \in ok}
  /\ UNCHANGED <<registered, m_cltfd, m_srv_closed, m_used, m_freed, batch>>

\* recycle_conns, only when epoll_wait timed out with no event: each closed
\* connection is made again or, if the server does not answer, forgotten.
Recycle ==
  /\ batch = <<>>
  /\ m_freed # EmptyMap
  /\ \E ok \in SUBSET DOMAIN m_freed :
       LET fd == LowestFree(ok, openfds)
           again == {m_freed[k] : k \in ok}
           key(c) == CHOOSE k \in ok : m_freed[k] = c
       IN /\ m_srvfd' = [c \in Conns |-> IF c \in again THEN fd[key(c)] ELSE m_srvfd[c]]
          /\ m_conns' = [f \in DOMAIN m_conns \union {fd[k] : k \in ok} |->
               IF f \in DOMAIN m_conns THEN m_conns[f]
               ELSE m_freed[CHOOSE k \in ok : fd[k] = f]]
          /\ openfds' = openfds \union {fd[k] : k \in ok}
  /\ m_freed' = EmptyMap
  /\ UNCHANGED <<registered, m_cltfd, m_srv_closed, m_used, batch>>

-----------------------------------------------------------------------------
(* An event of the pipe: the parent says that a client waits. *)

Event(fd) == batch # <<>> /\ Head(batch) = fd /\ batch' = Tail(batch)

\* accept finds nobody (a sibling or an earlier call was first), or recv fails.
NothingToAccept ==
  /\ Event(Pipe)
  /\ UNCHANGED <<openfds, registered, fields, maps>>

NewFd == CHOOSE f \in Fds \ openfds : \A g \in Fds \ openfds : f <= g

\* pick_conn has no idle connection: the client is closed at once.
Refuse ==
  /\ Event(Pipe)
  /\ m_conns = EmptyMap
  /\ UNCHANGED <<openfds, registered, fields, maps>>

FirstKey(m) == CHOOSE k \in DOMAIN m : \A l \in DOMAIN m : k <= l

\* pick_conn and init_clt: the first idle connection is bound to the client
\* under both descriptors.
AcceptAndBind ==
  /\ Event(Pipe)
  /\ m_conns # EmptyMap
  /\ LET cltfd == NewFd
         srvfd == FirstKey(m_conns)
         c == m_conns[srvfd]
     IN /\ openfds' = openfds \union {cltfd}
        /\ registered' = registered \union {cltfd, srvfd}
        /\ m_conns' = Erase(m_conns, srvfd)
        /\ m_used' = Insert(Insert(m_used, cltfd, c), srvfd, c)
        /\ m_cltfd' = [m_cltfd EXCEPT ![c] = cltfd]
  /\ UNCHANGED <<m_srvfd, m_srv_closed, m_freed>>

-----------------------------------------------------------------------------
(* mgr::process *)

\* The descriptor has no session: its session ended earlier in the batch.
\* m_used[ fd ] leaves a null entry behind.
ProcessUnknown(fd) ==
  /\ Event(fd)
  /\ Lookup(m_used, fd) = NULL
  /\ m_used' = Insert(m_used, fd, NULL)
  /\ UNCHANGED <<openfds, registered, fields, m_conns, m_freed>>

\* Mutant of FreeConn: only the client's entry is erased.
FreeConnKeepSrv(c) ==
  /\ openfds' = openfds \ {m_cltfd[c], m_srvfd[c]}
  /\ registered' = registered \ {m_cltfd[c], m_srvfd[c]}
  /\ m_used' = Erase(m_used, m_cltfd[c])
  /\ m_freed' = Insert(m_freed, m_srvfd[c], c)
  /\ m_cltfd' = [m_cltfd EXCEPT ![c] = NoFd]
  /\ m_srv_closed' = [m_srv_closed EXCEPT ![c] = FALSE]
  /\ UNCHANGED <<m_srvfd, m_conns>>

\* Mutant of FreeConn: the client's descriptor is closed, the server's not.
FreeConnSrvOpen(c) ==
  /\ openfds' = openfds \ {m_cltfd[c]}
  /\ registered' = registered \ {m_cltfd[c], m_srvfd[c]}
  /\ m_used' = Erase(Erase(m_used, m_cltfd[c]), m_srvfd[c])
  /\ m_freed' = Insert(m_freed, m_srvfd[c], c)
  /\ m_cltfd' = [m_cltfd EXCEPT ![c] = NoFd]
  /\ m_srv_closed' = [m_srv_closed EXCEPT ![c] = FALSE]
  /\ UNCHANGED <<m_srvfd, m_conns>>

\* free_conn; reset leaves m_srvfd as it was.
FreeConn(c) ==
  /\ openfds' = openfds \ {m_cltfd[c], m_srvfd[c]}
  /\ registered' = registered \ {m_cltfd[c], m_srvfd[c]}
  /\ m_used' = Erase(Erase(m_used, m_cltfd[c]), m_srvfd[c])
  /\ m_freed' = Insert(m_freed, m_srvfd[c], c)
  /\ m_cltfd' = [m_cltfd EXCEPT ![c] = NoFd]
  /\ m_srv_closed' = [m_srv_closed EXCEPT ![c] = FALSE]
  /\ UNCHANGED <<m_srvfd, m_conns>>

\* An event of the client's descriptor: bytes are moved, unless the server's
\* end has closed.
ProcessClt(fd) ==
  /\ Event(fd)
  /\ LET c == Lookup(m_used, fd) IN c # NULL /\ m_cltfd[c] = fd /\ ~m_srv_closed[c]
  /\ UNCHANGED <<openfds, registered, fields, maps>>

\* The client has closed or failed, or the server's end had closed before.
ProcessCltEnds(fd) ==
  /\ Event(fd)
  /\ LET c == Lookup(m_used, fd) IN c # NULL /\ m_cltfd[c] = fd /\ FreeConn(c)

ProcessSrv(fd) ==
  /\ Event(fd)
  /\ LET c == Lookup(m_used, fd) IN c # NULL /\ m_cltfd[c] # fd /\ m_srvfd[c] = fd
  /\ UNCHANGED <<openfds, registered, fields, maps>>

\* The server has closed or failed: the session ends at the next event of the
\* client's descriptor.
ProcessSrvClosed(fd) ==
  /\ Event(fd)
  /\ LET c == Lookup(m_used, fd)
     IN /\ c # NULL /\ m_cltfd[c] # fd /\ m_srvfd[c] = fd
        /\ m_srv_closed' = [m_srv_closed EXCEPT ![c] = TRUE]
  /\ UNCHANGED <<openfds, registered, m_cltfd, m_srvfd, maps>>

Next ==
  \/ EpollWait
  \/ Recycle
  \/ NothingToAccept
  \/ Refuse
  \/ AcceptAndBind
  \/ \E fd \in Fds : ProcessUnknown(fd) \/ ProcessClt(fd) \/ ProcessCltEnds(fd)
                     \/ ProcessSrv(fd) \/ ProcessSrvClosed(fd)

Spec == Init /\ [][Next]_vars

-----------------------------------------------------------------------------
(* Properties. *)

IsMap(m, V) == DOMAIN m \subseteq Fds /\ m \in [DOMAIN m -> V]

\* Types; only m_used may hold a null pointer.
TypeOK ==
  /\ openfds \subseteq Fds
  /\ registered \subseteq openfds
  /\ m_cltfd \in [Conns -> Fds \union {NoFd}]
  /\ m_srvfd \in [Conns -> Fds \union {NoFd}]
  /\ m_srv_closed \in [Conns -> BOOLEAN]
  /\ IsMap(m_conns, Conns) /\ IsMap(m_used, Conns \union {NULL}) /\ IsMap(m_freed, Conns)
  /\ batch \in Seq(Fds \union {Pipe})

Bound(c) == m_cltfd[c] # NoFd

In(m, c) == \E k \in DOMAIN m : m[k] = c

\* A conn object is in one map at a time, idle or freed under one key, and is
\* in m_used only while it is bound (pick_conn, free_conn, recycle_conns).
OnePlace ==
  /\ \A c \in Conns : ~(In(m_conns, c) /\ In(m_freed, c))
                      /\ (In(m_conns, c) \/ In(m_freed, c) => ~Bound(c))
                      /\ (In(m_used, c) => Bound(c))
  /\ \A m \in {m_conns, m_freed} : \A k, l \in DOMAIN m : m[k] = m[l] => k = l

\* An entry of m_used leads from a descriptor to the session that has it: an
\* event is never handled for another client's session, even when the
\* descriptor has been closed and handed out again within the same batch.
UsedIsOwn ==
  \A fd \in DOMAIN m_used :
    m_used[fd] # NULL => fd \in openfds /\ fd \in {m_cltfd[m_used[fd]], m_srvfd[m_used[fd]]}

\* Every open descriptor is an idle connection's or one end of a session, and
\* the sessions' and idle connections' descriptors are open and all different:
\* none leaks, none is closed twice (closefd in free_conn and run_child).
NoFdLeak ==
  LET srv == {c \in Conns : Bound(c) \/ In(m_conns, c)}
      clt == {c \in Conns : Bound(c)}
  IN /\ openfds = {m_srvfd[c] : c \in srv} \union {m_cltfd[c] : c \in clt}
     /\ Cardinality(openfds) = Cardinality(srv) + Cardinality(clt)

\* pick_conn logs "bind client sock %d with server sock %d" (mgr.cpp 108):
\* a bound session is found under each of its two descriptors.
BoundIsFound ==
  \A c \in Conns : Bound(c) => Lookup(m_used, m_cltfd[c]) = c /\ Lookup(m_used, m_srvfd[c]) = c
=============================================================================
