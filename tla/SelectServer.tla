---------------------------- MODULE SelectServer ----------------------------
(***************************************************************************)
(* 6chp/tcpservselect01.c: an echo server of one thread around select.     *)
(* What is read is written back with a call that may wait for the client.  *)
(***************************************************************************)
EXTENDS Naturals, FiniteSets

CONSTANTS
  Fds,        \* the descriptors that accept gives
  FD_SETSIZE  \* the entries of client

Free == 0
Listenfd == 3

VARIABLES
  at,         \* "select", "accept", "clients", "exit", or "undefined" (FD_SET of -1)
  i, maxi,    \* the indices are one less in the program
  client,
  allset, rset, maxfd, nready,
  connfd,     \* accept's answer
  backlog,    \* clients that wait
  input, ended \* descriptors with something to read, and whose client has ended

sets == <<allset, rset, maxfd>>
table == <<client, maxi>>
peers == <<backlog, input, ended>>
vars == <<at, i, table, sets, nready, connfd, peers>>

Index == 1 .. FD_SETSIZE
Open == {client[k] : k \in Index} \ {Free}

Init ==
  /\ at = "select" /\ i = 0 /\ maxi = 0 /\ client = [k \in Index |-> Free]
  /\ allset = {Listenfd} /\ rset = {} /\ maxfd = Listenfd /\ nready = 0 /\ connfd = Free
  /\ backlog = 0 /\ input = {} /\ ended = {}

-----------------------------------------------------------------------------
(* The clients. *)

Connect ==
  /\ backlog + Cardinality(Open) < Cardinality(Fds)
  /\ backlog' = backlog + 1
  /\ UNCHANGED <<at, i, table, sets, nready, connfd, input, ended>>

Writes(fd) ==
  /\ fd \in Open \ (input \union ended)
  /\ input' = input \union {fd}
  /\ UNCHANGED <<at, i, table, sets, nready, connfd, backlog, ended>>

EndsAs(fd) ==
  /\ fd \in Open \ ended
  /\ ended' = ended \union {fd}
  /\ UNCHANGED <<at, i, table, sets, nready, connfd, backlog, input>>

-----------------------------------------------------------------------------
(* The server. *)

Select ==
  /\ at = "select"
  /\ rset' = {fd \in allset \intersect 0 .. maxfd : IF fd = Listenfd THEN backlog > 0 ELSE fd \in input \union ended}
  /\ rset' # {} /\ nready' = Cardinality(rset')
  /\ at' = IF Listenfd \in rset' THEN "accept" ELSE "clients"
  /\ i' = 1
  /\ UNCHANGED <<table, allset, maxfd, connfd, peers>>

\* The first free entry; without one the server exits.
Accept(fd) ==
  /\ at = "accept" /\ fd \in Fds \ Open
  /\ backlog' = backlog - 1 /\ connfd' = fd
  /\ IF \A k \in Index : client[k] # Free
     THEN at' = "exit" /\ UNCHANGED <<table, allset, maxfd, nready>>
     ELSE LET k == CHOOSE k \in Index : client[k] = Free /\ \A l \in 1 .. k - 1 : client[l] # Free
          IN /\ client' = [client EXCEPT ![k] = fd]
             /\ maxi' = IF k > maxi THEN k ELSE maxi
             /\ allset' = allset \union {fd}
             /\ maxfd' = IF fd > maxfd THEN fd ELSE maxfd
             /\ nready' = nready - 1
             /\ at' = IF nready = 1 THEN "select" ELSE "clients"
  /\ UNCHANGED <<i, rset, input, ended>>

\* The client has gone, or there are no more descriptors: -1 goes into the table, where
\* it is a free entry, and into the set.
AcceptFails ==
  /\ at = "accept"
  /\ at' = "undefined"
  /\ UNCHANGED <<i, table, sets, nready, connfd, peers>>

\* Mutant of Looked: the pass ends with one that is still to be looked at.
LookedEarly ==
  /\ nready' = nready - 1
  /\ IF nready <= 2 THEN at' = "select" /\ i' = 0 ELSE at' = at /\ i' = i + 1

\* One that was ready has been looked at.
Looked ==
  /\ nready' = nready - 1
  /\ IF nready = 1 THEN at' = "select" /\ i' = 0 ELSE at' = at /\ i' = i + 1

Ready == at = "clients" /\ i <= maxi /\ client[i] \in rset

\* What has been read goes back; that read failed is noticed by nobody.
Echo ==
  /\ Ready /\ client[i] \in input
  /\ input' = input \ {client[i]}
  /\ Looked
  /\ UNCHANGED <<table, sets, connfd, backlog, ended>>

ClientEnded ==
  /\ Ready /\ client[i] \in ended \ input
  /\ allset' = allset \ {client[i]}
  /\ client' = [client EXCEPT ![i] = Free]
  /\ ended' = ended \ {client[i]}
  /\ Looked
  /\ UNCHANGED <<maxi, rset, maxfd, connfd, backlog, input>>

NotReady ==
  /\ at = "clients" /\ i <= maxi /\ client[i] \notin rset
  /\ i' = i + 1
  /\ UNCHANGED <<at, table, sets, nready, connfd, peers>>

AllChecked ==
  /\ at = "clients" /\ i > maxi
  /\ at' = "select" /\ i' = 0
  /\ UNCHANGED <<table, sets, nready, connfd, peers>>

-----------------------------------------------------------------------------
Next ==
  \/ Connect \/ Select \/ AcceptFails \/ Echo \/ ClientEnded \/ NotReady \/ AllChecked
  \/ \E fd \in Fds : Writes(fd) \/ EndsAs(fd) \/ Accept(fd)

Spec == Init /\ [][Next]_vars

-----------------------------------------------------------------------------
(* Properties. *)

\* Types.
TypeOK ==
  /\ at \in {"select", "accept", "clients", "exit", "undefined"} /\ i \in Nat /\ maxi \in 0 .. FD_SETSIZE
  /\ client \in [Index -> Fds \union {Free}] /\ allset \subseteq Fds \union {Listenfd} /\ rset \subseteq Fds \union {Listenfd}
  /\ maxfd \in Fds \union {Listenfd} /\ nready \in Nat /\ connfd \in Fds \union {Free}
  /\ backlog \in Nat /\ input \subseteq Fds /\ ended \subseteq Fds

\* Counting nready down to leave the pass early never leaves a client that is ready
\* behind, a new one in a reused entry is not taken for one, and select is asked
\* about the clients in the table, each once, and about nobody else.
ReadyAreLookedAt ==
  at \in {"select", "accept", "clients"} =>
    /\ \A k, l \in Index : client[k] = client[l] /\ client[k] # Free => k = l
    /\ allset = Open \union {Listenfd} /\ \A fd \in allset : fd <= maxfd
    /\ \A k \in Index : client[k] # Free => k <= maxi
    /\ at = "clients" => nready = Cardinality({k \in i .. maxi : client[k] \in rset})
    /\ at = "select" => nready = 0
=============================================================================
