---------------------------- MODULE PerConnection ----------------------------
(***************************************************************************)
(* Servers that make a process or a thread for every connection, or serve  *)
(* it themselves (kind, chosen in Init), and their clients: a child of     *)
(* 30chp/client.c, or 5chp/client.c, sends a request, reads the reply and  *)
(* closes.                                                                 *)
(*   serv00             30chp/serv00.c: one after the other                *)
(*   serv01             30chp/serv01.c: a process, nobody waits for it     *)
(*   serv06             30chp/serv06.c: a thread                           *)
(*   str_echo           26chp/v1 and v2, tcpserv01.c: a thread             *)
(*   v2, v3, do_it      5chp/v2, v3 and 5chp/server.c: a process, and no   *)
(*                      handler of SIGCHLD, one that waits once, and one   *)
(*                      that waits until none is left                      *)
(***************************************************************************)
EXTENDS FiniteSets

CONSTANTS Clients

Forks == {"serv01", "v2", "v3", "do_it"}
ThreadKinds == {"serv06", "str_echo"}
None == "none"

VARIABLES
  kind,
  at,       \* main: "start", "accept", "make", "serve", "stuck", "close" or "exit"
  connfd,   \* whom main has accepted last
  open,     \* the connections that are open in main's process
  worker,   \* of each connection: "none", "start", "read", "close", "zombie" or "gone"
  sigchld,  \* SIGCHLD is pending
  leaked,   \* history: connections nobody serves because no thread could be made
  nofd,     \* history: somebody serves the descriptor -1
  client,   \* of each: "off", "waits", "reads", "done" or "failed"
  request, reply, \* on its way: "no", "good", "bad"; TRUE
  clients_waited, \* client.c: the parent has ended
  trouble   \* history: a request was bad, a client left, a call failed

main == <<at, connfd, open>>
ends == <<client, request, reply>>
vars == <<kind, main, worker, sigchld, leaked, nofd, ends, clients_waited, trouble>>

Init ==
  /\ kind \in Forks \union ThreadKinds \union {"serv00"}
  /\ at = "start" /\ connfd = None /\ open = {} /\ leaked = {} /\ nofd = FALSE
  /\ worker = [c \in Clients |-> "none"] /\ sigchld = FALSE
  /\ client = [c \in Clients |-> "off"]
  /\ request = [c \in Clients |-> "no"] /\ reply = [c \in Clients |-> FALSE]
  /\ clients_waited = FALSE /\ trouble = FALSE

Alive(c) == worker[c] \in {"start", "read", "close"}

\* Some process has the connection open; threads share main's.
Connected(c) ==
  \/ client[c] = "waits" /\ c \notin open /\ worker[c] = "none"
  \/ c \in open
  \/ kind \in Forks /\ Alive(c)

-----------------------------------------------------------------------------
(* The clients. *)

Connect(c) ==
  /\ client[c] = "off" /\ at \notin {"start", "exit"}
  /\ client' = [client EXCEPT ![c] = "waits"]
  /\ UNCHANGED <<kind, main, worker, sigchld, leaked, nofd, request, reply, clients_waited, trouble>>

\* The connection is made before it is accepted, and so is the request sent.
Request(c) ==
  /\ client[c] = "waits" /\ request[c] = "no"
  /\ \E r \in {"good", "bad"} :
       /\ r = "bad" => kind \notin {"v2", "v3", "do_it"}
       /\ request' = [request EXCEPT ![c] = r] /\ trouble' = (trouble \/ r = "bad")
  /\ client' = [client EXCEPT ![c] = "reads"]
  /\ UNCHANGED <<kind, main, worker, sigchld, leaked, nofd, reply, clients_waited>>

\* readn, and close.
Reply(c) ==
  /\ client[c] = "reads" /\ reply[c]
  /\ client' = [client EXCEPT ![c] = "done"]
  /\ reply' = [reply EXCEPT ![c] = FALSE]
  /\ UNCHANGED <<kind, main, worker, sigchld, leaked, nofd, request, clients_waited, trouble>>

\* The end instead of the reply.
ReplyShort(c) ==
  /\ client[c] = "reads" /\ ~reply[c] /\ ~Connected(c) /\ (at = "exit" \/ worker[c] # "none")
  /\ client' = [client EXCEPT ![c] = "failed"]
  /\ UNCHANGED <<kind, main, worker, sigchld, leaked, nofd, request, reply, clients_waited, trouble>>

Leaves(c) ==
  /\ client[c] \in {"waits", "reads"}
  /\ client' = [client EXCEPT ![c] = "failed"] /\ trouble' = TRUE
  /\ UNCHANGED <<kind, main, worker, sigchld, leaked, nofd, request, reply, clients_waited>>

ClientsWaited ==
  /\ ~clients_waited /\ \A c \in Clients : client[c] \in {"done", "failed"}
  /\ clients_waited' = TRUE
  /\ UNCHANGED <<kind, main, worker, sigchld, leaked, nofd, ends, trouble>>

-----------------------------------------------------------------------------
(* main. *)

Listens ==
  /\ at = "start" /\ at' \in {"accept", "exit"}
  /\ UNCHANGED <<kind, connfd, open, worker, sigchld, leaked, nofd, ends, clients_waited, trouble>>

\* The first address of those that getaddrinfo gives that can be bound.
TcpListen == kind \in {"serv00", "serv01", "serv06", "str_echo"} /\ Listens

\* The only one.
Bind == kind \in {"v2", "v3", "do_it"} /\ Listens

Accept(c, next) ==
  /\ at = "accept" /\ client[c] # "off" /\ worker[c] = "none" /\ c \notin open \union leaked
  /\ connfd' = c /\ open' = open \union {c} /\ at' = next
  /\ worker' = [worker EXCEPT ![c] = "start"]
  /\ UNCHANGED <<kind, sigchld, leaked, nofd, ends, clients_waited, trouble>>

AcceptAndServe(c) == kind = "serv00" /\ Accept(c, "serve")
AcceptAndFork(c) == kind = "serv01" /\ Accept(c, "make")
AcceptAndMake(c) == kind = "serv06" /\ Accept(c, "make")
AcceptAndDoit(c) == kind = "str_echo" /\ Accept(c, "make")
AcceptAndForkDoIt(c) == kind \in {"v2", "v3", "do_it"} /\ Accept(c, "make")

Begins(next) ==
  /\ at = "make" /\ at' = next
  /\ worker' = [worker EXCEPT ![connfd] = "read"]
  /\ UNCHANGED <<kind, connfd, open, sigchld, leaked, nofd, ends, clients_waited, trouble>>

Fork == kind \in Forks /\ Begins("close")
PthreadCreate == kind \in ThreadKinds /\ Begins("accept")

\* serv01 takes the error for a pid: the connection is closed and the client served by nobody.
ForkFails ==
  /\ at = "make" /\ kind = "serv01"
  /\ at' = "close" /\ worker' = [worker EXCEPT ![connfd] = "gone"] /\ trouble' = TRUE
  /\ UNCHANGED <<kind, connfd, open, sigchld, leaked, nofd, ends, clients_waited>>

\* The server's end, and the end of its threads.
Exits ==
  /\ at' = "exit" /\ open' = {} /\ trouble' = TRUE
  /\ worker' = [c \in Clients |-> IF kind \in Forks /\ worker[c] \in {"read", "close"} THEN worker[c]
                                  ELSE IF worker[c] = "none" THEN "none" ELSE "gone"]
  /\ UNCHANGED <<kind, connfd, sigchld, leaked, nofd, clients_waited>>

\* accept fails: another error than EINTR ends the server ...
AcceptFailsExit ==
  /\ at = "accept" /\ kind \in Forks
  /\ Exits
  /\ UNCHANGED ends

\* ... or it serves the descriptor -1, itself or with a thread that it may have made ...
AcceptFails ==
  /\ at = "accept" /\ kind \notin Forks
  /\ at' = IF kind = "serv00" THEN "stuck" ELSE "accept"
  /\ nofd' \in IF kind = "serv00" THEN {TRUE} ELSE {nofd, TRUE}
  /\ trouble' = TRUE
  /\ UNCHANGED <<kind, connfd, open, worker, sigchld, leaked, ends, clients_waited>>

\* ... which ends it, unless what is left in line is a good request: then web_child
\* goes on for ever.
NoFdEndsAll ==
  /\ nofd /\ at # "exit"
  /\ Exits
  /\ UNCHANGED ends

ForkFailsExit ==
  /\ at = "make" /\ kind \in {"v2", "v3", "do_it"}
  /\ Exits
  /\ UNCHANGED ends

\* Nobody closes the connection.
ThreadFails ==
  /\ at = "make" /\ kind \in ThreadKinds
  /\ at' = "accept" /\ leaked' = leaked \union {connfd}
  /\ worker' = [worker EXCEPT ![connfd] = "gone"] /\ trouble' = TRUE
  /\ UNCHANGED <<kind, connfd, open, sigchld, nofd, ends, clients_waited>>

ParentCloses ==
  /\ at = "close" /\ kind \in Forks
  /\ at' = "accept" /\ open' = open \ {connfd}
  /\ UNCHANGED <<kind, connfd, worker, sigchld, leaked, nofd, ends, clients_waited, trouble>>

Zombies == {c \in Clients : worker[c] = "zombie"}

\* 5chp/v3: two that die before the handler runs are one signal.
WaitsOnce ==
  /\ sigchld /\ kind = "v3" /\ at # "exit"
  /\ \E c \in Zombies : worker' = [worker EXCEPT ![c] = "gone"]
  /\ sigchld' = FALSE
  /\ UNCHANGED <<kind, main, leaked, nofd, ends, clients_waited, trouble>>

\* Mutant of WaitsForAll: the handler of v3.
WaitsForOne ==
  /\ sigchld /\ kind = "do_it" /\ at # "exit"
  /\ \E c \in Zombies : worker' = [worker EXCEPT ![c] = "gone"]
  /\ sigchld' = FALSE
  /\ UNCHANGED <<kind, main, leaked, nofd, ends, clients_waited, trouble>>

WaitsForAll ==
  /\ sigchld /\ kind = "do_it" /\ at # "exit"
  /\ worker' = [c \in Clients |-> IF c \in Zombies THEN "gone" ELSE worker[c]]
  /\ sigchld' = FALSE
  /\ UNCHANGED <<kind, main, leaked, nofd, ends, clients_waited, trouble>>

-----------------------------------------------------------------------------
(* Who serves: main, a process or a thread. *)

Serves(c) == worker[c] = "read" \/ (at = "serve" /\ connfd = c /\ worker[c] = "start")

Answer(c, next) ==
  /\ Serves(c) /\ request[c] = "good"
  /\ request' = [request EXCEPT ![c] = "no"]
  /\ reply' = [reply EXCEPT ![c] = TRUE]
  /\ worker' = [worker EXCEPT ![c] = next]
  /\ UNCHANGED <<kind, main, sigchld, leaked, nofd, client, clients_waited, trouble>>

\* web_child and str_echo go on until the client's end; do_it answers once.
WebChild(c) == kind \in {"serv00", "serv01", "serv06"} /\ Answer(c, worker[c])
StrEcho(c) == kind = "str_echo" /\ Answer(c, worker[c])
DoIt(c) == kind \in {"v2", "v3", "do_it"} /\ Answer(c, "close")

AtEnd(c) == Serves(c) /\ request[c] = "no" /\ client[c] \in {"done", "failed"}

ReadsEnd(c) ==
  /\ AtEnd(c) /\ kind # "serv00"
  /\ worker' = [worker EXCEPT ![c] = "close"]
  /\ UNCHANGED <<kind, main, sigchld, leaked, nofd, ends, clients_waited, trouble>>

\* serv00 closes, and accepts the next.
ServeEnds(c) ==
  /\ AtEnd(c) /\ kind = "serv00"
  /\ at' = "accept" /\ open' = open \ {c}
  /\ worker' = [worker EXCEPT ![c] = "gone"]
  /\ UNCHANGED <<kind, connfd, sigchld, leaked, nofd, ends, clients_waited, trouble>>

Dies(c) == worker' = [worker EXCEPT ![c] = IF at = "exit" THEN "gone" ELSE "zombie"] /\ sigchld' = TRUE

ChildExits(c) ==
  /\ kind \in Forks /\ worker[c] = "close"
  /\ Dies(c)
  /\ UNCHANGED <<kind, main, leaked, nofd, ends, clients_waited, trouble>>

\* doit: the thread was detached, and leaves nothing.
DoitEnds(c) ==
  /\ kind \in ThreadKinds /\ worker[c] = "close"
  /\ open' = open \ {c}
  /\ worker' = [worker EXCEPT ![c] = "gone"]
  /\ UNCHANGED <<kind, at, connfd, sigchld, leaked, nofd, ends, clients_waited, trouble>>

\* A request that cannot be met, or an error in reading: exit, of a child ...
BadRequest(c) ==
  /\ kind = "serv01" /\ worker[c] = "read" /\ request[c] = "bad"
  /\ Dies(c) /\ request' = [request EXCEPT ![c] = "no"]
  /\ UNCHANGED <<kind, main, leaked, nofd, client, reply, clients_waited, trouble>>

\* ... or, of a thread, the end of them all.
BadRequestEndsAll(c) ==
  /\ kind \in ThreadKinds \union {"serv00"} /\ at # "exit" /\ Serves(c) /\ request[c] = "bad"
  /\ Exits /\ request' = [request EXCEPT ![c] = "no"]
  /\ UNCHANGED <<client, reply>>

-----------------------------------------------------------------------------
Accepts == \E c \in Clients : AcceptAndServe(c) \/ AcceptAndFork(c) \/ AcceptAndMake(c) \/ AcceptAndDoit(c) \/ AcceptAndForkDoIt(c)
Handles == WaitsOnce \/ WaitsForAll
Main == Accepts \/ Fork \/ PthreadCreate \/ ParentCloses

ServedBy(c) ==
  \/ WebChild(c) \/ StrEcho(c) \/ DoIt(c) \/ ReadsEnd(c) \/ ServeEnds(c) \/ ChildExits(c) \/ DoitEnds(c)
  \/ BadRequest(c) \/ BadRequestEndsAll(c)
Client(c) == Request(c) \/ Reply(c) \/ ReplyShort(c)

Next ==
  \/ TcpListen \/ Bind \/ Main \/ Handles \/ AcceptFailsExit \/ AcceptFails \/ NoFdEndsAll
  \/ ForkFails \/ ForkFailsExit \/ ThreadFails \/ ClientsWaited
  \/ \E c \in Clients : ServedBy(c) \/ Client(c) \/ Connect(c) \/ Leaves(c)

Spec == Init /\ [][Next]_vars

Fairness ==
  /\ WF_vars(Main) /\ WF_vars(Handles)
  /\ \A c \in Clients : WF_vars(ServedBy(c)) /\ WF_vars(Client(c))
FairSpec == Spec /\ Fairness

-----------------------------------------------------------------------------
(* Properties. *)

\* Types.
TypeOK ==
  /\ kind \in Forks \union ThreadKinds \union {"serv00"} /\ at \in {"start", "accept", "make", "serve", "stuck", "close", "exit"}
  /\ connfd \in Clients \union {None} /\ open \subseteq Clients /\ leaked \subseteq Clients /\ nofd \in BOOLEAN
  /\ worker \in [Clients -> {"none", "start", "read", "close", "zombie", "gone"}] /\ sigchld \in BOOLEAN
  /\ client \in [Clients -> {"off", "waits", "reads", "done", "failed"}]
  /\ request \in [Clients -> {"no", "good", "bad"}] /\ reply \in [Clients -> BOOLEAN]
  /\ clients_waited \in BOOLEAN /\ trouble \in BOOLEAN

\* In whatever order clients end, the server that waits for its children keeps no
\* zombie without a signal to come, and main's process keeps no connection that it
\* does not serve, except those a thread could not be made for.
KeepsNothing ==
  /\ kind = "do_it" /\ at # "exit" => (Zombies # {} => sigchld)
  /\ at = "accept" => open = leaked \union {c \in Clients : kind \in ThreadKinds /\ Alive(c)}

\* Whoever has sent a request is answered, whatever others do meanwhile, if nobody
\* sends what cannot be met, leaves, or cannot be served.
EachIsAnswered == \A c \in Clients : client[c] = "reads" ~> (client[c] = "done" \/ trouble)
=============================================================================
