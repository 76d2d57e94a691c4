---------------------------- MODULE EpollServers ----------------------------
(***************************************************************************)
(* Seven servers that read from their clients around epoll, which differ in  *)
(* how events are raised and taken (kind, chosen in Init):                 *)
(*   level    highperformenceserver/epoll/epoll_server_level_trigger.c     *)
(*   edge     highperformenceserver/epoll/epoll_server_edge_trigger.c      *)
(*   oneshot  highperformenceserver/epoll/epoll_server_edge_trigger_oneshot.c *)
(*   example  src/epoll/epoll-example-server.c                             *)
(*   mtlt     HP/9/9-3mtlt.cpp (main calls lt)                             *)
(*   worker   HP/9/9-4oneshot.cpp                                          *)
(*   multi    HP/9/9-8multi_port.cpp, without its datagrams                *)
(*                                                                         *)
(* In oneshot the Threads share the descriptors; in worker one is made for *)
(* an event; in the others there is only main.  A batch is taken event by  *)
(* event: what is in it nobody else can take.                              *)
(***************************************************************************)
EXTENDS Naturals, FiniteSets

CONSTANTS
  Threads,
  Fds,       \* the descriptors that accept gives
  MaxCame,   \* bound: clients that ever connect
  MaxTexts   \* bound: texts that clients ever send

Main == "main"
Actors == Threads \union {Main}
Listen == "listenfd"
NoFd == "none"

\* Of each server: whether an event for listenfd, and one for a client, comes again
\* as long as there is reason for it or once for each new reason, whether it must be
\* asked for after each time, and whether accept and read are called until EAGAIN.
Level == [listen |-> "level", client |-> "level", oneshot |-> FALSE, acceptsAll |-> FALSE, readsAll |-> FALSE]
Edge == [listen |-> "edge", client |-> "edge", oneshot |-> FALSE, acceptsAll |-> TRUE, readsAll |-> TRUE]
OneShot == [listen |-> "edge", client |-> "edge", oneshot |-> TRUE, acceptsAll |-> TRUE, readsAll |-> TRUE]
Example == [listen |-> "edge", client |-> "edge", oneshot |-> FALSE, acceptsAll |-> TRUE, readsAll |-> TRUE]
Mtlt == [listen |-> "edge", client |-> "level", oneshot |-> FALSE, acceptsAll |-> FALSE, readsAll |-> FALSE]
Worker == [listen |-> "edge", client |-> "edge", oneshot |-> TRUE, acceptsAll |-> FALSE, readsAll |-> TRUE]
Multi == [listen |-> "level", client |-> "level", oneshot |-> FALSE, acceptsAll |-> FALSE, readsAll |-> TRUE]

Servers ==
  [level |-> Level, edge |-> Edge, oneshot |-> OneShot, example |-> Example, mtlt |-> Mtlt, worker |-> Worker, multi |-> Multi]

VARIABLES
  kind,
  pc,       \* of each actor: "none", "wait", "start", "accept", "read", "send", "rearm" or "delete"
  job,      \* of each actor: the descriptor it is at
  arg,      \* worker: fds_for_new_worker
  open,     \* descriptors of clients
  watched,  \* descriptors in epoll ...
  armed,    \* ... that may raise an event ...
  edge,     \* ... and that have raised one since the last was taken
  backlog, accepted, came, \* clients that wait, that were accepted, that came
  input, ended, broken, \* of each client: texts not read; it has ended, was reset ...
  echoed,   \* ... was sent a text
  texts,    \* bound: so far
  spoilt    \* history: what the servers do not mend, see the property

server == Servers[kind]
peers == <<came, texts>>
sockets == <<open, backlog, accepted, input, ended, broken, echoed>>
epoll == <<watched, armed, edge>>
vars == <<kind, pc, job, arg, epoll, sockets, peers, spoilt>>

Init ==
  /\ kind \in DOMAIN Servers
  /\ pc = [a \in Actors |-> IF (a = Main) = (kind = "oneshot") THEN "none" ELSE "wait"]
  /\ job = [a \in Actors |-> NoFd] /\ arg = NoFd
  /\ open = {} /\ watched = {Listen} /\ armed = {Listen} /\ edge = {}
  /\ backlog = 0 /\ accepted = 0 /\ came = 0
  /\ input = [fd \in Fds |-> 0] /\ ended = {} /\ broken = {} /\ echoed = {}
  /\ texts = 0 /\ spoilt = FALSE

-----------------------------------------------------------------------------
(* epoll. *)

Trigger(fd) == IF fd = Listen THEN server.listen ELSE server.client
OneShotOf(fd) == server.oneshot /\ ~(kind = "worker" /\ fd = Listen)

Readable(fd) == IF fd = Listen THEN backlog > 0 ELSE input[fd] > 0 \/ fd \in ended \union broken

\* Something has happened to fd.
Raised(fd) == edge' = IF fd \in watched THEN edge \union {fd} ELSE edge

Ready(fd) == fd \in watched /\ fd \in armed /\ IF Trigger(fd) = "level" THEN Readable(fd) ELSE fd \in edge

\* EPOLL_CTL_ADD: what is there already is an event.
Add(fd) ==
  /\ watched' = watched \union {fd} /\ armed' = armed \union {fd}
  /\ edge' = IF Readable(fd) THEN edge \union {fd} ELSE edge \ {fd}

\* EPOLL_CTL_MOD likewise, and in vain for a descriptor that is not there.
Modify(fd) == IF fd \in watched THEN Add(fd) ELSE UNCHANGED <<watched, armed, edge>>

Removed(fd) == watched' = watched \ {fd} /\ armed' = armed \ {fd} /\ edge' = edge \ {fd}

-----------------------------------------------------------------------------
(* The clients. *)

Connect ==
  /\ came < MaxCame
  /\ came' = came + 1 /\ backlog' = backlog + 1
  /\ Raised(Listen)
  /\ UNCHANGED <<kind, pc, job, arg, watched, armed, open, accepted, input, ended, broken, echoed, texts, spoilt>>

Live(fd) == fd \in open /\ fd \notin ended \union broken

Sends(fd) ==
  /\ Live(fd) /\ texts < MaxTexts
  /\ texts' = texts + 1 /\ input' = [input EXCEPT ![fd] = @ + 1]
  /\ Raised(fd)
  /\ UNCHANGED <<kind, pc, job, arg, watched, armed, open, backlog, accepted, came, ended, broken, echoed, spoilt>>

\* The client's end, or a reset, with which the texts not read may be gone.
EndsAs(fd) ==
  /\ Live(fd)
  /\ \/ ended' = ended \union {fd} /\ UNCHANGED <<broken, input>>
     \/ /\ broken' = broken \union {fd} /\ UNCHANGED ended
        /\ input' \in {input, [input EXCEPT ![fd] = 0]}
  /\ Raised(fd)
  /\ UNCHANGED <<kind, pc, job, arg, watched, armed, open, backlog, accepted, came, echoed, texts, spoilt>>

-----------------------------------------------------------------------------
(* The loops. *)

Goto(a, from, to) == pc[a] = from /\ pc' = [pc EXCEPT ![a] = to]

\* The event of fd is taken: it is spent.
Taken(fd) ==
  /\ edge' = edge \ {fd}
  /\ armed' = IF OneShotOf(fd) THEN armed \ {fd} ELSE armed
  /\ UNCHANGED watched

TakeListen(a) ==
  /\ Ready(Listen) /\ Goto(a, "wait", "accept")
  /\ job' = [job EXCEPT ![a] = Listen]
  /\ Taken(Listen)
  /\ UNCHANGED <<kind, arg, sockets, peers, spoilt>>

TakeClient(a, fd) ==
  /\ kind # "worker" /\ fd \in open /\ Ready(fd)
  /\ fd \in broken => kind \in {"mtlt", "multi"}
  /\ Goto(a, "wait", "read")
  /\ job' = [job EXCEPT ![a] = fd]
  /\ Taken(fd)
  /\ UNCHANGED <<kind, arg, sockets, peers, spoilt>>

\* 9-4 hands the descriptor to a new thread by the address of a variable of its own,
\* which it writes again for the next event.
TakeForWorker(a, fd) ==
  /\ kind = "worker" /\ pc[Main] = "wait" /\ fd \in open /\ Ready(fd)
  /\ a # Main /\ Goto(a, "none", "start")
  /\ job' = [job EXCEPT ![a] = fd]
  /\ arg' = fd
  /\ Taken(fd)
  /\ UNCHANGED <<kind, sockets, peers, spoilt>>

\* The new thread reads it: if it has been written again, nobody reads from the
\* descriptor the thread was made for.
WorkerStarts(a) ==
  /\ Goto(a, "start", "read")
  /\ job' = [job EXCEPT ![a] = arg]
  /\ spoilt' = (spoilt \/ arg # job[a])
  /\ UNCHANGED <<kind, arg, epoll, sockets, peers>>

Rests(a) == IF kind = "worker" /\ a # Main THEN "none" ELSE "wait"

\* accept, and the new descriptor into epoll.
Accepted(fd) ==
  /\ backlog > 0 /\ fd \in Fds \ open
  /\ backlog' = backlog - 1 /\ accepted' = accepted + 1
  /\ open' = open \union {fd}
  /\ Add(fd)
  /\ UNCHANGED <<input, ended, broken, echoed>>

AcceptOne(a, fd) ==
  /\ ~server.acceptsAll /\ Goto(a, "accept", "wait")
  /\ Accepted(fd)
  /\ UNCHANGED <<kind, job, arg, peers, spoilt>>

AcceptNext(a, fd) ==
  /\ server.acceptsAll /\ pc[a] = "accept"
  /\ Accepted(fd)
  /\ UNCHANGED <<kind, pc, job, arg, peers, spoilt>>

\* Mutant of AcceptNone: the event is not asked for again.
AcceptNoneSpent(a) ==
  /\ backlog = 0 /\ Goto(a, "accept", "wait")
  /\ UNCHANGED <<kind, job, arg, epoll, sockets, peers, spoilt>>

\* EAGAIN; one-shot, the event has to be asked for again.
AcceptNone(a) ==
  /\ backlog = 0 /\ Goto(a, "accept", IF kind = "oneshot" THEN "rearm" ELSE "wait")
  /\ UNCHANGED <<kind, job, arg, epoll, sockets, peers, spoilt>>

\* Another error: with an edge nobody accepts until the next client comes, and one-shot
\* never; with a level the call is made again, and may fail again.
AcceptFails(a) ==
  /\ Goto(a, "accept", "wait")
  /\ spoilt' = TRUE
  /\ UNCHANGED <<kind, job, arg, epoll, sockets, peers>>

ReadOne(a) ==
  /\ ~server.readsAll /\ job[a] \in open /\ input[job[a]] > 0
  /\ Goto(a, "read", "wait")
  /\ input' = [input EXCEPT ![job[a]] = @ - 1]
  /\ UNCHANGED <<kind, job, arg, epoll, open, backlog, accepted, ended, broken, echoed, peers, spoilt>>

ReadNext(a) ==
  /\ server.readsAll /\ job[a] \in open /\ input[job[a]] > 0
  /\ Goto(a, "read", IF kind = "multi" THEN "send" ELSE "read")
  /\ input' = [input EXCEPT ![job[a]] = @ - 1]
  /\ UNCHANGED <<kind, job, arg, epoll, open, backlog, accepted, ended, broken, echoed, peers, spoilt>>

\* 9-8 sends what it has read; whether that fails it does not ask ...
Echo(a) ==
  /\ Goto(a, "send", "read")
  /\ echoed' = echoed \union {job[a]}
  /\ UNCHANGED <<kind, job, arg, epoll, open, backlog, accepted, input, ended, broken, peers, spoilt>>

\* ... but a second text for a client that has gone raises SIGPIPE, and ends the server.
EchoKills(a) ==
  /\ pc[a] = "send" /\ job[a] \in echoed /\ job[a] \in ended \union broken
  /\ pc' = [b \in Actors |-> "none"]
  /\ spoilt' = TRUE
  /\ UNCHANGED <<kind, job, arg, epoll, sockets, peers>>

\* EAGAIN; one-shot, the event has to be asked for again.
ReadNone(a) ==
  /\ job[a] \in open /\ ~Readable(job[a])
  /\ Goto(a, "read", IF kind \in {"oneshot", "worker"} THEN "rearm" ELSE "wait")
  /\ UNCHANGED <<kind, job, arg, epoll, sockets, peers, spoilt>>

\* EPOLL_CTL_MOD: what has come since EAGAIN is an event at once.
Rearms(a) ==
  /\ Goto(a, "rearm", Rests(a))
  /\ Modify(job[a])
  /\ UNCHANGED <<kind, job, arg, sockets, peers, spoilt>>

\* close takes the descriptor out of epoll.
Closed(fd) ==
  /\ open' = open \ {fd} /\ input' = [input EXCEPT ![fd] = 0]
  /\ ended' = ended \ {fd} /\ broken' = broken \ {fd} /\ echoed' = echoed \ {fd}
  /\ Removed(fd)
  /\ UNCHANGED <<backlog, accepted>>

\* level: a reset that is found in reading is left for EPOLLERR.
ReadFails(a) ==
  /\ kind = "level" /\ pc[a] = "read" /\ job[a] \in broken /\ input[job[a]] = 0
  /\ pc' = [pc EXCEPT ![a] = "wait"]
  /\ UNCHANGED <<kind, job, arg, epoll, sockets, peers, spoilt>>

\* The end of the client, or the reset.
ReadEnds(a) ==
  /\ pc[a] = "read" /\ job[a] \in open /\ input[job[a]] = 0
  /\ job[a] \in ended \/ (job[a] \in broken /\ kind # "level")
  /\ pc' = [pc EXCEPT ![a] = Rests(a)]
  /\ Closed(job[a])
  /\ UNCHANGED <<kind, job, arg, peers, spoilt>>

\* EPOLLERR: close, and then EPOLL_CTL_DEL, which is in vain ...
CloseBroken(a, fd) ==
  /\ kind \in {"level", "edge", "oneshot", "example"} /\ fd \in open \intersect broken /\ Ready(fd)
  /\ Goto(a, "wait", IF kind = "example" THEN "wait" ELSE "delete")
  /\ job' = [job EXCEPT ![a] = fd]
  /\ Closed(fd)
  /\ UNCHANGED <<kind, arg, peers, spoilt>>

\* ... if another thread has not been given the descriptor in between.
Deletes(a) ==
  /\ Goto(a, "delete", "wait")
  /\ Removed(job[a])
  /\ spoilt' = (spoilt \/ job[a] \in watched)
  /\ UNCHANGED <<kind, job, arg, sockets, peers>>

-----------------------------------------------------------------------------
Takes(a) == TakeListen(a) \/ \E fd \in Fds : TakeClient(a, fd) \/ TakeForWorker(a, fd) \/ CloseBroken(a, fd)

Works(a) ==
  \/ WorkerStarts(a) \/ AcceptNone(a) \/ ReadOne(a) \/ ReadNext(a) \/ Echo(a) \/ ReadNone(a) \/ Rearms(a)
  \/ ReadFails(a) \/ ReadEnds(a) \/ Deletes(a)
  \/ \E fd \in Fds : AcceptOne(a, fd) \/ AcceptNext(a, fd)

Next ==
  \/ Connect
  \/ \E fd \in Fds : Sends(fd) \/ EndsAs(fd)
  \/ \E a \in Actors : Takes(a) \/ Works(a) \/ AcceptFails(a) \/ EchoKills(a)

Spec == Init /\ [][Next]_vars

\* A thread goes on with what it has taken, and somebody who waits while there is an
\* event takes one: there are only so many.
FairSpec ==
  /\ Spec
  /\ \A a \in Actors : WF_vars(Works(a))
  /\ WF_vars(\E a \in Actors : Takes(a))

-----------------------------------------------------------------------------
(* Properties. *)

\* Types.
TypeOK ==
  /\ kind \in DOMAIN Servers /\ pc \in [Actors -> {"none", "wait", "start", "accept", "read", "send", "rearm", "delete"}]
  /\ job \in [Actors -> Fds \union {Listen, NoFd}] /\ arg \in Fds \union {NoFd}
  /\ open \subseteq Fds /\ watched \subseteq Fds \union {Listen} /\ armed \subseteq watched /\ edge \subseteq watched
  /\ backlog \in Nat /\ accepted \in Nat /\ came \in Nat /\ input \in [Fds -> Nat]
  /\ ended \subseteq open /\ broken \subseteq open /\ echoed \subseteq open /\ texts \in Nat /\ spoilt \in BOOLEAN

\* "We must read whatever data is available completely, as we are running in
\* edge-triggered mode and won't get a notification again" (epoll-example-server.c:209):
\* what a client sends is read and its end noticed, whatever comes while its event
\* is being handled, between EAGAIN and EPOLL_CTL_MOD too; and whoever waits is
\* accepted, except by the two that call accept once for an edge.  What spoils it:
\* accept has failed; a descriptor was removed for its predecessor (oneshot); a thread
\* has read another's argument (worker); SIGPIPE has ended the server (multi).
EachIsServed ==
  /\ \A fd \in Fds : (fd \in open /\ Readable(fd)) ~> (spoilt \/ fd \notin open \/ ~Readable(fd))
  /\ \A k \in 0 .. MaxCame - 1 :
       (backlog > 0 /\ accepted = k /\ kind \notin {"mtlt", "worker"}) ~> (spoilt \/ accepted > k)
=============================================================================
