--------------------------- MODULE MCEventServers ---------------------------
(* The server that closes idle connections, the server on select, the loop of 10-1 *)
(* that gets its signals through a pipe, and the servers around epoll.  which,    *)
(* chosen in Init, says whose behaviour it is; the others' variables stay as they *)
(* are at first, where nothing that the fairness asks for is enabled.             *)
(*                                                                                *)
(* Idle: two connections and two timers, so that descriptors and timers are both  *)
(* used again.  Select: three descriptors, of which the table holds two.          *)
(* Unievent: two signals, one that stops the server and one that does not, and a  *)
(* pipe of two.  Epoll: two threads, two descriptors, two clients, two texts.     *)
EXTENDS IdleConns
CONSTANTS SelectFds, FD_SETSIZE
CONSTANTS Signums, Stopping, Room, ToRead, MaxRaised, MaxCame
CONSTANTS Threads, EpollFds, MaxEpollCame, MaxTexts

\* SelectServer: accept gives descriptors above listenfd.  Unievent: one recv takes as
\* many signals as the socket pair holds.
ASSUME LoopsAssumption ==
  /\ SelectFds \subseteq Nat \ (0 .. 3) /\ FD_SETSIZE \in Nat
  /\ Room \in Nat /\ ToRead \in Nat /\ Room <= ToRead

VARIABLES select_at, select_i, maxi, client, allset, rset, maxfd, nready, connfd,
          select_backlog, select_input, select_ended
VARIABLES sig_loop, sig_events, pending, pipe, edges, sig_backlog, sig_stop, raised, came
VARIABLES epoll_kind, epoll_pc, job, arg, epoll_open, watched, armed, epoll_edge, epoll_backlog, accepted,
          epoll_came, epoll_input, epoll_ended, broken, echoed, texts, spoilt
VARIABLE which

Select == INSTANCE SelectServer WITH
  Fds <- SelectFds, at <- select_at, i <- select_i, backlog <- select_backlog,
  input <- select_input, ended <- select_ended
Loop == INSTANCE Unievent WITH
  loop <- sig_loop, events <- sig_events, backlog <- sig_backlog, stop_server <- sig_stop
Epoll == INSTANCE EpollServers WITH
  Fds <- EpollFds, MaxCame <- MaxEpollCame, kind <- epoll_kind, pc <- epoll_pc, open <- epoll_open, edge <- epoll_edge,
  backlog <- epoll_backlog, came <- epoll_came, input <- epoll_input, ended <- epoll_ended

selectvars == <<select_at, select_i, maxi, client, allset, rset, maxfd, nready, connfd,
                select_backlog, select_input, select_ended>>
loopvars == <<sig_loop, sig_events, pending, pipe, edges, sig_backlog, sig_stop, raised, came>>
epollvars == <<epoll_kind, epoll_pc, job, arg, epoll_open, watched, armed, epoll_edge, epoll_backlog, accepted,
               epoll_came, epoll_input, epoll_ended, broken, echoed, texts, spoilt>>

MCInit ==
  /\ which \in {"idle", "select", "loop", "epoll"}
  /\ Init /\ Select!Init /\ Loop!Init
  /\ Epoll!Init /\ (which # "epoll" => epoll_kind = "level")

MCNext ==
  \/ which = "idle" /\ Next /\ UNCHANGED <<selectvars, loopvars, epollvars, which>>
  \/ which = "select" /\ Select!Next /\ UNCHANGED <<vars, loopvars, epollvars, which>>
  \/ which = "loop" /\ Loop!Next /\ UNCHANGED <<vars, selectvars, epollvars, which>>
  \/ which = "epoll" /\ Epoll!Next /\ UNCHANGED <<vars, selectvars, loopvars, which>>

MCSpec ==
  /\ MCInit /\ [][MCNext]_<<vars, selectvars, loopvars, epollvars, which>>
  /\ WF_vars(which = "idle" /\ Server) /\ WF_vars(which = "idle" /\ TimePasses)
  /\ WF_vars(which = "idle" /\ AlarmRings)
  /\ \A a \in Epoll!Actors : WF_epollvars(which = "epoll" /\ Epoll!Works(a))
  /\ WF_epollvars(which = "epoll" /\ \E a \in Epoll!Actors : Epoll!Takes(a))

\* Nothing that has happened is forgotten before it was looked at: SelectServer's
\* ReadyAreLookedAt, Unievent's NoSignalLeftBehind.
NobodyLeftBehind == Select!ReadyAreLookedAt /\ Loop!NoSignalLeftBehind

\* What is readable is read: EpollServers' EachIsServed.
EachIsServed == Epoll!EachIsServed
=============================================================================
