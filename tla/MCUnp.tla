-------------------------------- MODULE MCUnp --------------------------------
(* serv08, the servers that make a process or a thread for every connection, and *)
(* the clients that echo.  which, chosen in Init, says whose behaviour it is; the *)
(* others' variables stay as they are at first, where nothing that the fairness   *)
(* asks for is enabled.                                                           *)
(*                                                                                *)
(* serv08: two threads and a ring of three slots: three connections fill it while *)
(* the threads are busy, and the fourth makes the indexes wrap.  PerConnection:   *)
(* two clients.  EchoClient: buffers of two, and enough typed to fill all that is *)
(* between stdin and stdout.                                                      *)
EXTENDS Serv08, TLC
CONSTANTS t1, t2, c1, c2, c3, c4, none
CONSTANTS Clients, MAXLINE, Room, MaxTyped

\* EchoClient: the size of its buffers.
ASSUME EchoAssumption == MAXLINE \in Nat

VARIABLES kind, at, conn_fd, open, worker, sigchld, leaked, nofd, client, request, reply, clients_waited, trouble
VARIABLES echo_kind, echo_pc, shower, ready, stdineof, toiptr, tooptr, friptr, froptr, typed, eof, total,
          fin, up, server, down, echo, died, shown, end
VARIABLE which

MCThreads == {t1, t2}
MCConns == {c1, c2, c3, c4}
MCErrors == {c2}

PerConn == INSTANCE PerConnection WITH connfd <- conn_fd
Echo == INSTANCE EchoClient WITH kind <- echo_kind, pc <- echo_pc

connvars == <<kind, at, conn_fd, open, worker, sigchld, leaked, nofd, client, request, reply, clients_waited, trouble>>
echovars == <<echo_kind, echo_pc, shower, ready, stdineof, toiptr, tooptr, friptr, froptr, typed, eof, total,
              fin, up, server, down, echo, died, shown, end>>

MCInit ==
  /\ which \in {"serv08", "perconn", "echo"}
  /\ Init
  /\ PerConn!Init /\ (which # "perconn" => kind = "serv00")
  /\ Echo!Init /\ (which # "echo" => echo_kind = "nonb")

MCNext ==
  \/ which = "serv08" /\ Next /\ UNCHANGED <<connvars, echovars, which>>
  \/ which = "perconn" /\ PerConn!Next /\ UNCHANGED <<vars, echovars, which>>
  \/ which = "echo" /\ Echo!Next /\ UNCHANGED <<vars, connvars, which>>

MCSpec ==
  /\ MCInit /\ [][MCNext]_<<vars, connvars, echovars, which>>
  /\ WF_vars(which = "serv08" /\ MainStep)
  /\ \A t \in Threads : WF_vars(which = "serv08" /\ ThreadStep(t))
  /\ WF_connvars(which = "perconn" /\ PerConn!Main)
  /\ WF_connvars(which = "perconn" /\ PerConn!Handles)
  /\ \A c \in Clients :
        /\ WF_connvars(which = "perconn" /\ PerConn!ServedBy(c))
        /\ WF_connvars(which = "perconn" /\ PerConn!Client(c))
  /\ WF_echovars(which = "echo" /\ Echo!Server)
  /\ WF_echovars(which = "echo" /\ Echo!Sender)
  /\ WF_echovars(which = "echo" /\ Echo!Shower)
  /\ SF_echovars(which = "echo" /\ Echo!Shows)
  /\ SF_echovars(which = "echo" /\ Echo!Takes)

\* What the ends of PerConnection and EchoClient leave behind: PerConnection's
\* KeepsNothing, EchoClient's NothingDropped.
NothingKept == PerConn!KeepsNothing /\ Echo!NothingDropped

\* Whoever asks is answered: PerConnection's EachIsAnswered, EchoClient's EchoEnds.
EachIsAnswered == PerConn!EachIsAnswered /\ Echo!EchoEnds
=============================================================================
