----------------------------- MODULE IdleConns -----------------------------
(***************************************************************************)
(* HP/11/11-3nonactive_conn.cpp: one process that reads from its clients   *)
(* and closes the ones it has not heard from for three time slots.         *)
(*                                                                         *)
(* Its timers are those of 11-2lst_timer.h, here by what SortTimerList is  *)
(* shown to keep: a tick fires those whose time has come.  Time is         *)
(* counted down, so that it need not end: left is how long a timer has to  *)
(* run.  Signals reach the loop through a pipe, and every descriptor is    *)
(* edge triggered: it is reported when something arrives, not as long as   *)
(* something is there.                                                     *)
(***************************************************************************)
EXTENDS Integers, FiniteSets

CONSTANTS
  NFds,      \* bound: connections open or waiting for accept at one time
  Timers,    \* the timers there may be at one time
  NULL,
  TIMESLOT,
  MaxData    \* bound: sends that wait in a socket

ASSUME ConnsAssumption ==
  /\ NFds \in Nat \ {0} /\ TIMESLOT \in Nat \ {0} /\ MaxData \in Nat
  /\ NULL \notin Nat \union Timers

Fds == 1 .. NFds
Listen == NFds + 1
Pipe == NFds + 2
Timeout == 3 * TIMESLOT

VARIABLES
  pc,            \* "wait", "batch", or "done" after the loop
  events,        \* what epoll_wait returned and the batch has yet to handle
  timeout, stop_server,
  ready,         \* edges epoll_wait has not reported
  backlog,
  sigs,          \* the signals in the pipe
  alarm,         \* time until SIGALRM, or NULL
  open,          \* the descriptors of connections
  data, end,     \* of each: sends that are there, and whether the peer has ended it
  timer,         \* users[fd].timer
  left,          \* of each timer: time left, or NULL if it is not allocated
  user_data,     \* of each timer: the connection it is for
  idle           \* history: how long since data was read, up to Timeout

timers == <<timer, left, user_data>>
loop == <<pc, events, timeout, stop_server>>
sockets == <<open, data, end, backlog>>
vars == <<loop, sockets, timers, ready, sigs, alarm, idle>>

Init ==
  /\ pc = "wait" /\ events = {} /\ timeout = FALSE /\ stop_server = FALSE
  /\ ready = {} /\ sigs = {} /\ backlog = 0
  /\ alarm = TIMESLOT
  /\ open = {}
  /\ data = [fd \in Fds |-> 0] /\ end = [fd \in Fds |-> FALSE]
  /\ timer = [fd \in Fds |-> NULL]
  /\ left = [t \in Timers |-> NULL]
  /\ user_data = [t \in Timers |-> NULL]
  /\ idle = [fd \in Fds |-> 0]

Allocated == {t \in Timers : left[t] # NULL}

-----------------------------------------------------------------------------
(* The peers, and time. *)

Connect ==
  /\ backlog + Cardinality(open) < NFds
  /\ backlog' = backlog + 1
  /\ ready' = ready \union {Listen}
  /\ UNCHANGED <<loop, open, data, end, timers, sigs, alarm, idle>>

PeerSends(fd) ==
  /\ fd \in open /\ ~end[fd] /\ data[fd] < MaxData
  /\ data' = [data EXCEPT ![fd] = @ + 1]
  /\ ready' = ready \union {fd}
  /\ UNCHANGED <<loop, open, end, backlog, timers, sigs, alarm, idle>>

\* It closes, and what it sent is still there, or it resets the connection.
PeerEnds(fd) ==
  /\ fd \in open /\ ~end[fd]
  /\ end' = [end EXCEPT ![fd] = TRUE]
  /\ \E n \in {0, data[fd]} : data' = [data EXCEPT ![fd] = n]
  /\ ready' = ready \union {fd}
  /\ UNCHANGED <<loop, open, backlog, timers, sigs, alarm, idle>>

Less(n) == IF n = NULL \/ n = 0 THEN n ELSE n - 1

TimePasses ==
  /\ pc # "done"
  /\ left' = [t \in Timers |-> Less(left[t])]
  /\ alarm' = Less(alarm)
  /\ idle' = [fd \in Fds |-> IF fd \in open /\ idle[fd] < Timeout THEN idle[fd] + 1 ELSE idle[fd]]
  /\ UNCHANGED <<loop, sockets, timer, user_data, ready, sigs>>

\* sig_handler writes the signal to the pipe.
Signal(sig) ==
  /\ pc # "done"
  /\ sigs' = sigs \union {sig}
  /\ ready' = ready \union {Pipe}
  /\ UNCHANGED <<loop, sockets, timers, idle>>

AlarmRings == alarm = 0 /\ alarm' = NULL /\ Signal("SIGALRM")

Terminate == "SIGTERM" \notin sigs /\ ~stop_server /\ Signal("SIGTERM") /\ UNCHANGED alarm

-----------------------------------------------------------------------------
(* The loop. *)

EpollWait ==
  /\ pc = "wait"
  /\ ready # {}
  /\ events' = ready /\ ready' = {}
  /\ pc' = "batch"
  /\ UNCHANGED <<timeout, stop_server, sockets, timers, sigs, alarm, idle>>

Handles(e) == pc = "batch" /\ e \in events /\ events' = events \ {e}

\* One accept, however many wait, which gives some number that is free.  What the
\* peer has sent meanwhile is an edge as soon as the descriptor is added.
Accept ==
  /\ Handles(Listen)
  /\ backlog > 0
  /\ backlog' = backlog - 1
  /\ \E connfd \in Fds \ open :
        /\ open' = open \union {connfd}
        /\ \E n \in 0 .. MaxData, ended \in BOOLEAN :
             /\ data' = [data EXCEPT ![connfd] = n]
             /\ end' = [end EXCEPT ![connfd] = ended]
             /\ ready' = IF n > 0 \/ ended THEN ready \union {connfd} ELSE ready
        /\ \E t \in Timers \ Allocated :
             /\ timer' = [timer EXCEPT ![connfd] = t]
             /\ left' = [left EXCEPT ![t] = Timeout]
             /\ user_data' = [user_data EXCEPT ![t] = connfd]
        /\ idle' = [idle EXCEPT ![connfd] = 0]
  /\ UNCHANGED <<pc, timeout, stop_server, sigs, alarm>>

\* cb_func: the descriptors are closed.
Closed(fds) ==
  /\ open' = open \ fds
  /\ data' = [fd \in Fds |-> IF fd \in fds THEN 0 ELSE data[fd]]
  /\ end' = [fd \in Fds |-> IF fd \in fds THEN FALSE ELSE end[fd]]
  /\ idle' = [fd \in Fds |-> IF fd \in fds THEN 0 ELSE idle[fd]]
  /\ ready' = ready \ fds

\* The pointers to them stay in users.
Deleted(ts) ==
  /\ left' = [t \in Timers |-> IF t \in ts THEN NULL ELSE left[t]]
  /\ user_data' = [t \in Timers |-> IF t \in ts THEN NULL ELSE user_data[t]]
  /\ UNCHANGED timer

\* timer_handler: the timers whose time has come fire and are deleted, and the
\* alarm is set again.
Tick ==
  LET fired == {t \in Allocated : left[t] = 0}
  IN /\ Closed({user_data[t] : t \in fired})
     /\ Deleted(fired)
     /\ alarm' = TIMESLOT
     /\ UNCHANGED backlog

\* Mutant of Signals: the timers run in the middle of the batch.
SignalsTickAtOnce ==
  /\ Handles(Pipe)
  /\ sigs' = {}
  /\ stop_server' = (stop_server \/ "SIGTERM" \in sigs)
  /\ IF "SIGALRM" \in sigs THEN Tick ELSE UNCHANGED <<sockets, timers, idle, alarm, ready>>
  /\ UNCHANGED <<pc, timeout>>

Signals ==
  /\ Handles(Pipe)
  /\ sigs' = {}
  /\ timeout' = (timeout \/ "SIGALRM" \in sigs)
  /\ stop_server' = (stop_server \/ "SIGTERM" \in sigs)
  /\ UNCHANGED <<pc, sockets, timers, ready, alarm, idle>>

\* Mutant of Read: the timer is not put off.
ReadNotPutOff(fd) ==
  /\ Handles(fd)
  /\ \E k \in 0 .. data[fd] - 1 : data' = [data EXCEPT ![fd] = k]
  /\ idle' = [idle EXCEPT ![fd] = 0]
  /\ UNCHANGED <<pc, timeout, stop_server, open, end, backlog, timers, ready, sigs, alarm>>

\* One recv, which takes what fits in BUFFER_SIZE - 1, of one send or of several.
Read(fd) ==
  /\ Handles(fd)
  /\ \E k \in 0 .. data[fd] - 1 : data' = [data EXCEPT ![fd] = k]
  /\ idle' = [idle EXCEPT ![fd] = 0]
  /\ left' = [left EXCEPT ![timer[fd]] = Timeout]
  /\ UNCHANGED <<pc, timeout, stop_server, open, end, backlog, timer, user_data, ready, sigs, alarm>>

\* EAGAIN: what the edge was for has been read with what was there before it.
ReadNothing(fd) ==
  /\ Handles(fd)
  /\ fd \in open /\ data[fd] = 0 /\ ~end[fd]
  /\ UNCHANGED <<pc, timeout, stop_server, sockets, timers, ready, sigs, alarm, idle>>

\* Mutant of ReadEnd: the timer outlives the connection.
ReadEndKeepsTimer(fd) ==
  /\ Handles(fd)
  /\ data[fd] = 0 /\ (end[fd] \/ fd \notin open)
  /\ Closed({fd})
  /\ UNCHANGED <<pc, timeout, stop_server, backlog, timers, sigs, alarm>>

\* An end of file or an error: cb_func, and the timer is deleted.
ReadEnd(fd) ==
  /\ Handles(fd)
  /\ data[fd] = 0 /\ (end[fd] \/ fd \notin open)
  /\ Closed({fd})
  /\ Deleted({timer[fd]})
  /\ UNCHANGED <<pc, timeout, stop_server, backlog, sigs, alarm>>

\* Mutant of BatchEnds: the alarm rings once.
BatchEndsNoAlarm ==
  /\ pc = "batch" /\ events = {}
  /\ IF timeout
     THEN LET fired == {t \in Allocated : left[t] = 0}
          IN Closed({user_data[t] : t \in fired}) /\ Deleted(fired) /\ UNCHANGED <<alarm, backlog>>
     ELSE UNCHANGED <<sockets, timers, ready, alarm, idle>>
  /\ timeout' = FALSE
  /\ pc' = IF stop_server THEN "done" ELSE "wait"
  /\ UNCHANGED <<events, stop_server, sigs>>

\* After the batch, the timers, if SIGALRM was in it.
BatchEnds ==
  /\ pc = "batch" /\ events = {}
  /\ IF timeout THEN Tick ELSE UNCHANGED <<sockets, timers, ready, alarm, idle>>
  /\ timeout' = FALSE
  /\ pc' = IF stop_server THEN "done" ELSE "wait"
  /\ UNCHANGED <<events, stop_server, sigs>>

Server ==
  \/ EpollWait \/ Accept \/ Signals \/ BatchEnds
  \/ \E fd \in Fds : Read(fd) \/ ReadNothing(fd) \/ ReadEnd(fd)

Peers == Connect \/ \E fd \in Fds : PeerSends(fd) \/ PeerEnds(fd)

Next == Server \/ Peers \/ TimePasses \/ AlarmRings \/ Terminate

Spec == Init /\ [][Next]_vars

\* The process is scheduled, time goes on and the alarm is delivered.  Nothing
\* is assumed of the peers.
LiveSpec == Spec /\ WF_vars(Server) /\ WF_vars(TimePasses) /\ WF_vars(AlarmRings)

-----------------------------------------------------------------------------
(* Properties. *)

\* Types.
TypeOK ==
  /\ pc \in {"wait", "batch", "done"}
  /\ pc # "batch" => events = {}
  /\ events \subseteq Fds \union {Listen, Pipe}
  /\ timeout \in BOOLEAN /\ stop_server \in BOOLEAN
  /\ ready \subseteq open \union {Listen, Pipe}
  /\ backlog \in Nat
  /\ sigs \subseteq {"SIGALRM", "SIGTERM"}
  /\ alarm \in 0 .. TIMESLOT \union {NULL}
  /\ open \subseteq Fds
  /\ data \in [Fds -> Nat] /\ end \in [Fds -> BOOLEAN]
  /\ timer \in [Fds -> Timers \union {NULL}]
  /\ left \in [Timers -> 0 .. Timeout \union {NULL}]
  /\ user_data \in [Timers -> Fds \union {NULL}]
  /\ idle \in [Fds -> 0 .. Timeout]

\* No timer is leaked, and none is used after it is freed: each connection
\* has a timer, which is its own, and every timer is that of a connection.  The
\* pointers that a firing timer leaves in users are never followed: the number
\* of a closed descriptor comes back with a timer of its own.
OneTimerEach ==
  /\ \A fd \in open : timer[fd] \in Allocated /\ user_data[timer[fd]] = fd
  /\ \A t \in Allocated : user_data[t] \in open /\ timer[user_data[t]] = t

\* A batch holds no event of a connection that has been closed since epoll_wait
\* returned, which recv would be called for (the timers wait until it is done, 223).
NoStaleEvent == events \intersect Fds \subseteq open

\* While the loop runs, the next SIGALRM is set, or on its way through the pipe,
\* and an edge of the pipe with it, or about to be acted upon.
AlarmGoesOn ==
  /\ pc # "done" => alarm # NULL \/ "SIGALRM" \in sigs \/ timeout
  /\ sigs # {} /\ pc # "done" => Pipe \in ready \union events

\* A connection is closed only if its peer has ended it or no data of it was
\* read for three time slots.
OnlyIdleAreClosed ==
  [][\A fd \in open : fd \in open' \/ end[fd] \/ idle[fd] = Timeout]_vars

\* No connection stays open without data being read from it again and again: not
\* if the peer is silent, nor if its end came with data that left it unread
\* behind the edge.
AbandonedAreClosed ==
  \A fd \in Fds : []<>(fd \notin open \/ idle[fd] = 0 \/ pc = "done")
=============================================================================
