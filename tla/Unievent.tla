------------------------------ MODULE Unievent ------------------------------
(***************************************************************************)
(* HP/10/10-1unievent.cpp: signals become events of the one loop.  The     *)
(* handler writes the signal's number into a socket pair whose other end   *)
(* is watched edge-triggered; the loop reads it once for each event.       *)
(***************************************************************************)
EXTENDS Naturals, Sequences, FiniteSets, SequencesExt

CONSTANTS
  Signums,   \* signals that are handled
  Stopping,  \* those of them that end the loop: SIGTERM and SIGINT
  Room,      \* signals that the socket pair holds: some hundreds
  ToRead,    \* bytes that one recv takes: 1024
  MaxRaised, MaxCame  \* bounds: signals, clients

VARIABLES
  loop,      \* "start", "wait", "events" or "exit"
  events,    \* what is left of epoll_wait's answer, in its order
  pending,   \* raised signals whose handlers have not run yet
  pipe,      \* what the handlers have written
  edges,     \* whom epoll has to tell of: subset of {"listenfd", "pipefd"}
  backlog,   \* clients that wait
  stop_server,
  raised, came  \* bounds: so far

vars == <<loop, events, pending, pipe, edges, backlog, stop_server, raised, came>>

Init ==
  /\ loop = "start" /\ events = <<>> /\ pending = {} /\ pipe = <<>> /\ edges = {}
  /\ backlog = 0 /\ stop_server = FALSE /\ raised = 0 /\ came = 0

\* Listening, registered, and with the handlers installed; or the program ends.
Start ==
  /\ loop = "start"
  /\ loop' \in {"wait", "exit"}
  /\ UNCHANGED <<events, pending, pipe, edges, backlog, stop_server, raised, came>>

-----------------------------------------------------------------------------
(* Clients and signals, at any time. *)

Connect ==
  /\ loop # "exit" /\ came < MaxCame
  /\ came' = came + 1 /\ backlog' = backlog + 1 /\ edges' = edges \union {"listenfd"}
  /\ UNCHANGED <<loop, events, pending, pipe, stop_server, raised>>

\* One that is already pending is raised only once.
Raise(sig) ==
  /\ loop \in {"wait", "events"} /\ raised < MaxRaised
  /\ raised' = raised + 1 /\ pending' = pending \union {sig}
  /\ UNCHANGED <<loop, events, pipe, edges, backlog, stop_server, came>>

\* A full pipe loses the signal.
Handler(sig) ==
  /\ loop \in {"wait", "events"} /\ sig \in pending
  /\ pending' = pending \ {sig}
  /\ IF Len(pipe) < Room
     THEN pipe' = Append(pipe, sig) /\ edges' = edges \union {"pipefd"}
     ELSE UNCHANGED <<pipe, edges>>
  /\ UNCHANGED <<loop, events, backlog, stop_server, raised, came>>

-----------------------------------------------------------------------------
(* The loop. *)

EpollWait ==
  /\ loop = "wait" /\ ~stop_server /\ edges # {}
  /\ \E batch \in SetToSeqs(edges) : events' = batch
  /\ edges' = {} /\ loop' = "events"
  /\ UNCHANGED <<pending, pipe, backlog, stop_server, raised, came>>

\* One client for each event: others wait for the next one to come.  Nobody reads
\* what the client writes, or closes its descriptor.
Accept ==
  /\ loop = "events" /\ events # <<>> /\ Head(events) = "listenfd"
  /\ backlog' = IF backlog = 0 THEN 0 ELSE backlog - 1
  /\ events' = Tail(events)
  /\ UNCHANGED <<loop, pending, pipe, edges, stop_server, raised, came>>

\* Mutant of ReadSignals: the first signal only.
ReadSignal ==
  /\ loop = "events" /\ events # <<>> /\ Head(events) = "pipefd" /\ pipe # <<>>
  /\ stop_server' = (stop_server \/ Head(pipe) \in Stopping)
  /\ pipe' = Tail(pipe) /\ events' = Tail(events)
  /\ UNCHANGED <<loop, pending, edges, backlog, raised, came>>

ReadSignals ==
  /\ loop = "events" /\ events # <<>> /\ Head(events) = "pipefd" /\ pipe # <<>>
  /\ LET k == IF Len(pipe) < ToRead THEN Len(pipe) ELSE ToRead
     IN /\ stop_server' = (stop_server \/ \E s \in 1 .. k : pipe[s] \in Stopping)
        /\ pipe' = SubSeq(pipe, k + 1, Len(pipe))
  /\ events' = Tail(events)
  /\ UNCHANGED <<loop, pending, edges, backlog, raised, came>>

\* Written before the last recv, told after it.
NothingRead ==
  /\ loop = "events" /\ events # <<>> /\ Head(events) = "pipefd" /\ pipe = <<>>
  /\ events' = Tail(events)
  /\ UNCHANGED <<loop, pending, pipe, edges, backlog, stop_server, raised, came>>

EventsEnd ==
  /\ loop = "events" /\ events = <<>>
  /\ loop' = IF stop_server THEN "exit" ELSE "wait"
  /\ UNCHANGED <<events, pending, pipe, edges, backlog, stop_server, raised, came>>

-----------------------------------------------------------------------------
Next ==
  \/ Start \/ Connect
  \/ \E sig \in Signums : Raise(sig) \/ Handler(sig)
  \/ EpollWait \/ Accept \/ ReadSignals \/ NothingRead \/ EventsEnd

Spec == Init /\ [][Next]_vars

-----------------------------------------------------------------------------
(* Properties. *)

\* Types.
TypeOK ==
  /\ loop \in {"start", "wait", "events", "exit"}
  /\ events \in Seq({"listenfd", "pipefd"}) /\ edges \subseteq {"listenfd", "pipefd"}
  /\ pending \subseteq Signums /\ pipe \in Seq(Signums) /\ Len(pipe) <= Room
  /\ stop_server \in BOOLEAN
  /\ backlog \in Nat /\ raised \in 0 .. MaxRaised /\ came \in 0 .. MaxCame

\* A signal in the pipe is still to be told of, although it is told of once: the loop
\* never sleeps on one.  (Of clients that is not so, when two come between two events.)
NoSignalLeftBehind ==
  pipe # <<>> => loop = "exit" \/ "pipefd" \in edges \/ \E k \in 1 .. Len(events) : events[k] = "pipefd"
=============================================================================
