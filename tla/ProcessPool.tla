----------------------------- MODULE ProcessPool -----------------------------
(***************************************************************************)
(* HP/15/15-1processpool.h, and 15-2pool_cgi.cpp, which is the same in one *)
(* file and with other signal handlers (cgi, chosen in Init).  The parent  *)
(* tells one child after the other, over its pipe, that a client waits,    *)
(* and the child accepts.                                                  *)
(*                                                                         *)
(* In 15-1 a signal is a byte in a pipe, in every process.  In the         *)
(* children of 15-2 the handler sets stop_child, which the loop tests      *)
(* before epoll_wait.  A child keeps its copies of the parent's ends of    *)
(* the pipes of the children made before it, and so do the programs it     *)
(* starts.  Descriptors are edge triggered, as in SpringsnailPool.         *)
(***************************************************************************)
EXTENDS Integers, FiniteSets

CONSTANTS
  N,           \* m_process_number, PROCESS_COUNT
  MaxClients,  \* bound: clients that ever connect
  MaxDeaths    \* bound: children killed, and forks failing, at all

Children == 0 .. N - 1

VARIABLES
  cgi,          \* 15-2
  parent,       \* "starting", "running", "exited" or "killed"
  m_stop,       \* the parent's m_stop, stop_server
  sigs,         \* signals in the parent's pipe
  m_pid,        \* of each child: its index for its pid, or -1
  counter,      \* sub_process_counter
  child,        \* "starting", "test", "enter", "wait", "batch", "zombie", "reaped" or "none"
  stop,         \* of each child: m_stop, stop_child
  term,         \* of each child of 15-1: SIGTERM is in its pipe
  note, edge,   \* notifications in each child's pipe, and the event of the pipe
  conns,        \* connections of each child
  progs,        \* CGI programs that each child has started
  waiting, arrival, \* the listening socket: clients, and its event
  arrived, deaths,  \* bounds: so far
  strays        \* history: a signal went to anything but a child of this parent

procs == <<parent, child>>
pipes == <<note, edge>>
socket == <<waiting, arrival, arrived>>
vars == <<cgi, procs, m_stop, sigs, m_pid, counter, stop, term, pipes, conns, progs, socket, deaths, strays>>

Looping == {"test", "enter", "wait", "batch"}
Alive(i) == child[i] \in Looping \union {"starting"}

\* A fork that fails ends the program in 15-1 (131); 15-2 goes on with pid -1 (265).
Init ==
  /\ cgi \in BOOLEAN
  /\ parent = "starting" /\ m_stop = FALSE /\ sigs = {} /\ counter = 0
  /\ \E failed \in SUBSET Children :
        /\ Cardinality(failed) <= (IF cgi THEN MaxDeaths ELSE 0)
        /\ deaths = Cardinality(failed)
        /\ m_pid = [i \in Children |-> IF i \in failed THEN -1 ELSE i]
        /\ child = [i \in Children |-> IF i \in failed THEN "none" ELSE "starting"]
  /\ stop = [i \in Children |-> FALSE] /\ term = [i \in Children |-> FALSE]
  /\ note = [i \in Children |-> 0] /\ edge = [i \in Children |-> FALSE]
  /\ conns = [i \in Children |-> 0] /\ progs = [i \in Children |-> 0]
  /\ waiting = 0 /\ arrival = FALSE /\ arrived = 0
  /\ strays = FALSE

-----------------------------------------------------------------------------
(* What happens when processes end. *)

\* Whether anybody could still write to the pipe of i: the parent, until it has
\* reaped i; the children made later, and their programs.
Held(par, pids, state, programs, i) ==
  \/ par \in {"starting", "running"} /\ (pids[i] # -1 \/ state[i] = "none")
  \/ \E j \in Children : j > i /\ (state[j] \in Looping \union {"starting"} \/ programs[j] > 0)

\* The end of a pipe is an event of its own.
Ends(par, pids, state, programs) ==
  edge' = [i \in Children |-> edge[i] \/ (Held(parent, m_pid, child, progs, i) /\ ~Held(par, pids, state, programs, i))]

\* The children in D end.
Died(D) ==
  /\ child' = [i \in Children |-> IF i \in D THEN "zombie" ELSE child[i]]
  /\ conns' = [i \in Children |-> IF i \in D THEN 0 ELSE conns[i]]
  /\ sigs' = IF parent = "running" /\ D # {} THEN sigs \union {"CHLD"} ELSE sigs

-----------------------------------------------------------------------------
(* From outside. *)

Connect ==
  /\ arrived < MaxClients
  /\ arrived' = arrived + 1
  /\ waiting' = waiting + 1 /\ arrival' = TRUE
  /\ UNCHANGED <<cgi, procs, m_stop, sigs, m_pid, counter, stop, term, pipes, conns, progs, deaths, strays>>

Kill(i) ==
  /\ Alive(i) /\ deaths < MaxDeaths
  /\ deaths' = deaths + 1
  /\ Died({i})
  /\ Ends(parent, m_pid, child', progs)
  /\ UNCHANGED <<cgi, parent, m_stop, m_pid, counter, stop, term, note, progs, socket, strays>>

\* SIGTERM to the parent, of which it dies before its handlers are there.
Terminate ==
  /\ parent \in {"starting", "running"}
  /\ IF parent = "running"
     THEN sigs' = sigs \union {"TERM"} /\ UNCHANGED <<parent, edge>>
     ELSE parent' = "killed" /\ Ends("killed", m_pid, child, progs) /\ UNCHANGED sigs
  /\ UNCHANGED <<cgi, child, m_stop, m_pid, counter, stop, term, note, conns, progs, socket, deaths, strays>>

\* The parent is killed.
ParentDies ==
  /\ parent = "running"
  /\ deaths < MaxDeaths /\ deaths' = deaths + 1
  /\ parent' = "killed"
  /\ Ends("killed", m_pid, child, progs)
  /\ UNCHANGED <<cgi, child, m_stop, sigs, m_pid, counter, stop, term, note, conns, progs, socket, strays>>

-----------------------------------------------------------------------------
(* A child: run_child. *)

ChildGoes(i, from, to) == child[i] = from /\ child' = [child EXCEPT ![i] = to]

ChildReady(i) ==
  /\ ChildGoes(i, "starting", "test")
  /\ UNCHANGED <<cgi, parent, m_stop, sigs, m_pid, counter, stop, term, pipes, conns, progs, socket, deaths, strays>>

\* while( !m_stop )
ChildTests(i) ==
  /\ ~stop[i]
  /\ ChildGoes(i, "test", "enter")
  /\ UNCHANGED <<cgi, parent, m_stop, sigs, m_pid, counter, stop, term, pipes, conns, progs, socket, deaths, strays>>

ChildExits(i) ==
  /\ child[i] = "test" /\ stop[i]
  /\ Died({i})
  /\ Ends(parent, m_pid, child', progs)
  /\ UNCHANGED <<cgi, parent, m_stop, m_pid, counter, stop, term, note, progs, socket, deaths, strays>>

\* epoll_wait blocks ...
ChildWaits(i) ==
  /\ ChildGoes(i, "enter", "wait")
  /\ UNCHANGED <<cgi, parent, m_stop, sigs, m_pid, counter, stop, term, pipes, conns, progs, socket, deaths, strays>>

\* ... and returns with what is there.  The connections have events when they like.
ChildWakes(i) ==
  /\ edge[i] \/ term[i] \/ conns[i] > 0
  /\ ChildGoes(i, "wait", "batch")
  /\ UNCHANGED <<cgi, parent, m_stop, sigs, m_pid, counter, stop, term, pipes, conns, progs, socket, deaths, strays>>

ChildGoesOn(i) ==
  /\ ChildGoes(i, "batch", "test")
  /\ UNCHANGED <<cgi, parent, m_stop, sigs, m_pid, counter, stop, term, pipes, conns, progs, socket, deaths, strays>>

\* One notification for one event, and one accept, which fails when nobody waits.
ChildAccepts(i) ==
  /\ child[i] = "batch" /\ edge[i] /\ note[i] > 0
  /\ edge' = [edge EXCEPT ![i] = FALSE]
  /\ note' = [note EXCEPT ![i] = @ - 1]
  /\ IF waiting > 0
     THEN waiting' = waiting - 1 /\ conns' = [conns EXCEPT ![i] = @ + 1]
     ELSE UNCHANGED <<waiting, conns>>
  /\ UNCHANGED <<cgi, procs, m_stop, sigs, m_pid, counter, stop, term, progs, arrival, arrived, deaths, strays>>

\* Mutant of PipeEnds: 15-2 goes on without its parent, as 15-1 does.
PipeEndsUnnoticed(i) ==
  /\ child[i] = "batch" /\ edge[i] /\ note[i] = 0
  /\ edge' = [edge EXCEPT ![i] = FALSE]
  /\ UNCHANGED <<cgi, procs, m_stop, sigs, m_pid, counter, stop, term, note, conns, progs, socket, deaths, strays>>

\* The end of the pipe: 15-1 goes on without its parent (205), 15-2 stops (139).
PipeEnds(i) ==
  /\ child[i] = "batch" /\ edge[i] /\ note[i] = 0
  /\ edge' = [edge EXCEPT ![i] = FALSE]
  /\ stop' = [stop EXCEPT ![i] = stop[i] \/ cgi]
  /\ UNCHANGED <<cgi, procs, m_stop, sigs, m_pid, counter, term, note, conns, progs, socket, deaths, strays>>

\* 15-1: SIGTERM is read from the pipe of signals.
ChildStops(i) ==
  /\ child[i] = "batch" /\ term[i]
  /\ term' = [term EXCEPT ![i] = FALSE]
  /\ stop' = [stop EXCEPT ![i] = TRUE]
  /\ UNCHANGED <<cgi, procs, m_stop, sigs, m_pid, counter, pipes, conns, progs, socket, deaths, strays>>

\* A connection ends: in 15-2 with a request for a program that is there, which
\* is started, or otherwise.
Serve(i) ==
  /\ child[i] = "batch" /\ conns[i] > 0
  /\ conns' = [conns EXCEPT ![i] = @ - 1]
  /\ \E n \in IF cgi THEN {0, 1} ELSE {0} : progs' = [progs EXCEPT ![i] = @ + n]
  /\ UNCHANGED <<cgi, procs, m_stop, sigs, m_pid, counter, stop, term, pipes, socket, deaths, strays>>

\* A program ends; its SIGCHLD takes the child that started it out of epoll_wait.
ProgramEnds(i) ==
  /\ progs[i] > 0
  /\ progs' = [progs EXCEPT ![i] = @ - 1]
  /\ child' = [child EXCEPT ![i] = IF @ = "wait" THEN "test" ELSE @]
  /\ Ends(parent, m_pid, child', progs')
  /\ UNCHANGED <<cgi, parent, m_stop, sigs, m_pid, counter, stop, term, note, conns, socket, deaths, strays>>

-----------------------------------------------------------------------------
(* The parent: run_parent, main of 15-2. *)

ParentReady ==
  /\ parent = "starting" /\ parent' = "running"
  /\ UNCHANGED <<cgi, child, m_stop, sigs, m_pid, counter, stop, term, pipes, conns, progs, socket, deaths, strays>>

Told(i) ==
  /\ note' = [note EXCEPT ![i] = @ + 1]
  /\ edge' = [edge EXCEPT ![i] = TRUE]

\* Mutant of Dispatch: it goes to the next child, whatever the search found.
DispatchNext ==
  /\ parent = "running" /\ arrival /\ ~cgi
  /\ arrival' = FALSE
  /\ IF \A i \in Children : m_pid[i] = -1
     THEN m_stop' = TRUE /\ UNCHANGED <<counter, pipes>>
     ELSE /\ IF m_pid[counter] # -1 THEN Told(counter) ELSE UNCHANGED pipes
          /\ counter' = (counter + 1) % N
          /\ UNCHANGED m_stop
  /\ UNCHANGED <<cgi, procs, sigs, m_pid, stop, term, conns, progs, waiting, arrived, deaths, strays>>

\* 15-1: the next child that has not been reaped.  If there is none, the parent stops.
Dispatch ==
  /\ parent = "running" /\ arrival /\ ~cgi
  /\ arrival' = FALSE
  /\ LET Nth(k) == (counter + k) % N
         live == {k \in Children : m_pid[Nth(k)] # -1}
         first == CHOOSE k \in live : \A l \in live : k <= l
     IN IF live = {}
        THEN m_stop' = TRUE /\ UNCHANGED <<counter, pipes>>
        ELSE /\ Told(Nth(first))
             /\ counter' = (Nth(first) + 1) % N
             /\ UNCHANGED m_stop
  /\ UNCHANGED <<cgi, procs, sigs, m_pid, stop, term, conns, progs, waiting, arrived, deaths, strays>>

\* 15-2: the next child, whatever has become of it; the pipe of one that was
\* reaped is closed and the send fails, unnoticed.
DispatchCgi ==
  /\ parent = "running" /\ arrival /\ cgi
  /\ arrival' = FALSE
  /\ IF m_pid[counter] # -1 \/ child[counter] = "none" THEN Told(counter) ELSE UNCHANGED pipes
  /\ counter' = (counter + 1) % N
  /\ UNCHANGED <<cgi, procs, m_stop, sigs, m_pid, stop, term, conns, progs, waiting, arrived, deaths, strays>>

\* Mutant of ParentReaps: one waitpid for a SIGCHLD.
ParentReapsOne ==
  /\ parent = "running" /\ "CHLD" \in sigs
  /\ sigs' = sigs \ {"CHLD"}
  /\ \E i \in Children :
       /\ child[i] = "zombie"
       /\ child' = [child EXCEPT ![i] = "reaped"]
       /\ m_pid' = [m_pid EXCEPT ![i] = -1]
  /\ m_stop' = (\A i \in Children : m_pid'[i] = -1)
  /\ Ends(parent, m_pid', child', progs)
  /\ UNCHANGED <<cgi, parent, counter, stop, term, note, conns, progs, socket, deaths, strays>>

ParentReaps ==
  /\ parent = "running" /\ "CHLD" \in sigs
  /\ sigs' = sigs \ {"CHLD"}
  /\ child' = [i \in Children |-> IF child[i] = "zombie" THEN "reaped" ELSE child[i]]
  /\ m_pid' = [i \in Children |-> IF child[i] = "zombie" THEN -1 ELSE m_pid[i]]
  /\ m_stop' = (\A i \in Children : m_pid'[i] = -1)
  /\ Ends(parent, m_pid', child', progs)
  /\ UNCHANGED <<cgi, parent, counter, stop, term, note, conns, progs, socket, deaths, strays>>

\* The children in K get SIGTERM: before their handlers are there they die of it; a
\* child of 15-1 finds it in its pipe; one of 15-2 has stop_child set, and is taken
\* out of epoll_wait if it is there already.
Signalled(K) ==
  /\ LET early == {i \in K : child[i] = "starting"}
     IN /\ child' = [i \in Children |-> IF i \in early THEN "zombie"
                                        ELSE IF i \in K /\ cgi /\ child[i] = "wait" THEN "test" ELSE child[i]]
        /\ sigs' = (sigs \ {"TERM"}) \union (IF early # {} THEN {"CHLD"} ELSE {})
  /\ term' = [i \in Children |-> term[i] \/ (i \in K /\ ~cgi /\ child[i] \in Looping)]
  /\ stop' = [i \in Children |-> stop[i] \/ (i \in K /\ cgi /\ child[i] \in Looping)]
  /\ Ends(parent, m_pid, child', progs)

ParentKills ==
  /\ parent = "running" /\ "TERM" \in sigs
  /\ Signalled({i \in Children : m_pid[i] # -1 \/ (cgi /\ -1 \in {m_pid[j] : j \in Children})})
  /\ strays' = (strays \/ (cgi /\ -1 \in {m_pid[j] : j \in Children}))
  /\ UNCHANGED <<cgi, parent, m_stop, m_pid, counter, note, conns, progs, socket, deaths>>

ParentExits ==
  /\ parent = "running" /\ m_stop
  /\ parent' = "exited"
  /\ Ends("exited", m_pid, child, progs)
  /\ UNCHANGED <<cgi, child, m_stop, sigs, m_pid, counter, stop, term, note, conns, progs, socket, deaths, strays>>

-----------------------------------------------------------------------------
Child(i) ==
  \/ ChildReady(i) \/ ChildTests(i) \/ ChildExits(i) \/ ChildWaits(i) \/ ChildWakes(i) \/ ChildGoesOn(i)
  \/ ChildAccepts(i) \/ PipeEnds(i) \/ ChildStops(i) \/ Serve(i) \/ ProgramEnds(i)

Parent == ParentReady \/ Dispatch \/ DispatchCgi \/ ParentReaps \/ ParentKills \/ ParentExits

Next ==
  \/ Parent \/ Connect \/ Terminate \/ ParentDies
  \/ \E i \in Children : Child(i) \/ Kill(i)

Spec == Init /\ [][Next]_vars

\* What a process does next, it does some time; and epoll_wait leaves no event out,
\* so that one that is there again and again is handled.
ChildLoops(i) == ChildReady(i) \/ ChildTests(i) \/ ChildExits(i) \/ ChildWaits(i) \/ ChildWakes(i) \/ ChildGoesOn(i)

Handled(i) == ChildAccepts(i) \/ PipeEnds(i)

Fairness ==
  /\ WF_vars(ParentReady) /\ WF_vars(Dispatch \/ DispatchCgi) /\ WF_vars(ParentReaps)
  /\ WF_vars(ParentKills) /\ WF_vars(ParentExits)
  /\ \A i \in Children : WF_vars(ChildLoops(i)) /\ SF_vars(Handled(i)) /\ SF_vars(ChildStops(i))

FairSpec == Spec /\ Fairness

-----------------------------------------------------------------------------
(* Properties. *)

Gone == parent \in {"exited", "killed"}

\* Types.
TypeOK ==
  /\ cgi \in BOOLEAN /\ parent \in {"starting", "running", "exited", "killed"} /\ m_stop \in BOOLEAN
  /\ sigs \subseteq {"CHLD", "TERM"} /\ m_pid \in [Children -> Children \union {-1}] /\ counter \in Children
  /\ child \in [Children -> Looping \union {"starting", "zombie", "reaped", "none"}]
  /\ stop \in [Children -> BOOLEAN] /\ term \in [Children -> BOOLEAN]
  /\ note \in [Children -> 0 .. MaxClients] /\ edge \in [Children -> BOOLEAN]
  /\ conns \in [Children -> 0 .. MaxClients] /\ progs \in [Children -> 0 .. MaxClients]
  /\ waiting \in 0 .. MaxClients /\ arrival \in BOOLEAN /\ strays \in BOOLEAN

\* 15-1: an arrival makes some child accept, also after children have died and
\* were reaped, unless one has died and the parent does not know it yet.
ArrivalServed ==
  \A k \in 0 .. MaxClients :
    (~cgi /\ parent = "running" /\ arrival /\ waiting > 0 /\ arrived - waiting = k)
      ~> (arrived - waiting > k \/ Gone \/ (\E i \in Children : child[i] = "zombie") \/ (\A i \in Children : stop[i] \/ m_pid[i] = -1))

\* 15-1: SIGTERM to a running parent that has a child alive ends the program.
TermStops ==
  (~cgi /\ parent = "running" /\ "TERM" \in sigs /\ \E i \in Children : Alive(i)) ~> Gone

\* 15-2: without their parent the children end, one by the end of the other's pipe,
\* when the programs they started have ended.  Only a notification that shares its
\* event with the end of a pipe can hide that.
OrphansEnd ==
  LET Unspent(i) == note[i] = 0 /\ (edge[i] \/ stop[i] \/ Held(parent, m_pid, child, progs, i))
  IN (\A i \in Children : <>[](progs[i] = 0))
       => ((cgi /\ Gone /\ \A i \in Children : Alive(i) => Unspent(i)) ~> (\A i \in Children : ~Alive(i)))

\* "kill all the clild now" (15-2pool_cgi.cpp:367): the signals are for the children.
KillsOwn == ~strays
=============================================================================
