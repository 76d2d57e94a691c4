--------------------------- MODULE SpringsnailPool ---------------------------
(***************************************************************************)
(* springsnail/processpool.h: a parent that watches the listening socket   *)
(* and N children that accept.  The parent tells the child it believes     *)
(* most free, over that child's pipe, that a client waits; a child reports *)
(* the number of its sessions over the same pipe.  Signals reach every     *)
(* process through a pipe of its own, and the parent ends when it has      *)
(* reaped all its children.                                                *)
(*                                                                         *)
(* Every descriptor is edge-triggered: an arrival raises its event, and    *)
(* however many arrivals came before the handler runs, it runs once.       *)
(***************************************************************************)
EXTENDS Integers, Sequences, FiniteSets, SequencesExt

CONSTANTS
  N,            \* m_process_number
  ConnsPerChild,  \* connections to the server each child's mgr has
  MaxClients,   \* bound: clients that ever connect
  MaxCrashes,   \* bound: children that die of something else than SIGTERM
  MaxStale      \* bound: entries of m_used that belong to no session

Children == 0 .. N - 1

VARIABLES
  parent,         \* "starting" | "running" | "exited" | "killed"
  m_stop,         \* the parent's
  sigs,           \* signals in the parent's signal pipe
  m_pid,          \* of each child: its pid (here its index), -1 once reaped
  m_busy_ratio,   \* of each child, as the parent knows it
  child,          \* "starting" | "running" | "stopping" | "zombie" | "reaped"
  term,           \* SIGTERM or SIGINT waits in the child's signal pipe
  used,           \* sessions of each child
  down, downEdge, \* notifications in a child's pipe, and its event
  up, upEdge,     \* reports in a child's pipe, one byte each, and the event
  backlog, listenEdge, \* clients to accept, and the listening socket's event
  arrived, accepted, crashes \* counts

signals == <<sigs, term>>
pipes == <<down, downEdge, up, upEdge>>
clients == <<backlog, listenEdge, arrived, accepted>>
procs == <<parent, m_stop, m_pid, child>>
vars == <<procs, m_busy_ratio, signals, used, pipes, clients, crashes>>

Alive(i) == child[i] \in {"starting", "running", "stopping"}
Handles(i) == child[i] \in {"running", "stopping"}

\* A child's death tells the parent, if it has installed its handlers.
ChldTo(p) == IF p = "running" THEN {"CHLD"} ELSE {}

Init ==
  /\ parent = "starting"
  /\ m_stop = FALSE
  /\ sigs = {}
  /\ m_pid = [i \in Children |-> i]
  /\ m_busy_ratio = [i \in Children |-> 0]
  /\ child = [i \in Children |-> "starting"]
  /\ term = [i \in Children |-> FALSE]
  /\ used = [i \in Children |-> 0]
  /\ down = [i \in Children |-> 0]
  /\ downEdge = [i \in Children |-> FALSE]
  /\ up = [i \in Children |-> <<>>]
  /\ upEdge = [i \in Children |-> FALSE]
  /\ backlog = 0
  /\ listenEdge = FALSE
  /\ arrived = 0
  /\ accepted = 0
  /\ crashes = 0

-----------------------------------------------------------------------------
(* Clients, and signals and deaths from outside. *)

Connect ==
  /\ arrived < MaxClients
  /\ arrived' = arrived + 1
  /\ backlog' = backlog + 1
  /\ listenEdge' = TRUE
  /\ UNCHANGED <<procs, m_busy_ratio, signals, used, pipes, accepted, crashes>>

\* SIGTERM or SIGINT to the parent alone: before its handlers are installed,
\* it dies of it.
Terminate ==
  /\ parent \in {"starting", "running"}
  /\ IF parent = "running" THEN sigs' = sigs \union {"TERM"} /\ UNCHANGED parent
                           ELSE parent' = "killed" /\ UNCHANGED sigs
  /\ UNCHANGED <<m_stop, m_pid, child, term, m_busy_ratio, used, pipes, clients, crashes>>

\* A child's death by something it has no handler for.
Crash(i) ==
  /\ Alive(i)
  /\ crashes < MaxCrashes
  /\ crashes' = crashes + 1
  /\ child' = [child EXCEPT ![i] = "zombie"]
  /\ used' = [used EXCEPT ![i] = 0]
  /\ sigs' = sigs \union ChldTo(parent)
  /\ UNCHANGED <<parent, m_stop, m_pid, term, m_busy_ratio, pipes, clients>>

-----------------------------------------------------------------------------
(* A child: run_child *)

ChildReady(i) ==
  /\ child[i] = "starting"
  /\ child' = [child EXCEPT ![i] = "running"]
  /\ UNCHANGED <<parent, m_stop, m_pid, m_busy_ratio, signals, used, pipes, clients, crashes>>

\* notify_parent_busy_ratio: one byte of get_used_conn_cnt, the size of m_used,
\* which has two entries for each of the n sessions and those that process
\* left behind for descriptors without one (see SpringsnailMgr).
Report(i, n) ==
  /\ \E stale \in 0 .. MaxStale : up' = [up EXCEPT ![i] = Append(@, (2 * n + stale) % 256)]
  /\ upEdge' = [upEdge EXCEPT ![i] = TRUE]

\* Mutant of ChildAccepts: a child with no idle connection leaves the client.
ChildAcceptsIfIdle(i) ==
  /\ Handles(i)
  /\ downEdge[i] /\ used[i] < ConnsPerChild
  /\ downEdge' = [downEdge EXCEPT ![i] = FALSE]
  /\ down' = [down EXCEPT ![i] = @ - 1]
  /\ backlog > 0
  /\ backlog' = backlog - 1
  /\ accepted' = accepted + 1
  /\ used' = [used EXCEPT ![i] = @ + 1]
  /\ Report(i, used[i] + 1)
  /\ UNCHANGED <<procs, m_busy_ratio, signals, listenEdge, arrived, crashes>>

\* The pipe's event: one notification is read and one accept is made.  When it finds a
\* client (AcceptsAreTold says that it does), that one is closed again if pick_conn has
\* no idle connection.
ChildAccepts(i) ==
  /\ Handles(i)
  /\ downEdge[i]
  /\ downEdge' = [downEdge EXCEPT ![i] = FALSE]
  /\ down' = [down EXCEPT ![i] = @ - 1]
  /\ IF backlog = 0
     THEN UNCHANGED <<backlog, accepted>>
     ELSE backlog' = backlog - 1 /\ accepted' = accepted + 1
  /\ IF backlog > 0 /\ used[i] < ConnsPerChild
     THEN used' = [used EXCEPT ![i] = @ + 1] /\ Report(i, used[i] + 1)
     ELSE UNCHANGED <<used, up, upEdge>>
  /\ UNCHANGED <<procs, m_busy_ratio, signals, listenEdge, arrived, crashes>>

\* process returns CLOSED: a session has ended.
SessionEnds(i) ==
  /\ Handles(i)
  /\ used[i] > 0
  /\ used' = [used EXCEPT ![i] = @ - 1]
  /\ Report(i, used[i] - 1)
  /\ UNCHANGED <<procs, m_busy_ratio, signals, down, downEdge, clients, crashes>>

\* SIGTERM is read from the signal pipe; the loop ends after the batch.
ChildStops(i) ==
  /\ Handles(i)
  /\ term[i]
  /\ term' = [term EXCEPT ![i] = FALSE]
  /\ child' = [child EXCEPT ![i] = "stopping"]
  /\ UNCHANGED <<parent, m_stop, m_pid, m_busy_ratio, sigs, used, pipes, clients, crashes>>

ChildExits(i) ==
  /\ child[i] = "stopping"
  /\ child' = [child EXCEPT ![i] = "zombie"]
  /\ used' = [used EXCEPT ![i] = 0]
  /\ sigs' = sigs \union ChldTo(parent)
  /\ UNCHANGED <<parent, m_stop, m_pid, term, m_busy_ratio, pipes, clients, crashes>>

-----------------------------------------------------------------------------
(* The parent: run_parent *)

ParentReady ==
  /\ parent = "starting"
  /\ parent' = "running"
  /\ UNCHANGED <<m_stop, m_pid, child, m_busy_ratio, signals, used, pipes, clients, crashes>>

\* get_most_free_srv: the lowest ratio, the first of equals; the children that
\* are gone are not left out.
MostFree ==
  CHOOSE i \in Children : \A j \in Children :
    \/ m_busy_ratio[i] < m_busy_ratio[j]
    \/ m_busy_ratio[i] = m_busy_ratio[j] /\ i <= j

\* Mutant of ParentNotifies: the listening socket is not edge-triggered.
ParentNotifiesAgain ==
  /\ parent = "running" /\ listenEdge
  /\ listenEdge' = (backlog > 0)
  /\ IF m_pid[MostFree] # -1
     THEN /\ down' = [down EXCEPT ![MostFree] = @ + 1]
          /\ downEdge' = [downEdge EXCEPT ![MostFree] = TRUE]
     ELSE UNCHANGED <<down, downEdge>>
  /\ UNCHANGED <<procs, m_busy_ratio, signals, used, up, upEdge, backlog, arrived, accepted, crashes>>

\* The listening socket's event.  The pipe of a child that was reaped is
\* closed and the send fails, unnoticed.
ParentNotifies ==
  /\ parent = "running" /\ listenEdge
  /\ listenEdge' = FALSE
  /\ IF m_pid[MostFree] # -1
     THEN /\ down' = [down EXCEPT ![MostFree] = @ + 1]
          /\ downEdge' = [downEdge EXCEPT ![MostFree] = TRUE]
     ELSE UNCHANGED <<down, downEdge>>
  /\ UNCHANGED <<procs, m_busy_ratio, signals, used, up, upEdge, backlog, arrived, accepted, crashes>>

\* Four bytes, least significant first.
AsInt(bytes) == FoldRight(LAMBDA b, n : b + 256 * n, bytes, 0)

Lesser(a, b) == IF a < b THEN a ELSE b

\* A report: recv asks for an int, and takes up to four one-byte reports for
\* one ratio; what is left waits for the next event.
ParentReadsRatio(i) ==
  /\ parent = "running" /\ m_pid[i] # -1
  /\ upEdge[i]
  /\ upEdge' = [upEdge EXCEPT ![i] = FALSE]
  /\ LET n == Lesser(4, Len(up[i]))
     IN /\ up' = [up EXCEPT ![i] = SubSeq(@, n + 1, Len(@))]
        /\ m_busy_ratio' = [m_busy_ratio EXCEPT ![i] = AsInt(SubSeq(up[i], 1, n))]
  /\ UNCHANGED <<procs, signals, used, down, downEdge, clients, crashes>>

\* Mutant of ParentReaps: the parent stops after the first death.
ParentReapsAndStops ==
  /\ parent = "running" /\ "CHLD" \in sigs
  /\ sigs' = sigs \ {"CHLD"}
  /\ child' = [i \in Children |-> IF child[i] = "zombie" THEN "reaped" ELSE child[i]]
  /\ m_pid' = [i \in Children |-> IF child[i] = "zombie" THEN -1 ELSE m_pid[i]]
  /\ m_stop' = TRUE
  /\ UNCHANGED <<parent, m_busy_ratio, term, used, pipes, clients, crashes>>

\* Mutant of ParentReaps: one waitpid for a SIGCHLD, not all that it finds.
ParentReapsOne ==
  /\ parent = "running" /\ "CHLD" \in sigs
  /\ sigs' = sigs \ {"CHLD"}
  /\ \E i \in Children :
       /\ child[i] = "zombie"
       /\ child' = [child EXCEPT ![i] = "reaped"]
       /\ m_pid' = [m_pid EXCEPT ![i] = -1]
  /\ m_stop' = (\A i \in Children : m_pid'[i] = -1)
  /\ UNCHANGED <<parent, m_busy_ratio, term, used, pipes, clients, crashes>>

\* Mutant of ParentReaps: the pid stays.
ParentReapsKeepPid ==
  /\ parent = "running" /\ "CHLD" \in sigs
  /\ sigs' = sigs \ {"CHLD"}
  /\ child' = [i \in Children |-> IF child[i] = "zombie" THEN "reaped" ELSE child[i]]
  /\ m_stop' = (\A i \in Children : child'[i] = "reaped")
  /\ UNCHANGED <<parent, m_pid, m_busy_ratio, term, used, pipes, clients, crashes>>

\* SIGCHLD: all the dead are reaped, and the parent stops if nobody is left.
ParentReaps ==
  /\ parent = "running" /\ "CHLD" \in sigs
  /\ sigs' = sigs \ {"CHLD"}
  /\ child' = [i \in Children |-> IF child[i] = "zombie" THEN "reaped" ELSE child[i]]
  /\ m_pid' = [i \in Children |-> IF child[i] = "zombie" THEN -1 ELSE m_pid[i]]
  /\ m_stop' = (\A i \in Children : m_pid'[i] = -1)
  /\ UNCHANGED <<parent, m_busy_ratio, term, used, pipes, clients, crashes>>

\* SIGTERM or SIGINT: it is passed on to the children not yet reaped.  A child
\* that has not installed its handlers dies of it.
ParentKills ==
  /\ parent = "running" /\ "TERM" \in sigs
  /\ LET target == {m_pid[i] : i \in Children} \ {-1}
         die == {i \in target : child[i] = "starting"}
     IN /\ term' = [i \in Children |-> term[i] \/ (i \in target /\ Handles(i))]
        /\ child' = [i \in Children |-> IF i \in die THEN "zombie" ELSE child[i]]
        /\ sigs' = (sigs \ {"TERM"}) \union (IF die # {} THEN {"CHLD"} ELSE {})
  /\ UNCHANGED <<parent, m_stop, m_pid, m_busy_ratio, used, pipes, clients, crashes>>

ParentExits ==
  /\ parent = "running" /\ m_stop
  /\ parent' = "exited"
  /\ UNCHANGED <<m_stop, m_pid, child, m_busy_ratio, signals, used, pipes, clients, crashes>>

ParentStep ==
  \/ ParentReady
  \/ ParentNotifies
  \/ \E i \in Children : ParentReadsRatio(i)
  \/ ParentReaps
  \/ ParentKills
  \/ ParentExits

ChildStep(i) ==
  \/ ChildReady(i)
  \/ ChildAccepts(i)
  \/ SessionEnds(i)
  \/ ChildStops(i)
  \/ ChildExits(i)

Next ==
  \/ Connect
  \/ Terminate
  \/ \E i \in Children : Crash(i)
  \/ ParentStep
  \/ \E i \in Children : ChildStep(i)

Spec == Init /\ [][Next]_vars

\* Each process's loop goes on while there is an event for it.  epoll_wait
\* returns every ready descriptor of a process, so none of its events waits
\* for ever.  Nothing is said of when clients come or sessions end.
FairSpec ==
  /\ Spec
  /\ WF_vars(ParentReady) /\ WF_vars(ParentNotifies) /\ WF_vars(ParentReaps)
  /\ WF_vars(ParentKills) /\ WF_vars(ParentExits)
  /\ \A i \in Children : WF_vars(ChildReady(i)) /\ WF_vars(ChildAccepts(i))
                         /\ WF_vars(ChildStops(i)) /\ WF_vars(ChildExits(i))

-----------------------------------------------------------------------------
(* Properties. *)

TypeOK ==
  /\ parent \in {"starting", "running", "exited", "killed"}
  /\ m_stop \in BOOLEAN
  /\ sigs \subseteq {"CHLD", "TERM"}
  /\ m_pid \in [Children -> {-1} \union Children]
  /\ m_busy_ratio \in [Children -> Nat]
  /\ child \in [Children -> {"starting", "running", "stopping", "zombie", "reaped"}]
  /\ term \in [Children -> BOOLEAN]
  /\ used \in [Children -> 0 .. ConnsPerChild]
  /\ down \in [Children -> Nat]
  /\ downEdge \in [Children -> BOOLEAN]
  /\ up \in [Children -> Seq(0 .. 255)]
  /\ upEdge \in [Children -> BOOLEAN]
  /\ backlog \in 0 .. MaxClients
  /\ listenEdge \in BOOLEAN
  /\ arrived \in 0 .. MaxClients
  /\ accepted \in 0 .. MaxClients
  /\ crashes \in 0 .. MaxCrashes

\* The parent returns from run_parent only when every child has died, whatever
\* the order of deaths, signals and the parent's own handling of them
\* (processpool.h 395-418).
ParentExitsLast == parent = "exited" => \A i \in Children : ~Alive(i)

\* The pids that the parent would pass SIGTERM to are those of its own
\* children, alive or not yet waited for, never one the kernel may have given
\* away again (m_pid = -1 at 407, the check at 428).
PidsAreOwn == \A i \in Children : m_pid[i] # -1 => child[i] # "reaped"

\* A child that is told of a client finds one to accept: arrivals are merged into
\* notifications and those into events, so there are never more of these than clients
\* that wait, whoever accepts first (355-368, 218-235).
AcceptsAreTold == \A i \in Children : Handles(i) /\ downEdge[i] => backlog > 0

\* SIGTERM to a parent that runs and has a child alive ends in the parent's
\* exit, however the deaths of the children and SIGTERM are interleaved and
\* whether or not a child had installed its handlers.
TermStops ==
  (parent = "running" /\ "TERM" \in sigs /\ \E i \in Children : Alive(i)) ~> (parent = "exited")

\* No process is ending or has been told to.
Undisturbed ==
  /\ parent \in {"starting", "running"} /\ "TERM" \notin sigs
  /\ \A i \in Children : child[i] \in {"starting", "running"} /\ ~term[i]

\* An arrival makes some child accept a client: the wake-ups of edge-triggered
\* descriptors merge on the way, but never all the way to none (355-379,
\* 218-245).
ArrivalWakes ==
  \A n \in 0 .. MaxClients :
    (Undisturbed /\ listenEdge /\ accepted = n) ~> (accepted > n \/ ~Undisturbed)
=============================================================================
