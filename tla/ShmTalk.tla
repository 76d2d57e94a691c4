------------------------------- MODULE ShmTalk -------------------------------
(***************************************************************************)
(* HP/13/13-4shm_talk_server.cpp: a chat server with a child for every     *)
(* user.  A child reads its client's text into its segment of the shared   *)
(* memory and tells the parent its index; the parent passes the index to   *)
(* the other children, which send that segment to their clients.           *)
(*                                                                         *)
(* A user's entry in users is its child's pid, which stands for its pipe   *)
(* as well.  A batch of events holds whatever events it may: stop_server   *)
(* is looked at only after it.                                             *)
(***************************************************************************)
EXTENDS Integers, Sequences, FiniteSets

CONSTANTS
  Pids,        \* the pids that fork gives
  USER_LIMIT,
  MaxTexts     \* bound: texts that clients ever send

ASSUME PidAssumption == Pids \subseteq Nat \ {0}
ASSUME LimitAssumption == USER_LIMIT \in Nat

Nobody == 0

VARIABLES
  up,          \* the server runs
  stop_server, terminate,
  sig_pipe,    \* the signals in it
  reaping,     \* the server is in its loop of waitpid
  user_count, users, sub_process,
  kid,         \* of each pid: "free", "start", "deaf", "loop" or "zombie"
  idx,         \* of each child: its index when it was made
  stop_child,
  to_parent, to_kid, \* the pipes
  texts,       \* bound: so far
  moved,       \* history: the user of a living child was moved to another index
  late         \* history: the children made after stop_server was set

signals == <<stop_server, terminate, sig_pipe, reaping>>
table == <<user_count, users, sub_process>>
kids == <<kid, idx, stop_child>>
mail == <<to_parent, to_kid, texts>>
vars == <<up, signals, table, kids, mail, moved, late>>

Init ==
  /\ up = TRUE /\ stop_server = FALSE /\ terminate = FALSE /\ sig_pipe = {} /\ reaping = FALSE
  /\ user_count = 0 /\ users = [i \in 0 .. USER_LIMIT |-> Nobody]
  /\ sub_process = [p \in Pids |-> -1]
  /\ kid = [p \in Pids |-> "free"] /\ idx = [p \in Pids |-> 0]
  /\ stop_child = [p \in Pids |-> FALSE]
  /\ to_parent = [p \in Pids |-> <<>>] /\ to_kid = [p \in Pids |-> <<>>]
  /\ texts = 0 /\ moved = FALSE /\ late = {}

Alive(p) == kid[p] \in {"start", "deaf", "loop"}
Users == {users[i] : i \in 0 .. user_count - 1}

-----------------------------------------------------------------------------
(* The parent. *)

\* A client is accepted and a child made for it.  With USER_LIMIT users, and when
\* fork fails, the client is turned away and nothing changes.
Accept(p) ==
  /\ up /\ ~reaping /\ user_count < USER_LIMIT /\ kid[p] = "free"
  /\ kid' = [kid EXCEPT ![p] = "start"]
  /\ idx' = [idx EXCEPT ![p] = user_count]
  /\ stop_child' = [stop_child EXCEPT ![p] = FALSE]
  /\ to_parent' = [to_parent EXCEPT ![p] = <<>>] /\ to_kid' = [to_kid EXCEPT ![p] = <<>>]
  /\ users' = [users EXCEPT ![user_count] = p]
  /\ sub_process' = [sub_process EXCEPT ![p] = user_count]
  /\ user_count' = user_count + 1
  /\ late' = IF stop_server THEN late \union {p} ELSE late
  /\ UNCHANGED <<up, signals, texts, moved>>

\* SIGCHLD: the loop of waitpid begins.
Reap ==
  /\ up /\ ~reaping /\ "CHLD" \in sig_pipe
  /\ sig_pipe' = sig_pipe \ {"CHLD"} /\ reaping' = TRUE
  /\ UNCHANGED <<up, stop_server, terminate, table, kids, mail, moved, late>>

\* Mutant of Deletes: the moved user's entry in sub_process is left as it was.
DeletesKeepsIndex(p) ==
  LET del_user == sub_process[p]
  IN /\ user_count' = user_count - 1
     /\ users' = [users EXCEPT ![del_user] = users[user_count - 1]]
     /\ sub_process' = [sub_process EXCEPT ![p] = -1]
     /\ moved' = (moved \/ del_user # user_count - 1)

\* The last user takes a dead child's entry, which may be his own.
Deletes(p) ==
  LET del_user == sub_process[p]
      last == users[user_count - 1]
  IN /\ user_count' = user_count - 1
     /\ users' = [users EXCEPT ![del_user] = last]
     /\ sub_process' = [q \in Pids |-> IF q = last THEN del_user ELSE IF q = p THEN -1 ELSE sub_process[q]]
     /\ moved' = (moved \/ del_user # user_count - 1)

\* waitpid gives a child that has died.
Waits(p) ==
  /\ reaping /\ kid[p] = "zombie"
  /\ kid' = [kid EXCEPT ![p] = "free"]
  /\ Deletes(p)
  /\ late' = late \ {p}
  /\ UNCHANGED <<up, signals, idx, stop_child, mail>>

\* Mutant of Reaped: SIGTERM ends the server at the first death after it.
ReapedAny ==
  /\ reaping /\ \A p \in Pids : kid[p] # "zombie"
  /\ reaping' = FALSE
  /\ stop_server' = (stop_server \/ terminate)
  /\ UNCHANGED <<up, terminate, sig_pipe, table, kids, mail, moved, late>>

\* waitpid gives none.
Reaped ==
  /\ reaping /\ \A p \in Pids : kid[p] # "zombie"
  /\ reaping' = FALSE
  /\ stop_server' = (stop_server \/ (terminate /\ user_count = 0))
  /\ UNCHANGED <<up, terminate, sig_pipe, table, kids, mail, moved, late>>

\* SIGTERM to the server's children.  One that has just been made has the handler of
\* its parent, and the parent's pipe; later, for a while, only the handler.
KillAll ==
  /\ up /\ ~reaping /\ "TERM" \in sig_pipe
  /\ IF user_count = 0
     THEN stop_server' = TRUE /\ sig_pipe' = sig_pipe \ {"TERM"} /\ UNCHANGED <<terminate, stop_child>>
     ELSE /\ terminate' = TRUE
          /\ sig_pipe' = IF \E p \in Users : kid[p] = "start" THEN sig_pipe ELSE sig_pipe \ {"TERM"}
          /\ stop_child' = [p \in Pids |-> stop_child[p] \/ (p \in Users /\ kid[p] = "loop")]
          /\ UNCHANGED stop_server
  /\ UNCHANGED <<up, reaping, table, kid, idx, mail, moved, late>>

\* What a child tells goes to all the others.
Relay(p) ==
  /\ up /\ ~reaping /\ p \in Users /\ to_parent[p] # <<>>
  /\ to_parent' = [to_parent EXCEPT ![p] = Tail(@)]
  /\ to_kid' = [q \in Pids |-> IF q \in Users \ {p} THEN Append(to_kid[q], Head(to_parent[p])) ELSE to_kid[q]]
  /\ UNCHANGED <<up, signals, table, kids, texts, moved, late>>

\* The end of the batch, and of the program.
Stop ==
  /\ up /\ ~reaping /\ stop_server
  /\ up' = FALSE
  /\ UNCHANGED <<signals, table, kids, mail, moved, late>>

-----------------------------------------------------------------------------
(* A child: run_child. *)

Becomes(p, from, to) == kid[p] = from /\ kid' = [kid EXCEPT ![p] = to]

\* It closes its copies of the parent's descriptors ...
Closes(p) ==
  /\ Becomes(p, "start", "deaf")
  /\ UNCHANGED <<up, signals, table, idx, stop_child, mail, moved, late>>

\* ... and gets a handler of its own.
Ready(p) ==
  /\ Becomes(p, "deaf", "loop")
  /\ UNCHANGED <<up, signals, table, idx, stop_child, mail, moved, late>>

\* The client's text goes into the child's segment.
Reads(p) ==
  /\ kid[p] = "loop" /\ texts < MaxTexts
  /\ texts' = texts + 1
  /\ to_parent' = [to_parent EXCEPT ![p] = Append(@, idx[p])]
  /\ UNCHANGED <<up, signals, table, kids, to_kid, moved, late>>

\* The client's end, or the parent's.
Ends(p) ==
  /\ kid[p] = "loop"
  /\ stop_child' = [stop_child EXCEPT ![p] = TRUE]
  /\ UNCHANGED <<up, signals, table, kid, idx, mail, moved, late>>

\* A segment goes to the client.
Shows(p) ==
  /\ kid[p] = "loop" /\ to_kid[p] # <<>>
  /\ to_kid' = [to_kid EXCEPT ![p] = Tail(@)]
  /\ UNCHANGED <<up, signals, table, kids, to_parent, texts, moved, late>>

Died(p) ==
  /\ kid' = [kid EXCEPT ![p] = "zombie"]
  /\ sig_pipe' = IF up THEN sig_pipe \union {"CHLD"} ELSE sig_pipe
  /\ UNCHANGED <<up, stop_server, terminate, reaping, table, idx, stop_child, mail, moved, late>>

Exits(p) == kid[p] = "loop" /\ stop_child[p] /\ Died(p)

-----------------------------------------------------------------------------
(* From outside: SIGTERM to the server, and the death of a child. *)

Terminated ==
  /\ up
  /\ sig_pipe' = sig_pipe \union {"TERM"}
  /\ UNCHANGED <<up, stop_server, terminate, reaping, table, kids, mail, moved, late>>

Killed(p) == Alive(p) /\ Died(p)

-----------------------------------------------------------------------------
Kid(p) == Closes(p) \/ Ready(p) \/ Reads(p) \/ Ends(p) \/ Shows(p) \/ Exits(p)

Next ==
  \/ Reap \/ Reaped \/ KillAll \/ Stop \/ Terminated
  \/ \E p \in Pids : Accept(p) \/ Waits(p) \/ Relay(p) \/ Kid(p) \/ Killed(p)

Spec == Init /\ [][Next]_vars

-----------------------------------------------------------------------------
(* Properties. *)

\* Types.
TypeOK ==
  /\ up \in BOOLEAN /\ stop_server \in BOOLEAN /\ terminate \in BOOLEAN /\ reaping \in BOOLEAN /\ moved \in BOOLEAN
  /\ sig_pipe \subseteq {"CHLD", "TERM"} /\ user_count \in 0 .. USER_LIMIT
  /\ users \in [0 .. USER_LIMIT -> Pids \union {Nobody}] /\ sub_process \in [Pids -> -1 .. USER_LIMIT - 1]
  /\ kid \in [Pids -> {"free", "start", "deaf", "loop", "zombie"}]
  /\ idx \in [Pids -> Nat] /\ stop_child \in [Pids -> BOOLEAN]
  /\ late \subseteq Pids

\* The two tables agree through every move, in whatever order children die: a user
\* for every child that has not been waited for, so that only those are signalled
\* and every death finds its own entry; and until a move, whoever is alive has the
\* segment of its entry, and so nobody is shown his own.
TableTrue ==
  up =>
    /\ \A i \in 0 .. user_count - 1 : users[i] \in Pids /\ sub_process[users[i]] = i
    /\ \A p \in Pids : kid[p] # "free" <=> p \in Users
    /\ ~moved => \A p \in Users : idx[p] = sub_process[p] /\ \A k \in DOMAIN to_kid[p] : to_kid[p][k] # idx[p]

\* The server stops only without children, except those that come after it has been
\* decided in the same batch of events.
NoChildLeft == stop_server => \A p \in Pids : kid[p] = "free" \/ p \in late
=============================================================================
