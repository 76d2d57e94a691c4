------------------------------ MODULE Preforked ------------------------------
(***************************************************************************)
(* src/30chp/serv02.c, serv03.c, serv04.c and serv07.c (kind, chosen in    *)
(* Init): N children, or threads of one process in serv07, that call       *)
(* accept on one listening socket: with no lock, under a lock of a file,   *)
(* under a mutex in shared memory, and under a mutex of the process.       *)
(*                                                                         *)
(* A child whose fork fails is the parent itself, which then runs          *)
(* child_main and never comes to install its SIGINT handler: actor N.      *)
(***************************************************************************)
EXTENDS Naturals, FiniteSets

CONSTANTS
  N,        \* nchildren, nthreads
  MaxCame,  \* bound: clients that ever connect
  MaxFailed, \* bound: calls of accept that fail
  MaxKilled \* bound: children killed from outside

ASSUME NAssumption == N \in Nat

Actors == 0 .. N
Kinds == {"serv02", "serv03", "serv04", "serv07"}
NoOne == N + 1

VARIABLES
  kind,
  main,     \* "listen", "make", "pause", "reap" (sig_int), "child", "exited", "failed" or "killed"
  made,     \* i, the children made so far
  pc,       \* of each actor: "none", "wait", "accept", "release", "serve", "zombie" or "gone"
  nofd,     \* actors whose connfd is -1
  holder,   \* of the lock
  doomed,   \* children that have been sent SIGTERM
  backlog, came, accepted, \* clients that wait, that came, that were accepted
  killed

vars == <<kind, main, made, pc, nofd, holder, doomed, backlog, came, accepted, killed>>

Init ==
  /\ kind \in Kinds
  /\ main = "listen" /\ made = 0 /\ pc = [a \in Actors |-> "none"]
  /\ nofd = {} /\ holder = NoOne /\ doomed = {}
  /\ backlog = 0 /\ came = 0 /\ accepted = 0 /\ killed = 0

Working == {"wait", "accept", "release", "serve"}
Alive(a) == pc[a] \in Working

\* The lock of a file is released by the death of its holder, a mutex is not.
HolderAfter(D) == IF kind = "serv03" /\ holder \in D THEN NoOne ELSE holder

-----------------------------------------------------------------------------
(* main. *)

\* tcp_listen: the first address that can be bound, or exit.
TcpListen ==
  /\ main = "listen"
  /\ main' \in {"make", "failed"}
  /\ UNCHANGED <<kind, nofd, made, pc, holder, doomed, backlog, came, accepted, killed>>

ChildMake ==
  /\ main = "make" /\ made < N /\ kind # "serv07"
  /\ made' = made + 1
  /\ pc' = [pc EXCEPT ![made] = "wait"]
  /\ UNCHANGED <<kind, nofd, main, holder, doomed, backlog, came, accepted, killed>>

\* fork returns -1, which is not > 0.
ForkFails ==
  /\ main = "make" /\ made < N /\ kind # "serv07"
  /\ main' = "child"
  /\ pc' = [pc EXCEPT ![N] = "wait"]
  /\ UNCHANGED <<kind, nofd, made, holder, doomed, backlog, came, accepted, killed>>

\* The result of pthread_create is not looked at.
ThreadMake ==
  /\ main = "make" /\ made < N /\ kind = "serv07"
  /\ made' = made + 1
  /\ \E state \in {"wait", "none"} : pc' = [pc EXCEPT ![made] = state]
  /\ UNCHANGED <<kind, nofd, main, holder, doomed, backlog, came, accepted, killed>>

\* signal( SIGINT, sig_int ), and pause for ever.
Installed ==
  /\ main = "make" /\ made = N
  /\ main' = "pause"
  /\ UNCHANGED <<kind, nofd, made, pc, holder, doomed, backlog, came, accepted, killed>>

\* Mutant of SigInt: the first child is left out.
SigIntFromOne ==
  /\ main = "pause" /\ kind # "serv07"
  /\ main' = "reap"
  /\ doomed' = {a \in Actors \ {0} : Alive(a)}
  /\ UNCHANGED <<kind, nofd, made, pc, holder, backlog, came, accepted, killed>>

\* sig_int: SIGTERM to all the children ...
SigInt ==
  /\ main = "pause" /\ kind # "serv07"
  /\ main' = "reap"
  /\ doomed' = {a \in Actors : Alive(a)}
  /\ UNCHANGED <<kind, nofd, made, pc, holder, backlog, came, accepted, killed>>

\* ... wait for one after the other ...
Reap(a) ==
  /\ main = "reap" /\ pc[a] = "zombie"
  /\ pc' = [pc EXCEPT ![a] = "gone"]
  /\ UNCHANGED <<kind, nofd, main, made, holder, doomed, backlog, came, accepted, killed>>

\* ... until there are none (ECHILD).
ExitAfterReap ==
  /\ main = "reap" /\ \A a \in Actors : pc[a] \in {"none", "gone"}
  /\ main' = "exited"
  /\ UNCHANGED <<kind, nofd, made, pc, holder, doomed, backlog, came, accepted, killed>>

\* The process of serv07 ends, with its threads.
ExitAll(state) ==
  /\ main' = state
  /\ pc' = [a \in Actors |-> IF Alive(a) THEN "gone" ELSE pc[a]]

SigIntThreads ==
  /\ main = "pause" /\ kind = "serv07"
  /\ ExitAll("exited")
  /\ UNCHANGED <<kind, nofd, made, holder, doomed, backlog, came, accepted, killed>>

\* SIGINT while there is no handler: the children stay.
KilledEarly ==
  /\ main \in {"listen", "make", "child"}
  /\ IF kind = "serv07"
     THEN ExitAll("killed") /\ UNCHANGED holder
     ELSE /\ main' = "killed"
          /\ pc' = [pc EXCEPT ![N] = "gone"]
          /\ holder' = HolderAfter({N})
  /\ UNCHANGED <<kind, nofd, made, doomed, backlog, came, accepted, killed>>

-----------------------------------------------------------------------------
(* child_main, thread_main. *)

Goto(a, from, to) == pc[a] = from /\ pc' = [pc EXCEPT ![a] = to]

\* serv02 has no lock.
NoLock(a) ==
  /\ kind = "serv02"
  /\ Goto(a, "wait", "accept")
  /\ UNCHANGED <<kind, nofd, main, made, holder, doomed, backlog, came, accepted, killed>>

\* Mutant of FileLock: fcntl returns before it has the lock, and is not called again.
FileLockOnce(a) ==
  /\ kind = "serv03"
  /\ Goto(a, "wait", "accept")
  /\ holder' = IF holder = NoOne THEN a ELSE holder
  /\ UNCHANGED <<kind, nofd, main, made, doomed, backlog, came, accepted, killed>>

\* my_lock_wait of serv03: fcntl until it is not interrupted.
FileLock(a) ==
  /\ kind = "serv03" /\ holder = NoOne
  /\ Goto(a, "wait", "accept")
  /\ holder' = a
  /\ UNCHANGED <<kind, nofd, main, made, doomed, backlog, came, accepted, killed>>

\* my_lock_wait of serv04: a mutex in memory that is shared.
SharedLock(a) ==
  /\ kind = "serv04" /\ holder = NoOne
  /\ Goto(a, "wait", "accept")
  /\ holder' = a
  /\ UNCHANGED <<kind, nofd, main, made, doomed, backlog, came, accepted, killed>>

ThreadLock(a) ==
  /\ kind = "serv07" /\ holder = NoOne
  /\ Goto(a, "wait", "accept")
  /\ holder' = a
  /\ UNCHANGED <<kind, nofd, main, made, doomed, backlog, came, accepted, killed>>

\* accept, which wakes all that wait in it and gives the client to one.
Accept(a) ==
  /\ backlog > 0
  /\ Goto(a, "accept", IF kind = "serv02" THEN "serve" ELSE "release")
  /\ backlog' = backlog - 1 /\ accepted' = accepted + 1
  /\ UNCHANGED <<kind, nofd, main, made, holder, doomed, came, killed>>

\* accept returns -1 (the client has gone, or there is no descriptor left), which the
\* child takes for a descriptor.
AcceptFails(a) ==
  /\ Cardinality(nofd) < MaxFailed
  /\ Goto(a, "accept", IF kind = "serv02" THEN "serve" ELSE "release")
  /\ nofd' = nofd \union {a}
  /\ UNCHANGED <<kind, main, made, holder, doomed, backlog, came, accepted, killed>>

FileUnlock(a) ==
  /\ kind = "serv03"
  /\ Goto(a, "release", "serve")
  /\ holder' = NoOne
  /\ UNCHANGED <<kind, nofd, main, made, doomed, backlog, came, accepted, killed>>

\* Mutant of SharedUnlock: the mutex is kept while the client is served.
SharedUnlockLate(a) ==
  /\ kind = "serv04"
  /\ Goto(a, "release", "serve")
  /\ UNCHANGED <<kind, nofd, main, made, holder, doomed, backlog, came, accepted, killed>>

SharedUnlock(a) ==
  /\ kind = "serv04"
  /\ Goto(a, "release", "serve")
  /\ holder' = NoOne
  /\ UNCHANGED <<kind, nofd, main, made, doomed, backlog, came, accepted, killed>>

ThreadUnlock(a) ==
  /\ kind = "serv07"
  /\ Goto(a, "release", "serve")
  /\ holder' = NoOne
  /\ UNCHANGED <<kind, nofd, main, made, doomed, backlog, came, accepted, killed>>

\* web_child up to the client's end, and close.  Of the descriptor -1 it reads no end: it
\* goes on for ever with what is left in line, or that is a bad request.
ServeUntilEOF(a) ==
  /\ a \notin nofd /\ Goto(a, "serve", "wait")
  /\ UNCHANGED <<kind, nofd, main, made, holder, doomed, backlog, came, accepted, killed>>

\* The children in D end.
Died(D) ==
  /\ pc' = [a \in Actors |-> IF a \notin D THEN pc[a] ELSE IF a = N THEN "gone" ELSE "zombie"]
  /\ holder' = HolderAfter(D)

\* web_child's exit( 1 ) for a number of bytes that is out of range; the same
\* comes of a write to a client that has gone (SIGPIPE).
BadRequest(a) ==
  /\ pc[a] = "serve"
  /\ IF kind = "serv07"
     THEN ExitAll("failed") /\ UNCHANGED holder
     ELSE Died({a}) /\ main' = IF a = N THEN "failed" ELSE main
  /\ UNCHANGED <<kind, nofd, made, doomed, backlog, came, accepted, killed>>

-----------------------------------------------------------------------------
(* From outside. *)

Connect ==
  /\ came < MaxCame /\ main # "listen"
  /\ came' = came + 1 /\ backlog' = backlog + 1
  /\ UNCHANGED <<kind, nofd, main, made, pc, holder, doomed, accepted, killed>>

\* SIGTERM arrives.
Die(a) ==
  /\ a \in doomed /\ Alive(a)
  /\ Died({a})
  /\ UNCHANGED <<kind, nofd, main, made, doomed, backlog, came, accepted, killed>>

Kill(a) ==
  /\ a < N /\ Alive(a) /\ kind # "serv07" /\ killed < MaxKilled
  /\ killed' = killed + 1
  /\ Died({a})
  /\ UNCHANGED <<kind, nofd, main, made, doomed, backlog, came, accepted>>

-----------------------------------------------------------------------------
Main ==
  \/ TcpListen \/ ChildMake \/ ForkFails \/ ThreadMake \/ Installed
  \/ SigInt \/ (\E a \in Actors : Reap(a)) \/ ExitAfterReap \/ SigIntThreads \/ KilledEarly

Lock(a) == NoLock(a) \/ FileLock(a) \/ SharedLock(a) \/ ThreadLock(a)
Unlock(a) == FileUnlock(a) \/ SharedUnlock(a) \/ ThreadUnlock(a)

Next ==
  \/ Main \/ Connect
  \/ \E a \in Actors :
        Lock(a) \/ Accept(a) \/ AcceptFails(a) \/ Unlock(a) \/ ServeUntilEOF(a) \/ BadRequest(a) \/ Die(a) \/ Kill(a)

Spec == Init /\ [][Next]_vars

\* A client need not end: web_child has no fairness.  Who waits for a lock that is
\* free again and again need not get it, but somebody does.
Fairness ==
  /\ WF_vars(\E a \in Actors : Lock(a))
  /\ WF_vars(\E a \in Actors : Reap(a)) /\ WF_vars(ExitAfterReap)
  /\ \A a \in Actors : WF_vars(Accept(a)) /\ WF_vars(Unlock(a)) /\ WF_vars(Die(a))

FairSpec == Spec /\ Fairness

-----------------------------------------------------------------------------
(* Properties. *)

Locking == kind # "serv02"

TypeOK ==
  /\ kind \in Kinds
  /\ main \in {"listen", "make", "pause", "reap", "child", "exited", "failed", "killed"}
  /\ made \in 0 .. N
  /\ pc \in [Actors -> Working \union {"none", "zombie", "gone"}]
  /\ nofd \subseteq Actors /\ holder \in Actors \union {NoOne} /\ doomed \subseteq Actors
  /\ backlog \in Nat /\ came \in Nat /\ accepted \in Nat /\ killed \in Nat

\* "Only one child process blocks in accept at any moment" (serv03.c:5, serv04.c:6;
\* serv07.c:5 says it of its threads), whichever of them die, and when.
OneAccepter ==
  Locking => \A a, b \in Actors : pc[a] \in {"accept", "release"} /\ pc[b] \in {"accept", "release"} => a = b

\* A client is accepted, unless all that could do it are gone or busy (with -1, for ever), or the mutex
\* of serv04 is left locked by one who was killed with it.
ClientIsAccepted ==
  LET Stuck == kind = "serv04" /\ holder # NoOne /\ ~Alive(holder)
      Free == \E a \in Actors : Alive(a) /\ pc[a] # "serve"
  IN \A k \in 0 .. MaxCame : (backlog > 0 /\ accepted = k) ~> (accepted > k \/ ~Free \/ Stuck)

\* SIGINT ends the program, and its children before it.
IntEndsAll == (main = "reap") ~> (main = "exited" /\ \A a \in Actors : ~Alive(a))
=============================================================================
