--------------------------- MODULE SortTimerList ---------------------------
(***************************************************************************)
(* HP/11/11-2lst_timer.h: timers in a doubly linked list, sorted by when   *)
(* they expire.  The list is modelled link by link: the nodes are the      *)
(* timers that are allocated, and delete takes one out of alive.           *)
(*                                                                         *)
(* A timer that is adjusted is put off: its owner has just written a later *)
(* time in it.  A callback does not use the list.                          *)
(***************************************************************************)
EXTENDS Integers, FiniteSets

CONSTANTS
  Timers,    \* the timers there may be at one time
  NULL,
  NotSet,    \* the time of a tick when none is under way
  MaxTime,   \* bound: the clock
  MaxDelay   \* bound: how far ahead a timer is set

VARIABLES
  lst,       \* the list: head and tail, and the links of the nodes
  alive,     \* the timers that are allocated
  expire,
  clock,     \* time()
  cur        \* the time that the tick under way has read, or NotSet

vars == <<lst, alive, expire, clock, cur>>

Init ==
  /\ lst = [head |-> NULL, tail |-> NULL,
            next |-> [t \in Timers |-> NULL], prev |-> [t \in Timers |-> NULL]]
  /\ alive = {}
  /\ expire = [t \in Timers |-> 0]
  /\ clock = 0
  /\ cur = NotSet

\* Timer t becomes the first: the ones before it are not compared.
AtFront(l, t) ==
  [l EXCEPT !.next[t] = l.head, !.prev = [@ EXCEPT ![t] = NULL, ![l.head] = t], !.head = t]

\* The private add_timer: t goes after node "from", in front of the first node
\* that expires later, or to the tail.
AddAfter(l, ex, t, from) ==
  LET stop[p \in Timers] ==
        IF l.next[p] = NULL \/ ex[t] < ex[l.next[p]] THEN p ELSE stop[l.next[p]]
      p == stop[from]
      q == l.next[p]
  IN [l EXCEPT !.next = [@ EXCEPT ![p] = t, ![t] = q],
               !.prev = [u \in Timers |-> IF u = q THEN t ELSE IF u = t THEN p ELSE @[u]],
               !.tail = IF q = NULL THEN t ELSE @]

\* A new node has no links.
Added(l, ex, t) ==
  IF l.head = NULL THEN [l EXCEPT !.head = t, !.tail = t]
  ELSE IF ex[t] < ex[l.head] THEN AtFront(l, t)
  ELSE AddAfter(l, ex, t, l.head)

Deleted(l, t) ==
  CASE t = l.head /\ t = l.tail -> [l EXCEPT !.head = NULL, !.tail = NULL]
    [] t = l.head /\ t # l.tail -> [l EXCEPT !.head = l.next[t], !.prev[l.next[t]] = NULL]
    [] t # l.head /\ t = l.tail -> [l EXCEPT !.tail = l.prev[t], !.next[l.prev[t]] = NULL]
    [] t # l.head /\ t # l.tail -> [l EXCEPT !.next[l.prev[t]] = l.next[t], !.prev[l.next[t]] = l.prev[t]]

\* Mutant of Adjusted: a timer that is not the first is left where it is.
AdjustedIfFirst(l, ex, t) ==
  IF l.next[t] = NULL \/ t # l.head THEN l
  ELSE AddAfter([l EXCEPT !.head = l.next[t], !.prev[l.next[t]] = NULL, !.next[t] = NULL], ex, t, l.next[t])

\* Mutant of Adjusted: the first node is not unlinked from the second.
AdjustedKeepsPrev(l, ex, t) ==
  IF l.next[t] = NULL \/ ex[t] < ex[l.next[t]] THEN l
  ELSE IF t = l.head THEN AddAfter([l EXCEPT !.head = l.next[t], !.next[t] = NULL], ex, t, l.next[t])
  ELSE AddAfter([l EXCEPT !.next[l.prev[t]] = l.next[t], !.prev[l.next[t]] = l.prev[t]], ex, t, l.next[t])

Adjusted(l, ex, t) ==
  LET unlinked == IF t = l.head
                  THEN [l EXCEPT !.head = l.next[t], !.prev[l.next[t]] = NULL, !.next[t] = NULL]
                  ELSE [l EXCEPT !.next[l.prev[t]] = l.next[t], !.prev[l.next[t]] = l.prev[t]]
  IN IF l.next[t] = NULL \/ ex[t] < ex[l.next[t]] THEN l ELSE AddAfter(unlinked, ex, t, l.next[t])

Freed(l, t) == [l EXCEPT !.next[t] = NULL, !.prev[t] = NULL]

-----------------------------------------------------------------------------
add_timer(t, e) ==
  /\ cur = NotSet
  /\ t \notin alive
  /\ alive' = alive \union {t}
  /\ expire' = [expire EXCEPT ![t] = e]
  /\ lst' = Added(lst, expire', t)
  /\ UNCHANGED <<clock, cur>>

adjust_timer(t, e) ==
  /\ cur = NotSet
  /\ t \in alive
  /\ e >= expire[t]
  /\ expire' = [expire EXCEPT ![t] = e]
  /\ lst' = Adjusted(lst, expire', t)
  /\ UNCHANGED <<alive, clock, cur>>

del_timer(t) ==
  /\ cur = NotSet
  /\ t \in alive
  /\ alive' = alive \ {t}
  /\ lst' = Freed(Deleted(lst, t), t)
  /\ UNCHANGED <<expire, clock, cur>>

TickBegin ==
  /\ cur = NotSet
  /\ cur' = clock
  /\ UNCHANGED <<lst, alive, expire, clock>>

\* The first timer's callback runs and the timer is deleted.  The tail is left
\* as it is, even if it was that timer.
TickFires ==
  /\ cur # NotSet
  /\ lst.head # NULL
  /\ expire[lst.head] <= cur
  /\ LET rest == lst.next[lst.head]
         moved == [lst EXCEPT !.head = rest,
                              !.prev = [u \in Timers |-> IF u = rest THEN NULL ELSE @[u]]]
     IN lst' = Freed(moved, lst.head)
  /\ alive' = alive \ {lst.head}
  /\ UNCHANGED <<expire, clock, cur>>

TickEnd ==
  /\ cur # NotSet
  /\ lst.head # NULL => cur < expire[lst.head]
  /\ cur' = NotSet
  /\ UNCHANGED <<lst, alive, expire, clock>>

TimePasses ==
  /\ clock < MaxTime
  /\ clock' = clock + 1
  /\ UNCHANGED <<lst, alive, expire, cur>>

Next ==
  \/ \E t \in Timers, d \in 0 .. MaxDelay : add_timer(t, clock + d) \/ adjust_timer(t, clock + d)
  \/ \E t \in Timers : del_timer(t)
  \/ TickBegin
  \/ TickFires
  \/ TickEnd
  \/ TimePasses

Spec == Init /\ [][Next]_vars

-----------------------------------------------------------------------------
(* Properties. *)

\* Types; no node is reached that is not allocated, but for the tail of an
\* empty list, which nothing reads.
TypeOK ==
  /\ alive \subseteq Timers
  /\ lst \in [head : Timers \union {NULL}, tail : Timers \union {NULL},
              next : [Timers -> Timers \union {NULL}], prev : [Timers -> Timers \union {NULL}]]
  /\ expire \in [Timers -> Nat]
  /\ clock \in Nat
  /\ cur \in Nat \union {NotSet}
  /\ lst.head \in alive \union {NULL}
  /\ \A t \in alive : lst.next[t] \in alive \union {NULL} /\ lst.prev[t] \in alive \union {NULL}

\* The n-th node from the head.
Nth[n \in 1 .. Cardinality(Timers) + 1] ==
  IF n = 1 THEN lst.head ELSE IF Nth[n - 1] = NULL THEN NULL ELSE lst.next[Nth[n - 1]]

\* Whatever was added, put off, deleted or fired, and in what order: the links
\* lead from the head through every timer once, by expiry, to the tail, and the
\* same way back (add_timer, adjust_timer and del_timer each relink by cases,
\* 43-118 and 146-171).
WellLinked ==
  LET last == Cardinality(alive)
  IN /\ {Nth[n] : n \in 1 .. last} = alive
     /\ Nth[last + 1] = NULL
     /\ last > 0 => Nth[last] = lst.tail
     /\ \A n \in 1 .. last : lst.prev[Nth[n]] = IF n = 1 THEN NULL ELSE Nth[n - 1]
     /\ \A n \in 2 .. last : expire[Nth[n - 1]] <= expire[Nth[n]]

\* The list is a set of alarms: a tick runs the callback of every timer that is
\* due and of no other, also of one that was put off.
Alarm == INSTANCE Alarms WITH due <- [t \in Timers |-> IF t \in alive THEN expire[t] ELSE NotSet]

ImplementsAlarms == Alarm!ASpec
=============================================================================
