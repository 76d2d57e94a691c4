------------------------------ MODULE TimeHeap ------------------------------
(***************************************************************************)
(* HP/11/11-6time_heap.h: timers in a binary heap, in an array that doubles*)
(* when it is full.  A timer that is deleted stays in the heap, without a  *)
(* callback, until its time comes.                                         *)
(*                                                                         *)
(* The cells of the array past cur_size keep what was in them, freed timers*)
(* included.  A callback does not use the heap.                            *)
(***************************************************************************)
EXTENDS Integers, FiniteSets

CONSTANTS
  Timers,    \* the timers there may be at one time
  NULL,
  NotSet,    \* the time of a tick when none is under way
  Cap,       \* the capacity asked for; twice nothing is nothing: 0 gets no room
  MaxTime,   \* bound: the clock
  MaxDelay   \* bound: how far ahead a timer is set

VARIABLES
  array, capacity, cur_size,
  expire, cb_func,  \* of each timer: when, and whether it has a callback; not if freed
  clock,     \* time()
  cur        \* the time that the tick under way has read, or NotSet

vars == <<array, capacity, cur_size, expire, cb_func, clock, cur>>

InHeap == {array[i] : i \in 0 .. cur_size - 1}

Parent(i) == (i - 1) \div 2

\* The hole moves up past every parent that expires later, and takes t.
PercolateUp(a, ex, t, hole) ==
  LET up[i \in 0 .. hole] ==
        IF i = 0 \/ ex[a[Parent(i)]] <= ex[t] THEN [a EXCEPT ![i] = t]
        ELSE [up[Parent(i)] EXCEPT ![i] = a[Parent(i)]]
  IN up[hole]

\* Mutant of PercolateDown: only the left child is looked at.
PercolateDownLeft(a, n, ex, hole) ==
  LET t == a[hole]
      down[i \in DOMAIN a] ==
        IF 2 * i + 1 < n /\ ex[a[2 * i + 1]] < ex[t]
        THEN [down[2 * i + 1] EXCEPT ![i] = a[2 * i + 1]]
        ELSE [a EXCEPT ![i] = t]
  IN down[hole]

\* The hole moves down, the earlier child up into it, until what was in the hole
\* expires no later than either child.
PercolateDown(a, n, ex, hole) ==
  LET t == a[hole]
      child(i) == IF 2 * i + 2 < n /\ ex[a[2 * i + 2]] < ex[a[2 * i + 1]] THEN 2 * i + 2 ELSE 2 * i + 1
      down[i \in DOMAIN a] ==
        IF 2 * i + 1 < n /\ ex[a[child(i)]] < ex[t]
        THEN [down[child(i)] EXCEPT ![i] = a[child(i)]]
        ELSE [a EXCEPT ![i] = t]
  IN down[hole]

\* What the second constructor makes of an array: percolate_down from the
\* parent of the last timer to the top.
Heapify(a, n, ex) ==
  LET from[i \in 0 .. n] == IF i = 0 THEN a ELSE PercolateDown(from[i - 1], n, ex, (n - 1) \div 2 + 1 - i)
  IN IF n = 0 THEN a ELSE from[(n - 1) \div 2 + 1]

\* A heap is made empty, or from an array of timers.
Init ==
  /\ capacity = Cap
  /\ cur_size \in 0 .. Cap
  /\ \E init \in [0 .. cur_size - 1 -> Timers] :
       LET given == {init[i] : i \in 0 .. cur_size - 1}
       IN /\ Cardinality(given) = cur_size
          /\ \E ex \in [given -> 0 .. MaxDelay] :
               expire = [t \in Timers |-> IF t \in given THEN ex[t] ELSE 0]
          /\ array = Heapify([i \in 0 .. Cap - 1 |-> IF i < cur_size THEN init[i] ELSE NULL], cur_size, expire)
          /\ cb_func = [t \in Timers |-> t \in given]
  /\ clock = 0
  /\ cur = NotSet

-----------------------------------------------------------------------------
\* Room for one more: the array is copied to one of twice the capacity.
Grown == IF cur_size < capacity THEN array
         ELSE [i \in 0 .. 2 * capacity - 1 |-> IF i < cur_size THEN array[i] ELSE NULL]

add_timer(t, delay) ==
  /\ cur = NotSet
  /\ t \notin InHeap
  /\ expire' = [expire EXCEPT ![t] = clock + delay]
  /\ cb_func' = [cb_func EXCEPT ![t] = TRUE]
  /\ array' = PercolateUp(Grown, expire', t, cur_size)
  /\ capacity' = IF cur_size < capacity THEN capacity ELSE 2 * capacity
  /\ cur_size' = cur_size + 1
  /\ UNCHANGED <<clock, cur>>

\* The timer stays where it is.
del_timer(t) ==
  /\ cur = NotSet
  /\ t \in InHeap /\ cb_func[t]
  /\ cb_func' = [cb_func EXCEPT ![t] = FALSE]
  /\ UNCHANGED <<array, capacity, cur_size, expire, clock, cur>>

TickBegin ==
  /\ cur = NotSet
  /\ cur' = clock
  /\ UNCHANGED <<array, capacity, cur_size, expire, cb_func, clock>>

\* Mutant of Popped: the last timer is put at the top and left there.
PoppedOnly == [array EXCEPT ![0] = array[cur_size - 1]]

\* pop_timer: the last timer takes the place of the first, and moves down.
Popped == PercolateDown([array EXCEPT ![0] = array[cur_size - 1]], cur_size - 1, expire, 0)

FirstIsDue == cur_size > 0 /\ array[0] # NULL /\ expire[array[0]] <= cur

\* The first timer's callback runs, if it has one, and it is popped and freed.
TickPops ==
  /\ cur # NotSet
  /\ FirstIsDue
  /\ array' = Popped
  /\ cur_size' = cur_size - 1
  /\ expire' = [expire EXCEPT ![array[0]] = 0]
  /\ cb_func' = [cb_func EXCEPT ![array[0]] = FALSE]
  /\ UNCHANGED <<capacity, clock, cur>>

TickEnd ==
  /\ cur # NotSet
  /\ ~FirstIsDue
  /\ cur' = NotSet
  /\ UNCHANGED <<array, capacity, cur_size, expire, cb_func, clock>>

TimePasses ==
  /\ clock < MaxTime
  /\ clock' = clock + 1
  /\ UNCHANGED <<array, capacity, cur_size, expire, cb_func, cur>>

Next ==
  \/ \E t \in Timers : (\E delay \in 0 .. MaxDelay : add_timer(t, delay)) \/ del_timer(t)
  \/ TickBegin
  \/ TickPops
  \/ TickEnd
  \/ TimePasses

Spec == Init /\ [][Next]_vars

-----------------------------------------------------------------------------
(* Properties. *)

\* Types; the timers in the heap are different ones, and fit in the array.
TypeOK ==
  /\ capacity \in Nat
  /\ cur_size \in 0 .. capacity
  /\ array \in [0 .. capacity - 1 -> Timers \union {NULL}]
  /\ InHeap \subseteq Timers /\ Cardinality(InHeap) = cur_size
  /\ expire \in [Timers -> Nat]
  /\ cb_func \in [Timers -> BOOLEAN]
  /\ clock \in Nat
  /\ cur \in Nat \union {NotSet}

\* No timer expires before its parent: after any adds and pops, growing, and
\* making a heap of an array (add_timer, pop_timer and the constructor move the
\* hole by index arithmetic, 64-67, 98-109 and 166-187).
HeapOrdered ==
  \A i \in 1 .. cur_size - 1 : expire[array[Parent(i)]] <= expire[array[i]]

\* The heap is a set of alarms: its timers that have a callback.  One deleted
\* lazily never fires, and does not hold back those behind it.
Alarm == INSTANCE Alarms WITH
  due <- [t \in Timers |-> IF t \in InHeap /\ cb_func[t] THEN expire[t] ELSE NotSet]

ImplementsAlarms == Alarm!ASpec
=============================================================================
