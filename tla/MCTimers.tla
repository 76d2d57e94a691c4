------------------------------ MODULE MCTimers ------------------------------
(* The three containers of timers.  which, chosen in Init, says whose           *)
(* behaviour it is; the others' variables stay as they are at first.            *)
(*                                                                              *)
(* Two timers on a wheel of three slots, with timeouts of up to two turns and a *)
(* tick, over three turns.  A list of four, so that it has an inside to unlink  *)
(* from, set up to two units ahead over three units of time.  A heap of five,   *)
(* so of three levels, made from an array of up to four and grown by the fifth. *)
EXTENDS TimeWheel, TLC
CONSTANTS NULL, ListTimers, HeapTimers, Cap, ListMaxTime, HeapMaxTime, MaxDelay

\* Timers are told from no timer, and times from no time; a heap has room for one.
ASSUME TimersAssumption ==
  /\ IsFiniteSet(ListTimers) /\ NULL \notin ListTimers
  /\ IsFiniteSet(HeapTimers) /\ NULL \notin HeapTimers
  /\ NotSet \notin Nat
  /\ Cap \in Nat \ {0}

VARIABLES lst, alive, expire, clock, cur
VARIABLES array, capacity, cur_size, hexpire, cb_func, hclock, hcur
VARIABLE which

List == INSTANCE SortTimerList WITH Timers <- ListTimers, MaxTime <- ListMaxTime
Heap == INSTANCE TimeHeap WITH
  Timers <- HeapTimers, MaxTime <- HeapMaxTime, expire <- hexpire, clock <- hclock, cur <- hcur

listvars == <<lst, alive, expire, clock, cur>>
heapvars == <<array, capacity, cur_size, hexpire, cb_func, hclock, hcur>>

\* Nothing tells the heap's timers apart.  (Nor the others': their runs are short.)
Symmetry == Permutations(HeapTimers)

MCInit ==
  /\ which \in {"wheel", "list", "heap"}
  /\ Init /\ List!Init
  /\ Heap!Init /\ (which # "heap" => cur_size = 0)

MCNext ==
  \/ which = "wheel" /\ Next /\ UNCHANGED <<listvars, heapvars, which>>
  \/ which = "list" /\ List!Next /\ UNCHANGED <<vars, heapvars, which>>
  \/ which = "heap" /\ Heap!Next /\ UNCHANGED <<vars, listvars, which>>

MCSpec == MCInit /\ [][MCNext]_<<vars, listvars, heapvars, which>>

\* The list's links and the heap's order: SortTimerList's WellLinked, TimeHeap's
\* HeapOrdered.
Structures == List!WellLinked /\ Heap!HeapOrdered

\* What Alarms promises, of the list and of the heap, each with its own state mapped to
\* it (the wheel's mapping is ImplementsAlarms): no container loses a timer, calls one
\* early or calls one twice.
OthersImplementAlarms == List!ImplementsAlarms /\ Heap!ImplementsAlarms
=============================================================================
