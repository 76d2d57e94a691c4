----------------------------- MODULE TimeWheel -----------------------------
(***************************************************************************)
(* HP/11/11-5tw_timer.h: a wheel of N slots, one of which is current.  A   *)
(* timer is put so many slots further on, and waits there for so many full *)
(* turns (rotation).                                                       *)
(*                                                                         *)
(* A slot's list is a set here: add puts a timer at its front, a tick      *)
(* walks it and takes out those that fire, and nothing depends on the      *)
(* order.  A callback does not use the wheel.                              *)
(***************************************************************************)
EXTENDS Integers, FiniteSets

CONSTANTS
  Timers,      \* the timers there may be at one time
  N, TI,       \* slots of the wheel, and the time between two ticks
  MaxTimeout,  \* bound: the longest timeout asked for
  MaxTicks,    \* bound: ticks
  NotSet       \* the due time of a timer that does not exist

ASSUME WheelAssumption ==
  /\ N \in Nat \ {0} /\ TI \in Nat \ {0}
  /\ MaxTimeout \in Nat /\ MaxTicks \in Nat
  /\ NotSet \notin Nat

Slots == 0 .. N - 1

VARIABLES
  slots,                \* the timers in each slot
  rotation, time_slot,  \* of each timer
  cur_slot,
  ticking,              \* tick is under way
  tmp,                  \* the timers of the slot it has not come to yet
  now,                  \* history: how many ticks have ended
  due                   \* history: the tick each timer was set for

wheel == <<slots, rotation, time_slot, cur_slot>>
vars == <<wheel, ticking, tmp, now, due>>

Init ==
  /\ slots = [s \in Slots |-> {}]
  /\ rotation = [t \in Timers |-> 0]
  /\ time_slot = [t \in Timers |-> 0]
  /\ cur_slot = 0
  /\ ticking = FALSE
  /\ tmp = {}
  /\ now = 0
  /\ due = [t \in Timers |-> NotSet]

Live == {t \in Timers : \E s \in Slots : t \in slots[s]}

\* How many ticks a timeout is: part of a tick counts as one only if there is
\* no whole one.
Ticks(timeout) == IF timeout < TI THEN 1 ELSE timeout \div TI

\* Mutant of Place: the turns counted from the current slot.
PlaceByTurn(ticks) == [rotation |-> (cur_slot + ticks) \div N, slot |-> (cur_slot + ticks) % N]

\* Where a timer goes that is to wait for so many ticks.
Place(ticks) == [rotation |-> ticks \div N, slot |-> (cur_slot + (ticks % N)) % N]

\* A negative timeout is refused, which changes nothing.
add_timer(t, timeout) ==
  /\ ~ticking
  /\ t \notin Live
  /\ LET place == Place(Ticks(timeout))
     IN /\ slots' = [slots EXCEPT ![place.slot] = @ \union {t}]
        /\ rotation' = [rotation EXCEPT ![t] = place.rotation]
        /\ time_slot' = [time_slot EXCEPT ![t] = place.slot]
  /\ due' = [due EXCEPT ![t] = now + Ticks(timeout)]
  /\ UNCHANGED <<cur_slot, ticking, tmp, now>>

\* The timer is unlinked from the slot it says it is in.
del_timer(t) ==
  /\ ~ticking
  /\ t \in Live
  /\ slots' = [slots EXCEPT ![time_slot[t]] = @ \ {t}]
  /\ due' = [due EXCEPT ![t] = NotSet]
  /\ UNCHANGED <<rotation, time_slot, cur_slot, ticking, tmp, now>>

-----------------------------------------------------------------------------
(* tick *)

TickBegin ==
  /\ ~ticking
  /\ now < MaxTicks
  /\ ticking' = TRUE
  /\ tmp' = slots[cur_slot]
  /\ UNCHANGED <<wheel, now, due>>

\* The callback runs and the timer is deleted.
TickFires(t) ==
  /\ ticking /\ t \in tmp
  /\ rotation[t] = 0
  /\ tmp' = tmp \ {t}
  /\ slots' = [slots EXCEPT ![cur_slot] = @ \ {t}]
  /\ due' = [due EXCEPT ![t] = NotSet]
  /\ UNCHANGED <<rotation, time_slot, cur_slot, ticking, now>>

TickTurns(t) ==
  /\ ticking /\ t \in tmp
  /\ rotation[t] > 0
  /\ tmp' = tmp \ {t}
  /\ rotation' = [rotation EXCEPT ![t] = @ - 1]
  /\ UNCHANGED <<slots, time_slot, cur_slot, ticking, now, due>>

TickEnd ==
  /\ ticking /\ tmp = {}
  /\ ticking' = FALSE
  /\ cur_slot' = (cur_slot + 1) % N
  /\ now' = now + 1
  /\ UNCHANGED <<slots, rotation, time_slot, tmp, due>>

Next ==
  \/ \E t \in Timers :
       \/ \E timeout \in 0 .. MaxTimeout : add_timer(t, timeout)
       \/ del_timer(t) \/ TickFires(t) \/ TickTurns(t)
  \/ TickBegin
  \/ TickEnd

Spec == Init /\ [][Next]_vars

-----------------------------------------------------------------------------
(* Properties. *)

\* Types; a timer is in the slot that it says it is in, and no other, and the
\* part of a slot that a tick has yet to visit is part of that slot.
TypeOK ==
  /\ slots \in [Slots -> SUBSET Timers]
  /\ rotation \in [Timers -> Nat]
  /\ time_slot \in [Timers -> Slots]
  /\ cur_slot \in Slots
  /\ ticking \in BOOLEAN
  /\ now \in Nat
  /\ due \in [Timers -> Nat \union {NotSet}]
  /\ \A s \in Slots : \A t \in slots[s] : time_slot[t] = s
  /\ tmp \subseteq slots[cur_slot]
  /\ ~ticking => tmp = {}

\* How many slots on from slot c slot s is.
Gap(c, s) == IF c <= s THEN s - c ELSE s - c + N

\* The tick under way has already counted the turn of t.
Visited(t) == ticking /\ time_slot[t] = cur_slot /\ t \notin tmp

TurnsLeft(t) == rotation[t] + (IF Visited(t) THEN 1 ELSE 0)

\* A timer is in the wheel as long as it is to fire, and what the wheel makes
\* of its slot and rotation is the tick it was set for (the arithmetic of
\* add_timer against that of tick, 62-72 and 120-152).
OnTime ==
  /\ Live = {t \in Timers : due[t] # NotSet}
  /\ \A t \in Live : due[t] = now + Gap(cur_slot, time_slot[t]) + N * TurnsLeft(t)

\* The wheel is a set of alarms that counts in ticks: each timer's callback
\* runs in the very tick it was set for, however many turns away, unless it
\* is deleted first, and never twice.
Alarm == INSTANCE Alarms WITH clock <- now, cur <- IF ticking THEN now ELSE NotSet

ImplementsAlarms == Alarm!ASpec
=============================================================================
