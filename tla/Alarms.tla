------------------------------- MODULE Alarms -------------------------------
(***************************************************************************)
(* What the three timer containers of HP/11 promise (11-2lst_timer.h,      *)
(* 11-5tw_timer.h, 11-6time_heap.h): the callback of a timer runs in the   *)
(* first tick at or after its time, once, and never if it was deleted.     *)
(*                                                                         *)
(* A tick looks at the clock once, when it begins.  Time is whatever the   *)
(* container counts in: seconds, or ticks themselves.                      *)
(***************************************************************************)
EXTENDS Naturals

CONSTANTS
  Timers,   \* the timers that may be set
  NotSet    \* no time, and no tick: not a number

VARIABLES
  due,      \* when each timer is due, or NotSet
  clock,
  cur       \* the time the tick under way goes by, or NotSet

avars == <<due, clock, cur>>

Pending == {t \in Timers : due[t] # NotSet}

\* A container may be made with timers in it.
AInit ==
  /\ due \in [Timers -> Nat \union {NotSet}]
  /\ clock \in Nat
  /\ cur = NotSet

\* add_timer
Set(t) ==
  /\ cur = NotSet
  /\ t \notin Pending
  /\ due'[t] \in Nat
  /\ due' = [due EXCEPT ![t] = due'[t]]
  /\ UNCHANGED <<clock, cur>>

\* adjust_timer: the timer is put off.
PutOff(t) ==
  /\ cur = NotSet
  /\ t \in Pending
  /\ due'[t] \in Nat /\ due'[t] >= due[t]
  /\ due' = [due EXCEPT ![t] = due'[t]]
  /\ UNCHANGED <<clock, cur>>

\* del_timer
Cancel(t) ==
  /\ cur = NotSet
  /\ t \in Pending
  /\ due' = [due EXCEPT ![t] = NotSet]
  /\ UNCHANGED <<clock, cur>>

BeginTick ==
  /\ cur = NotSet
  /\ cur' = clock
  /\ UNCHANGED <<due, clock>>

\* The timer's callback runs.
Fire(t) ==
  /\ cur # NotSet
  /\ t \in Pending
  /\ due[t] <= cur
  /\ due' = [due EXCEPT ![t] = NotSet]
  /\ UNCHANGED <<clock, cur>>

\* A tick ends when none that is due is left.
EndTick ==
  /\ cur # NotSet
  /\ \A t \in Pending : due[t] > cur
  /\ cur' = NotSet
  /\ clock' \in Nat /\ clock' >= clock
  /\ UNCHANGED due

TimePasses ==
  /\ clock' \in Nat /\ clock' > clock
  /\ UNCHANGED <<due, cur>>

ANext ==
  \/ \E t \in Timers : Set(t) \/ PutOff(t) \/ Cancel(t) \/ Fire(t)
  \/ BeginTick
  \/ EndTick
  \/ TimePasses

ASpec == AInit /\ [][ANext]_avars
=============================================================================
