---------------------------- MODULE Timers_proofs ----------------------------
(***************************************************************************)
(* The timer containers of HP/11, for any number of timers, slots and      *)
(* cells: the wheel of 11-5tw_timer.h, the sorted list of 11-2lst_timer.h  *)
(* and the heap of 11-6time_heap.h fire each timer in the first tick at or *)
(* after its time, and keep their links and their order.                   *)
(*                                                                         *)
(* The wheel: OnTime is inductive together with TypeOK.  What it takes is  *)
(* arithmetic: add_timer splits a number of ticks into turns and slots,    *)
(* and a step of the wheel takes one from the gap to every slot, except    *)
(* that to the current one, whose timers go from the nearest to the        *)
(* farthest place and lose a turn for it.                                  *)
(*                                                                         *)
(* The list: there is a sequence of the timers, by expiry, that the links  *)
(* follow both ways (ListInv).  Each operation takes one out of it, puts   *)
(* one in, or both; what it does to the links at those places and nowhere  *)
(* else is said by Cut and Spliced.                                        *)
(*                                                                         *)
(* The heap: the first cells hold different timers, none before its parent *)
(* (HeapInv).  The percolations are recursive functions of the hole; that  *)
(* there are such functions, and what they give, holds as there would be a *)
(* least cell, or a last one, where it does not.                           *)
(***************************************************************************)
EXTENDS MCTimers, SequenceTheorems, FiniteSetTheorems, WellFoundedInduction, TLAPS

-----------------------------------------------------------------------------
(* The wheel. *)

\* Division of a natural number.
LEMMA DivMod ==
  ASSUME NEW n \in Nat \ {0}, NEW a \in Nat
  PROVE  (a % n) \in 0 .. n - 1 /\ (a \div n) \in Nat /\ a = n * (a \div n) + (a % n)
BY SMTT(30)

\* A sum of two slots goes round the wheel at most once.
LEMMA WrapOnce ==
  ASSUME NEW n \in Nat \ {0}, NEW x \in Nat, x < 2 * n
  PROVE  (x % n) = IF x < n THEN x ELSE x - n
BY SMTT(30)

LEMMA WrapInWheel ==
  \A x \in Nat : x < 2 * N => (x % N) = IF x < N THEN x ELSE x - N
BY WrapOnce, WheelAssumption

LEMMA TicksType ==
  ASSUME NEW timeout \in Nat
  PROVE  Ticks(timeout) \in Nat
<1>1. TI \in Nat \ {0}
  BY WheelAssumption
<1>2. (timeout \div TI) \in Nat
  BY <1>1, DivMod
<1> QED
  BY <1>2 DEF Ticks

\* A timer is placed at a distance and with a rotation that make up its ticks.
LEMMA PlaceIsExact ==
  ASSUME cur_slot \in Slots, NEW ticks \in Nat
  PROVE  /\ Place(ticks).slot \in Slots
         /\ Place(ticks).rotation \in Nat
         /\ ticks = Gap(cur_slot, Place(ticks).slot) + N * Place(ticks).rotation
<1> DEFINE a == ticks % N
           q == ticks \div N
           s == (cur_slot + a) % N
<1>1. a \in 0 .. N - 1 /\ q \in Nat /\ ticks = N * q + a
  <2>1. N \in Nat \ {0}
    BY WheelAssumption
  <2> QED
    BY <2>1, DivMod
<1>2. Place(ticks).slot = s /\ Place(ticks).rotation = q
  BY DEF Place
<1> HIDE DEF a, q
<1>3. cur_slot \in 0 .. N - 1 /\ N \in Nat \ {0}
  BY WheelAssumption DEF Slots
<1>4. s = IF cur_slot + a < N THEN cur_slot + a ELSE cur_slot + a - N
  <2>1. (cur_slot + a) \in Nat /\ cur_slot + a < 2 * N
    BY <1>1, <1>3
  <2> QED
    BY <1>1, <1>3, <2>1, WrapInWheel
<1> HIDE DEF s
<1>5. s \in Slots
  BY <1>1, <1>3, <1>4 DEF Slots
<1>6. Gap(cur_slot, s) = a
  BY <1>1, <1>3, <1>4 DEF Gap
<1>7. N * q \in Nat
  BY <1>1, <1>3
<1> QED
  BY <1>1, <1>2, <1>5, <1>6, <1>7

\* One step of the wheel.
LEMMA StepGap ==
  ASSUME NEW c \in Slots, NEW s \in Slots, NEW d, d = (c + 1) % N
  PROVE  /\ d \in Slots
         /\ Gap(c, s) \in Nat
         /\ s = c => Gap(c, s) = 0 /\ Gap(d, s) = N - 1
         /\ s # c => Gap(c, s) >= 1 /\ Gap(d, s) = Gap(c, s) - 1
<1>1. c \in 0 .. N - 1 /\ s \in 0 .. N - 1 /\ N \in Nat \ {0}
  BY WheelAssumption DEF Slots
<1>2. d = IF c + 1 < N THEN c + 1 ELSE c + 1 - N
  <2>1. (c + 1) \in Nat /\ c + 1 < 2 * N
    BY <1>1
  <2> QED
    BY <1>1, <2>1, WrapInWheel
<1>3. d = IF c + 1 < N THEN c + 1 ELSE 0
  BY <1>1, <1>2
<1> QED
  BY <1>1, <1>3 DEF Gap, Slots

\* A timer's tick adds up in the natural numbers.
LEMMA GapType ==
  ASSUME NEW c \in Slots, NEW s \in Slots
  PROVE  Gap(c, s) \in Nat
BY WheelAssumption DEF Gap, Slots

WheelInv == TypeOK /\ OnTime

\* A live timer is in the slot that it names, and in no other.
LEMMA LiveSlot ==
  ASSUME TypeOK, NEW t \in Timers
  PROVE  /\ t \in Live <=> t \in slots[time_slot[t]]
         /\ \A s \in Slots : t \in slots[s] => time_slot[t] = s
BY DEF TypeOK, Live

LEMMA WheelInit == Init => WheelInv
<1> SUFFICES ASSUME Init PROVE WheelInv
  OBVIOUS
<1>1. 0 \in Slots
  BY WheelAssumption DEF Slots
<1>2. TypeOK
  BY <1>1 DEF Init, TypeOK
<1>3. Live = {} /\ {t \in Timers : due[t] # NotSet} = {}
  BY DEF Init, Live
<1> QED
  BY <1>2, <1>3 DEF WheelInv, OnTime

LEMMA AddInv ==
  ASSUME WheelInv, NEW t \in Timers, NEW timeout \in 0 .. MaxTimeout, add_timer(t, timeout)
  PROVE  WheelInv'
<1> DEFINE ticks == Ticks(timeout)
           place == Place(ticks)
<1>1. ticks \in Nat
  BY TicksType, WheelAssumption
<1>2. /\ place.slot \in Slots /\ place.rotation \in Nat
      /\ ticks = Gap(cur_slot, place.slot) + N * place.rotation
  BY <1>1, PlaceIsExact DEF WheelInv, TypeOK
<1>3. /\ slots' = [slots EXCEPT ![place.slot] = @ \union {t}]
      /\ rotation' = [rotation EXCEPT ![t] = place.rotation]
      /\ time_slot' = [time_slot EXCEPT ![t] = place.slot]
      /\ due' = [due EXCEPT ![t] = now + ticks]
      /\ cur_slot' = cur_slot /\ ticking' = ticking /\ tmp' = tmp /\ now' = now
      /\ ~ticking /\ t \notin Live
  BY DEF add_timer
<1> HIDE DEF ticks, place
<1>4. TypeOK'
  <2>1. \A s \in Slots : t \notin slots[s]
    BY <1>3 DEF Live
  <2>2. tmp' \subseteq slots'[cur_slot']
    BY <1>2, <1>3 DEF WheelInv, TypeOK
  <2>3. \A s \in Slots : \A u \in slots'[s] : time_slot'[u] = s
    BY <1>2, <1>3, <2>1 DEF WheelInv, TypeOK
  <2> QED
    BY <1>1, <1>2, <1>3, <2>2, <2>3, WheelAssumption DEF WheelInv, TypeOK
<1>5. Live' = Live \union {t}
  BY <1>2, <1>3 DEF Live, WheelInv, TypeOK
<1>6. Live' = {u \in Timers : due'[u] # NotSet}
  <2>1. now + ticks # NotSet
    BY <1>1, WheelAssumption DEF WheelInv, TypeOK
  <2> QED
    BY <1>3, <1>5, <2>1 DEF WheelInv, TypeOK, OnTime
<1>7. ASSUME NEW u \in Live'
      PROVE  due'[u] = now' + Gap(cur_slot', time_slot'[u]) + N * TurnsLeft(u)'
  <2>1. TurnsLeft(u)' = rotation'[u]
    <3>1. ~Visited(u)'
      BY <1>3 DEF Visited
    <3>2. rotation'[u] \in Nat
      BY <1>4 DEF TypeOK, Live
    <3> QED
      BY <3>1, <3>2 DEF TurnsLeft
  <2>2. CASE u = t
    <3>1. time_slot'[u] = place.slot /\ rotation'[u] = place.rotation /\ due'[u] = now + ticks
      BY <2>2, <1>3 DEF WheelInv, TypeOK
    <3>2. now \in Nat /\ Gap(cur_slot, place.slot) \in Nat /\ N * place.rotation \in Nat
      BY <1>2, GapType, WheelAssumption DEF WheelInv, TypeOK
    <3>3. now + ticks = now + Gap(cur_slot, place.slot) + N * place.rotation
      BY <1>2, <3>2
    <3> QED
      BY <1>3, <2>1, <3>1, <3>3
  <2>3. CASE u # t
    <3>1. u \in Live /\ u \in Timers
      BY <1>5, <2>3 DEF Live
    <3>2. time_slot'[u] = time_slot[u] /\ rotation'[u] = rotation[u] /\ due'[u] = due[u]
      BY <1>3, <2>3, <3>1 DEF WheelInv, TypeOK
    <3>3. TurnsLeft(u) = rotation[u]
      BY <1>3, <3>1 DEF TurnsLeft, Visited, WheelInv, TypeOK
    <3> QED
      BY <1>3, <2>1, <3>1, <3>2, <3>3 DEF WheelInv, OnTime
  <2> QED
    BY <2>2, <2>3
<1> QED
  BY <1>4, <1>6, <1>7 DEF WheelInv, OnTime

\* A timer leaves the wheel, deleted or fired, and the rest of it is as it was.
LEMMA TakeOutInv ==
  ASSUME WheelInv, NEW t \in Live,
         slots' = [slots EXCEPT ![time_slot[t]] = @ \ {t}],
         due' = [due EXCEPT ![t] = NotSet],
         tmp' = tmp \ {t},
         UNCHANGED <<rotation, time_slot, cur_slot, ticking, now>>
  PROVE  WheelInv'
<1>1. t \in Timers /\ time_slot[t] \in Slots
  BY DEF Live, WheelInv, TypeOK
<1>2. TypeOK'
  BY <1>1 DEF WheelInv, TypeOK
<1>3. Live' = Live \ {t}
  BY <1>1, LiveSlot DEF Live, WheelInv, TypeOK
<1>4. Live' = {u \in Timers : due'[u] # NotSet}
  BY <1>1, <1>3 DEF WheelInv, TypeOK, OnTime
<1>5. ASSUME NEW u \in Live'
      PROVE  due'[u] = now' + Gap(cur_slot', time_slot'[u]) + N * TurnsLeft(u)'
  <2>1. u # t /\ u \in Live /\ u \in Timers
    BY <1>3 DEF Live
  <2>2. due'[u] = due[u]
    BY <2>1 DEF WheelInv, TypeOK
  <2>3. TurnsLeft(u)' = TurnsLeft(u)
    BY <2>1 DEF TurnsLeft, Visited
  <2> QED
    BY <2>1, <2>2, <2>3 DEF WheelInv, OnTime
<1> QED
  BY <1>2, <1>4, <1>5 DEF WheelInv, OnTime

LEMMA DelInv ==
  ASSUME WheelInv, NEW t \in Timers, del_timer(t)
  PROVE  WheelInv'
<1>1. tmp' = tmp \ {t}
  BY DEF del_timer, WheelInv, TypeOK
<1> QED
  BY <1>1, TakeOutInv DEF del_timer

LEMMA TickFiresInv ==
  ASSUME WheelInv, NEW t \in Timers, TickFires(t)
  PROVE  WheelInv'
<1>1. t \in Live /\ time_slot[t] = cur_slot
  BY DEF TickFires, Live, WheelInv, TypeOK
<1> QED
  BY <1>1, TakeOutInv DEF TickFires

\* A tick that begins has visited none of the slot.
LEMMA TickBeginInv ==
  ASSUME WheelInv, TickBegin
  PROVE  WheelInv'
<1>1. TypeOK'
  BY DEF TickBegin, wheel, WheelInv, TypeOK
<1>2. Live' = Live
  BY DEF TickBegin, wheel, Live
<1>3. ASSUME NEW u \in Live
      PROVE  TurnsLeft(u)' = TurnsLeft(u)
  BY LiveSlot DEF TickBegin, wheel, TurnsLeft, Visited, Live, WheelInv, TypeOK
<1>4. \A u \in Live' : due'[u] = now' + Gap(cur_slot', time_slot'[u]) + N * TurnsLeft(u)'
  BY <1>2, <1>3 DEF TickBegin, wheel, WheelInv, OnTime
<1>5. Live' = {u \in Timers : due'[u] # NotSet}
  BY <1>2 DEF TickBegin, WheelInv, OnTime
<1> QED
  BY <1>1, <1>4, <1>5 DEF WheelInv, OnTime

\* The turn taken from the rotation is the one that the visit counts.
LEMMA TickTurnsInv ==
  ASSUME WheelInv, NEW t \in Timers, TickTurns(t)
  PROVE  WheelInv'
<1>1. TypeOK'
  BY DEF TickTurns, WheelInv, TypeOK
<1>2. Live' = Live
  BY DEF TickTurns, Live
<1>3. time_slot[t] = cur_slot
  BY DEF TickTurns, WheelInv, TypeOK
<1>4. ASSUME NEW u \in Live
      PROVE  TurnsLeft(u)' = TurnsLeft(u)
  <2>1. u \in Timers
    BY DEF Live
  <2>2. CASE u = t
    <3>1. ~Visited(t) /\ Visited(t)'
      BY <1>3 DEF TickTurns, Visited
    <3>2. rotation'[t] = rotation[t] - 1 /\ rotation[t] \in Nat
      BY DEF TickTurns, WheelInv, TypeOK
    <3> QED
      BY <2>2, <3>1, <3>2 DEF TurnsLeft
  <2>3. CASE u # t
    BY <2>1, <2>3 DEF TickTurns, TurnsLeft, Visited, WheelInv, TypeOK
  <2> QED
    BY <2>2, <2>3
<1>5. \A u \in Live' : due'[u] = now' + Gap(cur_slot', time_slot'[u]) + N * TurnsLeft(u)'
  BY <1>2, <1>4 DEF TickTurns, WheelInv, OnTime
<1>6. Live' = {u \in Timers : due'[u] # NotSet}
  BY <1>2 DEF TickTurns, WheelInv, OnTime
<1> QED
  BY <1>1, <1>5, <1>6 DEF WheelInv, OnTime

\* The wheel steps.  A timer of the slot it leaves is N - 1 slots away, and has
\* a turn less to wait for.
LEMMA TickEndInv ==
  ASSUME WheelInv, TickEnd
  PROVE  WheelInv'
<1>1. /\ cur_slot' = (cur_slot + 1) % N
      /\ now' = now + 1
      /\ ticking /\ tmp = {} /\ ticking' = FALSE /\ tmp' = tmp
      /\ slots' = slots /\ rotation' = rotation /\ time_slot' = time_slot /\ due' = due
  BY DEF TickEnd
<1>2. cur_slot \in Slots /\ now \in Nat
  BY DEF WheelInv, TypeOK
<1>3. cur_slot' \in Slots
  BY <1>1, <1>2, StepGap
<1>4. TypeOK'
  <2>1. now' \in Nat
    BY <1>1, <1>2
  <2>2. tmp' \subseteq slots'[cur_slot']
    BY <1>1
  <2> QED
    BY <1>1, <1>3, <2>1, <2>2 DEF WheelInv, TypeOK
<1>5. Live' = Live
  BY <1>1 DEF Live
<1>6. ASSUME NEW u \in Live
      PROVE  due[u] = now' + Gap(cur_slot', time_slot[u]) + N * TurnsLeft(u)'
  <2> DEFINE g == Gap(cur_slot, time_slot[u])
             h == Gap(cur_slot', time_slot[u])
             r == rotation[u]
  <2>1. time_slot[u] \in Slots /\ r \in Nat
    BY DEF Live, WheelInv, TypeOK
  <2>2. due[u] = now + g + N * TurnsLeft(u)
    BY DEF WheelInv, OnTime
  <2>3. TurnsLeft(u)' = r
    BY <1>1, <2>1 DEF TurnsLeft, Visited
  <2>4. N * r \in Nat /\ N \in Nat
    BY <2>1, WheelAssumption
  <2>5. CASE time_slot[u] = cur_slot
    <3>1. g = 0 /\ h = N - 1
      BY <2>5, <1>1, <1>2, StepGap
    <3>2. TurnsLeft(u) = r + 1
      BY <2>5, <1>1 DEF TurnsLeft, Visited
    <3>3. N * (r + 1) = N * r + N
      BY <2>1, <2>4
    <3> QED
      BY <1>1, <1>2, <2>2, <2>3, <2>4, <3>1, <3>2, <3>3
  <2>6. CASE time_slot[u] # cur_slot
    <3>1. g >= 1 /\ h = g - 1 /\ g \in Nat
      BY <2>1, <2>6, <1>1, <1>2, StepGap
    <3>2. TurnsLeft(u) = r
      BY <2>1, <2>6 DEF TurnsLeft, Visited
    <3> QED
      BY <1>1, <1>2, <2>2, <2>3, <2>4, <3>1, <3>2
  <2> QED
    BY <2>5, <2>6
<1>7. Live' = {u \in Timers : due'[u] # NotSet}
  BY <1>1, <1>5 DEF WheelInv, OnTime
<1> QED
  BY <1>1, <1>4, <1>5, <1>6, <1>7 DEF WheelInv, OnTime

LEMMA WheelStep == WheelInv /\ [Next]_vars => WheelInv'
<1> SUFFICES ASSUME WheelInv, [Next]_vars PROVE WheelInv'
  OBVIOUS
<1>1. ASSUME NEW t \in Timers, NEW timeout \in 0 .. MaxTimeout, add_timer(t, timeout)
      PROVE  WheelInv'
  BY <1>1, AddInv
<1>2. ASSUME NEW t \in Timers, del_timer(t)
      PROVE  WheelInv'
  BY <1>2, DelInv
<1>3. ASSUME NEW t \in Timers, TickFires(t)
      PROVE  WheelInv'
  BY <1>3, TickFiresInv
<1>4. ASSUME NEW t \in Timers, TickTurns(t)
      PROVE  WheelInv'
  BY <1>4, TickTurnsInv
<1>5. CASE TickBegin
  BY <1>5, TickBeginInv
<1>6. CASE TickEnd
  BY <1>6, TickEndInv
<1>7. CASE UNCHANGED vars
  BY <1>7 DEF vars, wheel, WheelInv, TypeOK, OnTime, Live, TurnsLeft, Visited
<1> QED
  BY <1>1, <1>2, <1>3, <1>4, <1>5, <1>6, <1>7 DEF Next

THEOREM WheelInvHolds == Spec => []WheelInv
BY WheelInit, WheelStep, PTL DEF Spec

\* Types, and where the timers are (TypeOK).
THEOREM TypeCorrect == Spec => []TypeOK
<1>1. WheelInv => TypeOK
  BY DEF WheelInv
<1> QED
  BY <1>1, WheelInvHolds, PTL

\* Slot and rotation always add up to the tick a timer was set for (OnTime): the
\* arithmetic of add_timer and that of tick agree.
THEOREM OnTimeHolds == Spec => []OnTime
<1>1. WheelInv => OnTime
  BY DEF WheelInv
<1> QED
  BY <1>1, WheelInvHolds, PTL

-----------------------------------------------------------------------------
(* The wheel implements Alarms. *)

LEMMA WheelInitRefines == Init => Alarm!AInit
BY DEF Init, Alarm!AInit

LEMMA WheelAddRefines ==
  ASSUME WheelInv, NEW t \in Timers, NEW timeout \in 0 .. MaxTimeout, add_timer(t, timeout)
  PROVE  Alarm!Set(t)
<1>1. t \notin Alarm!Pending
  BY DEF add_timer, Alarm!Pending, WheelInv, OnTime
<1>2. due'[t] \in Nat /\ due' = [due EXCEPT ![t] = due'[t]]
  <2>1. (now + Ticks(timeout)) \in Nat
    BY TicksType, WheelAssumption DEF WheelInv, TypeOK
  <2> QED
    BY <2>1 DEF add_timer, WheelInv, TypeOK
<1> QED
  BY <1>1, <1>2 DEF add_timer, Alarm!Set

\* A timer that fires is due in the tick under way.
LEMMA WheelFiresRefines ==
  ASSUME WheelInv, NEW t \in Timers, TickFires(t)
  PROVE  Alarm!Fire(t)
<1>1. t \in Live /\ time_slot[t] = cur_slot
  BY DEF TickFires, Live, WheelInv, TypeOK
<1>2. TurnsLeft(t) = 0
  BY DEF TickFires, TurnsLeft, Visited, WheelInv, TypeOK
<1>3. Gap(cur_slot, time_slot[t]) = 0
  BY <1>1 DEF Gap, Slots, WheelInv, TypeOK
<1>4. due[t] = now
  BY <1>1, <1>2, <1>3, WheelAssumption DEF WheelInv, TypeOK, OnTime
<1> QED
  BY <1>1, <1>4, WheelAssumption DEF TickFires, Alarm!Fire, Alarm!Pending, WheelInv, TypeOK, OnTime

\* When the slot has been walked, none that is left is due.
LEMMA WheelEndRefines ==
  ASSUME WheelInv, TickEnd
  PROVE  Alarm!EndTick
<1>1. cur_slot \in Slots /\ now \in Nat /\ ticking /\ tmp = {} /\ N \in Nat \ {0}
  BY WheelAssumption DEF TickEnd, WheelInv, TypeOK
<1>2. ASSUME NEW t \in Live
      PROVE  due[t] > now
  <2>1. t \in Timers /\ time_slot[t] \in Slots /\ rotation[t] \in Nat
    BY DEF Live, WheelInv, TypeOK
  <2> DEFINE g == Gap(cur_slot, time_slot[t])
             k == TurnsLeft(t)
  <2>2. g \in Nat /\ k \in Nat
    BY <1>1, <2>1, GapType DEF TurnsLeft
  <2>3. due[t] = now + g + N * k
    BY DEF WheelInv, OnTime
  <2>4. g >= 1 \/ k >= 1
    <3>1. CASE time_slot[t] = cur_slot
      BY <3>1, <1>1, <2>1 DEF TurnsLeft, Visited
    <3>2. CASE time_slot[t] # cur_slot
      BY <3>2, <1>1, <2>1 DEF Gap, Slots
    <3> QED
      BY <3>1, <3>2
  <2> HIDE DEF g, k
  <2>5. N * k \in Nat /\ (k >= 1 => N * k >= 1)
    BY <1>1, <2>2
  <2> QED
    BY <1>1, <2>2, <2>3, <2>4, <2>5
<1>3. \A t \in Alarm!Pending : due[t] > now
  BY <1>2 DEF Alarm!Pending, WheelInv, OnTime
<1>4. now' \in Nat /\ now' >= now
  BY <1>1 DEF TickEnd
<1>5. now # NotSet
  BY <1>1, WheelAssumption
<1> QED
  BY <1>1, <1>3, <1>4, <1>5 DEF TickEnd, Alarm!EndTick

LEMMA WheelStepRefines == WheelInv /\ [Next]_vars => [Alarm!ANext]_(Alarm!avars)
<1> SUFFICES ASSUME WheelInv, [Next]_vars PROVE [Alarm!ANext]_(Alarm!avars)
  OBVIOUS
<1>1. ASSUME NEW t \in Timers, NEW timeout \in 0 .. MaxTimeout, add_timer(t, timeout)
      PROVE  Alarm!ANext
  BY <1>1, WheelAddRefines DEF Alarm!ANext
<1>2. ASSUME NEW t \in Timers, del_timer(t)
      PROVE  Alarm!ANext
  <2>1. Alarm!Cancel(t)
    BY <1>2 DEF del_timer, Alarm!Cancel, Alarm!Pending, WheelInv, OnTime
  <2> QED
    BY <2>1 DEF Alarm!ANext
<1>3. ASSUME NEW t \in Timers, TickFires(t)
      PROVE  Alarm!ANext
  BY <1>3, WheelFiresRefines DEF Alarm!ANext
<1>4. ASSUME NEW t \in Timers, TickTurns(t)
      PROVE  UNCHANGED Alarm!avars
  BY <1>4 DEF TickTurns, Alarm!avars
<1>5. CASE TickBegin
  <2>1. Alarm!BeginTick
    BY <1>5 DEF TickBegin, wheel, Alarm!BeginTick
  <2> QED
    BY <2>1 DEF Alarm!ANext
<1>6. CASE TickEnd
  BY <1>6, WheelEndRefines DEF Alarm!ANext
<1>7. CASE UNCHANGED vars
  BY <1>7 DEF vars, wheel, Alarm!avars
<1> QED
  BY <1>1, <1>2, <1>3, <1>4, <1>5, <1>6, <1>7 DEF Next

\* The wheel keeps the promise of Alarms (ImplementsAlarms): a callback runs in the
\* tick its timer was set for, once, and not if the timer was deleted.
THEOREM Refinement == Spec => ImplementsAlarms
<1>1. Init => Alarm!AInit
  BY WheelInitRefines
<1> QED
  BY <1>1, WheelStepRefines, WheelInvHolds, PTL DEF Spec, ImplementsAlarms, Alarm!ASpec

-----------------------------------------------------------------------------
(* The list: sequences of timers, and links. *)

\* Induction: a set of numbers that is not empty has a least.
LEMMA LeastMember == \A T \in SUBSET Nat : T # {} => \E x \in T : \A y \in T : x <= y
<1> SUFFICES ASSUME NEW T \in SUBSET Nat, T # {} PROVE \E x \in T : \A y \in T : x <= y
  OBVIOUS
<1> DEFINE R == OpToRel(<, Nat)
<1>1. IsWellFoundedOn(R, Nat)
  BY NatLessThanWellFounded
<1>2. \A x, y \in Nat : <<x, y>> \in R <=> x < y
  BY DEF OpToRel
<1> HIDE DEF R
<1>3. PICK x \in T : \A y \in T : <<y, x>> \notin R
  BY <1>1, WFMin
<1>4. \A y \in T : ~(y < x)
  <2> SUFFICES ASSUME NEW y \in T PROVE ~(y < x)
    OBVIOUS
  <2>1. <<y, x>> \notin R /\ x \in Nat /\ y \in Nat
    BY <1>3
  <2> QED
    BY <1>2, <2>1
<1>5. \A y \in T : x <= y
  <2> SUFFICES ASSUME NEW y \in T PROVE x <= y
    OBVIOUS
  <2>1. x \in Nat /\ y \in Nat /\ ~(y < x)
    BY <1>4
  <2> QED
    BY <2>1
<1> QED
  BY <1>5

-----------------------------------------------------------------------------
Links == [head : ListTimers \union {NULL}, tail : ListTimers \union {NULL},
          next : [ListTimers -> ListTimers \union {NULL}], prev : [ListTimers -> ListTimers \union {NULL}]]

Nodes(s) == {s[i] : i \in 1 .. Len(s)}

\* The links of l go through the nodes of s, in its order, and back.
Chain(l, s) ==
  /\ l \in Links /\ s \in Seq(ListTimers)
  /\ \A i, j \in 1 .. Len(s) : s[i] = s[j] => i = j
  /\ l.head = IF Len(s) = 0 THEN NULL ELSE s[1]
  /\ Len(s) # 0 => l.tail = s[Len(s)]
  /\ \A i \in 1 .. Len(s) : l.next[s[i]] = IF i = Len(s) THEN NULL ELSE s[i + 1]
  /\ \A i \in 1 .. Len(s) : l.prev[s[i]] = IF i = 1 THEN NULL ELSE s[i - 1]

Sorted(s, ex) == \A i, j \in 1 .. Len(s) : i <= j => ex[s[i]] <= ex[s[j]]

Without(s, k) == [i \in 1 .. Len(s) - 1 |-> IF i < k THEN s[i] ELSE s[i + 1]]
With(s, j, t) == [i \in 1 .. Len(s) + 1 |-> IF i <= j THEN s[i] ELSE IF i = j + 1 THEN t ELSE s[i - 1]]

LEMMA WithoutIs ==
  ASSUME NEW s \in Seq(ListTimers), NEW k \in 1 .. Len(s)
  PROVE  /\ Without(s, k) \in Seq(ListTimers) /\ Len(Without(s, k)) = Len(s) - 1
         /\ \A i \in 1 .. Len(s) - 1 : Without(s, k)[i] = IF i < k THEN s[i] ELSE s[i + 1]
<1>1. Len(s) \in Nat /\ Len(s) - 1 \in Nat /\ k \in Nat /\ k <= Len(s)
  BY LenProperties
<1>2. \A i \in 1 .. Len(s) - 1 : i \in 1 .. Len(s) /\ i + 1 \in 1 .. Len(s)
  BY <1>1
<1>3. \A i \in 1 .. Len(s) - 1 : (IF i < k THEN s[i] ELSE s[i + 1]) \in ListTimers
  BY <1>2, ElementOfSeq
<1>4. /\ Without(s, k) \in Seq(ListTimers) /\ Len(Without(s, k)) = Len(s) - 1
  BY <1>1, <1>3, IsASeq DEF Without
<1> QED
  BY <1>4 DEF Without

LEMMA WithIs ==
  ASSUME NEW s \in Seq(ListTimers), NEW j \in 0 .. Len(s), NEW t \in ListTimers
  PROVE  /\ With(s, j, t) \in Seq(ListTimers) /\ Len(With(s, j, t)) = Len(s) + 1
         /\ \A i \in 1 .. Len(s) + 1 :
              With(s, j, t)[i] = IF i <= j THEN s[i] ELSE IF i = j + 1 THEN t ELSE s[i - 1]
<1>1. Len(s) \in Nat /\ Len(s) + 1 \in Nat /\ j \in Nat /\ j <= Len(s)
  BY LenProperties
<1>2. \A i \in 1 .. Len(s) + 1 : /\ i <= j => i \in 1 .. Len(s)
                                 /\ ~(i <= j) /\ i # j + 1 => i - 1 \in 1 .. Len(s)
  BY <1>1
<1>3. \A i \in 1 .. Len(s) + 1 : (IF i <= j THEN s[i] ELSE IF i = j + 1 THEN t ELSE s[i - 1]) \in ListTimers
  BY <1>2, ElementOfSeq
<1>4. /\ With(s, j, t) \in Seq(ListTimers) /\ Len(With(s, j, t)) = Len(s) + 1
  BY <1>1, <1>3, IsASeq DEF With
<1> QED
  BY <1>4 DEF With

\* One node is unlinked.
Cut(l, s, k, m) ==
  /\ m \in Links
  /\ m.head = IF k = 1 THEN l.next[s[k]] ELSE l.head
  /\ Len(s) # 1 => m.tail = IF k = Len(s) THEN l.prev[s[k]] ELSE l.tail
  /\ \A i \in 1 .. Len(s) : i # k => m.next[s[i]] = IF i = k - 1 THEN l.next[s[k]] ELSE l.next[s[i]]
  /\ \A i \in 1 .. Len(s) : i # k => m.prev[s[i]] = IF i = k + 1 THEN l.prev[s[k]] ELSE l.prev[s[i]]

LEMMA Unlinking ==
  ASSUME NEW l, NEW s, NEW k \in 1 .. Len(s), Chain(l, s), NEW m, Cut(l, s, k, m)
  PROVE  Chain(m, Without(s, k)) /\ Nodes(Without(s, k)) = Nodes(s) \ {s[k]}
<1>0. /\ m \in Links
      /\ m.head = IF k = 1 THEN l.next[s[k]] ELSE l.head
      /\ Len(s) # 1 => m.tail = IF k = Len(s) THEN l.prev[s[k]] ELSE l.tail
      /\ \A i \in 1 .. Len(s) : i # k => m.next[s[i]] = IF i = k - 1 THEN l.next[s[k]] ELSE l.next[s[i]]
      /\ \A i \in 1 .. Len(s) : i # k => m.prev[s[i]] = IF i = k + 1 THEN l.prev[s[k]] ELSE l.prev[s[i]]
  BY DEF Cut
<1> DEFINE r == Without(s, k)
           n == Len(s)
<1>1. s \in Seq(ListTimers) /\ n \in Nat /\ k \in Nat /\ 1 <= k /\ k <= n
  BY LenProperties DEF Chain
<1>2. /\ r \in Seq(ListTimers) /\ Len(r) = n - 1
      /\ \A i \in 1 .. n - 1 : r[i] = IF i < k THEN s[i] ELSE s[i + 1]
  BY <1>1, WithoutIs
<1>3. /\ \A i, j \in 1 .. n : s[i] = s[j] => i = j
      /\ l.head = s[1] /\ l.tail = s[n]
      /\ \A i \in 1 .. n : l.next[s[i]] = IF i = n THEN NULL ELSE s[i + 1]
      /\ \A i \in 1 .. n : l.prev[s[i]] = IF i = 1 THEN NULL ELSE s[i - 1]
  BY <1>1 DEF Chain
<1> HIDE DEF r, n
<1>a. /\ m.head = IF k = 1 THEN l.next[s[k]] ELSE l.head
      /\ n # 1 => m.tail = IF k = n THEN l.prev[s[k]] ELSE l.tail
      /\ \A i \in 1 .. n : i # k => m.next[s[i]] = IF i = k - 1 THEN l.next[s[k]] ELSE l.next[s[i]]
      /\ \A i \in 1 .. n : i # k => m.prev[s[i]] = IF i = k + 1 THEN l.prev[s[k]] ELSE l.prev[s[i]]
  BY <1>0 DEF n
<1>4. \A i \in 1 .. n - 1 : \/ i < k /\ r[i] = s[i] /\ i \in 1 .. n /\ i # k
                            \/ i >= k /\ r[i] = s[i + 1] /\ i + 1 \in 1 .. n /\ i + 1 # k
  BY <1>1, <1>2
<1>5. \A i, j \in 1 .. n - 1 : r[i] = r[j] => i = j
  <2> SUFFICES ASSUME NEW i \in 1 .. n - 1, NEW j \in 1 .. n - 1, r[i] = r[j] PROVE i = j
    OBVIOUS
  <2>1. (i < k /\ r[i] = s[i] /\ i \in 1 .. n) \/ (i >= k /\ r[i] = s[i + 1] /\ i + 1 \in 1 .. n)
    BY <1>4
  <2>2. (j < k /\ r[j] = s[j] /\ j \in 1 .. n) \/ (j >= k /\ r[j] = s[j + 1] /\ j + 1 \in 1 .. n)
    BY <1>4
  <2>3. CASE i < k /\ j < k
    BY <1>1, <1>3, <2>1, <2>2, <2>3
  <2>4. CASE i >= k /\ j >= k
    <3>1. s[i + 1] = s[j + 1] /\ i + 1 \in 1 .. n /\ j + 1 \in 1 .. n
      BY <1>1, <2>1, <2>2, <2>4
    <3>2. i + 1 = j + 1
      BY <1>3, <3>1
    <3> QED
      BY <3>2
  <2>5. CASE i < k /\ j >= k
    <3>1. s[i] = s[j + 1] /\ i \in 1 .. n /\ j + 1 \in 1 .. n
      BY <1>1, <2>1, <2>2, <2>5
    <3>2. i = j + 1
      BY <1>3, <3>1
    <3> QED
      BY <1>1, <2>5, <3>2
  <2>6. CASE i >= k /\ j < k
    <3>1. s[i + 1] = s[j] /\ i + 1 \in 1 .. n /\ j \in 1 .. n
      BY <1>1, <2>1, <2>2, <2>6
    <3>2. i + 1 = j
      BY <1>3, <3>1
    <3> QED
      BY <1>1, <2>6, <3>2
  <2> QED
    BY <1>1, <2>3, <2>4, <2>5, <2>6
<1>6. m.head = IF n - 1 = 0 THEN NULL ELSE r[1]
  <2>1. CASE k = 1
    <3>1. k \in 1 .. n /\ m.head = IF k = n THEN NULL ELSE s[k + 1]
      BY <1>1, <1>3, <1>a, <2>1
    <3>2. n # 1 => 1 \in 1 .. n - 1 /\ r[1] = s[1 + 1]
      BY <1>1, <1>4, <2>1
    <3> QED
      BY <1>1, <2>1, <3>1, <3>2
  <2>2. CASE k # 1
    <3>1. n - 1 # 0 /\ 1 \in 1 .. n - 1 /\ 1 < k
      BY <1>1, <2>2
    <3>2. r[1] = s[1]
      BY <1>1, <1>4, <3>1
    <3> QED
      BY <1>3, <1>a, <2>2, <3>1, <3>2
  <2> QED
    BY <2>1, <2>2
<1>7. n - 1 # 0 => m.tail = r[n - 1]
  <2> SUFFICES ASSUME n - 1 # 0 PROVE m.tail = r[n - 1]
    OBVIOUS
  <2>1. n - 1 \in 1 .. n - 1 /\ n # 1 /\ n \in 1 .. n
    BY <1>1
  <2>2. CASE k = n
    <3>1. m.tail = s[n - 1]
      BY <1>3, <1>a, <2>1, <2>2
    <3>2. r[n - 1] = s[n - 1]
      BY <1>1, <1>4, <2>1, <2>2
    <3> QED
      BY <3>1, <3>2
  <2>3. CASE k # n
    <3>1. m.tail = s[n]
      BY <1>3, <1>a, <2>1, <2>3
    <3>2. n - 1 >= k /\ (n - 1) + 1 = n
      BY <1>1, <2>3
    <3>3. r[n - 1] = s[n]
      BY <1>2, <2>1, <3>2, <1>1
    <3> QED
      BY <3>1, <3>3
  <2> QED
    BY <2>2, <2>3
<1>8. \A i \in 1 .. n - 1 : m.next[r[i]] = IF i = n - 1 THEN NULL ELSE r[i + 1]
  <2> SUFFICES ASSUME NEW i \in 1 .. n - 1 PROVE m.next[r[i]] = IF i = n - 1 THEN NULL ELSE r[i + 1]
    OBVIOUS
  <2>1. CASE i < k - 1
    <3>1. r[i] = s[i] /\ i \in 1 .. n /\ i # k /\ i # k - 1 /\ i # n /\ i # n - 1
      BY <1>1, <1>4, <2>1
    <3>2. i + 1 \in 1 .. n - 1 /\ i + 1 < k
      BY <1>1, <2>1
    <3>3. r[i + 1] = s[i + 1]
      BY <1>2, <3>2
    <3> QED
      BY <1>3, <1>a, <3>1, <3>3
  <2>2. CASE i = k - 1
    <3>1. r[i] = s[i] /\ i \in 1 .. n /\ i # k /\ k \in 1 .. n
      BY <1>1, <1>4, <2>2
    <3>2. m.next[r[i]] = IF k = n THEN NULL ELSE s[k + 1]
      BY <1>3, <1>a, <2>2, <3>1
    <3>3. k = n <=> i = n - 1
      BY <1>1, <2>2
    <3>4. k # n => i + 1 \in 1 .. n - 1 /\ i + 1 = k
      BY <1>1, <2>2
    <3>5. k # n => r[i + 1] = s[k + 1]
      BY <1>1, <1>2, <3>4
    <3> QED
      BY <3>2, <3>3, <3>5
  <2>3. CASE i >= k
    <3>1. r[i] = s[i + 1] /\ i + 1 \in 1 .. n /\ i + 1 # k /\ i + 1 # k - 1
      BY <1>1, <1>4, <2>3
    <3>2. m.next[r[i]] = IF i + 1 = n THEN NULL ELSE s[(i + 1) + 1]
      BY <1>3, <1>a, <3>1
    <3>3. i + 1 = n <=> i = n - 1
      BY <1>1
    <3>4. i # n - 1 => i + 1 \in 1 .. n - 1 /\ ~(i + 1 < k)
      BY <1>1, <2>3
    <3>5. i # n - 1 => r[i + 1] = s[(i + 1) + 1]
      BY <1>2, <3>4
    <3> QED
      BY <3>2, <3>3, <3>5
  <2> QED
    BY <1>1, <2>1, <2>2, <2>3
<1>9. \A i \in 1 .. n - 1 : m.prev[r[i]] = IF i = 1 THEN NULL ELSE r[i - 1]
  <2> SUFFICES ASSUME NEW i \in 1 .. n - 1 PROVE m.prev[r[i]] = IF i = 1 THEN NULL ELSE r[i - 1]
    OBVIOUS
  <2>1. CASE i < k
    <3>1. r[i] = s[i] /\ i \in 1 .. n /\ i # k /\ i # k + 1
      BY <1>1, <1>4, <2>1
    <3>2. m.prev[r[i]] = IF i = 1 THEN NULL ELSE s[i - 1]
      BY <1>3, <1>a, <3>1
    <3>3. i # 1 => i - 1 \in 1 .. n - 1 /\ i - 1 < k
      BY <1>1, <2>1
    <3>4. i # 1 => r[i - 1] = s[i - 1]
      BY <1>2, <3>3
    <3> QED
      BY <3>2, <3>4
  <2>2. CASE i = k
    <3>1. r[i] = s[i + 1] /\ i + 1 \in 1 .. n /\ i + 1 # k /\ i + 1 = k + 1 /\ k \in 1 .. n
      BY <1>1, <1>4, <2>2
    <3>2. m.prev[r[i]] = IF k = 1 THEN NULL ELSE s[k - 1]
      BY <1>3, <1>a, <3>1
    <3>3. i # 1 => i - 1 \in 1 .. n - 1 /\ i - 1 < k
      BY <1>1, <2>2
    <3>4. i # 1 => r[i - 1] = s[i - 1]
      BY <1>2, <3>3
    <3> QED
      BY <2>2, <3>2, <3>4
  <2>3. CASE i > k
    <3>1. r[i] = s[i + 1] /\ i + 1 \in 1 .. n /\ i + 1 # k /\ i + 1 # k + 1 /\ i + 1 # 1 /\ i # 1
      BY <1>1, <1>4, <2>3
    <3>2. m.prev[r[i]] = s[(i + 1) - 1] /\ (i + 1) - 1 = i
      BY <1>3, <1>a, <3>1
    <3>3. i - 1 \in 1 .. n - 1 /\ ~(i - 1 < k) /\ (i - 1) + 1 = i
      BY <1>1, <2>3
    <3>4. r[i - 1] = s[i]
      BY <1>2, <3>3
    <3> QED
      BY <3>1, <3>2, <3>4
  <2> QED
    BY <1>1, <2>1, <2>2, <2>3
<1>10. Nodes(r) = Nodes(s) \ {s[k]}
  <2>1. ASSUME NEW i \in 1 .. Len(r) PROVE r[i] \in Nodes(s) \ {s[k]}
    <3>1. i \in 1 .. n - 1
      BY <1>2, <2>1
    <3>2. PICK j \in 1 .. n : j # k /\ r[i] = s[j]
      BY <1>4, <3>1
    <3>3. s[j] # s[k] /\ s[j] \in Nodes(s)
      BY <1>1, <1>3, <3>2 DEF Nodes, n
    <3> QED
      BY <3>2, <3>3
  <2>2. ASSUME NEW i \in 1 .. Len(s), s[i] # s[k] PROVE s[i] \in Nodes(r)
    <3>1. i \in 1 .. n /\ i # k
      BY <2>2 DEF n
    <3>2. CASE i < k
      <4>1. i \in 1 .. n - 1 /\ i \in 1 .. Len(r)
        BY <1>1, <1>2, <3>1, <3>2
      <4>2. r[i] = s[i]
        BY <1>2, <3>2, <4>1
      <4> QED
        BY <4>1, <4>2 DEF Nodes
    <3>3. CASE i > k
      <4>1. i - 1 \in 1 .. n - 1 /\ i - 1 \in 1 .. Len(r) /\ ~(i - 1 < k) /\ (i - 1) + 1 = i
        BY <1>1, <1>2, <3>1, <3>3
      <4>2. r[i - 1] = s[i]
        BY <1>2, <4>1
      <4> QED
        BY <4>1, <4>2 DEF Nodes
    <3> QED
      BY <1>1, <3>1, <3>2, <3>3
  <2> QED
    BY <2>1, <2>2 DEF Nodes
<1> QED
  BY <1>0, <1>2, <1>5, <1>6, <1>7, <1>8, <1>9, <1>10 DEF Chain, r

LEMMA SortedWithout ==
  ASSUME NEW s \in Seq(ListTimers), NEW k \in 1 .. Len(s), NEW ex, Sorted(s, ex)
  PROVE  Sorted(Without(s, k), ex)
<1> DEFINE r == Without(s, k)
           n == Len(s)
<1>0. n \in Nat /\ k \in Nat
  BY LenProperties
<1>1. /\ Len(r) = n - 1
      /\ \A i \in 1 .. n - 1 : r[i] = IF i < k THEN s[i] ELSE s[i + 1]
  BY WithoutIs
<1>2. \A i, j \in 1 .. n : i <= j => ex[s[i]] <= ex[s[j]]
  BY DEF Sorted
<1> HIDE DEF r, n
<1>3. ASSUME NEW i \in 1 .. n - 1, NEW j \in 1 .. n - 1, i <= j PROVE ex[r[i]] <= ex[r[j]]
  <2>1. \E a, b \in 1 .. n : a <= b /\ r[i] = s[a] /\ r[j] = s[b]
    <3>1. i \in 1 .. n /\ j \in 1 .. n /\ i + 1 \in 1 .. n /\ j + 1 \in 1 .. n /\ i + 1 <= j + 1 /\ i <= j + 1
      BY <1>0, <1>3
    <3>2. CASE j < k
      <4>1. r[i] = s[i] /\ r[j] = s[j]
        BY <1>0, <1>1, <1>3, <3>2
      <4> QED
        BY <1>3, <3>1, <4>1
    <3>3. CASE ~(j < k)
      <4>1. r[j] = s[j + 1] /\ (r[i] = s[i] \/ r[i] = s[i + 1])
        BY <1>1, <3>3
      <4> QED
        BY <3>1, <4>1
    <3> QED
      BY <3>2, <3>3
  <2> QED
    BY <1>2, <2>1
<1> QED
  BY <1>0, <1>1, <1>3 DEF Sorted, r

\* A timer that goes after the ones that do not expire later, and before the ones that do.
LEMMA SortedWith ==
  ASSUME NEW s \in Seq(ListTimers), NEW j \in 0 .. Len(s), NEW t \in ListTimers,
         NEW ex \in [ListTimers -> Nat], Sorted(s, ex),
         j > 0 => ex[s[j]] <= ex[t],
         j < Len(s) => ex[t] <= ex[s[j + 1]]
  PROVE  Sorted(With(s, j, t), ex)
<1> DEFINE r == With(s, j, t)
           n == Len(s)
<1>0. n \in Nat /\ j \in Nat /\ j <= n
  BY LenProperties
<1>01. Len(r) = n + 1
  BY WithIs
<1>02. \A i \in 1 .. n + 1 : r[i] = IF i <= j THEN s[i] ELSE IF i = j + 1 THEN t ELSE s[i - 1]
  BY WithIs
<1>1. /\ n \in Nat /\ j \in Nat /\ j <= n /\ Len(r) = n + 1
      /\ \A i \in 1 .. n + 1 : r[i] = IF i <= j THEN s[i] ELSE IF i = j + 1 THEN t ELSE s[i - 1]
      /\ j < n => ex[t] <= ex[s[j + 1]]
  BY <1>0, <1>01, <1>02
<1>2. \A a, b \in 1 .. n : a <= b => ex[s[a]] <= ex[s[b]]
  BY DEF Sorted
<1>3. \A a \in 1 .. n : ex[s[a]] \in Nat
  <2>1. \A a \in 1 .. n : s[a] \in ListTimers
    BY ElementOfSeq
  <2> QED
    BY <2>1
<1>4. ex[t] \in Nat
  OBVIOUS
<1> HIDE DEF r, n
<1>5. \A a \in 1 .. n : a <= j => ex[s[a]] <= ex[t]
  <2> SUFFICES ASSUME NEW a \in 1 .. n, a <= j PROVE ex[s[a]] <= ex[t]
    OBVIOUS
  <2>1. j \in 1 .. n /\ j > 0
    BY <1>1
  <2>2. ex[s[a]] <= ex[s[j]] /\ ex[s[j]] <= ex[t]
    BY <1>2, <2>1
  <2> QED
    BY <1>3, <1>4, <2>1, <2>2
<1>6. \A a \in 1 .. n : j < a => ex[t] <= ex[s[a]]
  <2> SUFFICES ASSUME NEW a \in 1 .. n, j < a PROVE ex[t] <= ex[s[a]]
    OBVIOUS
  <2>1. j + 1 \in 1 .. n /\ j < n /\ j + 1 <= a
    BY <1>1
  <2>2. ex[t] <= ex[s[j + 1]] /\ ex[s[j + 1]] <= ex[s[a]]
    BY <1>1, <1>2, <2>1
  <2> QED
    BY <1>3, <1>4, <2>1, <2>2
<1>7. ASSUME NEW a \in 1 .. n + 1, NEW b \in 1 .. n + 1, a <= b PROVE ex[r[a]] <= ex[r[b]]
  <2>1. /\ a <= j => a \in 1 .. n /\ r[a] = s[a]
        /\ a = j + 1 => r[a] = t
        /\ a > j + 1 => a - 1 \in 1 .. n /\ j < a - 1 /\ r[a] = s[a - 1]
    BY <1>1
  <2>2. /\ b <= j => b \in 1 .. n /\ r[b] = s[b]
        /\ b = j + 1 => r[b] = t
        /\ b > j + 1 => b - 1 \in 1 .. n /\ j < b - 1 /\ r[b] = s[b - 1]
    BY <1>1
  <2>3. CASE a <= j /\ b <= j
    BY <1>2, <1>7, <2>1, <2>2, <2>3
  <2>4. CASE a <= j /\ b = j + 1
    BY <1>5, <2>1, <2>2, <2>4
  <2>5. CASE a <= j /\ b > j + 1
    <3>1. a <= b - 1
      BY <1>1, <2>5
    <3> QED
      BY <1>2, <2>1, <2>2, <2>5, <3>1
  <2>6. CASE a = j + 1 /\ b = j + 1
    BY <1>4, <2>1, <2>2, <2>6
  <2>7. CASE a = j + 1 /\ b > j + 1
    BY <1>6, <2>1, <2>2, <2>7
  <2>8. CASE a > j + 1 /\ b > j + 1
    <3>1. a - 1 <= b - 1
      BY <1>7
    <3> QED
      BY <1>2, <2>1, <2>2, <2>8, <3>1
  <2> QED
    BY <1>1, <1>7, <2>3, <2>4, <2>5, <2>6, <2>7, <2>8
<1> QED
  BY <1>1, <1>7 DEF Sorted, r

\* One node is linked in, after the first j.
Spliced(l, s, j, t, m) ==
  /\ m \in Links
  /\ m.head = IF j = 0 THEN t ELSE l.head
  /\ m.tail = IF j = Len(s) THEN t ELSE l.tail
  /\ m.next[t] = IF j = Len(s) THEN NULL ELSE s[j + 1]
  /\ m.prev[t] = IF j = 0 THEN NULL ELSE s[j]
  /\ \A i \in 1 .. Len(s) : m.next[s[i]] = IF i = j THEN t ELSE l.next[s[i]]
  /\ \A i \in 1 .. Len(s) : m.prev[s[i]] = IF i = j + 1 THEN t ELSE l.prev[s[i]]

LEMMA Linking ==
  ASSUME NEW l, NEW s, NEW j \in 0 .. Len(s), Chain(l, s), NEW t \in ListTimers \ Nodes(s), NEW m,
         Spliced(l, s, j, t, m)
  PROVE  Chain(m, With(s, j, t)) /\ Nodes(With(s, j, t)) = Nodes(s) \union {t}
<1>0. /\ m \in Links
      /\ m.head = IF j = 0 THEN t ELSE l.head
      /\ m.tail = IF j = Len(s) THEN t ELSE l.tail
      /\ m.next[t] = IF j = Len(s) THEN NULL ELSE s[j + 1]
      /\ m.prev[t] = IF j = 0 THEN NULL ELSE s[j]
      /\ \A i \in 1 .. Len(s) : m.next[s[i]] = IF i = j THEN t ELSE l.next[s[i]]
      /\ \A i \in 1 .. Len(s) : m.prev[s[i]] = IF i = j + 1 THEN t ELSE l.prev[s[i]]
  BY DEF Spliced
<1> DEFINE r == With(s, j, t)
           n == Len(s)
<1>1. s \in Seq(ListTimers) /\ n \in Nat /\ j \in Nat /\ j <= n
  BY LenProperties DEF Chain
<1>2. /\ r \in Seq(ListTimers) /\ Len(r) = n + 1
      /\ \A i \in 1 .. n + 1 : r[i] = IF i <= j THEN s[i] ELSE IF i = j + 1 THEN t ELSE s[i - 1]
  BY <1>1, WithIs
<1>3. /\ \A a, b \in 1 .. n : s[a] = s[b] => a = b
      /\ n # 0 => l.head = s[1] /\ l.tail = s[n]
      /\ \A i \in 1 .. n : l.next[s[i]] = IF i = n THEN NULL ELSE s[i + 1]
      /\ \A i \in 1 .. n : l.prev[s[i]] = IF i = 1 THEN NULL ELSE s[i - 1]
      /\ \A i \in 1 .. n : s[i] # t
  BY <1>1 DEF Chain, Nodes
<1>4. /\ m.head = IF j = 0 THEN t ELSE l.head
      /\ m.tail = IF j = n THEN t ELSE l.tail
      /\ m.next[t] = IF j = n THEN NULL ELSE s[j + 1]
      /\ m.prev[t] = IF j = 0 THEN NULL ELSE s[j]
      /\ \A i \in 1 .. n : m.next[s[i]] = IF i = j THEN t ELSE l.next[s[i]]
      /\ \A i \in 1 .. n : m.prev[s[i]] = IF i = j + 1 THEN t ELSE l.prev[s[i]]
  BY <1>0
<1> HIDE DEF r, n
<1>5. ASSUME NEW a \in 1 .. n + 1
      PROVE  /\ a <= j => a \in 1 .. n /\ r[a] = s[a]
             /\ a = j + 1 => r[a] = t
             /\ a > j + 1 => a - 1 \in 1 .. n /\ j < a - 1 /\ r[a] = s[a - 1]
  BY <1>1, <1>2
<1>6. \A a, b \in 1 .. n + 1 : r[a] = r[b] => a = b
  <2> SUFFICES ASSUME NEW a \in 1 .. n + 1, NEW b \in 1 .. n + 1, r[a] = r[b] PROVE a = b
    OBVIOUS
  <2> DEFINE x == IF a <= j THEN a ELSE a - 1
             y == IF b <= j THEN b ELSE b - 1
  <2>1. a = j + 1 \/ (x \in 1 .. n /\ r[a] = s[x])
    BY <1>1, <1>5
  <2>2. b = j + 1 \/ (y \in 1 .. n /\ r[b] = s[y])
    BY <1>1, <1>5
  <2>3. a = j + 1 => r[a] = t
    BY <1>5
  <2>4. b = j + 1 => r[b] = t
    BY <1>5
  <2>5. a = j + 1 <=> b = j + 1
    <3> HIDE DEF x, y
    <3> QED
      BY <1>3, <2>1, <2>2, <2>3, <2>4
  <2>6. a # j + 1 => x = y
    <3> HIDE DEF x, y
    <3> QED
      BY <1>3, <2>1, <2>2, <2>5
  <2> QED
    BY <1>1, <2>5, <2>6
<1>7. m.head = r[1] /\ m.tail = r[n + 1]
  <2>1. 1 \in 1 .. n + 1 /\ n + 1 \in 1 .. n + 1
    BY <1>1
  <2>2. j = 0 => r[1] = t
    BY <1>2, <2>1
  <2>3. j # 0 => r[1] = s[1] /\ n # 0
    BY <1>1, <1>2, <2>1
  <2>4. j = n => r[n + 1] = t
    BY <1>1, <1>2, <2>1
  <2>5. j # n => r[n + 1] = s[n] /\ n # 0
    <3>1. j # n => ~(n + 1 <= j) /\ n + 1 # j + 1 /\ (n + 1) - 1 = n /\ n # 0
      BY <1>1
    <3> QED
      BY <1>2, <2>1, <3>1
  <2> QED
    BY <1>3, <1>4, <2>2, <2>3, <2>4, <2>5
<1>8. \A i \in 1 .. n + 1 : m.next[r[i]] = IF i = n + 1 THEN NULL ELSE r[i + 1]
  <2> SUFFICES ASSUME NEW i \in 1 .. n + 1 PROVE m.next[r[i]] = IF i = n + 1 THEN NULL ELSE r[i + 1]
    OBVIOUS
  <2>1. CASE i < j
    <3>1. i \in 1 .. n /\ r[i] = s[i] /\ i # j /\ i # n /\ i # n + 1 /\ i + 1 \in 1 .. n + 1 /\ i + 1 <= j
      BY <1>1, <1>5, <2>1
    <3>2. r[i + 1] = s[i + 1]
      BY <1>2, <3>1
    <3> QED
      BY <1>3, <1>4, <3>1, <3>2
  <2>2. CASE i = j
    <3>1. i \in 1 .. n /\ r[i] = s[i] /\ i # n + 1 /\ i + 1 \in 1 .. n + 1 /\ i + 1 = j + 1 /\ ~(i + 1 <= j)
      BY <1>1, <1>5, <2>2
    <3>2. r[i + 1] = t
      BY <1>2, <3>1
    <3> QED
      BY <1>4, <2>2, <3>1, <3>2
  <2>3. CASE i = j + 1
    <3>1. r[i] = t
      BY <1>5, <2>3
    <3>2. i = n + 1 <=> j = n
      BY <1>1, <2>3
    <3>3. j # n => i + 1 \in 1 .. n + 1 /\ ~(i + 1 <= j) /\ i + 1 # j + 1 /\ (i + 1) - 1 = j + 1
      BY <1>1, <2>3
    <3>4. j # n => r[i + 1] = s[j + 1]
      BY <1>2, <3>3
    <3> QED
      BY <1>4, <3>1, <3>2, <3>4
  <2>4. CASE i > j + 1
    <3>1. i - 1 \in 1 .. n /\ i - 1 # j /\ r[i] = s[i - 1] /\ (i - 1) + 1 = i
      BY <1>1, <1>5, <2>4
    <3>2. m.next[r[i]] = IF i - 1 = n THEN NULL ELSE s[i]
      BY <1>3, <1>4, <3>1
    <3>3. i - 1 = n <=> i = n + 1
      BY <1>1
    <3>4. i # n + 1 => i + 1 \in 1 .. n + 1 /\ ~(i + 1 <= j) /\ i + 1 # j + 1 /\ (i + 1) - 1 = i
      BY <1>1, <2>4
    <3>5. i # n + 1 => r[i + 1] = s[i]
      BY <1>2, <3>4
    <3> QED
      BY <3>2, <3>3, <3>5
  <2> QED
    BY <1>1, <2>1, <2>2, <2>3, <2>4
<1>9. \A i \in 1 .. n + 1 : m.prev[r[i]] = IF i = 1 THEN NULL ELSE r[i - 1]
  <2> SUFFICES ASSUME NEW i \in 1 .. n + 1 PROVE m.prev[r[i]] = IF i = 1 THEN NULL ELSE r[i - 1]
    OBVIOUS
  <2>1. CASE i <= j
    <3>1. i \in 1 .. n /\ r[i] = s[i] /\ i # j + 1
      BY <1>1, <1>5, <2>1
    <3>2. m.prev[r[i]] = IF i = 1 THEN NULL ELSE s[i - 1]
      BY <1>3, <1>4, <3>1
    <3>3. i # 1 => i - 1 \in 1 .. n + 1 /\ i - 1 <= j
      BY <1>1, <2>1
    <3>4. i # 1 => r[i - 1] = s[i - 1]
      BY <1>2, <3>3
    <3> QED
      BY <3>2, <3>4
  <2>2. CASE i = j + 1
    <3>1. r[i] = t
      BY <1>5, <2>2
    <3>2. i = 1 <=> j = 0
      BY <1>1, <2>2
    <3>3. j # 0 => i - 1 \in 1 .. n + 1 /\ i - 1 = j
      BY <1>1, <2>2
    <3>4. j # 0 => r[i - 1] = s[j]
      BY <1>1, <1>2, <3>3
    <3> QED
      BY <1>4, <3>1, <3>2, <3>4
  <2>3. CASE i = j + 2
    <3>1. i - 1 \in 1 .. n /\ i - 1 = j + 1 /\ r[i] = s[i - 1] /\ i # 1 /\ i - 1 \in 1 .. n + 1
      BY <1>1, <1>5, <2>3
    <3>2. r[i - 1] = t
      BY <1>5, <3>1
    <3> QED
      BY <1>4, <3>1, <3>2
  <2>4. CASE i > j + 2
    <3>1. i - 1 \in 1 .. n /\ i - 1 # j + 1 /\ r[i] = s[i - 1] /\ i # 1 /\ i - 1 # 1
      BY <1>1, <1>5, <2>4
    <3>2. m.prev[r[i]] = s[(i - 1) - 1]
      BY <1>3, <1>4, <3>1
    <3>3. i - 1 \in 1 .. n + 1 /\ ~(i - 1 <= j) /\ i - 1 # j + 1
      BY <1>1, <2>4
    <3>4. r[i - 1] = s[(i - 1) - 1]
      BY <1>2, <3>3
    <3> QED
      BY <3>1, <3>2, <3>4
  <2> QED
    BY <1>1, <2>1, <2>2, <2>3, <2>4
<1>10. Nodes(r) = Nodes(s) \union {t}
  <2>1. ASSUME NEW i \in 1 .. Len(r) PROVE r[i] \in Nodes(s) \union {t}
    <3>1. i \in 1 .. n + 1
      BY <1>2, <2>1
    <3>2. r[i] = t \/ \E a \in 1 .. n : r[i] = s[a]
      BY <1>1, <1>5, <3>1
    <3> QED
      BY <3>2 DEF Nodes, n
  <2>2. ASSUME NEW i \in 1 .. Len(s) PROVE s[i] \in Nodes(r)
    <3>1. i \in 1 .. n
      BY <2>2 DEF n
    <3>2. CASE i <= j
      <4>1. i \in 1 .. n + 1 /\ i \in 1 .. Len(r)
        BY <1>1, <1>2, <3>1
      <4>2. r[i] = s[i]
        BY <1>2, <3>2, <4>1
      <4> QED
        BY <4>1, <4>2 DEF Nodes
    <3>3. CASE i > j
      <4>1. i + 1 \in 1 .. n + 1 /\ i + 1 \in 1 .. Len(r) /\ ~(i + 1 <= j) /\ i + 1 # j + 1 /\ (i + 1) - 1 = i
        BY <1>1, <1>2, <3>1, <3>3
      <4>2. r[i + 1] = s[i]
        BY <1>2, <4>1
      <4> QED
        BY <4>1, <4>2 DEF Nodes
    <3> QED
      BY <1>1, <3>1, <3>2, <3>3
  <2>3. t \in Nodes(r)
    <3>1. j + 1 \in 1 .. n + 1 /\ j + 1 \in 1 .. Len(r)
      BY <1>1, <1>2
    <3>2. r[j + 1] = t
      BY <1>5, <3>1
    <3> QED
      BY <3>1, <3>2 DEF Nodes
  <2> QED
    BY <2>1, <2>2, <2>3 DEF Nodes
<1>11. n + 1 # 0
  BY <1>1
<1> QED
  BY <1>0, <1>2, <1>6, <1>7, <1>8, <1>9, <1>10, <1>11 DEF Chain, r

\* How far the private add_timer walks from a node.
Walk(l, ex, t) ==
  CHOOSE f : f = [p \in ListTimers |->
    IF l.next[p] = NULL \/ ex[t] < ex[l.next[p]] THEN p ELSE f[l.next[p]]]

LEMMA AddAfterIs ==
  ASSUME NEW l, NEW ex, NEW t, NEW from
  PROVE  LET p == Walk(l, ex, t)[from]
             q == l.next[p]
         IN List!AddAfter(l, ex, t, from) =
              [l EXCEPT !.next = [@ EXCEPT ![p] = t, ![t] = q],
                        !.prev = [u \in ListTimers |-> IF u = q THEN t ELSE IF u = t THEN p ELSE @[u]],
                        !.tail = IF q = NULL THEN t ELSE @]
BY DEF List!AddAfter, Walk

\* From the k-th node t's walk goes to the j-th.
WalkStops(l, s, ex, t, k, j) ==
  /\ Walk(l, ex, t)[s[k]] = s[j]
  /\ \A i \in k .. j - 1 : ~(ex[t] < ex[s[i + 1]])
  /\ j = Len(s) \/ ex[t] < ex[s[j + 1]]

\* The walk goes to the last node that does not expire later.
LEMMA WalkIs ==
  ASSUME NEW l, NEW s, Chain(l, s), NEW ex, NEW t,
         \A p \in ListTimers \ Nodes(s) : l.next[p] \in Nodes(s) \union {NULL},
         NEW k \in 1 .. Len(s)
  PROVE  \E j \in k .. Len(s) : WalkStops(l, s, ex, t, k, j)
<1> DEFINE n == Len(s)
           Last(i) == i = n \/ ex[t] < ex[s[i + 1]]
           To(i) == CHOOSE j \in i .. n : Last(j) /\ \A m \in i .. j - 1 : ~Last(m)
           At(p) == CHOOSE i \in 1 .. n : s[i] = p
           f == [p \in ListTimers |->
                   IF p \in Nodes(s) THEN s[To(At(p))]
                   ELSE IF l.next[p] = NULL \/ ex[t] < ex[l.next[p]] THEN p ELSE s[To(At(l.next[p]))]]
<1>1. s \in Seq(ListTimers) /\ n \in Nat
  BY LenProperties DEF Chain
<1>2. \A i \in 1 .. n : s[i] \in ListTimers /\ s[i] \in Nodes(s) /\ s[i] # NULL /\ At(s[i]) = i
  <2>1. \A i \in 1 .. n : s[i] \in ListTimers
    BY <1>1, ElementOfSeq
  <2>2. NULL \notin ListTimers
    BY TimersAssumption
  <2>3. \A i, j \in 1 .. n : s[i] = s[j] => i = j
    BY DEF Chain
  <2> QED
    BY <2>1, <2>2, <2>3 DEF Nodes
<1>3. \A i \in 1 .. n : l.next[s[i]] = IF i = n THEN NULL ELSE s[i + 1]
  BY DEF Chain
<1>4. ASSUME NEW i \in 1 .. n
      PROVE  To(i) \in i .. n /\ Last(To(i)) /\ \A m \in i .. To(i) - 1 : ~Last(m)
  <2> DEFINE T == {j \in i .. n : Last(j)}
  <2>1. n \in T /\ T \in SUBSET Nat
    BY <1>1
  <2>2. PICK j \in T : \A m \in T : j <= m
    BY <2>1, LeastMember
  <2>3. j \in i .. n /\ Last(j) /\ \A m \in i .. j - 1 : ~Last(m)
    <3>1. j \in i .. n /\ Last(j)
      OBVIOUS
    <3>2. ASSUME NEW m \in i .. j - 1, Last(m) PROVE FALSE
      <4>1. m \in i .. n /\ m < j
        BY <1>1, <3>1
      <4>2. m \in T
        BY <3>2, <4>1
      <4>3. j <= m
        BY <2>2, <4>2
      <4> QED
        BY <1>1, <3>1, <4>1, <4>3
    <3> QED
      BY <3>1, <3>2
  <2> HIDE DEF T
  <2> QED
    BY <2>3
<1>5. \A i \in 1 .. n : Last(i) => To(i) = i
  <2> SUFFICES ASSUME NEW i \in 1 .. n, Last(i), To(i) # i PROVE FALSE
    OBVIOUS
  <2>1. To(i) \in i .. n /\ \A m \in i .. To(i) - 1 : ~Last(m)
    BY <1>4
  <2> HIDE DEF To, Last
  <2>2. i \in i .. To(i) - 1
    BY <1>1, <2>1
  <2> QED
    BY <2>1, <2>2
<1>6. \A i \in 1 .. n : ~Last(i) => i + 1 \in 1 .. n /\ To(i) = To(i + 1)
  <2> SUFFICES ASSUME NEW i \in 1 .. n, ~Last(i) PROVE i + 1 \in 1 .. n /\ To(i) = To(i + 1)
    OBVIOUS
  <2>1. i + 1 \in 1 .. n
    BY <1>1
  <2>2. To(i) \in i .. n /\ Last(To(i)) /\ \A m \in i .. To(i) - 1 : ~Last(m)
    BY <1>4
  <2>3. To(i + 1) \in i + 1 .. n /\ Last(To(i + 1)) /\ \A m \in i + 1 .. To(i + 1) - 1 : ~Last(m)
    BY <1>4, <2>1
  <2>4. To(i) # i
    BY <2>2
  <2> HIDE DEF To, Last
  <2>5. ~(To(i) < To(i + 1))
    <3> SUFFICES ASSUME To(i) < To(i + 1) PROVE FALSE
      OBVIOUS
    <3>1. To(i) \in i + 1 .. To(i + 1) - 1
      BY <1>1, <2>2, <2>3, <2>4
    <3> QED
      BY <2>2, <2>3, <3>1
  <2>6. ~(To(i + 1) < To(i))
    <3> SUFFICES ASSUME To(i + 1) < To(i) PROVE FALSE
      OBVIOUS
    <3>1. To(i + 1) \in i .. To(i) - 1
      BY <1>1, <2>2, <2>3
    <3> QED
      BY <2>2, <2>3, <3>1
  <2> QED
    BY <1>1, <2>1, <2>2, <2>3, <2>5, <2>6
<1>7. f = [p \in ListTimers |-> IF l.next[p] = NULL \/ ex[t] < ex[l.next[p]] THEN p ELSE f[l.next[p]]]
  <2>1. ASSUME NEW p \in ListTimers
        PROVE  f[p] = IF l.next[p] = NULL \/ ex[t] < ex[l.next[p]] THEN p ELSE f[l.next[p]]
    <3>1. \A i \in 1 .. n : f[s[i]] = s[To(i)]
      BY <1>2
    <3>2. CASE p \in Nodes(s)
      <4>1. PICK i \in 1 .. n : p = s[i]
        BY <3>2 DEF Nodes
      <4>2. CASE Last(i)
        <5>1. f[p] = p
          <6>1. To(i) = i
            BY <1>5, <4>2
          <6> HIDE DEF f, To, Last
          <6> QED
            BY <3>1, <4>1, <6>1
        <5>2. l.next[p] = NULL \/ ex[t] < ex[l.next[p]]
          BY <1>3, <4>1, <4>2
        <5> QED
          BY <5>1, <5>2
      <4>3. CASE ~Last(i)
        <5>1. i + 1 \in 1 .. n /\ To(i) = To(i + 1)
          BY <1>6, <4>3
        <5>2. l.next[p] = s[i + 1] /\ i # n
          BY <1>3, <4>1, <4>3
        <5>3. f[p] = f[l.next[p]]
          <6> HIDE DEF f, To
          <6> QED
            BY <3>1, <4>1, <5>1, <5>2
        <5>4. ~(l.next[p] = NULL \/ ex[t] < ex[l.next[p]])
          BY <1>2, <4>3, <5>1, <5>2
        <5> HIDE DEF f, To, Last
        <5> QED
          BY <5>3, <5>4
      <4> QED
        BY <4>2, <4>3
    <3>3. CASE p \notin Nodes(s)
      <4>1. CASE l.next[p] = NULL \/ ex[t] < ex[l.next[p]]
        BY <3>3, <4>1
      <4>2. CASE ~(l.next[p] = NULL \/ ex[t] < ex[l.next[p]])
        <5>1. l.next[p] \in Nodes(s)
          BY <3>3, <4>2
        <5>2. l.next[p] \in ListTimers
          BY <1>2, <5>1 DEF Nodes
        <5>3. f[l.next[p]] = s[To(At(l.next[p]))]
          BY <5>1, <5>2
        <5> QED
          BY <3>3, <4>2, <5>3
      <4> QED
        BY <4>1, <4>2
    <3> QED
      BY <3>2, <3>3
  <2>2. f = [p \in ListTimers |-> f[p]]
    OBVIOUS
  <2> HIDE DEF f
  <2> QED
    BY <2>1, <2>2
<1>8. Walk(l, ex, t) = [p \in ListTimers |->
         IF l.next[p] = NULL \/ ex[t] < ex[l.next[p]] THEN p ELSE Walk(l, ex, t)[l.next[p]]]
  <2> HIDE DEF f
  <2> QED
    BY <1>7 DEF Walk
<1>9. ASSUME NEW i \in 1 .. n
      PROVE  Walk(l, ex, t)[s[i]] = IF Last(i) THEN s[i] ELSE Walk(l, ex, t)[s[i + 1]]
  <2>1. Walk(l, ex, t)[s[i]] = IF l.next[s[i]] = NULL \/ ex[t] < ex[l.next[s[i]]] THEN s[i] ELSE Walk(l, ex, t)[l.next[s[i]]]
    BY <1>2, <1>8
  <2>2. l.next[s[i]] = IF i = n THEN NULL ELSE s[i + 1]
    BY <1>3
  <2>3. i # n => s[i + 1] # NULL
    BY <1>1, <1>2
  <2> QED
    BY <2>1, <2>2, <2>3
<1> DEFINE j == To(k)
<1>10. j \in k .. n /\ Last(j) /\ \A m \in k .. j - 1 : ~Last(m)
  BY <1>4
<1> HIDE DEF j, To, At, f
<1>11. Walk(l, ex, t)[s[k]] = s[j]
  <2> DEFINE Off == {d \in 0 .. j - k : Walk(l, ex, t)[s[j - d]] # s[j]}
  <2>1. Off = {}
    <3> SUFFICES ASSUME Off # {} PROVE FALSE
      OBVIOUS
    <3>0. Off \in SUBSET Nat
      BY <1>1, <1>10
    <3>1. PICK d \in Off : \A e \in Off : d <= e
      BY <3>0, LeastMember
    <3>2. d \in 0 .. j - k /\ Walk(l, ex, t)[s[j - d]] # s[j] /\ d \in Nat /\ k \in Nat /\ j \in Nat
      BY <1>1, <1>10, <3>0
    <3>3. CASE d = 0
      <4>1. j - d = j /\ j \in 1 .. n
        BY <1>1, <1>10, <3>2, <3>3
      <4>2. Walk(l, ex, t)[s[j]] = s[j]
        BY <1>9, <1>10, <4>1
      <4> QED
        BY <3>2, <4>1, <4>2
    <3>4. CASE d # 0
      <4>1. /\ j - d \in 1 .. n /\ j - d \in k .. j - 1 /\ (j - d) + 1 = j - (d - 1)
            /\ d - 1 \in 0 .. j - k /\ ~(d <= d - 1)
        BY <1>1, <1>10, <3>2, <3>4
      <4>2. Walk(l, ex, t)[s[j - d]] = Walk(l, ex, t)[s[j - (d - 1)]]
        <5>1. ~Last(j - d)
          BY <1>10, <4>1
        <5> HIDE DEF Last
        <5> QED
          BY <1>9, <4>1, <5>1
      <4>3. d - 1 \notin Off
        BY <3>1, <4>1
      <4>4. Walk(l, ex, t)[s[j - (d - 1)]] = s[j]
        BY <4>1, <4>3
      <4> QED
        BY <3>2, <4>2, <4>4
    <3> QED
      BY <3>3, <3>4
  <2>2. j - k \in 0 .. j - k /\ j - (j - k) = k
    BY <1>1, <1>10
  <2>3. j - k \notin Off
    BY <2>1
  <2> QED
    BY <2>2, <2>3
<1>12. \A i \in k .. j - 1 : ~(ex[t] < ex[s[i + 1]])
  BY <1>10
<1> QED
  BY <1>10, <1>11, <1>12 DEF WalkStops

-----------------------------------------------------------------------------
(* The list: its operations. *)

\* The links l go through s, which holds the timers A, by expiry.
IsList(l, ex, A, s) == Chain(l, s) /\ Nodes(s) = A /\ Sorted(s, ex)
\* Freed nodes have no links.
Dead(l, A) == \A p \in ListTimers \ A : l.next[p] = NULL /\ l.prev[p] = NULL

\* A list of the timers that are allocated.
ListInv ==
  /\ expire \in [ListTimers -> Nat] /\ clock \in Nat /\ alive \subseteq ListTimers
  /\ Dead(lst, alive)
  /\ \E s : IsList(lst, expire, alive, s)

\* What a chain says of its nodes.
LEMMA ChainIs ==
  ASSUME NEW l, NEW s, Chain(l, s)
  PROVE  /\ l \in Links /\ s \in Seq(ListTimers) /\ Len(s) \in Nat /\ NULL \notin ListTimers
         /\ l.next \in [ListTimers -> ListTimers \union {NULL}]
         /\ l.prev \in [ListTimers -> ListTimers \union {NULL}]
         /\ \A i \in 1 .. Len(s) : s[i] \in ListTimers /\ s[i] \in Nodes(s)
         /\ \A i, j \in 1 .. Len(s) : s[i] = s[j] => i = j
         /\ \A i \in 1 .. Len(s) : l.next[s[i]] = IF i = Len(s) THEN NULL ELSE s[i + 1]
         /\ \A i \in 1 .. Len(s) : l.prev[s[i]] = IF i = 1 THEN NULL ELSE s[i - 1]
         /\ \A i \in 1 .. Len(s) : l.next[s[i]] \in Nodes(s) \union {NULL} /\ l.prev[s[i]] \in Nodes(s) \union {NULL}
         /\ Nodes(s) \subseteq ListTimers
         /\ l.head = IF Len(s) = 0 THEN NULL ELSE s[1]
         /\ Len(s) # 0 => l.tail = s[Len(s)]
<1>1. l \in Links /\ s \in Seq(ListTimers) /\ Len(s) \in Nat /\ NULL \notin ListTimers
  BY LenProperties, TimersAssumption DEF Chain
<1>2. \A i \in 1 .. Len(s) : s[i] \in ListTimers /\ s[i] \in Nodes(s)
  BY <1>1, ElementOfSeq DEF Nodes
<1>3. /\ \A i \in 1 .. Len(s) : l.next[s[i]] = IF i = Len(s) THEN NULL ELSE s[i + 1]
      /\ \A i \in 1 .. Len(s) : l.prev[s[i]] = IF i = 1 THEN NULL ELSE s[i - 1]
  BY DEF Chain
<1>4. \A i \in 1 .. Len(s) : (i # Len(s) => i + 1 \in 1 .. Len(s)) /\ (i # 1 => i - 1 \in 1 .. Len(s))
  BY <1>1
<1>5. \A i \in 1 .. Len(s) : l.next[s[i]] \in Nodes(s) \union {NULL} /\ l.prev[s[i]] \in Nodes(s) \union {NULL}
  BY <1>2, <1>3, <1>4
<1>6. Nodes(s) \subseteq ListTimers
  BY <1>2 DEF Nodes
<1>7. l.next \in [ListTimers -> ListTimers \union {NULL}] /\ l.prev \in [ListTimers -> ListTimers \union {NULL}]
  BY <1>1 DEF Links
<1> QED
  BY <1>1, <1>2, <1>3, <1>5, <1>6, <1>7 DEF Chain

\* Outside A, m links as l does.
Elsewhere(l, m, A) == \A p \in ListTimers \ A : m.next[p] = l.next[p] /\ m.prev[p] = l.prev[p]

\* Timer t may go after the k-th node of l.
Follows(l, s, ex, t, k) ==
  /\ Chain(l, s) /\ Sorted(s, ex) /\ ex \in [ListTimers -> Nat]
  /\ t \in ListTimers \ Nodes(s) /\ k \in 1 .. Len(s) /\ ex[s[k]] <= ex[t]
  /\ \A p \in ListTimers \ Nodes(s) : l.next[p] \in Nodes(s) \union {NULL}

LEMMA AddingAfter ==
  ASSUME NEW l, NEW s, NEW ex, NEW t, NEW k, Follows(l, s, ex, t, k),
         NEW m, m = List!AddAfter(l, ex, t, s[k])
  PROVE  /\ \E r : IsList(m, ex, Nodes(s) \union {t}, r)
         /\ Elsewhere(l, m, Nodes(s) \union {t})
<1>0. /\ Chain(l, s) /\ Sorted(s, ex) /\ ex \in [ListTimers -> Nat]
      /\ t \in ListTimers \ Nodes(s) /\ k \in 1 .. Len(s) /\ ex[s[k]] <= ex[t]
      /\ \A p \in ListTimers \ Nodes(s) : l.next[p] \in Nodes(s) \union {NULL}
  BY DEF Follows
<1> DEFINE n == Len(s)
<1>1. /\ l \in Links /\ s \in Seq(ListTimers) /\ n \in Nat /\ NULL \notin ListTimers
      /\ l.next \in [ListTimers -> ListTimers \union {NULL}]
      /\ l.prev \in [ListTimers -> ListTimers \union {NULL}]
      /\ \A i \in 1 .. n : s[i] \in ListTimers /\ s[i] \in Nodes(s)
      /\ \A i, j \in 1 .. n : s[i] = s[j] => i = j
      /\ \A i \in 1 .. n : l.next[s[i]] = IF i = n THEN NULL ELSE s[i + 1]
  BY <1>0, ChainIs
<1>w. PICK j \in k .. n : WalkStops(l, s, ex, t, k, j)
  BY <1>0, WalkIs
<1>2. /\ Walk(l, ex, t)[s[k]] = s[j]
      /\ \A i \in k .. j - 1 : ~(ex[t] < ex[s[i + 1]])
      /\ j = n \/ ex[t] < ex[s[j + 1]]
  BY <1>w DEF WalkStops
<1> DEFINE q == l.next[s[j]]
<1>3. m = [l EXCEPT !.next = [@ EXCEPT ![s[j]] = t, ![t] = q],
                    !.prev = [u \in ListTimers |-> IF u = q THEN t ELSE IF u = t THEN s[j] ELSE @[u]],
                    !.tail = IF q = NULL THEN t ELSE @]
  BY <1>2, AddAfterIs
<1>4. j \in 1 .. n /\ j \in 0 .. n /\ j \in Nat /\ j # 0 /\ k \in Nat
  BY <1>0, <1>1
<1>5. q = (IF j = n THEN NULL ELSE s[j + 1]) /\ (j # n => j + 1 \in 1 .. n)
  BY <1>0, <1>1, <1>4
<1>6. q \in ListTimers \union {NULL} /\ q # t /\ t # NULL /\ (q = NULL <=> j = n)
  BY <1>0, <1>1, <1>4, <1>5
<1> HIDE DEF q, n
<1>7. /\ m.head = l.head /\ m.tail = IF q = NULL THEN t ELSE l.tail
      /\ m.next = [l.next EXCEPT ![s[j]] = t, ![t] = q]
      /\ m.prev = [u \in ListTimers |-> IF u = q THEN t ELSE IF u = t THEN s[j] ELSE l.prev[u]]
  BY <1>0, <1>1, <1>3 DEF Links
<1>8. m \in Links
  <2>1. [l.next EXCEPT ![s[j]] = t, ![t] = q] \in [ListTimers -> ListTimers \union {NULL}]
    BY <1>0, <1>1, <1>4, <1>6
  <2>2. [u \in ListTimers |-> IF u = q THEN t ELSE IF u = t THEN s[j] ELSE l.prev[u]]
          \in [ListTimers -> ListTimers \union {NULL}]
    BY <1>0, <1>1, <1>4, <1>6
  <2>3. (IF q = NULL THEN t ELSE l.tail) \in ListTimers \union {NULL}
    BY <1>0, <1>1 DEF Links
  <2> QED
    BY <1>0, <1>1, <1>3, <2>1, <2>2, <2>3 DEF Links
<1>9. /\ m.next[t] = q /\ m.prev[t] = s[j]
      /\ \A i \in 1 .. n : m.next[s[i]] = IF i = j THEN t ELSE l.next[s[i]]
      /\ \A i \in 1 .. n : m.prev[s[i]] = IF i = j + 1 THEN t ELSE l.prev[s[i]]
  <2>1. m.next[t] = q /\ m.prev[t] = s[j]
    BY <1>0, <1>1, <1>4, <1>6, <1>7
  <2>2. \A i \in 1 .. n : s[i] # t
    BY <1>0, <1>1
  <2>3. ASSUME NEW i \in 1 .. n PROVE m.next[s[i]] = IF i = j THEN t ELSE l.next[s[i]]
    <3>1. s[i] # t /\ s[i] \in ListTimers /\ s[j] \in ListTimers /\ t \in ListTimers /\ (s[i] = s[j] <=> i = j)
      BY <1>0, <1>1, <1>4, <2>2
    <3> QED
      BY <1>1, <1>7, <3>1
  <2>4. \A i \in 1 .. n : s[i] = q <=> i = j + 1
    <3> SUFFICES ASSUME NEW i \in 1 .. n PROVE s[i] = q <=> i = j + 1
      OBVIOUS
    <3>1. CASE j = n
      BY <1>0, <1>1, <1>4, <1>5, <3>1
    <3>2. CASE j # n
      BY <1>0, <1>1, <1>5, <3>2
    <3> QED
      BY <3>1, <3>2
  <2>5. \A i \in 1 .. n : m.prev[s[i]] = IF i = j + 1 THEN t ELSE l.prev[s[i]]
    BY <1>0, <1>1, <1>7, <2>2, <2>4
  <2> QED
    BY <2>1, <2>3, <2>5
<1> DEFINE r == With(s, j, t)
<1>10. Chain(m, r) /\ Nodes(r) = Nodes(s) \union {t}
  <2>1. m.next[t] = IF j = n THEN NULL ELSE s[j + 1]
    BY <1>5, <1>9
  <2>2. m.tail = IF j = n THEN t ELSE l.tail
    BY <1>6, <1>7
  <2>3. m.head = IF j = 0 THEN t ELSE l.head
    BY <1>0, <1>4, <1>7
  <2>4. m.prev[t] = IF j = 0 THEN NULL ELSE s[j]
    BY <1>0, <1>4, <1>9
  <2>5. Spliced(l, s, j, t, m)
    BY <1>8, <1>9, <2>1, <2>2, <2>3, <2>4 DEF n, Spliced
  <2> QED
    BY <1>0, <1>4, <2>5, Linking DEF n
<1>11. Sorted(r, ex)
  <2>1. ex[s[j]] <= ex[t]
    <3>1. CASE j = k
      BY <1>0, <3>1
    <3>2. CASE j # k
      <4>1. j - 1 \in k .. j - 1 /\ (j - 1) + 1 = j
        BY <1>0, <1>1, <1>4, <3>2
      <4>2. ~(ex[t] < ex[s[j]])
        BY <1>2, <4>1
      <4>3. ex[t] \in Nat /\ ex[s[j]] \in Nat
        BY <1>0, <1>1, <1>4
      <4> QED
        BY <4>2, <4>3
    <3> QED
      BY <3>1, <3>2
  <2>2. j < n => ex[t] <= ex[s[j + 1]]
    <3> SUFFICES ASSUME j < n PROVE ex[t] <= ex[s[j + 1]]
      OBVIOUS
    <3>1. j # n /\ j + 1 \in 1 .. n
      BY <1>0, <1>1, <1>4, <1>5
    <3>2. ex[t] < ex[s[j + 1]]
      BY <1>2, <3>1
    <3>3. ex[t] \in Nat /\ ex[s[j + 1]] \in Nat
      BY <1>0, <1>1, <3>1
    <3> QED
      BY <3>2, <3>3
  <2> QED
    BY <1>0, <1>1, <1>4, <2>1, <2>2, SortedWith DEF n
<1>12. \A p \in ListTimers \ (Nodes(s) \union {t}) : m.next[p] = l.next[p] /\ m.prev[p] = l.prev[p]
  <2> SUFFICES ASSUME NEW p \in ListTimers \ (Nodes(s) \union {t})
               PROVE  m.next[p] = l.next[p] /\ m.prev[p] = l.prev[p]
    OBVIOUS
  <2>1. p # s[j] /\ p # t /\ p # q
    BY <1>0, <1>1, <1>4, <1>5
  <2> QED
    BY <1>0, <1>1, <1>7, <2>1
<1> QED
  BY <1>0, <1>10, <1>11, <1>12 DEF IsList, Elsewhere

\* A list and new times that agree on its nodes.
LEMMA SortedAgain ==
  ASSUME NEW s, NEW ex, NEW ey, Sorted(s, ex), \A p \in Nodes(s) : ey[p] = ex[p]
  PROVE  Sorted(s, ey)
BY DEF Sorted, Nodes

LEMMA AddKeeps ==
  ASSUME ListInv, NEW t \in ListTimers, NEW e \in Nat, List!add_timer(t, e)
  PROVE  ListInv'
<1>1. /\ t \notin alive /\ alive' = alive \union {t} /\ clock' = clock
      /\ expire' = [expire EXCEPT ![t] = e] /\ lst' = List!Added(lst, expire', t)
  BY DEF List!add_timer
<1>2. /\ expire \in [ListTimers -> Nat] /\ clock \in Nat /\ alive \subseteq ListTimers
      /\ \A p \in ListTimers \ alive : lst.next[p] = NULL /\ lst.prev[p] = NULL
  BY DEF ListInv, Dead
<1>3. PICK s : Chain(lst, s) /\ Nodes(s) = alive /\ Sorted(s, expire)
  BY DEF ListInv, IsList
<1>4. /\ lst \in Links /\ s \in Seq(ListTimers) /\ Len(s) \in Nat /\ NULL \notin ListTimers
      /\ lst.next \in [ListTimers -> ListTimers \union {NULL}]
      /\ lst.prev \in [ListTimers -> ListTimers \union {NULL}]
      /\ \A i \in 1 .. Len(s) : s[i] \in ListTimers /\ s[i] \in Nodes(s)
      /\ \A i, j \in 1 .. Len(s) : s[i] = s[j] => i = j
      /\ lst.head = IF Len(s) = 0 THEN NULL ELSE s[1]
  BY <1>3, ChainIs
<1>5. expire' \in [ListTimers -> Nat] /\ expire'[t] = e /\ \A p \in Nodes(s) : expire'[p] = expire[p]
  BY <1>1, <1>2, <1>3
<1>6. Sorted(s, expire')
  BY <1>3, <1>5, SortedAgain
<1>7. /\ \E r : IsList(lst', expire', alive', r)
      /\ \A p \in ListTimers \ alive' : lst'.next[p] = lst.next[p] /\ lst'.prev[p] = lst.prev[p]
  <2>1. CASE Len(s) = 0
    <3>1. lst' = [lst EXCEPT !.head = t, !.tail = t]
      BY <1>1, <1>4, <2>1 DEF List!Added
    <3>2. lst'.head = t /\ lst'.tail = t /\ lst'.next = lst.next /\ lst'.prev = lst.prev /\ lst' \in Links
      BY <1>4, <3>1 DEF Links
    <3>3. lst'.next[t] = NULL /\ lst'.prev[t] = NULL
      BY <1>1, <1>2, <3>2
    <3>4. t \in ListTimers \ Nodes(s) /\ 0 \in 0 .. Len(s)
      BY <1>1, <1>3, <2>1
    <3>5. \A i \in 1 .. Len(s) : FALSE
      BY <2>1
    <3>6. Spliced(lst, s, 0, t, lst')
      BY <2>1, <3>2, <3>3, <3>5 DEF Spliced
    <3>8. Chain(lst', With(s, 0, t)) /\ Nodes(With(s, 0, t)) = Nodes(s) \union {t}
      BY <1>3, <3>4, <3>6, Linking
    <3>7. Sorted(With(s, 0, t), expire')
      <4>1. ~(0 > 0) /\ ~(0 < Len(s))
        BY <2>1
      <4> QED
        BY <1>4, <1>5, <1>6, <3>4, <4>1, SortedWith
    <3> QED
      BY <1>1, <1>3, <3>2, <3>8, <3>7 DEF IsList
  <2>2. CASE Len(s) # 0 /\ expire'[t] < expire'[lst.head]
    <3>0. 1 \in 1 .. Len(s) /\ lst.head = s[1] /\ s[1] \in ListTimers /\ s[1] # NULL /\ s[1] # t
      BY <1>1, <1>3, <1>4, <2>2
    <3>1. lst' = List!AtFront(lst, t)
      BY <1>1, <2>2, <3>0 DEF List!Added
    <3>2. /\ lst'.head = t /\ lst'.tail = lst.tail /\ lst'.next = [lst.next EXCEPT ![t] = s[1]]
          /\ lst'.prev = [lst.prev EXCEPT ![t] = NULL, ![s[1]] = t]
      BY <1>4, <3>0, <3>1 DEF Links, List!AtFront
    <3>3. lst' \in Links
      <4>1. [lst.next EXCEPT ![t] = s[1]] \in [ListTimers -> ListTimers \union {NULL}]
        BY <1>4, <3>0
      <4>2. [lst.prev EXCEPT ![t] = NULL, ![s[1]] = t] \in [ListTimers -> ListTimers \union {NULL}]
        BY <1>4, <3>0
      <4>3. [lst EXCEPT !.next[t] = s[1], !.prev = [lst.prev EXCEPT ![t] = NULL, ![s[1]] = t], !.head = t] \in Links
        BY <1>4, <4>1, <4>2 DEF Links
      <4> QED
        BY <3>0, <3>1, <4>3 DEF List!AtFront
    <3>4. t \in ListTimers \ Nodes(s) /\ 0 \in 0 .. Len(s) /\ 0 # Len(s)
      BY <1>1, <1>3, <1>4, <2>2
    <3>5. lst'.next[t] = s[0 + 1] /\ lst'.prev[t] = NULL
      BY <1>4, <3>0, <3>2
    <3>6. \A i \in 1 .. Len(s) : lst'.next[s[i]] = IF i = 0 THEN t ELSE lst.next[s[i]]
      BY <1>3, <1>4, <3>2, <3>4
    <3>7. \A i \in 1 .. Len(s) : lst'.prev[s[i]] = IF i = 0 + 1 THEN t ELSE lst.prev[s[i]]
      BY <1>3, <1>4, <3>0, <3>2, <3>4
    <3>11. Spliced(lst, s, 0, t, lst')
      BY <1>4, <3>2, <3>3, <3>4, <3>5, <3>6, <3>7 DEF Spliced
    <3>8. Chain(lst', With(s, 0, t)) /\ Nodes(With(s, 0, t)) = Nodes(s) \union {t}
      BY <1>3, <3>4, <3>11, Linking
    <3>9. Sorted(With(s, 0, t), expire')
      <4>1. ~(0 > 0) /\ expire'[t] <= expire'[s[0 + 1]]
        BY <1>5, <2>2, <3>0
      <4> QED
        BY <1>4, <1>5, <1>6, <3>4, <4>1, SortedWith
    <3>10. \A p \in ListTimers \ alive' : lst'.next[p] = lst.next[p] /\ lst'.prev[p] = lst.prev[p]
      <4> SUFFICES ASSUME NEW p \in ListTimers \ alive'
                   PROVE lst'.next[p] = lst.next[p] /\ lst'.prev[p] = lst.prev[p]
        OBVIOUS
      <4>1. p # t /\ p # s[1]
        BY <1>1, <1>3, <1>4, <3>0
      <4> QED
        BY <1>4, <3>2, <4>1
    <3> QED
      BY <1>1, <1>3, <3>8, <3>9, <3>10 DEF IsList
  <2>3. CASE Len(s) # 0 /\ ~(expire'[t] < expire'[lst.head])
    <3>0. 1 \in 1 .. Len(s) /\ lst.head = s[1] /\ s[1] \in ListTimers /\ s[1] # NULL
      BY <1>4, <2>3
    <3>1. lst' = List!AddAfter(lst, expire', t, s[1])
      BY <1>1, <2>3, <3>0 DEF List!Added
    <3>2. expire'[s[1]] <= expire'[t]
      BY <1>5, <2>3, <3>0
    <3>3. t \in ListTimers \ Nodes(s) /\ \A p \in ListTimers \ Nodes(s) : lst.next[p] \in Nodes(s) \union {NULL}
      BY <1>1, <1>2, <1>3
    <3>5. Follows(lst, s, expire', t, 1)
      BY <1>3, <1>5, <1>6, <3>0, <3>2, <3>3 DEF Follows
    <3>4. /\ \E r : IsList(lst', expire', Nodes(s) \union {t}, r)
          /\ \A p \in ListTimers \ (Nodes(s) \union {t}) : lst'.next[p] = lst.next[p] /\ lst'.prev[p] = lst.prev[p]
      <4> DEFINE m == lst'
                 ey == expire'
      <4>1. Follows(lst, s, ey, t, 1) /\ m = List!AddAfter(lst, ey, t, s[1])
        BY <3>1, <3>5
      <4> HIDE DEF m, ey
      <4>2. \E r : IsList(m, ey, Nodes(s) \union {t}, r)
        BY <4>1, AddingAfter
      <4>3. Elsewhere(lst, m, Nodes(s) \union {t})
        BY <4>1, AddingAfter
      <4> QED
        BY <4>2, <4>3 DEF m, ey, Elsewhere
    <3> QED
      BY <1>1, <1>3, <3>4
  <2> QED
    BY <2>1, <2>2, <2>3
<1>8. Dead(lst', alive')
  BY <1>1, <1>2, <1>7 DEF Dead
<1>9. alive' \subseteq ListTimers /\ clock' \in Nat
  BY <1>1, <1>2
<1> QED
  BY <1>5, <1>7, <1>8, <1>9 DEF ListInv

\* Where timer t is in the list s.
LEMMA PlaceOf ==
  ASSUME NEW s, NEW t \in Nodes(s)
  PROVE  \E k \in 1 .. Len(s) : s[k] = t
BY DEF Nodes

\* A list that loses its k-th node, and a node that keeps no links.
LEMMA Removing ==
  ASSUME NEW l, NEW ex, NEW A, NEW s, IsList(l, ex, A, s), Dead(l, A),
         NEW k \in 1 .. Len(s), NEW m, Cut(l, s, k, m),
         Elsewhere(l, m, A), m.next[s[k]] = NULL, m.prev[s[k]] = NULL
  PROVE  (\E r : IsList(m, ex, A \ {s[k]}, r)) /\ Dead(m, A \ {s[k]})
<1>1. Chain(l, s) /\ Nodes(s) = A /\ Sorted(s, ex)
  BY DEF IsList
<1>2. s \in Seq(ListTimers)
  BY <1>1 DEF Chain
<1>3. Chain(m, Without(s, k)) /\ Nodes(Without(s, k)) = A \ {s[k]}
  BY <1>1, Unlinking
<1>4. Sorted(Without(s, k), ex)
  BY <1>1, <1>2, SortedWithout
<1>5. IsList(m, ex, A \ {s[k]}, Without(s, k))
  BY <1>3, <1>4 DEF IsList
<1>6. Dead(m, A \ {s[k]})
  BY DEF Dead, Elsewhere
<1> QED
  BY <1>5, <1>6

\* The first node's timer: it is freed, and the next node is the first.
LEMMA TickFiresKeeps ==
  ASSUME ListInv, List!TickFires
  PROVE  ListInv'
<1> DEFINE h == lst.head
           rest == lst.next[h]
           m == lst'
<1>1. /\ h # NULL /\ alive' = alive \ {h} /\ expire' = expire /\ clock' = clock
      /\ m = List!Freed([lst EXCEPT !.head = rest,
                                    !.prev = [u \in ListTimers |-> IF u = rest THEN NULL ELSE @[u]]], h)
  BY DEF List!TickFires
<1>2. /\ expire \in [ListTimers -> Nat] /\ clock \in Nat /\ alive \subseteq ListTimers /\ Dead(lst, alive)
  BY DEF ListInv
<1>3. PICK s : IsList(lst, expire, alive, s)
  BY DEF ListInv
<1>4. /\ lst \in Links /\ s \in Seq(ListTimers) /\ Len(s) \in Nat /\ NULL \notin ListTimers
      /\ lst.next \in [ListTimers -> ListTimers \union {NULL}]
      /\ lst.prev \in [ListTimers -> ListTimers \union {NULL}]
      /\ \A i \in 1 .. Len(s) : s[i] \in ListTimers /\ s[i] \in alive
      /\ \A i, j \in 1 .. Len(s) : s[i] = s[j] => i = j
      /\ \A i \in 1 .. Len(s) : lst.next[s[i]] = IF i = Len(s) THEN NULL ELSE s[i + 1]
      /\ \A i \in 1 .. Len(s) : lst.prev[s[i]] = IF i = 1 THEN NULL ELSE s[i - 1]
      /\ \A i \in 1 .. Len(s) : lst.next[s[i]] \in alive \union {NULL}
      /\ lst.head = IF Len(s) = 0 THEN NULL ELSE s[1]
  BY <1>3, ChainIs DEF IsList
<1>5. 1 \in 1 .. Len(s) /\ h = s[1] /\ h \in ListTimers
  BY <1>1, <1>4
<1>6. rest \in alive \union {NULL} /\ rest # h /\ (rest = IF Len(s) = 1 THEN NULL ELSE s[2])
  <2>1. rest = IF 1 = Len(s) THEN NULL ELSE s[1 + 1]
    <3>1. lst.next[s[1]] = IF 1 = Len(s) THEN NULL ELSE s[1 + 1]
      BY <1>4, <1>5
    <3> QED
      BY <1>5, <3>1
  <2>2. 1 # Len(s) => 2 \in 1 .. Len(s)
    <3>1. Len(s) \in Nat /\ Len(s) # 0
      BY <1>4, <1>5
    <3>2. \A n \in Nat : n # 0 /\ 1 # n => 2 \in 1 .. n
      OBVIOUS
    <3> QED
      BY <3>1, <3>2
  <2>3. rest = IF Len(s) = 1 THEN NULL ELSE s[2]
    BY <2>1
  <2> HIDE DEF rest
  <2>4. CASE Len(s) = 1
    BY <1>1, <2>3, <2>4
  <2>5. CASE Len(s) # 1
    <3>1. rest = s[2] /\ 2 \in 1 .. Len(s)
      BY <2>2, <2>3, <2>5
    <3>2. rest \in alive
      BY <1>4, <3>1
    <3>3. s[2] # s[1]
      BY <1>4, <1>5, <3>1
    <3> QED
      BY <1>5, <2>3, <3>1, <3>2, <3>3
  <2> QED
    BY <2>4, <2>5
<1> HIDE DEF h, rest, m
<1>7. /\ m.head = rest /\ m.tail = lst.tail /\ m.next = [lst.next EXCEPT ![h] = NULL]
      /\ m.prev = [u \in ListTimers |-> IF u = h THEN NULL ELSE IF u = rest THEN NULL ELSE lst.prev[u]]
      /\ m \in Links
  <2> DEFINE p1 == [u \in ListTimers |-> IF u = rest THEN NULL ELSE lst.prev[u]]
             l1 == [lst EXCEPT !.head = rest, !.prev = p1]
  <2>1. p1 \in [ListTimers -> ListTimers \union {NULL}]
    BY <1>4
  <2>2. l1 \in Links /\ l1.head = rest /\ l1.tail = lst.tail /\ l1.next = lst.next /\ l1.prev = p1
    <3> HIDE DEF p1
    <3> QED
      BY <1>2, <1>4, <1>6, <2>1 DEF Links
  <2>3. m = [l1 EXCEPT !.next[h] = NULL, !.prev[h] = NULL]
    BY <1>1, <1>4 DEF List!Freed, Links
  <2>4. /\ m.head = rest /\ m.tail = lst.tail /\ m.next = [lst.next EXCEPT ![h] = NULL]
        /\ m.prev = [p1 EXCEPT ![h] = NULL] /\ m \in Links
    <3> HIDE DEF p1, l1
    <3>1. [lst.next EXCEPT ![h] = NULL] \in [ListTimers -> ListTimers \union {NULL}]
      BY <1>4
    <3>2. [p1 EXCEPT ![h] = NULL] \in [ListTimers -> ListTimers \union {NULL}]
      BY <2>1
    <3> QED
      BY <1>4, <2>2, <2>3, <3>1, <3>2 DEF Links
  <2>5. [p1 EXCEPT ![h] = NULL] = [u \in ListTimers |-> IF u = h THEN NULL ELSE IF u = rest THEN NULL ELSE lst.prev[u]]
    BY <1>5
  <2> QED
    BY <2>4, <2>5
<1>8. Cut(lst, s, 1, m)
  <2>1. m.head = IF 1 = 1 THEN lst.next[s[1]] ELSE lst.head
    BY <1>5, <1>7 DEF rest
  <2>2. Len(s) # 1 => m.tail = IF 1 = Len(s) THEN lst.prev[s[1]] ELSE lst.tail
    BY <1>7
  <2>3. \A i \in 1 .. Len(s) : i # 1 => m.next[s[i]] = IF i = 1 - 1 THEN lst.next[s[1]] ELSE lst.next[s[i]]
    BY <1>4, <1>5, <1>7
  <2>4. ASSUME NEW i \in 1 .. Len(s), i # 1
        PROVE  m.prev[s[i]] = IF i = 1 + 1 THEN lst.prev[s[1]] ELSE lst.prev[s[i]]
    <3>1. s[i] # h /\ s[i] \in ListTimers /\ lst.prev[s[1]] = NULL
      BY <1>4, <1>5, <2>4
    <3>2. m.prev[s[i]] = IF s[i] = rest THEN NULL ELSE lst.prev[s[i]]
      BY <1>7, <3>1
    <3>3. s[i] = rest <=> i = 2
      <4>1. Len(s) # 1 /\ 2 \in 1 .. Len(s) /\ rest = s[2]
        BY <1>4, <1>6, <2>4
      <4> QED
        BY <1>4, <4>1
    <3> QED
      BY <3>1, <3>2, <3>3
  <2> QED
    BY <1>7, <2>1, <2>2, <2>3, <2>4 DEF Cut
<1>9. Elsewhere(lst, m, alive) /\ m.next[s[1]] = NULL /\ m.prev[s[1]] = NULL
  <2>1. h \in alive
    BY <1>4, <1>5
  <2>2. ASSUME NEW p \in ListTimers \ alive PROVE m.next[p] = lst.next[p] /\ m.prev[p] = lst.prev[p]
    <3>1. p # h /\ p # rest
      BY <1>4, <1>6, <2>1
    <3> QED
      BY <1>4, <1>7, <3>1
  <2> QED
    BY <1>4, <1>5, <1>7, <2>2 DEF Elsewhere
<1>10. (\E r : IsList(m, expire, alive \ {s[1]}, r)) /\ Dead(m, alive \ {s[1]})
  BY <1>2, <1>3, <1>5, <1>8, <1>9, Removing
<1> QED
  BY <1>1, <1>2, <1>5, <1>10 DEF ListInv, m

\* The neighbours of node t are linked to each other.
Bridged(l, t, m) ==
  \A p \in ListTimers \ {t} : /\ m.next[p] = IF p = l.prev[t] THEN l.next[t] ELSE l.next[p]
                              /\ m.prev[p] = IF p = l.next[t] THEN l.prev[t] ELSE l.prev[p]

LEMMA BridgeCuts ==
  ASSUME NEW l, NEW s, Chain(l, s), NEW k \in 1 .. Len(s),
         NEW m \in Links, Bridged(l, s[k], m),
         m.head = IF k = 1 THEN l.next[s[k]] ELSE l.head,
         Len(s) # 1 => m.tail = IF k = Len(s) THEN l.prev[s[k]] ELSE l.tail
  PROVE  Cut(l, s, k, m) /\ Elsewhere(l, m, Nodes(s))
<1> DEFINE n == Len(s)
           t == s[k]
<1>1. /\ n \in Nat /\ NULL \notin ListTimers
      /\ \A i \in 1 .. n : s[i] \in ListTimers /\ s[i] \in Nodes(s)
      /\ \A i, j \in 1 .. n : s[i] = s[j] => i = j
      /\ \A i \in 1 .. n : l.next[s[i]] = IF i = n THEN NULL ELSE s[i + 1]
      /\ \A i \in 1 .. n : l.prev[s[i]] = IF i = 1 THEN NULL ELSE s[i - 1]
      /\ \A i \in 1 .. n : l.next[s[i]] \in Nodes(s) \union {NULL} /\ l.prev[s[i]] \in Nodes(s) \union {NULL}
  BY ChainIs
<1>2. /\ t \in ListTimers /\ t \in Nodes(s)
      /\ \A p \in ListTimers \ {t} : /\ m.next[p] = IF p = l.prev[t] THEN l.next[t] ELSE l.next[p]
                                     /\ m.prev[p] = IF p = l.next[t] THEN l.prev[t] ELSE l.prev[p]
      /\ l.next[t] = IF k = n THEN NULL ELSE s[k + 1]
      /\ l.prev[t] = IF k = 1 THEN NULL ELSE s[k - 1]
      /\ l.next[t] \in Nodes(s) \union {NULL} /\ l.prev[t] \in Nodes(s) \union {NULL}
  BY <1>1 DEF Bridged
<1>3. /\ k \in 1 .. n /\ k \in Nat
      /\ \A i \in 1 .. n : i # k => s[i] \in ListTimers \ {t}
  BY <1>1
<1>4. /\ m.head = IF k = 1 THEN l.next[t] ELSE l.head
      /\ n # 1 => m.tail = IF k = n THEN l.prev[t] ELSE l.tail
  OBVIOUS
<1> HIDE DEF n, t
<1>5. ASSUME NEW i \in 1 .. n, i # k
      PROVE  /\ m.next[s[i]] = IF i = k - 1 THEN l.next[t] ELSE l.next[s[i]]
             /\ m.prev[s[i]] = IF i = k + 1 THEN l.prev[t] ELSE l.prev[s[i]]
  <2>1. s[i] = l.prev[t] <=> i = k - 1
    <3>1. CASE k = 1
      BY <1>1, <1>2, <3>1
    <3>2. CASE k # 1
      <4>1. k - 1 \in 1 .. n /\ l.prev[t] = s[k - 1]
        BY <1>1, <1>2, <1>3, <3>2
      <4> QED
        BY <1>1, <4>1
    <3> QED
      BY <3>1, <3>2
  <2>2. s[i] = l.next[t] <=> i = k + 1
    <3>1. CASE k = n
      BY <1>1, <1>2, <1>3, <3>1
    <3>2. CASE k # n
      <4>1. k + 1 \in 1 .. n /\ l.next[t] = s[k + 1]
        BY <1>1, <1>2, <1>3, <3>2
      <4> QED
        BY <1>1, <4>1
    <3> QED
      BY <3>1, <3>2
  <2>3. s[i] \in ListTimers \ {t}
    BY <1>3, <1>5
  <2> QED
    BY <1>2, <2>1, <2>2, <2>3
<1>6. Elsewhere(l, m, Nodes(s))
  <2>1. ASSUME NEW p \in ListTimers \ Nodes(s)
        PROVE  m.next[p] = l.next[p] /\ m.prev[p] = l.prev[p]
    <3>1. p # t /\ p # l.prev[t] /\ p # l.next[t]
      BY <1>1, <1>2
    <3> QED
      BY <1>2, <3>1
  <2> QED
    BY <2>1 DEF Elsewhere
<1> QED
  BY <1>4, <1>5, <1>6 DEF Cut, n, t

\* A deleted timer's neighbours are bridged, whichever of the ends it was.
LEMMA DelKeeps ==
  ASSUME ListInv, NEW t \in ListTimers, List!del_timer(t)
  PROVE  ListInv'
<1> DEFINE m == lst'
           d == List!Deleted(lst, t)
<1>1. /\ t \in alive /\ alive' = alive \ {t} /\ expire' = expire /\ clock' = clock
      /\ m = List!Freed(d, t)
  BY DEF List!del_timer
<1>2. /\ expire \in [ListTimers -> Nat] /\ clock \in Nat /\ alive \subseteq ListTimers /\ Dead(lst, alive)
  BY DEF ListInv
<1>3. PICK s : IsList(lst, expire, alive, s)
  BY DEF ListInv
<1>4. /\ lst \in Links /\ Len(s) \in Nat /\ NULL \notin ListTimers
      /\ lst.next \in [ListTimers -> ListTimers \union {NULL}]
      /\ lst.prev \in [ListTimers -> ListTimers \union {NULL}]
      /\ \A i \in 1 .. Len(s) : s[i] \in ListTimers /\ s[i] \in alive
      /\ \A i, j \in 1 .. Len(s) : s[i] = s[j] => i = j
      /\ \A i \in 1 .. Len(s) : lst.next[s[i]] = IF i = Len(s) THEN NULL ELSE s[i + 1]
      /\ \A i \in 1 .. Len(s) : lst.prev[s[i]] = IF i = 1 THEN NULL ELSE s[i - 1]
      /\ lst.head = IF Len(s) = 0 THEN NULL ELSE s[1]
      /\ Len(s) # 0 => lst.tail = s[Len(s)]
      /\ Chain(lst, s) /\ Nodes(s) = alive
  BY <1>3, ChainIs DEF IsList
<1>5. PICK k \in 1 .. Len(s) : s[k] = t
  BY <1>1, <1>4, PlaceOf
<1> DEFINE nx == lst.next[t]
           pv == lst.prev[t]
<1>6. /\ (t = lst.head <=> k = 1) /\ (t = lst.tail <=> k = Len(s))
      /\ Len(s) \in Nat /\ k \in Nat /\ Len(s) # 0
  <2>1. Len(s) # 0 /\ 1 \in 1 .. Len(s) /\ Len(s) \in 1 .. Len(s)
    BY <1>4, <1>5
  <2>2. lst.head = s[1] /\ lst.tail = s[Len(s)]
    BY <1>4, <2>1
  <2> QED
    BY <1>4, <1>5, <2>1, <2>2
<1>7. /\ (k = Len(s) => nx = NULL) /\ (k # Len(s) => nx \in ListTimers /\ nx # t)
      /\ (k = 1 => pv = NULL) /\ (k # 1 => pv \in ListTimers /\ pv # t)
  <2>1. k = Len(s) => nx = NULL
    BY <1>4, <1>5
  <2>2. k # Len(s) => nx \in ListTimers /\ nx # t
    <3>1. k # Len(s) => k + 1 \in 1 .. Len(s) /\ k + 1 # k
      BY <1>6
    <3> QED
      BY <1>4, <1>5, <3>1
  <2>3. k = 1 => pv = NULL
    BY <1>4, <1>5
  <2>4. k # 1 => pv \in ListTimers /\ pv # t
    <3>1. k # 1 => k - 1 \in 1 .. Len(s) /\ k - 1 # k
      BY <1>6
    <3> QED
      BY <1>4, <1>5, <3>1
  <2> QED
    BY <2>1, <2>2, <2>3, <2>4
<1> HIDE DEF nx, pv, m, d
<1>8. /\ d \in Links
      /\ d.head = IF k = 1 THEN nx ELSE lst.head
      /\ Len(s) # 1 => d.tail = IF k = Len(s) THEN pv ELSE lst.tail
      /\ d.next = IF k = 1 THEN lst.next ELSE [lst.next EXCEPT ![pv] = nx]
      /\ d.prev = IF k = Len(s) THEN lst.prev ELSE [lst.prev EXCEPT ![nx] = pv]
  <2>0. /\ [lst.next EXCEPT ![pv] = nx] \in [ListTimers -> ListTimers \union {NULL}]
        /\ [lst.prev EXCEPT ![nx] = pv] \in [ListTimers -> ListTimers \union {NULL}]
    BY <1>4, <1>7
  <2>1. CASE k = 1 /\ k = Len(s)
    <3>1. d = [lst EXCEPT !.head = NULL, !.tail = NULL]
      BY <1>6, <2>1 DEF d, List!Deleted
    <3> QED
      BY <1>4, <1>7, <2>1, <3>1 DEF Links
  <2>2. CASE k = 1 /\ k # Len(s)
    <3>1. d = [lst EXCEPT !.head = nx, !.prev = [lst.prev EXCEPT ![nx] = NULL]]
      BY <1>4, <1>6, <2>2 DEF d, nx, List!Deleted, Links
    <3> QED
      BY <1>4, <1>7, <2>0, <2>2, <3>1 DEF Links
  <2>3. CASE k # 1 /\ k = Len(s)
    <3>1. d = [lst EXCEPT !.tail = pv, !.next = [lst.next EXCEPT ![pv] = NULL]]
      BY <1>4, <1>6, <2>3 DEF d, pv, List!Deleted, Links
    <3> QED
      BY <1>4, <1>7, <2>0, <2>3, <3>1 DEF Links
  <2>4. CASE k # 1 /\ k # Len(s)
    <3>1. d = [lst EXCEPT !.next = [lst.next EXCEPT ![pv] = nx], !.prev = [lst.prev EXCEPT ![nx] = pv]]
      BY <1>4, <1>6, <2>4 DEF d, nx, pv, List!Deleted, Links
    <3> QED
      BY <1>4, <1>7, <2>0, <2>4, <3>1 DEF Links
  <2> QED
    BY <2>1, <2>2, <2>3, <2>4
<1>9. /\ m \in Links /\ m.head = d.head /\ m.tail = d.tail
      /\ m.next = [d.next EXCEPT ![t] = NULL] /\ m.prev = [d.prev EXCEPT ![t] = NULL]
  <2>1. d.next \in [ListTimers -> ListTimers \union {NULL}] /\ d.prev \in [ListTimers -> ListTimers \union {NULL}]
    BY <1>8 DEF Links
  <2>2. /\ [d.next EXCEPT ![t] = NULL] \in [ListTimers -> ListTimers \union {NULL}]
        /\ [d.prev EXCEPT ![t] = NULL] \in [ListTimers -> ListTimers \union {NULL}]
    BY <2>1
  <2>3. m = [d EXCEPT !.next = [d.next EXCEPT ![t] = NULL], !.prev = [d.prev EXCEPT ![t] = NULL]]
    BY <1>1, <1>8 DEF List!Freed, Links
  <2> QED
    BY <1>8, <2>2, <2>3 DEF Links
<1>10. Bridged(lst, t, m)
  <2>1. ASSUME NEW p \in ListTimers \ {t} PROVE m.next[p] = IF p = pv THEN nx ELSE lst.next[p]
    <3>1. m.next[p] = d.next[p]
      BY <1>8, <1>9, <2>1 DEF Links
    <3>2. CASE k = 1
      BY <1>4, <1>7, <1>8, <3>1, <3>2
    <3>3. CASE k # 1
      BY <1>4, <1>7, <1>8, <3>1, <3>3
    <3> QED
      BY <3>2, <3>3
  <2>2. ASSUME NEW p \in ListTimers \ {t} PROVE m.prev[p] = IF p = nx THEN pv ELSE lst.prev[p]
    <3>1. m.prev[p] = d.prev[p]
      BY <1>8, <1>9, <2>2 DEF Links
    <3>2. CASE k = Len(s)
      BY <1>4, <1>7, <1>8, <3>1, <3>2
    <3>3. CASE k # Len(s)
      BY <1>4, <1>7, <1>8, <3>1, <3>3
    <3> QED
      BY <3>2, <3>3
  <2> QED
    BY <2>1, <2>2 DEF Bridged, nx, pv
<1>11. Cut(lst, s, k, m) /\ Elsewhere(lst, m, alive)
  <2>1. Bridged(lst, s[k], m)
    BY <1>5, <1>10
  <2>2. m.head = IF k = 1 THEN lst.next[s[k]] ELSE lst.head
    BY <1>5, <1>8, <1>9 DEF nx
  <2>3. Len(s) # 1 => m.tail = IF k = Len(s) THEN lst.prev[s[k]] ELSE lst.tail
    BY <1>5, <1>8, <1>9 DEF pv
  <2> QED
    BY <1>4, <1>9, <2>1, <2>2, <2>3, BridgeCuts
<1>12. m.next[t] = NULL /\ m.prev[t] = NULL
  BY <1>8, <1>9 DEF Links
<1>13. (\E r : IsList(m, expire, alive \ {t}, r)) /\ Dead(m, alive \ {t})
  BY <1>2, <1>3, <1>5, <1>11, <1>12, Removing
<1> QED
  BY <1>1, <1>2, <1>13 DEF ListInv, m

\* A timer that is put off stays where it is, or goes after the next one: the
\* part of the list behind it is as it was.
LEMMA AdjustKeeps ==
  ASSUME ListInv, NEW t \in ListTimers, NEW e \in Nat, List!adjust_timer(t, e)
  PROVE  ListInv'
<1> DEFINE m == lst'
           ex == expire'
<1>1. /\ t \in alive /\ alive' = alive /\ e >= expire[t] /\ clock' = clock
      /\ ex = [expire EXCEPT ![t] = e] /\ m = List!Adjusted(lst, ex, t)
  BY DEF List!adjust_timer
<1>2. /\ expire \in [ListTimers -> Nat] /\ clock \in Nat /\ alive \subseteq ListTimers
      /\ \A p \in ListTimers \ alive : lst.next[p] = NULL /\ lst.prev[p] = NULL
  BY DEF ListInv, Dead
<1>3. PICK s : IsList(lst, expire, alive, s)
  BY DEF ListInv
<1>4. /\ lst \in Links /\ s \in Seq(ListTimers) /\ Len(s) \in Nat /\ NULL \notin ListTimers
      /\ lst.next \in [ListTimers -> ListTimers \union {NULL}]
      /\ lst.prev \in [ListTimers -> ListTimers \union {NULL}]
      /\ \A i \in 1 .. Len(s) : s[i] \in ListTimers /\ s[i] \in alive
      /\ \A i, j \in 1 .. Len(s) : s[i] = s[j] => i = j
      /\ \A i \in 1 .. Len(s) : lst.next[s[i]] = IF i = Len(s) THEN NULL ELSE s[i + 1]
      /\ \A i \in 1 .. Len(s) : lst.prev[s[i]] = IF i = 1 THEN NULL ELSE s[i - 1]
      /\ lst.head = IF Len(s) = 0 THEN NULL ELSE s[1]
      /\ Chain(lst, s) /\ Nodes(s) = alive
  BY <1>3, ChainIs DEF IsList
<1>5. PICK k \in 1 .. Len(s) : s[k] = t
  BY <1>1, <1>4, PlaceOf
<1> DEFINE n == Len(s)
           nx == lst.next[t]
           pv == lst.prev[t]
<1>6. /\ (t = lst.head <=> k = 1) /\ n \in Nat /\ k \in Nat /\ 1 <= k /\ k <= n
      /\ \A i \in 1 .. n : s[i] = t <=> i = k
  <2>1. n # 0 /\ 1 \in 1 .. n /\ k \in Nat /\ 1 <= k /\ k <= n
    BY <1>4, <1>5
  <2>2. lst.head = s[1]
    BY <1>4, <2>1
  <2> QED
    BY <1>4, <1>5, <2>1, <2>2
<1>7. /\ k = n => nx = NULL
      /\ k # n => nx \in ListTimers /\ nx # t /\ nx = s[k + 1] /\ k + 1 \in 1 .. n
      /\ k = 1 => pv = NULL
      /\ k # 1 => pv \in ListTimers /\ pv # t
  <2>1. k = n => nx = NULL
    BY <1>4, <1>5
  <2>2. k # n => k + 1 \in 1 .. n /\ nx = s[k + 1] /\ nx \in ListTimers /\ nx # t
    <3>1. k # n => k + 1 \in 1 .. n /\ k + 1 # k
      BY <1>6
    <3>2. k # n => nx = s[k + 1]
      BY <1>4, <1>5
    <3> QED
      BY <1>4, <1>5, <3>1, <3>2
  <2>3. k = 1 => pv = NULL
    BY <1>4, <1>5
  <2>4. k # 1 => pv \in ListTimers /\ pv # t
    <3>1. k # 1 => k - 1 \in 1 .. n /\ k - 1 # k
      BY <1>6
    <3> QED
      BY <1>4, <1>5, <3>1
  <2> QED
    BY <2>1, <2>2, <2>3, <2>4
<1>8. /\ ex \in [ListTimers -> Nat] /\ ex[t] = e
      /\ \A p \in ListTimers : ex[p] >= expire[p]
      /\ \A p \in ListTimers : p # t => ex[p] = expire[p]
  BY <1>1, <1>2
<1>9. Sorted(s, expire)
  BY <1>3 DEF IsList
<1> HIDE DEF nx, pv, m, ex, n
<1>10. (\E r : IsList(m, ex, alive, r)) /\ Elsewhere(lst, m, alive)
  <2>1. CASE nx = NULL \/ ex[t] < ex[nx]
    <3>1. m = lst
      BY <1>1, <2>1 DEF nx, List!Adjusted
    <3>2. Sorted(s, ex)
      <4> SUFFICES ASSUME NEW i \in 1 .. Len(s), NEW j \in 1 .. Len(s), i <= j PROVE ex[s[i]] <= ex[s[j]]
        BY DEF Sorted
      <4>0. /\ i \in 1 .. n /\ j \in 1 .. n /\ s[i] \in ListTimers /\ s[j] \in ListTimers
            /\ expire[s[i]] <= expire[s[j]]
        BY <1>4, <1>9 DEF Sorted, n
      <4>1. /\ ex[s[i]] \in Nat /\ ex[s[j]] \in Nat /\ expire[s[i]] \in Nat /\ expire[s[j]] \in Nat
            /\ ex[s[j]] >= expire[s[j]]
        BY <1>2, <1>8, <4>0
      <4>2. CASE i # k
        <5>1. ex[s[i]] = expire[s[i]]
          BY <1>6, <1>8, <4>0, <4>2
        <5> QED
          BY <4>0, <4>1, <5>1
      <4>3. CASE i = k /\ j = k
        BY <4>1, <4>3
      <4>4. CASE i = k /\ j # k
        <5>1. k # n /\ k + 1 <= j
          BY <1>6, <4>0, <4>4
        <5>2. k + 1 \in 1 .. n /\ nx = s[k + 1] /\ ex[t] < ex[nx] /\ nx \in ListTimers /\ nx # t
          BY <1>4, <1>7, <2>1, <5>1
        <5>3. expire[s[k + 1]] <= expire[s[j]]
          BY <1>9, <4>0, <5>1, <5>2 DEF Sorted, n
        <5>4. ex[nx] = expire[nx] /\ ex[s[j]] = expire[s[j]] /\ s[i] = t
          BY <1>5, <1>6, <1>8, <4>0, <4>4, <5>2
        <5>5. ex[nx] \in Nat /\ ex[t] \in Nat
          BY <1>8, <5>2
        <5> QED
          BY <4>1, <5>2, <5>3, <5>4, <5>5
      <4> QED
        BY <4>2, <4>3, <4>4
    <3> QED
      BY <1>4, <3>1, <3>2 DEF IsList, Elsewhere
  <2>2. CASE nx # NULL /\ ~(ex[t] < ex[nx])
    <3> DEFINE u == IF t = lst.head
                    THEN [lst EXCEPT !.head = nx, !.prev[nx] = NULL, !.next[t] = NULL]
                    ELSE [lst EXCEPT !.next[pv] = nx, !.prev[nx] = pv]
               r == Without(s, k)
    <3>1. m = List!AddAfter(u, ex, t, nx)
      BY <1>1, <2>2 DEF nx, pv, List!Adjusted
    <3>2. /\ k # n /\ nx \in ListTimers /\ nx # t /\ nx = s[k + 1] /\ k + 1 \in 1 .. n /\ nx # NULL
      BY <1>7, <2>2
    <3> HIDE DEF r
    <3>3. /\ u \in Links /\ u.head = (IF k = 1 THEN nx ELSE lst.head) /\ u.tail = lst.tail
          /\ u.next = IF k = 1 THEN [lst.next EXCEPT ![t] = NULL] ELSE [lst.next EXCEPT ![pv] = nx]
          /\ u.prev = [lst.prev EXCEPT ![nx] = pv]
      <4>0. /\ [lst.next EXCEPT ![pv] = nx] \in [ListTimers -> ListTimers \union {NULL}]
            /\ [lst.next EXCEPT ![t] = NULL] \in [ListTimers -> ListTimers \union {NULL}]
            /\ [lst.prev EXCEPT ![nx] = pv] \in [ListTimers -> ListTimers \union {NULL}]
        BY <1>4, <1>7, <3>2
      <4>1. CASE k = 1
        <5>1. u = [lst EXCEPT !.head = nx, !.prev = [lst.prev EXCEPT ![nx] = pv], !.next = [lst.next EXCEPT ![t] = NULL]]
          BY <1>4, <1>6, <1>7, <4>1 DEF Links
        <5> HIDE DEF u
        <5> QED
          BY <1>4, <3>2, <4>0, <4>1, <5>1 DEF Links
      <4>2. CASE k # 1
        <5>1. u = [lst EXCEPT !.next = [lst.next EXCEPT ![pv] = nx], !.prev = [lst.prev EXCEPT ![nx] = pv]]
          BY <1>4, <1>6, <4>2 DEF Links
        <5> HIDE DEF u
        <5> QED
          BY <1>4, <4>0, <4>2, <5>1 DEF Links
      <4> QED
        BY <4>1, <4>2
    <3> HIDE DEF u
    <3>4. Bridged(lst, t, u)
      <4>1. ASSUME NEW p \in ListTimers \ {t} PROVE u.next[p] = IF p = pv THEN nx ELSE lst.next[p]
        BY <1>4, <1>7, <3>3
      <4>2. ASSUME NEW p \in ListTimers \ {t} PROVE u.prev[p] = IF p = nx THEN pv ELSE lst.prev[p]
        BY <1>4, <3>2, <3>3
      <4> QED
        BY <4>1, <4>2 DEF Bridged, nx, pv
    <3>5. Cut(lst, s, k, u) /\ Elsewhere(lst, u, Nodes(s))
      <4>1. Bridged(lst, s[k], u)
        BY <1>5, <3>4
      <4>2. u.head = IF k = 1 THEN lst.next[s[k]] ELSE lst.head
        BY <1>5, <3>3 DEF nx
      <4>3. Len(s) # 1 => u.tail = IF k = Len(s) THEN lst.prev[s[k]] ELSE lst.tail
        BY <3>2, <3>3 DEF n
      <4> QED
        BY <1>4, <3>3, <4>1, <4>2, <4>3, BridgeCuts
    <3>6. Chain(u, r) /\ Nodes(r) = alive \ {t}
      BY <1>4, <1>5, <3>5, Unlinking DEF r
    <3>7. Sorted(r, ex)
      <4>1. Sorted(r, expire)
        BY <1>4, <1>9, SortedWithout DEF r
      <4>2. \A p \in Nodes(r) : ex[p] = expire[p]
        BY <1>2, <1>8, <3>6
      <4> QED
        BY <4>1, <4>2, SortedAgain
    <3>8. Len(r) = n - 1 /\ k \in 1 .. Len(r) /\ r[k] = nx
      <4>1. Len(r) = n - 1 /\ \A i \in 1 .. n - 1 : r[i] = IF i < k THEN s[i] ELSE s[i + 1]
        BY <1>4, WithoutIs DEF r, n
      <4>2. k \in 1 .. n - 1
        BY <1>6, <3>2
      <4> QED
        BY <1>6, <3>2, <4>1, <4>2
    <3>9. Follows(u, r, ex, t, k)
      <4>1. ex[r[k]] <= ex[t]
        <5>1. ex[nx] \in Nat /\ ex[t] \in Nat
          BY <1>8, <3>2
        <5> QED
          BY <2>2, <3>8, <5>1
      <4>2. t \in ListTimers \ Nodes(r)
        BY <3>6
      <4>3. ASSUME NEW p \in ListTimers \ Nodes(r) PROVE u.next[p] \in Nodes(r) \union {NULL}
        <5>1. CASE p = t
          <6>1. CASE k = 1
            BY <1>4, <3>3, <5>1, <6>1
          <6>2. CASE k # 1
            <7>1. u.next[t] = nx
              BY <1>4, <1>7, <3>3, <6>2 DEF nx
            <7>2. nx \in Nodes(r)
              BY <3>8 DEF Nodes
            <7> QED
              BY <5>1, <7>1, <7>2
          <6> QED
            BY <6>1, <6>2
        <5>2. CASE p # t
          <6>1. p \in ListTimers \ alive
            BY <3>6, <4>3, <5>2
          <6>2. u.next[p] = lst.next[p]
            BY <1>4, <3>5, <6>1 DEF Elsewhere
          <6> QED
            BY <1>2, <6>1, <6>2
        <5> QED
          BY <5>1, <5>2
      <4> QED
        BY <1>8, <3>6, <3>7, <3>8, <4>1, <4>2, <4>3 DEF Follows
    <3>10. m = List!AddAfter(u, ex, t, r[k])
      BY <3>1, <3>8
    <3>11. \E q : IsList(m, ex, Nodes(r) \union {t}, q)
      BY <3>9, <3>10, AddingAfter
    <3>12. Elsewhere(u, m, Nodes(r) \union {t})
      BY <3>9, <3>10, AddingAfter
    <3>13. Nodes(r) \union {t} = alive
      BY <1>1, <3>6
    <3>14. Elsewhere(lst, m, alive)
      BY <1>4, <3>5, <3>12, <3>13 DEF Elsewhere
    <3> QED
      BY <3>11, <3>13, <3>14
  <2> QED
    BY <2>1, <2>2
<1>11. Dead(m, alive)
  BY <1>2, <1>10 DEF Dead, Elsewhere
<1> QED
  BY <1>1, <1>2, <1>8, <1>10, <1>11 DEF ListInv, m, ex

\* Nth, of any list and as far as n.
NthOf(l, n) == CHOOSE f : f = [i \in 1 .. n + 1 |->
  IF i = 1 THEN l.head ELSE IF f[i - 1] = NULL THEN NULL ELSE l.next[f[i - 1]]]

LEMMA SameCardinality == \A S : List!Cardinality(S) = Cardinality(S)
BY DEF List!Cardinality, Cardinality

LEMMA NthIsOf == List!Nth = NthOf(lst, Cardinality(ListTimers))
<1>1. List!Nth = NthOf(lst, List!Cardinality(ListTimers))
  BY DEF List!Nth, NthOf
<1> QED
  BY <1>1, SameCardinality

\* From the head, the links go through the nodes of the list, and then to NULL.
LEMMA NthIs ==
  ASSUME NEW l, NEW s, Chain(l, s), NEW c \in Nat, Len(s) <= c
  PROVE  \A n \in 1 .. c + 1 : NthOf(l, c)[n] = IF n <= Len(s) THEN s[n] ELSE NULL
<1> DEFINE g == [n \in 1 .. c + 1 |-> IF n <= Len(s) THEN s[n] ELSE NULL]
           f == NthOf(l, c)
<1>1. /\ Len(s) \in Nat /\ NULL \notin ListTimers
      /\ \A i \in 1 .. Len(s) : s[i] \in ListTimers
      /\ \A i \in 1 .. Len(s) : l.next[s[i]] = IF i = Len(s) THEN NULL ELSE s[i + 1]
      /\ l.head = IF Len(s) = 0 THEN NULL ELSE s[1]
  BY ChainIs
<1>2. g = [i \in 1 .. c + 1 |-> IF i = 1 THEN l.head ELSE IF g[i - 1] = NULL THEN NULL ELSE l.next[g[i - 1]]]
  <2>1. ASSUME NEW i \in 1 .. c + 1
        PROVE  g[i] = IF i = 1 THEN l.head ELSE IF g[i - 1] = NULL THEN NULL ELSE l.next[g[i - 1]]
    <3>1. CASE i = 1
      BY <1>1, <3>1
    <3>2. CASE i # 1 /\ i <= Len(s)
      <4>1. i - 1 \in 1 .. c + 1 /\ i - 1 \in 1 .. Len(s) /\ i - 1 # Len(s) /\ (i - 1) + 1 = i
        BY <1>1, <3>2
      <4>2. g[i - 1] = s[i - 1] /\ g[i] = s[i]
        BY <3>2, <4>1
      <4> HIDE DEF g
      <4>3. g[i - 1] # NULL /\ l.next[s[i - 1]] = s[i]
        BY <1>1, <4>1, <4>2
      <4> QED
        BY <3>2, <4>2, <4>3
    <3>3. CASE i # 1 /\ i = Len(s) + 1
      <4>1. i - 1 \in 1 .. c + 1 /\ i - 1 \in 1 .. Len(s) /\ i - 1 = Len(s) /\ ~(i <= Len(s))
        BY <1>1, <3>3
      <4>2. g[i - 1] = s[i - 1] /\ g[i] = NULL
        BY <4>1
      <4> HIDE DEF g
      <4>3. g[i - 1] # NULL /\ l.next[s[i - 1]] = NULL
        BY <1>1, <4>1, <4>2
      <4> QED
        BY <3>3, <4>2, <4>3
    <3>4. CASE i # 1 /\ i > Len(s) + 1
      <4>1. i - 1 \in 1 .. c + 1 /\ ~(i - 1 <= Len(s)) /\ ~(i <= Len(s))
        BY <1>1, <3>4
      <4>2. g[i - 1] = NULL /\ g[i] = NULL
        BY <4>1
      <4> QED
        BY <3>4, <4>2
    <3> QED
      BY <1>1, <3>1, <3>2, <3>3, <3>4
  <2> DEFINE h == [i \in 1 .. c + 1 |-> IF i = 1 THEN l.head ELSE IF g[i - 1] = NULL THEN NULL ELSE l.next[g[i - 1]]]
  <2>2. \A i \in 1 .. c + 1 : g[i] = h[i]
    BY <2>1
  <2> QED
    BY <2>2
<1>3. f = [i \in 1 .. c + 1 |-> IF i = 1 THEN l.head ELSE IF f[i - 1] = NULL THEN NULL ELSE l.next[f[i - 1]]]
  <2> HIDE DEF g
  <2> QED
    BY <1>2 DEF NthOf
<1> HIDE DEF f
<1>4. \A n \in 1 .. c + 1 : f[n] = g[n]
  <2> DEFINE T == {n \in 1 .. c + 1 : f[n] # g[n]}
  <2> SUFFICES ASSUME T # {} PROVE FALSE
    OBVIOUS
  <2>1. T \in SUBSET Nat
    OBVIOUS
  <2>2. PICK n \in T : \A x \in T : n <= x
    BY <2>1, LeastMember
  <2> HIDE DEF g
  <2>3. n \in 1 .. c + 1 /\ f[n] # g[n]
    OBVIOUS
  <2>4. n # 1
    BY <1>2, <1>3, <2>3
  <2>5. n - 1 \in 1 .. c + 1 /\ n - 1 \notin T
    BY <2>2, <2>3, <2>4
  <2>6. f[n - 1] = g[n - 1]
    BY <2>5
  <2>7. f[n] = IF f[n - 1] = NULL THEN NULL ELSE l.next[f[n - 1]]
    BY <1>3, <2>3, <2>4
  <2>8. g[n] = IF g[n - 1] = NULL THEN NULL ELSE l.next[g[n - 1]]
    BY <1>2, <2>3, <2>4
  <2> QED
    BY <2>3, <2>6, <2>7, <2>8
<1> QED
  BY <1>4 DEF f

\* A list has as many nodes as it links.
LEMMA NodesCount ==
  ASSUME NEW s \in Seq(ListTimers), \A i, j \in 1 .. Len(s) : s[i] = s[j] => i = j
  PROVE  Cardinality(Nodes(s)) = Len(s) /\ Len(s) <= Cardinality(ListTimers) /\ Cardinality(ListTimers) \in Nat
<1>1. Len(s) \in Nat /\ \A i \in 1 .. Len(s) : s[i] \in ListTimers
  BY LenProperties, ElementOfSeq
<1>2. s \in [1 .. Len(s) -> Nodes(s)]
  BY LenProperties DEF Nodes
<1>3. s \in Bijection(1 .. Len(s), Nodes(s))
  <2>1. s \in Injection(1 .. Len(s), Nodes(s))
    BY <1>2, Zenon DEF Injection, IsInjective
  <2>2. s \in Surjection(1 .. Len(s), Nodes(s))
    BY <1>2, Zenon DEF Surjection, Nodes
  <2> QED
    BY <2>1, <2>2 DEF Bijection
<1>4. IsFiniteSet(1 .. Len(s)) /\ Cardinality(1 .. Len(s)) = Len(s)
  <2> DEFINE n == Len(s)
  <2>1. n \in Nat /\ n \in Int /\ 1 \in Int
    BY <1>1
  <2> HIDE DEF n
  <2>2. IsFiniteSet(1 .. n) /\ Cardinality(1 .. n) = IF 1 > n THEN 0 ELSE n - 1 + 1
    BY <2>1, FS_Interval
  <2>3. (IF 1 > n THEN 0 ELSE n - 1 + 1) = n
    BY <2>1
  <2> QED
    BY <2>2, <2>3 DEF n
<1>5. Cardinality(Nodes(s)) = Cardinality(1 .. Len(s))
  BY <1>3, <1>4, FS_Bijection DEF ExistsBijection
<1>6. Nodes(s) \in SUBSET ListTimers
  BY <1>1 DEF Nodes
<1>7. IsFiniteSet(ListTimers)
  BY TimersAssumption
<1>8. Cardinality(Nodes(s)) <= Cardinality(ListTimers) /\ Cardinality(ListTimers) \in Nat
  BY <1>6, <1>7, FS_Subset, FS_CardinalityType
<1> QED
  BY <1>4, <1>5, <1>8

LEMMA ListInvLinks == ListInv => List!WellLinked
<1> SUFFICES ASSUME ListInv PROVE List!WellLinked
  OBVIOUS
<1>1. PICK s : IsList(lst, expire, alive, s)
  BY DEF ListInv
<1>2. Chain(lst, s) /\ Nodes(s) = alive /\ Sorted(s, expire)
  BY <1>1 DEF IsList
<1> DEFINE n == Len(s)
           c == Cardinality(ListTimers)
           nth == List!Nth
<1>3. /\ s \in Seq(ListTimers) /\ n \in Nat
      /\ \A i, j \in 1 .. n : s[i] = s[j] => i = j
      /\ \A i \in 1 .. n : lst.prev[s[i]] = IF i = 1 THEN NULL ELSE s[i - 1]
      /\ n # 0 => lst.tail = s[n]
  BY <1>2, ChainIs
<1>4. Cardinality(alive) = n /\ n <= c /\ c \in Nat
  BY <1>2, <1>3, NodesCount
<1>5. \A i \in 1 .. c + 1 : nth[i] = IF i <= n THEN s[i] ELSE NULL
  BY <1>2, <1>4, NthIs, NthIsOf
<1> HIDE DEF n, c, nth
<1>6. \A i \in 1 .. n : i \in 1 .. c + 1 /\ nth[i] = s[i]
  BY <1>3, <1>4, <1>5
<1>7. {nth[i] : i \in 1 .. n} = alive
  BY <1>2, <1>6 DEF Nodes, n
<1>8. nth[n + 1] = NULL
  <2>1. n + 1 \in 1 .. c + 1 /\ ~(n + 1 <= n)
    BY <1>3, <1>4
  <2> QED
    BY <1>5, <2>1
<1>9. n > 0 => nth[n] = lst.tail
  <2>1. n > 0 => n # 0 /\ n \in 1 .. n
    BY <1>3
  <2> QED
    BY <1>3, <1>6, <2>1
<1>10. \A i \in 1 .. n : lst.prev[nth[i]] = IF i = 1 THEN NULL ELSE nth[i - 1]
  <2> SUFFICES ASSUME NEW i \in 1 .. n PROVE lst.prev[nth[i]] = IF i = 1 THEN NULL ELSE nth[i - 1]
    OBVIOUS
  <2>1. i # 1 => i - 1 \in 1 .. n
    BY <1>3
  <2> QED
    BY <1>3, <1>6, <2>1
<1>11. \A i \in 2 .. n : expire[nth[i - 1]] <= expire[nth[i]]
  <2> SUFFICES ASSUME NEW i \in 2 .. n PROVE expire[nth[i - 1]] <= expire[nth[i]]
    OBVIOUS
  <2>1. i \in 1 .. n /\ i - 1 \in 1 .. n /\ i - 1 <= i
    BY <1>3
  <2>2. expire[s[i - 1]] <= expire[s[i]]
    BY <1>2, <2>1 DEF Sorted, n
  <2> QED
    BY <1>6, <2>1, <2>2
<1> QED
  BY <1>4, <1>7, <1>8, <1>9, <1>10, <1>11, SameCardinality DEF List!WellLinked, nth

-----------------------------------------------------------------------------
\* A new list is empty.
LEMMA ListInit == List!Init => ListInv
<1> SUFFICES ASSUME List!Init PROVE ListInv
  OBVIOUS
<1>1. /\ lst = [head |-> NULL, tail |-> NULL,
                next |-> [t \in ListTimers |-> NULL], prev |-> [t \in ListTimers |-> NULL]]
      /\ alive = {} /\ expire = [t \in ListTimers |-> 0] /\ clock = 0
  BY DEF List!Init
<1>2. <<>> \in Seq(ListTimers) /\ Len(<<>>) = 0 /\ \A i \in 1 .. Len(<<>>) : FALSE
  BY EmptySeq
<1>3. Chain(lst, <<>>) /\ Nodes(<<>>) = alive /\ Sorted(<<>>, expire)
  BY <1>1, <1>2 DEF Chain, Nodes, Sorted, Links
<1> QED
  BY <1>1, <1>3 DEF ListInv, IsList, Dead

LEMMA ListStep == ListInv /\ [List!Next]_listvars => ListInv'
<1> SUFFICES ASSUME ListInv, [List!Next]_listvars PROVE ListInv'
  OBVIOUS
<1>0. clock \in Nat
  BY DEF ListInv
<1>1. ASSUME NEW t \in ListTimers, NEW d \in 0 .. MaxDelay, List!add_timer(t, clock + d) PROVE ListInv'
  <2>1. clock + d \in Nat
    BY <1>0
  <2> QED
    BY <1>1, <2>1, AddKeeps
<1>2. ASSUME NEW t \in ListTimers, NEW d \in 0 .. MaxDelay, List!adjust_timer(t, clock + d) PROVE ListInv'
  <2>1. clock + d \in Nat
    BY <1>0
  <2> QED
    BY <1>2, <2>1, AdjustKeeps
<1>3. ASSUME UNCHANGED <<lst, alive, expire>>, clock' \in Nat PROVE ListInv'
  BY <1>3 DEF ListInv
<1>4. List!TickBegin \/ List!TickEnd \/ List!TimePasses \/ UNCHANGED listvars => ListInv'
  BY <1>0, <1>3 DEF List!TickBegin, List!TickEnd, List!TimePasses, listvars
<1> QED
  BY <1>1, <1>2, <1>4, DelKeeps, TickFiresKeeps DEF List!Next

-----------------------------------------------------------------------------
(* The heap: the way of the hole. *)

\* Parents and children, by index.
LEMMA ParentIs ==
  ASSUME NEW i \in Nat \ {0}
  PROVE  /\ Heap!Parent(i) \in Nat /\ Heap!Parent(i) < i
         /\ i = 2 * Heap!Parent(i) + 1 \/ i = 2 * Heap!Parent(i) + 2
BY SMT DEF Heap!Parent

LEMMA ChildrenOf ==
  ASSUME NEW p \in Nat
  PROVE  Heap!Parent(2 * p + 1) = p /\ Heap!Parent(2 * p + 2) = p
BY SMT DEF Heap!Parent

\* The percolations: in the cell of the hole goes t, or what is in the next cell
\* of the way, which is the hole then.
HoleStep(a, t, go, nx, f, i) == IF i \in go THEN [f[nx[i]] EXCEPT ![i] = a[nx[i]]] ELSE [a EXCEPT ![i] = t]

\* r says how many cells there may be on the way from each.
Descends(D, B, r, go, nx) ==
  B \in Nat /\ r \in [D -> 0 .. B] /\ \A i \in D : i \in go => nx[i] \in D /\ r[nx[i]] < r[i]

IsWay(f, D, a, t, go, nx) == f = [i \in D |-> HoleStep(a, t, go, nx, f, i)]

LEMMA WayExists ==
  ASSUME NEW D, NEW B, NEW r, NEW a, NEW t, NEW go, NEW nx, Descends(D, B, r, go, nx)
  PROVE  \E f : IsWay(f, D, a, t, go, nx)
<1>0. /\ B \in Nat /\ r \in [D -> 0 .. B]
      /\ \A i \in D : i \in go => nx[i] \in D /\ r[nx[i]] < r[i]
  BY DEF Descends
<1> DEFINE Upto(f, k) == \A i \in D : r[i] < k => f[i] = HoleStep(a, t, go, nx, f, i)
           T == {k \in Nat : ~\E f : Upto(f, k)}
<1>1. T = {}
  <2> SUFFICES ASSUME T # {} PROVE FALSE
    OBVIOUS
  <2>1. T \in SUBSET Nat
    OBVIOUS
  <2>2. PICK k \in T : \A x \in T : k <= x
    BY <2>1, LeastMember
  <2>3. k \in Nat /\ ~\E f : Upto(f, k)
    OBVIOUS
  <2>4. k # 0
    <3>1. Upto(a, 0)
      BY <1>0
    <3> HIDE DEF Upto
    <3> QED
      BY <2>3, <3>1
  <2>5. PICK f : Upto(f, k - 1)
    <3>1. k - 1 \in Nat /\ ~(k <= k - 1)
      BY <2>3, <2>4
    <3> HIDE DEF Upto
    <3> QED
      BY <2>2, <3>1
  <2> DEFINE g == [i \in D |-> IF r[i] < k - 1 THEN f[i] ELSE HoleStep(a, t, go, nx, f, i)]
  <2>6. Upto(g, k)
    <3> SUFFICES ASSUME NEW i \in D, r[i] < k PROVE g[i] = HoleStep(a, t, go, nx, g, i)
      OBVIOUS
    <3>1. g[i] = HoleStep(a, t, go, nx, f, i)
      <4> HIDE DEF HoleStep
      <4> QED
        BY <2>5
    <3>2. i \in go => g[nx[i]] = f[nx[i]]
      <4>1. i \in go => nx[i] \in D /\ r[nx[i]] < k - 1
        BY <1>0, <2>3
      <4> QED
        BY <4>1
    <3> HIDE DEF g
    <3> QED
      BY <3>1, <3>2 DEF HoleStep
  <2> HIDE DEF Upto
  <2> QED
    BY <2>3, <2>6
<1>2. PICK f : Upto(f, B + 1)
  <2>1. B + 1 \in Nat
    BY <1>0
  <2> HIDE DEF Upto
  <2> QED
    BY <1>1, <2>1
<1> DEFINE g == [i \in D |-> f[i]]
<1>3. \A i \in D : f[i] = HoleStep(a, t, go, nx, f, i)
  <2>1. \A i \in D : r[i] < B + 1
    BY <1>0
  <2> HIDE DEF HoleStep
  <2> QED
    BY <1>2, <2>1
<1>4. \A i \in D : HoleStep(a, t, go, nx, g, i) = HoleStep(a, t, go, nx, f, i)
  BY <1>0 DEF HoleStep
<1>5. g = [i \in D |-> HoleStep(a, t, go, nx, g, i)]
  <2>1. \A i \in D : g[i] = HoleStep(a, t, go, nx, g, i)
    <3> HIDE DEF HoleStep
    <3> QED
      BY <1>3, <1>4
  <2> HIDE DEF HoleStep
  <2> DEFINE h == [i \in D |-> HoleStep(a, t, go, nx, g, i)]
  <2>2. \A i \in D : g[i] = h[i]
    <3> HIDE DEF g
    <3> QED
      BY <2>1
  <2> QED
    BY <2>2
<1> QED
  BY <1>5 DEF IsWay

\* PercolateUp's recursive function, and what it is equal to.
UpOf(a, ex, t, hole) ==
  CHOOSE f : f = [i \in 0 .. hole |->
    IF i = 0 \/ ex[a[Heap!Parent(i)]] <= ex[t] THEN [a EXCEPT ![i] = t]
    ELSE [f[Heap!Parent(i)] EXCEPT ![i] = a[Heap!Parent(i)]]]

LEMMA PercolateUpIs ==
  ASSUME NEW a, NEW ex, NEW t, NEW hole
  PROVE  Heap!PercolateUp(a, ex, t, hole) = UpOf(a, ex, t, hole)[hole]
BY DEF Heap!PercolateUp, UpOf

LEMMA UpIs ==
  ASSUME NEW a, NEW ex, NEW t, NEW hole \in Nat
  PROVE  \A i \in 0 .. hole : UpOf(a, ex, t, hole)[i] =
           IF i = 0 \/ ex[a[Heap!Parent(i)]] <= ex[t] THEN [a EXCEPT ![i] = t]
           ELSE [UpOf(a, ex, t, hole)[Heap!Parent(i)] EXCEPT ![i] = a[Heap!Parent(i)]]
<1> DEFINE D == 0 .. hole
           Body(f, i) == IF i = 0 \/ ex[a[Heap!Parent(i)]] <= ex[t] THEN [a EXCEPT ![i] = t]
                         ELSE [f[Heap!Parent(i)] EXCEPT ![i] = a[Heap!Parent(i)]]
           go == {i \in D : ~(i = 0 \/ ex[a[Heap!Parent(i)]] <= ex[t])}
           nx == [i \in D |-> Heap!Parent(i)]
           r == [i \in D |-> i]
<1>1. r \in [D -> 0 .. hole]
  OBVIOUS
<1>2. \A i \in D : i \in go => nx[i] \in D /\ r[nx[i]] < r[i]
  <2> SUFFICES ASSUME NEW i \in D, i \in go PROVE nx[i] \in D /\ r[nx[i]] < r[i]
    OBVIOUS
  <2>1. i \in Nat \ {0}
    OBVIOUS
  <2>2. Heap!Parent(i) \in Nat /\ Heap!Parent(i) < i
    BY <2>1, ParentIs
  <2>3. Heap!Parent(i) \in D
    BY <2>2
  <2> QED
    BY <2>2, <2>3
<1>3. PICK f : IsWay(f, D, a, t, go, nx)
  <2> HIDE DEF go, nx, r, D
  <2>1. Descends(D, hole, r, go, nx)
    BY <1>1, <1>2 DEF Descends
  <2> QED
    BY <2>1, WayExists
<1>4. \A i \in D : HoleStep(a, t, go, nx, f, i) = Body(f, i)
  BY DEF HoleStep
<1>5. f = [i \in D |-> Body(f, i)]
  <2> HIDE DEF Body, go, nx, D, r
  <2>1. f = [i \in D |-> HoleStep(a, t, go, nx, f, i)]
    BY <1>3 DEF IsWay
  <2> QED
    BY <1>4, <2>1
<1> DEFINE u == UpOf(a, ex, t, hole)
<1>6. u = [i \in D |-> Body(u, i)]
  <2>1. u = CHOOSE g : g = [i \in D |-> Body(g, i)]
    BY DEF UpOf
  <2> HIDE DEF u, Body, D
  <2> QED
    BY <1>5, <2>1
<1>7. \A i \in D : u[i] = Body(u, i)
  <2> HIDE DEF u, Body, D
  <2> QED
    BY <1>6
<1> QED
  BY <1>7

-----------------------------------------------------------------------------
Child(a, n, ex, i) == IF 2 * i + 2 < n /\ ex[a[2 * i + 2]] < ex[a[2 * i + 1]] THEN 2 * i + 2 ELSE 2 * i + 1

DownOf(a, n, ex, t) ==
  CHOOSE f : f = [i \in DOMAIN a |->
    IF 2 * i + 1 < n /\ ex[a[Child(a, n, ex, i)]] < ex[t]
    THEN [f[Child(a, n, ex, i)] EXCEPT ![i] = a[Child(a, n, ex, i)]]
    ELSE [a EXCEPT ![i] = t]]

LEMMA PercolateDownIs ==
  ASSUME NEW a, NEW n, NEW ex, NEW hole
  PROVE  Heap!PercolateDown(a, n, ex, hole) = DownOf(a, n, ex, a[hole])[hole]
BY DEF Heap!PercolateDown, DownOf, Child

LEMMA ChildIs ==
  ASSUME NEW a, NEW n \in Nat, NEW ex, NEW i \in Nat, 2 * i + 1 < n
  PROVE  LET c == Child(a, n, ex, i)
         IN c \in 1 .. n - 1 /\ c > i /\ Heap!Parent(c) = i
<1>1. Heap!Parent(2 * i + 1) = i /\ Heap!Parent(2 * i + 2) = i
  BY ChildrenOf
<1> QED
  BY <1>1 DEF Child

DownAt(a, n, ex, t, i) ==
  DownOf(a, n, ex, t)[i] =
    IF 2 * i + 1 < n /\ ex[a[Child(a, n, ex, i)]] < ex[t]
    THEN [DownOf(a, n, ex, t)[Child(a, n, ex, i)] EXCEPT ![i] = a[Child(a, n, ex, i)]]
    ELSE [a EXCEPT ![i] = t]

LEMMA DownIs ==
  ASSUME NEW c \in Nat, NEW n \in 0 .. c, NEW a, DOMAIN a = 0 .. c - 1, NEW ex, NEW t
  PROVE  \A i \in 0 .. c - 1 : DownAt(a, n, ex, t, i)
<1> DEFINE D == 0 .. c - 1
           C(i) == Child(a, n, ex, i)
           Body(f, i) == IF 2 * i + 1 < n /\ ex[a[C(i)]] < ex[t] THEN [f[C(i)] EXCEPT ![i] = a[C(i)]]
                         ELSE [a EXCEPT ![i] = t]
           go == {i \in D : 2 * i + 1 < n /\ ex[a[C(i)]] < ex[t]}
           nx == [i \in D |-> C(i)]
           r == [i \in D |-> c - i]
<1>1. r \in [D -> 0 .. c]
  OBVIOUS
<1>2. \A i \in D : i \in go => nx[i] \in D /\ r[nx[i]] < r[i]
  <2> SUFFICES ASSUME NEW i \in D, i \in go PROVE nx[i] \in D /\ r[nx[i]] < r[i]
    OBVIOUS
  <2>1. i \in Nat /\ 2 * i + 1 < n /\ n \in Nat /\ n <= c
    OBVIOUS
  <2>2. C(i) \in 1 .. n - 1 /\ C(i) > i
    BY <2>1, ChildIs
  <2>3. C(i) \in D /\ c - C(i) < c - i
    BY <2>1, <2>2
  <2> QED
    BY <2>3
<1>3. PICK f : IsWay(f, D, a, t, go, nx)
  <2> HIDE DEF go, nx, r, D
  <2>1. Descends(D, c, r, go, nx)
    BY <1>1, <1>2 DEF Descends
  <2> QED
    BY <2>1, WayExists
<1>4. \A i \in D : HoleStep(a, t, go, nx, f, i) = Body(f, i)
  <2> HIDE DEF C
  <2> QED
    BY DEF HoleStep
<1>5. f = [i \in D |-> Body(f, i)]
  <2> HIDE DEF Body, go, nx, D, r
  <2>1. f = [i \in D |-> HoleStep(a, t, go, nx, f, i)]
    BY <1>3 DEF IsWay
  <2> QED
    BY <1>4, <2>1
<1> DEFINE u == DownOf(a, n, ex, t)
<1>6. u = [i \in D |-> Body(u, i)]
  <2>1. u = CHOOSE g : g = [i \in D |-> Body(g, i)]
    BY DEF DownOf
  <2> HIDE DEF u, Body, D
  <2> QED
    BY <1>5, <2>1
<1>7. \A i \in D : u[i] = Body(u, i)
  <2> HIDE DEF u, Body, D
  <2> QED
    BY <1>6
<1> QED
  BY <1>7 DEF DownAt

-----------------------------------------------------------------------------
(* The heap: percolating. *)

\* Arrays of c cells.
Arrays(c) == [0 .. c - 1 -> HeapTimers \union {NULL}]

\* The timers of the first n cells of a are different ones.
Held(a, n) ==
  /\ \A i \in 0 .. n - 1 : a[i] \in HeapTimers
  /\ \A i, j \in 0 .. n - 1 : a[i] = a[j] => i = j

\* The heap's order, at the cells whose parent is not before h.
OrderedFrom(a, n, ex, h) == \A j \in 1 .. n - 1 : Heap!Parent(j) >= h => ex[a[Heap!Parent(j)]] <= ex[a[j]]

\* A heap of n timers, with room for one more, and a timer that is not in it.
UpPre(a, ex, t, n, c) ==
  /\ c \in Nat /\ n \in Nat /\ n < c /\ a \in Arrays(c) /\ t \in HeapTimers /\ ex \in [HeapTimers -> Nat]
  /\ Held(a, n) /\ (\A i \in 0 .. n - 1 : a[i] # t) /\ OrderedFrom(a, n, ex, 0)

\* What the hole's way up from cell i leaves: b, if it was a.
UpOk(a, ex, t, n, c, b, i) ==
  /\ b \in Arrays(c)
  /\ \A j \in 0 .. c - 1 : j > i => b[j] = a[j]
  /\ \A j \in 1 .. i : ex[b[Heap!Parent(j)]] <= ex[b[j]]
  /\ (i = n \/ ex[t] < ex[a[i]]) => \A j \in 0 .. i : j # n => ex[b[j]] <= ex[a[j]]
  /\ \A j \in 0 .. i : b[j] = t \/ \E k \in 0 .. i - 1 : b[j] = a[k]
  /\ \A j, k \in 0 .. i : b[j] = b[k] => j = k

LEMMA UpStop ==
  ASSUME NEW a, NEW ex, NEW t, NEW n, NEW c, UpPre(a, ex, t, n, c), NEW i \in 0 .. n,
         i = 0 \/ ex[a[Heap!Parent(i)]] <= ex[t]
  PROVE  UpOk(a, ex, t, n, c, [a EXCEPT ![i] = t], i)
<1> DEFINE b == [a EXCEPT ![i] = t]
<1>1. /\ c \in Nat /\ n \in Nat /\ n < c /\ a \in Arrays(c) /\ t \in HeapTimers /\ ex \in [HeapTimers -> Nat]
      /\ \A j \in 0 .. n - 1 : a[j] \in HeapTimers
      /\ \A j, k \in 0 .. n - 1 : a[j] = a[k] => j = k
      /\ \A j \in 0 .. n - 1 : a[j] # t
      /\ \A j \in 1 .. n - 1 : Heap!Parent(j) >= 0 => ex[a[Heap!Parent(j)]] <= ex[a[j]]
  BY DEF UpPre, Held, OrderedFrom
<1>2. i \in Nat /\ i <= n /\ i \in 0 .. c - 1 /\ DOMAIN a = 0 .. c - 1
  BY <1>1 DEF Arrays
<1>3. b \in Arrays(c) /\ b[i] = t /\ \A j \in 0 .. c - 1 : j # i => b[j] = a[j]
  BY <1>1, <1>2 DEF Arrays
<1> HIDE DEF b
<1>4. \A j \in 0 .. c - 1 : j > i => b[j] = a[j]
  BY <1>2, <1>3
<1>5. ASSUME NEW j \in 1 .. i PROVE ex[b[Heap!Parent(j)]] <= ex[b[j]]
  <2>1. j \in Nat \ {0} /\ j <= i
    BY <1>2
  <2>2. Heap!Parent(j) \in Nat /\ Heap!Parent(j) < j /\ Heap!Parent(j) >= 0
    BY <2>1, ParentIs
  <2>3. Heap!Parent(j) \in 0 .. c - 1 /\ Heap!Parent(j) # i /\ j \in 0 .. c - 1
    BY <1>1, <1>2, <2>1, <2>2
  <2>4. b[Heap!Parent(j)] = a[Heap!Parent(j)]
    BY <1>3, <2>3
  <2>5. CASE j = i
    BY <1>3, <2>1, <2>4, <2>5
  <2>6. CASE j # i
    <3>1. j \in 1 .. n - 1
      BY <1>1, <1>2, <2>1, <2>6
    <3>2. b[j] = a[j]
      BY <1>3, <2>3, <2>6
    <3> QED
      BY <1>1, <2>2, <2>4, <3>1, <3>2
  <2> QED
    BY <2>5, <2>6
<1>6. ASSUME i = n \/ ex[t] < ex[a[i]], NEW j \in 0 .. i, j # n PROVE ex[b[j]] <= ex[a[j]]
  <2>1. j \in 0 .. n - 1 /\ j \in 0 .. c - 1
    BY <1>1, <1>2, <1>6
  <2>2. ex[a[j]] \in Nat /\ ex[t] \in Nat
    BY <1>1, <2>1
  <2>3. CASE j = i
    BY <1>3, <1>6, <2>2, <2>3
  <2>4. CASE j # i
    <3>1. b[j] = a[j]
      BY <1>3, <2>1, <2>4
    <3> QED
      BY <2>2, <3>1
  <2> QED
    BY <2>3, <2>4
<1>7. ASSUME NEW j \in 0 .. i PROVE b[j] = t \/ \E k \in 0 .. i - 1 : b[j] = a[k]
  <2>1. j = i \/ (j \in 0 .. i - 1 /\ j \in 0 .. c - 1 /\ j # i)
    BY <1>1, <1>2
  <2> QED
    BY <1>3, <2>1
<1>8. ASSUME NEW j \in 0 .. i, NEW k \in 0 .. i, b[j] = b[k] PROVE j = k
  <2>1. j = i \/ (j \in 0 .. n - 1 /\ j \in 0 .. c - 1 /\ j # i)
    BY <1>1, <1>2
  <2>2. k = i \/ (k \in 0 .. n - 1 /\ k \in 0 .. c - 1 /\ k # i)
    BY <1>1, <1>2
  <2>3. j = i \/ (b[j] = a[j] /\ j \in 0 .. n - 1)
    BY <1>3, <2>1
  <2>4. k = i \/ (b[k] = a[k] /\ k \in 0 .. n - 1)
    BY <1>3, <2>2
  <2> QED
    BY <1>1, <1>3, <1>8, <2>3, <2>4
<1> QED
  BY <1>3, <1>4, <1>5, <1>6, <1>7, <1>8 DEF UpOk, b

LEMMA UpGo ==
  ASSUME NEW a, NEW ex, NEW t, NEW n, NEW c, UpPre(a, ex, t, n, c), NEW i \in 1 .. n, NEW d,
         ~(ex[a[Heap!Parent(i)]] <= ex[t]), UpOk(a, ex, t, n, c, d, Heap!Parent(i))
  PROVE  UpOk(a, ex, t, n, c, [d EXCEPT ![i] = a[Heap!Parent(i)]], i)
<1> DEFINE p == Heap!Parent(i)
           b == [d EXCEPT ![i] = a[p]]
<1>1. /\ c \in Nat /\ n \in Nat /\ n < c /\ a \in Arrays(c) /\ t \in HeapTimers /\ ex \in [HeapTimers -> Nat]
      /\ \A j \in 0 .. n - 1 : a[j] \in HeapTimers
      /\ \A j, k \in 0 .. n - 1 : a[j] = a[k] => j = k
      /\ \A j \in 0 .. n - 1 : a[j] # t
      /\ \A j \in 1 .. n - 1 : Heap!Parent(j) >= 0 => ex[a[Heap!Parent(j)]] <= ex[a[j]]
  BY DEF UpPre, Held, OrderedFrom
<1>2. i \in Nat /\ i # 0 /\ i <= n /\ i \in 0 .. c - 1 /\ p \in Nat /\ p < i /\ p \in 0 .. n - 1 /\ p \in 0 .. c - 1
  <2>1. i \in Nat \ {0}
    BY <1>1
  <2>2. p \in Nat /\ p < i
    BY <2>1, ParentIs
  <2> HIDE DEF p
  <2> QED
    BY <1>1, <2>1, <2>2
<1>3. ex[t] < ex[a[p]] /\ a[p] \in HeapTimers /\ a[p] # t
  <2>1. a[p] \in HeapTimers /\ a[p] # t
    BY <1>1, <1>2
  <2>2. ex[a[p]] \in Nat /\ ex[t] \in Nat /\ ~(ex[a[p]] <= ex[t])
    BY <1>1, <2>1
  <2> QED
    BY <2>1, <2>2
<1>4. UpOk(a, ex, t, n, c, d, p)
  OBVIOUS
<1>5. p = Heap!Parent(i)
  OBVIOUS
<1> HIDE DEF p
<1>6. /\ d \in Arrays(c)
      /\ \A j \in 0 .. c - 1 : j > p => d[j] = a[j]
      /\ \A j \in 1 .. p : ex[d[Heap!Parent(j)]] <= ex[d[j]]
      /\ \A j \in 0 .. p : j # n => ex[d[j]] <= ex[a[j]]
      /\ \A j \in 0 .. p : d[j] = t \/ \E k \in 0 .. p - 1 : d[j] = a[k]
      /\ \A j, k \in 0 .. p : d[j] = d[k] => j = k
  BY <1>3, <1>4 DEF UpOk
<1>7. b \in Arrays(c) /\ b[i] = a[p] /\ \A j \in 0 .. c - 1 : j # i => b[j] = d[j]
  BY <1>1, <1>2, <1>3, <1>6 DEF Arrays
<1> HIDE DEF b
<1>8. \A j \in 0 .. i : \/ j = i /\ b[j] = a[p]
                        \/ j \in 0 .. p /\ b[j] = d[j] /\ j # n /\ j \in 0 .. n - 1
                        \/ j \in p + 1 .. i - 1 /\ b[j] = a[j] /\ j \in 1 .. n - 1
  <2> SUFFICES ASSUME NEW j \in 0 .. i, j # i
               PROVE  \/ j \in 0 .. p /\ b[j] = d[j] /\ j # n /\ j \in 0 .. n - 1
                      \/ j \in p + 1 .. i - 1 /\ b[j] = a[j] /\ j \in 1 .. n - 1
    BY <1>7
  <2>1. j \in 0 .. c - 1 /\ b[j] = d[j] /\ j # n /\ j \in 0 .. n - 1
    BY <1>1, <1>2, <1>7
  <2>2. CASE j <= p
    BY <1>2, <2>1, <2>2
  <2>3. CASE j > p
    <3>1. d[j] = a[j]
      BY <1>6, <2>1, <2>3
    <3> QED
      BY <1>2, <2>1, <2>3, <3>1
  <2> QED
    BY <1>2, <2>1, <2>2, <2>3
<1>9. \A j \in 0 .. c - 1 : j > i => b[j] = a[j]
  BY <1>2, <1>6, <1>7
<1>10. \A j \in 0 .. i : j # n => ex[b[j]] <= ex[a[j]]
  <2> SUFFICES ASSUME NEW j \in 0 .. i, j # n PROVE ex[b[j]] <= ex[a[j]]
    OBVIOUS
  <2>1. j \in 0 .. n - 1 /\ ex[a[j]] \in Nat
    BY <1>1, <1>2
  <2>2. CASE j = i
    <3>1. i \in 1 .. n - 1 /\ p >= 0
      BY <1>2, <2>1, <2>2
    <3>2. ex[a[p]] <= ex[a[i]]
      BY <1>1, <1>5, <3>1
    <3> QED
      BY <1>7, <2>2, <3>2
  <2>3. CASE j \in 0 .. p /\ b[j] = d[j]
    BY <1>6, <2>1, <2>3
  <2>4. CASE b[j] = a[j]
    BY <2>1, <2>4
  <2> QED
    BY <1>8, <2>2, <2>3, <2>4
<1>11. ASSUME NEW j \in 1 .. i PROVE ex[b[Heap!Parent(j)]] <= ex[b[j]]
  <2> DEFINE q == Heap!Parent(j)
  <2>1. j \in Nat \ {0} /\ j <= i /\ j \in 0 .. i
    BY <1>2
  <2>2. q \in Nat /\ q < j /\ q >= 0
    BY <2>1, ParentIs
  <2>3. CASE j = i
    <3>1. p \in 0 .. p /\ p # n /\ p # i
      BY <1>2
    <3>2. b[p] = d[p]
      BY <1>2, <1>7, <3>1
    <3>3. ex[d[p]] <= ex[a[p]]
      BY <1>6, <3>1
    <3> QED
      BY <1>5, <1>7, <2>3, <3>2, <3>3
  <2>4. CASE j \in 0 .. p /\ b[j] = d[j]
    <3>1. j \in 1 .. p /\ q \in 0 .. c - 1 /\ q # i
      BY <1>1, <1>2, <2>1, <2>2, <2>4
    <3>2. ex[d[q]] <= ex[d[j]]
      BY <1>6, <3>1
    <3>3. b[q] = d[q]
      BY <1>7, <3>1
    <3> QED
      BY <2>4, <3>2, <3>3
  <2>5. CASE j \in p + 1 .. i - 1 /\ b[j] = a[j] /\ j \in 1 .. n - 1
    <3>1. ex[a[q]] <= ex[a[j]]
      BY <1>1, <2>2, <2>5
    <3> HIDE DEF q
    <3>2. q \in 0 .. i /\ q # n /\ q \in 0 .. n - 1
      BY <1>1, <1>2, <2>1, <2>2, <2>5
    <3>3. ex[b[q]] <= ex[a[q]]
      BY <1>10, <3>2
    <3>4. ex[a[q]] \in Nat /\ ex[a[j]] \in Nat
      BY <1>1, <2>5, <3>2
    <3>5. ex[b[q]] \in Nat
      <4>1. b[q] \in HeapTimers
        <5>1. CASE q \in 0 .. p /\ b[q] = d[q]
          <6>1. d[q] = t \/ \E k \in 0 .. p - 1 : d[q] = a[k]
            BY <1>6, <5>1
          <6>2. \A k \in 0 .. p - 1 : k \in 0 .. n - 1
            BY <1>1, <1>2
          <6> QED
            BY <1>1, <5>1, <6>1, <6>2
        <5> QED
          BY <1>1, <1>2, <1>8, <3>2, <5>1
      <4> QED
        BY <1>1, <4>1
    <3> QED
      BY <2>5, <3>1, <3>3, <3>4, <3>5 DEF q
  <2> QED
    BY <1>8, <2>1, <2>3, <2>4, <2>5
<1>12. ASSUME NEW j \in 0 .. i PROVE b[j] = t \/ \E k \in 0 .. i - 1 : b[j] = a[k]
  <2>1. CASE j = i
    <3>1. p \in 0 .. i - 1
      BY <1>2
    <3> QED
      BY <1>7, <2>1, <3>1
  <2>2. CASE j \in 0 .. p /\ b[j] = d[j]
    <3>1. \A k \in 0 .. p - 1 : k \in 0 .. i - 1
      BY <1>2
    <3> QED
      BY <1>6, <2>2, <3>1
  <2>3. CASE j \in p + 1 .. i - 1 /\ b[j] = a[j]
    <3>1. j \in 0 .. i - 1
      BY <1>2, <2>3
    <3> QED
      BY <2>3, <3>1
  <2> QED
    BY <1>8, <2>1, <2>2, <2>3
<1>13. \A j \in 0 .. p : d[j] # a[p] /\ \A k \in p + 1 .. n - 1 : d[j] # a[k]
  <2> SUFFICES ASSUME NEW j \in 0 .. p, NEW k \in p .. n - 1 PROVE d[j] # a[k]
    BY <1>2
  <2>1. k \in 0 .. n - 1 /\ \A m \in 0 .. p - 1 : m \in 0 .. n - 1 /\ m # k
    BY <1>1, <1>2
  <2> QED
    BY <1>1, <1>6, <2>1
<1>14. ASSUME NEW j \in 0 .. i, NEW k \in 0 .. i, b[j] = b[k] PROVE j = k
  <2>1. \/ j = i /\ b[j] = a[p]
        \/ j \in 0 .. p /\ b[j] = d[j]
        \/ j \in p + 1 .. n - 1 /\ b[j] = a[j] /\ j # p /\ j \in 0 .. n - 1
    BY <1>2, <1>8
  <2>2. \/ k = i /\ b[k] = a[p]
        \/ k \in 0 .. p /\ b[k] = d[k]
        \/ k \in p + 1 .. n - 1 /\ b[k] = a[k] /\ k # p /\ k \in 0 .. n - 1
    BY <1>2, <1>8
  <2>3. CASE j = i /\ b[j] = a[p]
    BY <1>1, <1>2, <1>13, <1>14, <2>2, <2>3
  <2>4. CASE j \in 0 .. p /\ b[j] = d[j]
    BY <1>6, <1>13, <1>14, <2>2, <2>4
  <2>5. CASE j \in p + 1 .. n - 1 /\ b[j] = a[j] /\ j # p /\ j \in 0 .. n - 1
    BY <1>1, <1>2, <1>13, <1>14, <2>2, <2>5
  <2> QED
    BY <2>1, <2>3, <2>4, <2>5
<1> QED
  BY <1>7, <1>9, <1>10, <1>11, <1>12, <1>14, <1>5 DEF UpOk, b

\* Below cell h an array of n timers is a heap, and t is not in it there.
DownPre(a, ex, t, n, c, h) ==
  /\ c \in Nat /\ n \in Nat /\ n <= c /\ h \in Nat /\ a \in Arrays(c)
  /\ t \in HeapTimers /\ ex \in [HeapTimers -> Nat]
  /\ \A i \in h + 1 .. n - 1 : a[i] \in HeapTimers /\ a[i] # t
  /\ \A i, j \in h + 1 .. n - 1 : a[i] = a[j] => i = j
  /\ OrderedFrom(a, n, ex, h + 1)

\* What the hole's way down from cell i leaves: b, if it was a.
DownOk(a, ex, t, n, c, b, i) ==
  /\ b \in Arrays(c)
  /\ \A j \in 0 .. c - 1 : b[j] = a[j] \/ j = i \/ (j > i /\ Heap!Parent(j) >= i)
  /\ i < n => b[i] = t \/ \E m \in 1 .. n - 1 : Heap!Parent(m) = i /\ b[i] = a[m]
  /\ OrderedFrom(b, n, ex, i)
  /\ \A j \in i .. n - 1 : b[j] = t \/ \E k \in i + 1 .. n - 1 : b[j] = a[k]
  /\ \A j, k \in i .. n - 1 : b[j] = b[k] => j = k

\* The two children of a cell, and the one that expires first.
LEMMA ChildFirst ==
  ASSUME NEW a, NEW ex, NEW t, NEW n, NEW c, NEW h, DownPre(a, ex, t, n, c, h),
         NEW i \in h .. c - 1, NEW j \in 1 .. n - 1, Heap!Parent(j) = i
  PROVE  /\ 2 * i + 1 < n /\ ex[a[Child(a, n, ex, i)]] <= ex[a[j]] /\ j > i
<1>1. /\ c \in Nat /\ n \in Nat /\ h \in Nat /\ ex \in [HeapTimers -> Nat]
      /\ \A k \in h + 1 .. n - 1 : a[k] \in HeapTimers
  BY DEF DownPre
<1>2. i \in Nat /\ j \in Nat \ {0} /\ j < n /\ h <= i
  BY <1>1
<1>3. j = 2 * i + 1 \/ j = 2 * i + 2
  BY <1>2, ParentIs
<1>4. 2 * i + 1 < n /\ 2 * i + 1 \in h + 1 .. n - 1 /\ j > i
  BY <1>1, <1>2, <1>3
<1>5. 2 * i + 2 < n => 2 * i + 2 \in h + 1 .. n - 1
  BY <1>1, <1>2
<1>6. ex[a[2 * i + 1]] \in Nat /\ (2 * i + 2 < n => ex[a[2 * i + 2]] \in Nat)
  BY <1>1, <1>4, <1>5
<1>7. CASE 2 * i + 2 < n /\ ex[a[2 * i + 2]] < ex[a[2 * i + 1]]
  <2>1. Child(a, n, ex, i) = 2 * i + 2
    BY <1>7 DEF Child
  <2> QED
    BY <1>3, <1>4, <1>6, <1>7, <2>1
<1>8. CASE ~(2 * i + 2 < n /\ ex[a[2 * i + 2]] < ex[a[2 * i + 1]])
  <2>1. Child(a, n, ex, i) = 2 * i + 1
    BY <1>8 DEF Child
  <2>2. CASE j = 2 * i + 1
    BY <1>4, <1>6, <2>1, <2>2
  <2>3. CASE j = 2 * i + 2
    BY <1>2, <1>4, <1>6, <1>8, <2>1, <2>3
  <2> QED
    BY <1>3, <2>2, <2>3
<1> QED
  BY <1>7, <1>8

LEMMA DownStop ==
  ASSUME NEW a, NEW ex, NEW t, NEW n, NEW c, NEW h, DownPre(a, ex, t, n, c, h), NEW i \in h .. c - 1,
         ~(2 * i + 1 < n /\ ex[a[Child(a, n, ex, i)]] < ex[t])
  PROVE  DownOk(a, ex, t, n, c, [a EXCEPT ![i] = t], i)
<1> DEFINE b == [a EXCEPT ![i] = t]
           m == Child(a, n, ex, i)
<1>1. /\ c \in Nat /\ n \in Nat /\ n <= c /\ h \in Nat /\ a \in Arrays(c)
      /\ t \in HeapTimers /\ ex \in [HeapTimers -> Nat]
      /\ \A k \in h + 1 .. n - 1 : a[k] \in HeapTimers /\ a[k] # t
      /\ \A j, k \in h + 1 .. n - 1 : a[j] = a[k] => j = k
      /\ \A j \in 1 .. n - 1 : Heap!Parent(j) >= h + 1 => ex[a[Heap!Parent(j)]] <= ex[a[j]]
  BY DEF DownPre, OrderedFrom
<1>2. i \in Nat /\ i \in 0 .. c - 1 /\ h <= i /\ DOMAIN a = 0 .. c - 1
  BY <1>1 DEF Arrays
<1>3. b \in Arrays(c) /\ b[i] = t /\ \A j \in 0 .. c - 1 : j # i => b[j] = a[j]
  BY <1>1, <1>2 DEF Arrays
<1>4. 2 * i + 1 < n => ~(ex[a[m]] < ex[t]) /\ m \in 1 .. n - 1 /\ m > i
  <2>1. 2 * i + 1 < n => m \in 1 .. n - 1 /\ m > i
    BY <1>1, <1>2, ChildIs
  <2> HIDE DEF m
  <2> QED
    BY <2>1 DEF m
<1>0. \A j \in 1 .. n - 1 : Heap!Parent(j) = i => 2 * i + 1 < n /\ ex[a[m]] <= ex[a[j]] /\ j > i
  BY ChildFirst
<1> HIDE DEF b, m
<1>5. ASSUME NEW j \in 1 .. n - 1, Heap!Parent(j) >= i PROVE ex[b[Heap!Parent(j)]] <= ex[b[j]]
  <2> DEFINE q == Heap!Parent(j)
  <2>1. q \in Nat /\ q < j
    <3>1. j \in Nat \ {0}
      BY <1>1
    <3> QED
      BY <3>1, ParentIs
  <2>2. j \in 0 .. c - 1 /\ q \in 0 .. c - 1 /\ q >= i /\ j # i
    <3> HIDE DEF q
    <3>1. q >= i
      BY <1>5 DEF q
    <3> QED
      BY <1>1, <1>2, <2>1, <3>1
  <2>3. b[j] = a[j]
    BY <1>3, <2>2
  <2>4. CASE q = i
    <3>1. 2 * i + 1 < n /\ ex[a[m]] <= ex[a[j]]
      BY <1>0, <2>4
    <3>2. ~(ex[a[m]] < ex[t]) /\ m \in h + 1 .. n - 1 /\ j \in h + 1 .. n - 1
      BY <1>1, <1>2, <1>4, <2>1, <2>2, <3>1
    <3>3. ex[a[m]] \in Nat /\ ex[a[j]] \in Nat /\ ex[t] \in Nat
      BY <1>1, <3>2
    <3>4. ex[t] <= ex[a[j]]
      BY <3>1, <3>2, <3>3
    <3> QED
      BY <1>3, <2>3, <2>4, <3>4
  <2>5. CASE q # i
    <3>1. q >= h + 1
      BY <1>1, <1>2, <2>1, <2>2, <2>5
    <3>2. b[q] = a[q]
      BY <1>3, <2>2, <2>5
    <3> QED
      BY <1>1, <2>3, <3>1, <3>2
  <2> QED
    BY <2>4, <2>5
<1>6. ASSUME NEW j \in i .. n - 1 PROVE b[j] = t \/ \E k \in i + 1 .. n - 1 : b[j] = a[k]
  <2>1. j = i \/ (j \in i + 1 .. n - 1 /\ j \in 0 .. c - 1 /\ j # i)
    BY <1>1, <1>2
  <2> QED
    BY <1>3, <2>1
<1>7. ASSUME NEW j \in i .. n - 1, NEW k \in i .. n - 1, b[j] = b[k] PROVE j = k
  <2>1. j = i \/ (j \in h + 1 .. n - 1 /\ j \in 0 .. c - 1 /\ j # i)
    BY <1>1, <1>2
  <2>2. k = i \/ (k \in h + 1 .. n - 1 /\ k \in 0 .. c - 1 /\ k # i)
    BY <1>1, <1>2
  <2>3. j = i \/ (b[j] = a[j] /\ j \in h + 1 .. n - 1)
    BY <1>3, <2>1
  <2>4. k = i \/ (b[k] = a[k] /\ k \in h + 1 .. n - 1)
    BY <1>3, <2>2
  <2> QED
    BY <1>1, <1>3, <1>7, <2>3, <2>4
<1> QED
  BY <1>3, <1>5, <1>6, <1>7 DEF DownOk, OrderedFrom, b

LEMMA DownGo ==
  ASSUME NEW a, NEW ex, NEW t, NEW n, NEW c, NEW h, DownPre(a, ex, t, n, c, h), NEW i \in h .. c - 1, NEW d,
         2 * i + 1 < n, ex[a[Child(a, n, ex, i)]] < ex[t], DownOk(a, ex, t, n, c, d, Child(a, n, ex, i))
  PROVE  DownOk(a, ex, t, n, c, [d EXCEPT ![i] = a[Child(a, n, ex, i)]], i)
<1> DEFINE m == Child(a, n, ex, i)
           b == [d EXCEPT ![i] = a[m]]
<1>1. /\ c \in Nat /\ n \in Nat /\ n <= c /\ h \in Nat /\ a \in Arrays(c)
      /\ t \in HeapTimers /\ ex \in [HeapTimers -> Nat]
      /\ \A k \in h + 1 .. n - 1 : a[k] \in HeapTimers /\ a[k] # t
      /\ \A j, k \in h + 1 .. n - 1 : a[j] = a[k] => j = k
      /\ \A j \in 1 .. n - 1 : Heap!Parent(j) >= h + 1 => ex[a[Heap!Parent(j)]] <= ex[a[j]]
  BY DEF DownPre, OrderedFrom
<1>2. i \in Nat /\ i \in 0 .. c - 1 /\ h <= i
  BY <1>1
<1>3. m \in 1 .. n - 1 /\ m > i /\ Heap!Parent(m) = i
  BY <1>1, <1>2, ChildIs
<1>0. /\ \A j \in 1 .. n - 1 : Heap!Parent(j) = i => ex[a[m]] <= ex[a[j]] /\ j > i
      /\ ex[a[m]] < ex[t] /\ DownOk(a, ex, t, n, c, d, m)
  BY ChildFirst
<1> HIDE DEF m
<1>4. m \in Nat /\ m \in 0 .. c - 1 /\ m \in h + 1 .. n - 1 /\ m \in i + 1 .. n - 1
  BY <1>1, <1>2, <1>3
<1>5. /\ d \in Arrays(c)
      /\ \A j \in 0 .. c - 1 : d[j] = a[j] \/ j = m \/ (j > m /\ Heap!Parent(j) >= m)
      /\ d[m] = t \/ \E k \in 1 .. n - 1 : Heap!Parent(k) = m /\ d[m] = a[k]
      /\ \A j \in 1 .. n - 1 : Heap!Parent(j) >= m => ex[d[Heap!Parent(j)]] <= ex[d[j]]
      /\ \A j \in m .. n - 1 : d[j] = t \/ \E k \in m + 1 .. n - 1 : d[j] = a[k]
      /\ \A j, k \in m .. n - 1 : d[j] = d[k] => j = k
  <2>1. m < n
    BY <1>1, <1>3
  <2> QED
    BY <1>0, <2>1 DEF DownOk, OrderedFrom
<1>6. b \in Arrays(c) /\ b[i] = a[m] /\ \A j \in 0 .. c - 1 : j # i => b[j] = d[j]
  <2>1. a[m] \in HeapTimers
    BY <1>1, <1>4
  <2> QED
    BY <1>2, <1>5, <2>1 DEF Arrays
<1> HIDE DEF b
<1>7. \A j \in 0 .. c - 1 : j # i => b[j] = a[j] \/ j = m \/ (j > m /\ Heap!Parent(j) >= m)
  BY <1>5, <1>6
<1>8. \A j \in 0 .. c - 1 : b[j] = a[j] \/ j = i \/ (j > i /\ Heap!Parent(j) >= i)
  <2> SUFFICES ASSUME NEW j \in 0 .. c - 1, j # i, b[j] # a[j] PROVE j > i /\ Heap!Parent(j) >= i
    OBVIOUS
  <2>1. CASE j = m
    BY <1>2, <1>3, <2>1
  <2>2. CASE j > m /\ Heap!Parent(j) >= m
    <3>1. j \in Nat \ {0}
      BY <1>1, <1>4, <2>2
    <3>2. Heap!Parent(j) \in Nat
      BY <3>1, ParentIs
    <3> QED
      BY <1>2, <1>3, <1>4, <2>2, <3>1, <3>2
  <2> QED
    BY <1>7, <2>1, <2>2
<1>9. ASSUME NEW j \in 1 .. n - 1, Heap!Parent(j) >= i PROVE ex[b[Heap!Parent(j)]] <= ex[b[j]]
  <2> DEFINE q == Heap!Parent(j)
  <2>0. j \in Nat \ {0} /\ j < n
    BY <1>1
  <2>1. q \in Nat /\ q < j
    BY <2>0, ParentIs
  <2>5. q >= i
    BY <1>9
  <2>7. (q >= m => ex[d[q]] <= ex[d[j]]) /\ (q >= h + 1 => ex[a[q]] <= ex[a[j]])
    BY <1>1, <1>5
  <2>8. (q = i => ex[a[m]] <= ex[a[j]]) /\ (j = m => q = i)
    BY <1>0, <1>3
  <2>9. b[j] = a[j] \/ j = m \/ q >= m
    <3>1. j \in 0 .. c - 1 /\ j # i
      BY <1>1, <1>2, <2>0, <2>1, <2>5
    <3> QED
      BY <1>7, <3>1
  <2>10. b[q] = a[q] \/ q = i \/ q >= m
    <3>1. q \in 0 .. c - 1
      BY <1>1, <2>0, <2>1
    <3> HIDE DEF q
    <3> QED
      BY <1>7, <1>4, <2>1, <3>1
  <2> HIDE DEF q
  <2>2. j \in 0 .. c - 1 /\ q \in 0 .. c - 1 /\ j # i
    BY <1>1, <1>2, <2>0, <2>1, <2>5
  <2>3. CASE q >= m
    <3>1. q # i
      BY <1>2, <1>3, <1>4, <2>1, <2>3
    <3> QED
      BY <1>6, <2>2, <2>3, <2>7, <3>1 DEF q
  <2>4. CASE q = i
    <3>1. CASE j = m
      <4>1. b[m] = d[m] /\ b[q] = a[m]
        BY <1>6, <2>2, <2>4, <3>1
      <4>2. ex[a[m]] <= ex[d[m]]
        <5>1. CASE d[m] = t
          <6>1. a[m] \in HeapTimers /\ ex[a[m]] < ex[t]
            BY <1>0, <1>1, <1>4
          <6>2. ex[a[m]] \in Nat /\ ex[t] \in Nat
            BY <1>1, <6>1
          <6> QED
            BY <5>1, <6>1, <6>2
        <5>2. ASSUME NEW k \in 1 .. n - 1, Heap!Parent(k) = m, d[m] = a[k] PROVE ex[a[m]] <= ex[d[m]]
          <6>1. Heap!Parent(k) >= h + 1
            BY <1>1, <1>4, <5>2
          <6> QED
            BY <1>1, <5>2, <6>1
        <5> QED
          BY <1>5, <5>1, <5>2
      <4> QED
        BY <3>1, <4>1, <4>2 DEF q
    <3>2. CASE j # m
      <4>1. ~(q >= m)
        BY <1>2, <1>3, <1>4, <2>4
      <4>2. b[j] = a[j] /\ b[q] = a[m]
        BY <1>6, <2>4, <2>9, <3>2, <4>1
      <4> QED
        BY <2>4, <2>8, <4>2 DEF q
    <3> QED
      BY <3>1, <3>2
  <2>6. CASE q # i /\ ~(q >= m)
    <3>1. b[q] = a[q] /\ b[j] = a[j]
      BY <2>6, <2>8, <2>9, <2>10
    <3>2. q >= h + 1
      BY <1>1, <1>2, <2>1, <2>5, <2>6
    <3> QED
      BY <2>7, <3>1, <3>2 DEF q
  <2> QED
    BY <2>3, <2>4, <2>6
<1>10. \A j \in i .. n - 1 : \/ j = i /\ b[j] = a[m]
                             \/ j \in m .. n - 1 /\ b[j] = d[j]
                             \/ j \in i + 1 .. m - 1 /\ b[j] = a[j]
  <2> SUFFICES ASSUME NEW j \in i .. n - 1, j # i
               PROVE  (j \in m .. n - 1 /\ b[j] = d[j]) \/ (j \in i + 1 .. m - 1 /\ b[j] = a[j])
    BY <1>6
  <2>1. j \in 0 .. c - 1 /\ j \in Nat
    BY <1>1, <1>2
  <2>2. CASE j >= m
    <3>1. j \in m .. n - 1
      BY <1>1, <1>2, <1>4, <2>1, <2>2
    <3>2. b[j] = d[j]
      BY <1>6, <2>1
    <3> QED
      BY <3>1, <3>2
  <2>3. CASE ~(j >= m)
    <3>1. b[j] = a[j]
      BY <1>4, <1>7, <2>1, <2>3
    <3> QED
      BY <1>2, <1>4, <2>1, <2>3, <3>1
  <2> QED
    BY <2>2, <2>3
<1>11. ASSUME NEW j \in i .. n - 1 PROVE b[j] = t \/ \E k \in i + 1 .. n - 1 : b[j] = a[k]
  <2>1. CASE j = i /\ b[j] = a[m]
    BY <1>4, <2>1
  <2>2. CASE j \in m .. n - 1 /\ b[j] = d[j]
    <3>1. \A k \in m + 1 .. n - 1 : k \in i + 1 .. n - 1
      BY <1>1, <1>2, <1>4
    <3> QED
      BY <1>5, <2>2, <3>1
  <2>3. CASE j \in i + 1 .. m - 1 /\ b[j] = a[j]
    <3>1. j \in i + 1 .. n - 1
      BY <1>1, <1>2, <1>4, <2>3
    <3> QED
      BY <2>3, <3>1
  <2> QED
    BY <1>10, <2>1, <2>2, <2>3
<1>12. \A j \in m .. n - 1, k \in h + 1 .. m : d[j] # a[k]
  <2> SUFFICES ASSUME NEW j \in m .. n - 1, NEW k \in h + 1 .. m PROVE d[j] # a[k]
    OBVIOUS
  <2>1. k \in h + 1 .. n - 1 /\ \A l \in m + 1 .. n - 1 : l \in h + 1 .. n - 1 /\ l # k
    BY <1>1, <1>4
  <2> QED
    BY <1>1, <1>5, <2>1
<1>13. ASSUME NEW j \in i .. n - 1, NEW k \in i .. n - 1, b[j] = b[k] PROVE j = k
  <2>0. i + 1 .. m - 1 \subseteq h + 1 .. m /\ h + 1 .. m \subseteq h + 1 .. n - 1 /\ m \in h + 1 .. m /\ m \notin i + 1 .. m - 1
    BY <1>1, <1>2, <1>4
  <2>1. \/ j = i /\ b[j] = a[m]
        \/ j \in m .. n - 1 /\ b[j] = d[j]
        \/ j \in i + 1 .. m - 1 /\ b[j] = a[j]
    BY <1>10
  <2>2. \/ k = i /\ b[k] = a[m]
        \/ k \in m .. n - 1 /\ b[k] = d[k]
        \/ k \in i + 1 .. m - 1 /\ b[k] = a[k]
    BY <1>10
  <2>3. CASE j = i /\ b[j] = a[m]
    BY <1>1, <1>12, <1>13, <2>0, <2>2, <2>3
  <2>4. CASE j \in m .. n - 1 /\ b[j] = d[j]
    BY <1>5, <1>12, <1>13, <2>0, <2>2, <2>4
  <2>5. CASE j \in i + 1 .. m - 1 /\ b[j] = a[j]
    BY <1>1, <1>12, <1>13, <2>0, <2>2, <2>5
  <2> QED
    BY <2>1, <2>3, <2>4, <2>5
<1>14. b[i] = t \/ \E k \in 1 .. n - 1 : Heap!Parent(k) = i /\ b[i] = a[k]
  BY <1>3, <1>6
<1> QED
  BY <1>6, <1>8, <1>9, <1>11, <1>13, <1>14 DEF DownOk, OrderedFrom, b, m

\* Up to n, the cells of b hold t or what cells of a before n hold.
FromCells(b, n, a, t) == \A j \in 0 .. n : b[j] = t \/ \E k \in 0 .. n - 1 : b[j] = a[k]

\* A timer percolates up into a heap: a heap of one more.
LEMMA UpHeap ==
  ASSUME NEW a, NEW ex, NEW t, NEW n, NEW c, UpPre(a, ex, t, n, c), NEW b, b = Heap!PercolateUp(a, ex, t, n)
  PROVE  /\ b \in Arrays(c) /\ Held(b, n + 1) /\ OrderedFrom(b, n + 1, ex, 0)
         /\ FromCells(b, n, a, t)
<1> DEFINE u == UpOf(a, ex, t, n)
           T == {i \in 0 .. n : ~UpOk(a, ex, t, n, c, u[i], i)}
<1>1. /\ c \in Nat /\ n \in Nat /\ n < c /\ t \in HeapTimers
      /\ \A i \in 0 .. n - 1 : a[i] \in HeapTimers
  BY DEF UpPre, Held
<1>2. T = {}
  <2> SUFFICES ASSUME T # {} PROVE FALSE
    OBVIOUS
  <2>1. T \in SUBSET Nat
    BY <1>1
  <2>2. PICK i \in T : \A x \in T : i <= x
    BY <2>1, LeastMember
  <2>3. i \in 0 .. n /\ ~UpOk(a, ex, t, n, c, u[i], i)
    OBVIOUS
  <2>4. u[i] = IF i = 0 \/ ex[a[Heap!Parent(i)]] <= ex[t] THEN [a EXCEPT ![i] = t]
               ELSE [u[Heap!Parent(i)] EXCEPT ![i] = a[Heap!Parent(i)]]
    BY <1>1, <2>3, UpIs
  <2>5. CASE i = 0 \/ ex[a[Heap!Parent(i)]] <= ex[t]
    <3> HIDE DEF u, T
    <3> QED
      BY <2>3, <2>4, <2>5, UpStop
  <2>6. CASE ~(i = 0 \/ ex[a[Heap!Parent(i)]] <= ex[t])
    <3>1. i \in Nat \ {0} /\ i \in 1 .. n
      BY <1>1, <2>3, <2>6
    <3>2. Heap!Parent(i) \in Nat /\ Heap!Parent(i) < i
      BY <3>1, ParentIs
    <3>3. Heap!Parent(i) \in 0 .. n /\ Heap!Parent(i) \notin T
      BY <1>1, <2>2, <3>1, <3>2
    <3>4. UpOk(a, ex, t, n, c, u[Heap!Parent(i)], Heap!Parent(i))
      BY <3>3
    <3> HIDE DEF u, T
    <3> QED
      BY <2>3, <2>4, <2>6, <3>1, <3>4, UpGo
  <2> QED
    BY <2>5, <2>6
<1>3. b = u[n]
  BY PercolateUpIs
<1>4. n \in 0 .. n /\ UpOk(a, ex, t, n, c, b, n)
  BY <1>1, <1>2, <1>3
<1> HIDE DEF u, T
<1>5. /\ b \in Arrays(c)
      /\ \A j \in 1 .. n : ex[b[Heap!Parent(j)]] <= ex[b[j]]
      /\ \A j \in 0 .. n : b[j] = t \/ \E k \in 0 .. n - 1 : b[j] = a[k]
      /\ \A j, k \in 0 .. n : b[j] = b[k] => j = k
  BY <1>4 DEF UpOk
<1>6. (n + 1) - 1 = n
  BY <1>1
<1>7. Held(b, n + 1)
  BY <1>1, <1>5, <1>6 DEF Held
<1>8. OrderedFrom(b, n + 1, ex, 0)
  BY <1>5, <1>6 DEF OrderedFrom
<1>9. FromCells(b, n, a, t)
  BY <1>5 DEF FromCells
<1> QED
  BY <1>5, <1>7, <1>8, <1>9

\* What is in cell h percolates down into what is a heap below it: the cells
\* before h are as they were, and those from h on hold the same timers.
LEMMA DownHeap ==
  ASSUME NEW a, NEW ex, NEW n, NEW c, NEW h, DownPre(a, ex, a[h], n, c, h), h < c,
         NEW b, b = Heap!PercolateDown(a, n, ex, h)
  PROVE  /\ b \in Arrays(c) /\ OrderedFrom(b, n, ex, h)
         /\ \A j \in 0 .. h - 1 : b[j] = a[j]
         /\ \A j \in h .. n - 1 : \E k \in h .. n - 1 : b[j] = a[k]
         /\ \A j, k \in h .. n - 1 : b[j] = b[k] => j = k
<1> DEFINE t == a[h]
           u == DownOf(a, n, ex, t)
           T == {r \in 0 .. c : \E i \in h .. c - 1 : r = c - i /\ ~DownOk(a, ex, t, n, c, u[i], i)}
<1>1. /\ c \in Nat /\ n \in Nat /\ n <= c /\ h \in Nat /\ DOMAIN a = 0 .. c - 1
  BY DEF DownPre, Arrays
<1>2. T = {}
  <2> SUFFICES ASSUME T # {} PROVE FALSE
    OBVIOUS
  <2>1. T \in SUBSET Nat
    BY <1>1
  <2>2. PICK r \in T : \A x \in T : r <= x
    BY <2>1, LeastMember
  <2>3. PICK i \in h .. c - 1 : r = c - i /\ ~DownOk(a, ex, t, n, c, u[i], i)
    OBVIOUS
  <2> DEFINE m == Child(a, n, ex, i)
  <2>4. i \in 0 .. c - 1 /\ i \in Nat /\ n \in 0 .. c
    BY <1>1
  <2>5. u[i] = IF 2 * i + 1 < n /\ ex[a[m]] < ex[t] THEN [u[m] EXCEPT ![i] = a[m]] ELSE [a EXCEPT ![i] = t]
    <3>1. DOMAIN a = 0 .. c - 1 /\ c \in Nat /\ n \in 0 .. c
      BY <1>1, <2>4
    <3> HIDE DEF t, T, m
    <3>2. DownAt(a, n, ex, t, i)
      BY <2>4, <3>1, DownIs
    <3> QED
      BY <3>2 DEF DownAt, m
  <2>6. CASE ~(2 * i + 1 < n /\ ex[a[m]] < ex[t])
    <3>1. u[i] = [a EXCEPT ![i] = t]
      BY <2>5, <2>6
    <3>2. DownOk(a, ex, t, n, c, [a EXCEPT ![i] = t], i)
      <4> HIDE DEF u, T
      <4> QED
        BY <2>6, DownStop
    <3> HIDE DEF u, T
    <3> QED
      BY <2>3, <3>1, <3>2
  <2>7. CASE 2 * i + 1 < n /\ ex[a[m]] < ex[t]
    <3>1. m \in 1 .. n - 1 /\ m > i
      BY <1>1, <2>4, <2>7, ChildIs
    <3> HIDE DEF m
    <3>2. m \in h .. c - 1 /\ c - m < r /\ c - m \in 0 .. c /\ r \in Nat
      BY <1>1, <2>3, <2>4, <3>1
    <3>3. c - m \notin T
      <4> HIDE DEF T
      <4> QED
        BY <2>2, <3>2
    <3>4. DownOk(a, ex, t, n, c, u[m], m)
      BY <3>2, <3>3
    <3> HIDE DEF u, T
    <3>5. DownOk(a, ex, t, n, c, [u[m] EXCEPT ![i] = a[m]], i)
      BY <2>7, <3>4, DownGo DEF m
    <3> QED
      BY <2>3, <2>5, <2>7, <3>5
  <2> QED
    BY <2>6, <2>7
<1>3. b = u[h]
  BY PercolateDownIs
<1>4. DownOk(a, ex, t, n, c, b, h)
  <2>1. h \in h .. c - 1 /\ c - h \in 0 .. c
    BY <1>1
  <2> QED
    BY <1>2, <1>3, <2>1
<1> HIDE DEF u, T
<1>5. /\ b \in Arrays(c) /\ OrderedFrom(b, n, ex, h)
      /\ \A j \in 0 .. c - 1 : b[j] = a[j] \/ j = h \/ j > h
      /\ \A j \in h .. n - 1 : b[j] = t \/ \E k \in h + 1 .. n - 1 : b[j] = a[k]
      /\ \A j, k \in h .. n - 1 : b[j] = b[k] => j = k
  BY <1>4 DEF DownOk
<1>6. \A j \in 0 .. h - 1 : j \in 0 .. c - 1 /\ j # h /\ ~(j > h)
  BY <1>1
<1>7. ASSUME NEW j \in h .. n - 1 PROVE \E k \in h .. n - 1 : b[j] = a[k]
  <2>1. h \in h .. n - 1 /\ \A k \in h + 1 .. n - 1 : k \in h .. n - 1
    BY <1>1, <1>7
  <2> QED
    BY <1>5, <2>1
<1> QED
  BY <1>5, <1>6, <1>7

\* A cell that is moved down in what is a heap below it.
LEMMA DownKeeps ==
  ASSUME NEW c \in Nat, NEW n \in 0 .. c, NEW h \in 0 .. n - 1, NEW ex \in [HeapTimers -> Nat],
         NEW v \in Arrays(c), Held(v, n), OrderedFrom(v, n, ex, h + 1),
         NEW w, w = Heap!PercolateDown(v, n, ex, h)
  PROVE  /\ w \in Arrays(c) /\ Held(w, n) /\ OrderedFrom(w, n, ex, h)
         /\ \A j \in 0 .. n - 1 : \E k \in 0 .. n - 1 : w[j] = v[k]
<1>1. n \in Nat /\ h \in Nat /\ h < n /\ h < c /\ n <= c
  OBVIOUS
<1>2. /\ \A i \in 0 .. n - 1 : v[i] \in HeapTimers
      /\ \A i, j \in 0 .. n - 1 : v[i] = v[j] => i = j
  BY DEF Held
<1>3. h \in 0 .. n - 1 /\ \A i \in h + 1 .. n - 1 : i \in 0 .. n - 1 /\ i # h
  BY <1>1
<1>4. DownPre(v, ex, v[h], n, c, h)
  BY <1>1, <1>2, <1>3 DEF DownPre
<1>5. /\ w \in Arrays(c) /\ OrderedFrom(w, n, ex, h)
      /\ \A j \in 0 .. h - 1 : w[j] = v[j]
      /\ \A j \in h .. n - 1 : \E k \in h .. n - 1 : w[j] = v[k]
      /\ \A j, k \in h .. n - 1 : w[j] = w[k] => j = k
  <2>1. w \in Arrays(c) /\ OrderedFrom(w, n, ex, h)
    BY <1>1, <1>4, DownHeap
  <2>2. \A j \in 0 .. h - 1 : w[j] = v[j]
    BY <1>1, <1>4, DownHeap
  <2>3. \A j \in h .. n - 1 : \E k \in h .. n - 1 : w[j] = v[k]
    BY <1>1, <1>4, DownHeap
  <2>4. \A j, k \in h .. n - 1 : w[j] = w[k] => j = k
    BY <1>1, <1>4, DownHeap
  <2> QED
    BY <2>1, <2>2, <2>3, <2>4
<1>6. \A j \in 0 .. n - 1 : (j \in 0 .. h - 1 /\ j \notin h .. n - 1) \/ j \in h .. n - 1
  BY <1>1
<1>7. \A k \in h .. n - 1 : k \in 0 .. n - 1
  BY <1>1
<1>8. \A j \in 0 .. n - 1 : \E k \in 0 .. n - 1 : w[j] = v[k]
  BY <1>5, <1>6, <1>7
<1>9. ASSUME NEW i \in 0 .. n - 1, NEW j \in 0 .. n - 1, w[i] = w[j] PROVE i = j
  <2>1. CASE i \in 0 .. h - 1 /\ j \in 0 .. h - 1
    BY <1>2, <1>5, <1>9, <2>1
  <2>2. CASE i \in 0 .. h - 1 /\ i \notin h .. n - 1 /\ j \in h .. n - 1
    <3>1. PICK k \in h .. n - 1 : w[j] = v[k]
      BY <1>5, <2>2
    <3>2. v[i] = v[k]
      BY <1>5, <1>9, <2>2, <3>1
    <3> QED
      BY <1>2, <1>7, <2>2, <3>2
  <2>3. CASE i \in h .. n - 1 /\ j \in 0 .. h - 1 /\ j \notin h .. n - 1
    <3>1. PICK k \in h .. n - 1 : w[i] = v[k]
      BY <1>5, <2>3
    <3>2. v[j] = v[k]
      BY <1>5, <1>9, <2>3, <3>1
    <3> QED
      BY <1>2, <1>7, <2>3, <3>2
  <2>4. CASE i \in h .. n - 1 /\ j \in h .. n - 1
    BY <1>5, <1>9, <2>4
  <2> QED
    BY <1>6, <2>1, <2>2, <2>3, <2>4
<1>10. \A i \in 0 .. n - 1 : w[i] \in HeapTimers
  BY <1>2, <1>8
<1> QED
  BY <1>5, <1>8, <1>9, <1>10 DEF Held

-----------------------------------------------------------------------------
FromOf(a, n, ex) ==
  CHOOSE f : f = [i \in 0 .. n |->
    IF i = 0 THEN a ELSE Heap!PercolateDown(f[i - 1], n, ex, (n - 1) \div 2 + 1 - i)]

LEMMA HeapifyIs ==
  ASSUME NEW a, NEW n, NEW ex
  PROVE  Heap!Heapify(a, n, ex) = IF n = 0 THEN a ELSE FromOf(a, n, ex)[(n - 1) \div 2 + 1]
BY DEF Heap!Heapify, FromOf

LEMMA FromIs ==
  ASSUME NEW a, NEW n \in Nat, NEW ex
  PROVE  \A i \in 0 .. n : FromOf(a, n, ex)[i] =
           IF i = 0 THEN a ELSE Heap!PercolateDown(FromOf(a, n, ex)[i - 1], n, ex, (n - 1) \div 2 + 1 - i)
<1> DEFINE Body(f, i) == IF i = 0 THEN a ELSE Heap!PercolateDown(f[i - 1], n, ex, (n - 1) \div 2 + 1 - i)
           Upto(f, k) == \A i \in 0 .. n : i < k => f[i] = Body(f, i)
           T == {k \in Nat : ~\E f : Upto(f, k)}
<1>1. T = {}
  <2> SUFFICES ASSUME T # {} PROVE FALSE
    OBVIOUS
  <2>1. T \in SUBSET Nat
    OBVIOUS
  <2>2. PICK k \in T : \A x \in T : k <= x
    BY <2>1, LeastMember
  <2>3. k \in Nat /\ ~\E f : Upto(f, k)
    OBVIOUS
  <2>4. k # 0
    <3>1. Upto(a, 0)
      OBVIOUS
    <3> HIDE DEF Upto
    <3> QED
      BY <2>3, <3>1
  <2>5. PICK f : Upto(f, k - 1)
    <3>1. k - 1 \in Nat /\ ~(k <= k - 1)
      BY <2>3, <2>4
    <3> HIDE DEF Upto
    <3> QED
      BY <2>2, <3>1
  <2> DEFINE g == [i \in 0 .. n |-> IF i < k - 1 THEN f[i] ELSE Body(f, i)]
  <2>6. Upto(g, k)
    <3> SUFFICES ASSUME NEW i \in 0 .. n, i < k PROVE g[i] = Body(g, i)
      OBVIOUS
    <3>1. g[i] = Body(f, i)
      <4> HIDE DEF Body
      <4> QED
        BY <2>5
    <3>2. i # 0 => g[i - 1] = f[i - 1]
      <4>1. i # 0 => i - 1 \in 0 .. n /\ i - 1 < k - 1
        BY <2>3
      <4> HIDE DEF Body
      <4> QED
        BY <4>1
    <3> HIDE DEF g
    <3> QED
      BY <3>1, <3>2
  <2> HIDE DEF Upto
  <2> QED
    BY <2>3, <2>6
<1>2. PICK f : Upto(f, n + 1)
  <2> HIDE DEF Upto
  <2> QED
    BY <1>1
<1> DEFINE g == [i \in 0 .. n |-> f[i]]
<1>3. \A i \in 0 .. n : f[i] = Body(f, i)
  <2>1. \A i \in 0 .. n : i < n + 1
    OBVIOUS
  <2> HIDE DEF Body
  <2> QED
    BY <1>2, <2>1
<1>4. \A i \in 0 .. n : Body(g, i) = Body(f, i)
  <2>1. \A i \in 0 .. n : i # 0 => i - 1 \in 0 .. n
    OBVIOUS
  <2> QED
    BY <2>1
<1>5. g = [i \in 0 .. n |-> Body(g, i)]
  <2>1. \A i \in 0 .. n : g[i] = Body(g, i)
    <3> HIDE DEF Body
    <3> QED
      BY <1>3, <1>4
  <2> DEFINE e == [i \in 0 .. n |-> Body(g, i)]
  <2> HIDE DEF Body
  <2>2. \A i \in 0 .. n : g[i] = e[i]
    <3> HIDE DEF g
    <3> QED
      BY <2>1
  <2> QED
    BY <2>2
<1> HIDE DEF g
<1> DEFINE u == FromOf(a, n, ex)
<1>6. u = [i \in 0 .. n |-> Body(u, i)]
  <2>1. u = CHOOSE e : e = [i \in 0 .. n |-> Body(e, i)]
    BY DEF FromOf
  <2> HIDE DEF u, Body
  <2> QED
    BY <1>5, <2>1
<1>7. \A i \in 0 .. n : u[i] = Body(u, i)
  <2> HIDE DEF u, Body
  <2> QED
    BY <1>6
<1> QED
  BY <1>7

\* What the second constructor makes of an array of different timers is a heap.
LEMMA HeapifyHeap ==
  ASSUME NEW c \in Nat, NEW n \in 0 .. c, NEW ex \in [HeapTimers -> Nat], NEW a \in Arrays(c), Held(a, n),
         NEW b, b = Heap!Heapify(a, n, ex)
  PROVE  b \in Arrays(c) /\ Held(b, n) /\ OrderedFrom(b, n, ex, 0)
<1>1. CASE n = 0
  <2>1. b = a
    BY <1>1, HeapifyIs
  <2>2. \A j \in 1 .. n - 1 : FALSE
    BY <1>1
  <2> QED
    BY <2>1, <2>2 DEF OrderedFrom
<1>2. CASE n # 0
  <2> DEFINE m == (n - 1) \div 2
             u == FromOf(a, n, ex)
             Good(i) == u[i] \in Arrays(c) /\ Held(u[i], n) /\ OrderedFrom(u[i], n, ex, m + 1 - i)
             T == {i \in 0 .. m + 1 : ~Good(i)}
  <2>1. n \in Nat \ {0} /\ n <= c
    BY <1>2
  <2>2. m \in Nat /\ m < n /\ n - 1 <= 2 * m + 1
    BY <2>1, SMT
  <2>3. \A i \in 0 .. n : u[i] = IF i = 0 THEN a ELSE Heap!PercolateDown(u[i - 1], n, ex, m + 1 - i)
    BY <2>1, FromIs
  <2>4. b = u[m + 1]
    BY <1>2, HeapifyIs
  <2> HIDE DEF m, u
  <2>5. T = {}
    <3> SUFFICES ASSUME T # {} PROVE FALSE
      OBVIOUS
    <3>1. T \in SUBSET Nat
      BY <2>2
    <3>2. PICK i \in T : \A x \in T : i <= x
      BY <3>1, LeastMember
    <3>3. i \in 0 .. m + 1 /\ ~Good(i)
      OBVIOUS
    <3>4. i \in 0 .. n /\ i \in Nat /\ i <= m + 1
      BY <2>1, <2>2, <3>3
    <3>5. CASE i = 0
      <4>1. u[i] = a
        BY <2>3, <3>4, <3>5
      <4>2. OrderedFrom(a, n, ex, m + 1 - i)
        <5> SUFFICES ASSUME NEW j \in 1 .. n - 1, Heap!Parent(j) >= m + 1 - i PROVE FALSE
          BY DEF OrderedFrom
        <5>1. j \in Nat \ {0} /\ j <= n - 1
          BY <2>1
        <5>2. Heap!Parent(j) \in Nat /\ (j = 2 * Heap!Parent(j) + 1 \/ j = 2 * Heap!Parent(j) + 2)
          BY <5>1, ParentIs
        <5> QED
          BY <2>1, <2>2, <3>5, <5>1, <5>2
      <4> QED
        BY <3>3, <4>1, <4>2
    <3>6. CASE i # 0
      <4> DEFINE v == u[i - 1]
                 h == m + 1 - i
      <4>1. i - 1 \in 0 .. m + 1 /\ i - 1 \notin T /\ h \in 0 .. n - 1 /\ m + 1 - (i - 1) = h + 1
        <5>1. i - 1 \in 0 .. m + 1 /\ ~(i <= i - 1)
          BY <2>2, <3>4, <3>6
        <5>2. h \in 0 .. n - 1 /\ m + 1 - (i - 1) = h + 1
          BY <2>1, <2>2, <3>4, <3>6
        <5> HIDE DEF T
        <5> QED
          BY <3>2, <5>1, <5>2
      <4>2. Good(i - 1)
        BY <4>1
      <4>3. v \in Arrays(c) /\ Held(v, n) /\ OrderedFrom(v, n, ex, h + 1)
        BY <4>1, <4>2
      <4>4. u[i] = Heap!PercolateDown(v, n, ex, h)
        BY <2>3, <3>4, <3>6
      <4> HIDE DEF v, h
      <4>5. u[i] \in Arrays(c) /\ Held(u[i], n) /\ OrderedFrom(u[i], n, ex, h)
        BY <4>1, <4>3, <4>4, DownKeeps
      <4> QED
        BY <3>3, <4>5 DEF h
    <3> QED
      BY <3>5, <3>6
  <2>6. Good(m + 1)
    <3>1. m + 1 \in 0 .. m + 1
      BY <2>2
    <3> QED
      BY <2>5, <3>1
  <2>7. m + 1 - (m + 1) = 0
    BY <2>2
  <2> QED
    BY <2>4, <2>6, <2>7
<1> QED
  BY <1>1, <1>2

-----------------------------------------------------------------------------
(* The heap: its operations. *)

\* A heap of cur_size timers in an array.
HeapInv ==
  /\ capacity \in Nat \ {0} /\ cur_size \in 0 .. capacity /\ array \in Arrays(capacity)
  /\ hexpire \in [HeapTimers -> Nat] /\ cb_func \in [HeapTimers -> BOOLEAN] /\ hclock \in Nat
  /\ Held(array, cur_size) /\ OrderedFrom(array, cur_size, hexpire, 0)

LEMMA HeapInvOrders == HeapInv => Heap!HeapOrdered
<1> SUFFICES ASSUME HeapInv, NEW i \in 1 .. cur_size - 1
             PROVE  hexpire[array[Heap!Parent(i)]] <= hexpire[array[i]]
  BY DEF Heap!HeapOrdered
<1>1. i \in Nat \ {0}
  BY DEF HeapInv
<1>2. Heap!Parent(i) >= 0
  BY <1>1, ParentIs
<1> QED
  BY <1>2 DEF HeapInv, OrderedFrom

LEMMA SameHeapCardinality == \A S : Heap!Cardinality(S) = Cardinality(S)
BY DEF Heap!Cardinality, Cardinality

\* The constructors make a heap.
LEMMA HeapInit == Heap!Init => HeapInv
<1> SUFFICES ASSUME Heap!Init PROVE HeapInv
  OBVIOUS
<1>1. capacity = Cap /\ cur_size \in 0 .. Cap /\ hclock = 0 /\ Cap \in Nat \ {0}
  BY TimersAssumption DEF Heap!Init
<1>2. PICK init \in [0 .. cur_size - 1 -> HeapTimers] :
        LET given == {init[i] : i \in 0 .. cur_size - 1}
        IN /\ Heap!Cardinality(given) = cur_size
           /\ \E ex \in [given -> 0 .. MaxDelay] :
                hexpire = [t \in HeapTimers |-> IF t \in given THEN ex[t] ELSE 0]
           /\ array = Heap!Heapify([i \in 0 .. Cap - 1 |-> IF i < cur_size THEN init[i] ELSE NULL], cur_size, hexpire)
           /\ cb_func = [t \in HeapTimers |-> t \in given]
  BY DEF Heap!Init
<1> DEFINE given == {init[i] : i \in 0 .. cur_size - 1}
           a == [i \in 0 .. Cap - 1 |-> IF i < cur_size THEN init[i] ELSE NULL]
<1>3. /\ Cardinality(given) = cur_size
      /\ cb_func = [t \in HeapTimers |-> t \in given]
      /\ array = Heap!Heapify(a, cur_size, hexpire)
  BY <1>2, SameHeapCardinality
<1>4. hexpire \in [HeapTimers -> Nat]
  <2>1. PICK ex \in [given -> 0 .. MaxDelay] :
          hexpire = [t \in HeapTimers |-> IF t \in given THEN ex[t] ELSE 0]
    BY <1>2
  <2>2. \A t \in HeapTimers : (IF t \in given THEN ex[t] ELSE 0) \in Nat
    <3> HIDE DEF given
    <3> QED
      OBVIOUS
  <2> HIDE DEF given
  <2> QED
    BY <2>1, <2>2
<1>5. cb_func \in [HeapTimers -> BOOLEAN]
  <2>1. \A t \in HeapTimers : (t \in given) \in BOOLEAN
    <3> HIDE DEF given
    <3> QED
      OBVIOUS
  <2> HIDE DEF given
  <2>2. [t \in HeapTimers |-> t \in given] \in [HeapTimers -> BOOLEAN]
    BY <2>1, Zenon
  <2> QED
    BY <1>3, <2>2
<1>6. \A i, j \in 0 .. cur_size - 1 : init[i] = init[j] => i = j
  <2> DEFINE S == 0 .. cur_size - 1
  <2>1. IsFiniteSet(S) /\ Cardinality(S) = cur_size
    <3> DEFINE n == cur_size - 1
    <3>1. 0 \in Int /\ n \in Int
      BY <1>1
    <3> HIDE DEF n
    <3>2. IsFiniteSet(0 .. n) /\ Cardinality(0 .. n) = IF 0 > n THEN 0 ELSE n - 0 + 1
      BY <3>1, FS_Interval
    <3>3. (IF 0 > n THEN 0 ELSE n - 0 + 1) = cur_size
      BY <1>1 DEF n
    <3> QED
      BY <3>2, <3>3 DEF n
  <2>2. init \in [S -> given]
    OBVIOUS
  <2>3. \A t \in given : \E i \in S : init[i] = t
    OBVIOUS
  <2> HIDE DEF S, given
  <2>4. init \in Surjection(S, given)
    BY <2>2, <2>3, Zenon DEF Surjection
  <2>5. init \in Injection(S, given)
    BY <1>3, <2>1, <2>4, FS_SurjSameCardinalityImpliesInj
  <2> QED
    BY <2>5 DEF Injection, IsInjective, S
<1>7. a \in Arrays(Cap) /\ \A i \in 0 .. cur_size - 1 : a[i] = init[i]
  BY <1>1 DEF Arrays
<1> HIDE DEF a, given
<1>8. Held(a, cur_size)
  BY <1>6, <1>7 DEF Held
<1>9. array \in Arrays(Cap) /\ Held(array, cur_size) /\ OrderedFrom(array, cur_size, hexpire, 0)
  BY <1>1, <1>3, <1>4, <1>7, <1>8, HeapifyHeap
<1> QED
  BY <1>1, <1>4, <1>5, <1>9 DEF HeapInv

LEMMA GrownIs ==
  ASSUME HeapInv, NEW c, c = IF cur_size < capacity THEN capacity ELSE 2 * capacity
  PROVE  /\ c \in Nat \ {0} /\ cur_size < c /\ Heap!Grown \in Arrays(c)
         /\ \A i \in 0 .. cur_size - 1 : Heap!Grown[i] = array[i]
<1>1. /\ capacity \in Nat \ {0} /\ cur_size \in 0 .. capacity /\ array \in Arrays(capacity)
      /\ \A i \in 0 .. cur_size - 1 : array[i] \in HeapTimers
  BY DEF HeapInv, Held
<1>2. CASE cur_size < capacity
  BY <1>1, <1>2 DEF Heap!Grown
<1>3. CASE ~(cur_size < capacity)
  <2>1. c = 2 * capacity /\ c \in Nat \ {0} /\ cur_size < c
    BY <1>1, <1>3
  <2>2. Heap!Grown = [i \in 0 .. c - 1 |-> IF i < cur_size THEN array[i] ELSE NULL]
    BY <1>3, <2>1 DEF Heap!Grown
  <2>3. \A i \in 0 .. c - 1 : i < cur_size => i \in 0 .. cur_size - 1
    BY <1>1, <2>1
  <2>4. \A i \in 0 .. cur_size - 1 : i \in 0 .. c - 1 /\ i < cur_size
    BY <1>1, <2>1
  <2> QED
    BY <1>1, <2>1, <2>2, <2>3, <2>4 DEF Arrays
<1> QED
  BY <1>2, <1>3

LEMMA HeapAddKeeps ==
  ASSUME HeapInv, NEW t \in HeapTimers, NEW delay \in 0 .. MaxDelay, Heap!add_timer(t, delay)
  PROVE  /\ HeapInv'
         /\ \A j \in 0 .. cur_size : array'[j] = t \/ \E k \in 0 .. cur_size - 1 : array'[j] = array[k]
<1> DEFINE c == capacity'
           n == cur_size
           a == Heap!Grown
           ex == hexpire'
<1>1. /\ t \notin Heap!InHeap /\ ex = [hexpire EXCEPT ![t] = hclock + delay]
      /\ cb_func' = [cb_func EXCEPT ![t] = TRUE]
      /\ array' = Heap!PercolateUp(a, ex, t, n)
      /\ c = (IF cur_size < capacity THEN capacity ELSE 2 * capacity)
      /\ cur_size' = cur_size + 1 /\ hclock' = hclock
  BY DEF Heap!add_timer
<1>2. /\ capacity \in Nat \ {0} /\ n \in 0 .. capacity
      /\ hexpire \in [HeapTimers -> Nat] /\ cb_func \in [HeapTimers -> BOOLEAN] /\ hclock \in Nat
      /\ \A i \in 0 .. n - 1 : array[i] \in HeapTimers
      /\ \A i, j \in 0 .. n - 1 : array[i] = array[j] => i = j
      /\ \A j \in 1 .. n - 1 : Heap!Parent(j) >= 0 => hexpire[array[Heap!Parent(j)]] <= hexpire[array[j]]
  BY DEF HeapInv, Held, OrderedFrom
<1>3. /\ c \in Nat \ {0} /\ n < c /\ a \in Arrays(c)
      /\ \A i \in 0 .. n - 1 : a[i] = array[i]
  BY <1>1, GrownIs
<1>4. ex \in [HeapTimers -> Nat] /\ \A p \in HeapTimers : p # t => ex[p] = hexpire[p]
  <2>1. hclock + delay \in Nat
    BY <1>2
  <2> QED
    BY <1>1, <1>2, <2>1
<1>5. \A i \in 0 .. n - 1 : a[i] \in HeapTimers /\ a[i] # t
  BY <1>1, <1>2, <1>3 DEF Heap!InHeap
<1> HIDE DEF a, c, ex, n
<1>6. OrderedFrom(a, n, ex, 0)
  <2> SUFFICES ASSUME NEW j \in 1 .. n - 1 PROVE ex[a[Heap!Parent(j)]] <= ex[a[j]]
    BY DEF OrderedFrom
  <2>1. j \in Nat \ {0} /\ j \in 0 .. n - 1
    BY <1>2
  <2>2. Heap!Parent(j) \in Nat /\ Heap!Parent(j) < j
    BY <2>1, ParentIs
  <2>3. Heap!Parent(j) \in 0 .. n - 1 /\ Heap!Parent(j) >= 0
    BY <1>2, <2>1, <2>2
  <2>4. hexpire[array[Heap!Parent(j)]] <= hexpire[array[j]]
    BY <1>2, <2>3
  <2>5. /\ a[j] = array[j] /\ a[Heap!Parent(j)] = array[Heap!Parent(j)]
        /\ ex[a[j]] = hexpire[a[j]] /\ ex[a[Heap!Parent(j)]] = hexpire[a[Heap!Parent(j)]]
    BY <1>3, <1>4, <1>5, <2>1, <2>3
  <2> QED
    BY <2>4, <2>5
<1>7. Held(a, n)
  BY <1>2, <1>3, <1>5 DEF Held
<1>8. UpPre(a, ex, t, n, c)
  <2>1. n \in Nat
    BY <1>2
  <2> QED
    BY <1>3, <1>4, <1>5, <1>6, <1>7, <2>1 DEF UpPre
<1>9. array' \in Arrays(c) /\ Held(array', n + 1) /\ OrderedFrom(array', n + 1, ex, 0)
  BY <1>1, <1>8, UpHeap
<1>10. FromCells(array', n, a, t)
  BY <1>1, <1>8, UpHeap
<1>11. \A j \in 0 .. n : array'[j] = t \/ \E k \in 0 .. n - 1 : array'[j] = array[k]
  BY <1>3, <1>10 DEF FromCells
<1>12. n + 1 \in 0 .. c
  <2>1. n \in Nat
    BY <1>2
  <2>2. c \in Nat /\ n < c
    BY <1>3
  <2> QED
    BY <2>1, <2>2
<1>13. cb_func' \in [HeapTimers -> BOOLEAN]
  BY <1>1, <1>2
<1>14. HeapInv'
  BY <1>1, <1>2, <1>3, <1>4, <1>9, <1>12, <1>13 DEF HeapInv, n, c, ex
<1> QED
  BY <1>11, <1>14 DEF n

\* Where timers of the heap are after the first is popped.
LEMMA PoppedIs ==
  ASSUME HeapInv, cur_size > 0
  PROVE  LET n == cur_size - 1
         IN /\ Heap!Popped \in Arrays(capacity) /\ Held(Heap!Popped, n) /\ OrderedFrom(Heap!Popped, n, hexpire, 0)
            /\ \A j \in 0 .. n - 1 : \E k \in 1 .. n : Heap!Popped[j] = array[k]
<1> DEFINE n == cur_size - 1
           v == [array EXCEPT ![0] = array[n]]
<1>1. /\ capacity \in Nat \ {0} /\ cur_size \in 0 .. capacity /\ array \in Arrays(capacity)
      /\ hexpire \in [HeapTimers -> Nat]
      /\ \A i \in 0 .. cur_size - 1 : array[i] \in HeapTimers
      /\ \A i, j \in 0 .. cur_size - 1 : array[i] = array[j] => i = j
      /\ \A j \in 1 .. cur_size - 1 : Heap!Parent(j) >= 0 => hexpire[array[Heap!Parent(j)]] <= hexpire[array[j]]
  BY DEF HeapInv, Held, OrderedFrom
<1>2. /\ n \in Nat /\ n \in 0 .. capacity /\ n \in 0 .. cur_size - 1 /\ n < capacity
      /\ 0 \in 0 .. capacity - 1 /\ \A i \in 1 .. n : i \in 0 .. cur_size - 1 /\ i \in 1 .. cur_size - 1
  BY <1>1
<1>3. /\ v \in Arrays(capacity) /\ v[0] = array[n]
      /\ \A i \in 0 .. capacity - 1 : i # 0 => v[i] = array[i]
  BY <1>1, <1>2 DEF Arrays
<1>4. Heap!Popped = Heap!PercolateDown(v, n, hexpire, 0)
  BY DEF Heap!Popped
<1> HIDE DEF n, v
<1>5. \A j \in 1 .. n - 1 : j \in 0 .. capacity - 1 /\ j # 0 /\ v[j] = array[j] /\ j # n
  <2>1. \A j \in 1 .. n - 1 : j \in 0 .. capacity - 1 /\ j # 0 /\ j # n
    BY <1>1, <1>2
  <2> QED
    BY <1>3, <2>1
<1>6. OrderedFrom(v, n, hexpire, 1)
  <2> SUFFICES ASSUME NEW j \in 1 .. n - 1, Heap!Parent(j) >= 1 PROVE hexpire[v[Heap!Parent(j)]] <= hexpire[v[j]]
    BY DEF OrderedFrom
  <2>1. j \in Nat \ {0}
    BY <1>2
  <2>2. Heap!Parent(j) \in Nat /\ Heap!Parent(j) < j /\ Heap!Parent(j) >= 0
    BY <2>1, ParentIs
  <2>3. Heap!Parent(j) \in 1 .. n - 1 /\ j \in 1 .. n
    BY <1>2, <2>2
  <2>4. hexpire[array[Heap!Parent(j)]] <= hexpire[array[j]]
    BY <1>1, <1>2, <2>2, <2>3
  <2> QED
    BY <1>5, <2>3, <2>4
<1>7. CASE n = 0
  <2>1. \A j \in 1 .. n - 1 : FALSE
    BY <1>7
  <2>2. \A j \in 0 .. n - 1 : FALSE
    BY <1>7
  <2>3. DownPre(v, hexpire, v[0], n, capacity, 0)
    <3>1. v[0] \in HeapTimers
      BY <1>1, <1>2, <1>3
    <3>2. \A j \in 0 + 1 .. n - 1 : FALSE
      BY <1>7
    <3>3. OrderedFrom(v, n, hexpire, 0 + 1)
      BY <2>1 DEF OrderedFrom
    <3> QED
      BY <1>1, <1>2, <1>3, <3>1, <3>2, <3>3 DEF DownPre
  <2>4. Heap!Popped \in Arrays(capacity)
    <3>1. 0 < capacity
      BY <1>1
    <3> QED
      BY <1>4, <2>3, <3>1, DownHeap
  <2> QED
    BY <2>1, <2>2, <2>4 DEF Held, OrderedFrom, n
<1>8. CASE n # 0
  <2>1. 0 \in 0 .. n - 1 /\ n \in 1 .. n
    BY <1>2, <1>8
  <2>2. \A j \in 0 .. n - 1 : j = 0 \/ (j \in 1 .. n - 1 /\ j \in 1 .. n)
    BY <1>2
  <2>3. \A j \in 0 .. n - 1 : \E k \in 1 .. n : v[j] = array[k]
    BY <1>3, <1>5, <2>1, <2>2
  <2>4. Held(v, n)
    <3>1. \A j \in 0 .. n - 1 : v[j] \in HeapTimers
      BY <1>1, <1>2, <2>3
    <3>2. ASSUME NEW i \in 0 .. n - 1, NEW j \in 0 .. n - 1, v[i] = v[j] PROVE i = j
      <4>1. \A k \in 1 .. n - 1 : v[k] # v[0]
        <5> SUFFICES ASSUME NEW k \in 1 .. n - 1 PROVE array[k] # array[n]
          BY <1>3, <1>5
        <5>1. k \in 0 .. cur_size - 1 /\ k # n
          BY <1>2, <1>5
        <5> QED
          BY <1>1, <1>2, <5>1
      <4>2. CASE i \in 1 .. n - 1 /\ j \in 1 .. n - 1
        BY <1>1, <1>2, <1>5, <2>2, <3>2, <4>2
      <4> QED
        BY <2>2, <3>2, <4>1, <4>2
    <3> QED
      BY <3>1, <3>2 DEF Held
  <2>5. OrderedFrom(v, n, hexpire, 0 + 1)
    BY <1>6
  <2>6. Heap!Popped \in Arrays(capacity) /\ Held(Heap!Popped, n) /\ OrderedFrom(Heap!Popped, n, hexpire, 0)
    BY <1>1, <1>2, <1>3, <1>4, <2>1, <2>4, <2>5, DownKeeps
  <2>7. \A j \in 0 .. n - 1 : \E k \in 0 .. n - 1 : Heap!Popped[j] = v[k]
    BY <1>1, <1>2, <1>3, <1>4, <2>1, <2>4, <2>5, DownKeeps
  <2>8. \A j \in 0 .. n - 1 : \E k \in 1 .. n : Heap!Popped[j] = array[k]
    BY <2>3, <2>7
  <2> QED
    BY <2>6, <2>8 DEF n
<1> QED
  BY <1>7, <1>8

LEMMA PopKeeps ==
  ASSUME HeapInv, Heap!TickPops
  PROVE  HeapInv'
<1> DEFINE n == cur_size - 1
<1>1. /\ cur_size > 0 /\ array' = Heap!Popped /\ cur_size' = n
      /\ hexpire' = [hexpire EXCEPT ![array[0]] = 0]
      /\ cb_func' = [cb_func EXCEPT ![array[0]] = FALSE]
      /\ capacity' = capacity /\ hclock' = hclock
  BY DEF Heap!TickPops, Heap!FirstIsDue
<1>2. /\ capacity \in Nat \ {0} /\ cur_size \in 0 .. capacity
      /\ hexpire \in [HeapTimers -> Nat] /\ cb_func \in [HeapTimers -> BOOLEAN] /\ hclock \in Nat
      /\ \A i \in 0 .. cur_size - 1 : array[i] \in HeapTimers
      /\ \A i, j \in 0 .. cur_size - 1 : array[i] = array[j] => i = j
  BY DEF HeapInv, Held
<1>3. /\ Heap!Popped \in Arrays(capacity) /\ Held(Heap!Popped, n) /\ OrderedFrom(Heap!Popped, n, hexpire, 0)
      /\ \A j \in 0 .. n - 1 : \E k \in 1 .. n : Heap!Popped[j] = array[k]
  BY <1>1, PoppedIs
<1>4. n \in Nat /\ n \in 0 .. capacity
  BY <1>1, <1>2
<1>5. hexpire' \in [HeapTimers -> Nat] /\ cb_func' \in [HeapTimers -> BOOLEAN]
  BY <1>1, <1>2
<1>6. \A j \in 0 .. n - 1 : hexpire'[array'[j]] = hexpire[array'[j]]
  <2> SUFFICES ASSUME NEW j \in 0 .. n - 1 PROVE hexpire'[array'[j]] = hexpire[array'[j]]
    OBVIOUS
  <2>1. PICK k \in 1 .. n : array'[j] = array[k]
    BY <1>1, <1>3
  <2>2. k \in 0 .. cur_size - 1 /\ 0 \in 0 .. cur_size - 1 /\ k # 0
    BY <1>1, <1>2
  <2>3. array[k] # array[0] /\ array[k] \in HeapTimers
    BY <1>2, <2>2
  <2> QED
    BY <1>1, <1>2, <2>1, <2>3
<1> HIDE DEF n
<1>7. OrderedFrom(array', n, hexpire', 0)
  <2> SUFFICES ASSUME NEW j \in 1 .. n - 1, Heap!Parent(j) >= 0
               PROVE  hexpire'[array'[Heap!Parent(j)]] <= hexpire'[array'[j]]
    BY DEF OrderedFrom
  <2>1. j \in Nat \ {0}
    BY <1>4
  <2>2. Heap!Parent(j) \in Nat /\ Heap!Parent(j) < j
    BY <2>1, ParentIs
  <2>3. Heap!Parent(j) \in 0 .. n - 1 /\ j \in 0 .. n - 1
    BY <1>4, <2>2
  <2>4. hexpire[array'[Heap!Parent(j)]] <= hexpire[array'[j]]
    BY <1>1, <1>3 DEF OrderedFrom
  <2> QED
    BY <1>6, <2>3, <2>4
<1> QED
  BY <1>1, <1>2, <1>3, <1>4, <1>5, <1>7 DEF HeapInv

LEMMA HeapStep == HeapInv /\ [Heap!Next]_heapvars => HeapInv'
<1> SUFFICES ASSUME HeapInv, [Heap!Next]_heapvars PROVE HeapInv'
  OBVIOUS
<1>1. ASSUME UNCHANGED <<array, capacity, cur_size, hexpire>>, cb_func' \in [HeapTimers -> BOOLEAN], hclock' \in Nat
      PROVE  HeapInv'
  BY <1>1 DEF HeapInv
<1>2. cb_func \in [HeapTimers -> BOOLEAN] /\ hclock \in Nat
  BY DEF HeapInv
<1>3. ASSUME NEW t \in HeapTimers, Heap!del_timer(t) PROVE HeapInv'
  BY <1>1, <1>2, <1>3 DEF Heap!del_timer
<1>4. ASSUME NEW t \in HeapTimers, NEW delay \in 0 .. MaxDelay, Heap!add_timer(t, delay) PROVE HeapInv'
  BY <1>4, HeapAddKeeps
<1>5. Heap!TickBegin \/ Heap!TickEnd \/ Heap!TimePasses \/ UNCHANGED heapvars => HeapInv'
  BY <1>1, <1>2 DEF Heap!TickBegin, Heap!TickEnd, Heap!TimePasses, heapvars
<1> QED
  BY <1>3, <1>4, <1>5, PopKeeps DEF Heap!Next

-----------------------------------------------------------------------------
(* The list and the heap as alarms. *)

\* The list as alarms.
ListDue == [t \in ListTimers |-> IF t \in alive THEN expire[t] ELSE NotSet]

CurOk == cur \in Nat \union {NotSet} /\ hcur \in Nat \union {NotSet}

LEMMA ListDueIs ==
  ASSUME ListInv
  PROVE  /\ ListDue \in [ListTimers -> Nat \union {NotSet}]
         /\ \A t \in ListTimers : ListDue[t] # NotSet <=> t \in alive
         /\ \A t \in alive : t \in ListTimers /\ ListDue[t] = expire[t] /\ expire[t] \in Nat
BY TimersAssumption DEF ListDue, ListInv

LEMMA ListPending == ListInv => List!Alarm!Pending = alive
<1> SUFFICES ASSUME ListInv PROVE List!Alarm!Pending = alive
  OBVIOUS
<1>1. List!Alarm!Pending = {t \in ListTimers : ListDue[t] # NotSet}
  BY DEF List!Alarm!Pending, ListDue
<1>2. alive \subseteq ListTimers
  BY DEF ListInv
<1> QED
  BY <1>1, <1>2, ListDueIs

LEMMA ListInitRefines == List!Init => List!Alarm!AInit
<1> SUFFICES ASSUME List!Init PROVE List!Alarm!AInit
  OBVIOUS
<1>1. ListInv
  BY ListInit
<1>2. ListDue \in [ListTimers -> Nat \union {NotSet}] /\ clock \in Nat
  BY <1>1, ListDueIs DEF ListInv
<1> QED
  BY <1>2 DEF List!Alarm!AInit, List!Init, ListDue

\* The alarm of t alone changes, from ListDue to the next.
LEMMA ListDueChange ==
  ASSUME ListInv, ListInv', NEW t \in ListTimers,
         \A p \in ListTimers : p # t => (p \in alive' <=> p \in alive) /\ expire'[p] = expire[p]
  PROVE  ListDue' = [ListDue EXCEPT ![t] = ListDue'[t]]
<1>1. ListDue \in [ListTimers -> Nat \union {NotSet}]
  BY ListDueIs
<1>2. /\ ListDue' = [p \in ListTimers |-> IF p \in alive' THEN expire'[p] ELSE NotSet]
      /\ ListDue = [p \in ListTimers |-> IF p \in alive THEN expire[p] ELSE NotSet]
  BY DEF ListDue
<1>3. \A p \in ListTimers : p # t => ListDue'[p] = ListDue[p]
  BY <1>2
<1>4. ListDue' = [p \in ListTimers |-> ListDue'[p]]
  BY <1>2
<1> QED
  BY <1>1, <1>3, <1>4

LEMMA ListAddRefines ==
  ASSUME ListInv, NEW t \in ListTimers, NEW e \in Nat, List!add_timer(t, e)
  PROVE  List!Alarm!Set(t)
<1>1. ListInv'
  BY AddKeeps
<1>2. /\ cur = NotSet /\ t \notin alive /\ alive' = alive \union {t} /\ expire' = [expire EXCEPT ![t] = e]
      /\ clock' = clock /\ cur' = cur /\ expire \in [ListTimers -> Nat]
  BY DEF List!add_timer, ListInv
<1>3. ListDue' = [ListDue EXCEPT ![t] = ListDue'[t]]
  BY <1>1, <1>2, ListDueChange
<1>4. ListDue'[t] \in Nat
  BY <1>2 DEF ListDue
<1>5. t \notin List!Alarm!Pending
  BY <1>2, ListPending
<1> QED
  BY <1>2, <1>3, <1>4, <1>5 DEF List!Alarm!Set, ListDue

LEMMA ListAdjustRefines ==
  ASSUME ListInv, NEW t \in ListTimers, NEW e \in Nat, List!adjust_timer(t, e)
  PROVE  List!Alarm!PutOff(t)
<1>1. ListInv'
  BY AdjustKeeps
<1>2. /\ cur = NotSet /\ t \in alive /\ e >= expire[t] /\ alive' = alive /\ expire' = [expire EXCEPT ![t] = e]
      /\ clock' = clock /\ cur' = cur /\ expire \in [ListTimers -> Nat]
  BY DEF List!adjust_timer, ListInv
<1>3. ListDue' = [ListDue EXCEPT ![t] = ListDue'[t]]
  BY <1>1, <1>2, ListDueChange
<1>4. ListDue'[t] \in Nat /\ ListDue'[t] >= ListDue[t]
  BY <1>2 DEF ListDue
<1>5. t \in List!Alarm!Pending
  BY <1>2, ListPending
<1> QED
  BY <1>2, <1>3, <1>4, <1>5 DEF List!Alarm!PutOff, ListDue

LEMMA ListDelRefines ==
  ASSUME ListInv, NEW t \in ListTimers, List!del_timer(t)
  PROVE  List!Alarm!Cancel(t)
<1>1. ListInv'
  BY DelKeeps
<1>2. /\ cur = NotSet /\ t \in alive /\ alive' = alive \ {t} /\ expire' = expire
      /\ clock' = clock /\ cur' = cur
  BY DEF List!del_timer
<1>3. ListDue' = [ListDue EXCEPT ![t] = ListDue'[t]]
  BY <1>1, <1>2, ListDueChange
<1>4. ListDue'[t] = NotSet
  BY <1>2 DEF ListDue
<1>5. t \in List!Alarm!Pending
  BY <1>2, ListPending
<1> QED
  BY <1>2, <1>3, <1>4, <1>5 DEF List!Alarm!Cancel, ListDue

LEMMA ListFiresRefines ==
  ASSUME ListInv, List!TickFires
  PROVE  \E t \in ListTimers : List!Alarm!Fire(t)
<1>0. PICK t : t = lst.head
  OBVIOUS
<1>1. ListInv'
  BY TickFiresKeeps
<1>2. /\ cur # NotSet /\ t # NULL /\ expire[t] <= cur /\ alive' = alive \ {t} /\ expire' = expire
      /\ clock' = clock /\ cur' = cur
  BY <1>0 DEF List!TickFires
<1>3. t \in alive /\ t \in ListTimers
  <2>1. PICK s : IsList(lst, expire, alive, s)
    BY DEF ListInv
  <2>2. Chain(lst, s) /\ Nodes(s) = alive
    BY <2>1 DEF IsList
  <2>3. /\ Len(s) \in Nat /\ t = (IF Len(s) = 0 THEN NULL ELSE s[1])
        /\ \A i \in 1 .. Len(s) : s[i] \in ListTimers /\ s[i] \in Nodes(s)
    BY <1>0, <2>2, ChainIs
  <2>4. Len(s) # 0 /\ t = s[1] /\ 1 \in 1 .. Len(s)
    BY <1>2, <2>3
  <2> QED
    BY <2>2, <2>3, <2>4
<1>4. ListDue' = [ListDue EXCEPT ![t] = ListDue'[t]]
  BY <1>1, <1>2, <1>3, ListDueChange
<1>5. ListDue'[t] = NotSet /\ ListDue[t] <= cur
  BY <1>2, <1>3 DEF ListDue
<1>6. t \in List!Alarm!Pending
  BY <1>3, ListPending
<1>7. List!Alarm!Fire(t)
  BY <1>2, <1>4, <1>5, <1>6 DEF List!Alarm!Fire, ListDue
<1> QED
  BY <1>3, <1>7

\* The first of a sorted list is not due: no other is.
LEMMA ListEndRefines ==
  ASSUME ListInv, CurOk, List!TickEnd
  PROVE  List!Alarm!EndTick
<1>1. /\ cur # NotSet /\ (lst.head # NULL => cur < expire[lst.head]) /\ cur' = NotSet
      /\ lst' = lst /\ alive' = alive /\ expire' = expire /\ clock' = clock
  BY DEF List!TickEnd
<1>2. clock \in Nat /\ cur \in Nat /\ expire \in [ListTimers -> Nat]
  BY <1>1 DEF ListInv, CurOk
<1>3. ASSUME NEW t \in alive PROVE ListDue[t] > cur
  <2>1. PICK s : IsList(lst, expire, alive, s)
    BY DEF ListInv
  <2>2. Chain(lst, s) /\ Nodes(s) = alive /\ Sorted(s, expire)
    BY <2>1 DEF IsList
  <2>3. PICK k \in 1 .. Len(s) : s[k] = t
    BY <2>2, PlaceOf
  <2>4. /\ Len(s) \in Nat /\ NULL \notin ListTimers /\ lst.head = (IF Len(s) = 0 THEN NULL ELSE s[1])
        /\ \A i \in 1 .. Len(s) : s[i] \in ListTimers
    BY <2>2, ChainIs
  <2>5. 1 \in 1 .. Len(s) /\ 1 <= k /\ lst.head = s[1] /\ s[1] \in ListTimers /\ s[1] # NULL
    BY <2>3, <2>4
  <2>6. cur < expire[s[1]] /\ expire[s[1]] <= expire[t]
    BY <1>1, <2>2, <2>3, <2>5 DEF Sorted
  <2>7. expire[s[1]] \in Nat /\ expire[t] \in Nat /\ ListDue[t] = expire[t]
    BY <1>2, <1>3, <2>5, ListDueIs
  <2> QED
    BY <1>2, <2>6, <2>7
<1>4. \A t \in List!Alarm!Pending : ListDue[t] > cur
  BY <1>3, ListPending
<1>5. ListDue' = ListDue /\ clock' \in Nat /\ clock' >= clock
  BY <1>1, <1>2 DEF ListDue
<1> QED
  BY <1>1, <1>4, <1>5 DEF List!Alarm!EndTick, ListDue

LEMMA ListStepRefines ==
  ASSUME ListInv, CurOk, [List!Next]_listvars
  PROVE  [List!Alarm!ANext]_(List!Alarm!avars)
<1>1. clock \in Nat
  BY DEF ListInv
<1>2. ASSUME NEW t \in ListTimers, NEW d \in 0 .. MaxDelay, List!add_timer(t, clock + d) PROVE List!Alarm!ANext
  <2>1. clock + d \in Nat
    BY <1>1
  <2> QED
    BY <1>2, <2>1, ListAddRefines DEF List!Alarm!ANext
<1>3. ASSUME NEW t \in ListTimers, NEW d \in 0 .. MaxDelay, List!adjust_timer(t, clock + d) PROVE List!Alarm!ANext
  <2>1. clock + d \in Nat
    BY <1>1
  <2> QED
    BY <1>3, <2>1, ListAdjustRefines DEF List!Alarm!ANext
<1>4. ASSUME NEW t \in ListTimers, List!del_timer(t) PROVE List!Alarm!ANext
  BY <1>4, ListDelRefines DEF List!Alarm!ANext
<1>5. CASE List!TickBegin
  BY <1>5 DEF List!TickBegin, List!Alarm!ANext, List!Alarm!BeginTick
<1>6. CASE List!TickFires
  BY <1>6, ListFiresRefines DEF List!Alarm!ANext
<1>7. CASE List!TickEnd
  BY <1>7, ListEndRefines DEF List!Alarm!ANext
<1>8. CASE List!TimePasses
  <2>1. clock' \in Nat /\ clock' > clock /\ UNCHANGED <<alive, expire, cur>>
    BY <1>1, <1>8 DEF List!TimePasses
  <2> QED
    BY <2>1 DEF List!Alarm!ANext, List!Alarm!TimePasses
<1>9. CASE UNCHANGED listvars
  BY <1>9 DEF listvars, List!Alarm!avars
<1> QED
  BY <1>2, <1>3, <1>4, <1>5, <1>6, <1>7, <1>8, <1>9 DEF List!Next

\* As many different cells as a set has members, all of them members: the set.
LEMMA CellsCover ==
  ASSUME NEW n \in Nat, NEW b, NEW S, IsFiniteSet(S), Cardinality(S) = n,
         \A i, j \in 0 .. n - 1 : b[i] = b[j] => i = j,
         \A i \in 0 .. n - 1 : b[i] \in S
  PROVE  {b[i] : i \in 0 .. n - 1} = S
<1> DEFINE D == 0 .. n - 1
           f == [i \in D |-> b[i]]
<1>1. IsFiniteSet(D) /\ Cardinality(D) = n
  <2>1. 0 \in Int /\ n - 1 \in Int
    OBVIOUS
  <2>2. IsFiniteSet(D) /\ Cardinality(D) = IF 0 > n - 1 THEN 0 ELSE (n - 1) - 0 + 1
    BY <2>1, FS_Interval
  <2> QED
    BY <2>2
<1>2. f \in [D -> S] /\ \A i, j \in D : f[i] = f[j] => i = j
  OBVIOUS
<1>3. f \in Injection(D, S)
  <2> HIDE DEF f, D
  <2> QED
    BY <1>2 DEF Injection, IsInjective
<1>4. f \in Surjection(D, S)
  <2> HIDE DEF f, D
  <2> QED
    BY <1>1, <1>3, FS_Injection
<1>5. \A t \in S : \E i \in D : f[i] = t
  <2> HIDE DEF f, D
  <2> QED
    BY <1>4 DEF Surjection
<1> QED
  BY <1>5

LEMMA CellsCount ==
  ASSUME NEW n \in Nat, NEW a, Held(a, n)
  PROVE  IsFiniteSet({a[i] : i \in 0 .. n - 1}) /\ Cardinality({a[i] : i \in 0 .. n - 1}) = n
<1> DEFINE D == 0 .. n - 1
           S == {a[i] : i \in D}
           f == [i \in D |-> a[i]]
<1>1. IsFiniteSet(D) /\ Cardinality(D) = n
  <2>1. 0 \in Int /\ n - 1 \in Int
    OBVIOUS
  <2>2. IsFiniteSet(D) /\ Cardinality(D) = IF 0 > n - 1 THEN 0 ELSE (n - 1) - 0 + 1
    BY <2>1, FS_Interval
  <2> QED
    BY <2>2
<1>2. /\ f \in [D -> S] /\ (\A t \in S : \E i \in D : f[i] = t)
      /\ \A i, j \in D : f[i] = f[j] => i = j
  BY DEF Held
<1> HIDE DEF f, D, S
<1>3. f \in Surjection(D, S)
  BY <1>2 DEF Surjection
<1>4. f \in Injection(D, S)
  BY <1>2 DEF Injection, IsInjective
<1>5. IsFiniteSet(S) /\ Cardinality(S) = Cardinality(D)
  BY <1>1, <1>3, <1>4, FS_Surjection
<1> QED
  BY <1>1, <1>5 DEF S, D

LEMMA InHeapCount == HeapInv => IsFiniteSet(Heap!InHeap) /\ Cardinality(Heap!InHeap) = cur_size
<1> SUFFICES ASSUME HeapInv PROVE IsFiniteSet(Heap!InHeap) /\ Cardinality(Heap!InHeap) = cur_size
  OBVIOUS
<1>1. cur_size \in Nat /\ Held(array, cur_size)
  BY DEF HeapInv
<1> QED
  BY <1>1, CellsCount DEF Heap!InHeap

\* The timers of the heap after one is added, and after the first is popped.
LEMMA AddInHeap ==
  ASSUME HeapInv, NEW t \in HeapTimers, NEW delay \in 0 .. MaxDelay, Heap!add_timer(t, delay)
  PROVE  Heap!InHeap' = Heap!InHeap \union {t}
<1> DEFINE n == cur_size + 1
           S == Heap!InHeap \union {t}
<1>1. t \notin Heap!InHeap /\ cur_size' = n
  BY DEF Heap!add_timer
<1>2. cur_size \in Nat /\ n \in Nat /\ n - 1 = cur_size
  BY DEF HeapInv
<1>3. IsFiniteSet(S) /\ Cardinality(S) = n
  <2> HIDE DEF n
  <2>1. IsFiniteSet(Heap!InHeap) /\ Cardinality(Heap!InHeap) = cur_size
    BY InHeapCount
  <2>2. IsFiniteSet(S) /\ Cardinality(S) = Cardinality(Heap!InHeap) + 1
    BY <1>1, <2>1, FS_AddElement
  <2> QED
    BY <2>1, <2>2 DEF n
<1>4. \A i, j \in 0 .. n - 1 : array'[i] = array'[j] => i = j
  BY <1>1, HeapAddKeeps DEF HeapInv, Held
<1>5. \A j \in 0 .. cur_size : array'[j] = t \/ \E k \in 0 .. cur_size - 1 : array'[j] = array[k]
  BY HeapAddKeeps
<1>6. \A j \in 0 .. n - 1 : array'[j] \in S
  BY <1>2, <1>5 DEF Heap!InHeap
<1> HIDE DEF n, S
<1>7. {array'[i] : i \in 0 .. n - 1} = S
  BY <1>2, <1>3, <1>4, <1>6, CellsCover
<1>8. Heap!InHeap' = {array'[i] : i \in 0 .. n - 1}
  BY <1>1 DEF Heap!InHeap
<1> QED
  BY <1>7, <1>8 DEF S

LEMMA PopInHeap ==
  ASSUME HeapInv, Heap!TickPops
  PROVE  array[0] \in Heap!InHeap /\ Heap!InHeap' = Heap!InHeap \ {array[0]}
<1> DEFINE n == cur_size - 1
           S == Heap!InHeap \ {array[0]}
<1>1. cur_size > 0 /\ array' = Heap!Popped /\ cur_size' = n
  BY DEF Heap!TickPops, Heap!FirstIsDue
<1>2. cur_size \in Nat /\ n \in Nat /\ 0 \in 0 .. cur_size - 1
  BY <1>1 DEF HeapInv
<1>3. array[0] \in Heap!InHeap
  BY <1>2 DEF Heap!InHeap
<1>4. IsFiniteSet(S) /\ Cardinality(S) = n
  <2> HIDE DEF n
  <2>1. IsFiniteSet(Heap!InHeap) /\ Cardinality(Heap!InHeap) = cur_size
    BY InHeapCount
  <2>2. IsFiniteSet(S) /\ Cardinality(S) = Cardinality(Heap!InHeap) - 1
    BY <1>3, <2>1, FS_RemoveElement
  <2> QED
    BY <2>1, <2>2 DEF n
<1>5. Held(array', n) /\ \A j \in 0 .. n - 1 : \E k \in 1 .. n : array'[j] = array[k]
  BY <1>1, PoppedIs
<1>6. \A k \in 1 .. n : array[k] \in S
  <2>1. \A i, j \in 0 .. cur_size - 1 : array[i] = array[j] => i = j
    BY DEF HeapInv, Held
  <2>2. \A k \in 1 .. n : k \in 0 .. cur_size - 1 /\ k # 0
    BY <1>2
  <2> QED
    BY <1>2, <2>1, <2>2 DEF Heap!InHeap
<1>7. \A j \in 0 .. n - 1 : array'[j] \in S
  BY <1>5, <1>6
<1>8. \A i, j \in 0 .. n - 1 : array'[i] = array'[j] => i = j
  BY <1>5 DEF Held
<1> HIDE DEF n, S
<1>9. {array'[i] : i \in 0 .. n - 1} = S
  BY <1>2, <1>4, <1>7, <1>8, CellsCover
<1>10. Heap!InHeap' = {array'[i] : i \in 0 .. n - 1}
  BY <1>1 DEF Heap!InHeap
<1> QED
  BY <1>3, <1>9, <1>10 DEF S

\* None in the heap expires before the first.
LEMMA RootFirst ==
  ASSUME HeapInv
  PROVE  \A t \in Heap!InHeap : hexpire[array[0]] <= hexpire[t]
<1> DEFINE T == {i \in 0 .. cur_size - 1 : ~(hexpire[array[0]] <= hexpire[array[i]])}
<1>1. /\ cur_size \in Nat /\ hexpire \in [HeapTimers -> Nat]
      /\ \A i \in 0 .. cur_size - 1 : array[i] \in HeapTimers
      /\ \A j \in 1 .. cur_size - 1 : Heap!Parent(j) >= 0 => hexpire[array[Heap!Parent(j)]] <= hexpire[array[j]]
  BY DEF HeapInv, Held, OrderedFrom
<1>2. T = {}
  <2> SUFFICES ASSUME T # {} PROVE FALSE
    OBVIOUS
  <2>1. T \in SUBSET Nat
    BY <1>1
  <2>2. PICK i \in T : \A x \in T : i <= x
    BY <2>1, LeastMember
  <2>3. i \in 0 .. cur_size - 1 /\ ~(hexpire[array[0]] <= hexpire[array[i]])
    OBVIOUS
  <2>4. 0 \in 0 .. cur_size - 1 /\ array[0] \in HeapTimers /\ hexpire[array[0]] \in Nat
    BY <1>1, <2>3
  <2>5. i # 0
    BY <2>3, <2>4
  <2>6. i \in Nat \ {0} /\ i \in 1 .. cur_size - 1
    BY <1>1, <2>3, <2>5
  <2>7. Heap!Parent(i) \in Nat /\ Heap!Parent(i) < i
    BY <2>6, ParentIs
  <2>8. Heap!Parent(i) \in 0 .. cur_size - 1 /\ Heap!Parent(i) >= 0
    BY <1>1, <2>6, <2>7
  <2>9. Heap!Parent(i) \notin T
    <3> HIDE DEF T
    <3> QED
      BY <2>2, <2>6, <2>7
  <2>10. hexpire[array[0]] <= hexpire[array[Heap!Parent(i)]]
    BY <2>8, <2>9
  <2>11. hexpire[array[Heap!Parent(i)]] <= hexpire[array[i]]
    BY <1>1, <2>6, <2>8
  <2>12. hexpire[array[Heap!Parent(i)]] \in Nat /\ hexpire[array[i]] \in Nat
    BY <1>1, <2>3, <2>8
  <2> HIDE DEF T
  <2> QED
    BY <2>3, <2>4, <2>10, <2>11, <2>12
<1> QED
  BY <1>2 DEF Heap!InHeap

\* The heap as alarms: those of its timers that have a callback.
HeapDue == [t \in HeapTimers |-> IF t \in Heap!InHeap /\ cb_func[t] THEN hexpire[t] ELSE NotSet]

LEMMA HeapDueIs ==
  ASSUME HeapInv
  PROVE  /\ HeapDue \in [HeapTimers -> Nat \union {NotSet}]
         /\ \A t \in HeapTimers : HeapDue[t] # NotSet <=> t \in Heap!InHeap /\ cb_func[t]
         /\ \A t \in HeapTimers : t \in Heap!InHeap /\ cb_func[t] => HeapDue[t] = hexpire[t] /\ hexpire[t] \in Nat
<1>1. hexpire \in [HeapTimers -> Nat]
  BY DEF HeapInv
<1> QED
  BY <1>1, TimersAssumption DEF HeapDue

LEMMA HeapPending ==
  ASSUME HeapInv
  PROVE  \A t \in HeapTimers : t \in Heap!Alarm!Pending <=> t \in Heap!InHeap /\ cb_func[t]
<1>1. Heap!Alarm!Pending = {t \in HeapTimers : HeapDue[t] # NotSet}
  BY DEF Heap!Alarm!Pending, HeapDue
<1> QED
  BY <1>1, HeapDueIs

LEMMA HeapInitRefines == Heap!Init => Heap!Alarm!AInit
<1> SUFFICES ASSUME Heap!Init PROVE Heap!Alarm!AInit
  OBVIOUS
<1>1. HeapInv
  BY HeapInit
<1>2. HeapDue \in [HeapTimers -> Nat \union {NotSet}]
  BY <1>1, HeapDueIs
<1>3. hclock \in Nat
  BY <1>1 DEF HeapInv
<1>4. hcur = NotSet
  BY DEF Heap!Init
<1> QED
  BY <1>2, <1>3, <1>4 DEF Heap!Alarm!AInit, HeapDue

\* The alarm of t alone changes, from HeapDue to the next.
LEMMA HeapDueChange ==
  ASSUME HeapInv, NEW t \in HeapTimers,
         \A p \in HeapTimers : p # t =>
           (p \in Heap!InHeap' <=> p \in Heap!InHeap) /\ cb_func'[p] = cb_func[p] /\ hexpire'[p] = hexpire[p]
  PROVE  HeapDue' = [HeapDue EXCEPT ![t] = HeapDue'[t]]
<1>1. HeapDue \in [HeapTimers -> Nat \union {NotSet}]
  BY HeapDueIs
<1>2. /\ HeapDue' = [p \in HeapTimers |-> IF p \in Heap!InHeap' /\ cb_func'[p] THEN hexpire'[p] ELSE NotSet]
      /\ HeapDue = [p \in HeapTimers |-> IF p \in Heap!InHeap /\ cb_func[p] THEN hexpire[p] ELSE NotSet]
  BY DEF HeapDue
<1>3. \A p \in HeapTimers : p # t => HeapDue'[p] = HeapDue[p]
  BY <1>2
<1>4. HeapDue' = [p \in HeapTimers |-> HeapDue'[p]]
  BY <1>2
<1> QED
  BY <1>1, <1>3, <1>4

LEMMA HeapAddRefines ==
  ASSUME HeapInv, NEW t \in HeapTimers, NEW delay \in 0 .. MaxDelay, Heap!add_timer(t, delay)
  PROVE  Heap!Alarm!Set(t)
<1>1. /\ hcur = NotSet /\ t \notin Heap!InHeap
      /\ hexpire' = [hexpire EXCEPT ![t] = hclock + delay] /\ cb_func' = [cb_func EXCEPT ![t] = TRUE]
      /\ hclock' = hclock /\ hcur' = hcur
  BY DEF Heap!add_timer
<1>2. /\ hexpire \in [HeapTimers -> Nat] /\ cb_func \in [HeapTimers -> BOOLEAN] /\ hclock + delay \in Nat
  BY DEF HeapInv
<1>3. Heap!InHeap' = Heap!InHeap \union {t}
  BY AddInHeap
<1>4. HeapDue' = [HeapDue EXCEPT ![t] = HeapDue'[t]]
  <2>1. \A p \in HeapTimers : p # t => (p \in Heap!InHeap' <=> p \in Heap!InHeap)
    BY <1>3
  <2>2. \A p \in HeapTimers : p # t => cb_func'[p] = cb_func[p] /\ hexpire'[p] = hexpire[p]
    BY <1>1, <1>2
  <2> QED
    BY <2>1, <2>2, HeapDueChange
<1>5. HeapDue'[t] \in Nat
  <2>1. HeapDue'[t] = IF t \in Heap!InHeap' /\ cb_func'[t] THEN hexpire'[t] ELSE NotSet
    BY DEF HeapDue
  <2>2. cb_func'[t] /\ hexpire'[t] = hclock + delay
    BY <1>1, <1>2
  <2> QED
    BY <1>2, <1>3, <2>1, <2>2
<1>6. t \notin Heap!Alarm!Pending
  BY <1>1, HeapPending
<1> QED
  BY <1>1, <1>4, <1>5, <1>6 DEF Heap!Alarm!Set, HeapDue

LEMMA HeapDelRefines ==
  ASSUME HeapInv, NEW t \in HeapTimers, Heap!del_timer(t)
  PROVE  Heap!Alarm!Cancel(t)
<1>1. /\ hcur = NotSet /\ t \in Heap!InHeap /\ cb_func[t] /\ cb_func' = [cb_func EXCEPT ![t] = FALSE]
      /\ array' = array /\ cur_size' = cur_size /\ hexpire' = hexpire /\ hclock' = hclock /\ hcur' = hcur
  BY DEF Heap!del_timer
<1>2. cb_func \in [HeapTimers -> BOOLEAN]
  BY DEF HeapInv
<1>3. Heap!InHeap' = Heap!InHeap
  BY <1>1 DEF Heap!InHeap
<1>4. HeapDue' = [HeapDue EXCEPT ![t] = HeapDue'[t]]
  <2>1. \A p \in HeapTimers : p # t => cb_func'[p] = cb_func[p] /\ hexpire'[p] = hexpire[p]
    BY <1>1, <1>2
  <2> QED
    BY <1>3, <2>1, HeapDueChange
<1>5. HeapDue'[t] = NotSet
  <2>1. HeapDue'[t] = IF t \in Heap!InHeap' /\ cb_func'[t] THEN hexpire'[t] ELSE NotSet
    BY DEF HeapDue
  <2>2. ~cb_func'[t]
    BY <1>1, <1>2
  <2> QED
    BY <2>1, <2>2
<1>6. t \in Heap!Alarm!Pending
  BY <1>1, HeapPending
<1> QED
  BY <1>1, <1>4, <1>5, <1>6 DEF Heap!Alarm!Cancel, HeapDue

\* The timer that is popped fires, or it was deleted before and nothing happens.
LEMMA HeapPopRefines ==
  ASSUME HeapInv, CurOk, Heap!TickPops
  PROVE  (\E t \in HeapTimers : Heap!Alarm!Fire(t)) \/ UNCHANGED Heap!Alarm!avars
<1>0. PICK t : t = array[0]
  OBVIOUS
<1>1. /\ hcur # NotSet /\ hexpire[t] <= hcur
      /\ hexpire' = [hexpire EXCEPT ![t] = 0] /\ cb_func' = [cb_func EXCEPT ![t] = FALSE]
      /\ hclock' = hclock /\ hcur' = hcur
  BY <1>0 DEF Heap!TickPops, Heap!FirstIsDue
<1>2. t \in Heap!InHeap /\ Heap!InHeap' = Heap!InHeap \ {t}
  BY <1>0, PopInHeap
<1>3. /\ t \in HeapTimers /\ hexpire \in [HeapTimers -> Nat] /\ cb_func \in [HeapTimers -> BOOLEAN]
  BY <1>2 DEF HeapInv, Held, Heap!InHeap
<1>4. HeapDue' = [HeapDue EXCEPT ![t] = HeapDue'[t]]
  <2>1. \A p \in HeapTimers : p # t => (p \in Heap!InHeap' <=> p \in Heap!InHeap)
    BY <1>2
  <2>2. \A p \in HeapTimers : p # t => cb_func'[p] = cb_func[p] /\ hexpire'[p] = hexpire[p]
    BY <1>1, <1>3
  <2> QED
    BY <1>3, <2>1, <2>2, HeapDueChange
<1>5. HeapDue'[t] = NotSet
  <2>1. HeapDue'[t] = IF t \in Heap!InHeap' /\ cb_func'[t] THEN hexpire'[t] ELSE NotSet
    BY <1>3 DEF HeapDue
  <2> QED
    BY <1>2, <2>1
<1>6. CASE cb_func[t]
  <2>1. t \in Heap!Alarm!Pending
    BY <1>2, <1>3, <1>6, HeapPending
  <2>2. HeapDue[t] <= hcur
    BY <1>1, <1>2, <1>3, <1>6, HeapDueIs
  <2>3. Heap!Alarm!Fire(t)
    BY <1>1, <1>4, <1>5, <2>1, <2>2 DEF Heap!Alarm!Fire, HeapDue
  <2> QED
    BY <1>3, <2>3
<1>7. CASE ~cb_func[t]
  <2>1. HeapDue[t] = NotSet /\ HeapDue \in [HeapTimers -> Nat \union {NotSet}]
    BY <1>3, <1>7, HeapDueIs
  <2>2. HeapDue' = HeapDue
    BY <1>3, <1>4, <1>5, <2>1
  <2> QED
    BY <1>1, <2>2 DEF Heap!Alarm!avars, HeapDue
<1> QED
  BY <1>6, <1>7

\* The first of the heap is not due: no other is.
LEMMA HeapEndRefines ==
  ASSUME HeapInv, CurOk, Heap!TickEnd
  PROVE  Heap!Alarm!EndTick
<1>1. /\ hcur # NotSet /\ ~Heap!FirstIsDue /\ hcur' = NotSet /\ hclock' = hclock
      /\ array' = array /\ cur_size' = cur_size /\ hexpire' = hexpire /\ cb_func' = cb_func
  BY DEF Heap!TickEnd
<1>2. /\ hclock \in Nat /\ hcur \in Nat /\ cur_size \in Nat /\ hexpire \in [HeapTimers -> Nat]
      /\ \A i \in 0 .. cur_size - 1 : array[i] \in HeapTimers
  BY <1>1 DEF HeapInv, Held, CurOk
<1>3. ASSUME NEW t \in Heap!Alarm!Pending PROVE HeapDue[t] > hcur
  <2>1. t \in HeapTimers
    BY DEF Heap!Alarm!Pending
  <2>2. t \in Heap!InHeap /\ HeapDue[t] = hexpire[t] /\ hexpire[t] \in Nat
    BY <2>1, HeapPending, HeapDueIs
  <2>3. 0 \in 0 .. cur_size - 1
    BY <1>2, <2>2 DEF Heap!InHeap
  <2>4. array[0] \in HeapTimers /\ array[0] # NULL /\ hexpire[array[0]] \in Nat /\ cur_size > 0
    BY <1>2, <2>3, TimersAssumption
  <2>5. ~(hexpire[array[0]] <= hcur)
    BY <1>1, <2>4 DEF Heap!FirstIsDue
  <2>6. hexpire[array[0]] <= hexpire[t]
    BY <2>2, RootFirst
  <2> QED
    BY <1>2, <2>2, <2>4, <2>5, <2>6
<1>4. HeapDue' = HeapDue
  BY <1>1 DEF HeapDue, Heap!InHeap
<1>5. hclock' \in Nat /\ hclock' >= hclock
  BY <1>1, <1>2
<1> QED
  BY <1>1, <1>3, <1>4, <1>5 DEF Heap!Alarm!EndTick, HeapDue

LEMMA HeapStepRefines ==
  ASSUME HeapInv, CurOk, [Heap!Next]_heapvars
  PROVE  [Heap!Alarm!ANext]_(Heap!Alarm!avars)
<1>1. hclock \in Nat
  BY DEF HeapInv
<1>2. ASSUME NEW t \in HeapTimers, NEW d \in 0 .. MaxDelay, Heap!add_timer(t, d) PROVE Heap!Alarm!ANext
  BY <1>2, HeapAddRefines DEF Heap!Alarm!ANext
<1>3. ASSUME NEW t \in HeapTimers, Heap!del_timer(t) PROVE Heap!Alarm!ANext
  BY <1>3, HeapDelRefines DEF Heap!Alarm!ANext
<1>4. ASSUME UNCHANGED <<array, cur_size, hexpire, cb_func>> PROVE HeapDue' = HeapDue
  BY <1>4 DEF HeapDue, Heap!InHeap
<1>5. CASE Heap!TickBegin
  <2>1. hcur = NotSet /\ hcur' = hclock /\ hclock' = hclock /\ HeapDue' = HeapDue
    BY <1>4, <1>5 DEF Heap!TickBegin
  <2> QED
    BY <2>1 DEF Heap!Alarm!ANext, Heap!Alarm!BeginTick, HeapDue
<1>6. CASE Heap!TickPops
  BY <1>6, HeapPopRefines DEF Heap!Alarm!ANext
<1>7. CASE Heap!TickEnd
  BY <1>7, HeapEndRefines DEF Heap!Alarm!ANext
<1>8. CASE Heap!TimePasses
  <2>1. hclock' \in Nat /\ hclock' > hclock /\ hcur' = hcur /\ HeapDue' = HeapDue
    BY <1>1, <1>4, <1>8 DEF Heap!TimePasses
  <2> QED
    BY <2>1 DEF Heap!Alarm!ANext, Heap!Alarm!TimePasses, HeapDue
<1>9. CASE UNCHANGED heapvars
  <2>1. hclock' = hclock /\ hcur' = hcur /\ HeapDue' = HeapDue
    BY <1>4, <1>9 DEF heapvars
  <2> QED
    BY <2>1 DEF Heap!Alarm!avars, HeapDue
<1> QED
  BY <1>2, <1>3, <1>5, <1>6, <1>7, <1>8, <1>9 DEF Heap!Next

-----------------------------------------------------------------------------
(* The list and the heap, at any time. *)

\* What holds of the list and the heap.
ContainersInv == ListInv /\ HeapInv /\ CurOk

LEMMA ContainersInit == MCInit => ContainersInv
<1> SUFFICES ASSUME MCInit PROVE ContainersInv
  OBVIOUS
<1>1. ListInv
  BY ListInit DEF MCInit
<1>2. HeapInv
  BY HeapInit DEF MCInit
<1>3. CurOk
  BY DEF MCInit, List!Init, Heap!Init, CurOk
<1> QED
  BY <1>1, <1>2, <1>3 DEF ContainersInv

LEMMA ContainersSteps == [MCNext]_<<vars, listvars, heapvars, which>> => [List!Next]_listvars /\ [Heap!Next]_heapvars
BY DEF MCNext

LEMMA CurKept ==
  ASSUME ContainersInv, [List!Next]_listvars, [Heap!Next]_heapvars
  PROVE  CurOk'
<1>1. clock \in Nat /\ hclock \in Nat /\ cur \in Nat \union {NotSet} /\ hcur \in Nat \union {NotSet}
  BY DEF ContainersInv, ListInv, HeapInv, CurOk
<1>2. cur' \in {cur, clock, NotSet}
  BY DEF List!Next, List!add_timer, List!adjust_timer, List!del_timer, List!TickBegin, List!TickFires,
         List!TickEnd, List!TimePasses, listvars
<1>3. hcur' \in {hcur, hclock, NotSet}
  BY DEF Heap!Next, Heap!add_timer, Heap!del_timer, Heap!TickBegin, Heap!TickPops,
         Heap!TickEnd, Heap!TimePasses, heapvars
<1> QED
  BY <1>1, <1>2, <1>3 DEF CurOk

LEMMA ContainersStep == ContainersInv /\ [MCNext]_<<vars, listvars, heapvars, which>> => ContainersInv'
<1> SUFFICES ASSUME ContainersInv, [MCNext]_<<vars, listvars, heapvars, which>> PROVE ContainersInv'
  OBVIOUS
<1>1. [List!Next]_listvars /\ [Heap!Next]_heapvars
  BY ContainersSteps
<1>2. ListInv'
  BY <1>1, ListStep DEF ContainersInv
<1>3. HeapInv'
  BY <1>1, HeapStep DEF ContainersInv
<1>4. CurOk'
  BY <1>1, CurKept
<1> QED
  BY <1>2, <1>3, <1>4 DEF ContainersInv

\* Whatever is added, put off, deleted, fired and popped, in whatever order, of any
\* number of timers: the list's links lead by expiry through every timer once, both
\* ways, and in the heap's array no timer expires before its parent (lst_timer's
\* and time_heap's relinking, percolating and growing).
THEOREM StructuresHold == MCSpec => []Structures
<1>1. ContainersInv => Structures
  <2> SUFFICES ASSUME ContainersInv PROVE Structures
    OBVIOUS
  <2>1. List!WellLinked
    BY ListInvLinks DEF ContainersInv
  <2>2. Heap!HeapOrdered
    BY HeapInvOrders DEF ContainersInv
  <2> QED
    BY <2>1, <2>2 DEF Structures
<1> QED
  BY <1>1, ContainersInit, ContainersStep, PTL DEF MCSpec

\* The list and the heap implement the alarms: each timer's callback runs in the first
\* tick at or after its time, once, and never if it was deleted, also if it was put off
\* or deleted lazily (tick of lst_timer and of time_heap).
THEOREM OthersRefine == MCSpec => OthersImplementAlarms
<1>1. MCInit => List!Alarm!AInit /\ Heap!Alarm!AInit
  <2> SUFFICES ASSUME MCInit PROVE List!Alarm!AInit /\ Heap!Alarm!AInit
    OBVIOUS
  <2>1. List!Alarm!AInit
    BY ListInitRefines DEF MCInit
  <2>2. Heap!Alarm!AInit
    BY HeapInitRefines DEF MCInit
  <2> QED
    BY <2>1, <2>2
<1>2. ContainersInv /\ [MCNext]_<<vars, listvars, heapvars, which>> => [List!Alarm!ANext]_(List!Alarm!avars)
  <2> SUFFICES ASSUME ContainersInv, [MCNext]_<<vars, listvars, heapvars, which>>
               PROVE  [List!Alarm!ANext]_(List!Alarm!avars)
    OBVIOUS
  <2>1. [List!Next]_listvars
    BY ContainersSteps
  <2> QED
    BY <2>1, ListStepRefines DEF ContainersInv
<1>3. ContainersInv /\ [MCNext]_<<vars, listvars, heapvars, which>> => [Heap!Alarm!ANext]_(Heap!Alarm!avars)
  <2> SUFFICES ASSUME ContainersInv, [MCNext]_<<vars, listvars, heapvars, which>>
               PROVE  [Heap!Alarm!ANext]_(Heap!Alarm!avars)
    OBVIOUS
  <2>1. [Heap!Next]_heapvars
    BY ContainersSteps
  <2> QED
    BY <2>1, HeapStepRefines DEF ContainersInv
<1>4. MCSpec => []ContainersInv
  BY ContainersInit, ContainersStep, PTL DEF MCSpec
<1> QED
  BY <1>1, <1>2, <1>3, <1>4, PTL
     DEF MCSpec, OthersImplementAlarms, List!ImplementsAlarms, Heap!ImplementsAlarms, List!Alarm!ASpec, Heap!Alarm!ASpec
=============================================================================
