------------------------------ MODULE Handoff ------------------------------
(***************************************************************************)
(* What every accept-and-dispatch server of the repository promises about  *)
(* the place where one thread puts work and other threads take it: a FIFO  *)
(* of bounded length.  Nothing put in is taken twice, overtaken or lost    *)
(* while the process lives.  Serv08 (30chp/serv08.c, a ring of             *)
(* descriptors) and ThreadPool (15-3threadpool.h, a list and a semaphore)  *)
(* are each shown to implement it.                                         *)
(***************************************************************************)
EXTENDS Naturals, Sequences

CONSTANTS
  Items,      \* what is handed over
  Capacity    \* the most that may wait, a natural number

VARIABLES
  pending,    \* the items waiting, oldest first
  handed,     \* the items taken so far, in the order they were taken
  open        \* the process has not ended

hvars == <<pending, handed, open>>

HInit == pending = <<>> /\ handed = <<>> /\ open = TRUE

Offer(x) ==
  /\ open
  /\ Len(pending) < Capacity
  /\ pending' = Append(pending, x)
  /\ UNCHANGED <<handed, open>>

TakeOldest ==
  /\ open
  /\ pending # <<>>
  /\ handed' = Append(handed, Head(pending))
  /\ pending' = Tail(pending)
  /\ UNCHANGED open

\* The process ends and what was waiting goes with it.
Stop ==
  /\ open
  /\ open' = FALSE
  /\ pending' = <<>>
  /\ UNCHANGED handed

HNext == (\E x \in Items : Offer(x)) \/ TakeOldest \/ Stop

HSpec == HInit /\ [][HNext]_hvars
=============================================================================
