---------------------------- MODULE MCThreadPool ----------------------------
(* Two workers, one producer (the event loop of 15-6main.cpp), a list that  *)
(* holds two; five appends fill it, empty it and fill it again.             *)
EXTENDS ThreadPool, TLC
CONSTANTS w1, w2, loop, r1, r2

MCWorkers == {w1, w2}
MCProducers == {loop}
MCRequests == {r1, r2, NULL}
=============================================================================
