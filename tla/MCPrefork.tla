----------------------------- MODULE MCPrefork -----------------------------
(* The servers that make their children in advance: those of src/30chp, and *)
(* the process pools.  which, chosen in Init, says whose behaviour it is;   *)
(* the other's variables stay as they are at first.                         *)
EXTENDS Preforked
CONSTANTS PoolN, MaxClients, MaxDeaths

VARIABLES cgi, parent, m_stop, sigs, m_pid, counter, child, stop, term, note, edge,
          conns, progs, waiting, arrival, arrived, deaths, strays
VARIABLE which

Pool == INSTANCE ProcessPool WITH N <- PoolN

poolvars == <<cgi, parent, m_stop, sigs, m_pid, counter, child, stop, term, note, edge,
              conns, progs, waiting, arrival, arrived, deaths, strays>>

MCInit ==
  /\ which \in {"30chp", "pool"}
  /\ Init /\ (which = "pool" => kind = "serv02")
  /\ Pool!Init /\ (which = "30chp" => ~cgi)

MCNext ==
  \/ which = "30chp" /\ Next /\ UNCHANGED <<poolvars, which>>
  \/ which = "pool" /\ Pool!Next /\ UNCHANGED <<vars, which>>

\* Fairness and Pool!Fairness, each asked only of what runs.
MCSpec ==
  /\ MCInit /\ [][MCNext]_<<vars, poolvars, which>>
  /\ WF_vars(which = "30chp" /\ \E a \in Actors : Lock(a))
  /\ WF_vars(which = "30chp" /\ \E a \in Actors : Reap(a))
  /\ WF_vars(which = "30chp" /\ ExitAfterReap)
  /\ \A a \in Actors :
        /\ WF_vars(which = "30chp" /\ Accept(a))
        /\ WF_vars(which = "30chp" /\ Unlock(a))
        /\ WF_vars(which = "30chp" /\ Die(a))
  /\ WF_poolvars(which = "pool" /\ Pool!ParentReady)
  /\ WF_poolvars(which = "pool" /\ (Pool!Dispatch \/ Pool!DispatchCgi))
  /\ WF_poolvars(which = "pool" /\ Pool!ParentReaps)
  /\ WF_poolvars(which = "pool" /\ Pool!ParentKills)
  /\ WF_poolvars(which = "pool" /\ Pool!ParentExits)
  /\ \A i \in Pool!Children :
        /\ WF_poolvars(which = "pool" /\ Pool!ChildLoops(i))
        /\ SF_poolvars(which = "pool" /\ Pool!Handled(i))
        /\ SF_poolvars(which = "pool" /\ Pool!ChildStops(i))

\* Only what runs promises anything.
IsAccepted == which = "30chp" => ClientIsAccepted
SignalEnds ==
  /\ which = "30chp" => IntEndsAll
  /\ which = "pool" => Pool!TermStops
ArrivalServed == which = "pool" => Pool!ArrivalServed
OrphansEnd == which = "pool" => Pool!OrphansEnd
=============================================================================
