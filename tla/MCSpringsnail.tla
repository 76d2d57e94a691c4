--------------------------- MODULE MCSpringsnail ---------------------------
(* springsnail: one session of a child, SpringsnailRelay; a child's pool of   *)
(* connections, SpringsnailMgr; and the pool of processes, SpringsnailPool.   *)
(* which, chosen in Init, says whose behaviour it is; the others' variables   *)
(* stay as they are at first.                                                 *)
(*                                                                            *)
(* Relay: buffers and sockets of two bytes, so that a send is often partial   *)
(* and a buffer often full; three bytes each way refill each buffer.  Mgr:    *)
(* two connections to the server and batches of three events: both ends of a  *)
(* session and the pipe in one batch, so that a descriptor is closed and      *)
(* handed out again before its own event is handled.  Pool: two children with *)
(* a connection each.  Two clients come, so that arrivals and reports merge,  *)
(* and one child may crash at any point.                                      *)
EXTENDS SpringsnailRelay
CONSTANTS Conns, NFD, MAX_EVENT_NUMBER, NULL
CONSTANTS N, ConnsPerChild, MaxClients, MaxCrashes, MaxStale

\* SpringsnailMgr: there are descriptors for both ends of each session, and one more.
ASSUME MgrAssumption ==
  /\ IsFiniteSet(Conns) /\ NULL \notin Conns
  /\ NFD \in Nat /\ NFD > 2 * Cardinality(Conns)
  /\ MAX_EVENT_NUMBER \in Nat

\* SpringsnailPool.
ASSUME PoolAssumption ==
  /\ N \in Nat \ {0} /\ ConnsPerChild \in Nat
  /\ MaxClients \in Nat /\ MaxCrashes \in Nat /\ MaxStale \in Nat

VARIABLES openfds, registered, m_cltfd, m_srvfd, srv_closed, m_conns, m_used, m_freed, events
VARIABLES parent, m_stop, sigs, m_pid, m_busy_ratio, child, term, used, down, downEdge, up, upEdge,
          backlog, listenEdge, arrived, accepted, crashes
VARIABLE which

Mgr == INSTANCE SpringsnailMgr WITH m_srv_closed <- srv_closed, batch <- events
Pool == INSTANCE SpringsnailPool

mgrvars == <<openfds, registered, m_cltfd, m_srvfd, srv_closed, m_conns, m_used, m_freed, events>>
poolvars == <<parent, m_stop, sigs, m_pid, m_busy_ratio, child, term, used, down, downEdge, up, upEdge,
              backlog, listenEdge, arrived, accepted, crashes>>

MCBytes == [s \in Side |-> 3]
MCTalks == {"in turn", "until closed"}
MCAtOnce == {"at once"}

MCInit ==
  /\ which \in {"relay", "mgr", "pool"}
  /\ Init /\ (which # "relay" => talk = CHOOSE t \in TALKS : TRUE)
  /\ Mgr!Init /\ (which # "mgr" => openfds = {})
  /\ Pool!Init

MCNext ==
  \/ which = "relay" /\ Next /\ UNCHANGED <<mgrvars, poolvars, which>>
  \/ which = "mgr" /\ Mgr!Next /\ UNCHANGED <<vars, poolvars, which>>
  \/ which = "pool" /\ Pool!Next /\ UNCHANGED <<vars, mgrvars, which>>

\* A session in which nothing happens asks nothing of Fairness.
MCSpec ==
  /\ MCInit /\ [][MCNext]_<<vars, mgrvars, poolvars, which>> /\ Fairness
  /\ WF_poolvars(which = "pool" /\ Pool!ParentReady) /\ WF_poolvars(which = "pool" /\ Pool!ParentNotifies)
  /\ WF_poolvars(which = "pool" /\ Pool!ParentReaps) /\ WF_poolvars(which = "pool" /\ Pool!ParentKills)
  /\ WF_poolvars(which = "pool" /\ Pool!ParentExits)
  /\ \A i \in Pool!Children :
       /\ WF_poolvars(which = "pool" /\ Pool!ChildReady(i)) /\ WF_poolvars(which = "pool" /\ Pool!ChildAccepts(i))
       /\ WF_poolvars(which = "pool" /\ Pool!ChildStops(i)) /\ WF_poolvars(which = "pool" /\ Pool!ChildExits(i))

\* The parts' properties, under their names there.
OnePlace == Mgr!OnePlace
UsedIsOwn == Mgr!UsedIsOwn
NoFdLeak == Mgr!NoFdLeak
AcceptsAreTold == Pool!AcceptsAreTold
TermStops == Pool!TermStops
ArrivalWakes == Pool!ArrivalWakes

\* What the parent believes of its children is so: SpringsnailPool's ParentExitsLast and
\* PidsAreOwn.
ParentKnows == Pool!ParentExitsLast /\ Pool!PidsAreOwn
=============================================================================
