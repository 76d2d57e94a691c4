----------------------------- MODULE Chat_proofs -----------------------------
(***************************************************************************)
(* The chat servers, their clients, and a connect with a timeout: the      *)
(* tables stay true and nobody is passed over, for any numbers of pids,    *)
(* users, descriptors, lines and texts.                                    *)
(*                                                                         *)
(* ShmTalk: TableTrue says nothing once the server has stopped, and        *)
(* nothing of what children tell their parent; the invariant that is       *)
(* inductive does: what is on its way from a child is the index that it    *)
(* was made with.                                                          *)
(***************************************************************************)
EXTENDS MCChat, SequenceTheorems, TLAPS

Numbers ==
  /\ user_count \in 0 .. USER_LIMIT
  /\ users \in [0 .. USER_LIMIT -> Pids \union {Nobody}] /\ sub_process \in [Pids -> -1 .. USER_LIMIT - 1]
  /\ kid \in [Pids -> {"free", "start", "deaf", "loop", "zombie"}]
  /\ idx \in [Pids -> Nat]
  /\ to_parent \in [Pids -> Seq(Nat)] /\ to_kid \in [Pids -> Seq(Nat)]

\* users and sub_process are each other's inverse, and their users the children that
\* have not been waited for.
Indexed == \A i \in 0 .. user_count - 1 : users[i] \in Pids /\ sub_process[users[i]] = i
Waited == \A p \in Pids : kid[p] # "free" <=> p \in Users

\* A child tells its own index.
TellsOwn == \A p \in Pids : \A k \in DOMAIN to_parent[p] : to_parent[p][k] = idx[p]

\* Until a move, whoever is in the table has the segment of its entry, and is told of
\* others' only.
OwnSegment == ~moved => \A p \in Users : idx[p] = sub_process[p] /\ \A k \in DOMAIN to_kid[p] : to_kid[p][k] # idx[p]

\* waitpid is only called by a server that runs.
ReapingRuns == reaping => up

Inv == Numbers /\ Indexed /\ Waited /\ TellsOwn /\ OwnSegment /\ ReapingRuns

LEMMA InitInv == Init => Inv
<1> SUFFICES ASSUME Init PROVE Inv
  OBVIOUS
<1>1. Users = {} /\ \A i \in 0 .. user_count - 1 : FALSE
  BY DEF Init, Users
<1>2. <<>> \in Seq(Nat) /\ DOMAIN <<>> = {}
  OBVIOUS
<1>3. 0 \in 0 .. USER_LIMIT /\ -1 \in -1 .. USER_LIMIT - 1
  BY LimitAssumption
<1>4. Numbers
  BY <1>2, <1>3 DEF Init, Numbers
<1>5. Indexed /\ Waited /\ OwnSegment /\ ReapingRuns
  BY <1>1 DEF Init, Indexed, Waited, OwnSegment, ReapingRuns
<1>6. TellsOwn
  BY <1>2 DEF Init, TellsOwn
<1> QED
  BY <1>4, <1>5, <1>6 DEF Inv

\* The entry of a user, from either side.
LEMMA EntryOf ==
  ASSUME Inv, NEW p \in Users
  PROVE  p \in Pids /\ sub_process[p] \in 0 .. user_count - 1 /\ users[sub_process[p]] = p
BY DEF Inv, Indexed, Users

\* Two sequences put together by Append, or shortened by Tail.
LEMMA Appended ==
  ASSUME NEW s \in Seq(Nat), NEW n \in Nat
  PROVE  /\ Append(s, n) \in Seq(Nat)
         /\ \A k \in DOMAIN Append(s, n) : Append(s, n)[k] = n \/ (k \in DOMAIN s /\ Append(s, n)[k] = s[k])
<1>1. Append(s, n) \in Seq(Nat) /\ Len(Append(s, n)) = Len(s) + 1
  OBVIOUS
<1>2. DOMAIN Append(s, n) = 1 .. Len(s) + 1 /\ DOMAIN s = 1 .. Len(s)
  BY <1>1
<1> QED
  BY <1>1, <1>2

LEMMA Shortened ==
  ASSUME NEW s \in Seq(Nat), s # <<>>
  PROVE  /\ Tail(s) \in Seq(Nat) /\ Head(s) \in Nat /\ 1 \in DOMAIN s /\ Head(s) = s[1]
         /\ \A k \in DOMAIN Tail(s) : k + 1 \in DOMAIN s /\ Tail(s)[k] = s[k + 1]
<1>1. Tail(s) \in Seq(Nat) /\ Len(Tail(s)) = Len(s) - 1 /\ Len(s) \in Nat /\ Len(s) > 0
  OBVIOUS
<1>2. DOMAIN Tail(s) = 1 .. Len(s) - 1 /\ DOMAIN s = 1 .. Len(s)
  BY <1>1
<1> QED
  BY <1>1, <1>2

-----------------------------------------------------------------------------
\* A new child gets the first free entry.
LEMMA AcceptKeeps ==
  ASSUME Inv, NEW p \in Pids, Accept(p)
  PROVE  Inv'
<1>1. user_count \in 0 .. USER_LIMIT - 1 /\ user_count' = user_count + 1 /\ USER_LIMIT \in Nat
  BY LimitAssumption DEF Accept, Inv, Numbers
<1>2. Numbers'
  <2>1. <<>> \in Seq(Nat)
    OBVIOUS
  <2> QED
    BY <1>1, <2>1 DEF Accept, Inv, Numbers
<1>3. p \notin Users
  BY DEF Accept, Inv, Waited
<1>4. users'[user_count] = p /\ \A i \in 0 .. user_count - 1 : users'[i] = users[i]
  BY <1>1 DEF Accept, Inv, Numbers
<1>5. sub_process'[p] = user_count /\ \A q \in Pids \ {p} : sub_process'[q] = sub_process[q]
  BY DEF Accept, Inv, Numbers
<1>6. Users' = Users \union {p}
  BY <1>1, <1>4 DEF Users
<1>7. Indexed'
  <2> SUFFICES ASSUME NEW i \in 0 .. user_count' - 1 PROVE users'[i] \in Pids /\ sub_process'[users'[i]] = i
    BY DEF Indexed
  <2>1. CASE i = user_count
    BY <2>1, <1>4, <1>5
  <2>2. CASE i # user_count
    <3>1. i \in 0 .. user_count - 1
      BY <2>2, <1>1
    <3>2. users'[i] = users[i] /\ users[i] \in Pids /\ sub_process[users[i]] = i /\ users[i] \in Users
      BY <3>1, <1>4 DEF Inv, Indexed, Users
    <3> QED
      BY <3>2, <1>3, <1>5
  <2> QED
    BY <2>1, <2>2
<1>8. Waited'
  BY <1>6 DEF Accept, Inv, Numbers, Waited
<1>9. TellsOwn'
  <2>1. \A q \in Pids \ {p} : to_parent'[q] = to_parent[q] /\ idx'[q] = idx[q]
    BY DEF Accept, Inv, Numbers
  <2>2. DOMAIN to_parent'[p] = {}
    BY DEF Accept, Inv, Numbers
  <2> QED
    BY <2>1, <2>2 DEF Inv, TellsOwn
<1>10. OwnSegment'
  <2>1. idx'[p] = user_count /\ DOMAIN to_kid'[p] = {}
    BY DEF Accept, Inv, Numbers
  <2>2. \A q \in Users : idx'[q] = idx[q] /\ to_kid'[q] = to_kid[q] /\ sub_process'[q] = sub_process[q]
    BY <1>3, <1>5, EntryOf DEF Accept, Inv, Numbers
  <2>3. moved' = moved
    BY DEF Accept
  <2> QED
    BY <2>1, <2>2, <2>3, <1>5, <1>6 DEF Inv, OwnSegment
<1> QED
  BY <1>2, <1>7, <1>8, <1>9, <1>10 DEF Accept, Inv, ReapingRuns

\* A dead child's entry goes to the last user.
LEMMA WaitsKeeps ==
  ASSUME Inv, NEW p \in Pids, Waits(p)
  PROVE  Inv'
<1> DEFINE last == users[user_count - 1]
<1> DEFINE d == sub_process[p]
<1>1. p \in Users /\ d \in 0 .. user_count - 1 /\ users[d] = p
  BY EntryOf DEF Waits, Inv, Waited
<1>2. user_count \in 1 .. USER_LIMIT /\ user_count' = user_count - 1 /\ USER_LIMIT \in Nat
  BY <1>1, LimitAssumption DEF Waits, Deletes, Inv, Numbers
<1>3. last \in Users /\ last \in Pids /\ sub_process[last] = user_count - 1
  BY <1>2 DEF Inv, Indexed, Users
<1>4. /\ users' = [users EXCEPT ![d] = last]
      /\ sub_process' = [q \in Pids |-> IF q = last THEN d ELSE IF q = p THEN -1 ELSE sub_process[q]]
      /\ moved' = (moved \/ d # user_count - 1)
  BY DEF Waits, Deletes
<1>5. Numbers'
  <2>1. d \in -1 .. USER_LIMIT - 1 /\ -1 \in -1 .. USER_LIMIT - 1
    BY <1>1, <1>2
  <2>2. sub_process' \in [Pids -> -1 .. USER_LIMIT - 1]
    BY <1>4, <2>1 DEF Inv, Numbers
  <2>3. user_count' \in 0 .. USER_LIMIT /\ users' \in [0 .. USER_LIMIT -> Pids \union {Nobody}]
    <3>1. user_count - 1 \in 0 .. USER_LIMIT
      BY <1>2
    <3>2. last \in Pids \union {Nobody}
      BY <1>3
    <3>3. users' \in [0 .. USER_LIMIT -> Pids \union {Nobody}]
      BY <3>2, <1>4 DEF Inv, Numbers
    <3> QED
      BY <3>1, <3>3, <1>2
  <2>4. kid' \in [Pids -> {"free", "start", "deaf", "loop", "zombie"}] /\ UNCHANGED <<idx, to_parent, to_kid>>
    BY DEF Waits, mail, Inv, Numbers
  <2> QED
    BY <2>2, <2>3, <2>4 DEF Inv, Numbers
<1>6. \A i \in 0 .. user_count - 2 :
        users'[i] = (IF i = d THEN last ELSE users[i]) /\ users[i] \in Users /\ users[i] \in Pids /\ sub_process[users[i]] = i
  BY <1>1, <1>2, <1>4 DEF Inv, Numbers, Indexed, Users
<1>7. Indexed'
  <2> SUFFICES ASSUME NEW i \in 0 .. user_count' - 1 PROVE users'[i] \in Pids /\ sub_process'[users'[i]] = i
    BY DEF Indexed
  <2>1. i \in 0 .. user_count - 2
    BY <1>2
  <2>2. CASE i = d
    BY <2>1, <2>2, <1>3, <1>4, <1>6
  <2>3. CASE i # d
    <3>1. users[i] # last /\ users[i] # p
      BY <2>1, <2>3, <1>2, <1>3, <1>6
    <3> QED
      BY <2>1, <2>3, <3>1, <1>4, <1>6
  <2> QED
    BY <2>2, <2>3
<1>8. Users' = Users \ {p}
  <2>1. ASSUME NEW q \in Users' PROVE q \in Users \ {p}
    <3>1. PICK i \in 0 .. user_count - 2 : q = users'[i]
      BY <1>2 DEF Users
    <3>2. CASE i = d
      BY <3>1, <3>2, <1>1, <1>2, <1>3, <1>6
    <3>3. CASE i # d
      BY <3>1, <3>3, <1>6
    <3> QED
      BY <3>2, <3>3
  <2>2. ASSUME NEW q \in Users \ {p} PROVE q \in Users'
    <3>1. q \in Pids /\ sub_process[q] \in 0 .. user_count - 1 /\ users[sub_process[q]] = q
      BY EntryOf
    <3>2. sub_process[q] # d
      BY <3>1, <1>1
    <3>3. CASE sub_process[q] = user_count - 1
      <4>1. q = last /\ d \in 0 .. user_count - 2
        BY <3>1, <3>2, <3>3, <1>1, <1>2
      <4> QED
        BY <4>1, <1>2, <1>6 DEF Users
    <3>4. CASE sub_process[q] # user_count - 1
      <4>1. sub_process[q] \in 0 .. user_count - 2
        BY <3>1, <3>4, <1>2
      <4> QED
        BY <3>1, <3>2, <4>1, <1>2, <1>6 DEF Users
    <3> QED
      BY <3>3, <3>4
  <2> QED
    BY <2>1, <2>2
<1>9. Waited'
  BY <1>8 DEF Waits, Inv, Numbers, Waited
<1>10. TellsOwn'
  BY DEF Waits, mail, Inv, TellsOwn
<1>11. OwnSegment'
  <2> SUFFICES ASSUME ~moved', NEW q \in Users'
               PROVE  idx'[q] = sub_process'[q] /\ \A k \in DOMAIN to_kid'[q] : to_kid'[q][k] # idx'[q]
    BY DEF OwnSegment
  <2>1. ~moved /\ d = user_count - 1 /\ last = p
    BY <1>1, <1>4
  <2>2. q \in Users /\ q # p /\ q \in Pids
    BY <1>8, EntryOf
  <2>3. sub_process'[q] = sub_process[q]
    BY <2>1, <2>2, <1>4
  <2> QED
    BY <2>1, <2>2, <2>3 DEF Waits, mail, Inv, OwnSegment
<1> QED
  BY <1>5, <1>7, <1>9, <1>10, <1>11 DEF Waits, signals, Inv, ReapingRuns

\* What a child has told is passed to the others; it is the sender's index, and not theirs.
LEMMA RelayKeeps ==
  ASSUME Inv, NEW p \in Pids, Relay(p)
  PROVE  Inv'
<1>1. p \in Users /\ to_parent[p] \in Seq(Nat) /\ to_parent[p] # <<>>
  BY DEF Relay, Inv, Numbers
<1>2. /\ Tail(to_parent[p]) \in Seq(Nat) /\ Head(to_parent[p]) \in Nat /\ Head(to_parent[p]) = idx[p]
      /\ \A k \in DOMAIN Tail(to_parent[p]) : Tail(to_parent[p])[k] = idx[p]
  BY <1>1, Shortened DEF Inv, TellsOwn
<1>3. \A q \in Pids : Append(to_kid[q], Head(to_parent[p])) \in Seq(Nat)
  BY <1>2, Appended DEF Inv, Numbers
<1>4. Numbers'
  BY <1>2, <1>3 DEF Relay, table, kids, Inv, Numbers
<1>5. Users' = Users
  BY DEF Relay, table, Users
<1>6. TellsOwn'
  BY <1>2 DEF Relay, kids, Inv, Numbers, TellsOwn
<1>7. OwnSegment'
  <2>0. idx' = idx /\ sub_process' = sub_process /\ moved' = moved
    BY DEF Relay, kids, table
  <2> SUFFICES ASSUME ~moved, NEW q \in Users
               PROVE  idx[q] = sub_process[q] /\ \A k \in DOMAIN to_kid'[q] : to_kid'[q][k] # idx[q]
    BY <1>5, <2>0, Zenon DEF OwnSegment
  <2>1. q \in Pids /\ idx[q] = sub_process[q] /\ \A k \in DOMAIN to_kid[q] : to_kid[q][k] # idx[q]
    BY EntryOf DEF Inv, OwnSegment
  <2>2. CASE q = p
    BY <2>1, <2>2 DEF Relay, Inv, Numbers
  <2>3. CASE q # p
    <3>1. to_kid'[q] = Append(to_kid[q], idx[p])
      BY <2>1, <2>3, <1>2 DEF Relay
    <3>2. idx[p] # idx[q]
      BY <2>1, <2>3, <1>1, EntryOf DEF Inv, OwnSegment
    <3>3. to_kid[q] \in Seq(Nat) /\ idx[p] \in Nat
      BY <2>1 DEF Inv, Numbers
    <3> QED
      BY <2>1, <3>1, <3>2, <3>3, Appended
  <2> QED
    BY <2>2, <2>3
<1> QED
  BY <1>4, <1>5, <1>6, <1>7 DEF Relay, signals, table, kids, Inv, Indexed, Waited, ReapingRuns

\* The tables, and what the children know, stay; one of them may die or go on.
LEMMA QuietKeeps ==
  ASSUME Inv, UNCHANGED <<user_count, users, sub_process, idx, to_parent, moved>>,
         to_kid' \in [Pids -> Seq(Nat)],
         \A p \in Pids : \A k \in DOMAIN to_kid'[p] : \E l \in DOMAIN to_kid[p] : to_kid'[p][k] = to_kid[p][l],
         kid' \in [Pids -> {"free", "start", "deaf", "loop", "zombie"}],
         \A p \in Pids : kid'[p] = "free" <=> kid[p] = "free",
         ReapingRuns'
  PROVE  Inv'
<1>1. Users' = Users
  BY DEF Users
<1>2. Numbers' /\ Indexed' /\ TellsOwn'
  BY DEF Inv, Numbers, Indexed, TellsOwn
<1>3. Waited'
  BY <1>1 DEF Inv, Waited
<1>4. OwnSegment'
  BY <1>1, EntryOf DEF Inv, OwnSegment
<1> QED
  BY <1>2, <1>3, <1>4 DEF Inv

LEMMA StepInv == Inv /\ [Next]_vars => Inv'
<1> SUFFICES ASSUME Inv, [Next]_vars PROVE Inv'
  OBVIOUS
<1>0. /\ to_kid \in [Pids -> Seq(Nat)] /\ kid \in [Pids -> {"free", "start", "deaf", "loop", "zombie"}]
      /\ ReapingRuns
  BY DEF Inv, Numbers
<1>1. CASE Reap \/ Reaped
  BY <1>1, <1>0, QuietKeeps DEF Reap, Reaped, table, kids, mail, ReapingRuns
<1>2. CASE KillAll \/ Stop \/ Terminated
  BY <1>2, <1>0, QuietKeeps DEF KillAll, Stop, Terminated, signals, table, kids, mail, ReapingRuns
<1>3. ASSUME NEW p \in Pids, Accept(p) PROVE Inv'
  BY <1>3, AcceptKeeps
<1>4. ASSUME NEW p \in Pids, Waits(p) PROVE Inv'
  BY <1>4, WaitsKeeps
<1>5. ASSUME NEW p \in Pids, Relay(p) PROVE Inv'
  BY <1>5, RelayKeeps
<1>6. ASSUME NEW p \in Pids, Closes(p) \/ Ready(p) PROVE Inv'
  <2>1. kid[p] # "free" /\ \E s \in {"deaf", "loop"} : kid' = [kid EXCEPT ![p] = s]
    BY <1>6 DEF Closes, Ready, Becomes
  <2> QED
    BY <1>6, <2>1, <1>0, QuietKeeps DEF Closes, Ready, signals, table, mail, ReapingRuns
<1>7. ASSUME NEW p \in Pids, Reads(p) PROVE Inv'
  <2>1. /\ to_parent[p] \in Seq(Nat) /\ idx[p] \in Nat
        /\ to_parent' = [to_parent EXCEPT ![p] = Append(to_parent[p], idx[p])]
    BY <1>7 DEF Reads, Inv, Numbers
  <2>2. /\ Append(to_parent[p], idx[p]) \in Seq(Nat)
        /\ \A k \in DOMAIN Append(to_parent[p], idx[p]) : Append(to_parent[p], idx[p])[k] = idx[p]
    BY <2>1, Appended DEF Inv, TellsOwn
  <2>3. Numbers' /\ TellsOwn'
    BY <1>7, <2>1, <2>2 DEF Reads, table, kids, Inv, Numbers, TellsOwn
  <2>4. Users' = Users
    BY <1>7 DEF Reads, table, Users
  <2> QED
    BY <1>7, <2>3, <2>4 DEF Reads, signals, table, kids, Inv, Indexed, Waited, OwnSegment, ReapingRuns
<1>8. ASSUME NEW p \in Pids, Ends(p) PROVE Inv'
  BY <1>8, <1>0, QuietKeeps DEF Ends, signals, table, mail, ReapingRuns
<1>9. ASSUME NEW p \in Pids, Shows(p) PROVE Inv'
  <2>1. to_kid[p] \in Seq(Nat) /\ to_kid[p] # <<>> /\ to_kid' = [to_kid EXCEPT ![p] = Tail(to_kid[p])]
    BY <1>9, <1>0 DEF Shows
  <2>2. /\ to_kid' \in [Pids -> Seq(Nat)]
        /\ \A q \in Pids : \A k \in DOMAIN to_kid'[q] : \E l \in DOMAIN to_kid[q] : to_kid'[q][k] = to_kid[q][l]
    BY <2>1, <1>0, Shortened
  <2> QED
    BY <1>9, <2>2, <1>0, QuietKeeps DEF Shows, signals, table, kids, ReapingRuns
<1>10. ASSUME NEW p \in Pids, Exits(p) \/ Killed(p) PROVE Inv'
  <2>1. kid[p] # "free" /\ kid' = [kid EXCEPT ![p] = "zombie"]
    BY <1>10 DEF Exits, Killed, Alive, Died
  <2> QED
    BY <1>10, <2>1, <1>0, QuietKeeps DEF Exits, Killed, Died, table, mail, ReapingRuns
<1>11. CASE UNCHANGED vars
  BY <1>11, <1>0, QuietKeeps DEF vars, signals, table, kids, mail, ReapingRuns
<1> QED
  BY <1>1, <1>2, <1>3, <1>4, <1>5, <1>6, <1>7, <1>8, <1>9, <1>10, <1>11 DEF Next, Kid

\* The inductive invariant, for any number of pids, users and texts.
THEOREM InvHolds == Spec => []Inv
BY InitInv, StepInv, PTL DEF Spec

\* users and sub_process agree through every move, the children that have not been
\* waited for are those in the tables, and until a move nobody is shown his own text,
\* for any number of users.
THEOREM TableTrueHolds == Spec => []TableTrue
<1>1. Inv => TableTrue
  BY DEF Inv, Indexed, Waited, OwnSegment, TableTrue
<1> QED
  BY <1>1, InvHolds, PTL

\* The server's end is decided only when the tables are empty, and a child that comes
\* later is one of late until it has been waited for.
LEMMA NoChildStep == Inv /\ NoChildLeft /\ [Next]_vars => NoChildLeft'
<1> SUFFICES ASSUME Inv, NoChildLeft, [Next]_vars PROVE NoChildLeft'
  OBVIOUS
<1>1. kid \in [Pids -> {"free", "start", "deaf", "loop", "zombie"}] /\ user_count \in Nat
  BY LimitAssumption DEF Inv, Numbers
<1>2. user_count = 0 => \A p \in Pids : kid[p] = "free"
  BY DEF Inv, Waited, Users
<1>3. CASE Reap \/ Stop \/ Terminated \/ UNCHANGED vars
  BY <1>3 DEF Reap, Stop, Terminated, NoChildLeft, vars, signals, kids
<1>4. CASE Reaped \/ KillAll
  BY <1>2, <1>4 DEF Reaped, KillAll, NoChildLeft, kids
<1>5. ASSUME NEW p \in Pids, Accept(p) \/ Waits(p) PROVE NoChildLeft'
  BY <1>1, <1>5 DEF Accept, Waits, NoChildLeft, signals
<1>6. ASSUME NEW p \in Pids, Relay(p) \/ Reads(p) \/ Ends(p) \/ Shows(p) PROVE NoChildLeft'
  BY <1>6 DEF Relay, Reads, Ends, Shows, NoChildLeft, signals, kids
<1>7. ASSUME NEW p \in Pids, Closes(p) \/ Ready(p) \/ Exits(p) \/ Killed(p) PROVE NoChildLeft'
  <2>1. kid[p] # "free" /\ late' = late /\ stop_server' = stop_server
    BY <1>7 DEF Closes, Ready, Becomes, Exits, Killed, Alive, Died, signals
  <2>2. \A q \in Pids \ {p} : kid'[q] = kid[q]
    BY <1>1, <1>7 DEF Closes, Ready, Becomes, Exits, Killed, Died
  <2> QED
    BY <2>1, <2>2 DEF NoChildLeft
<1> QED
  BY <1>3, <1>4, <1>5, <1>6, <1>7 DEF Next, Kid

LEMMA NoChildLeftHolds == Spec => []NoChildLeft
<1>1. Init => NoChildLeft
  BY DEF Init, NoChildLeft
<1> QED
  BY <1>1, NoChildStep, InvHolds, PTL DEF Spec

-----------------------------------------------------------------------------
(* A connect with a timeout.  While connect_alarm is the handler the call is under *)
(* way, and the alarm is off before the caller's is put back.                      *)

Stages ==
  /\ how = "alarm" =>
       call_at \in {"start", "alarm", "connect", "waits", "interrupted", "alarm off", "restore", "returned", "failed"}
  /\ how = "select" => call_at \in {"start", "select", "look", "unsupported", "returned", "failed"}
  /\ how = "sndtimeo" => call_at \in {"start", "timed", "returned", "failed"}

CallInv ==
  /\ how \in {"alarm", "select", "sndtimeo"} /\ Stages
  /\ IF how = "alarm" /\ call_at \in {"alarm", "connect", "waits", "interrupted", "alarm off", "restore"}
     THEN handler = "connect_alarm"
     ELSE handler = "caller's"
  /\ call_at \in {"start", "look", "restore", "returned", "failed"} => timer # "ours"
  /\ call_at \in {"alarm off", "restore"} => sock \in {"connected", "closed"}
  /\ call_at = "look" /\ told => sock \in {"connected", "refused"}
  /\ call_at = "returned" => sock = "connected"
  /\ call_at = "failed" /\ how # "sndtimeo" => sock = "closed"

LEMMA CallStep == CallInv /\ [Call!Next]_(Call!vars) => CallInv'
<1> SUFFICES ASSUME CallInv, [Call!Next]_(Call!vars) PROVE CallInv'
  OBVIOUS
<1> USE DEF CallInv, Stages, Call!signals
<1>1. CASE Call!Answer
  BY <1>1 DEF Call!Answer
<1>2. CASE Call!Ring
  <2>1. how = "alarm" /\ timer' = "off" /\ UNCHANGED <<how, sock, handler, told>>
    BY <1>2 DEF Call!Ring
  <2>2. \/ call_at = "waits" /\ call_at' = "interrupted"
        \/ call_at' = call_at
    BY <1>2, <2>1 DEF Call!Ring
  <2> QED
    BY <2>1, <2>2
<1>3. CASE Call!SetHandler
  BY <1>3 DEF Call!SetHandler
<1>4. CASE Call!SetAlarm
  BY <1>4 DEF Call!SetAlarm
<1>5. CASE Call!Connect
  BY <1>5 DEF Call!Connect
<1>6. CASE Call!ConnectReturns
  BY <1>6 DEF Call!ConnectReturns
<1>7. CASE Call!AlarmOff
  BY <1>7 DEF Call!AlarmOff
<1>8. CASE Call!Restore
  BY <1>8 DEF Call!Restore
<1>9. CASE Call!Unblocked
  BY <1>9 DEF Call!Unblocked
<1>10. CASE Call!Select
  BY <1>10 DEF Call!Select
<1>11. CASE Call!NoEvent
  <2>1. call_at = "look" /\ sock' = "closed" /\ call_at' = "failed" /\ UNCHANGED <<how, timer, handler>>
    BY <1>11 DEF Call!NoEvent
  <2>2. how = "select" /\ handler = "caller's"
    BY <2>1
  <2> QED
    BY <2>1, <2>2
<1>14. CASE Call!GetError
  <2>1. call_at = "look" /\ sock \in {"connected", "refused"} /\ UNCHANGED <<how, timer, handler>>
    BY <1>14 DEF Call!GetError
  <2>2. \/ call_at' = "failed" /\ sock' = "closed"
        \/ call_at' = "returned" /\ sock' = "connected"
    BY <1>14, <2>1 DEF Call!GetError
  <2>3. how = "select" /\ handler = "caller's"
    BY <2>1
  <2> QED
    BY <2>1, <2>2, <2>3
<1>12. CASE Call!SendTimeout \/ Call!Timed
  BY <1>12 DEF Call!SendTimeout, Call!Timed
<1>13. CASE UNCHANGED Call!vars
  BY <1>13 DEF Call!vars
<1> QED
  BY <1>1, <1>2, <1>3, <1>4, <1>5, <1>6, <1>7, <1>8, <1>9, <1>10, <1>11, <1>12, <1>13, <1>14 DEF Call!Next

LEMMA CallInvHolds == Call!Spec => []CallInv
<1>1. Call!Init => CallInv
  BY DEF Call!Init, CallInv, Stages
<1> QED
  BY <1>1, CallStep, PTL DEF Call!Spec

LEMMA LateAnswerHolds == Call!Spec => []Call!LateAnswerIsNotTaken
<1>1. CallInv => Call!LateAnswerIsNotTaken
  BY DEF CallInv, Stages, Call!LateAnswerIsNotTaken
<1> QED
  BY <1>1, CallInvHolds, PTL
-----------------------------------------------------------------------------
(* The clients.  client_poll holds one line at a time, later than what the socket  *)
(* has been given and earlier than what waits; 9-6 has each line in one of three   *)
(* places, which follow each other.                                                *)

Ascending(s) == \A a, b \in 1 .. Len(s) : a < b => s[a] < s[b]

PollOrder ==
  /\ client_at # "pipe" /\ line \in 0 .. typed
  /\ Ascending(sent) /\ Ascending(stdin)
  /\ \A a \in 1 .. Len(sent) : sent[a] <= typed /\ (line # 0 => sent[a] < line)
  /\ \A b \in 1 .. Len(stdin) : stdin[b] \in 1 .. typed /\ line < stdin[b]
  /\ \A a \in 1 .. Len(sent), b \in 1 .. Len(stdin) : sent[a] < stdin[b]

\* What to listen to; and what is told to be there to read is still there.
PollListens ==
  /\ ~eof => (line = 0 <=> "in" \in interest)
  /\ client_at = "stdin" /\ "typed" \in revents => stdin # <<>> \/ eof

MytalkOrder ==
  /\ sent \o pipe \o stdin = [k \in 1 .. typed |-> k]
  /\ client_at # "pipe" => pipe = <<>>

ClientInv ==
  /\ app \in {"poll", "mytalk"} /\ typed \in Nat
  /\ stdin \in Seq(Nat) /\ pipe \in Seq(Nat) /\ sent \in Seq(Nat)
  /\ app = "poll" => PollOrder /\ PollListens
  /\ app = "mytalk" => MytalkOrder

\* Three sequences after each other.
LEMMA ThreeSeqs ==
  ASSUME NEW s \in Seq(Nat), NEW t \in Seq(Nat), NEW u \in Seq(Nat)
  PROVE  /\ s \o t \o u \in Seq(Nat) /\ Len(s \o t \o u) = Len(s) + Len(t) + Len(u)
         /\ \A k \in 1 .. Len(s) : (s \o t \o u)[k] = s[k]
         /\ (s \o t) \o <<>> \o u = s \o t \o u
         /\ \A x \in Nat : s \o t \o Append(u, x) = Append(s \o t \o u, x)
<1>1. s \o t \in Seq(Nat) /\ Len(s \o t) = Len(s) + Len(t)
  OBVIOUS
<1>2. s \o t \o u \in Seq(Nat) /\ Len(s \o t \o u) = Len(s) + Len(t) + Len(u)
  BY <1>1
<1>3. \A k \in 1 .. Len(s) : (s \o t \o u)[k] = s[k]
  BY <1>1
<1>4. (s \o t) \o <<>> = s \o t
  BY <1>1, ConcatEmptySeq
<1>5. ASSUME NEW x \in Nat PROVE s \o t \o Append(u, x) = Append(s \o t \o u, x)
  <2> DEFINE st == s \o t
  <2>1. st \in Seq(Nat)
    BY <1>1
  <2> HIDE DEF st
  <2>2. st \o Append(u, x) = Append(st \o u, x)
    BY <2>1
  <2> QED
    BY <2>2 DEF st
<1> QED
  BY <1>2, <1>3, <1>4, <1>5

\* A sequence cut in two.
LEMMA CutInTwo ==
  ASSUME NEW s \in Seq(Nat), NEW u \in Seq(Nat), NEW k \in 0 .. Len(u)
  PROVE  /\ SubSeq(u, 1, k) \in Seq(Nat) /\ SubSeq(u, k + 1, Len(u)) \in Seq(Nat)
         /\ s \o SubSeq(u, 1, k) \o SubSeq(u, k + 1, Len(u)) = s \o <<>> \o u
<1> DEFINE a == SubSeq(u, 1, k)
<1> DEFINE b == SubSeq(u, k + 1, Len(u))
<1>1. Len(u) \in Nat /\ k \in 1 - 1 .. Len(u) /\ Len(u) \in k .. Len(u) /\ 1 \in 1 .. Len(u) + 1
  OBVIOUS
<1>2. a \in Seq(Nat)
  <2>1. 1 \in Int /\ k \in Int /\ \A m \in 1 .. k : u[m] \in Nat
    BY <1>1
  <2> QED
    BY <2>1, SubSeqProperties
<1>3. b \in Seq(Nat)
  <2>1. k + 1 \in Int /\ Len(u) \in Int /\ \A m \in k + 1 .. Len(u) : u[m] \in Nat
    BY <1>1
  <2> QED
    BY <2>1, SubSeqProperties
<1>4. a \o b = u
  <2>1. SubSeq(u, 1, k) \o SubSeq(u, k + 1, Len(u)) = SubSeq(u, 1, Len(u))
    BY <1>1, ConcatAdjacentSubSeq
  <2> QED
    BY <2>1, SubSeqFull
<1> HIDE DEF a, b
<1>5. s \o a \o b = s \o (a \o b)
  BY <1>2, <1>3, ConcatAssociative, SMTT(30)
<1>6. s \o <<>> = s
  BY ConcatEmptySeq
<1>7. a \in Seq(Nat) /\ b \in Seq(Nat) /\ s \o a \o b = s \o <<>> \o u
  BY <1>2, <1>3, <1>4, <1>5, <1>6
<1> QED
  BY <1>7 DEF a, b

\* A line is typed.
LEMMA TypesKeeps == ClientInv /\ Client!Types => ClientInv'
<1> SUFFICES ASSUME ClientInv, Client!Types PROVE ClientInv'
  OBVIOUS
<1>1. /\ typed' = typed + 1 /\ typed \in Nat /\ stdin \in Seq(Nat) /\ sent \in Seq(Nat) /\ pipe \in Seq(Nat)
      /\ stdin' = Append(stdin, typed + 1)
      /\ UNCHANGED <<app, client_at, eof, revents, interest, line, pipe, sent>>
  BY DEF Client!Types, ClientInv
<1>2. /\ stdin' \in Seq(Nat) /\ Len(stdin') = Len(stdin) + 1 /\ Len(stdin) \in Nat /\ stdin'[Len(stdin) + 1] = typed + 1
      /\ \A b \in 1 .. Len(stdin) : stdin'[b] = stdin[b]
  BY <1>1
<1>3. \A b \in 1 .. Len(stdin') : b \in 1 .. Len(stdin) \/ b = Len(stdin) + 1
  BY <1>2
<1>4. ASSUME app = "poll" PROVE PollOrder' /\ PollListens'
  <2>1. PollOrder /\ PollListens
    BY <1>4 DEF ClientInv
  <2>2. Ascending(stdin')
    BY <1>1, <1>2, <1>3, <2>1 DEF PollOrder, Ascending
  <2>3. \A b \in 1 .. Len(stdin') : stdin'[b] \in 1 .. typed + 1 /\ line < stdin'[b]
    BY <1>1, <1>2, <1>3, <2>1 DEF PollOrder
  <2>4. \A a \in 1 .. Len(sent) : sent[a] <= typed + 1 /\ sent[a] < typed + 1
    <3>1. \A a \in 1 .. Len(sent) : sent[a] \in Nat
      BY <1>1
    <3> QED
      BY <1>1, <3>1, <2>1 DEF PollOrder
  <2>5. \A a \in 1 .. Len(sent), b \in 1 .. Len(stdin') : sent[a] < stdin'[b]
    BY <1>1, <1>2, <1>3, <2>1, <2>4 DEF PollOrder
  <2>6. PollOrder'
    BY <1>1, <2>1, <2>2, <2>3, <2>4, <2>5 DEF PollOrder, Ascending
  <2>7. stdin' # <<>>
    BY <1>2
  <2> QED
    BY <1>1, <2>1, <2>6, <2>7 DEF PollListens
<1>5. ASSUME app = "mytalk" PROVE MytalkOrder'
  <2>1. MytalkOrder
    BY <1>5 DEF ClientInv
  <2>2. sent \o pipe \o stdin' = Append(sent \o pipe \o stdin, typed + 1)
    BY <1>1, ThreeSeqs
  <2>3. Append([k \in 1 .. typed |-> k], typed + 1) = [k \in 1 .. typed + 1 |-> k]
    BY <1>1
  <2> QED
    BY <1>1, <2>1, <2>2, <2>3 DEF MytalkOrder
<1> QED
  BY <1>1, <1>2, <1>4, <1>5 DEF ClientInv

\* client_poll takes the line at the head of stdin, and has given up the one before.
LEMMA ReadStdinKeeps == ClientInv /\ Client!ReadStdin => ClientInv'
<1> SUFFICES ASSUME ClientInv, Client!ReadStdin PROVE ClientInv'
  OBVIOUS
<1>1. /\ app = "poll" /\ PollOrder /\ PollListens /\ client_at = "stdin" /\ client_at' = "socket"
      /\ typed \in Nat /\ stdin \in Seq(Nat) /\ sent \in Seq(Nat) /\ pipe \in Seq(Nat)
      /\ UNCHANGED <<app, typed, eof, revents, pipe, sent>>
  BY DEF Client!ReadStdin, ClientInv
<1>2. CASE "typed" \in revents /\ stdin # <<>>
  <2>1. /\ line' = stdin[1] /\ stdin' = Tail(stdin) /\ "in" \notin interest'
        /\ stdin' \in Seq(Nat) /\ 1 \in 1 .. Len(stdin) /\ Len(stdin') = Len(stdin) - 1 /\ Len(stdin) \in Nat
        /\ \A b \in 1 .. Len(stdin') : b + 1 \in 1 .. Len(stdin) /\ stdin'[b] = stdin[b + 1]
    <3>1. line' = Head(stdin) /\ stdin' = Tail(stdin) /\ interest' = (interest \ {"in"}) \union {"out"}
      BY <1>2 DEF Client!ReadStdin
    <3>2. "in" \notin interest'
      BY <3>1
    <3>3. /\ stdin' \in Seq(Nat) /\ Len(stdin') = Len(stdin) - 1 /\ Head(stdin) = stdin[1]
          /\ \A b \in 1 .. Len(stdin') : stdin'[b] = stdin[b + 1]
      BY <1>1, <1>2, <3>1, HeadTailProperties
    <3>4. Len(stdin) \in Nat /\ Len(stdin) # 0
      BY <1>1, <1>2
    <3>5. 1 \in 1 .. Len(stdin) /\ \A b \in 1 .. Len(stdin') : b + 1 \in 1 .. Len(stdin)
      BY <3>3, <3>4
    <3> QED
      BY <3>1, <3>2, <3>3, <3>4, <3>5
  <2>2. line' \in 1 .. typed /\ line < line'
    BY <2>1, <1>1 DEF PollOrder
  <2>3. Ascending(stdin')
    BY <1>1, <2>1 DEF PollOrder, Ascending
  <2>4. \A b \in 1 .. Len(stdin') : stdin'[b] \in 1 .. typed /\ line' < stdin'[b]
    <3> SUFFICES ASSUME NEW b \in 1 .. Len(stdin') PROVE stdin'[b] \in 1 .. typed /\ line' < stdin'[b]
      OBVIOUS
    <3>1. b + 1 \in 1 .. Len(stdin) /\ 1 < b + 1 /\ stdin'[b] = stdin[b + 1]
      BY <2>1
    <3>2. stdin[1] < stdin[b + 1]
      BY <1>1, <2>1, <3>1 DEF PollOrder, Ascending
    <3> QED
      BY <1>1, <2>1, <3>1, <3>2 DEF PollOrder
  <2>5. \A a \in 1 .. Len(sent) : sent[a] <= typed /\ sent[a] < line'
    BY <1>1, <2>1 DEF PollOrder
  <2>6. \A a \in 1 .. Len(sent), b \in 1 .. Len(stdin') : sent[a] < stdin'[b]
    BY <1>1, <2>1 DEF PollOrder
  <2>7. PollOrder'
    BY <1>1, <2>2, <2>3, <2>4, <2>5, <2>6 DEF PollOrder, Ascending
  <2>8. PollListens'
    BY <1>1, <2>1, <2>2 DEF PollListens
  <2> QED
    BY <1>1, <2>1, <2>7, <2>8 DEF ClientInv
<1>3. CASE "typed" \in revents /\ stdin = <<>>
  <2>1. line' = 0 /\ stdin' = stdin /\ eof
    BY <1>1, <1>3 DEF Client!ReadStdin, PollListens
  <2>2. \A b \in 1 .. Len(stdin) : FALSE
    BY <1>3
  <2>3. PollOrder'
    BY <1>1, <2>1, <2>2 DEF PollOrder, Ascending
  <2>4. PollListens'
    BY <1>1, <2>1 DEF PollListens
  <2> QED
    BY <1>1, <2>1, <2>3, <2>4 DEF ClientInv
<1>4. CASE "typed" \notin revents
  <2>1. UNCHANGED <<line, stdin, interest>>
    BY <1>4 DEF Client!ReadStdin
  <2> QED
    BY <1>1, <2>1 DEF ClientInv, PollOrder, PollListens, Ascending
<1> QED
  BY <1>2, <1>3, <1>4

\* The line that client_poll holds is given to the socket.
LEMMA SendLineKeeps == ClientInv /\ Client!SendLine => ClientInv'
<1> SUFFICES ASSUME ClientInv, Client!SendLine PROVE ClientInv'
  OBVIOUS
<1>1. /\ app = "poll" /\ PollOrder /\ PollListens /\ client_at' = "poll" /\ line # 0 /\ line' = 0
      /\ typed \in Nat /\ stdin \in Seq(Nat) /\ sent \in Seq(Nat) /\ pipe \in Seq(Nat)
      /\ sent' = Append(sent, line) /\ "in" \in interest'
      /\ UNCHANGED <<app, typed, stdin, eof, revents, pipe>>
  BY DEF Client!SendLine, Client!typist, ClientInv
<1>2. line \in 1 .. typed /\ line \in Nat
  BY <1>1 DEF PollOrder
<1>3. /\ sent' \in Seq(Nat) /\ Len(sent') = Len(sent) + 1 /\ Len(sent) \in Nat /\ sent'[Len(sent) + 1] = line
      /\ \A a \in 1 .. Len(sent) : sent'[a] = sent[a]
  BY <1>1, <1>2
<1>4. \A a \in 1 .. Len(sent') : a \in 1 .. Len(sent) \/ a = Len(sent) + 1
  BY <1>3
<1>5. Ascending(sent')
  BY <1>1, <1>3, <1>4 DEF PollOrder, Ascending
<1>6. \A a \in 1 .. Len(sent') : sent'[a] <= typed
  BY <1>1, <1>2, <1>3, <1>4 DEF PollOrder
<1>7. \A a \in 1 .. Len(sent'), b \in 1 .. Len(stdin) : sent'[a] < stdin[b]
  BY <1>1, <1>3, <1>4 DEF PollOrder
<1>8. \A b \in 1 .. Len(stdin) : stdin[b] \in 1 .. typed /\ 0 < stdin[b]
  BY <1>1 DEF PollOrder
<1>9. PollOrder'
  BY <1>1, <1>5, <1>6, <1>7, <1>8 DEF PollOrder, Ascending
<1>10. PollListens'
  BY <1>1 DEF PollListens
<1> QED
  BY <1>1, <1>3, <1>9, <1>10 DEF ClientInv

\* 9-6 moves lines into the pipe, and out of it.
LEMMA PipeKeeps == ClientInv /\ (Client!IntoPipe \/ Client!OutOfPipe) => ClientInv'
<1> SUFFICES ASSUME ClientInv, Client!IntoPipe \/ Client!OutOfPipe PROVE ClientInv'
  OBVIOUS
<1>1. /\ app = "mytalk" /\ app' = app /\ typed' = typed /\ MytalkOrder
      /\ typed \in Nat /\ stdin \in Seq(Nat) /\ sent \in Seq(Nat) /\ pipe \in Seq(Nat)
  BY DEF Client!IntoPipe, Client!OutOfPipe, Client!typist, ClientInv, PollOrder
<1>2. CASE Client!IntoPipe
  <2> DEFINE k == IF Len(stdin) < PipeRoom THEN Len(stdin) ELSE PipeRoom
  <2>1. k \in 0 .. Len(stdin)
    BY <1>1, ChatAssumption
  <2>2. pipe' = SubSeq(stdin, 1, k) /\ stdin' = SubSeq(stdin, k + 1, Len(stdin)) /\ sent' = sent
        /\ pipe = <<>> /\ client_at' = "pipe"
    BY <1>1, <1>2 DEF Client!IntoPipe, MytalkOrder
  <2> HIDE DEF k
  <2>3. /\ pipe' \in Seq(Nat) /\ stdin' \in Seq(Nat)
        /\ sent \o pipe' \o stdin' = sent \o pipe \o stdin
    BY <1>1, <2>1, <2>2, CutInTwo
  <2>4. MytalkOrder'
    BY <1>1, <2>2, <2>3 DEF MytalkOrder
  <2> QED
    BY <1>1, <2>2, <2>3, <2>4 DEF ClientInv
<1>3. CASE Client!OutOfPipe
  <2>1. sent' = sent \o pipe /\ pipe' = <<>> /\ stdin' = stdin
    BY <1>3 DEF Client!OutOfPipe, Client!typist
  <2>2. sent' \in Seq(Nat) /\ pipe' \in Seq(Nat) /\ sent' \o pipe' \o stdin' = sent \o pipe \o stdin
    BY <1>1, <2>1, ThreeSeqs
  <2>3. MytalkOrder'
    BY <1>1, <2>1, <2>2 DEF MytalkOrder
  <2> QED
    BY <1>1, <2>1, <2>2, <2>3 DEF ClientInv
<1> QED
  BY <1>2, <1>3

\* The other steps leave the lines where they are.
LEMMA ClientRestKeeps ==
  ASSUME ClientInv, UNCHANGED <<app, typed, stdin, line, pipe, sent, interest>>,
         eof => eof',
         client_at' = "pipe" <=> client_at = "pipe",
         client_at' = "stdin" /\ "typed" \in revents' => stdin # <<>> \/ eof' \/ app = "mytalk"
  PROVE  ClientInv'
<1>1. PollOrder /\ PollListens => PollOrder'
  BY DEF PollOrder, Ascending
<1>2. PollOrder /\ PollListens /\ app = "poll" => PollListens'
  BY DEF PollListens
<1>3. MytalkOrder => MytalkOrder'
  <2>1. sent' \o pipe' \o stdin' = sent \o pipe \o stdin /\ typed' = typed /\ pipe' = pipe
    OBVIOUS
  <2> QED
    BY <2>1, Zenon DEF MytalkOrder
<1> QED
  BY <1>1, <1>2, <1>3 DEF ClientInv

LEMMA ClientStep == ClientInv /\ [Client!Next]_(Client!vars) => ClientInv'
<1> SUFFICES ASSUME ClientInv, [Client!Next]_(Client!vars) PROVE ClientInv'
  OBVIOUS
<1>0. app = "poll" /\ client_at = "stdin" /\ "typed" \in revents => stdin # <<>> \/ eof
  BY DEF ClientInv, PollListens
<1>8. app \in {"poll", "mytalk"}
  BY DEF ClientInv
<1>1. CASE Client!Types
  BY <1>1, TypesKeeps
<1>2. CASE Client!TypesEnd \/ Client!ServerWrites \/ Client!ServerCloses \/ Client!Fills \/ UNCHANGED Client!vars
  BY <1>0, <1>2, <1>8, ClientRestKeeps
     DEF Client!TypesEnd, Client!ServerWrites, Client!ServerCloses, Client!Fills, Client!vars, Client!typist, Client!server
<1>3. CASE \/ Client!CreateAndConnect \/ Client!MytalkConnect \/ Client!SocketError \/ Client!ServerGone
           \/ Client!Shows \/ Client!NothingToSend \/ Client!MytalkGone \/ Client!MytalkShows
  <2>1. UNCHANGED <<app, typed, stdin, line, pipe, sent, interest, eof>> /\ client_at' # "pipe" /\ client_at # "pipe"
    BY <1>3 DEF Client!CreateAndConnect, Client!MytalkConnect, Client!SocketError, Client!ServerGone, Client!Shows,
                Client!NothingToSend, Client!MytalkGone, Client!MytalkShows, Client!typist
  <2>2. client_at' = "stdin" => app = "mytalk"
    BY <1>3 DEF Client!CreateAndConnect, Client!MytalkConnect, Client!SocketError, Client!ServerGone, Client!Shows,
                Client!NothingToSend, Client!MytalkGone, Client!MytalkShows
  <2> QED
    BY <2>1, <2>2, ClientRestKeeps
<1>4. CASE Client!Poll
  <2>1. /\ UNCHANGED <<app, typed, stdin, line, pipe, sent, interest, eof>>
        /\ revents' = Client!Revents /\ client_at' # "pipe" /\ client_at # "pipe"
    BY <1>4 DEF Client!Poll, Client!typist
  <2>2. "typed" \in Client!Revents /\ app = "poll" => stdin # <<>> \/ eof
    <3>1. "typed" \in Client!Revents => Client!Readable \/ "typed" \in {"in"} \/ "typed" \in {"out"} \/ "typed" \in {"rdhup"}
      BY DEF Client!Revents
    <3> QED
      BY <3>1 DEF Client!Readable
  <2> QED
    BY <1>8, <2>1, <2>2, ClientRestKeeps
<1>5. CASE Client!ReadStdin
  BY <1>5, ReadStdinKeeps
<1>6. CASE Client!SendLine
  BY <1>6, SendLineKeeps
<1>7. CASE Client!IntoPipe \/ Client!OutOfPipe
  BY <1>7, PipeKeeps
<1> QED
  BY <1>1, <1>2, <1>3, <1>4, <1>5, <1>6, <1>7 DEF Client!Next

LEMMA ClientInvHolds == Client!Spec => []ClientInv
<1>1. Client!Init => ClientInv
  <2> SUFFICES ASSUME Client!Init PROVE ClientInv
    OBVIOUS
  <2>1. /\ typed = 0 /\ stdin = <<>> /\ pipe = <<>> /\ sent = <<>> /\ line = 0 /\ "in" \in interest
        /\ client_at = "start" /\ app \in {"poll", "mytalk"}
    BY DEF Client!Init
  <2>2. <<>> \in Seq(Nat) /\ \A a \in 1 .. Len(<<>>) : FALSE
    OBVIOUS
  <2>3. PollOrder /\ PollListens
    BY <2>1, <2>2 DEF PollOrder, PollListens, Ascending
  <2>4. MytalkOrder
    <3>1. <<>> \o <<>> \o <<>> = <<>>
      BY ConcatEmptySeq, <2>2
    <3>2. <<>> = [k \in 1 .. 0 |-> k]
      OBVIOUS
    <3> QED
      BY <2>1, <3>1, <3>2 DEF MytalkOrder
  <2> QED
    BY <2>1, <2>2, <2>3, <2>4 DEF ClientInv
<1> QED
  BY <1>1, ClientStep, PTL DEF Client!Spec

LEMMA LinesInOrderHolds == Client!Spec => []Client!LinesInOrder
<1>1. ClientInv => Client!LinesInOrder
  <2> SUFFICES ASSUME ClientInv PROVE Client!LinesInOrder
    OBVIOUS
  <2>1. CASE app = "poll"
    <3>1. PollOrder /\ PollListens
      BY <2>1 DEF ClientInv
    <3> QED
      BY <2>1, <3>1 DEF PollOrder, PollListens, Ascending, Client!LinesInOrder
  <2>2. CASE app = "mytalk"
    <3>1. MytalkOrder /\ stdin \in Seq(Nat) /\ sent \in Seq(Nat) /\ pipe \in Seq(Nat) /\ typed \in Nat
      BY <2>2 DEF ClientInv
    <3>2. /\ Len(sent \o pipe \o stdin) = Len(sent) + Len(pipe) + Len(stdin)
          /\ \A k \in 1 .. Len(sent) : (sent \o pipe \o stdin)[k] = sent[k]
      BY <3>1, ThreeSeqs
    <3>3. Len(sent \o pipe \o stdin) = typed
      <4>1. Len([k \in 1 .. typed |-> k]) = typed
        BY <3>1
      <4> QED
        BY <3>1, <4>1 DEF MytalkOrder
    <3>4. Len(sent) \in Nat /\ Len(pipe) \in Nat /\ Len(stdin) \in Nat
      BY <3>1
    <3>5. \A k \in 1 .. Len(sent) : k \in 1 .. typed
      BY <3>1, <3>2, <3>3, <3>4
    <3>6. \A k \in 1 .. Len(sent) : sent[k] = k
      BY <3>1, <3>2, <3>5 DEF MytalkOrder
    <3>7. \A a, b \in 1 .. Len(sent) : a < b => sent[a] < sent[b]
      BY <3>6
    <3> QED
      BY <2>2, <3>1, <3>7 DEF MytalkOrder, Client!LinesInOrder
  <2> QED
    BY <2>1, <2>2 DEF ClientInv
<1> QED
  BY <1>1, ClientInvHolds, PTL
-----------------------------------------------------------------------------
(* The servers around poll.  An entry that is not read from has a text coming;     *)
(* 9-7 reads from all.  The entries that poll has told of are due until the pass   *)
(* comes to them, also when the last of them is moved.  A text that is coming is   *)
(* in the rb of who wrote it, which is another one's, until a copy overwrites it.  *)

Entries == [fd : Fds, events : SUBSET {"IN", "OUT"}, revents : SUBSET {"HUP", "IN", "OUT", "ERR"}]

IsDue(fd) == \E k \in 1 .. Len(pfd) : chat_at = "pass" /\ k >= chat_i /\ pfd[k].revents # {} /\ pfd[k].fd = fd

TextTypes ==
  /\ wb \in [Fds -> Fds \union {Chat!NULL}] /\ rb \in [Fds -> Nat]
  /\ said \in Seq(Fds) /\ overwritten \subseteq Fds

Right(e) ==
  Chat!Coming(e) => wb[e.fd] # e.fd /\ (e.fd \in overwritten \/ Chat!Newest(e.fd, rb[wb[e.fd]]))

ChatInv ==
  /\ chat_kind \in {"poll", "mytalk"} /\ chat_i \in Nat /\ pfd \in Seq(Entries) /\ TextTypes
  /\ \A k, l \in 1 .. Len(pfd) : pfd[k].fd = pfd[l].fd => k = l
  /\ due \subseteq Fds /\ \A fd \in Fds : fd \in due <=> IsDue(fd)
  /\ \A k \in 1 .. Len(pfd) : "IN" \in pfd[k].events \/ (chat_kind = "poll" /\ Chat!Coming(pfd[k]))
  /\ \A k \in 1 .. Len(pfd) : Right(pfd[k])

\* What an entry has coming is as right as that of the entry it was, where nobody has
\* written and its text is still the same, or is known to be overwritten.
LEMMA RightStays ==
  ASSUME NEW k, NEW l, Right(pfd[l]), pfd'[k].fd = pfd[l].fd,
         "OUT" \in pfd'[k].events => "OUT" \in pfd[l].events,
         said' = said, overwritten \subseteq overwritten', wb'[pfd[l].fd] = wb[pfd[l].fd],
         pfd[l].fd \in overwritten' \/ rb'[wb[pfd[l].fd]] = rb[wb[pfd[l].fd]]
  PROVE  Right(pfd[k])'
<1>1. CASE pfd[l].fd \in overwritten'
  BY <1>1 DEF Right, Chat!Coming
<1>2. CASE rb'[wb[pfd[l].fd]] = rb[wb[pfd[l].fd]]
  BY <1>2 DEF Right, Chat!Coming, Chat!Newest
<1> QED
  BY <1>1, <1>2

LEMMA NullIsNone == Chat!NULL \notin Fds
BY ChatAssumption DEF Chat!NULL

LEMMA EntryFacts ==
  ASSUME NEW s \in Seq(Entries)
  PROVE  /\ Len(s) \in Nat /\ DOMAIN s = 1 .. Len(s)
         /\ \A k \in 1 .. Len(s) : /\ s[k] \in Entries /\ s[k].fd \in Fds
                                   /\ s[k].events \subseteq {"IN", "OUT"}
                                   /\ s[k].revents \subseteq {"HUP", "IN", "OUT", "ERR"}
<1>1. Len(s) \in Nat /\ DOMAIN s = 1 .. Len(s) /\ \A k \in 1 .. Len(s) : s[k] \in Entries
  OBVIOUS
<1>2. \A e \in Entries : e.fd \in Fds /\ e.events \subseteq {"IN", "OUT"} /\ e.revents \subseteq {"HUP", "IN", "OUT", "ERR"}
  BY DEF Entries
<1> QED
  BY <1>1, <1>2

\* The table put together from the entries one has.
LEMMA TableOf ==
  ASSUME NEW m \in Nat, NEW s, s = [k \in 1 .. m |-> s[k]], \A k \in 1 .. m : s[k] \in Entries
  PROVE  s \in Seq(Entries) /\ Len(s) = m
OBVIOUS

\* The pass goes on to the next entry; what it leaves of the table is the order of the
\* entries, and what poll has told.
LEMMA LookedKeeps ==
  ASSUME ChatInv, chat_at = "pass", chat_at' = "pass", chat_i \in 1 .. Len(pfd),
         chat_i' = chat_i + 1, due' = due \ {pfd[chat_i].fd},
         pfd' \in Seq(Entries), Len(pfd') = Len(pfd),
         \A k \in 1 .. Len(pfd) : pfd'[k].fd = pfd[k].fd /\ pfd'[k].revents = pfd[k].revents
  PROVE  /\ chat_i' \in Nat
         /\ \A k, l \in 1 .. Len(pfd') : pfd'[k].fd = pfd'[l].fd => k = l
         /\ due' \subseteq Fds /\ \A fd \in Fds : fd \in due' <=> IsDue(fd)'
<1>1. /\ Len(pfd) \in Nat /\ chat_i \in Nat /\ pfd \in Seq(Entries)
      /\ \A k, l \in 1 .. Len(pfd) : pfd[k].fd = pfd[l].fd => k = l
      /\ due \subseteq Fds
  BY DEF ChatInv
<1>2. ASSUME NEW fd \in Fds, fd \in due' PROVE IsDue(fd)'
  <2>1. PICK k \in 1 .. Len(pfd) : k >= chat_i /\ pfd[k].revents # {} /\ pfd[k].fd = fd
    BY <1>2 DEF ChatInv, IsDue
  <2>2. k # chat_i
    BY <1>2, <2>1
  <2>3. k >= chat_i + 1
    BY <1>1, <2>1, <2>2
  <2> QED
    BY <2>1, <2>3 DEF IsDue
<1>3. ASSUME NEW fd \in Fds, IsDue(fd)' PROVE fd \in due'
  <2>1. PICK k \in 1 .. Len(pfd) : k >= chat_i + 1 /\ pfd[k].revents # {} /\ pfd[k].fd = fd
    BY <1>3 DEF IsDue
  <2>2. k >= chat_i /\ k # chat_i
    BY <1>1, <2>1
  <2>3. fd \in due
    BY <2>1, <2>2 DEF ChatInv, IsDue
  <2>4. fd # pfd[chat_i].fd
    BY <1>1, <2>1, <2>2
  <2> QED
    BY <2>3, <2>4
<1> QED
  BY <1>1, <1>2, <1>3

\* The last entry is moved into the place of one that is closed.
LEMMA ReplacedKeeps ==
  ASSUME ChatInv, NEW texts_in, texts_in = rb \/ texts_in = [rb EXCEPT ![pfd[chat_i].fd] = 0],
         Chat!Replaced(texts_in), chat_at = "pass", chat_at' = "pass", chat_i \in 1 .. Len(pfd),
         chat_i' = chat_i, chat_kind' = chat_kind, said' = said
  PROVE  ChatInv'
<1> DEFINE m == Len(pfd)
<1> DEFINE gone == pfd[chat_i].fd
<1>1. /\ m \in Nat /\ chat_i \in 1 .. m /\ m \in 1 .. m /\ pfd \in Seq(Entries) /\ TextTypes
      /\ \A k \in 1 .. m : pfd[k] \in Entries /\ pfd[k].fd \in Fds
      /\ \A k, l \in 1 .. m : pfd[k].fd = pfd[l].fd => k = l
  BY EntryFacts DEF ChatInv
<1>2. /\ wb' = [wb EXCEPT ![gone] = wb[pfd[m].fd]]
      /\ rb' = [texts_in EXCEPT ![gone] = texts_in[pfd[m].fd]]
      /\ overwritten' = overwritten \union {c \in Fds : wb[c] = gone /\ rb'[gone] # rb[gone]}
      /\ pfd' = SubSeq([pfd EXCEPT ![chat_i] = pfd[m]], 1, m - 1)
      /\ due' = due \ {gone}
  BY DEF Chat!Replaced, Chat!n
<1>3. /\ pfd' \in Seq(Entries) /\ Len(pfd') = m - 1
      /\ \A k \in 1 .. m - 1 : pfd'[k] = IF k = chat_i THEN pfd[m] ELSE pfd[k]
  <2> DEFINE t == [pfd EXCEPT ![chat_i] = pfd[m]]
  <2>1. t \in Seq(Entries) /\ Len(t) = m /\ \A k \in 1 .. m : t[k] = IF k = chat_i THEN pfd[m] ELSE pfd[k]
    BY <1>1, ExceptSeq
  <2> HIDE DEF t
  <2>2. \A k \in 1 .. m - 1 : t[k] \in Entries
    BY <1>1, <2>1
  <2>3. /\ SubSeq(t, 1, m - 1) \in Seq(Entries)
        /\ Len(SubSeq(t, 1, m - 1)) = IF 1 <= m - 1 THEN m - 1 - 1 + 1 ELSE 0
        /\ \A k \in 1 .. m - 1 - 1 + 1 : SubSeq(t, 1, m - 1)[k] = t[1 + k - 1]
    BY <1>1, <2>2, SubSeqProperties
  <2>4. pfd' = SubSeq(t, 1, m - 1)
    BY <1>2 DEF t
  <2>5. Len(pfd') = m - 1
    <3>1. m \in Nat /\ m >= 1
      BY <1>1
    <3>2. \A x \in Nat : x >= 1 => (IF 1 <= x - 1 THEN x - 1 - 1 + 1 ELSE 0) = x - 1
      OBVIOUS
    <3> QED
      BY <2>3, <2>4, <3>1, <3>2
  <2>6. ASSUME NEW k \in 1 .. m - 1 PROVE pfd'[k] = IF k = chat_i THEN pfd[m] ELSE pfd[k]
    <3>1. k \in 1 .. m - 1 - 1 + 1 /\ 1 + k - 1 = k /\ k \in 1 .. m
      BY <1>1
    <3> QED
      BY <2>1, <2>3, <2>4, <3>1
  <2> QED
    BY <2>3, <2>4, <2>5, <2>6
<1> HIDE DEF m, gone
<1>4. \A k \in 1 .. m - 1 : k \in 1 .. m /\ k # m
  BY <1>1
\* Who has entry k now, and where he was before.
<1>5. \A k \in 1 .. m - 1 : \E l \in 1 .. m : /\ pfd'[k] = pfd[l] /\ l # chat_i /\ (l = k \/ (l = m /\ k = chat_i))
  <2> SUFFICES ASSUME NEW k \in 1 .. m - 1
               PROVE  \E l \in 1 .. m : pfd'[k] = pfd[l] /\ l # chat_i /\ (l = k \/ (l = m /\ k = chat_i))
    OBVIOUS
  <2>1. CASE k = chat_i
    BY <1>1, <1>3, <1>4, <2>1
  <2>2. CASE k # chat_i
    BY <1>1, <1>3, <1>4, <2>2
  <2> QED
    BY <2>1, <2>2
<1>6. \A l \in 1 .. m : l # chat_i => pfd[l].fd # gone
  BY <1>1 DEF gone
<1>7. ASSUME NEW k \in 1 .. m - 1, NEW l \in 1 .. m - 1, pfd'[k].fd = pfd'[l].fd PROVE k = l
  <2>1. PICK a \in 1 .. m : pfd'[k] = pfd[a] /\ a # chat_i /\ (a = k \/ (a = m /\ k = chat_i))
    BY <1>5
  <2>2. PICK b \in 1 .. m : pfd'[l] = pfd[b] /\ b # chat_i /\ (b = l \/ (b = m /\ l = chat_i))
    BY <1>5
  <2>3. a = b
    BY <1>1, <1>7, <2>1, <2>2
  <2> QED
    BY <1>4, <2>1, <2>2, <2>3
\* Of all the texts only that of the closed entry can have changed.
<1>13. TextTypes' /\ \A c \in Fds \ {gone} : wb'[c] = wb[c] /\ rb'[c] = rb[c]
  <2>1. gone \in Fds /\ pfd[m].fd \in Fds
    BY <1>1 DEF gone
  <2>2. texts_in \in [Fds -> Nat] /\ \A c \in Fds \ {gone} : texts_in[c] = rb[c]
    BY <1>1, <2>1 DEF TextTypes, gone
  <2> QED
    BY <1>1, <1>2, <2>1, <2>2 DEF TextTypes
<1>14. \A k \in 1 .. m - 1 : /\ "IN" \in pfd'[k].events \/ (chat_kind' = "poll" /\ Chat!Coming(pfd[k])')
                            /\ Right(pfd[k])'
  <2> SUFFICES ASSUME NEW k \in 1 .. m - 1
               PROVE  /\ "IN" \in pfd'[k].events \/ (chat_kind' = "poll" /\ Chat!Coming(pfd[k])')
                      /\ Right(pfd[k])'
    OBVIOUS
  <2>1. PICK l \in 1 .. m : pfd'[k] = pfd[l] /\ l # chat_i
    BY <1>5
  <2> DEFINE f == pfd[l].fd
  <2>2. f \in Fds \ {gone} /\ wb'[f] = wb[f]
    BY <1>1, <1>6, <1>13, <2>1
  <2>3. ("IN" \in pfd[l].events \/ (chat_kind = "poll" /\ Chat!Coming(pfd[l]))) /\ Right(pfd[l])
    BY DEF ChatInv, m
  <2>4. Chat!Coming(pfd[k])' <=> Chat!Coming(pfd[l])
    BY <2>1, <2>2 DEF Chat!Coming, Chat!NULL
  <2>5. Right(pfd[k])'
    <3>1. CASE Chat!Coming(pfd[l])
      <4>1. wb[f] \in Fds
        BY <1>1, <2>2, <3>1 DEF Chat!Coming, TextTypes
      <4>2. f \in overwritten' \/ rb'[wb[f]] = rb[wb[f]]
        BY <1>2, <1>13, <2>2, <4>1
      <4>3. overwritten \subseteq overwritten'
        BY <1>2
      <4> QED
        BY <2>1, <2>2, <2>3, <4>2, <4>3, RightStays
    <3>2. CASE ~Chat!Coming(pfd[l])
      BY <2>4, <3>2 DEF Right
    <3> QED
      BY <3>1, <3>2
  <2> QED
    BY <2>1, <2>3, <2>4, <2>5
<1>9. ASSUME NEW fd \in Fds, fd \in due' PROVE IsDue(fd)'
  <2>1. fd \in due /\ fd # gone
    BY <1>2, <1>9
  <2>2. PICK k \in 1 .. m : k >= chat_i /\ pfd[k].revents # {} /\ pfd[k].fd = fd
    BY <2>1 DEF ChatInv, IsDue, m
  <2>3. k # chat_i
    BY <2>1, <2>2 DEF gone
  <2>4. CASE k = m
    <3>1. chat_i \in 1 .. m - 1 /\ chat_i >= chat_i
      BY <1>1, <2>3, <2>4
    <3>2. pfd'[chat_i] = pfd[k]
      BY <1>3, <2>4, <3>1
    <3> QED
      BY <1>3, <2>2, <3>1, <3>2 DEF IsDue
  <2>5. CASE k # m
    <3>1. k \in 1 .. m - 1
      BY <1>1, <2>2, <2>5
    <3>2. pfd'[k] = pfd[k]
      BY <1>3, <2>3, <3>1
    <3> QED
      BY <1>3, <2>2, <3>1, <3>2 DEF IsDue
  <2> QED
    BY <2>4, <2>5
<1>10. ASSUME NEW fd \in Fds, IsDue(fd)' PROVE fd \in due'
  <2>1. PICK k \in 1 .. m - 1 : k >= chat_i /\ pfd'[k].revents # {} /\ pfd'[k].fd = fd
    BY <1>3, <1>10 DEF IsDue
  <2>2. PICK l \in 1 .. m : pfd'[k] = pfd[l] /\ l # chat_i /\ (l = k \/ (l = m /\ k = chat_i))
    BY <1>5
  <2>3. l >= chat_i
    BY <1>1, <2>1, <2>2
  <2>4. fd \in due
    BY <2>1, <2>2, <2>3 DEF ChatInv, IsDue, m
  <2> QED
    BY <1>2, <1>6, <2>1, <2>2, <2>4
<1>11. chat_kind' \in {"poll", "mytalk"} /\ chat_i' \in Nat /\ due' \subseteq Fds
  BY <1>1, <1>2 DEF ChatInv
<1>12. Len(pfd') = m - 1 /\ pfd' \in Seq(Entries)
  BY <1>3
<1> QED
  BY <1>7, <1>9, <1>10, <1>11, <1>12, <1>13, <1>14 DEF ChatInv

\* A text: all the others have it coming, and whoever wrote it keeps what he has coming.
LEMMA BroadcastKeeps ==
  ASSUME ChatInv, NEW ev \in SUBSET {"IN", "OUT"}, Chat!Broadcast(ev), chat_at = "pass", chat_i \in 1 .. Len(pfd),
         "OUT" \in ev, "IN" \in ev \/ chat_kind = "poll"
  PROVE  ChatInv'
<1> DEFINE m == Len(pfd)
<1> DEFINE writer == pfd[chat_i].fd
<1>1. /\ m \in Nat /\ chat_i \in 1 .. m /\ pfd \in Seq(Entries) /\ TextTypes
      /\ \A k \in 1 .. m : pfd[k] \in Entries /\ pfd[k].fd \in Fds
      /\ \A k, l \in 1 .. m : pfd[k].fd = pfd[l].fd => k = l
  BY EntryFacts DEF ChatInv
<1>2. /\ wb' = [c \in Fds |-> IF c \in Chat!Open \ {writer} THEN writer ELSE wb[c]]
      /\ said' = Append(said, writer) /\ rb' = [rb EXCEPT ![writer] = Len(said')]
      /\ overwritten' = (overwritten \union {c \in Fds : wb[c] = writer}) \ (Chat!Open \ {writer})
      /\ pfd' = [k \in 1 .. m |-> IF k = chat_i THEN pfd[k] ELSE [pfd[k] EXCEPT !.events = ev]]
      /\ chat_i' = chat_i + 1 /\ due' = due \ {pfd[chat_i].fd} /\ UNCHANGED <<chat_kind, chat_at>>
  BY DEF Chat!Broadcast, Chat!Looked, Chat!n
<1>3. \A k \in 1 .. m : /\ pfd'[k] \in Entries /\ pfd'[k].fd = pfd[k].fd /\ pfd'[k].revents = pfd[k].revents
                        /\ pfd'[k].events = IF k = chat_i THEN pfd[k].events ELSE ev
  <2> SUFFICES ASSUME NEW k \in 1 .. m
               PROVE  /\ pfd'[k] \in Entries /\ pfd'[k].fd = pfd[k].fd /\ pfd'[k].revents = pfd[k].revents
                      /\ pfd'[k].events = IF k = chat_i THEN pfd[k].events ELSE ev
    OBVIOUS
  <2>1. pfd'[k] = IF k = chat_i THEN pfd[k] ELSE [pfd[k] EXCEPT !.events = ev]
    BY <1>2
  <2>2. pfd[k] \in Entries
    BY <1>1
  <2> QED
    BY <2>1, <2>2 DEF Entries
<1>4. pfd' \in Seq(Entries) /\ Len(pfd') = m
  BY <1>1, <1>2, <1>3
<1>5. chat_at' = "pass" /\ Len(pfd') = Len(pfd)
  BY <1>2, <1>4
<1>6. /\ chat_i' \in Nat
      /\ \A k, l \in 1 .. Len(pfd') : pfd'[k].fd = pfd'[l].fd => k = l
      /\ due' \subseteq Fds /\ \A fd \in Fds : fd \in due' <=> IsDue(fd)'
  BY <1>2, <1>3, <1>4, <1>5, LookedKeeps
<1>7. \A k \in 1 .. m : k # chat_i => pfd[k].fd \in Chat!Open \ {writer}
  BY <1>1 DEF Chat!Open, Chat!n
<1>8. writer \in Fds
  BY <1>1
<1> HIDE DEF writer
<1>9. /\ Len(said) \in Nat /\ said' \in Seq(Fds) /\ Len(said') = Len(said) + 1 /\ DOMAIN said' = 1 .. Len(said) + 1
      /\ DOMAIN said = 1 .. Len(said)
      /\ said'[Len(said) + 1] = writer /\ \A u \in 1 .. Len(said) : said'[u] = said[u]
  BY <1>1, <1>2, <1>8 DEF TextTypes
<1>10. TextTypes'
  <2>1. rb' \in [Fds -> Nat]
    BY <1>1, <1>2, <1>9 DEF TextTypes
  <2>2. wb' \in [Fds -> Fds \union {Chat!NULL}]
    BY <1>1, <1>2, <1>8 DEF TextTypes
  <2>3. overwritten' \subseteq Fds
    BY <1>1, <1>2 DEF TextTypes
  <2> QED
    BY <1>9, <2>1, <2>2, <2>3 DEF TextTypes, Chat!NULL
<1>11. \A k \in 1 .. m : /\ "IN" \in pfd'[k].events \/ (chat_kind' = "poll" /\ Chat!Coming(pfd[k])')
                        /\ Right(pfd[k])'
  <2> SUFFICES ASSUME NEW k \in 1 .. m
               PROVE  ("IN" \in pfd'[k].events \/ (chat_kind = "poll" /\ Chat!Coming(pfd[k])')) /\ Right(pfd[k])'
    BY <1>2
  <2> DEFINE f == pfd[k].fd
  <2>1. f \in Fds /\ pfd'[k].fd = f
    BY <1>1, <1>3
  <2>2. ("IN" \in pfd[k].events \/ (chat_kind = "poll" /\ Chat!Coming(pfd[k]))) /\ Right(pfd[k])
    BY DEF ChatInv
  <2>3. CASE k = chat_i
    <3>1. f = writer /\ wb'[f] = wb[f] /\ pfd'[k] = pfd[k]
      BY <1>2, <2>1, <2>3 DEF writer
    <3>2. Chat!Coming(pfd[k])' <=> Chat!Coming(pfd[k])
      BY <3>1 DEF Chat!Coming, Chat!NULL
    <3>3. ASSUME Chat!Coming(pfd[k]) PROVE Right(pfd[k])'
      <4>1. wb[f] # writer /\ wb[f] \in Fds /\ (f \in overwritten \/ Chat!Newest(f, rb[wb[f]]))
        BY <1>1, <2>1, <2>2, <3>1, <3>3 DEF Right, TextTypes, Chat!Coming
      <4>2. rb'[wb[f]] = rb[wb[f]]
        BY <1>1, <1>2, <1>8, <4>1 DEF TextTypes
      <4>3. CASE f \in overwritten
        BY <1>2, <3>1, <4>1, <4>3 DEF Right
      <4>4. CASE Chat!Newest(f, rb[wb[f]])
        <5> DEFINE x == rb[wb[f]]
        <5>1. x \in 1 .. Len(said) /\ said[x] # f /\ \A u \in x + 1 .. Len(said) : said[u] = f
          BY <1>9, <4>4 DEF Chat!Newest
        <5>2. x \in DOMAIN said' /\ said'[x] # f
          BY <1>9, <5>1
        <5>3. \A u \in x + 1 .. Len(said') : said'[u] = f
          <6> SUFFICES ASSUME NEW u \in x + 1 .. Len(said) + 1 PROVE said'[u] = f
            BY <1>9
          <6>1. u = Len(said) + 1 \/ (u \in x + 1 .. Len(said) /\ u \in 1 .. Len(said))
            BY <1>9, <5>1
          <6> QED
            BY <1>9, <3>1, <5>1, <6>1
        <5> QED
          BY <3>1, <4>1, <4>2, <5>2, <5>3 DEF Right, Chat!Newest
      <4> QED
        BY <4>1, <4>3, <4>4
    <3> QED
      BY <2>2, <3>1, <3>2, <3>3 DEF Right
  <2>4. CASE k # chat_i
    <3>1. f \in Chat!Open \ {writer} /\ f # writer
      BY <1>7, <2>4
    <3>2. wb'[f] = writer /\ pfd'[k].events = ev
      BY <1>2, <1>3, <2>1, <2>4, <3>1
    <3>3. "IN" \in ev \/ (chat_kind = "poll" /\ Chat!Coming(pfd[k])')
      <4>1. "OUT" \in pfd'[k].events /\ wb'[pfd'[k].fd] # Chat!NULL
        BY <1>8, <2>1, <3>2, NullIsNone
      <4> QED
        BY <4>1 DEF Chat!Coming, Chat!NULL
    <3>4. rb'[writer] = Len(said) + 1
      BY <1>1, <1>2, <1>8, <1>9 DEF TextTypes
    <3>5. rb'[wb'[pfd'[k].fd]] = Len(said) + 1 /\ pfd'[k].fd # wb'[pfd'[k].fd]
      BY <2>1, <3>1, <3>2, <3>4
    <3>6. /\ Len(said) + 1 \in DOMAIN said' /\ said'[Len(said) + 1] # pfd'[k].fd
          /\ \A u \in (Len(said) + 1) + 1 .. Len(said') : said'[u] = pfd'[k].fd
      <4>1. \A u \in (Len(said) + 1) + 1 .. Len(said') : FALSE
        BY <1>9
      <4>2. Len(said) + 1 \in 1 .. Len(said) + 1
        BY <1>9
      <4> QED
        BY <1>9, <2>1, <3>1, <4>1, <4>2
    <3>7. Right(pfd[k])'
      BY <3>5, <3>6 DEF Right, Chat!Newest
    <3> QED
      BY <3>2, <3>3, <3>7
  <2> QED
    BY <2>3, <2>4
<1> HIDE DEF m
<1> QED
  BY <1>2, <1>4, <1>5, <1>6, <1>10, <1>11 DEF ChatInv, m

\* A writable entry gets its text, if there is one.
LEMMA SendOutKeeps ==
  ASSUME ChatInv, Chat!SendOut \/ Chat!MytalkSendOut
  PROVE  ChatInv'
<1> DEFINE m == Len(pfd)
<1>1. /\ m \in Nat /\ chat_i \in 1 .. m /\ pfd \in Seq(Entries) /\ TextTypes
      /\ \A k \in 1 .. m : pfd[k] \in Entries /\ pfd[k].fd \in Fds
      /\ \A k, l \in 1 .. m : pfd[k].fd = pfd[l].fd => k = l
  BY EntryFacts DEF ChatInv, Chat!SendOut, Chat!MytalkSendOut, Chat!Writable, Chat!At, Chat!n
<1>2. /\ chat_at = "pass" /\ chat_i' = chat_i + 1 /\ due' = due \ {pfd[chat_i].fd} /\ UNCHANGED <<chat_kind, chat_at, rb, said, overwritten>>
  BY DEF Chat!SendOut, Chat!MytalkSendOut, Chat!Writable, Chat!At, Chat!Looked, Chat!told
<1>3. \/ UNCHANGED <<pfd, wb>>
      \/ wb' = [wb EXCEPT ![pfd[chat_i].fd] = Chat!NULL] /\ pfd' = [pfd EXCEPT ![chat_i].events = {"IN"}]
      \/ wb' = [wb EXCEPT ![pfd[chat_i].fd] = Chat!NULL] /\ pfd' = pfd /\ chat_kind = "mytalk"
  BY DEF Chat!SendOut, Chat!MytalkSendOut, Chat!table, Chat!told
<1>4. \A k \in 1 .. m : "IN" \in pfd[k].events \/ (chat_kind = "poll" /\ Chat!Coming(pfd[k]))
  BY DEF ChatInv
<1>5. /\ pfd' \in Seq(Entries) /\ Len(pfd') = m
      /\ \A k \in 1 .. m : /\ pfd'[k].fd = pfd[k].fd /\ pfd'[k].revents = pfd[k].revents
                           /\ k # chat_i => pfd'[k].events = pfd[k].events
                           /\ pfd'[k].events = pfd[k].events \/ "IN" \in pfd'[k].events
  <2>1. CASE pfd' = pfd
    BY <1>1, <2>1
  <2>2. CASE pfd' = [pfd EXCEPT ![chat_i].events = {"IN"}]
    <3> DEFINE e == [pfd[chat_i] EXCEPT !.events = {"IN"}]
    <3>1. e \in Entries /\ e.fd = pfd[chat_i].fd /\ e.revents = pfd[chat_i].revents /\ e.events = {"IN"}
      BY <1>1 DEF Entries
    <3>2. pfd' = [pfd EXCEPT ![chat_i] = e]
      BY <2>2
    <3> HIDE DEF e
    <3>3. pfd' \in Seq(Entries) /\ Len(pfd') = m /\ \A k \in 1 .. m : pfd'[k] = IF k = chat_i THEN e ELSE pfd[k]
      BY <1>1, <3>1, <3>2, ExceptSeq
    <3> QED
      BY <3>1, <3>3
  <2> QED
    BY <1>3, <2>1, <2>2
<1>6. chat_at' = "pass" /\ Len(pfd') = Len(pfd)
  BY <1>2, <1>5
<1>7. /\ chat_i' \in Nat
      /\ \A k, l \in 1 .. Len(pfd') : pfd'[k].fd = pfd'[l].fd => k = l
      /\ due' \subseteq Fds /\ \A fd \in Fds : fd \in due' <=> IsDue(fd)'
  BY <1>1, <1>2, <1>5, <1>6, LookedKeeps
<1>8. TextTypes' /\ \A k \in 1 .. m : k # chat_i => wb'[pfd[k].fd] = wb[pfd[k].fd]
  <2>1. wb' \in [Fds -> Fds \union {Chat!NULL}]
    BY <1>1, <1>3 DEF TextTypes
  <2> QED
    BY <1>1, <1>2, <1>3, <2>1 DEF TextTypes, Chat!NULL
<1>9. "IN" \in pfd'[chat_i].events \/ UNCHANGED <<pfd, wb>>
  <2>1. CASE pfd' = [pfd EXCEPT ![chat_i].events = {"IN"}]
    BY <1>1, <2>1
  <2>2. CASE pfd' = pfd /\ chat_kind = "mytalk"
    BY <1>1, <1>4, <2>2
  <2> QED
    BY <1>3, <2>1, <2>2
<1>10. \A k \in 1 .. m : /\ "IN" \in pfd'[k].events \/ (chat_kind' = "poll" /\ Chat!Coming(pfd[k])')
                        /\ Right(pfd[k])'
  <2> SUFFICES ASSUME NEW k \in 1 .. m
               PROVE  ("IN" \in pfd'[k].events \/ (chat_kind = "poll" /\ Chat!Coming(pfd[k])')) /\ Right(pfd[k])'
    BY <1>2
  <2>1. Right(pfd[k]) /\ pfd'[k].fd = pfd[k].fd
    BY <1>5 DEF ChatInv
  <2>2. CASE k # chat_i \/ UNCHANGED <<pfd, wb>>
    <3>1. wb'[pfd[k].fd] = wb[pfd[k].fd] /\ pfd'[k].events = pfd[k].events
      BY <1>5, <1>8, <2>2
    <3>2. Chat!Coming(pfd[k])' <=> Chat!Coming(pfd[k])
      BY <2>1, <3>1 DEF Chat!Coming, Chat!NULL
    <3>3. Right(pfd[k])'
      BY <1>2, <2>1, <3>1, RightStays
    <3> QED
      BY <1>4, <3>1, <3>2, <3>3
  <2>3. CASE k = chat_i /\ ~UNCHANGED <<pfd, wb>>
    <3>1. "IN" \in pfd'[k].events /\ wb'[pfd[k].fd] = Chat!NULL
      BY <1>1, <1>3, <1>9, <2>3 DEF TextTypes
    <3>2. ~Chat!Coming(pfd[k])'
      BY <2>1, <3>1 DEF Chat!Coming, Chat!NULL
    <3> QED
      BY <3>1, <3>2 DEF Right
  <2> QED
    BY <2>2, <2>3
<1>11. chat_kind' \in {"poll", "mytalk"}
  BY <1>2 DEF ChatInv
<1> HIDE DEF m
<1> QED
  BY <1>5, <1>6, <1>7, <1>8, <1>10, <1>11 DEF ChatInv, m

\* What poll finds is due, and what is asked for stays.
LEMMA PollKeeps ==
  ASSUME ChatInv, Chat!Poll
  PROVE  ChatInv'
<1> DEFINE m == Len(pfd)
<1>1. /\ m \in Nat /\ pfd \in Seq(Entries)
      /\ \A k \in 1 .. m : pfd[k] \in Entries /\ pfd[k].fd \in Fds /\ pfd[k].events \subseteq {"IN", "OUT"}
      /\ \A k, l \in 1 .. m : pfd[k].fd = pfd[l].fd => k = l
  BY EntryFacts DEF ChatInv
<1>2. PICK errors \in SUBSET chat_hup, room \in SUBSET {pfd[k].fd : k \in {l \in 1 .. m : "OUT" \in pfd[l].events}} :
        pfd' = [k \in 1 .. m |-> [pfd[k] EXCEPT !.revents = Chat!Revents(pfd[k], pfd[k].fd \in errors, pfd[k].fd \in room)]]
  BY Zenon DEF Chat!Poll, Chat!n
<1>3. ASSUME NEW e \in Entries, NEW error, NEW r PROVE Chat!Revents(e, error, r) \in SUBSET {"HUP", "IN", "OUT", "ERR"}
  <2>1. e.events \subseteq {"IN", "OUT"}
    BY DEF Entries
  <2> QED
    BY <2>1 DEF Chat!Revents
<1>4. \A k \in 1 .. m : pfd'[k] \in Entries /\ pfd'[k].fd = pfd[k].fd /\ pfd'[k].events = pfd[k].events
  <2> SUFFICES ASSUME NEW k \in 1 .. m PROVE pfd'[k] \in Entries /\ pfd'[k].fd = pfd[k].fd /\ pfd'[k].events = pfd[k].events
    OBVIOUS
  <2> DEFINE x == Chat!Revents(pfd[k], pfd[k].fd \in errors, pfd[k].fd \in room)
  <2>1. x \in SUBSET {"HUP", "IN", "OUT", "ERR"}
    BY <1>1, <1>3
  <2>2. pfd'[k] = [pfd[k] EXCEPT !.revents = x]
    BY <1>2
  <2>3. pfd[k] \in Entries
    BY <1>1
  <2> HIDE DEF x
  <2> QED
    BY <2>1, <2>2, <2>3 DEF Entries
<1>5. pfd' \in Seq(Entries) /\ Len(pfd') = m
  BY <1>1, <1>2, <1>4
<1>6. /\ due' = {pfd'[k].fd : k \in {l \in 1 .. m : pfd'[l].revents # {}}}
      /\ chat_at' = "pass" /\ chat_i' = 0 /\ UNCHANGED <<chat_kind, wb, rb, said, overwritten>>
  BY DEF Chat!Poll, Chat!n, Chat!told
<1> HIDE DEF m
<1>7. due' \subseteq Fds
  BY <1>1, <1>4, <1>6
<1>8. \A fd \in Fds : fd \in due' <=> IsDue(fd)'
  <2>1. \A k \in 1 .. m : k >= 0
    BY <1>1
  <2> QED
    BY <1>5, <1>6, <2>1 DEF IsDue
<1>9. \A k, l \in 1 .. m : pfd'[k].fd = pfd'[l].fd => k = l
  BY <1>1, <1>4
<1>10. \A k \in 1 .. m : /\ "IN" \in pfd'[k].events \/ (chat_kind' = "poll" /\ Chat!Coming(pfd[k])')
                        /\ Right(pfd[k])'
  <2> SUFFICES ASSUME NEW k \in 1 .. m
               PROVE  ("IN" \in pfd'[k].events \/ (chat_kind = "poll" /\ Chat!Coming(pfd[k])')) /\ Right(pfd[k])'
    BY <1>6
  <2>1. Chat!Coming(pfd[k])' <=> Chat!Coming(pfd[k])
    BY <1>4, <1>6 DEF Chat!Coming, Chat!NULL
  <2>2. ("IN" \in pfd[k].events \/ (chat_kind = "poll" /\ Chat!Coming(pfd[k]))) /\ Right(pfd[k])
    BY DEF ChatInv, m
  <2>3. Right(pfd[k])'
    BY <1>4, <1>6, <2>2, RightStays
  <2> QED
    BY <1>4, <2>1, <2>2, <2>3
<1>11. chat_kind' \in {"poll", "mytalk"} /\ chat_i' \in Nat /\ TextTypes'
  BY <1>1, <1>6 DEF ChatInv, TextTypes, Chat!NULL
<1> QED
  BY <1>5, <1>7, <1>8, <1>9, <1>10, <1>11 DEF ChatInv

\* A client gets the entry behind the last.
LEMMA ChatAcceptKeeps ==
  ASSUME ChatInv, NEW new \in Fds, Chat!Accept(new)
  PROVE  ChatInv'
<1> DEFINE m == Len(pfd)
<1> DEFINE e == [fd |-> new, events |-> {"IN"}, revents |-> {}]
<1>1. /\ m \in Nat /\ pfd \in Seq(Entries)
      /\ \A k \in 1 .. m : pfd[k] \in Entries /\ pfd[k].fd \in Fds
      /\ \A k, l \in 1 .. m : pfd[k].fd = pfd[l].fd => k = l
  BY EntryFacts DEF ChatInv
<1>2. /\ chat_at = "pass" /\ chat_i = 0 /\ chat_i' = 1 /\ pfd' = Append(pfd, e) /\ UNCHANGED <<chat_kind, chat_at, wb, rb, due, said, overwritten>>
  BY DEF Chat!Accept, Chat!AtListener, Chat!told
<1>3. \A k \in 1 .. m : pfd[k].fd # new
  BY DEF Chat!Accept, Chat!Open, Chat!n
<1>4. e \in Entries /\ e.fd = new /\ e.events = {"IN"} /\ e.revents = {}
  BY DEF Entries
<1> HIDE DEF e
<1>5. /\ pfd' \in Seq(Entries) /\ Len(pfd') = m + 1 /\ pfd'[m + 1] = e
      /\ \A k \in 1 .. m : pfd'[k] = pfd[k]
  BY <1>1, <1>2, <1>4
<1>6. \A k \in 1 .. m + 1 : k \in 1 .. m \/ k = m + 1
  BY <1>1
<1>7. \A k, l \in 1 .. m + 1 : pfd'[k].fd = pfd'[l].fd => k = l
  BY <1>1, <1>3, <1>4, <1>5, <1>6
<1>8. \A k \in 1 .. m + 1 : /\ "IN" \in pfd'[k].events \/ (chat_kind' = "poll" /\ Chat!Coming(pfd[k])')
                            /\ Right(pfd[k])'
  <2> SUFFICES ASSUME NEW k \in 1 .. m + 1
               PROVE  ("IN" \in pfd'[k].events \/ (chat_kind = "poll" /\ Chat!Coming(pfd[k])')) /\ Right(pfd[k])'
    BY <1>2
  <2>1. CASE k = m + 1
    <3>1. "OUT" \notin pfd'[k].events /\ "IN" \in pfd'[k].events
      BY <1>4, <1>5, <2>1
    <3> QED
      BY <3>1 DEF Right, Chat!Coming
  <2>2. CASE k \in 1 .. m
    <3>1. pfd'[k] = pfd[k]
      BY <1>5, <2>2
    <3>2. ("IN" \in pfd[k].events \/ (chat_kind = "poll" /\ Chat!Coming(pfd[k]))) /\ Right(pfd[k])
      BY <2>2 DEF ChatInv
    <3>3. Chat!Coming(pfd[k])' <=> Chat!Coming(pfd[k])
      BY <1>2, <3>1 DEF Chat!Coming, Chat!NULL
    <3>4. Right(pfd[k])'
      BY <1>2, <3>1, <3>2, RightStays
    <3> QED
      BY <3>1, <3>2, <3>3, <3>4
  <2> QED
    BY <1>6, <2>1, <2>2
<1>9. ASSUME NEW fd \in Fds PROVE IsDue(fd)' <=> IsDue(fd)
  <2>1. ASSUME IsDue(fd) PROVE IsDue(fd)'
    <3>1. PICK k \in 1 .. m : pfd[k].revents # {} /\ pfd[k].fd = fd
      BY <2>1 DEF IsDue
    <3>2. k \in 1 .. m + 1 /\ k >= 1
      BY <1>1
    <3> QED
      BY <1>2, <1>5, <3>1, <3>2 DEF IsDue
  <2>2. ASSUME IsDue(fd)' PROVE IsDue(fd)
    <3>1. PICK k \in 1 .. m + 1 : pfd'[k].revents # {} /\ pfd'[k].fd = fd
      BY <1>5, <2>2 DEF IsDue
    <3>2. k \in 1 .. m /\ k >= 0
      BY <1>4, <1>5, <1>6, <3>1
    <3> QED
      BY <1>2, <1>5, <3>1, <3>2 DEF IsDue
  <2> QED
    BY <2>1, <2>2
<1> HIDE DEF m
<1>10. \A fd \in Fds : fd \in due' <=> IsDue(fd)'
  BY <1>2, <1>9 DEF ChatInv
<1>11. chat_kind' \in {"poll", "mytalk"} /\ chat_i' \in Nat /\ due' \subseteq Fds /\ TextTypes'
  BY <1>2 DEF ChatInv, TextTypes, Chat!NULL
<1> QED
  BY <1>5, <1>7, <1>8, <1>10, <1>11 DEF ChatInv

\* Nobody is due at the entry, or none: the pass goes on, or begins or ends.
LEMMA PassKeeps ==
  ASSUME ChatInv, UNCHANGED <<chat_kind, pfd, wb, rb, due, said, overwritten>>, chat_i' \in Nat,
         \A k \in 1 .. Len(pfd) :
           pfd[k].revents # {} => ((chat_at' = "pass" /\ k >= chat_i') <=> (chat_at = "pass" /\ k >= chat_i))
  PROVE  ChatInv'
<1>1. \A fd \in Fds : IsDue(fd)' <=> IsDue(fd)
  BY DEF IsDue
<1>2. TextTypes'
  BY DEF ChatInv, TextTypes, Chat!NULL
<1>3. \A k \in 1 .. Len(pfd) : (Chat!Coming(pfd[k])' <=> Chat!Coming(pfd[k])) /\ Right(pfd[k])'
  <2> SUFFICES ASSUME NEW k \in 1 .. Len(pfd)
               PROVE  (Chat!Coming(pfd[k])' <=> Chat!Coming(pfd[k])) /\ Right(pfd[k])'
    OBVIOUS
  <2>1. Right(pfd[k])
    BY DEF ChatInv
  <2>2. Right(pfd[k])'
    BY <2>1, RightStays
  <2> QED
    BY <2>2 DEF Chat!Coming, Chat!NULL
<1> QED
  BY <1>1, <1>2, <1>3 DEF ChatInv

LEMMA ChatStep == ChatInv /\ [Chat!Next]_(Chat!vars) => ChatInv'
<1> SUFFICES ASSUME ChatInv, [Chat!Next]_(Chat!vars) PROVE ChatInv'
  OBVIOUS
<1>0. chat_i \in Nat /\ Len(pfd) \in Nat /\ pfd \in Seq(Entries)
  BY EntryFacts DEF ChatInv
<1>1. CASE Chat!CreateAndBind \/ Chat!MytalkListen \/ Chat!Connect \/ UNCHANGED Chat!vars \/ \E fd \in Fds : Chat!Writes(fd) \/ Chat!Leaves(fd)
  <2>1. UNCHANGED <<chat_kind, pfd, wb, rb, due, said, overwritten, chat_i>>
    BY <1>1 DEF Chat!CreateAndBind, Chat!MytalkListen, Chat!Connect, Chat!Writes, Chat!Leaves, Chat!vars, Chat!table, Chat!told
  <2>2. chat_at' = "pass" <=> chat_at = "pass"
    BY <1>1 DEF Chat!CreateAndBind, Chat!MytalkListen, Chat!Connect, Chat!Writes, Chat!Leaves, Chat!vars
  <2> QED
    BY <1>0, <2>1, <2>2, PassKeeps
<1>2. CASE Chat!NoArrival \/ Chat!NotAccepted
  <2>1. UNCHANGED <<chat_kind, pfd, wb, rb, due, said, overwritten, chat_at>> /\ chat_i = 0 /\ chat_i' = 1
    BY <1>2 DEF Chat!NoArrival, Chat!NotAccepted, Chat!AtListener, Chat!table, Chat!told
  <2>2. \A k \in 1 .. Len(pfd) : k >= 0 /\ k >= 1
    BY <1>0
  <2> QED
    BY <2>1, <2>2, PassKeeps
<1>3. CASE Chat!NoEvent
  <2>1. /\ UNCHANGED <<chat_kind, pfd, wb, rb, due, said, overwritten, chat_at>> /\ chat_i \in 1 .. Len(pfd)
        /\ pfd[chat_i].revents = {} /\ chat_i' = chat_i + 1
    BY <1>3 DEF Chat!NoEvent, Chat!table, Chat!told, Chat!n
  <2>2. \A k \in 1 .. Len(pfd) : pfd[k].revents # {} => (k >= chat_i + 1 <=> k >= chat_i)
    BY <1>0, <2>1
  <2> QED
    BY <1>0, <2>1, <2>2, PassKeeps
<1>4. CASE Chat!PassEnds
  <2>1. UNCHANGED <<chat_kind, pfd, wb, rb, due, said, overwritten>> /\ chat_at' = "poll" /\ chat_i' = 0 /\ chat_i > Len(pfd)
    BY <1>4 DEF Chat!PassEnds, Chat!table, Chat!told, Chat!n
  <2>2. \A k \in 1 .. Len(pfd) : ~(k >= chat_i)
    BY <1>0, <2>1
  <2> QED
    BY <2>1, <2>2, PassKeeps
<1>5. CASE Chat!Errors
  <2>1. /\ UNCHANGED <<chat_kind, pfd, wb, rb, said, overwritten, chat_at>> /\ chat_at = "pass" /\ chat_i \in 1 .. Len(pfd)
        /\ chat_i' = chat_i + 1 /\ due' = due \ {pfd[chat_i].fd}
    BY <1>5 DEF Chat!Errors, Chat!At, Chat!Looked, Chat!table, Chat!told, Chat!n
  <2>2. chat_at' = "pass" /\ pfd' \in Seq(Entries) /\ Len(pfd') = Len(pfd)
        /\ \A k \in 1 .. Len(pfd) : pfd'[k].fd = pfd[k].fd /\ pfd'[k].revents = pfd[k].revents
    BY <1>0, <2>1
  <2>3. /\ chat_i' \in Nat
        /\ \A k, l \in 1 .. Len(pfd') : pfd'[k].fd = pfd'[l].fd => k = l
        /\ due' \subseteq Fds /\ \A fd \in Fds : fd \in due' <=> IsDue(fd)'
    BY <2>1, <2>2, LookedKeeps
  <2>4. TextTypes'
    BY <2>1 DEF ChatInv, TextTypes, Chat!NULL
  <2>5. \A k \in 1 .. Len(pfd) : (Chat!Coming(pfd[k])' <=> Chat!Coming(pfd[k])) /\ Right(pfd[k])'
    <3> SUFFICES ASSUME NEW k \in 1 .. Len(pfd)
                 PROVE  (Chat!Coming(pfd[k])' <=> Chat!Coming(pfd[k])) /\ Right(pfd[k])'
      OBVIOUS
    <3>1. Right(pfd[k])
      BY DEF ChatInv
    <3>2. Right(pfd[k])'
      BY <2>1, <3>1, RightStays
    <3> QED
      BY <2>1, <3>2 DEF Chat!Coming, Chat!NULL
  <2> QED
    BY <2>1, <2>2, <2>3, <2>4, <2>5 DEF ChatInv
<1>6. CASE Chat!Left \/ Chat!RecvFails
  <2>1. /\ Chat!Replaced(rb) \/ Chat!Replaced([rb EXCEPT ![pfd[chat_i].fd] = 0])
        /\ UNCHANGED <<chat_kind, chat_at, said>> /\ chat_at = "pass" /\ chat_i \in 1 .. Len(pfd)
        /\ chat_i' = chat_i
    BY <1>6 DEF Chat!Left, Chat!RecvFails, Chat!Readable, Chat!At, Chat!n
  <2> QED
    BY <2>1, ReplacedKeeps
<1>7. CASE Chat!Got
  <2>1. Chat!Broadcast({"OUT"}) /\ chat_at = "pass" /\ chat_i \in 1 .. Len(pfd) /\ chat_kind = "poll"
    BY <1>7 DEF Chat!Got, Chat!Readable, Chat!At, Chat!n
  <2> QED
    BY <2>1, BroadcastKeeps
<1>8. CASE Chat!MytalkGot
  <2>1. Chat!Broadcast({"IN", "OUT"}) /\ chat_at = "pass" /\ chat_i \in 1 .. Len(pfd)
    BY <1>8 DEF Chat!MytalkGot, Chat!Readable, Chat!At, Chat!n
  <2> QED
    BY <2>1, BroadcastKeeps
<1>9. CASE Chat!SendOut \/ Chat!MytalkSendOut
  BY <1>9, SendOutKeeps
<1>12. CASE Chat!SendKills
  <2>1. /\ UNCHANGED <<chat_kind, chat_i, pfd, wb, rb, said, overwritten>> /\ due' = {} /\ chat_at' = "failed"
    BY <1>12 DEF Chat!SendKills, Chat!table, Chat!told
  <2>2. TextTypes'
    BY <2>1 DEF ChatInv, TextTypes, Chat!NULL
  <2>3. \A k \in 1 .. Len(pfd) : (Chat!Coming(pfd[k])' <=> Chat!Coming(pfd[k])) /\ Right(pfd[k])'
    <3> SUFFICES ASSUME NEW k \in 1 .. Len(pfd)
                 PROVE  (Chat!Coming(pfd[k])' <=> Chat!Coming(pfd[k])) /\ Right(pfd[k])'
      OBVIOUS
    <3>1. Right(pfd[k])
      BY DEF ChatInv
    <3>2. Right(pfd[k])'
      BY <2>1, <3>1, RightStays
    <3> QED
      BY <2>1, <3>2 DEF Chat!Coming, Chat!NULL
  <2> QED
    BY <2>1, <2>2, <2>3 DEF ChatInv, IsDue
<1>10. CASE Chat!Poll
  BY <1>10, PollKeeps
<1>11. ASSUME NEW fd \in Fds, Chat!Accept(fd) PROVE ChatInv'
  BY <1>11, ChatAcceptKeeps
<1> QED
  BY <1>1, <1>2, <1>3, <1>4, <1>5, <1>6, <1>7, <1>8, <1>9, <1>10, <1>11, <1>12 DEF Chat!Next, Chat!Entry

LEMMA ChatInvHolds == Chat!Spec => []ChatInv
<1>1. Chat!Init => ChatInv
  <2> SUFFICES ASSUME Chat!Init PROVE ChatInv
    OBVIOUS
  <2>1. pfd = <<>> /\ <<>> \in Seq(Entries) /\ \A k \in 1 .. Len(<<>>) : FALSE
    BY DEF Chat!Init
  <2>2. TextTypes
    BY DEF Chat!Init, TextTypes, Chat!NULL
  <2> QED
    BY <2>1, <2>2 DEF Chat!Init, ChatInv, IsDue
<1> QED
  BY <1>1, ChatStep, PTL DEF Chat!Spec

LEMMA PassesOverNobodyHolds == Chat!Spec => []Chat!PassesOverNobody
<1>1. ChatInv => Chat!PassesOverNobody
  <2> SUFFICES ASSUME ChatInv PROVE Chat!PassesOverNobody
    OBVIOUS
  <2> DEFINE told_of == {pfd[k].fd : k \in {l \in 1 .. Len(pfd) : chat_at = "pass" /\ l >= chat_i /\ pfd[l].revents # {}}}
  <2>1. \A fd \in Fds : fd \in told_of <=> IsDue(fd)
    BY DEF IsDue
  <2>2. told_of \subseteq Fds
    BY EntryFacts DEF ChatInv
  <2>3. due = told_of
    BY <2>1, <2>2 DEF ChatInv
  <2> QED
    BY <2>3 DEF ChatInv, Right, Chat!PassesOverNobody, Chat!n
<1> QED
  BY <1>1, ChatInvHolds, PTL

-----------------------------------------------------------------------------
\* Nothing goes astray: no child is left behind by the server that stops, no entry is
\* passed over or looked at twice, what an entry has coming is the newest text of others
\* unless a copied entry has overwritten it, no line overtakes another, no late answer is
\* taken (NothingGoesAstray).
THEOREM NothingGoesAstrayHolds == Spec /\ Chat!Spec /\ Client!Spec /\ Call!Spec => []NothingGoesAstray
<1>1. NoChildLeft /\ Chat!PassesOverNobody /\ Client!LinesInOrder /\ Call!LateAnswerIsNotTaken <=> NothingGoesAstray
  BY DEF NothingGoesAstray
<1> QED
  BY <1>1, NoChildLeftHolds, PassesOverNobodyHolds, LinesInOrderHolds, LateAnswerHolds, PTL
=============================================================================
