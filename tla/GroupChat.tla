------------------------------ MODULE GroupChat ------------------------------
(***************************************************************************)
(* highperformenceserver/group_chat/server_poll.c and HP/9/9-7mytalk_      *)
(* server.cpp (kind, chosen in Init): one thread around poll sends what a  *)
(* client writes to all the others.  The table pfd has no holes: a client  *)
(* that leaves is replaced by the last one, in the middle of the pass over *)
(* the table.                                                              *)
(*                                                                         *)
(* wb points into the rb of the client that wrote: what it points to may   *)
(* be another text by the time it is sent.  A text is the place it has in  *)
(* said.  pfd holds the clients; pfd[0], the listening socket, is the      *)
(* variable arrival.                                                       *)
(***************************************************************************)
EXTENDS Naturals, Sequences, FiniteSets

CONSTANTS
  Fds,            \* the descriptors that accept gives
  MAX_CLIENT_NUM,
  MaxCame,        \* bound: clients that ever connect
  MaxTexts        \* bound: texts that clients ever write

VARIABLES
  kind,    \* "poll" or "mytalk"
  at,      \* "start", "poll", "pass" or "failed"
  i,       \* the loop's index
  pfd,     \* of each entry its fd, events and revents
  wb, rb,  \* of each descriptor: clients[fd].wb points into whose rb; the text in its rb, or 0
  backlog, arrival, \* clients that wait; whether poll has told
  input,   \* of each descriptor: texts that have not been read
  hup,     \* descriptors whose client has gone
  came, texts, \* bounds: so far
  due,     \* history: the descriptors poll has told of, until the pass comes to them
  said,    \* history: who wrote, of each text that has been received
  overwritten  \* history: descriptors whose wb points to what is no longer the text

table == <<pfd, wb, rb>>
clients == <<backlog, input, hup, came, texts>>
told == <<said, overwritten>>
vars == <<kind, at, i, table, arrival, clients, due, told>>

NULL == "NULL"

Init ==
  /\ kind \in {"poll", "mytalk"}
  /\ at = "start" /\ i = 0 /\ pfd = <<>>
  /\ wb = [fd \in Fds |-> NULL] /\ rb = [fd \in Fds |-> 0]
  /\ backlog = 0 /\ arrival = FALSE
  /\ input = [fd \in Fds |-> 0] /\ hup = {} /\ came = 0 /\ texts = 0 /\ due = {}
  /\ said = <<>> /\ overwritten = {}

n == Len(pfd)
Open == {pfd[k].fd : k \in 1 .. n}

-----------------------------------------------------------------------------
(* Before the loop. *)

\* server_poll: the first address that can be bound, or the program ends.
CreateAndBind ==
  /\ at = "start" /\ kind = "poll"
  /\ at' \in {"poll", "failed"}
  /\ UNCHANGED <<kind, i, table, arrival, clients, due, told>>

\* 9-7: its one address.
MytalkListen ==
  /\ at = "start" /\ kind = "mytalk"
  /\ at' \in {"poll", "failed"}
  /\ UNCHANGED <<kind, i, table, arrival, clients, due, told>>

-----------------------------------------------------------------------------
(* The clients.  What they do in a pass shows in the next call of poll, and is left *)
(* until then. *)

Connect ==
  /\ at = "poll" /\ backlog + n < Cardinality(Fds) /\ came < MaxCame
  /\ came' = came + 1 /\ backlog' = backlog + 1
  /\ UNCHANGED <<kind, at, i, table, arrival, input, hup, texts, due, told>>

Writes(fd) ==
  /\ at = "poll" /\ fd \in Open \ hup /\ texts < MaxTexts
  /\ texts' = texts + 1 /\ input' = [input EXCEPT ![fd] = @ + 1]
  /\ UNCHANGED <<kind, at, i, table, arrival, backlog, hup, came, due, told>>

Leaves(fd) ==
  /\ at = "poll" /\ fd \in Open \ hup
  /\ hup' = hup \union {fd}
  /\ UNCHANGED <<kind, at, i, table, arrival, backlog, input, came, texts, due, told>>

-----------------------------------------------------------------------------
(* The loop. *)

\* What poll finds of an entry, with an error, and with room to write.
Revents(e, error, room) ==
  (IF error THEN {"ERR"} ELSE {})
    \union (IF e.fd \in hup THEN {"HUP"} ELSE {})
    \union (IF input[e.fd] > 0 \/ e.fd \in hup THEN e.events \ {"OUT"} ELSE {})
    \union (IF room THEN e.events \ {"IN"} ELSE {})

Poll ==
  /\ at = "poll"
  /\ arrival' = (backlog > 0)
  /\ \E errors \in SUBSET hup, room \in SUBSET {pfd[k].fd : k \in {l \in 1 .. n : "OUT" \in pfd[l].events}} :
        pfd' = [k \in 1 .. n |-> [pfd[k] EXCEPT !.revents = Revents(pfd[k], pfd[k].fd \in errors, pfd[k].fd \in room)]]
  /\ due' = {pfd'[k].fd : k \in {l \in 1 .. n : pfd'[l].revents # {}}}
  /\ arrival' \/ due' # {}
  /\ at' = "pass" /\ i' = 0
  /\ UNCHANGED <<kind, wb, rb, clients, told>>

AtListener == at = "pass" /\ i = 0
At(ev) == at = "pass" /\ i \in 1 .. n /\ ev \in pfd[i].revents

\* The entry at i has been looked at.
Looked == i' = i + 1 /\ due' = due \ {pfd[i].fd}

NoArrival ==
  /\ AtListener /\ ~arrival
  /\ i' = 1
  /\ UNCHANGED <<kind, at, table, arrival, clients, due, told>>

\* accept fails (the client has gone), or there are too many.
NotAccepted ==
  /\ AtListener /\ arrival
  /\ i' = 1 /\ arrival' = FALSE /\ backlog' = backlog - 1
  /\ UNCHANGED <<kind, at, table, input, hup, came, texts, due, told>>

Accept(fd) ==
  /\ AtListener /\ arrival /\ n < MAX_CLIENT_NUM /\ fd \notin Open
  /\ i' = 1 /\ arrival' = FALSE /\ backlog' = backlog - 1
  /\ pfd' = Append(pfd, [fd |-> fd, events |-> {"IN"}, revents |-> {}])
  /\ UNCHANGED <<kind, at, wb, rb, input, hup, came, texts, due, told>>

Errors ==
  /\ At("ERR") /\ Looked
  /\ UNCHANGED <<kind, at, table, arrival, clients, told>>

\* The entry at i is closed; the last one takes its place, and its wb and text, as they
\* are in texts_in, are copied over those of the closed one, which the wb of others may
\* point to ...
Replaced(texts_in) ==
  LET fd == pfd[i].fd
      last == pfd[n].fd
  IN /\ wb' = [wb EXCEPT ![fd] = wb[last]]
     /\ rb' = [texts_in EXCEPT ![fd] = texts_in[last]]
     /\ overwritten' = overwritten \union {c \in Fds : wb[c] = fd /\ rb'[fd] # rb[fd]}
     /\ pfd' = SubSeq([pfd EXCEPT ![i] = pfd[n]], 1, n - 1)
     /\ input' = [input EXCEPT ![fd] = 0] /\ hup' = hup \ {fd}
     /\ due' = due \ {fd}

\* Mutant of Left: the pass goes on behind the entry.
LeftSkips ==
  /\ At("HUP") /\ "ERR" \notin pfd[i].revents
  /\ Replaced(rb) /\ i' = i + 1
  /\ UNCHANGED <<kind, at, arrival, backlog, came, texts, said>>

\* ... and is looked at next.  What the client wrote before it left is not read.
Left ==
  /\ At("HUP") /\ "ERR" \notin pfd[i].revents
  /\ Replaced(rb) /\ i' = i
  /\ UNCHANGED <<kind, at, arrival, backlog, came, texts, said>>

Readable == At("IN") /\ pfd[i].revents \intersect {"ERR", "HUP"} = {}

\* recv fails otherwise than with EAGAIN.  9-7 has cleared buf before.
RecvFails ==
  /\ Readable
  /\ Replaced(IF kind = "mytalk" THEN [rb EXCEPT ![pfd[i].fd] = 0] ELSE rb)
  /\ i' = i
  /\ UNCHANGED <<kind, at, arrival, backlog, came, texts, said>>

\* All the others get the text that the entry at i has sent, instead of one they have
\* not got yet: from now on they are asked for the events ev.
Broadcast(ev) ==
  LET fd == pfd[i].fd
      others == Open \ {fd}
  IN /\ input' = [input EXCEPT ![fd] = @ - 1]
     /\ said' = Append(said, fd)
     /\ rb' = [rb EXCEPT ![fd] = Len(said')]
     /\ wb' = [c \in Fds |-> IF c \in others THEN fd ELSE wb[c]]
     /\ overwritten' = (overwritten \union {c \in Fds : wb[c] = fd}) \ others
     /\ pfd' = [k \in 1 .. n |-> IF k = i THEN pfd[k] ELSE [pfd[k] EXCEPT !.events = ev]]
     /\ Looked
     /\ UNCHANGED <<kind, at, arrival, backlog, hup, came, texts>>

\* server_poll: they are not read until they have got it.
Got ==
  /\ Readable /\ kind = "poll" /\ input[pfd[i].fd] > 0
  /\ Broadcast({"OUT"})

\* 9-7: |= ~POLLIN sets every event, and POLLIN was set.
MytalkGot ==
  /\ Readable /\ kind = "mytalk" /\ input[pfd[i].fd] > 0
  /\ Broadcast({"IN", "OUT"})

Writable == At("OUT") /\ pfd[i].revents \intersect {"ERR", "HUP", "IN"} = {}

SendOut ==
  /\ Writable /\ kind = "poll" /\ Looked
  /\ IF wb[pfd[i].fd] # NULL
     THEN /\ wb' = [wb EXCEPT ![pfd[i].fd] = NULL]
          /\ pfd' = [pfd EXCEPT ![i].events = {"IN"}]
     ELSE UNCHANGED <<wb, pfd>>
  /\ UNCHANGED <<kind, at, rb, arrival, clients, told>>

\* 9-7: the events stay as they are.
MytalkSendOut ==
  /\ Writable /\ kind = "mytalk" /\ Looked
  /\ wb' = [wb EXCEPT ![pfd[i].fd] = NULL]
  /\ UNCHANGED <<kind, at, pfd, rb, arrival, clients, told>>

\* The client has gone since poll has told: SIGPIPE, which nobody has asked to ignore.
SendKills ==
  /\ Writable /\ wb[pfd[i].fd] # NULL
  /\ at' = "failed" /\ due' = {}
  /\ UNCHANGED <<kind, i, table, arrival, clients, told>>

NoEvent ==
  /\ at = "pass" /\ i \in 1 .. n /\ pfd[i].revents = {}
  /\ i' = i + 1
  /\ UNCHANGED <<kind, at, table, arrival, clients, due, told>>

PassEnds ==
  /\ at = "pass" /\ i > n
  /\ at' = "poll" /\ i' = 0
  /\ UNCHANGED <<kind, table, arrival, clients, due, told>>

-----------------------------------------------------------------------------
Entry == Errors \/ Left \/ RecvFails \/ Got \/ MytalkGot \/ SendOut \/ MytalkSendOut \/ SendKills \/ NoEvent

Next ==
  \/ CreateAndBind \/ MytalkListen \/ Connect \/ Poll \/ NoArrival \/ NotAccepted \/ Entry \/ PassEnds
  \/ \E fd \in Fds : Accept(fd) \/ Writes(fd) \/ Leaves(fd)

Spec == Init /\ [][Next]_vars

-----------------------------------------------------------------------------
(* Properties. *)

\* Types.
TypeOK ==
  /\ kind \in {"poll", "mytalk"} /\ at \in {"start", "poll", "pass", "failed"} /\ i \in Nat
  /\ pfd \in Seq([fd : Fds, events : SUBSET {"IN", "OUT"}, revents : SUBSET {"HUP", "IN", "OUT", "ERR"}])
  /\ wb \in [Fds -> Fds \union {NULL}] /\ rb \in [Fds -> Nat] /\ said \in Seq(Fds) /\ overwritten \subseteq Fds
  /\ backlog \in Nat /\ arrival \in BOOLEAN
  /\ input \in [Fds -> Nat] /\ hup \subseteq Fds /\ due \subseteq Fds

\* What client fd has coming is the newest text that others have written; an older one
\* that it has not got yet is given up for it.
Newest(fd, t) == t \in DOMAIN said /\ said[t] # fd /\ \A u \in t + 1 .. Len(said) : said[u] = fd

Coming(e) == "OUT" \in e.events /\ wb[e.fd] # NULL

\* However clients leave in the middle of a pass, no descriptor is in the table
\* twice, the pass passes over nobody poll has told of and looks at nobody twice;
\* whoever is not read from has a text coming, which turns reading on again; and it is
\* never its own or an outdated one, unless the entry of a client that left has
\* overwritten it.
PassesOverNobody ==
  /\ \A k, l \in 1 .. n : pfd[k].fd = pfd[l].fd => k = l
  /\ due = {pfd[k].fd : k \in {l \in 1 .. n : at = "pass" /\ l >= i /\ pfd[l].revents # {}}}
  /\ \A k \in 1 .. n : "IN" \in pfd[k].events \/ Coming(pfd[k])
  /\ \A k \in 1 .. n : Coming(pfd[k]) => pfd[k].fd \in overwritten \/ Newest(pfd[k].fd, rb[wb[pfd[k].fd]])

\* "prepare send message to other clients" (server_poll.c:223): a client is not sent what
\* it has written itself.
SentToOthers ==
  \A k \in 1 .. n : Coming(pfd[k]) => LET t == rb[wb[pfd[k].fd]] IN t = 0 \/ said[t] # pfd[k].fd
=============================================================================
