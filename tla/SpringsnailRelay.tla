-------------------------- MODULE SpringsnailRelay --------------------------
(***************************************************************************)
(* springsnail, one session of the load balancer's child: conn.cpp (two    *)
(* linear buffers of BUF_SIZE bytes) driven by mgr::process (mgr.cpp) from *)
(* the edge-triggered event loop of processpool::run_child.                *)
(*                                                                         *)
(* The two ends are "clt" (m_cltfd) and "srv" (m_srvfd).  buf["clt"] is    *)
(* m_clt_buf up to m_clt_read_idx: what came from the client and goes to   *)
(* the server; written["clt"] is m_clt_write_idx.  An end sends the bytes  *)
(* 1, 2, 3, ... so that a lost, repeated or overtaken byte shows.          *)
(*                                                                         *)
(* The kernel (not part of the code) is modelled by what the code relies   *)
(* on: bounded socket queues, and an epoll that queues an event when data  *)
(* or room arrives for the registered interest, when a peer closes, or     *)
(* when EPOLL_CTL_MOD finds the descriptor ready, and drops it at          *)
(* epoll_wait if the descriptor is not ready then.                         *)
(***************************************************************************)
EXTENDS Integers, Sequences, FiniteSets

CONSTANTS
  BUF_SIZE,    \* size of each of a session's two buffers
  SOCK,        \* bound: bytes a socket queue holds
  BYTES,       \* bound: BYTES[s], how many bytes end s may send
  TALKS        \* the ways to talk from which Init chooses

Side == {"clt", "srv"}

ASSUME RelayAssumption ==
  /\ BUF_SIZE \in Nat \ {0}
  /\ SOCK \in Nat \ {0}
  /\ BYTES \in [Side -> Nat]
  /\ TALKS \subseteq {"in turn", "at once", "until closed"}

Peer(s) == IF s = "clt" THEN "srv" ELSE "clt"

VARIABLES
  talk,         \* "in turn": an end speaks only when nothing is on its way to it;
                \* "at once"; and "until closed": at once, and either end may close
  sent,         \* how many bytes end s has sent
  got,          \* what end s has received
  in, out,      \* the kernel's receive and send queue of s's descriptor
  eof,          \* end s has closed its socket: it sends and receives no more
  buf, written, \* the session's buffers and write indexes
  m_srv_closed,
  open,         \* the session is bound (free_conn has not been called)
  interest,     \* "IN" or "OUT", as registered with epoll
  edge,         \* an event of s waits in epoll's ready list
  batch         \* the events epoll_wait returned and the loop has yet to handle

world == <<talk, sent, got, in, out, eof>>
vars == <<talk, sent, got, in, out, eof, buf, written, m_srv_closed, open, interest, edge, batch>>

\* pick_conn has just bound the two descriptors, both registered for reading.
Init ==
  /\ talk \in TALKS
  /\ sent = [s \in Side |-> 0]
  /\ got = [s \in Side |-> <<>>]
  /\ in = [s \in Side |-> <<>>]
  /\ out = [s \in Side |-> <<>>]
  /\ eof = [s \in Side |-> FALSE]
  /\ buf = [s \in Side |-> <<>>]
  /\ written = [s \in Side |-> 0]
  /\ m_srv_closed = FALSE
  /\ open = TRUE
  /\ interest = [s \in Side |-> "IN"]
  /\ edge = [s \in Side |-> FALSE]
  /\ batch = <<>>

Least(a, b) == IF a < b THEN a ELSE b

Drop(q, n) == SubSeq(q, n + 1, Len(q))

-----------------------------------------------------------------------------
(* epoll *)

\* What a descriptor is ready for; one whose peer has closed is readable (0
\* bytes) and writable (an error).
ReadyFor(s, ev) ==
  \/ ev = "IN" /\ (in'[s] # <<>> \/ eof'[s])
  \/ ev = "OUT" /\ (Len(out'[s]) < SOCK \/ eof'[s])

\* modfd on the ends in DOMAIN ev, after the handler's own reads and writes.
Modfd(ev) ==
  /\ interest' = [s \in Side |-> IF s \in DOMAIN ev THEN ev[s] ELSE interest[s]]
  /\ edge' = [s \in Side |-> edge[s] \/ (s \in DOMAIN ev /\ ReadyFor(s, ev[s]))]

NoModfd == UNCHANGED <<interest, edge>>

\* epoll_wait: the ready descriptors in any order, each once, with the event
\* it was registered for.
EpollWait ==
  /\ open
  /\ batch = <<>>
  /\ LET ready == {s \in Side : edge[s] /\ \/ interest[s] = "IN" /\ (in[s] # <<>> \/ eof[s])
                                           \/ interest[s] = "OUT" /\ (Len(out[s]) < SOCK \/ eof[s])}
     IN /\ ready # {}
        /\ \E order \in [1 .. Cardinality(ready) -> ready] :
             /\ \A s \in ready : \E i \in DOMAIN order : order[i] = s
             /\ batch' = [i \in DOMAIN order |-> <<order[i], interest[order[i]]>>]
        /\ edge' = [s \in Side |-> FALSE]
  /\ UNCHANGED <<world, buf, written, m_srv_closed, open, interest>>

-----------------------------------------------------------------------------
(* conn *)

\* read_clt and read_srv: recv until the buffer is full or nothing is left.
ReadIn(s) ==
  LET n == Least(BUF_SIZE - Len(buf[s]), Len(in[s])) IN
    /\ buf' = [buf EXCEPT ![s] = @ \o SubSeq(in[s], 1, n)]
    /\ in' = [in EXCEPT ![s] = Drop(@, n)]
    /\ UNCHANGED <<talk, sent, got, out, eof, written>>

\* What they return, given the queues and buffers they leave; the full buffer
\* is looked at before recv would tell of the close.
ReadResult(s) ==
  IF Len(buf'[s]) >= BUF_SIZE THEN "BUFFER_FULL"
  ELSE IF eof[s] THEN "CLOSED"
  ELSE IF Len(buf'[s]) > written[s] THEN "OK"
  ELSE "NOTHING"

\* Mutant of WriteOut: after a partial send the rest is sent from the start.
WriteOutFromStart(s) ==
  LET p == Peer(s)
      n == Least(SOCK - Len(out[s]), Len(buf[p]) - written[p])
  IN /\ out' = [out EXCEPT ![s] = @ \o SubSeq(buf[p], 1, n)]
     /\ IF written[p] + n = Len(buf[p])
          THEN buf' = [buf EXCEPT ![p] = <<>>] /\ written' = [written EXCEPT ![p] = 0]
          ELSE UNCHANGED buf /\ written' = [written EXCEPT ![p] = @ + n]
     /\ UNCHANGED <<talk, sent, got, in, eof>>

\* write_clt and write_srv: send the other end's buffer until it is empty,
\* when both indexes go back to 0, or the socket takes no more.  (A full
\* socket whose peer has closed gives an error instead: see WriteFails.)
WriteOut(s) ==
  LET p == Peer(s)
      n == Least(SOCK - Len(out[s]), Len(buf[p]) - written[p])
  IN /\ eof[s] => buf[p] = <<>> \/ Len(out[s]) < SOCK
     /\ out' = [out EXCEPT ![s] = @ \o SubSeq(buf[p], written[p] + 1, written[p] + n)]
     /\ IF written[p] + n = Len(buf[p])
          THEN buf' = [buf EXCEPT ![p] = <<>>] /\ written' = [written EXCEPT ![p] = 0]
          ELSE UNCHANGED buf /\ written' = [written EXCEPT ![p] = @ + n]
     /\ UNCHANGED <<talk, sent, got, in, eof>>

WriteResult(s) == IF buf'[Peer(s)] = <<>> THEN "BUFFER_EMPTY" ELSE "TRY_AGAIN"

\* send fails: the peer has closed.  With room in the queue it may also still
\* succeed.
WriteFails(s) ==
  /\ eof[s]
  /\ buf[Peer(s)] # <<>>
  /\ UNCHANGED <<world, buf, written>>

-----------------------------------------------------------------------------
(* mgr::process *)

\* The event at the head of the batch.
Event(s, type) ==
  /\ open
  /\ batch # <<>>
  /\ Head(batch) = <<s, type>>
  /\ batch' = Tail(batch)

\* free_conn: both descriptors leave epoll and are closed.  What the buffers
\* still held is gone; the conn object is reset for its next session, which
\* is not this one.
FreeConn ==
  /\ open' = FALSE
  /\ m_srv_closed' = FALSE
  /\ interest' = interest
  /\ edge' = [s \in Side |-> FALSE]

Stay == UNCHANGED <<open, m_srv_closed>>

\* An event of the client's descriptor ends with the same test, whatever it
\* did before.
UnlessSrvClosed(A) == IF m_srv_closed THEN FreeConn ELSE A /\ Stay

ReadClt ==
  /\ Event("clt", "IN")
  /\ ReadIn("clt")
  /\ CASE ReadResult("clt") \in {"OK", "BUFFER_FULL"} ->
            UnlessSrvClosed(Modfd([s \in {"srv"} |-> "OUT"]))
       [] ReadResult("clt") = "CLOSED" -> FreeConn
       [] ReadResult("clt") = "NOTHING" -> UnlessSrvClosed(NoModfd)

\* Mutant of WriteClt: reading from the server is not taken up again.
WriteCltNoSrvRead ==
  /\ Event("clt", "OUT")
  /\ WriteOut("clt")
  /\ IF WriteResult("clt") = "TRY_AGAIN"
       THEN UnlessSrvClosed(Modfd([s \in {"clt"} |-> "OUT"]))
       ELSE UnlessSrvClosed(Modfd([s \in {"clt"} |-> "IN"]))

WriteClt ==
  /\ Event("clt", "OUT")
  /\ WriteOut("clt")
  /\ IF WriteResult("clt") = "TRY_AGAIN"
       THEN UnlessSrvClosed(Modfd([s \in {"clt"} |-> "OUT"]))
       ELSE UnlessSrvClosed(Modfd([s \in Side |-> "IN"]))

WriteCltFails == Event("clt", "OUT") /\ WriteFails("clt") /\ FreeConn

\* The server's end has closed: the client's descriptor is asked for room, so
\* that what the buffer holds goes out and the session ends.
SrvClosed ==
  /\ m_srv_closed' = TRUE
  /\ Modfd([s \in {"clt"} |-> "OUT"])
  /\ UNCHANGED open

\* Mutant of ReadSrv: the close is noted but the client's end is not woken.
ReadSrvNoWake ==
  /\ Event("srv", "IN")
  /\ ReadIn("srv")
  /\ CASE ReadResult("srv") \in {"OK", "BUFFER_FULL"} -> Modfd([s \in {"clt"} |-> "OUT"]) /\ Stay
       [] ReadResult("srv") = "CLOSED" -> m_srv_closed' = TRUE /\ NoModfd /\ UNCHANGED open
       [] ReadResult("srv") = "NOTHING" -> NoModfd /\ Stay

ReadSrv ==
  /\ Event("srv", "IN")
  /\ ReadIn("srv")
  /\ CASE ReadResult("srv") \in {"OK", "BUFFER_FULL"} -> Modfd([s \in {"clt"} |-> "OUT"]) /\ Stay
       [] ReadResult("srv") = "CLOSED" -> SrvClosed
       [] ReadResult("srv") = "NOTHING" -> NoModfd /\ Stay

\* When the client's bytes are out both ends are read again: this also takes
\* back a wait for room at the client's end.
WriteSrv ==
  /\ Event("srv", "OUT")
  /\ WriteOut("srv")
  /\ IF WriteResult("srv") = "TRY_AGAIN"
       THEN Modfd([s \in {"srv"} |-> "OUT"])
       ELSE Modfd([s \in Side |-> "IN"])
  /\ Stay

WriteSrvFails == Event("srv", "OUT") /\ WriteFails("srv") /\ SrvClosed

-----------------------------------------------------------------------------
(* The two ends. *)

\* Nothing is on its way from end s to the other.
Quiet(s) == in[s] = <<>> /\ buf[s] = <<>> /\ out[Peer(s)] = <<>>

PeerSends(s) ==
  /\ open
  /\ ~eof[s]
  /\ sent[s] < BYTES[s]
  /\ Len(in[s]) < SOCK
  /\ talk = "in turn" => Quiet(Peer(s))
  /\ sent' = [sent EXCEPT ![s] = @ + 1]
  /\ in' = [in EXCEPT ![s] = Append(@, sent[s] + 1)]
  /\ edge' = [edge EXCEPT ![s] = @ \/ interest[s] = "IN"]
  /\ UNCHANGED <<talk, got, out, eof, buf, written, m_srv_closed, open, interest, batch>>

\* What is in the send queue is delivered even after the session has ended.
PeerReceives(s) ==
  /\ ~eof[s]
  /\ out[s] # <<>>
  /\ got' = [got EXCEPT ![s] = Append(@, Head(out[s]))]
  /\ out' = [out EXCEPT ![s] = Tail(@)]
  /\ edge' = [edge EXCEPT ![s] = @ \/ (open /\ interest[s] = "OUT")]
  /\ UNCHANGED <<talk, sent, in, eof, buf, written, m_srv_closed, open, interest, batch>>

\* A close wakes the descriptor whatever its interest.
PeerCloses(s) ==
  /\ talk = "until closed"
  /\ open
  /\ ~eof[s]
  /\ eof' = [eof EXCEPT ![s] = TRUE]
  /\ edge' = [edge EXCEPT ![s] = TRUE]
  /\ UNCHANGED <<talk, sent, got, in, out, buf, written, m_srv_closed, open, interest, batch>>

Process ==
  \/ ReadClt \/ WriteClt \/ WriteCltFails \/ ReadSrv \/ WriteSrv \/ WriteSrvFails

Next ==
  \/ EpollWait
  \/ Process
  \/ \E s \in Side : PeerSends(s) \/ PeerReceives(s) \/ PeerCloses(s)

Spec == Init /\ [][Next]_vars

\* The child's loop runs; an end that has not closed keeps reading.  Nothing
\* makes an end send or close.
Fairness ==
  /\ WF_vars(EpollWait)
  /\ WF_vars(Process)
  /\ \A s \in Side : WF_vars(PeerReceives(s))

FairSpec == Spec /\ Fairness

-----------------------------------------------------------------------------
(* Properties. *)

Bytes == Nat \ {0}

\* Types and bounds: no buffer overruns BUF_SIZE, the write index never
\* passes the read index.
TypeOK ==
  /\ talk \in TALKS
  /\ sent \in [Side -> Nat]
  /\ got \in [Side -> Seq(Bytes)]
  /\ in \in [Side -> Seq(Bytes)]
  /\ out \in [Side -> Seq(Bytes)] /\ \A s \in Side : Len(out[s]) <= SOCK
  /\ eof \in [Side -> BOOLEAN]
  /\ buf \in [Side -> Seq(Bytes)] /\ \A s \in Side : Len(buf[s]) <= BUF_SIZE
  /\ written \in [Side -> Nat] /\ \A s \in Side : written[s] <= Len(buf[s])
  /\ m_srv_closed \in BOOLEAN
  /\ open \in BOOLEAN
  /\ interest \in [Side -> {"IN", "OUT"}]
  /\ edge \in [Side -> BOOLEAN]
  /\ batch \in Seq(Side \X {"IN", "OUT"})

Stream(n) == [i \in 1 .. n |-> i]

InFlight(s) == got[Peer(s)] \o out[Peer(s)] \o Drop(buf[s], written[s]) \o in[s]

\* While the session lives, what an end sent is exactly what the other end
\* has, followed by what the socket queues and the session's buffer hold for
\* it: no byte is lost, repeated or overtaken (the index arithmetic of
\* read_clt, read_srv, write_clt, write_srv).  When it has ended, what an end
\* received is still a prefix of what the other sent: free_conn drops a tail.
NothingLostInRelay ==
  \A s \in Side :
    /\ open => InFlight(s) = Stream(sent[s])
    /\ LET r == got[Peer(s)] \o out[Peer(s)] IN r = Stream(Len(r)) /\ Len(r) <= sent[s]

\* When a connection to the server is read until the buffer is full, the
\* client's end is written: the log message of read_srv says "let client
\* write" (conn.cpp 91).
FullBufferIsWritten == (open /\ Len(buf["srv"]) = BUF_SIZE) ~> (~open \/ Len(buf["srv"]) < BUF_SIZE)

\* Every byte an end sends arrives, as long as the ends speak in turn and read,
\* and neither closes.
EverythingArrives ==
  \A s \in Side : \A n \in 1 .. BYTES[s] :
    (talk = "in turn" /\ sent[s] >= n) ~> (Len(got[Peer(s)]) >= n)

\* A session whose client or server has closed ends, so that its descriptors
\* and its place in the pool come back (mgr.cpp 176-189, 208-221, 250-256).
CloseEndsSession == (eof["clt"] \/ eof["srv"]) ~> ~open
=============================================================================
