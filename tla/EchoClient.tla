----------------------------- MODULE EchoClient -----------------------------
(***************************************************************************)
(* Four clients that send what is typed and show what comes back (kind,    *)
(* chosen in Init), with the server of 26chp/v1/tcpserv01.c:               *)
(*   nonb    16chp/strclinonb.c: one process, no call but select blocks    *)
(*   select  6chp/tcpcli05.c: one process, select, and blocking writes     *)
(*   fork    16chp/strclifork.c: a child shows, the parent sends           *)
(*   thread  26chp/v1/tcpcli01.c: a thread sends, main shows               *)
(* Of a text only its length is kept.                                      *)
(***************************************************************************)
EXTENDS Naturals

CONSTANTS
  MAXLINE,   \* the programs' buffers
  Room,      \* a socket's buffers, in each direction
  MaxTyped   \* bound: what is ever typed

VARIABLES
  kind,
  pc,        \* of the process that sends: "select", "stdin", "socket", "stdout", "write" or "pause"
  shower,    \* fork, thread: "read" or "show"
  ready,     \* what select has found: "in", "out", "read", "write"
  stdineof,
  toiptr, tooptr, friptr, froptr,
  typed, eof, total,         \* what waits at stdin, that it ends after it; all that was typed
  fin, up, server, down,     \* the client's end of sending, what is on its way, at the server, on its way back
  echo, died,                \* the server: "read", "write" or "closed"; it was killed
  shown,
  end        \* of the client: "not", "normal", "early" (said by an error) or "killed"

to == <<toiptr, tooptr>>
fr == <<friptr, froptr>>
keys == <<typed, eof, total>>
net == <<fin, up, down>>
serv == <<server, echo, died>>
vars == <<kind, pc, shower, ready, stdineof, to, fr, keys, net, serv, shown, end>>

Single == kind \in {"nonb", "select"}

Init ==
  /\ kind \in {"nonb", "select", "fork", "thread"}
  /\ pc = (IF Single THEN "select" ELSE "stdin") /\ shower = "read" /\ ready = {} /\ stdineof = FALSE
  /\ toiptr = 0 /\ tooptr = 0 /\ friptr = 0 /\ froptr = 0
  /\ typed = 0 /\ eof = FALSE /\ total = 0
  /\ fin = FALSE /\ up = 0 /\ server = 0 /\ down = 0 /\ echo = "read" /\ died = FALSE
  /\ shown = 0 /\ end = "not"

-----------------------------------------------------------------------------
(* Around the client. *)

Types ==
  /\ ~eof /\ total < MaxTyped
  /\ typed' = typed + 1 /\ total' = total + 1
  /\ UNCHANGED <<kind, pc, shower, ready, stdineof, to, fr, eof, net, serv, shown, end>>

TypesEnd ==
  /\ ~eof /\ eof' = TRUE
  /\ UNCHANGED <<kind, pc, shower, ready, stdineof, to, fr, typed, total, net, serv, shown, end>>

\* str_echo.
ServerReads ==
  /\ echo = "read" /\ up > 0
  /\ \E n \in 1 .. MAXLINE : n <= up /\ server' = n /\ up' = up - n
  /\ echo' = "write"
  /\ UNCHANGED <<kind, pc, shower, ready, stdineof, to, fr, keys, fin, down, died, shown, end>>

ServerWrites ==
  /\ echo = "write" /\ down < Room
  /\ server' = server - 1 /\ down' = down + 1
  /\ echo' = IF server = 1 THEN "read" ELSE "write"
  /\ UNCHANGED <<kind, pc, shower, ready, stdineof, to, fr, keys, fin, up, died, shown, end>>

ServerCloses ==
  /\ echo = "read" /\ up = 0 /\ fin
  /\ echo' = "closed"
  /\ UNCHANGED <<kind, pc, shower, ready, stdineof, to, fr, keys, net, server, died, shown, end>>

ServerDies ==
  /\ echo # "closed"
  /\ echo' = "closed" /\ died' = TRUE /\ server' = 0 /\ up' = 0
  /\ UNCHANGED <<kind, pc, shower, ready, stdineof, to, fr, keys, fin, down, shown, end>>

-----------------------------------------------------------------------------
(* The parts all clients have. *)

Runs == end = "not"
Goto(from, next) == Runs /\ pc = from /\ pc' = next

\* n is read from stdin, or written to the socket; after a server's death that is lost.
Reads(n) == n <= typed /\ typed' = typed - n /\ UNCHANGED <<eof, total>>
Sendable(n) == echo = "closed" \/ up + n <= Room
Sends(n) == Sendable(n) /\ up' = (IF echo = "closed" THEN up ELSE up + n) /\ UNCHANGED <<fin, down>>
Receives(n) == n <= down /\ down' = down - n /\ UNCHANGED <<fin, up>>
Readable == down > 0 \/ echo = "closed"

Shutdown == fin' = TRUE /\ UNCHANGED <<up, down>>

\* SIGPIPE.
Killed ==
  /\ Runs /\ pc = "write" /\ died /\ tooptr # toiptr
  /\ end' = "killed"
  /\ UNCHANGED <<kind, pc, shower, ready, stdineof, to, fr, keys, net, serv, shown>>

-----------------------------------------------------------------------------
(* nonb: a round of the loop is select and then, in this order, stdin, socket, *)
(* stdout and write, of which a descriptor that is not ready is passed. *)

NonbSelect ==
  /\ kind = "nonb" /\ Goto("select", "stdin")
  /\ ready' =
       (IF ~stdineof /\ toiptr < MAXLINE /\ (typed > 0 \/ eof) THEN {"in"} ELSE {})
         \union (IF friptr < MAXLINE /\ Readable THEN {"read"} ELSE {})
         \union (IF tooptr # toiptr /\ Sendable(1) THEN {"write"} ELSE {})
         \union (IF froptr # friptr THEN {"out"} ELSE {})
  /\ ready' # {}
  /\ UNCHANGED <<kind, shower, stdineof, to, fr, keys, net, serv, shown, end>>

NonbStdin ==
  /\ kind = "nonb" /\ Goto("stdin", "socket") /\ "in" \in ready
  /\ \E n \in 1 .. MAXLINE - toiptr : Reads(n) /\ toiptr' = toiptr + n
  /\ ready' = ready \union {"write"}
  /\ UNCHANGED <<kind, shower, stdineof, tooptr, fr, net, serv, shown, end>>

\* Mutant of NonbStdinEnd: the end is sent before what was typed.
NonbStdinEndAtOnce ==
  /\ kind = "nonb" /\ Goto("stdin", "socket") /\ "in" \in ready /\ typed = 0
  /\ stdineof' = TRUE
  /\ Shutdown
  /\ UNCHANGED <<kind, shower, ready, to, fr, keys, serv, shown, end>>

NonbStdinEnd ==
  /\ kind = "nonb" /\ Goto("stdin", "socket") /\ "in" \in ready /\ typed = 0
  /\ stdineof' = TRUE
  /\ IF tooptr = toiptr THEN Shutdown ELSE UNCHANGED net
  /\ UNCHANGED <<kind, shower, ready, to, fr, keys, serv, shown, end>>

NonbSocket ==
  /\ kind = "nonb" /\ Goto("socket", "stdout") /\ "read" \in ready
  /\ \E n \in 1 .. MAXLINE - friptr : Receives(n) /\ friptr' = friptr + n
  /\ ready' = ready \union {"out"}
  /\ UNCHANGED <<kind, shower, stdineof, to, froptr, keys, serv, shown, end>>

\* What waits for stdout is not shown.
NonbSocketEnd ==
  /\ kind = "nonb" /\ Goto("socket", "stdout") /\ "read" \in ready /\ down = 0
  /\ end' = IF stdineof THEN "normal" ELSE "early"
  /\ UNCHANGED <<kind, shower, ready, stdineof, to, fr, keys, net, serv, shown>>

\* Mutant of NonbStdout: the pointers stay at the buffer's end when all is written.
NonbStdoutNoRewind ==
  /\ kind = "nonb" /\ Goto("stdout", "write") /\ "out" \in ready
  /\ \E n \in 0 .. friptr - froptr : shown' = shown + n /\ froptr' = froptr + n
  /\ UNCHANGED <<kind, shower, ready, stdineof, to, friptr, keys, net, serv, end>>

\* write takes a part, or nothing when it would block.
NonbStdout ==
  /\ kind = "nonb" /\ Goto("stdout", "write") /\ "out" \in ready
  /\ \E n \in 0 .. friptr - froptr :
       /\ shown' = shown + n
       /\ IF froptr + n = friptr THEN froptr' = 0 /\ friptr' = 0 ELSE froptr' = froptr + n /\ UNCHANGED friptr
  /\ UNCHANGED <<kind, shower, ready, stdineof, to, keys, net, serv, end>>

NonbWrite ==
  /\ kind = "nonb" /\ Goto("write", "select") /\ "write" \in ready
  /\ \E n \in 0 .. toiptr - tooptr :
       /\ n > 0 => Sendable(n)
       /\ IF n > 0 /\ tooptr + n = toiptr
          THEN /\ tooptr' = 0 /\ toiptr' = 0
               /\ up' = IF echo = "closed" THEN up ELSE up + n
               /\ fin' = (fin \/ stdineof) /\ UNCHANGED down
          ELSE Sends(n) /\ tooptr' = tooptr + n /\ UNCHANGED toiptr
  /\ UNCHANGED <<kind, shower, ready, stdineof, fr, keys, serv, shown, end>>

NonbNotReady ==
  /\ kind = "nonb"
  /\ \/ Goto("stdin", "socket") /\ "in" \notin ready
     \/ Goto("socket", "stdout") /\ "read" \notin ready
     \/ Goto("stdout", "write") /\ "out" \notin ready
     \/ Goto("write", "select") /\ "write" \notin ready
  /\ UNCHANGED <<kind, shower, ready, stdineof, to, fr, keys, net, serv, shown, end>>

-----------------------------------------------------------------------------
(* select: the writes wait until everything has been taken. *)

SelSelect ==
  /\ kind = "select"
  /\ ready' = (IF ~stdineof /\ (typed > 0 \/ eof) THEN {"in"} ELSE {}) \union (IF Readable THEN {"read"} ELSE {})
  /\ ready' # {}
  /\ Goto("select", IF "read" \in ready' THEN "socket" ELSE "stdin")
  /\ UNCHANGED <<kind, shower, stdineof, to, fr, keys, net, serv, shown, end>>

SelSocket ==
  /\ kind = "select" /\ Goto("socket", IF "in" \in ready THEN "stdin" ELSE "select")
  /\ IF down = 0
     THEN end' = (IF stdineof THEN "normal" ELSE "early") /\ UNCHANGED <<net, shown>>
     ELSE /\ \E n \in 1 .. MAXLINE : (n = MAXLINE \/ n = down) /\ Receives(n) /\ shown' = shown + n
          /\ UNCHANGED end
  /\ UNCHANGED <<kind, shower, ready, stdineof, to, fr, keys, serv>>

SelStdin ==
  /\ kind = "select" /\ Goto("stdin", IF typed = 0 THEN "select" ELSE "write")
  /\ IF typed = 0
     THEN stdineof' = TRUE /\ Shutdown /\ UNCHANGED <<toiptr, keys>>
     ELSE /\ \E n \in 1 .. MAXLINE : Reads(n) /\ toiptr' = n
          /\ UNCHANGED <<stdineof, net>>
  /\ UNCHANGED <<kind, shower, ready, tooptr, fr, serv, shown, end>>

-----------------------------------------------------------------------------
(* fork and thread: the one that sends ... *)

Fgets ==
  /\ ~Single /\ Goto("stdin", "write") /\ Reads(1)
  /\ toiptr' = 1
  /\ UNCHANGED <<kind, shower, ready, stdineof, tooptr, fr, net, serv, shown, end>>

FgetsEnd ==
  /\ ~Single /\ Goto("stdin", "pause") /\ typed = 0 /\ eof
  /\ stdineof' = TRUE /\ Shutdown
  /\ UNCHANGED <<kind, shower, ready, to, fr, keys, serv, shown, end>>

\* writen, and the write of select.
Writen ==
  /\ kind # "nonb" /\ Goto("write", IF tooptr + 1 < toiptr THEN "write" ELSE IF Single THEN "select" ELSE "stdin")
  /\ Sends(1)
  /\ IF tooptr + 1 = toiptr THEN tooptr' = 0 /\ toiptr' = 0 ELSE tooptr' = tooptr + 1 /\ UNCHANGED toiptr
  /\ UNCHANGED <<kind, shower, ready, stdineof, fr, keys, serv, shown, end>>

\* ... and the one that shows.
Readline ==
  /\ ~Single /\ Runs /\ shower = "read" /\ Receives(1)
  /\ shower' = "show"
  /\ UNCHANGED <<kind, pc, ready, stdineof, to, fr, keys, serv, shown, end>>

Fputs ==
  /\ ~Single /\ Runs /\ shower = "show"
  /\ shown' = shown + 1 /\ shower' = "read"
  /\ UNCHANGED <<kind, pc, ready, stdineof, to, fr, keys, net, serv, end>>

\* fork: the child, at the server's end, ends its parent, be it in pause or not.
ChildEnds ==
  /\ kind = "fork" /\ Runs /\ shower = "read" /\ down = 0 /\ echo = "closed"
  /\ end' = "normal"
  /\ UNCHANGED <<kind, pc, shower, ready, stdineof, to, fr, keys, net, serv, shown>>

\* thread: main returns, and exit ends the other.
MainEnds ==
  /\ kind = "thread" /\ Runs /\ shower = "read" /\ down = 0 /\ echo = "closed"
  /\ end' = "normal"
  /\ UNCHANGED <<kind, pc, shower, ready, stdineof, to, fr, keys, net, serv, shown>>

-----------------------------------------------------------------------------
Nonb ==
  \/ NonbSelect \/ NonbStdin \/ NonbStdinEnd \/ NonbSocket \/ NonbSocketEnd
  \/ NonbStdout \/ NonbWrite \/ NonbNotReady
Sender == Nonb \/ SelSelect \/ SelSocket \/ SelStdin \/ Fgets \/ FgetsEnd \/ Writen
Shower == Readline \/ Fputs \/ ChildEnds \/ MainEnds
Server == ServerReads \/ ServerWrites \/ ServerCloses

Next == Types \/ TypesEnd \/ Server \/ ServerDies \/ Sender \/ Shower \/ Killed

Spec == Init /\ [][Next]_vars

\* The terminal shows what is written to it, in time, and a socket with room takes
\* something in time.
Shows == NonbStdout /\ shown' > shown
Takes == NonbWrite /\ to' # to

Fairness ==
  /\ WF_vars(Server) /\ WF_vars(Sender) /\ WF_vars(Shower)
  /\ SF_vars(Shows) /\ SF_vars(Takes)
FairSpec == Spec /\ Fairness

-----------------------------------------------------------------------------
(* Properties. *)

\* Types.
TypeOK ==
  /\ pc \in {"select", "stdin", "socket", "stdout", "write", "pause"} /\ shower \in {"read", "show"}
  /\ ready \subseteq {"in", "out", "read", "write"} /\ {stdineof, eof, fin, died} \subseteq BOOLEAN
  /\ {toiptr, tooptr, friptr, froptr} \subseteq 0 .. MAXLINE /\ {typed, total, shown} \subseteq 0 .. MaxTyped
  /\ {up, down} \subseteq 0 .. Room /\ server \in 0 .. MAXLINE
  /\ echo \in {"read", "write", "closed"} /\ end \in {"not", "normal", "early", "killed"}

\* The end is sent after all that was typed, and a client whose server lived ends
\* normally, when all has come back and been shown; but nonb does not show what
\* waits for stdout then (strclinonb.c:76).
NothingDropped ==
  /\ fin => typed = 0 /\ eof /\ tooptr = toiptr
  /\ end # "not" /\ ~died => end = "normal" /\ total = shown + (friptr - froptr) /\ stdineof

\* However the buffers are filled, client and server do not both wait for the other to
\* read; and so whoever ends the input sees the client end.  But the client of 6chp
\* writes without asking whether there is room (tcpcli05.c:78), and then nobody reads
\* what the server writes: that one ends if what is typed does not fill the buffers.
EchoEnds == eof /\ (kind = "select" => total <= 2 * Room) ~> end # "not"
=============================================================================
