----------------------------- MODULE ChatClient -----------------------------
(***************************************************************************)
(* The clients of the group chat (app, chosen in Init):                    *)
(* highperformenceserver/group_chat/client_poll.c and HP/9/9-6mytalk_      *)
(* client.cpp.  Both poll stdin and the socket; the first keeps one line   *)
(* until the socket is writable and does not listen meanwhile, the second  *)
(* moves what is typed through a pipe, with calls that wait.               *)
(*                                                                         *)
(* Typed lines are numbered; the server's texts are counted.  stdin is a   *)
(* terminal or a file: its end is told as something to read.               *)
(***************************************************************************)
EXTENDS Naturals, Sequences

CONSTANTS
  PipeRoom,            \* lines that the pipe holds
  MaxTyped, MaxTexts   \* bounds: lines typed, texts of the server

VARIABLES
  app,      \* "poll" or "mytalk"
  at,       \* "start", "poll", "stdin", "socket", "pipe", "exit"
  stdin, typed, eof,   \* lines that wait, typed so far, whether there will be no more
  revents,  \* what poll has told: subset of {"typed", "in", "out", "rdhup"}
  interest, \* of the socket
  line,     \* poll: sendbuff, or 0
  pipe,     \* mytalk: lines in the pipe
  sent,     \* what the socket has been given
  inbox, texts, hup,   \* texts on their way, so far, whether the server has closed
  full      \* the socket takes nothing for now

typist == <<stdin, typed, eof>>
server == <<inbox, texts, hup, full>>
vars == <<app, at, typist, revents, interest, line, pipe, sent, server>>

Init ==
  /\ app \in {"poll", "mytalk"} /\ at = "start"
  /\ stdin = <<>> /\ typed = 0 /\ eof = FALSE
  /\ revents = {} /\ interest = {"in", "rdhup"} /\ line = 0 /\ pipe = <<>> /\ sent = <<>>
  /\ inbox = 0 /\ texts = 0 /\ hup = FALSE /\ full = FALSE

-----------------------------------------------------------------------------
(* Whoever types, and the server. *)

Types ==
  /\ ~eof /\ typed < MaxTyped
  /\ typed' = typed + 1 /\ stdin' = Append(stdin, typed + 1)
  /\ UNCHANGED <<app, at, eof, revents, interest, line, pipe, sent, server>>

TypesEnd ==
  /\ ~eof /\ eof' = TRUE
  /\ UNCHANGED <<app, at, stdin, typed, revents, interest, line, pipe, sent, server>>

ServerWrites ==
  /\ ~hup /\ texts < MaxTexts
  /\ texts' = texts + 1 /\ inbox' = inbox + 1
  /\ UNCHANGED <<app, at, typist, revents, interest, line, pipe, sent, hup, full>>

ServerCloses ==
  /\ ~hup /\ hup' = TRUE
  /\ UNCHANGED <<app, at, typist, revents, interest, line, pipe, sent, inbox, texts, full>>

Fills ==
  /\ full' = ~full
  /\ UNCHANGED <<app, at, typist, revents, interest, line, pipe, sent, inbox, texts, hup>>

Readable == stdin # <<>> \/ eof

-----------------------------------------------------------------------------
(* The beginning of both, and poll. *)

\* client_poll: the first address that answers.
CreateAndConnect ==
  /\ at = "start" /\ app = "poll"
  /\ at' \in {"poll", "exit"}
  /\ UNCHANGED <<app, typist, revents, interest, line, pipe, sent, server>>

\* 9-6: its one address; and the pipe.
MytalkConnect ==
  /\ at = "start" /\ app = "mytalk"
  /\ at' \in {"poll", "exit"}
  /\ UNCHANGED <<app, typist, revents, interest, line, pipe, sent, server>>

Revents ==
  (IF Readable THEN {"typed"} ELSE {})
    \union (interest \intersect ((IF inbox > 0 \/ hup THEN {"in"} ELSE {})
                                 \union (IF ~full THEN {"out"} ELSE {})
                                 \union (IF hup THEN {"rdhup"} ELSE {})))

Poll ==
  /\ at = "poll" /\ Revents # {}
  /\ revents' = Revents /\ at' = IF app = "poll" THEN "stdin" ELSE "socket"
  /\ UNCHANGED <<app, typist, interest, line, pipe, sent, server>>

-----------------------------------------------------------------------------
(* client_poll *)

\* sendbuff is written over, sent or not.  At the end of stdin it is empty, and from
\* then on the socket is only asked whether it can be written.
ReadStdin ==
  /\ app = "poll" /\ at = "stdin"
  /\ IF "typed" \in revents
     THEN /\ line' = IF stdin = <<>> THEN 0 ELSE Head(stdin)
          /\ stdin' = IF stdin = <<>> THEN <<>> ELSE Tail(stdin)
          /\ interest' = (interest \ {"in"}) \union {"out"}
     ELSE UNCHANGED <<line, stdin, interest>>
  /\ at' = "socket"
  /\ UNCHANGED <<app, typed, eof, revents, pipe, sent, server>>

\* The reset of a connection is told as an error first, and only reported.
SocketError ==
  /\ app = "poll" /\ at = "socket" /\ "rdhup" \in revents
  /\ at' = "poll"
  /\ UNCHANGED <<app, typist, revents, interest, line, pipe, sent, server>>

\* Also when texts have not been shown yet.
ServerGone ==
  /\ app = "poll" /\ at = "socket" /\ "rdhup" \in revents
  /\ at' = "exit"
  /\ UNCHANGED <<app, typist, revents, interest, line, pipe, sent, server>>

Shows ==
  /\ app = "poll" /\ at = "socket" /\ "rdhup" \notin revents /\ "in" \in revents
  /\ inbox' \in 0 .. inbox - 1 /\ at' = "poll"
  /\ UNCHANGED <<app, typist, revents, interest, line, pipe, sent, texts, hup, full>>

\* Mutant of SendLine: what to listen to is left as it is.
SendLineOnly ==
  /\ app = "poll" /\ at = "socket" /\ revents \intersect {"in", "rdhup"} = {} /\ "out" \in revents /\ line # 0
  /\ sent' = Append(sent, line) /\ line' = 0 /\ at' = "poll"
  /\ UNCHANGED <<app, typist, revents, interest, pipe, server>>

\* send takes the whole line when the socket is writable.
SendLine ==
  /\ app = "poll" /\ at = "socket" /\ revents \intersect {"in", "rdhup"} = {} /\ "out" \in revents /\ line # 0
  /\ sent' = Append(sent, line) /\ line' = 0
  /\ interest' = (interest \ {"out"}) \union {"in"} /\ at' = "poll"
  /\ UNCHANGED <<app, typist, revents, pipe, server>>

NothingToSend ==
  /\ app = "poll" /\ at = "socket" /\ revents \intersect {"in", "rdhup"} = {}
  /\ "out" \in revents => line = 0
  /\ at' = "poll"
  /\ UNCHANGED <<app, typist, revents, interest, line, pipe, sent, server>>

-----------------------------------------------------------------------------
(* 9-6 *)

MytalkGone ==
  /\ app = "mytalk" /\ at = "socket" /\ "rdhup" \in revents
  /\ at' = "exit"
  /\ UNCHANGED <<app, typist, revents, interest, line, pipe, sent, server>>

MytalkShows ==
  /\ app = "mytalk" /\ at = "socket" /\ "rdhup" \notin revents
  /\ inbox' \in IF "in" \in revents THEN 0 .. inbox - 1 ELSE {inbox}
  /\ at' = IF "typed" \in revents THEN "stdin" ELSE "poll"
  /\ UNCHANGED <<app, typist, revents, interest, line, pipe, sent, texts, hup, full>>

\* As much of what is typed as the pipe holds.
IntoPipe ==
  /\ app = "mytalk" /\ at = "stdin"
  /\ LET k == IF Len(stdin) < PipeRoom THEN Len(stdin) ELSE PipeRoom
     IN /\ pipe' = SubSeq(stdin, 1, k)
        /\ stdin' = SubSeq(stdin, k + 1, Len(stdin))
  /\ at' = "pipe"
  /\ UNCHANGED <<app, typed, eof, revents, interest, line, sent, server>>

\* It waits for the socket; and, when nothing came from stdin, for ever.
OutOfPipe ==
  /\ at = "pipe" /\ pipe # <<>> /\ ~full
  /\ sent' = sent \o pipe /\ pipe' = <<>> /\ at' = "poll"
  /\ UNCHANGED <<app, typist, revents, interest, line, server>>

-----------------------------------------------------------------------------
Next ==
  \/ Types \/ TypesEnd \/ ServerWrites \/ ServerCloses \/ Fills
  \/ CreateAndConnect \/ MytalkConnect \/ Poll
  \/ ReadStdin \/ SocketError \/ ServerGone \/ Shows \/ SendLine \/ NothingToSend
  \/ MytalkGone \/ MytalkShows \/ IntoPipe \/ OutOfPipe

Spec == Init /\ [][Next]_vars

-----------------------------------------------------------------------------
(* Properties. *)

\* Types.
TypeOK ==
  /\ app \in {"poll", "mytalk"} /\ at \in {"start", "poll", "stdin", "socket", "pipe", "exit"}
  /\ stdin \in Seq(1 .. MaxTyped) /\ typed \in 0 .. MaxTyped /\ eof \in BOOLEAN
  /\ revents \subseteq {"typed", "in", "out", "rdhup"} /\ interest \subseteq {"in", "out", "rdhup"}
  /\ line \in 0 .. MaxTyped /\ pipe \in Seq(1 .. MaxTyped) /\ sent \in Seq(1 .. MaxTyped)
  /\ inbox \in 0 .. MaxTexts /\ texts \in 0 .. MaxTexts /\ hup \in BOOLEAN /\ full \in BOOLEAN

\* The server is given lines in the order they were typed and none twice; 9-6 loses
\* none of them.  client_poll listens to the server whenever it has nothing to send,
\* and only then, as long as stdin has not ended.
LinesInOrder ==
  /\ \A a, b \in 1 .. Len(sent) : a < b => sent[a] < sent[b]
  /\ app = "mytalk" => sent \o pipe \o stdin = [k \in 1 .. typed |-> k]
  /\ app = "poll" /\ at = "poll" /\ ~eof => (line = 0 <=> "in" \in interest)
=============================================================================
