--------------------------- MODULE ConnectTimeout ---------------------------
(***************************************************************************)
(* A connect that does not wait for ever, in the three ways of the code    *)
(* (how, chosen in Init): "alarm", 14chp/connect_timeo.c, whose alarm      *)
(* interrupts connect; "select", HP/9/9-5unblockconnect.cpp, which waits   *)
(* in select; "sndtimeo", HP/11/11-1connect_timeout.cpp, the socket's own  *)
(* timeout.  The server's answer may come at any time, late ones too.      *)
(***************************************************************************)

VARIABLES
  how,
  at,       \* where the call is; at the end "returned", "failed" or "killed"
  sock,     \* "none", "new", "connecting", "connected", "refused" or "closed"
  timer,    \* "off", "ours", or the "caller's" own alarm
  handler,  \* of SIGALRM: "caller's" or "connect_alarm"
  stray,    \* select: another descriptor is in writefds, which is never zeroed
  told      \* select: it says that this socket is writable

signals == <<timer, handler>>
vars == <<how, at, sock, signals, stray, told>>

Init ==
  /\ how \in {"alarm", "select", "sndtimeo"}
  /\ at = "start"
  /\ sock \in IF how = "alarm" THEN {"new"} ELSE {"none"}
  /\ timer \in IF how = "alarm" THEN {"off", "caller's"} ELSE {"off"}
  /\ handler = "caller's" /\ stray = FALSE /\ told = FALSE

-----------------------------------------------------------------------------
(* The kernel: the handshake goes on whatever the program does, until close. *)

Answer ==
  /\ sock = "connecting"
  /\ sock' \in {"connected", "refused"}
  /\ UNCHANGED <<how, at, signals, stray, told>>

\* It rings once.  connect, when the program waits in it, is interrupted.
Ring ==
  /\ timer # "off" /\ how = "alarm"
  /\ timer' = "off"
  /\ at' = CASE handler = "connect_alarm" /\ at = "waits" -> "interrupted"
             [] handler = "caller's" /\ timer = "ours" -> "killed"
             [] OTHER -> at
  /\ UNCHANGED <<how, sock, handler, stray, told>>

\* The time of a wait in the kernel is over.
TimedOut == timer = "ours"

-----------------------------------------------------------------------------
(* connect_timeo *)

SetHandler ==
  /\ how = "alarm" /\ at = "start"
  /\ handler' = "connect_alarm" /\ at' = "alarm"
  /\ UNCHANGED <<how, sock, timer, stray, told>>

\* An alarm of the caller's is reported, and is no more.
SetAlarm ==
  /\ at = "alarm"
  /\ timer' = "ours" /\ at' = "connect"
  /\ UNCHANGED <<how, sock, handler, stray, told>>

\* An alarm that rings before this is lost: connect will wait as long as it likes.
Connect ==
  /\ at = "connect"
  /\ sock' \in {"connecting", "refused"} /\ at' = "waits"
  /\ UNCHANGED <<how, signals, stray, told>>

\* Nothing is closed when the connection is there, even if the alarm has just rung.
ConnectReturns ==
  /\ how = "alarm"
  /\ \/ at = "waits" /\ sock = "connected" /\ UNCHANGED sock
     \/ at = "waits" /\ sock = "refused" /\ sock' = "closed"
     \/ at = "interrupted" /\ sock' = "closed"
  /\ at' = "alarm off"
  /\ UNCHANGED <<how, signals, stray, told>>

\* Mutant of AlarmOff: the old handler first.
AlarmOffLate ==
  /\ at = "alarm off"
  /\ handler' = "caller's" /\ at' = "restore"
  /\ UNCHANGED <<how, sock, timer, stray, told>>

AlarmOff ==
  /\ at = "alarm off"
  /\ timer' = "off" /\ at' = "restore"
  /\ UNCHANGED <<how, sock, handler, stray, told>>

Restore ==
  /\ at = "restore"
  /\ handler' = "caller's"
  /\ at' = IF sock = "connected" THEN "returned" ELSE "failed"
  /\ UNCHANGED <<how, sock, timer, stray, told>>

-----------------------------------------------------------------------------
(* unblock_connect *)

\* An error other than EINPROGRESS leaves the socket open.
Unblocked ==
  /\ how = "select" /\ at = "start"
  /\ \/ sock' = "connected" /\ at' = "returned" /\ UNCHANGED <<timer, stray>>
     \/ sock' = "refused" /\ at' = "unsupported" /\ UNCHANGED <<timer, stray>>
     \/ sock' = "connecting" /\ at' = "select" /\ timer' = "ours" /\ stray' \in BOOLEAN
  /\ UNCHANGED <<how, handler, told>>

\* What stray stands for may be writable, or not be open at all.
Select ==
  /\ at = "select"
  /\ \/ /\ sock \in {"connected", "refused"} \/ stray
        /\ told' = (sock \in {"connected", "refused"})
        /\ at' = "look" /\ UNCHANGED sock
     \/ /\ TimedOut \/ stray
        /\ sock' = "closed" /\ at' = "failed" /\ UNCHANGED told
  /\ timer' = "off"
  /\ UNCHANGED <<how, handler, stray>>

NoEvent ==
  /\ at = "look" /\ ~told
  /\ sock' = "closed" /\ at' = "failed"
  /\ UNCHANGED <<how, signals, stray, told>>

\* SO_ERROR.
GetError ==
  /\ at = "look" /\ told
  /\ IF sock = "refused"
     THEN sock' = "closed" /\ at' = "failed"
     ELSE at' = "returned" /\ UNCHANGED sock
  /\ UNCHANGED <<how, signals, stray, told>>

-----------------------------------------------------------------------------
(* timeout_connect *)

SendTimeout ==
  /\ how = "sndtimeo" /\ at = "start"
  /\ sock' \in {"connecting", "refused"} /\ timer' = "ours" /\ at' = "timed"
  /\ UNCHANGED <<how, handler, stray, told>>

\* When it fails the socket stays open, and its handshake goes on.
Timed ==
  /\ at = "timed"
  /\ \/ sock = "connected" /\ at' = "returned"
     \/ (sock = "refused" \/ TimedOut) /\ at' = "failed"
  /\ timer' = "off"
  /\ UNCHANGED <<how, sock, handler, stray, told>>

-----------------------------------------------------------------------------
Next ==
  \/ Answer \/ Ring
  \/ SetHandler \/ SetAlarm \/ Connect \/ ConnectReturns \/ AlarmOff \/ Restore
  \/ Unblocked \/ Select \/ NoEvent \/ GetError
  \/ SendTimeout \/ Timed

Spec == Init /\ [][Next]_vars

-----------------------------------------------------------------------------
(* Properties. *)

\* Types.
TypeOK ==
  /\ how \in {"alarm", "select", "sndtimeo"}
  /\ at \in {"start", "alarm", "connect", "waits", "interrupted", "alarm off", "restore", "select", "look",
             "timed", "unsupported", "returned", "failed", "killed"}
  /\ sock \in {"none", "new", "connecting", "connected", "refused", "closed"}
  /\ timer \in {"off", "ours", "caller's"} /\ handler \in {"caller's", "connect_alarm"}
  /\ stray \in BOOLEAN /\ told \in BOOLEAN

\* Whenever the alarm and the answer come, the caller that gets a socket gets one that
\* is connected, with its handler back and no alarm running; one that is told of
\* failure has no socket that connects later (but of sndtimeo's); and our alarm never
\* finds the caller's handler.
LateAnswerIsNotTaken ==
  /\ at # "killed"
  /\ at = "returned" => sock = "connected"
  /\ at = "failed" /\ how # "sndtimeo" => sock = "closed"
  /\ at \in {"returned", "failed"} => timer # "ours" /\ handler = "caller's"
=============================================================================
