-------------------------------- MODULE MCChat --------------------------------
(* The chat servers, their clients, and a connect with a timeout.  which, chosen *)
(* in Init, says whose behaviour it is; the others' variables stay as they are   *)
(* at first.                                                                     *)
(*                                                                               *)
(* Shm: two pids and two users.  Chat: three clients in a table of three, so     *)
(* that the last is moved into the place of another that leaves.  Client: a pipe *)
(* of one line.                                                                  *)
EXTENDS ShmTalk, TLC
CONSTANTS Fds, MAX_CLIENT_NUM, MaxChatCame, MaxChatTexts
CONSTANTS PipeRoom, MaxTyped, MaxClientTexts

\* ChatClient: what the pipe holds.  GroupChat: no descriptor is NULL.
ASSUME ChatAssumption == PipeRoom \in Nat /\ "NULL" \notin Fds

VARIABLES chat_kind, chat_at, chat_i, pfd, wb, rb, chat_backlog, arrival, chat_input, chat_hup, chat_came, chat_texts,
          due, said, overwritten
VARIABLES app, client_at, stdin, typed, eof, revents, interest, line, pipe, sent, inbox, client_texts, client_hup, full
VARIABLES how, call_at, sock, timer, handler, stray, told
VARIABLE which

Chat == INSTANCE GroupChat WITH
  MaxCame <- MaxChatCame, MaxTexts <- MaxChatTexts, kind <- chat_kind, at <- chat_at, i <- chat_i, backlog <- chat_backlog,
  input <- chat_input, hup <- chat_hup, came <- chat_came, texts <- chat_texts
Client == INSTANCE ChatClient WITH
  MaxTexts <- MaxClientTexts, at <- client_at, texts <- client_texts, hup <- client_hup
Call == INSTANCE ConnectTimeout WITH at <- call_at

chatvars == <<chat_kind, chat_at, chat_i, pfd, wb, rb, chat_backlog, arrival, chat_input, chat_hup, chat_came, chat_texts,
              due, said, overwritten>>
clientvars == <<app, client_at, stdin, typed, eof, revents, interest, line, pipe, sent, inbox, client_texts,
                client_hup, full>>
callvars == <<how, call_at, sock, timer, handler, stray, told>>

MCInit ==
  /\ which \in {"shm", "chat", "client", "call"}
  /\ Init
  /\ Chat!Init /\ (which # "chat" => chat_kind = "poll")
  /\ Client!Init /\ (which # "client" => app = "poll")
  /\ Call!Init /\ (which # "call" => how = "select")

MCNext ==
  \/ which = "shm" /\ Next /\ UNCHANGED <<chatvars, clientvars, callvars, which>>
  \/ which = "chat" /\ Chat!Next /\ UNCHANGED <<vars, clientvars, callvars, which>>
  \/ which = "client" /\ Client!Next /\ UNCHANGED <<vars, chatvars, callvars, which>>
  \/ which = "call" /\ Call!Next /\ UNCHANGED <<vars, chatvars, clientvars, which>>

MCSpec == MCInit /\ [][MCNext]_<<vars, chatvars, clientvars, callvars, which>>

\* The descriptors of GroupChat are only told apart.
Symmetry == Permutations(Fds)

\* A server that stops leaves no child (ShmTalk's NoChildLeft); a pass over a table that
\* changes under it comes to every entry once, and what an entry has coming is the newest
\* text of others, unless a copied entry has overwritten it (GroupChat's
\* PassesOverNobody: an older text is given up for a newer one, server_poll.c:234);
\* lines keep their order (ChatClient's LinesInOrder: client_poll may give up a line for
\* the next, 9-6 none); a late answer is not taken for one in time (ConnectTimeout's
\* LateAnswerIsNotTaken).
NothingGoesAstray ==
  NoChildLeft /\ Chat!PassesOverNobody /\ Client!LinesInOrder /\ Call!LateAnswerIsNotTaken
=============================================================================
