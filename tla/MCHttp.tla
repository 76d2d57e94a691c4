-------------------------------- MODULE MCHttp --------------------------------
(* The web server on the thread pool, and the parser of 8-3.  which, chosen in    *)
(* Init, says whose behaviour it is; the other's variables stay as they are.      *)
(*                                                                                *)
(* Server: two descriptors for three clients, so that numbers come back while a   *)
(* worker is still closing; the pool's list holds both.  Parser: up to three      *)
(* lines, of which the first is a request, with a path or with an address, one    *)
(* without a version, something else or nothing, and any may end as it should not. *)
EXTENDS HttpServer
CONSTANTS w1, w2, Texts, BUFFER_SIZE

\* A text is a sequence of characters.
ASSUME ParserAssumption == BUFFER_SIZE \in Nat /\ \A t \in Texts : t \in Seq(STRING)

VARIABLES at, text, read_index, checked_index, start_line, checkstate, result
VARIABLE which

MCWorkers == {w1, w2}
MCFds == {5, 6}

Firsts == {<<>>, <<"G", " ", "/", " ", "V">>, <<"G", " ", "h", "/", " ", "V">>, <<"G", " ", "/">>, <<"X">>}
Ends == {<<"r", "n">>, <<"n">>, <<"r">>}
Others == {line \o end : line \in {<<>>, <<"X">>}, end \in Ends}
MCTexts == {first \o end \o header \o last : first \in Firsts, end \in Ends, header \in Others, last \in Others}

Parser == INSTANCE HttpParser

parservars == <<at, text, read_index, checked_index, start_line, checkstate, result>>

MCInit ==
  /\ which \in {"server", "parser"}
  /\ Init
  /\ Parser!Init /\ (which # "parser" => text = <<"X", "r", "n", "r", "n", "r", "n">>)

MCNext ==
  \/ which = "server" /\ Next /\ UNCHANGED <<parservars, which>>
  \/ which = "parser" /\ Parser!Next /\ UNCHANGED <<vars, which>>

MCSpec ==
  /\ MCInit /\ [][MCNext]_<<vars, parservars, which>>
  /\ WF_vars(which = "server" /\ Main)
  /\ \A w \in Workers : WF_vars(which = "server" /\ Work(w))
  /\ \A fd \in Fds : WF_vars(which = "server" /\ PeerReads(fd)) /\ SF_vars(which = "server" /\ WriteAll(fd))

\* What HttpParser says.
CutsDoNotMatter == Parser!CutsDoNotMatter
=============================================================================
