----------------------------- MODULE HttpParser -----------------------------
(***************************************************************************)
(* HP/8/8-3httpparser.cpp: a request is judged while it arrives in pieces. *)
(* A character is a letter, of which "G" stands for GET, "V" for HTTP/1.1, *)
(* "h" for http:// and "X" for everything else, or a blank, or "r" or "n", *)
(* the two that end a line.                                                *)
(***************************************************************************)
EXTENDS Naturals, Sequences

CONSTANTS
  Texts,       \* what a client may send
  BUFFER_SIZE

VARIABLES
  at,          \* "recv", "parse" or "done"
  text,        \* what the client sends
  read_index, checked_index, start_line,
  checkstate,  \* "REQUESTLINE" or "HEADER"
  result       \* "NO_REQUEST", "GET_REQUEST", "BAD_REQUEST", "closed" or "failed"

place == <<checked_index, start_line, checkstate>>
vars == <<at, text, read_index, place, result>>

Init ==
  /\ at = "recv" /\ text \in Texts
  /\ read_index = 0 /\ checked_index = 0 /\ start_line = 0
  /\ checkstate = "REQUESTLINE" /\ result = "NO_REQUEST"

\* The program counts from 0.
Char(k) == text[k + 1]

\* The first of the positions in S, or else the one after.
FirstOf(S, after) == IF S = {} THEN after ELSE CHOOSE k \in S : \A l \in S : k <= l

-----------------------------------------------------------------------------
(* recv. *)

Recv ==
  /\ at = "recv"
  /\ \E n \in 1 .. BUFFER_SIZE - read_index : read_index + n <= Len(text) /\ read_index' = read_index + n
  /\ at' = "parse"
  /\ UNCHANGED <<text, place, result>>

\* Nothing to read: the client has closed, or the buffer is full.
RecvNothing ==
  /\ at = "recv" /\ (read_index = Len(text) \/ read_index = BUFFER_SIZE)
  /\ at' = "done" /\ result' = "closed"
  /\ UNCHANGED <<text, read_index, place>>

RecvFails ==
  /\ at = "recv"
  /\ at' = "done" /\ result' = "failed"
  /\ UNCHANGED <<text, read_index, place>>

-----------------------------------------------------------------------------
(* parse_line: the next end of a line, or what looks like one. *)

Stop == FirstOf({k \in checked_index .. read_index - 1 : Char(k) \in {"r", "n"}}, read_index)

\* Mutant of LineOpen: a lone "r" at the end is passed.
LineOpenPasses ==
  /\ Stop < read_index => Char(Stop) = "r" /\ Stop + 1 = read_index
  /\ checked_index' = read_index

LineOpen ==
  /\ Stop < read_index => Char(Stop) = "r" /\ Stop + 1 = read_index
  /\ checked_index' = Stop

LineOk ==
  /\ Stop < read_index
  /\ \/ Char(Stop) = "r" /\ Stop + 1 < read_index /\ Char(Stop + 1) = "n" /\ checked_index' = Stop + 2
     \/ Char(Stop) = "n" /\ Stop > 1 /\ Char(Stop - 1) = "r" /\ checked_index' = Stop + 1

LineBad ==
  /\ Stop < read_index
  /\ IF Char(Stop) = "r"
     THEN Stop + 1 < read_index /\ Char(Stop + 1) # "n"
     ELSE ~(Stop > 1 /\ Char(Stop - 1) = "r")
  /\ UNCHANGED checked_index

\* The line that ends at checked_index'.
Line(start, next) == SubSeq(text, start + 1, next - 2)

-----------------------------------------------------------------------------
(* parse_requestline and parse_headers. *)

\* GET, a URL with a path, and the version, with blanks between.
IsRequest(line) ==
  LET N == Len(line)
      Blank(k) == line[k] = " "
      url == FirstOf({k \in 1 .. N : Blank(k)}, N + 1)
      path == FirstOf({k \in url .. N : ~Blank(k)}, N + 1)
      blank == FirstOf({k \in path .. N : Blank(k)}, N + 1)
      version == FirstOf({k \in blank .. N : ~Blank(k)}, N + 1)
  IN /\ SubSeq(line, 1, url - 1) = <<"G">> /\ blank <= N
     /\ SubSeq(line, version, N) = <<"V">>
     /\ line[path] = "/" \/ (line[path] = "h" /\ \E k \in path + 1 .. blank - 1 : line[k] = "/")

\* Of the headers only the empty line says anything.
IsEnd(line) == line = <<>>

-----------------------------------------------------------------------------
(* parse_content, line by line, and main after it. *)

RequestLine ==
  /\ at = "parse" /\ checkstate = "REQUESTLINE" /\ LineOk
  /\ start_line' = checked_index'
  /\ IF IsRequest(Line(start_line, checked_index'))
     THEN checkstate' = "HEADER" /\ UNCHANGED <<at, result>>
     ELSE at' = "done" /\ result' = "BAD_REQUEST" /\ UNCHANGED checkstate
  /\ UNCHANGED <<text, read_index>>

Header ==
  /\ at = "parse" /\ checkstate = "HEADER" /\ LineOk
  /\ start_line' = checked_index'
  /\ IF IsEnd(Line(start_line, checked_index'))
     THEN at' = "done" /\ result' = "GET_REQUEST"
     ELSE UNCHANGED <<at, result>>
  /\ UNCHANGED <<text, read_index, checkstate>>

BadLine ==
  /\ at = "parse" /\ LineBad
  /\ at' = "done" /\ result' = "BAD_REQUEST"
  /\ UNCHANGED <<text, read_index, start_line, checkstate>>

WaitsForMore ==
  /\ at = "parse" /\ LineOpen
  /\ at' = "recv"
  /\ UNCHANGED <<text, read_index, start_line, checkstate, result>>

-----------------------------------------------------------------------------
Next == Recv \/ RecvNothing \/ RecvFails \/ RequestLine \/ Header \/ BadLine \/ WaitsForMore
Spec == Init /\ [][Next]_vars

-----------------------------------------------------------------------------
(* Properties. *)

\* What a text deserves: its lines end with "r" and "n" together, the first is a
\* request, and an empty one ends it; what comes first counts.
Verdict(s) ==
  LET Ends == {k \in 1 .. Len(s) - 1 : s[k] = "r" /\ s[k + 1] = "n"}
      Flaws == {k \in 1 .. Len(s) : \/ s[k] = "r" /\ k < Len(s) /\ s[k + 1] # "n"
                                    \/ s[k] = "n" /\ k - 1 \notin Ends}
      flaw == FirstOf(Flaws, Len(s) + 1)
      first == FirstOf(Ends, Len(s) + 1)
      empty == FirstOf({k \in Ends : k > first /\ k - 2 \in Ends}, Len(s) + 1)
  IN IF first < flaw /\ first < Len(s) /\ ~IsRequest(SubSeq(s, 1, first - 1)) THEN "BAD_REQUEST"
     ELSE IF empty < flaw /\ empty < Len(s) THEN "GET_REQUEST"
     ELSE IF flaw <= Len(s) THEN "BAD_REQUEST" ELSE "NO_REQUEST"

\* Types.
TypeOK ==
  /\ at \in {"recv", "parse", "done"} /\ text \in Texts
  /\ start_line <= checked_index /\ checked_index <= read_index /\ read_index <= BUFFER_SIZE
  /\ checkstate \in {"REQUESTLINE", "HEADER"}
  /\ result \in {"NO_REQUEST", "GET_REQUEST", "BAD_REQUEST", "closed", "failed"}

\* Wherever the text is cut by recv, between the two that end a line too, what has
\* arrived is judged as if it had come at once.
CutsDoNotMatter ==
  at # "parse" => result \in {Verdict(SubSeq(text, 1, read_index)), "closed", "failed"}
=============================================================================
