-------------------------------- MODULE Http --------------------------------
(***************************************************************************)
(* parse_http_request and the helpers of include/webserver/http.hpp.       *)
(*                                                                         *)
(* A string is a sequence of lexemes: one for each character that means    *)
(* something to the parser, and one for each word between them, whatever   *)
(* its letters.  What the parser knows of letters is their lower case.     *)
(***************************************************************************)
EXTENDS SequencesExt

CONSTANTS
  lc     \* the word with its letters in lower case, a function on words

CR == "\r"    LF == "\n"    SP == " "    TAB == "\t"

Space == {CR, LF, SP, TAB}

_lc(s) == [i \in DOMAIN s |-> IF s[i] \in DOMAIN lc THEN lc[s[i]] ELSE s[i]]

_trim(s) ==
  LET kept == {i \in DOMAIN s : s[i] \notin Space}
  IN  IF kept = {} THEN <<>> ELSE SubSeq(s, Min(kept), Max(kept))

\* The pieces of s between the lexemes sep.
Split(s, sep) ==
  LET Add(pieces, x) == IF x = sep THEN Append(pieces, <<>>)
                        ELSE Append(Front(pieces), Append(Last(pieces), x))
  IN  FoldLeft(Add, << <<>> >>, s)

\* The places in raw at which the blank line stands.
BlankLines(raw) ==
  {i \in 1 .. Len(raw) - 3 : raw[i] = CR /\ raw[i+1] = LF /\ raw[i+2] = CR /\ raw[i+3] = LF}

\* What getline reads one after the other; no line follows the last LF.
Lines(text) ==
  LET pieces == Split(text, LF)
      lines  == IF Last(pieces) = <<>> THEN Front(pieces) ELSE pieces
      Chop(l) == IF l # <<>> /\ Last(l) = CR THEN Front(l) ELSE l
  IN  [i \in DOMAIN lines |-> Chop(lines[i])]

\* What >> reads one after the other.
Fields(line) ==
  LET blank == [i \in DOMAIN line |-> IF line[i] \in Space THEN SP ELSE line[i]]
  IN  SelectSeq(Split(blank, SP), LAMBDA f : f # <<>>)

\* The lines of the header: those up to the first empty one that have a colon.
HeaderLines(lines) ==
  LET empty == {i \in 2 .. Len(lines) : lines[i] = <<>>}
      last  == IF empty = {} THEN Len(lines) ELSE Min(empty) - 1
  IN  SelectSeq(SubSeq(lines, 2, last), LAMBDA l : Contains(l, ":"))

Key(line)   == LET c == SelectInSeq(line, LAMBDA x : x = ":") IN _lc(_trim(SubSeq(line, 1, c - 1)))

Value(line) ==
  LET c == SelectInSeq(line, LAMBDA x : x = ":") IN _trim(SubSeq(line, c + 1, Len(line)))

\* r.headers[k] = v for one line after the other.
Headers(lines) ==
  LET keys == {Key(lines[i]) : i \in DOMAIN lines}
  IN  [k \in keys |-> Value(lines[SelectLastInSeq(lines, LAMBDA l : Key(l) = k)])]

\* The request in raw, or none.
parse_http_request(raw) ==
  IF BlankLines(raw) = {} THEN {}
  ELSE LET lines == Lines(SubSeq(raw, 1, Min(BlankLines(raw)) - 1))
           words == IF lines = <<>> THEN <<>> ELSE Fields(lines[1])
       IN  IF Len(words) < 3 THEN {}
           ELSE {[method |-> words[1], path |-> words[2], version |-> words[3],
                  headers |-> Headers(HeaderLines(lines))]}

\* Slip: the value is compared as it stands.
TokenHas_Whole(v, tok) == _lc(v) = tok

_token_has(v, tok) ==
  LET items == Split(_lc(v), ",") IN \E i \in DOMAIN items : _trim(items[i]) = tok

=============================================================================
