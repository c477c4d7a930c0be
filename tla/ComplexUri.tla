----------------------------- MODULE ComplexUri -----------------------------
(***************************************************************************)
(* The normalization of the URI of a request (ngx_http_parse_complex_uri() in  *)
(* src/http/ngx_http_parse.c): quoted characters are decoded, slashes merged,   *)
(* and the segments "." and ".." resolved, in one pass that writes behind its    *)
(* own reading.  A step is one character; a character that was quoted is looked  *)
(* at again, as itself, in the step of its second digit.                      *)
(*                                                                         *)
(* A character is a string of length one; "x" stands for all the ones that are   *)
(* copied.  The URI begins with a slash, as the parser of the request line         *)
(* has it.                                                                 *)
(***************************************************************************)
EXTENDS Naturals, Sequences, SequencesExt

CONSTANTS
  Chars,   \* what a URI is made of
  First,   \* what follows a percent sign
  Second,  \* what comes after that
  MaxLen   \* the length of the URIs

VARIABLES
  uri,            \* what has been read
  merge_slashes,
  parser          \* state, quoted_state, decoded; what was written, where the
                  \* extension begins (0: nowhere), the arguments, the result

vars == <<uri, merge_slashes, parser>>

Init ==
  /\ uri = <<>>
  /\ merge_slashes \in BOOLEAN
  /\ parser = [state |-> "usual", quoted |-> "usual", decoded |-> "0", out |-> <<>>,
               ext |-> 0, args |-> <<>>, rc |-> "reading"]

Hex == {"0", "2", "3", "5", "6", "e", "f"}

(* What two digits stand for. *)
Decode(a, b) ==
  CASE <<a, b>> = <<"2", "e">> -> "."
    [] <<a, b>> = <<"2", "f">> -> "/"
    [] <<a, b>> = <<"2", "5">> -> "%"
    [] <<a, b>> = <<"2", "3">> -> "#"
    [] <<a, b>> = <<"3", "f">> -> "?"
    [] <<a, b>> = <<"0", "0">> -> "nul"
    [] OTHER -> "x"

-----------------------------------------------------------------------------
Done(s)    == [s EXCEPT !.rc = "ok"]
Invalid(s) == [s EXCEPT !.rc = "invalid"]

(* A character that is just copied. *)
Copy(s, ch) == [s EXCEPT !.state = "usual", !.out = Append(@, ch)]

(* After "/..": back over the segment before, to behind its slash. *)
UpToParent(s) ==
  LET n == Len(s.out)
      slashes == {i \in 1..n : i + 4 <= n /\ s.out[i] = "/"}
  IN  IF slashes = {} THEN Invalid(s)
      ELSE [s EXCEPT !.state = "slash",
                     !.out = SubSeq(@, 1, CHOOSE i \in slashes : \A j \in slashes : j <= i)]

Slash(s) ==
  CASE s.state = "usual"   -> [s EXCEPT !.state = "slash", !.ext = 0, !.out = Append(@, "/")]
    [] s.state = "slash"   -> IF merge_slashes THEN s ELSE [s EXCEPT !.out = Append(@, "/")]
    [] s.state = "dot"     -> [s EXCEPT !.state = "slash", !.out = Front(@)]
    [] s.state = "dot_dot" -> UpToParent(s)

Dot(s) ==
  CASE s.state = "usual"   -> [s EXCEPT !.ext = Len(s.out) + 2, !.out = Append(@, ".")]
    [] s.state = "slash"   -> [s EXCEPT !.state = "dot", !.out = Append(@, ".")]
    [] s.state = "dot"     -> [s EXCEPT !.state = "dot_dot", !.out = Append(@, ".")]
    [] s.state = "dot_dot" -> Copy(s, ".")

(* sw_usual, sw_slash, sw_dot and sw_dot_dot, for what is the same raw and quoted. *)
Character(s, ch) ==
  CASE ch = "/" -> Slash(s)
    [] ch = "." -> Dot(s)
    [] OTHER -> Copy(s, ch)

Raw(s, ch) ==
  CASE ch = "%" -> [s EXCEPT !.quoted = s.state, !.state = "quoted"]
    [] ch = "?" -> [s EXCEPT !.state = "args"]
    [] ch = "#" -> Done(s)
    [] OTHER -> Character(s, ch)

(* sw_quoted *)
Quoted(s, ch) ==
  IF ch \in Hex THEN [s EXCEPT !.decoded = ch, !.state = "quoted_second"] ELSE Invalid(s)

\* Bug: the state before the quoted character is forgotten.
QuotedSecond_Usual(s, ch) ==
  LET c == Decode(s.decoded, ch)
  IN  CASE ch \notin Hex \/ c = "nul" -> Invalid(s)
        [] c \in {"%", "#", "?"} -> Copy(s, c)
        [] OTHER -> Character([s EXCEPT !.state = "usual"], c)

(* sw_quoted_second *)
QuotedSecond(s, ch) ==
  LET c == Decode(s.decoded, ch)
  IN  CASE ch \notin Hex \/ c = "nul" -> Invalid(s)
        [] c \in {"%", "#", "?"} -> Copy(s, c)
        [] OTHER -> Character([s EXCEPT !.state = s.quoted], c)

(* The label args: up to the fragment. *)
Args(s, ch) == IF ch = "#" THEN Done(s) ELSE [s EXCEPT !.args = Append(@, ch)]

Accept(s, ch) ==
  CASE s.state = "quoted" -> Quoted(s, ch)
    [] s.state = "quoted_second" -> QuotedSecond(s, ch)
    [] s.state = "args" -> Args(s, ch)
    [] OTHER -> Raw(s, ch)

(* What may come next, as far as it makes a difference. *)
Inputs ==
  CASE uri = <<>> -> {"/"}
    [] parser.state = "quoted" -> First
    [] parser.state = "quoted_second" -> Second
    [] parser.state = "args" -> {"x", "?", "#"}
    [] OTHER -> Chars

Read ==
  /\ parser.rc = "reading"
  /\ Len(uri) < MaxLen
  /\ \E ch \in Inputs :
       /\ uri' = Append(uri, ch)
       /\ \E s \in {Accept(parser, ch)} : parser' = s
  /\ UNCHANGED merge_slashes

(* The end of the URI, in whatever state. *)
End ==
  /\ parser.rc = "reading"
  /\ uri # <<>>
  /\ parser' = Done(parser)
  /\ UNCHANGED <<uri, merge_slashes>>

(* The request is parsed; it goes on elsewhere. *)
Parsed == parser.rc # "reading" /\ UNCHANGED vars

Next == Read \/ End \/ Parsed

Spec == Init /\ [][Next]_vars

-----------------------------------------------------------------------------
(* What a URI means, segment by segment. *)

Ends == {i \in DOMAIN uri : uri[i] \in {"?", "#"}}
Path ==
  IF Ends = {} THEN uri
  ELSE SubSeq(uri, 1, (CHOOSE i \in Ends : \A j \in Ends : i <= j) - 1)

Query ==
  LET rest == SubSeq(uri, Len(Path) + 2, Len(uri))
      cut  == {i \in DOMAIN rest : rest[i] = "#"}
  IN  IF uri[Len(Path) + 1] = "#" THEN <<>>
      ELSE IF cut = {} THEN rest
      ELSE SubSeq(rest, 1, (CHOOSE i \in cut : \A j \in cut : i <= j) - 1)

Percents == {i \in DOMAIN Path : Path[i] = "%"}

(* A quote with a digit that is none, or of a null character. *)
Malformed ==
  \E i \in Percents :
    \/ i + 1 \in DOMAIN Path /\ Path[i + 1] \notin Hex
    \/ /\ i + 2 \in DOMAIN Path
       /\ Path[i + 2] \notin Hex \/ Decode(Path[i + 1], Path[i + 2]) = "nul"

(* The path without quotes; an incomplete one at its end counts for nothing. *)
Plain ==
  LET starts == SelectSeq([i \in DOMAIN Path |-> i],
                  LAMBDA i : ~\E j \in Percents :
                               i \in IF j + 2 > Len(Path) THEN j..j + 1 ELSE {j + 1, j + 2})
  IN  [n \in DOMAIN starts |->
         IF Path[starts[n]] # "%" THEN Path[starts[n]]
         ELSE Decode(Path[starts[n] + 1], Path[starts[n] + 2])]

(* The parent of a segment; an empty one, if slashes are not merged, goes with the one
   before it.  There is nothing above the root. *)
Up(a) ==
  LET n == IF a.above # <<>> /\ Last(a.above) = <<>> THEN 2 ELSE 1
  IN  IF Len(a.above) < n THEN [a EXCEPT !.root = FALSE]
      ELSE [a EXCEPT !.above = SubSeq(@, 1, Len(@) - n)]

(* A segment is complete with the slash behind it. *)
Close(a) ==
  [CASE a.seg = <<".">> \/ (a.seg = <<>> /\ merge_slashes) -> a
     [] a.seg = <<".", ".">> -> Up(a)
     [] OTHER -> [a EXCEPT !.above = Append(@, a.seg)]
   EXCEPT !.seg = <<>>]

Segments ==
  FoldLeft(LAMBDA a, ch : IF ch = "/" THEN Close(a) ELSE [a EXCEPT !.seg = Append(@, ch)],
           [root |-> TRUE, above |-> <<>>, seg |-> <<>>], Tail(Plain))

(* Behind the last dot of the last segment, unless only dots are before it. *)
Extension(seg) ==
  LET dots == {i \in DOMAIN seg : seg[i] = "." /\ SubSeq(seg, 1, i - 1)
                                                     \notin {<<>>, <<".">>, <<".", ".">>}}
  IN  IF dots = {} THEN <<>>
      ELSE SubSeq(seg, (CHOOSE i \in dots : \A j \in dots : j <= i) + 1, Len(seg))

(* The URI is in normal form: what the one pass writes over its buffer is the path with
   quotes decoded and every segment that a slash ends resolved, whichever way its dots
   and slashes are written; a path that leads above the root is refused; arguments and
   extension are the right parts of it.  The last segment is left as it is, be it
   of dots. *)
Normalized ==
  /\ parser.rc = "ok" =>
       /\ ~Malformed /\ Segments.root
       /\ parser.out = <<"/">> \o FlattenSeq([i \in DOMAIN Segments.above |->
                                                Append(Segments.above[i], "/")]) \o Segments.seg
       /\ parser.args = IF Ends = {} THEN <<>> ELSE Query
       /\ Extension(Segments.seg) = IF parser.ext = 0 THEN <<>>
                                    ELSE SubSeq(parser.out, parser.ext, Len(parser.out))
  /\ parser.rc = "invalid" => Malformed \/ ~Segments.root
=============================================================================
