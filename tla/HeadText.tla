------------------------------ MODULE HeadText ------------------------------
(***************************************************************************)
(* The text of a complete head, read in place: cmd_new() cuts the first    *)
(* line into words, headers_get() the rest into fields, each by writing    *)
(* NULs over the separators, and the body starts where the second stops.   *)
(* Each step looks at one character.                                       *)
(*                                                                         *)
(* The heads are built from words, fields and line ends, so that what the  *)
(* scans must find is known.                                               *)
(***************************************************************************)
EXTENDS Naturals, Sequences, FiniteSets, TLC

CONSTANTS
  Words,    \* first lines: sequences of words
  Fields,   \* header fields: [name, gap, value], gap being what follows ":"
  MaxFields,\* bound: fields of a head
  LineEnds, \* "crlf", "lf"
  Bodies,   \* what follows the blank line
  ArgMax    \* CMD_ARGM

\* A first line of ArgMax words or more would write past argv[].
HeadTextAssumption ==
  /\ \A w \in Words : Len(w) \in 1..(ArgMax - 1)
  /\ LineEnds \subseteq {"crlf", "lf"}

VARIABLES
  head,   \* what was sent
  text,   \* the input buffer
  at,     \* p in cmd_new(), s in headers_get(), from 1
  scan,   \* "words", "line", "fields", "done"
  words,  \* where argv[] points
  key,    \* where the current field and, past its colon, its value start
  value,
  env     \* the fields put in the environment, in order

vars == <<head, text, at, scan, words, key, value, env>>

NUL == "0"

\* The text of a first line, a field, a head.
Eol(end) == IF end = "crlf" THEN <<"r", "n">> ELSE <<"n">>

Flat(ss) ==
  LET all[i \in 0..Len(ss)] == IF i = 0 THEN <<>> ELSE all[i - 1] \o ss[i]
  IN  all[Len(ss)]

Line(ws) == Tail(Flat([i \in 1..Len(ws) |-> <<" ">> \o ws[i]]))

FieldLine(f) == f.name \o <<":">> \o f.gap \o f.value

HeadOf(h) ==
  Flat(<<Line(h.words), Eol(h.end)>>
       \o [i \in 1..Len(h.fields) |-> FieldLine(h.fields[i]) \o Eol(h.end)]
       \o <<Eol(h.end)>>)

Init ==
  /\ head \in [words : Words, end : LineEnds, body : Bodies,
               fields : UNION {[1..n -> Fields] : n \in 0..MaxFields}]
  /\ text = HeadOf(head) \o head.body \o <<NUL>>
  /\ at = 1 /\ scan = "words" /\ words = <<1>>
  /\ key = 0 /\ value = 0 /\ env = <<>>

-----------------------------------------------------------------------------

\* What is read past the terminator is not part of the request.
Char(i) == IF i <= Len(text) THEN text[i] ELSE "?"

\* The C string at i.
String(t, i) ==
  LET nul == CHOOSE j \in i..Len(t) : t[j] = NUL /\ \A k \in i..(j - 1) : t[k] # NUL
  IN  SubSeq(t, i, nul - 1)

Cut(i) == [text EXCEPT ![i] = NUL]

\* Mutant of NextWord: the white space itself.
NextWordAtSpace == at

\* argv[argc] = p + 1.
NextWord == at + 1

\* cmd_new(): a white space ends a word.
Word ==
  /\ scan = "words"
  /\ LET c == Char(at) IN
       IF c \in {NUL, "r"} \/ Len(words) = ArgMax
       THEN scan' = "line" /\ UNCHANGED <<text, at, words>>
       ELSE /\ at' = at + 1
            /\ IF c \in {" ", "n"}
                 THEN text' = Cut(at) /\ words' = Append(words, NextWord)
                 ELSE UNCHANGED <<text, words>>
            /\ UNCHANGED scan
  /\ UNCHANGED <<head, key, value, env>>

\* argv[argc] = p + 2.
LineEnd == at + 2

\* cmd_new(): on to the end of the line.
RestOfLine ==
  /\ scan = "line"
  /\ IF Char(at) \notin {NUL, "r"}
       THEN at' = at + 1 /\ UNCHANGED <<scan, key, value>>
       ELSE /\ scan' = "fields"
            /\ at' = LineEnd /\ key' = LineEnd /\ value' = LineEnd
  /\ UNCHANGED <<head, text, words, env>>

\* headers_get() on a colon: the first one of a field.
IsColon == Char(at) = ":" /\ value = key

Colon ==
  /\ scan = "fields" /\ IsColon
  /\ text' = Cut(at) /\ at' = at + 2 /\ value' = at + 2
  /\ UNCHANGED <<head, scan, words, key, env>>

\* On a '\r': the field is put in the environment, or the blank line ends.
Return ==
  /\ scan = "fields" /\ Char(at) = "r"
  /\ IF at # key
       THEN /\ text' = Cut(at)
            /\ env' = Append(env, <<String(text', key), String(text', value)>>)
            /\ at' = at + 2 /\ key' = at + 2 /\ value' = at + 2
       ELSE /\ text' = [Cut(at) EXCEPT ![at + 1] = NUL]
            /\ at' = at + 1
            /\ UNCHANGED <<key, value, env>>
  /\ UNCHANGED <<head, scan, words>>

Other ==
  /\ scan = "fields" /\ Char(at) \notin {"r", NUL} /\ ~IsColon
  /\ at' = at + 1
  /\ UNCHANGED <<head, text, scan, words, key, value, env>>

End ==
  /\ scan = "fields" /\ Char(at) = NUL
  /\ scan' = "done"
  /\ UNCHANGED <<head, text, at, words, key, value, env>>

Done == scan = "done" /\ UNCHANGED vars

Next == Word \/ RestOfLine \/ Colon \/ Return \/ Other \/ End \/ Done

Spec == Init /\ [][Next]_vars

-----------------------------------------------------------------------------
(* Properties.                                                              *)

\* request_handle()'s body: argv[argc] + body_start + 1.
Body == at + 1

\* The scans stay in the text and its terminator, whatever the body holds: each
\* step over a colon or a line end skips two characters without looking at the
\* second (cmd_new(), headers_get()).
InText == at <= Len(text)

\* The words of the first line are the request's, and stay so while the fields
\* are cut: argv[] points into the same buffer (cmd_new(), headers_get()). The
\* last one, the protocol, is never cut from what follows it.
WordsRead ==
  scan # "words" =>
    /\ Len(words) = Len(head.words)
    /\ \A i \in 1..Len(words) :
         LET w == head.words[i] IN
           IF i < Len(words) THEN String(text, words[i]) = w
                             ELSE SubSeq(text, words[i], words[i] + Len(w) - 1) = w

\* The fields of the environment are those that were sent, in their order.
FieldsRead ==
  scan = "done" =>
    env = [i \in 1..Len(head.fields) |->
             <<head.fields[i].name, head.fields[i].value>>]

\* The body starts after the blank line, however the fields look: the fields
\* stop on the '\n' of the blank line, cut to a NUL (headers_get(),
\* request_handle()).
BodyFound == scan = "done" => Body = Len(HeadOf(head)) + 1
=============================================================================
