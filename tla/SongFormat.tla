----------------------------- MODULE SongFormat -----------------------------
(***************************************************************************)
(* The song format language (strfsong.cxx): _strfsong() goes through the   *)
(* format once, from left to right, and calls itself for every "[".        *)
(*                                                                         *)
(* A format is a sequence of tokens: the operators, characters, and        *)
(* "%names%".  The text that comes out is a sequence of such tokens, too:  *)
(* a name stands for the song's value of it.  There is room for all of it. *)
(***************************************************************************)
EXTENDS Naturals, Sequences, SequencesExt

CONSTANTS
    Characters,     \* of literal text
    Matched,        \* %names% of what the song has
    Missing,        \* %names% of tags the song has not
    Valueless,      \* %names% without a value: unknown ones, and %time% of a song without duration
    MaxFormat       \* bound: the length of a format

VARIABLE formatter

Operators == {"|", "&", "[", "]", "#"}
Names == Matched \cup Missing \cup Valueless
Formats == BoundedSeq(Operators \cup Characters \cup Names, MaxFormat)

\* The local variables of one call; `start' is the length of the text before it, s0.
Call(start) == [start |-> start, found |-> FALSE, missed |-> FALSE]

FormatterInit ==
    \E f \in Formats :
        formatter = [format |-> f, p |-> 1, text |-> <<>>, calls |-> <<Call(0)>>]

Top == Last(formatter.calls)
AtEnd == formatter.p > Len(formatter.format)
Token == formatter.format[formatter.p]
Failed == Top.missed /\ ~Top.found
Running == formatter.calls # <<>>

\* The current call has changed to `c'.
With(c) == [formatter EXCEPT !.calls[Len(formatter.calls)] = c]

\* Mutant: brackets are not counted.
SkipFlat(f, p) ==
    LET Stops == {i \in p..Len(f) : f[i] \in {"|", "&", "]"}}
    IN  IF Stops = {} THEN Len(f) + 1 ELSE CHOOSE i \in Stops : \A j \in Stops : i <= j

\* skip(): up to the next operator that is not within brackets
Skip(f, p) ==
    LET Escaped[i \in 0..Len(f)] == i > p /\ f[i - 1] = "#" /\ ~Escaped[i - 1]
        Depth[i \in 0..Len(f)] ==       \* after token i
            IF i < p THEN 0
            ELSE IF Escaped[i] THEN Depth[i - 1]
            ELSE IF f[i] = "[" THEN Depth[i - 1] + 1
            ELSE IF f[i] = "]" /\ Depth[i - 1] > 0 THEN Depth[i - 1] - 1
            ELSE Depth[i - 1]
        Stops == {i \in p..Len(f) : f[i] \in {"|", "&", "]"} /\ ~Escaped[i] /\ Depth[i - 1] = 0}
    IN  IF Stops = {} THEN Len(f) + 1 ELSE CHOOSE i \in Stops : \A j \in Stops : i <= j

Or ==
    /\ Running /\ ~AtEnd /\ Token = "|"
    /\ formatter' = IF Failed
                    THEN [With([Top EXCEPT !.missed = FALSE]) EXCEPT
                             !.p = @ + 1, !.text = SubSeq(@, 1, Top.start)]
                    ELSE [formatter EXCEPT !.p = Skip(formatter.format, formatter.p + 1)]

And ==
    /\ Running /\ ~AtEnd /\ Token = "&"
    /\ formatter' = IF Failed
                    THEN [formatter EXCEPT !.p = Skip(formatter.format, formatter.p + 1)]
                    ELSE [With(Call(Top.start)) EXCEPT !.p = @ + 1]

ExpressionStart ==
    /\ Running /\ ~AtEnd /\ Token = "["
    /\ formatter' = [formatter EXCEPT !.p = @ + 1, !.calls = Append(@, Call(Len(formatter.text)))]

\* The call returns; the caller looks at whether it has written anything.
Return(text, p) ==
    LET rest == Front(formatter.calls)
        caller == Last(rest)
        wrote == Len(text) > Top.start
    IN  formatter' = [formatter EXCEPT
                         !.text = text, !.p = p,
                         !.calls = IF rest = <<>> THEN <<>>
                                   ELSE [rest EXCEPT ![Len(rest)] =
                                            [caller EXCEPT !.found = @ \/ wrote,
                                                           !.missed = @ \/ ~wrote]]]

ExpressionEnd ==
    /\ Running /\ ~AtEnd /\ Token = "]"
    /\ Return(IF Failed THEN SubSeq(formatter.text, 1, Top.start) ELSE formatter.text,
              formatter.p + 1)

FormatEnd == Running /\ AtEnd /\ Return(formatter.text, formatter.p)

\* "let the escape character escape itself"; the last one of all is a character.
Escape ==
    /\ Running /\ ~AtEnd /\ Token = "#"
    /\ LET n == IF formatter.p < Len(formatter.format) THEN 1 ELSE 0
       IN  formatter' = [formatter EXCEPT !.p = @ + 1 + n,
                                          !.text = Append(@, formatter.format[formatter.p + n])]

Literal ==
    /\ Running /\ ~AtEnd /\ Token \in Characters
    /\ formatter' = [formatter EXCEPT !.p = @ + 1, !.text = Append(@, Token)]

MatchName ==
    /\ Running /\ ~AtEnd /\ Token \in Matched
    /\ formatter' = [With([Top EXCEPT !.found = TRUE]) EXCEPT !.p = @ + 1, !.text = Append(@, Token)]

Miss ==
    /\ Running /\ ~AtEnd /\ Token \in Missing
    /\ formatter' = [With([Top EXCEPT !.missed = TRUE]) EXCEPT !.p = @ + 1]

\* The specifier has been passed over when the text it is replaced by is taken from the
\* format: that is all that follows it.
PassThrough ==
    /\ Running /\ ~AtEnd /\ Token \in Valueless
    /\ formatter' = [With([Top EXCEPT !.missed = TRUE]) EXCEPT
                        !.p = @ + 1,
                        !.text = @ \o SubSeq(formatter.format, formatter.p + 1, Len(formatter.format))]

FormatterNext ==
    \/ Or \/ And \/ ExpressionStart \/ ExpressionEnd \/ FormatEnd
    \/ Escape \/ Literal \/ MatchName \/ Miss \/ PassThrough

FormatterSpec == FormatterInit /\ [][FormatterNext]_formatter

-----------------------------------------------------------------------------
(* What a format means *)

\* Without the escapes: an escaped token is a pair.
Unescape(f) ==
    LET Escaped[i \in 0..Len(f)] == i > 1 /\ f[i - 1] = "#" /\ ~Escaped[i - 1]
        Escapes(i) == f[i] = "#" /\ ~Escaped[i] /\ i < Len(f)
    IN  SelectSeq([i \in 1..Len(f) |->
                      IF Escaped[i] THEN <<f[i], "text">>
                      ELSE IF Escapes(i) THEN <<"#", "none">>
                      ELSE IF f[i] = "#" THEN <<"#", "text">>
                      ELSE <<f[i], "">>],
                  LAMBDA t : t[2] # "none")

Is(t, op) == t = <<op, "">>

\* After each token the number of brackets open; no bracket may be missing.
Depths(f) ==
    LET d[i \in 0..Len(f)] == IF i = 0 THEN 0
                              ELSE IF Is(f[i], "[") THEN d[i - 1] + 1
                              ELSE IF Is(f[i], "]") THEN d[i - 1] - 1 ELSE d[i - 1]
    IN  d
Balanced(f) == LET d == Depths(f) IN d[Len(f)] = 0 /\ \A i \in 1..Len(f) : d[i] >= 0

NoOutput == [text |-> <<>>, found |-> FALSE, missed |-> FALSE]
Fails(v) == v.missed /\ ~v.found

\* The value of tokens i..j: "&" and "|" bind alike, from left to right.  "&" goes on if the
\* left side has not failed, "|" starts again if it has; an expression in brackets that fails is
\* nothing, and what is nothing has failed to the expression it is in.
RECURSIVE MeaningOf(_, _, _)
MeaningOf(f, i, j) ==
    IF i > j THEN NoOutput
    ELSE LET d == Depths(f)
             ops == {k \in i..j : d[k] = d[i - 1] /\ (Is(f[k], "&") \/ Is(f[k], "|"))}
         IN  IF ops # {}
             THEN LET k == CHOOSE k \in ops : \A l \in ops : l <= k
                      left == MeaningOf(f, i, k - 1)
                      right == MeaningOf(f, k + 1, j)
                  IN  IF Is(f[k], "|")
                      THEN IF Fails(left) THEN right ELSE left
                      ELSE IF Fails(left) THEN left
                           ELSE [right EXCEPT !.text = left.text \o @]
             ELSE LET end == IF Is(f[i], "[")
                             THEN CHOOSE k \in i..j : d[k] = d[i - 1] /\ \A l \in i..(k - 1) : d[l] > d[k]
                             ELSE i
                      inner == IF Is(f[i], "[")
                               THEN LET v == MeaningOf(f, i + 1, end - 1)
                                    IN  IF Fails(v) THEN <<>> ELSE v.text
                               ELSE IF f[i][2] = "" /\ f[i][1] \in Missing THEN <<>> ELSE <<f[i][1]>>
                      counts == Is(f[i], "[") \/ (f[i][2] = "" /\ f[i][1] \in Names)
                      tail == MeaningOf(f, end + 1, j)
                  IN  [text |-> inner \o tail.text,
                       found |-> tail.found \/ (counts /\ inner # <<>>),
                       missed |-> tail.missed \/ (counts /\ inner = <<>>)]

-----------------------------------------------------------------------------
(* Properties *)

\* Types; the calls are nested as the brackets are, and none of them writes before its start.
FormatterTypeOK ==
    /\ formatter.format \in Seq(Operators \cup Characters \cup Names)
    /\ formatter.p \in 1..(Len(formatter.format) + 1)
    /\ \A i \in DOMAIN formatter.calls :
          /\ formatter.calls[i].start <= Len(formatter.text)
          /\ i > 1 => formatter.calls[i - 1].start <= formatter.calls[i].start

\* Reading the format once, and skipping over the side of an operator that is not needed, gives
\* what the expressions mean: "none of the characters between [ and ] are output" if nothing in
\* them is matched, "literal text is always output", "logical operators" (doc/index.rst:369-373).
MeansWhatItSays ==
    LET f == Unescape(formatter.format)
    IN  ~Running /\ Range(formatter.format) \cap Valueless = {} /\ Balanced(f)
            => formatter.text = MeaningOf(f, 1, Len(f)).text

\* A name without a value is passed through: "just pass-through any unknown specifiers
\* (including esc)" (strfsong.cxx:239).  False: what follows it is appended in its place.
UnknownPassedThrough ==
    ~Running /\ Range(formatter.format) \cap Operators = {}
        => formatter.text = SelectSeq(formatter.format, LAMBDA t : t \notin Missing)

\* The text is the one the format means: parts in brackets and alternatives appear when
\* all of their tags are there, and nothing is lost or doubled (strfsong.cxx).
FormatSound == FormatterTypeOK /\ MeansWhatItSays
=============================================================================
