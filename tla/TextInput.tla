------------------------------ MODULE TextInput ------------------------------
(***************************************************************************)
(* The dialog that asks for a line of text (TextInputDialog.cxx), with the *)
(* history of lines it may have, the completion of what has been typed     *)
(* (Completion.cxx), and the coroutines which open it.                     *)
(*                                                                         *)
(* A line is a sequence of characters, which have widths; the bytes they   *)
(* are made of are left out.                                               *)
(***************************************************************************)
EXTENDS Naturals, Sequences, FiniteSets

CONSTANTS
    Chars,
    WideChars,     \* these take two columns
    WordChars,     \* std::iswalnum()
    CharOrder,     \* CharOrder[c] is where c is in the order of the characters
    MaxLine,       \* bounds the length of a line
    HistoryMax,    \* wrln_max_history_length
    HistoryBound,  \* bounds the history where the code does not
    PromptWidth,   \* the width of the prompt and ": "
    MinField,      \* prompt_visible: the width which the prompt must leave
    WindowWidths,
    SampleLines    \* what the completion may know and what may be edited

ASSUME TextAssumption ==
    /\ WideChars \subseteq Chars /\ WordChars \subseteq Chars
    /\ MaxLine \in Nat /\ HistoryBound \in Nat /\ HistoryMax \in Nat \ {0} /\ HistoryMax < HistoryBound
    /\ \A c \in Chars : CharOrder[c] \in Nat
    /\ \A c, d \in Chars : c # d => CharOrder[c] # CharOrder[d]
    /\ PromptWidth \in Nat /\ MinField \in Nat /\ WindowWidths \subseteq Nat \ {0}

VARIABLE input

Lines == UNION {[1..n -> Chars] : n \in 0..MaxLine}

ASSUME SampleAssumption == SampleLines \subseteq Lines /\ IsFiniteSet(SampleLines)

Histories == UNION {[1..n -> Lines] : n \in 0..HistoryBound}

Inputs ==
    [open : BOOLEAN,
     value : Lines,
     cursor : 0..MaxLine,
     start : 0..MaxLine,          \* the first character on the screen
     selected : BOOLEAN,          \* typing replaces the value
     width : Nat,
     recalls : BOOLEAN,           \* the dialog has the history
     fragile : BOOLEAN,
     hlist : Nat,                 \* the line of the history which is shown
     hcurrent : Nat,              \* the line which has been added for this dialog
     history : Histories,
     before : Histories]          \* the history when the dialog was opened

-----------------------------------------------------------------------------
(* Columns and words *)

Width(line, a, b) == (b - a) + Cardinality({i \in a + 1..b : line[i] \in WideChars})

Column(d) == Width(d.value, d.start, d.cursor)

\* right_align_bytes(): the first start from which everything up to "right" fits
RightAlign(line, right, width) ==
    CHOOSE s \in 0..right :
      /\ s = right \/ Width(line, s, right) < width
      /\ \A t \in 0..s - 1 : Width(line, t, right) >= width

CursorMovedRight(d) ==
    IF Column(d) >= d.width THEN [d EXCEPT !.start = RightAlign(d.value, d.cursor, d.width)] ELSE d

CursorMovedLeft(d) == IF d.cursor < d.start THEN [d EXCEPT !.start = d.cursor] ELSE d

MoveCursorToEnd(d) == CursorMovedRight([d EXCEPT !.cursor = Len(d.value)])

\* SkipRightWhile(), SkipLeftWhile(): past the characters that are (not) of a word
SkipRight(line, p, word) ==
    CHOOSE q \in p..Len(line) :
      /\ q = Len(line) \/ (line[q + 1] \in WordChars) # word
      /\ \A i \in p + 1..q : (line[i] \in WordChars) = word
SkipLeft(line, p, word) ==
    CHOOSE q \in 0..p :
      /\ q = 0 \/ (line[q] \in WordChars) # word
      /\ \A i \in q + 1..p : (line[i] \in WordChars) = word

NextWord(line, p) ==
    IF p = Len(line) THEN p
    ELSE SkipRight(line, IF line[p + 1] \in WordChars THEN p + 1 ELSE SkipRight(line, p + 1, FALSE), TRUE)
LastWord(line, p) ==
    IF p = 0 THEN p
    ELSE SkipLeft(line, IF line[p] \in WordChars THEN p - 1 ELSE SkipLeft(line, p - 1, FALSE), TRUE)

-----------------------------------------------------------------------------
(* Completion *)

StartsWith(line, prefix) == Len(prefix) <= Len(line) /\ SubSeq(line, 1, Len(prefix)) = prefix

\* The order of std::set<std::string>
Less(a, b) ==
    \/ StartsWith(b, a) /\ a # b
    \/ \E i \in 1..Len(a) :
         /\ i <= Len(b) /\ SubSeq(a, 1, i - 1) = SubSeq(b, 1, i - 1)
         /\ CharOrder[a[i]] < CharOrder[b[i]]

\* std::mismatch(): how much of a is also in b
Mismatch(a, b) ==
    CHOOSE n \in 0..Len(a) :
      /\ n = Len(a) \/ n >= Len(b) \/ a[n + 1] # b[n + 1]
      /\ \A i \in 1..n : i <= Len(b) /\ a[i] = b[i]

\* Completion::Complete(): the lines with the prefix are next to each other in the set;
\* what the first and the last have in common is the new prefix.
Complete(list, prefix) ==
    LET lower == {l \in list : ~Less(l, prefix)}
        first == CHOOSE l \in lower : \A m \in lower : ~Less(m, l)
        range == {l \in lower : \A m \in lower : ~Less(l, m) => StartsWith(m, prefix)}
        last  == CHOOSE l \in range : \A m \in range : ~Less(l, m)
    IN  IF lower = {} \/ ~StartsWith(first, prefix) THEN <<>>
        ELSE SubSeq(first, 1, Mismatch(first, last))

-----------------------------------------------------------------------------
(* The end of the dialog *)

Front1(s) == SubSeq(s, 1, Len(s) - 1)
Newest(s) == IF Len(s) > HistoryMax THEN SubSeq(s, Len(s) - HistoryMax + 1, Len(s)) ELSE s

Over(d) ==
    [d EXCEPT !.open = FALSE, !.value = <<>>, !.cursor = 0, !.start = 0, !.selected = FALSE,
              !.hlist = 0, !.hcurrent = 0, !.before = <<>>, !.recalls = FALSE, !.fragile = FALSE]

CommitHistory(d) ==
    IF ~d.recalls THEN d
    ELSE [d EXCEPT !.history = Newest(IF d.value # <<>> THEN [@ EXCEPT ![d.hcurrent] = d.value] ELSE Front1(@))]

\* OnCancel(): what has been added for the dialog is the last line.
OnCancel(d) == Over(IF d.recalls THEN [d EXCEPT !.history = Front1(@)] ELSE d)

-----------------------------------------------------------------------------
(* Keys *)

Edit(d, a, b, new) ==        \* the characters after a and up to b are replaced
    [d EXCEPT !.value = SubSeq(@, 1, a) \o new \o SubSeq(@, b + 1, Len(@))]

Clear(d) == [d EXCEPT !.value = <<>>, !.cursor = 0, !.start = 0]

\* OnKey(): whatever key it is, the text is no longer selected.
Deselected == [input EXCEPT !.selected = FALSE]

\* A character: it replaces the text if that is selected.
InsertByte(c) ==
    LET d == IF input.selected THEN Clear(Deselected) ELSE Deselected
    IN  /\ Len(d.value) < MaxLine
        /\ input' = CursorMovedRight([Edit(d, d.cursor, d.cursor, <<c>>) EXCEPT !.cursor = @ + 1])

MoveCursorLeft(d) == CursorMovedLeft([d EXCEPT !.cursor = IF @ = 0 THEN 0 ELSE @ - 1])
MoveCursorRight(d) == IF d.cursor = Len(d.value) THEN d ELSE CursorMovedRight([d EXCEPT !.cursor = @ + 1])
MoveCursorWordLeft(d) == CursorMovedLeft([d EXCEPT !.cursor = LastWord(d.value, @)])
MoveCursorWordRight(d) == IF d.cursor = Len(d.value) THEN d ELSE CursorMovedRight([d EXCEPT !.cursor = NextWord(d.value, @)])

MoveKey ==
    input' \in {MoveCursorLeft(Deselected), MoveCursorRight(Deselected),
                MoveCursorWordLeft(Deselected), MoveCursorWordRight(Deselected),
                [Deselected EXCEPT !.cursor = 0, !.start = 0], MoveCursorToEnd(Deselected)}

Backspace ==
    input' = IF input.selected THEN Clear(Deselected)
             ELSE IF input.cursor = 0 THEN Deselected
             ELSE LET d == MoveCursorLeft(Deselected) IN Edit(d, d.cursor, d.cursor + 1, <<>>)

DeleteCharKey ==
    input' = IF input.selected THEN Clear(Deselected)
             ELSE IF input.cursor = Len(input.value) THEN Deselected
             ELSE Edit(Deselected, input.cursor, input.cursor + 1, <<>>)

\* Ctrl-Delete, Ctrl-K, Ctrl-W
DeleteWord == input' = Edit(Deselected, input.cursor, NextWord(input.value, input.cursor), <<>>)
DeleteToEnd ==
    input' = IF input.selected THEN Clear(Deselected) ELSE Edit(Deselected, input.cursor, Len(input.value), <<>>)
DeleteLastWord ==
    LET d == MoveCursorWordLeft(Deselected) IN input' = Edit(d, d.cursor, input.cursor, <<>>)

\* Ctrl-U
DeleteToStart == input' = [Edit(Deselected, 0, input.cursor, <<>>) EXCEPT !.cursor = 0, !.start = 0]

\* Mutants: the line that was being edited is forgotten; any line that is shown is kept.
HistoryUpForgetful ==
    /\ ~input.fragile
    /\ LET d == Deselected
       IN  input' = MoveCursorToEnd(IF ~d.recalls \/ d.hlist = 1 THEN d
                      ELSE [d EXCEPT !.hlist = @ - 1, !.start = 0, !.value = d.history[d.hlist - 1]])


\* KEY_UP: the line that is being edited is kept in the history.
HistoryUp ==
    /\ ~input.fragile
    /\ LET d == Deselected
           kept == IF d.hlist = d.hcurrent THEN [d EXCEPT !.history[d.hlist] = d.value] ELSE d
       IN  input' = MoveCursorToEnd(IF ~d.recalls \/ d.hlist = 1 THEN d
                      ELSE [kept EXCEPT !.hlist = @ - 1, !.start = 0, !.value = d.history[d.hlist - 1]])

HistoryDown ==
    /\ ~input.fragile
    /\ LET d == Deselected
       IN  input' = MoveCursorToEnd(IF ~d.recalls \/ d.hlist = Len(d.history) THEN d
                      ELSE [d EXCEPT !.hlist = @ + 1, !.start = 0, !.value = d.history[d.hlist + 1]])

\* KEY_TAB with a completion that knows some lines by now
Tab ==
    \E list \in SUBSET SampleLines :
      LET new == Complete(list, input.value)
      IN  input' = IF new = <<>> THEN Deselected ELSE MoveCursorToEnd([Deselected EXCEPT !.value = new])

Enter == input' = IF input.fragile THEN OnCancel(input) ELSE Over(CommitHistory(input))

\* Ctrl-C, Ctrl-G; in fragile mode, any other key that is not for the line
CancelKey == input' = OnCancel(input)

\* Keys that are ignored, function keys
OtherKey == ~input.fragile /\ input' = Deselected

Key ==
    /\ input.open
    /\ \/ \E c \in Chars : InsertByte(c)
       \/ MoveKey \/ Backspace \/ DeleteCharKey \/ DeleteWord \/ DeleteToEnd \/ DeleteLastWord \/ DeleteToStart
       \/ HistoryUp \/ HistoryDown \/ Tab \/ OtherKey

-----------------------------------------------------------------------------

FieldWidth(w) == IF PromptWidth + MinField < w THEN w - PromptWidth ELSE w

TextInit ==
    \E w \in WindowWidths :
      input = [open |-> FALSE, value |-> <<>>, cursor |-> 0, start |-> 0, selected |-> FALSE,
               width |-> FieldWidth(w), recalls |-> FALSE, fragile |-> FALSE, hlist |-> 0,
               hcurrent |-> 0, history |-> <<>>, before |-> <<>>]

\* The constructor: Show() cancels a dialog that is open; then the history gets a line.
OpenDialog(d, line, recalls, fragile) ==
    LET shown == IF d.open THEN OnCancel(d) ELSE d
        added == IF recalls THEN Append(shown.history, <<>>) ELSE shown.history
    IN  MoveCursorToEnd(
          [shown EXCEPT !.open = TRUE, !.value = line, !.selected = TRUE, !.recalls = recalls,
                        !.fragile = fragile, !.history = added, !.before = shown.history,
                        !.hlist = IF recalls THEN Len(added) ELSE 0,
                        !.hcurrent = IF recalls THEN Len(added) ELSE 0])

\* FindSupport::DoFind(): with find_show_last_pattern, the last line of the history
Find ==
    \E show \in BOOLEAN :
      LET h == input.history
      IN  /\ Len(h) < HistoryBound
          /\ input' = OpenDialog(input, IF show /\ h # <<>> THEN h[Len(h)] ELSE <<>>, TRUE, FALSE)

\* StringEditDialog(), Jump(): a value to be edited, or a dialog for single keys
EditOrJump ==
    \/ \E line \in SampleLines : input' = OpenDialog(input, line, FALSE, FALSE)
    \/ input' = OpenDialog(input, <<>>, FALSE, TRUE)

\* The page is closed: the coroutine and its dialog are destroyed.
DestroyDialog == input.open /\ input' = Over(input)

ResizeDialog ==
    \E w \in WindowWidths :
      input' = IF input.open THEN CursorMovedRight([input EXCEPT !.width = FieldWidth(w)])
               ELSE [input EXCEPT !.width = FieldWidth(w)]

TextNext ==
    \/ Key
    \/ input.open /\ Enter
    \/ input.open /\ CancelKey
    \/ Find \/ EditOrJump \/ DestroyDialog \/ ResizeDialog

TextSpec == TextInit /\ [][TextNext]_input

-----------------------------------------------------------------------------
(* Properties *)

\* Every field has its type; the field keeps a width when the prompt leaves no room.
TextTypeOK == input \in Inputs

\* The cursor is within the line and in view, whatever is typed, deleted or recalled,
\* and however the window changes.
CursorInView ==
    input.open => /\ input.start <= input.cursor /\ input.cursor <= Len(input.value)
                  /\ Column(input) < input.width

\* While the history is being read, it has what it had, and the line of this dialog.
HistoryKept ==
    input.open /\ input.recalls =>
      /\ input.hcurrent = Len(input.history)
      /\ Front1(input.history) = input.before

\* A dialog that ends with a key leaves the history as it was, but for the line that has
\* been entered.
HistoryOfLines ==
    [][input.open /\ input.recalls /\ (Enter \/ CancelKey) =>
         IF Enter /\ ~input.fragile /\ input.value # <<>>
         THEN input'.history = Newest(Append(input.before, input.value))
         ELSE input'.history \in {input.before, Newest(input.before)}]_input

\* Going back to the line of this dialog brings back what had been typed.
DraftKept ==
    [][input.open /\ input.recalls /\ input.hlist = input.hcurrent /\ input'.recalls
         /\ input'.hlist < input.hlist => input'.history[input.hcurrent] = input.value]_input

\* What completes a line is what all the lines that begin with it have in common.
\* (It is looked at when a dialog for single keys has been opened.)
LongestCompletion ==
    input.open /\ input.fragile /\ input.selected =>
      \A list \in SUBSET SampleLines : \A prefix \in Lines :
        LET with == {l \in list : StartsWith(l, prefix)}
            new  == Complete(list, prefix)
        IN  with # {} => /\ \A l \in with : StartsWith(l, new)
                         /\ \A more \in Lines : (\A l \in with : StartsWith(l, more)) => StartsWith(new, more)

\* Whatever is typed, deleted, completed and recalled, the line is in view, and the history is
\* left with the lines that have been entered.
LineAndHistoryKept ==
    /\ [](TextTypeOK /\ CursorInView /\ HistoryKept /\ LongestCompletion)
    /\ HistoryOfLines /\ DraftKept
=============================================================================
