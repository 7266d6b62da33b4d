------------------------------ MODULE StatusBar ------------------------------
(***************************************************************************)
(* The two lowest lines of the screen: the status bar (StatusBar.cxx) with *)
(* its messages and the text that scrolls in it (hscroll.cxx,              *)
(* BasicMarquee.cxx), the dialogs that are painted over it (screen.cxx),   *)
(* and the progress bar (ProgressBar.cxx).  Two timers paint on their own: *)
(* that of the message and that of the scrolling text.                     *)
(*                                                                         *)
(* A text is its length; every character is one cell wide.  Scrolling is   *)
(* enabled (option "scroll").                                              *)
(***************************************************************************)
EXTENDS Naturals, Integers

CONSTANTS
    Widths,         \* of the screen
    Lengths,        \* of the song's description
    Times,          \* widths of the time display on the right
    LeftWidth,      \* of "Playing:" and "[Paused]"
    SeparatorLength,\* of option "scroll-sep"
    Durations,      \* of songs, in seconds; 0 is not known
    Dialogs         \* modal dialogs

ASSUME BarAssumption ==
    /\ Widths \subseteq Nat \ {0} /\ Lengths \subseteq Nat /\ Times \subseteq Nat
    /\ LeftWidth \in Nat /\ SeparatorLength \in Nat
    /\ Durations \subseteq Nat /\ 0 \in Durations /\ 0 \notin Dialogs

VARIABLE bar

NoDialog == 0

\* `width', `offset' and `scrolled' are the marquee's; it is undefined while `width' is 0.
\* `replaced' is history: was there another dialog when the visible one came?
BarInit ==
    \E w \in Widths :
        bar = [window |-> w, left |-> 0, right |-> 0, center |-> 0,
               message |-> FALSE, messageTimer |-> FALSE, modal |-> NoDialog, replaced |-> FALSE,
               width |-> 0, scrolled |-> 0, offset |-> 0, suspended |-> FALSE, timer |-> FALSE,
               max |-> 0, current |-> 0, position |-> 0]

-----------------------------------------------------------------------------
(* BasicMarquee and hscroll *)

ClearScroll(b) == [b EXCEPT !.width = 0, !.scrolled = 0, !.timer = FALSE]

\* Mutant: the timer is started even under a dialog.
SetScrollAnyway(b, width) ==
    IF width = b.width /\ b.center = b.scrolled THEN b
    ELSE [b EXCEPT !.width = width, !.scrolled = b.center, !.offset = 0, !.timer = TRUE]

\* Set(): the same text in the same width goes on scrolling.
SetScroll(b, width) ==
    IF width = b.width /\ b.center = b.scrolled THEN b
    ELSE [b EXCEPT !.width = width, !.scrolled = b.center, !.offset = 0,
                   !.timer = @ \/ ~b.suspended]

Suspend(b) == [b EXCEPT !.suspended = TRUE, !.timer = FALSE]
Resume(b) == [b EXCEPT !.suspended = FALSE, !.timer = @ \/ b.width > 0]

MaxOffset(b) == b.scrolled + SeparatorLength

Step(b) == [b EXCEPT !.offset = IF @ + 1 >= MaxOffset(b) THEN 0 ELSE @ + 1]

\* What ScrollString() takes from the buffer, which holds text and separator twice: the places
\* of the characters.
ScrollString(b) ==
    LET from == b.offset
        to == 2 * MaxOffset(b)
    IN  {i \in 1..to : i > from /\ i <= from + b.width}

ScrollTimer == bar.timer /\ bar' = [Step(bar) EXCEPT !.timer = TRUE]

-----------------------------------------------------------------------------
(* StatusBar *)

Room(b) == b.window - (b.left + b.right)

\* UpdateScrollLayout(): without room, what scrolls is left alone.
ScrollLayout(b) ==
    IF Room(b) <= 0 THEN b
    ELSE IF b.window > 3 /\ b.center > Room(b) THEN SetScroll(b, Room(b))
    ELSE ClearScroll(b)

\* SetMessage(), which does not ask for dialogs
SetMessage(b) == [ClearScroll(b) EXCEPT !.message = TRUE, !.messageTimer = TRUE]

ClearMessage(b) == [b EXCEPT !.message = FALSE, !.messageTimer = FALSE]

OnMessageTimer == bar.messageTimer /\ bar' = ClearMessage(bar)

\* ScreenManager::Alert(), from any callback
Alert == bar' = SetMessage(bar)

-----------------------------------------------------------------------------
(* ProgressBar *)

\* Calculate()
Position(b) ==
    IF b.max = 0 THEN b ELSE [b EXCEPT !.position = (b.window * b.current) \div (b.max + 1)]

SetProgress(b, current, max) ==
    Position([b EXCEPT !.current = IF current > max THEN max ELSE current, !.max = max])

\* ValueAtX(), -1 for none
ValueAtX(b, x) == IF b.max = 0 THEN -1 ELSE (x * b.max) \div b.window

-----------------------------------------------------------------------------
(* ScreenManager *)

\* Update() of the progress bar and of the status bar; MPD may report more than the duration.
UpdateBar ==
    \E playing \in BOOLEAN, max \in Durations, elapsed \in 0..2, center \in Lengths, right \in Times :
        LET current == IF playing THEN (max * elapsed + 1) \div 2 ELSE 0
            b == SetProgress(bar, current, IF playing THEN max ELSE 0)
        IN  bar' = IF playing
                   THEN ScrollLayout([b EXCEPT !.left = LeftWidth, !.right = right, !.center = center])
                   ELSE ClearScroll([b EXCEPT !.left = 0, !.right = 0, !.center = 0])

OnResize == \E w \in Widths : bar' = ScrollLayout(Position([bar EXCEPT !.window = w]))

\* HideModalDialog(), and CancelModalDialog(), after which the coroutine that was waiting may
\* end with a message
HideModalDialog(b) ==
    {Resume([c EXCEPT !.modal = NoDialog, !.replaced = FALSE]) : c \in {b, SetMessage(b)}}

\* ShowModalDialog(): the dialog that is there already is cancelled.
ShowModalDialog ==
    \E d \in Dialogs \ {bar.modal} :
        LET b == Suspend(ClearMessage(bar))
        IN  bar' \in {[c EXCEPT !.modal = d, !.replaced = b.modal # NoDialog] :
                         c \in IF b.modal = NoDialog THEN {b} ELSE HideModalDialog(b)}

LeaveDialog == bar.modal # NoDialog /\ bar' \in HideModalDialog(bar)

BarNext ==
    \/ ScrollTimer \/ OnMessageTimer \/ Alert
    \/ UpdateBar \/ OnResize
    \/ ShowModalDialog \/ LeaveDialog

BarSpec == BarInit /\ [][BarNext]_bar

-----------------------------------------------------------------------------
(* Properties *)

\* Types; the mark of the progress bar is within it, as its assertions say, whatever the
\* position that MPD reports.
BarTypeOK ==
    /\ bar.window \in Widths /\ bar.modal \in Dialogs \cup {NoDialog}
    /\ bar.messageTimer = bar.message
    /\ bar.max > 0 => bar.position < bar.window
    /\ bar.width > 0 => bar.offset < MaxOffset(bar)

\* A text that scrolls keeps scrolling, however often it is set again, the window is resized or
\* dialogs come and go; and its timer never fires without a text or while it is suspended,
\* which OnTimer() and Paint() assert.
KeepsScrolling ==
    /\ bar.timer => bar.width > 0 /\ ~bar.suspended
    /\ bar.modal = NoDialog => (bar.width > 0 => bar.timer)

\* Nothing paints over a dialog that came when there was none, whatever is set, shown or
\* resized while it is visible.
QuietUnderDialog == bar.modal # NoDialog /\ ~bar.replaced => ~bar.timer

\* Whenever there is room between what is on the left and on the right, the text that scrolls
\* fills it and is the song's.
ScrollFits ==
    bar.width > 0 /\ Room(bar) > 0 =>
        /\ bar.width = Room(bar) /\ bar.scrolled = bar.center
        /\ \A i \in 1..bar.width : bar.offset + i \in ScrollString(bar)

\* A click on the progress bar seeks to where its mark is painted at that cell or before, less
\* than two seconds' worth of cells away.
ClickIsWhereItPoints ==
    bar.max > 0 =>
        \A x \in 0..(bar.window - 1) :
            LET mark == SetProgress(bar, ValueAtX(bar, x), bar.max).position
            IN  mark <= x /\ (x - mark) * bar.max < 2 * bar.window + bar.max

\* "This is used to avoid this class from overwriting the status bar while a modal dialog is
\* visible." (hscroll.hxx:57-58): false of a dialog that has replaced another, whose end resumes
\* the scrolling after it was suspended.
NotOverDialog == bar.modal # NoDialog => ~bar.timer

\* The bar survives every order of messages, dialogs, songs and sizes of the window: the text
\* goes on scrolling where there is room, but for the time of a dialog that came when there was
\* none, and the progress bar shows and takes positions.
BarSound ==
    /\ BarTypeOK /\ KeepsScrolling /\ QuietUnderDialog
    /\ ScrollFits /\ ClickIsWhereItPoints
=============================================================================
