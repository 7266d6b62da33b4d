----------------------------- MODULE ListWindow -----------------------------
(***************************************************************************)
(* The list of a page: cursor, origin and range selection (ui/ListCursor,  *)
(* ui/ListWindow), under the commands and clicks of the user and the       *)
(* changes a page makes to it.                                             *)
(*                                                                         *)
(* A page opens its list before it gives it a height (ScreenManager::      *)
(* Switch), so the height is uninitialized at first.  Arithmetic is that   *)
(* of `unsigned', with a smaller modulus.                                  *)
(***************************************************************************)
EXTENDS Integers, FiniteSetsExt

CONSTANTS Modulus,        \* bound: of unsigned numbers
          Heights,        \* of the window
          Garbage,        \* bound: values of the height before it is set
          MaxLength,      \* bound: items
          ScrollOffsets,  \* values of the option
          Pages,          \* the kinds of page: "list", or "text" without a cursor
          OthersEdit      \* another client may edit the list during LIST_MOVE_*

Unsigned == 0..(Modulus - 1)

ASSUME ConstantsAssumption ==
    /\ Modulus \in Nat /\ MaxLength \in Nat /\ MaxLength < Modulus \div 2
    /\ Heights \subseteq Nat \ {0} /\ ScrollOffsets \subseteq Nat
    /\ \A h \in Heights, o \in ScrollOffsets : 4 * (h + o + MaxLength) < Modulus
    /\ Garbage \subseteq Unsigned
    /\ Pages \subseteq {"list", "text"}
    /\ OthersEdit \in BOOLEAN

VARIABLES
    options,  \* the options, and the kind of page
    sized,    \* SetHeight() has been called
    lw        \* the ListWindow

vars == <<options, sized, lw>>

-----------------------------------------------------------------------------
(* Unsigned arithmetic.                                                    *)

Wrap(x) == x % Modulus
ToInt(x) == IF x < Modulus \div 2 THEN x ELSE x - Modulus

-----------------------------------------------------------------------------
(* The methods, as operators from a window to a window.                    *)

End(l) == Wrap(l.start + l.height)

ValidateIndex(l, i) == IF l.length = 0 THEN 0 ELSE IF i >= l.length THEN l.length - 1 ELSE i

\* mutant: the range is not cut off with the list
CheckSelectedOnly(l) ==
    [l EXCEPT !.selected = ValidateIndex(l, @), !.base = IF l.range THEN @ ELSE 0]

\* range_base is 0 when there is no range selection: nobody reads it
CheckSelected(l) ==
    [l EXCEPT !.selected = ValidateIndex(l, @),
              !.base = IF l.range THEN ValidateIndex(l, @) ELSE 0]

\* the int new_start as it is computed from n
NewStart(l, n) ==
    LET top == IF n < Wrap(l.start + l.offset) THEN ToInt(Wrap(n - l.offset)) ELSE ToInt(l.start)
        bottom == IF n >= Wrap(top + l.height - l.offset)
                    THEN ToInt(Wrap(n - l.height + 1 + l.offset)) ELSE top
    IN  IF Wrap(bottom + l.height) > l.length THEN ToInt(Wrap(l.length - l.height)) ELSE bottom

ScrollTo(l, n) ==
    [l EXCEPT !.highlight = FALSE,
              !.start = IF n = 0 \/ l.length = 0 \/ NewStart(l, n) < 0 THEN 0
                        ELSE NewStart(l, n)]

CheckOrigin(l) == ScrollTo(l, l.selected)

SetHeight(l, h) ==
    CheckOrigin([l EXCEPT !.height = h, !.offset = Min({options.scroll_offset, h \div 2})])

SetLength(l, n) ==
    IF n = l.length THEN l ELSE CheckOrigin(CheckSelected([l EXCEPT !.length = n]))

Reset(l) ==
    [l EXCEPT !.selected = 0, !.range = FALSE, !.highlight = FALSE, !.base = 0, !.start = 0]

SetOrigin(l, n) == [l EXCEPT !.start = n]

\* half a page
Half(l) == Wrap(l.height - 1) \div 2

ScrollToBottom(l) ==
    SetOrigin(l, IF l.length > l.height THEN l.length - l.height ELSE 0)

\* the end of Center(), and of the methods that scroll forwards
ClampOrigin(l) == IF End(l) > l.length THEN ScrollToBottom(l) ELSE l

Center(l, n) ==
    ClampOrigin([l EXCEPT !.highlight = FALSE,
                          !.start = IF n > Half(l) THEN n - Half(l) ELSE 0])

SetCursor(l, i) == CheckOrigin(CheckSelected([l EXCEPT !.range = FALSE, !.selected = i]))

MoveCursor(l, n) == CheckOrigin(CheckSelected([l EXCEPT !.selected = n, !.highlight = FALSE]))

\* mutant: into the window, but not away from its edge
FetchCursorToEdge(l) ==
    MoveCursor(l, IF l.selected < l.start THEN l.start
                  ELSE IF End(l) < l.length /\ l.selected >= End(l) THEN Wrap(End(l) - 1)
                  ELSE l.selected)

FetchCursor(l) ==
    LET above == IF l.start > 0 /\ l.selected < Wrap(l.start + l.offset)
                   THEN Wrap(l.start + l.offset) ELSE l.selected
        last == Wrap(End(l) - 1 - l.offset)
    IN  MoveCursor(l, IF End(l) < l.length /\ above > last THEN last ELSE above)

ScrollUp(l, n) ==
    LET scrolled == [l EXCEPT !.start = IF n > @ THEN 0 ELSE @ - n]
    IN  IF l.start > 0 THEN FetchCursor(scrolled) ELSE [l EXCEPT !.highlight = FALSE]

ScrollDown(l, n) ==
    LET scrolled == [l EXCEPT !.start = IF End(l) + n > l.length - 1 THEN l.length - l.height
                                        ELSE @ + n]
    IN  IF End(l) < l.length THEN FetchCursor(scrolled) ELSE [l EXCEPT !.highlight = FALSE]

SelectionMoved(l, by) ==
    LET moved == [l EXCEPT !.selected = Wrap(@ + by), !.base = IF l.range THEN Wrap(@ + by) ELSE 0]
    IN  IF l.range THEN ScrollTo(ScrollTo(moved, moved.base), moved.selected)
        ELSE ScrollTo(moved, moved.selected)

\* GetRange
First(l) == IF l.range THEN Min({l.base, l.selected}) ELSE l.selected
Last(l) == IF l.range THEN Max({l.base, l.selected}) ELSE l.selected
-----------------------------------------------------------------------------
(* ListWindow::HandleCommand and HandleScrollCommand.                      *)

MoveCursorNext(l) ==
    IF l.selected + 1 < l.length THEN MoveCursor(l, l.selected + 1)
    ELSE IF options.list_wrap THEN MoveCursor(l, 0) ELSE l

MoveCursorPrevious(l) ==
    IF l.selected > 0 THEN MoveCursor(l, l.selected - 1)
    ELSE IF options.list_wrap THEN MoveCursor(l, Wrap(l.length - 1)) ELSE l

\* the last row above the lower margin
LastRow(l) == Wrap(End(l) - 1 - l.offset)

MoveCursorTop(l) ==
    MoveCursor(l, IF l.start = 0 THEN 0 ELSE Min({Wrap(l.start + l.offset), LastRow(l)}))

MoveCursorMiddle(l) ==
    MoveCursor(l, IF l.length >= l.height THEN l.start + Half(l) ELSE l.length \div 2)

MoveCursorBottom(l) ==
    MoveCursor(l, IF l.length >= l.height /\ End(l) # l.length THEN LastRow(l)
                  ELSE Wrap(l.length - 1))

MoveCursorLast(l) == MoveCursor(l, IF l.length > 0 THEN l.length - 1 ELSE 0)

MoveCursorNextPage(l) ==
    IF l.height < 2 THEN [l EXCEPT !.highlight = FALSE]
    ELSE IF l.selected + l.height < l.length THEN MoveCursor(l, l.selected + l.height - 1)
    ELSE MoveCursorLast(l)

MoveCursorPreviousPage(l) ==
    IF l.height < 2 THEN [l EXCEPT !.highlight = FALSE]
    ELSE MoveCursor(l, IF l.selected > l.height - 1 THEN l.selected - l.height + 1 ELSE 0)

RangeSelect(l) ==
    IF l.range THEN SetCursor(l, l.selected) ELSE [l EXCEPT !.base = l.selected, !.range = TRUE]

HandleCommand(l, cmd) ==
    CASE cmd = "PREVIOUS" -> MoveCursorPrevious(l)
      [] cmd = "NEXT" -> MoveCursorNext(l)
      [] cmd = "TOP" -> MoveCursorTop(l)
      [] cmd = "MIDDLE" -> MoveCursorMiddle(l)
      [] cmd = "BOTTOM" -> MoveCursorBottom(l)
      [] cmd = "FIRST" -> MoveCursor(l, 0)
      [] cmd = "LAST" -> MoveCursorLast(l)
      [] cmd = "NEXT_PAGE" -> MoveCursorNextPage(l)
      [] cmd = "PREVIOUS_PAGE" -> MoveCursorPreviousPage(l)
      [] cmd = "RANGE_SELECT" -> RangeSelect(l)
      [] cmd = "SCROLL_UP_LINE" -> ScrollUp(l, 1)
      [] cmd = "SCROLL_DOWN_LINE" -> ScrollDown(l, 1)
      [] cmd = "SCROLL_UP_HALF" -> ScrollUp(l, Half(l))
      [] cmd = "SCROLL_DOWN_HALF" -> ScrollDown(l, Half(l))

\* ScrollNextPage and the like: the origin moves, the hidden cursor stays
ScrollForward(l, n) == ClampOrigin([l EXCEPT !.highlight = FALSE, !.start = Wrap(@ + n)])
ScrollBackward(l, n) == [l EXCEPT !.highlight = FALSE, !.start = IF @ > n THEN @ - n ELSE 0]

HandleScrollCommand(l, cmd) ==
    CASE cmd \in {"SCROLL_UP_LINE", "PREVIOUS"} -> ScrollUp(l, 1)
      [] cmd \in {"SCROLL_DOWN_LINE", "NEXT"} -> ScrollDown(l, 1)
      [] cmd = "FIRST" -> SetOrigin(l, 0)
      [] cmd = "LAST" -> ScrollToBottom(l)
      [] cmd = "NEXT_PAGE" -> ScrollForward(l, l.height)
      [] cmd = "PREVIOUS_PAGE" -> ScrollBackward(l, l.height)
      [] cmd = "SCROLL_UP_HALF" -> ScrollBackward(l, Half(l))
      [] cmd = "SCROLL_DOWN_HALF" -> ScrollForward(l, Half(l))

ScrollCommand ==
    {"PREVIOUS", "NEXT", "FIRST", "LAST", "NEXT_PAGE", "PREVIOUS_PAGE", "SCROLL_UP_LINE",
     "SCROLL_DOWN_LINE", "SCROLL_UP_HALF", "SCROLL_DOWN_HALF"}

ListCommand == ScrollCommand \cup {"TOP", "MIDDLE", "BOTTOM", "RANGE_SELECT"}

-----------------------------------------------------------------------------
(* The pages.                                                              *)

Is(kind) == options.page = kind

Do(window) == lw' = window /\ UNCHANGED <<options, sized>>

\* Page::Resize
Resize(h) ==
    /\ sized => h # lw.height
    /\ lw' = SetHeight(lw, h)
    /\ sized' = TRUE
    /\ UNCHANGED options

\* The page has loaded or followed a list of n items.
Load(n) == Do(SetLength(lw, n))

\* QueuePage::RestoreSelection, FileBrowserPage::GotoSong and other pages
Select(i) == i <= lw.length /\ Is("list") /\ Do(SetCursor(lw, i))

\* QueuePage::CenterPlayingItem; the position is that of the status
CenterPlayingItem(i) ==
    /\ Is("list")
    /\ LET centered == Center(lw, i)
       IN  \E window \in {SetCursor(centered, i), FetchCursor(centered)} : Do(window)

\* ListPage::OnCommand, before which QueuePage shows the cursor
Command(cmd) ==
    /\ sized
    /\ \/ lw.show /\ Do(HandleCommand(lw, cmd))
       \/ ~lw.show /\ Is("list") /\ Do(HandleCommand([lw EXCEPT !.show = TRUE], cmd))
       \/ ~lw.show /\ Is("text") /\ cmd \in ScrollCommand /\ Do(HandleScrollCommand(lw, cmd))

\* QueuePage::OnHideCursorTimer; any command, and OnOpen(), shows the cursor again
HideCursor == Is("list") /\ lw.show /\ Do([lw EXCEPT !.show = FALSE])
ShowCursor == Is("list") /\ ~lw.show /\ Do([lw EXCEPT !.show = TRUE])

\* ListWindow::HandleMouse: the wheel
Wheel == sized /\ \E window \in {ScrollUp(lw, 4), ScrollDown(lw, 4)} : Do(window)

\* ListWindow::HandleMouse below the last item, else the page's OnMouse; a click above the window
\* goes to the title bar (ScreenManager::OnMouse)
Click(y) ==
    /\ sized /\ y < lw.height
    /\ \/ y >= lw.length /\ \E window \in {MoveCursorLast(lw), MoveCursorNextPage(lw)} : Do(window)
       \/ y < lw.length /\ Is("list") /\ Do(SetCursor(lw, lw.start + y))

\* ListWindow::Find, ReverseFind and Jump have found item i.
Found(i) ==
    /\ sized /\ i < lw.length
    /\ Do([MoveCursor(lw, i) EXCEPT !.highlight = TRUE])

\* QueuePage::OnCommand, DELETE: the range is read before RunDeleteRange(), in which
\* a nested update may load a queue of n items.
Delete(n) == sized /\ Is("list") /\ Do(SetCursor(SetLength(lw, n), First(lw)))

\* LIST_MOVE_UP and LIST_MOVE_DOWN read the range before RunMove(), in which a nested
\* update may load a list of more than n items and set the cursor to its song
\* (RestoreSelection), or keep the range.
Updated(n) ==
    {lw} \cup
        IF OthersEdit
          THEN UNION {{SetLength(lw, m)} \cup
                      {SetCursor(SetLength(lw, m), i) : i \in IF lw.range THEN {} ELSE 0..(m - 1)} :
                        m \in (n + 1)..MaxLength}
          ELSE {}

MovedUp ==
    /\ sized /\ Is("list") /\ lw.length > 0 /\ First(lw) > 0
    /\ \E window \in Updated(Last(lw)) : Do(SelectionMoved(window, -1))

MovedDown ==
    /\ sized /\ Is("list") /\ Last(lw) + 1 < lw.length
    /\ \E window \in Updated(Last(lw) + 1) : Do(SelectionMoved(window, 1))

\* FileBrowserPage::ChangeDirectory, ChangeToParent and GotoSong
ChangeDirectory(n) ==
    /\ Is("list") /\ sized
    /\ LET loaded == Reset(SetLength(lw, n))
       IN  \/ Do(loaded)
           \/ \E i \in 0..(n - 1) : LET set == SetCursor(loaded, i)
                                   IN  Do(set) \/ Do(Center(set, i))

\* TextPage::OnCommand, HelpPage::OnCommand: a command that is not the list's
OtherCommand ==
    /\ sized /\ Is("text")
    /\ ~lw.highlight
    /\ Do(SetCursor(lw, lw.start))

\* TextPage::Set, and LyricsPage::Set for the same lyrics
SetText(n) ==
    /\ Is("text") /\ n > 0
    /\ LET text == SetLength(SetLength(Reset(lw), 0), n)
       IN  \/ Do(text)
           \/ sized /\ Do(FetchCursor(SetOrigin(text, lw.start)))

-----------------------------------------------------------------------------
Init ==
    /\ options \in [scroll_offset : ScrollOffsets, list_wrap : BOOLEAN, page : Pages]
    /\ sized = FALSE
    /\ \E garbage \in Garbage :
          lw = [height |-> garbage, offset |-> 0, length |-> 0, start |-> 0, selected |-> 0,
                base |-> 0, range |-> FALSE, show |-> Is("list"), highlight |-> FALSE]

Next ==
    \/ \E h \in Heights : Resize(h)
    \/ \E n \in 0..MaxLength : Load(n) \/ ChangeDirectory(n) \/ SetText(n) \/ Delete(n)
    \/ \E i \in 0..MaxLength : \/ Select(i) \/ CenterPlayingItem(i) \/ Click(i) \/ Found(i)
    \/ \E cmd \in ListCommand : Command(cmd)
    \/ HideCursor \/ ShowCursor \/ Wheel \/ MovedUp \/ MovedDown \/ OtherCommand

Spec == Init /\ [][Next]_vars

-----------------------------------------------------------------------------
(* Properties.                                                             *)

\* The fields keep their types; in particular no subtraction goes below zero.
TypeOK ==
    /\ options \in [scroll_offset : ScrollOffsets, list_wrap : BOOLEAN, page : Pages]
    /\ sized \in BOOLEAN
    /\ lw \in [height : Unsigned, offset : Unsigned, length : 0..MaxLength, start : Unsigned,
               selected : 0..MaxLength, base : 0..MaxLength, range : BOOLEAN,
               show : BOOLEAN, highlight : BOOLEAN]
    /\ sized => lw.height \in Heights /\ lw.start <= MaxLength

\* However the list shrinks and is moved, cursor and range are items of it: the pages
\* use them as indices.
CursorValid == \A i \in {lw.selected, lw.base} : i < lw.length \/ i = 0

\* What GetRange() returns are items: "The index of the first selected item"
\* (ui/ListCursor.hxx:13).
SelectsItems == lw.length > 0 => First(lw) < lw.length /\ Last(lw) < lw.length

\* There is no blank line below the list while items above it are hidden.
WindowFilled == sized => lw.start = 0 \/ lw.start + lw.height <= lw.length

OnScreen(i) == lw.start <= i /\ i < lw.start + lw.height

\* A cursor that is shown is on the screen.
CursorVisible == sized /\ lw.show /\ lw.length > 0 => OnScreen(lw.selected)

Margin == Min({options.scroll_offset, (lw.height - 1) \div 2})

\* "Keep at least NUM lines above and below the cursor on list windows, if
\* possible" (doc/index.rst:140).
MarginsKept ==
    sized /\ lw.show /\ lw.length > 0 =>
        /\ lw.start = 0 \/ lw.start + Margin <= lw.selected
        /\ lw.start + lw.height >= lw.length \/ lw.selected + Margin < lw.start + lw.height

\* Scrolling by a line scrolls by a line: the cursor follows the window, never the
\* window the cursor.
ScrollsByLine ==
    [][ /\ Command("SCROLL_UP_LINE") => lw'.start = Max({0, lw.start - 1})
        /\ Command("SCROLL_DOWN_LINE") =>
              lw'.start = Max({lw.start, Min({lw.start + 1, lw.length - lw.height})})]_vars

\* Going to the top, the middle and the bottom of the window leaves the window alone.
StaysInWindow ==
    [][\A cmd \in {"TOP", "MIDDLE", "BOTTOM"} : Command(cmd) => lw'.start = lw.start]_vars

\* The view follows the cursor, through every change of the list, the window and the options.
WindowKept ==
    /\ [](TypeOK /\ WindowFilled /\ CursorVisible /\ MarginsKept)
    /\ ScrollsByLine /\ StaysInWindow
=============================================================================
