-------------------------- MODULE ListWindow_proofs --------------------------
(***************************************************************************)
(* Whatever the user and the pages do to a list, its cursor and its range  *)
(* are items of it: for every modulus, height, uninitialized height,       *)
(* length and scroll-offset; and the window follows the cursor.  A         *)
(* selection that is moved while another client changes the list is        *)
(* excluded (OthersEdit).                                                  *)
(***************************************************************************)
EXTENDS ListWindow, TLAPS

\* A window in the middle of a method: the cursor may be anywhere.
Loose ==
    [height : Nat, offset : Nat, length : 0..MaxLength, start : Int, selected : Nat,
     base : Nat, range : BOOLEAN, show : BOOLEAN, highlight : BOOLEAN]

IsItem(i, l) == i < l.length \/ i = 0

\* A window between two methods.
Valid(l) == l \in Loose /\ l.start \in Nat /\ IsItem(l.selected, l) /\ IsItem(l.base, l)

OptionsOK == options.scroll_offset \in Nat

Inv == OptionsOK /\ Valid(lw)

-----------------------------------------------------------------------------
(* Arithmetic.                                                             *)

\* What fits into an unsigned number is kept by it.
LEMMA WrapKeeps == ASSUME NEW x \in Unsigned PROVE Wrap(x) = x
  BY ConstantsAssumption DEF Wrap, Unsigned

\* Every number becomes a natural number that is small enough.
LEMMA WrapType == ASSUME NEW x \in Int PROVE Wrap(x) \in Nat
  <1>1. Modulus \in Nat /\ Modulus > 0
    BY ConstantsAssumption
  <1> QED
    BY <1>1 DEF Wrap

LEMMA MinType == ASSUME NEW x \in Nat, NEW y \in Nat
    PROVE  Min({x, y}) \in {x, y} /\ Min({x, y}) <= x /\ Min({x, y}) <= y
  <1>1. \E m \in {x, y} : \A n \in {x, y} : m <= n
    <2>1. CASE x <= y
      BY <2>1
    <2>2. CASE y <= x
      BY <2>2
    <2> QED
      BY <2>1, <2>2
  <1> QED
    BY <1>1 DEF Min

LEMMA MaxType == ASSUME NEW x \in Nat, NEW y \in Nat
    PROVE  Max({x, y}) \in {x, y} /\ Max({x, y}) >= x /\ Max({x, y}) >= y
  <1>1. \E m \in {x, y} : \A n \in {x, y} : m >= n
    <2>1. CASE x <= y
      BY <2>1
    <2>2. CASE y <= x
      BY <2>2
    <2> QED
      BY <2>1, <2>2
  <1> QED
    BY <1>1 DEF Max

-----------------------------------------------------------------------------
(* The methods of ListCursor.                                              *)

\* An assignment to the origin.
LEMMA Scrolled ==
    ASSUME NEW l \in Loose, NEW s \in Nat
    PROVE  LET k == [l EXCEPT !.highlight = FALSE, !.start = s]
           IN  /\ k \in Loose /\ k.start \in Nat
               /\ k.length = l.length /\ k.selected = l.selected /\ k.base = l.base
  <1> DEFINE k == [l EXCEPT !.highlight = FALSE, !.start = s]
  <1> s \in Int
    OBVIOUS
  <1>1. k \in Loose
    BY DEF Loose
  <1>2. k.start = s /\ k.length = l.length /\ k.selected = l.selected /\ k.base = l.base
    BY DEF Loose
  <1> QED
    BY <1>1, <1>2

\* ScrollTo() leaves everything but the origin alone, which is not below zero.
LEMMA ScrollToKeeps ==
    ASSUME NEW l \in Loose, NEW n \in Nat
    PROVE  LET k == ScrollTo(l, n)
           IN  /\ k \in Loose /\ k.start \in Nat
               /\ k.length = l.length /\ k.selected = l.selected /\ k.base = l.base
  <1>1. NewStart(l, n) \in Int
    <2>1. \A x \in Int : Wrap(x) \in Nat /\ ToInt(Wrap(x)) \in Int
      BY WrapType, ConstantsAssumption DEF ToInt
    <2>2. l.start \in Int /\ l.height \in Int /\ l.offset \in Int /\ l.length \in Int
      BY ConstantsAssumption DEF Loose
    <2>3. ToInt(l.start) \in Int
      BY <2>2, ConstantsAssumption DEF ToInt
    <2> DEFINE top == IF n < Wrap(l.start + l.offset) THEN ToInt(Wrap(n - l.offset))
                      ELSE ToInt(l.start)
               bottom == IF n >= Wrap(top + l.height - l.offset)
                           THEN ToInt(Wrap(n - l.height + 1 + l.offset)) ELSE top
    <2>4. top \in Int
      BY <2>1, <2>2, <2>3
    <2>5. bottom \in Int
      BY <2>1, <2>2, <2>4
    <2>6. NewStart(l, n) = IF Wrap(bottom + l.height) > l.length
                             THEN ToInt(Wrap(l.length - l.height)) ELSE bottom
      BY DEF NewStart
    <2> HIDE DEF top, bottom
    <2> QED
      BY <2>1, <2>2, <2>5, <2>6
  <1> DEFINE s == IF n = 0 \/ l.length = 0 \/ NewStart(l, n) < 0 THEN 0 ELSE NewStart(l, n)
  <1>2. s \in Nat
    BY <1>1
  <1>3. ScrollTo(l, n) = [l EXCEPT !.highlight = FALSE, !.start = s]
    BY DEF ScrollTo
  <1> HIDE DEF s
  <1> QED
    BY <1>2, <1>3, Scrolled, ZenonT(60)

\* After CheckSelected() the cursor and the range are items, wherever they were.
LEMMA CheckSelectedCorrect ==
    ASSUME NEW l \in Loose
    PROVE  LET k == CheckSelected(l)
           IN  /\ k \in Loose /\ k.length = l.length
               /\ IsItem(k.selected, k) /\ IsItem(k.base, k)
  <1>1. l.length \in Nat /\ l.length <= MaxLength /\ l.selected \in Nat /\ l.base \in Nat
    BY ConstantsAssumption DEF Loose
  <1>2. \A i \in Nat : ValidateIndex(l, i) \in Nat /\ IsItem(ValidateIndex(l, i), l)
    BY <1>1 DEF ValidateIndex, IsItem
  <1> DEFINE s == ValidateIndex(l, l.selected)
             b == IF l.range THEN ValidateIndex(l, l.base) ELSE 0
             k == [l EXCEPT !.selected = s, !.base = b]
  <1>3. s \in Nat /\ b \in Nat /\ IsItem(s, l) /\ IsItem(b, l)
    BY <1>1, <1>2 DEF IsItem
  <1>4. CheckSelected(l) = k
    BY DEF CheckSelected
  <1> HIDE DEF s, b
  <1>5. k \in Loose
    BY <1>3 DEF Loose
  <1>6. k.selected = s /\ k.base = b /\ k.length = l.length
    BY DEF Loose
  <1> QED
    BY <1>3, <1>4, <1>5, <1>6 DEF IsItem

\* Both together, the end of every method that moves the cursor or changes the list.
LEMMA CheckedIsValid ==
    ASSUME NEW l \in Loose
    PROVE  /\ Valid(CheckOrigin(CheckSelected(l)))
           /\ CheckOrigin(CheckSelected(l)).length = l.length
  <1> DEFINE k == CheckSelected(l)
  <1>1. k \in Loose /\ k.length = l.length /\ IsItem(k.selected, k) /\ IsItem(k.base, k)
    BY CheckSelectedCorrect
  <1>2. k.selected \in Nat
    BY <1>1 DEF Loose
  <1> HIDE DEF k
  <1>3. CheckOrigin(CheckSelected(l)) = ScrollTo(k, k.selected)
    BY DEF CheckOrigin, k
  <1> QED
    BY <1>1, <1>2, <1>3, ScrollToKeeps, SMTT(60) DEF Valid, IsItem

LEMMA MoveCursorValid ==
    ASSUME NEW l \in Loose, NEW n \in Nat
    PROVE  Valid(MoveCursor(l, n)) /\ MoveCursor(l, n).length = l.length
  <1>1. [l EXCEPT !.selected = n, !.highlight = FALSE] \in Loose
    BY DEF Loose
  <1> QED
    BY <1>1, CheckedIsValid DEF MoveCursor, Loose

LEMMA SetCursorValid ==
    ASSUME NEW l \in Loose, NEW i \in Nat
    PROVE  Valid(SetCursor(l, i)) /\ SetCursor(l, i).length = l.length
  <1>1. [l EXCEPT !.range = FALSE, !.selected = i] \in Loose
    BY DEF Loose
  <1> QED
    BY <1>1, CheckedIsValid DEF SetCursor, Loose

LEMMA SetLengthValid ==
    ASSUME NEW l, Valid(l), NEW n \in 0..MaxLength
    PROVE  Valid(SetLength(l, n)) /\ SetLength(l, n).length = n
  <1>1. [l EXCEPT !.length = n] \in Loose
    BY DEF Loose, Valid
  <1> QED
    BY <1>1, CheckedIsValid DEF SetLength, Loose, Valid

LEMMA SetHeightValid ==
    ASSUME OptionsOK, NEW l, Valid(l), NEW h \in Nat
    PROVE  Valid(SetHeight(l, h))
  <1> DEFINE k == [l EXCEPT !.height = h, !.offset = Min({options.scroll_offset, h \div 2})]
  <1>1. Min({options.scroll_offset, h \div 2}) \in Nat
    <2>1. h \div 2 \in Nat
      OBVIOUS
    <2> QED
      BY <2>1, MinType DEF OptionsOK
  <1>2. k \in Loose /\ k.length = l.length /\ k.selected = l.selected /\ k.base = l.base
    BY <1>1 DEF Valid, Loose
  <1>3. k.selected \in Nat
    BY <1>2 DEF Loose
  <1> HIDE DEF k
  <1>4. Valid(ScrollTo(k, k.selected))
    BY <1>2, <1>3, ScrollToKeeps DEF Valid, IsItem
  <1> QED
    BY <1>4 DEF SetHeight, CheckOrigin, k

LEMMA ResetValid ==
    ASSUME NEW l, Valid(l)
    PROVE  Valid(Reset(l)) /\ Reset(l).length = l.length
  <1> l \in Loose
    BY DEF Valid
  <1> PICK z \in Nat : z = 0
    OBVIOUS
  <1> z \in Int
    OBVIOUS
  <1>1. Reset(l) \in Loose
    <2>1. Reset(l) = [l EXCEPT !.selected = z, !.range = FALSE, !.highlight = FALSE,
                               !.base = z, !.start = z]
      BY DEF Reset
    <2>2. [l EXCEPT !.selected = z, !.range = FALSE, !.highlight = FALSE,
                    !.base = z, !.start = z] \in Loose
      BY DEF Loose
    <2> QED
      BY <2>1, <2>2
  <1>2. /\ Reset(l).selected = 0 /\ Reset(l).base = 0 /\ Reset(l).start = 0
        /\ Reset(l).length = l.length
    BY DEF Reset, Loose
  <1> QED
    BY <1>1, <1>2 DEF Valid, IsItem

\* A method that moves the origin only.
LEMMA OriginMoved ==
    ASSUME NEW l, Valid(l), NEW n \in Nat
    PROVE  /\ Valid([l EXCEPT !.start = n])
           /\ Valid([l EXCEPT !.highlight = FALSE, !.start = n])
  <1> DEFINE k == [l EXCEPT !.start = n]
  <1>1. k \in Loose
    BY DEF Valid, Loose
  <1>2. k.start = n /\ k.selected = l.selected /\ k.base = l.base /\ k.length = l.length
    BY DEF Valid, Loose
  <1>3. Valid(k)
    BY <1>1, <1>2 DEF Valid, IsItem
  <1> QED
    BY <1>3, Scrolled DEF Valid, IsItem

LEMMA FlagsValid ==
    ASSUME NEW l, Valid(l), NEW b \in BOOLEAN
    PROVE  Valid([l EXCEPT !.highlight = b]) /\ Valid([l EXCEPT !.show = b])
  <1>1. [l EXCEPT !.highlight = b] \in Loose /\ [l EXCEPT !.show = b] \in Loose
    BY DEF Valid, Loose
  <1> QED
    BY <1>1 DEF Valid, Loose, IsItem

LEMMA ClampOriginValid ==
    ASSUME NEW l, Valid(l)
    PROVE  Valid(ClampOrigin(l))
  <1>1. (IF l.length > l.height THEN l.length - l.height ELSE 0) \in Nat
    BY ConstantsAssumption DEF Valid, Loose
  <1> QED
    BY <1>1, OriginMoved DEF ClampOrigin, ScrollToBottom, SetOrigin

LEMMA HalfType == ASSUME NEW l \in Loose PROVE Half(l) \in Nat
  <1>1. Wrap(l.height - 1) \in Nat
    BY WrapType DEF Loose
  <1> QED
    BY <1>1 DEF Half

LEMMA CenterValid ==
    ASSUME NEW l, Valid(l), NEW n \in Nat
    PROVE  Valid(Center(l, n))
  <1>1. (IF n > Half(l) THEN n - Half(l) ELSE 0) \in Nat
    BY HalfType DEF Valid
  <1> QED
    BY <1>1, OriginMoved, ClampOriginValid DEF Center

LEMMA FetchCursorValid ==
    ASSUME NEW l \in Loose
    PROVE  Valid(FetchCursor(l))
  <1>1. \A x \in Int : Wrap(x) \in Nat
    BY WrapType
  <1>2. l.start \in Int /\ l.height \in Int /\ l.offset \in Int /\ l.selected \in Nat
    BY DEF Loose
  <1>3. End(l) \in Nat
    BY <1>1, <1>2 DEF End
  <1> DEFINE above == IF l.start > 0 /\ l.selected < Wrap(l.start + l.offset)
                        THEN Wrap(l.start + l.offset) ELSE l.selected
             last == Wrap(End(l) - 1 - l.offset)
             target == IF End(l) < l.length /\ above > last THEN last ELSE above
  <1>4. target \in Nat
    BY <1>1, <1>2, <1>3
  <1>5. FetchCursor(l) = MoveCursor(l, target)
    BY DEF FetchCursor
  <1> HIDE DEF target
  <1> QED
    BY <1>4, <1>5, MoveCursorValid

\* ScrollUp() and ScrollDown() set the origin and let the cursor follow.
LEMMA ScrollValid ==
    ASSUME NEW l, Valid(l), NEW n \in Nat
    PROVE  Valid(ScrollUp(l, n)) /\ Valid(ScrollDown(l, n))
  <1>1. l \in Loose
    BY DEF Valid
  <1>2. /\ l.start \in Int /\ l.height \in Int /\ l.length \in Int
    BY <1>1, ConstantsAssumption DEF Loose
  <1>3. \A x \in Int : [l EXCEPT !.start = x] \in Loose
    BY <1>1 DEF Loose
  <1>4. (IF n > l.start THEN 0 ELSE l.start - n) \in Int
    BY <1>2
  <1>5. (IF End(l) + n > l.length - 1 THEN l.length - l.height ELSE l.start + n) \in Int
    BY <1>2
  <1>6. \A x \in Int : Valid(FetchCursor([l EXCEPT !.start = x]))
    BY <1>3, FetchCursorValid
  <1> QED
    BY <1>4, <1>5, <1>6, FlagsValid DEF ScrollUp, ScrollDown

LEMMA ScrollPageValid ==
    ASSUME NEW l, Valid(l), NEW n \in Nat
    PROVE  Valid(ScrollForward(l, n)) /\ Valid(ScrollBackward(l, n))
  <1>1. l.start \in Nat
    BY DEF Valid
  <1>2. Wrap(l.start + n) \in Nat
    BY <1>1, WrapType
  <1>3. (IF l.start > n THEN l.start - n ELSE 0) \in Nat
    BY <1>1
  <1> QED
    BY <1>2, <1>3, OriginMoved, ClampOriginValid DEF ScrollForward, ScrollBackward

\* A selection that may be moved up, or down, is moved to items.
LEMMA SelectionMovedValid ==
    ASSUME NEW l, Valid(l), NEW by \in {-1, 1},
           \A i \in {First(l), Last(l)} : 0 <= i + by /\ i + by < l.length
    PROVE  Valid(SelectionMoved(l, by))
  <1> DEFINE s == Wrap(l.selected + by)
             b == IF l.range THEN Wrap(l.base + by) ELSE 0
             k == [l EXCEPT !.selected = s, !.base = b]
  <1>1. l \in Loose
    BY DEF Valid
  <1>2. /\ l.selected \in Nat /\ l.base \in Nat
        /\ l.length \in Nat /\ l.length <= MaxLength /\ MaxLength < Modulus
        /\ Modulus \in Nat /\ MaxLength \in Nat
    BY <1>1, ConstantsAssumption DEF Loose
  <1>3. /\ 0 <= l.selected + by /\ l.selected + by < l.length
        /\ l.range => 0 <= l.base + by /\ l.base + by < l.length
    <2>1. CASE l.range
      <3>1. First(l) = Min({l.base, l.selected}) /\ Last(l) = Max({l.base, l.selected})
        BY <2>1 DEF First, Last
      <3>2. {First(l), Last(l)} = {l.base, l.selected}
        <4>1. /\ First(l) \in {l.base, l.selected}
              /\ First(l) <= l.base /\ First(l) <= l.selected
          BY <3>1, <1>2, MinType
        <4>2. /\ Last(l) \in {l.base, l.selected}
              /\ Last(l) >= l.base /\ Last(l) >= l.selected
          BY <3>1, <1>2, MaxType
        <4> QED
          BY <4>1, <4>2, <1>2
      <3> QED
        BY <3>2
    <2>2. CASE ~l.range
      BY <2>2, <1>2 DEF First
    <2> QED
      BY <2>1, <2>2
  <1>4. s = l.selected + by
    BY <1>2, <1>3, WrapKeeps DEF Unsigned
  <1>5. l.range => b = l.base + by
    BY <1>2, <1>3, WrapKeeps DEF Unsigned
  <1>6. s \in Nat /\ b \in Nat /\ IsItem(s, l) /\ IsItem(b, l)
    BY <1>2, <1>3, <1>4, <1>5 DEF IsItem
  <1> HIDE DEF s, b
  <1>7. k \in Loose
    BY <1>1, <1>6 DEF Loose
  <1>8. k.selected = s /\ k.base = b /\ k.length = l.length /\ k.range = l.range
    BY <1>1 DEF Loose
  <1>9. SelectionMoved(l, by) = IF l.range THEN ScrollTo(ScrollTo(k, k.base), k.selected)
                                ELSE ScrollTo(k, k.selected)
    BY DEF SelectionMoved, k, s, b
  <1> HIDE DEF k
  <1>10. Valid(ScrollTo(k, s))
    BY <1>6, <1>7, <1>8, ScrollToKeeps DEF Valid, IsItem
  <1>11. Valid(ScrollTo(ScrollTo(k, b), s))
    <2> DEFINE m == ScrollTo(k, b)
    <2>1. m \in Loose /\ m.length = l.length /\ m.selected = s /\ m.base = b
      BY <1>6, <1>7, <1>8, ScrollToKeeps
    <2> HIDE DEF m
    <2>2. Valid(ScrollTo(m, s))
      BY <1>6, <2>1, ScrollToKeeps DEF Valid, IsItem
    <2> QED
      BY <2>2 DEF m
  <1> QED
    BY <1>8, <1>9, <1>10, <1>11

-----------------------------------------------------------------------------
(* The commands.                                                           *)

\* Where the commands send the cursor is a natural number.
LEMMA MovesValid ==
    ASSUME NEW l, Valid(l)
    PROVE  /\ Valid(MoveCursorNext(l)) /\ Valid(MoveCursorPrevious(l))
           /\ Valid(MoveCursorTop(l)) /\ Valid(MoveCursorMiddle(l))
           /\ Valid(MoveCursorBottom(l)) /\ Valid(MoveCursorLast(l))
           /\ Valid(MoveCursorNextPage(l)) /\ Valid(MoveCursorPreviousPage(l))
  <1>1. l \in Loose
    BY DEF Valid
  <1>2. /\ l.start \in Nat /\ l.height \in Nat /\ l.length \in Nat /\ l.selected \in Nat
        /\ l.offset \in Nat
    BY <1>1, ConstantsAssumption DEF Valid, Loose
  <1>3. \A x \in Int : Wrap(x) \in Nat
    BY WrapType
  <1>4. LastRow(l) \in Nat /\ End(l) \in Nat
    BY <1>2, <1>3 DEF LastRow, End
  <1>5. \A n \in Nat : Valid(MoveCursor(l, n))
    BY <1>1, MoveCursorValid
  <1>6. Valid(MoveCursorNext(l))
    BY <1>2, <1>5 DEF MoveCursorNext
  <1>7. Valid(MoveCursorPrevious(l))
    BY <1>2, <1>3, <1>5 DEF MoveCursorPrevious
  <1>8. Valid(MoveCursorTop(l))
    <2>1. Wrap(l.start + l.offset) \in Nat
      BY <1>2, <1>3
    <2>2. Min({Wrap(l.start + l.offset), LastRow(l)}) \in Nat
      BY <2>1, <1>4, MinType
    <2> QED
      BY <2>2, <1>5 DEF MoveCursorTop
  <1>9. Valid(MoveCursorMiddle(l))
    <2>1. l.start + Half(l) \in Nat /\ l.length \div 2 \in Nat
      BY <1>1, <1>2, HalfType
    <2> QED
      BY <2>1, <1>5 DEF MoveCursorMiddle
  <1>10. Valid(MoveCursorBottom(l))
    BY <1>2, <1>3, <1>4, <1>5 DEF MoveCursorBottom
  <1>11. Valid(MoveCursorLast(l))
    BY <1>2, <1>5 DEF MoveCursorLast
  <1>12. Valid([l EXCEPT !.highlight = FALSE])
    BY FlagsValid
  <1>13. Valid(MoveCursorNextPage(l))
    BY <1>2, <1>5, <1>11, <1>12 DEF MoveCursorNextPage
  <1>14. Valid(MoveCursorPreviousPage(l))
    BY <1>2, <1>5, <1>12 DEF MoveCursorPreviousPage
  <1> QED
    BY <1>6, <1>7, <1>8, <1>9, <1>10, <1>11, <1>13, <1>14

LEMMA RangeSelectValid ==
    ASSUME NEW l, Valid(l)
    PROVE  Valid(RangeSelect(l))
  <1>1. l \in Loose
    BY DEF Valid
  <1>2. l.selected \in Nat
    BY <1>1 DEF Loose
  <1> DEFINE k == [l EXCEPT !.base = l.selected, !.range = TRUE]
  <1>3. k \in Loose
    BY <1>1, <1>2 DEF Loose
  <1>4. k.start = l.start /\ k.selected = l.selected /\ k.base = l.selected /\ k.length = l.length
    BY <1>1 DEF Loose
  <1>5. Valid(k)
    BY <1>3, <1>4 DEF Valid, IsItem
  <1> QED
    BY <1>1, <1>2, <1>5, SetCursorValid DEF RangeSelect

LEMMA HandleCommandValid ==
    ASSUME NEW l, Valid(l), NEW cmd \in ListCommand
    PROVE  Valid(HandleCommand(l, cmd))
  <1>1. Valid(MoveCursor(l, 0))
    BY MoveCursorValid DEF Valid
  <1>2. \A n \in {1, Half(l)} : Valid(ScrollUp(l, n)) /\ Valid(ScrollDown(l, n))
    BY ScrollValid, HalfType DEF Valid
  <1> QED
    BY <1>1, <1>2, MovesValid, RangeSelectValid DEF HandleCommand, ListCommand, ScrollCommand

LEMMA HandleScrollCommandValid ==
    ASSUME NEW l, Valid(l), NEW cmd \in ScrollCommand
    PROVE  Valid(HandleScrollCommand(l, cmd))
  <1>1. Half(l) \in Nat /\ l.height \in Nat
    BY HalfType DEF Valid, Loose
  <1>2. Valid(ScrollUp(l, 1)) /\ Valid(ScrollDown(l, 1))
    BY ScrollValid
  <1>3. \A n \in Nat : Valid(ScrollForward(l, n)) /\ Valid(ScrollBackward(l, n))
    BY ScrollPageValid
  <1>4. Valid(SetOrigin(l, 0))
    BY OriginMoved DEF SetOrigin
  <1>5. Valid(ScrollToBottom(l))
    <2>1. (IF l.length > l.height THEN l.length - l.height ELSE 0) \in Nat
      BY ConstantsAssumption DEF Valid, Loose
    <2> QED
      BY <2>1, OriginMoved DEF ScrollToBottom, SetOrigin
  <1> QED
    BY <1>1, <1>2, <1>3, <1>4, <1>5 DEF HandleScrollCommand, ScrollCommand

-----------------------------------------------------------------------------
(* The actions of the pages.                                               *)

LEMMA CommandValid ==
    ASSUME Inv, NEW cmd \in ListCommand, Command(cmd)
    PROVE  Valid(lw')
  <1>1. Valid(lw) /\ Valid([lw EXCEPT !.show = TRUE])
    BY FlagsValid DEF Inv
  <1> QED
    BY <1>1, HandleCommandValid, HandleScrollCommandValid DEF Command, Do

LEMMA ChangeDirectoryValid ==
    ASSUME Inv, NEW n \in 0..MaxLength, ChangeDirectory(n)
    PROVE  Valid(lw')
  <1> DEFINE loaded == Reset(SetLength(lw, n))
  <1>1. Valid(loaded)
    BY SetLengthValid, ResetValid DEF Inv
  <1>2. n \in Nat
    BY ConstantsAssumption
  <1>3. ASSUME NEW i \in 0..(n - 1)
        PROVE  Valid(SetCursor(loaded, i)) /\ Valid(Center(SetCursor(loaded, i), i))
    <2> HIDE DEF loaded
    <2>1. i \in Nat /\ loaded \in Loose
      BY <1>1, <1>2 DEF Valid
    <2>2. Valid(SetCursor(loaded, i))
      BY <2>1, SetCursorValid
    <2> QED
      BY <2>1, <2>2, CenterValid
  <1> QED
    BY <1>1, <1>3 DEF ChangeDirectory, Do

LEMMA SetTextValid ==
    ASSUME Inv, NEW n \in 0..MaxLength, SetText(n)
    PROVE  Valid(lw')
  <1> DEFINE text == SetLength(SetLength(Reset(lw), 0), n)
  <1>1. 0 \in 0..MaxLength
    BY ConstantsAssumption
  <1>2. Valid(text)
    BY <1>1, ResetValid, SetLengthValid DEF Inv
  <1>3. Valid(FetchCursor(SetOrigin(text, lw.start)))
    <2>1. lw.start \in Nat
      BY DEF Inv, Valid
    <2> HIDE DEF text
    <2>2. Valid(SetOrigin(text, lw.start))
      BY <1>2, <2>1, OriginMoved DEF SetOrigin
    <2> QED
      BY <2>2, FetchCursorValid DEF Valid
  <1> QED
    BY <1>2, <1>3 DEF SetText, Do

LEMMA CenterPlayingItemValid ==
    ASSUME Inv, NEW i \in Nat, CenterPlayingItem(i)
    PROVE  Valid(lw')
  <1>1. Valid(Center(lw, i))
    BY CenterValid DEF Inv
  <1> QED
    BY <1>1, SetCursorValid, FetchCursorValid DEF CenterPlayingItem, Do, Valid

LEMMA FoundValid ==
    ASSUME Inv, NEW i \in Nat, Found(i)
    PROVE  Valid(lw')
  <1>1. Valid(MoveCursor(lw, i))
    BY MoveCursorValid DEF Inv, Valid
  <1> QED
    BY <1>1, FlagsValid DEF Found, Do

LEMMA ClickValid ==
    ASSUME Inv, NEW y \in Nat, Click(y)
    PROVE  Valid(lw')
  <1>1. lw.start + y \in Nat /\ lw \in Loose
    BY DEF Inv, Valid
  <1> QED
    BY <1>1, MovesValid, SetCursorValid DEF Click, Do, Inv

LEMMA DeleteValid ==
    ASSUME Inv, NEW n \in 0..MaxLength, Delete(n)
    PROVE  Valid(lw')
  <1>1. First(lw) \in Nat
    <2>1. lw.base \in Nat /\ lw.selected \in Nat
      BY DEF Inv, Valid, Loose
    <2> QED
      BY <2>1, MinType DEF First
  <1>2. SetLength(lw, n) \in Loose
    BY SetLengthValid DEF Inv, Valid
  <1> QED
    BY <1>1, <1>2, SetCursorValid DEF Delete, Do

LEMMA MovedValid ==
    ASSUME Inv, ~OthersEdit, MovedUp \/ MovedDown
    PROVE  Valid(lw')
  <1>1. /\ lw.base \in Nat /\ lw.selected \in Nat /\ lw.length \in Nat
        /\ IsItem(lw.base, lw) /\ IsItem(lw.selected, lw)
    BY ConstantsAssumption DEF Inv, Valid, Loose
  <1>2. First(lw) \in {lw.base, lw.selected} /\ Last(lw) \in {lw.base, lw.selected}
    BY <1>1, MinType, MaxType DEF First, Last
  <1>3. First(lw) <= Last(lw)
    BY <1>1, MinType, MaxType DEF First, Last
  <1> \A n : Updated(n) = {lw}
    BY DEF Updated
  <1>4. CASE MovedUp
    <2>1. \A i \in {First(lw), Last(lw)} : 0 <= i + (-1) /\ i + (-1) < lw.length
      BY <1>1, <1>2, <1>3, <1>4 DEF MovedUp, IsItem
    <2> QED
      BY <2>1, <1>4, SelectionMovedValid DEF MovedUp, Do, Inv
  <1>5. CASE MovedDown
    <2>1. \A i \in {First(lw), Last(lw)} : 0 <= i + 1 /\ i + 1 < lw.length
      BY <1>1, <1>2, <1>3, <1>5 DEF MovedDown
    <2> QED
      BY <2>1, <1>5, SelectionMovedValid DEF MovedDown, Do, Inv
  <1> QED
    BY <1>4, <1>5

LEMMA InitValid == Init => Inv
  <1> SUFFICES ASSUME Init PROVE Inv
    OBVIOUS
  <1>1. OptionsOK
    BY ConstantsAssumption DEF Init, OptionsOK
  <1>2. PICK garbage \in Garbage :
           lw = [height |-> garbage, offset |-> 0, length |-> 0, start |-> 0, selected |-> 0,
                 base |-> 0, range |-> FALSE, show |-> Is("list"), highlight |-> FALSE]
    BY DEF Init
  <1>3. garbage \in Nat /\ 0 \in 0..MaxLength /\ Is("list") \in BOOLEAN
    BY ConstantsAssumption DEF Unsigned, Is
  <1>4. Valid(lw)
    BY <1>2, <1>3 DEF Valid, Loose, IsItem
  <1> QED
    BY <1>1, <1>4 DEF Inv

LEMMA NextValid ==
    ASSUME ~OthersEdit, Inv, [Next]_vars
    PROVE  Inv'
  <1>1. OptionsOK'
    BY DEF Inv, OptionsOK, Next, vars, Resize, Load, ChangeDirectory, SetText, Delete, Select,
           CenterPlayingItem, Click, Found, Command, HideCursor, ShowCursor, Wheel, MovedUp,
           MovedDown, OtherCommand, Do
  <1>2. Valid(lw) /\ lw \in Loose /\ OptionsOK
    BY DEF Inv, Valid
  <1>3. \A i \in 0..MaxLength : i \in Nat
    BY ConstantsAssumption
  <1>4. ASSUME NEW h \in Heights, Resize(h) PROVE Valid(lw')
    BY <1>2, <1>4, SetHeightValid, ConstantsAssumption DEF Resize
  <1>5. ASSUME NEW n \in 0..MaxLength, Load(n) PROVE Valid(lw')
    BY <1>2, <1>5, SetLengthValid DEF Load, Do
  <1>6. ASSUME NEW i \in 0..MaxLength, Select(i) PROVE Valid(lw')
    BY <1>2, <1>3, <1>6, SetCursorValid DEF Select, Do
  <1>7. ASSUME HideCursor \/ ShowCursor PROVE Valid(lw')
    BY <1>2, <1>7, FlagsValid DEF HideCursor, ShowCursor, Do
  <1>8. ASSUME Wheel PROVE Valid(lw')
    BY <1>2, <1>8, ScrollValid DEF Wheel, Do
  <1>9. ASSUME OtherCommand PROVE Valid(lw')
    BY <1>2, <1>9, SetCursorValid DEF OtherCommand, Do, Valid
  <1>10. ASSUME UNCHANGED vars PROVE Valid(lw')
    BY <1>2, <1>10 DEF vars, Valid
  <1>11. Valid(lw')
    BY <1>3, <1>4, <1>5, <1>6, <1>7, <1>8, <1>9, <1>10, CommandValid, ChangeDirectoryValid,
       SetTextValid, CenterPlayingItemValid, FoundValid, ClickValid, DeleteValid, MovedValid
       DEF Next
  <1> QED
    BY <1>1, <1>11 DEF Inv, Valid, IsItem

\* However the list is loaded, cut and moved, and whatever the user does, the cursor and
\* the base of the range are items of the list (CheckSelected, SelectionMovedUp/Down),
\* unless another client changes it while it is being moved.
THEOREM CursorIsValid ==
    ASSUME ~OthersEdit
    PROVE  Spec => []CursorValid
  <1>1. Inv => CursorValid
    BY DEF Inv, Valid, IsItem, CursorValid
  <1>2. Inv /\ [Next]_vars => Inv'
    BY NextValid
  <1> QED
    BY <1>1, <1>2, InitValid, PTL DEF Spec

-----------------------------------------------------------------------------
(* The view: ScrollTo().                                                   *)

\* Where ScrollTo(n) wants the origin, as integers: there are at least `off' lines above
\* item n, and below it, and no blank lines.
Top(start, off, n) == IF n < start + off THEN n - off ELSE start
Bottom(start, h, off, n) ==
    IF n >= Top(start, off, n) + h - off THEN n - h + 1 + off ELSE Top(start, off, n)
Placement(start, h, off, len, n) ==
    IF Bottom(start, h, off, n) + h > len THEN len - h ELSE Bottom(start, h, off, n)

\* Numbers that an int holds come through `unsigned' unchanged.
LEMMA WrapSmall == ASSUME NEW x \in Nat, x < Modulus PROVE Wrap(x) = x
  BY ConstantsAssumption DEF Wrap

LEMMA WrapNegative == ASSUME NEW x \in Int, x < 0, x + Modulus >= 0 PROVE Wrap(x) = x + Modulus
  BY ConstantsAssumption DEF Wrap

LEMMA ToIntSmall ==
  ASSUME NEW x \in Int, x < Modulus \div 2, x + (Modulus \div 2) >= 0
  PROVE  ToInt(Wrap(x)) = x
<1>1. Modulus \in Nat /\ Modulus > 0 /\ Modulus \div 2 \in Nat /\ 2 * (Modulus \div 2) <= Modulus
  BY ConstantsAssumption
<1>2. CASE x >= 0
  BY <1>1, <1>2, WrapSmall DEF ToInt
<1>3. CASE x < 0
  BY <1>1, <1>3, WrapNegative DEF ToInt
<1> QED BY <1>2, <1>3


\* The height has been set.
InSize(l) ==
    /\ l.height \in Heights
    /\ l.offset = Min({options.scroll_offset, l.height \div 2})

InRange(l) == l \in Loose /\ l.start \in Nat /\ l.start < Modulus \div 2

\* No number that ScrollTo() computes is too large for an int.
LEMMA Sizes ==
    ASSUME options.scroll_offset \in ScrollOffsets, NEW l \in Loose, InSize(l)
    PROVE  /\ l.height \in Nat /\ l.height > 0 /\ l.length \in Nat /\ l.length <= MaxLength
           /\ l.offset \in Nat /\ 2 * l.offset <= l.height
           /\ l.offset \in {options.scroll_offset, l.height \div 2}
           /\ l.offset <= options.scroll_offset
           /\ MaxLength \in Nat /\ Modulus \in Nat /\ (Modulus \div 2) \in Nat
           /\ 2 * (l.height + l.offset + MaxLength) <= Modulus \div 2
           /\ 2 * (Modulus \div 2) <= Modulus
<1>1. l.height \in Nat /\ l.height > 0 /\ l.length \in Nat /\ l.length <= MaxLength
  BY ConstantsAssumption DEF InSize, Loose
<1>2. options.scroll_offset \in Nat
  BY ConstantsAssumption
<1>3. l.offset \in Nat /\ l.offset <= l.height \div 2 /\ l.offset <= options.scroll_offset
      /\ l.offset \in {options.scroll_offset, l.height \div 2}
  <2>1. l.height \div 2 \in Nat
    BY <1>1
  <2> QED BY <2>1, <1>2, MinType DEF InSize
<1>4. 2 * l.offset <= l.height
  BY <1>1, <1>3
<1>5. 4 * (l.height + options.scroll_offset + MaxLength) < Modulus
  BY ConstantsAssumption DEF InSize
<1>6. MaxLength \in Nat /\ Modulus \in Nat
  BY ConstantsAssumption
<1>7. (Modulus \div 2) \in Nat /\ 2 * (Modulus \div 2) <= Modulus /\ Modulus <= 2 * (Modulus \div 2) + 1
  BY <1>6
<1>8. 4 * (l.height + l.offset + MaxLength) < Modulus
  BY <1>1, <1>2, <1>3, <1>5, <1>6
<1> DEFINE M == Modulus \div 2
<1> HIDE DEF M
<1>9. 2 * (l.height + l.offset + MaxLength) <= M
  <2>1. M \in Nat /\ Modulus <= 2 * M + 1
    BY <1>7 DEF M
  <2> QED BY <2>1, <1>8, <1>1, <1>3, <1>6
<1> QED BY <1>1, <1>3, <1>4, <1>6, <1>7, <1>9 DEF M

\* The unsigned arithmetic of ScrollTo() is that of the integers.
LEMMA NewStartIs ==
    ASSUME options.scroll_offset \in ScrollOffsets, NEW l, InRange(l), InSize(l),
           NEW n \in Nat, n <= MaxLength
    PROVE  NewStart(l, n) = Placement(l.start, l.height, l.offset, l.length, n)
<1> DEFINE M == Modulus \div 2
<1>s. /\ l.height \in Nat /\ l.height > 0 /\ l.length \in Nat /\ l.length <= MaxLength
      /\ l.offset \in Nat /\ 2 * l.offset <= l.height /\ l.start \in Nat
      /\ MaxLength \in Nat /\ Modulus \in Nat /\ M \in Nat
      /\ 2 * (l.height + l.offset + MaxLength) <= M
      /\ 2 * M <= Modulus
  BY Sizes DEF InRange
<1>r. l.start < M
  BY DEF InRange
<1>w. \A x \in Int : x < M /\ x + M >= 0 => ToInt(Wrap(x)) = x
  BY ToIntSmall
<1> DEFINE top == Top(l.start, l.offset, n)
           bottom == Bottom(l.start, l.height, l.offset, n)
<1>3. ToInt(l.start) = l.start
  BY <1>s, <1>r DEF ToInt
<1> HIDE DEF M
<1>1. Wrap(l.start + l.offset) = l.start + l.offset
  BY <1>s, <1>r, WrapSmall
<1>2. ToInt(Wrap(n - l.offset)) = n - l.offset
  BY <1>s, <1>w
<1>4. top = IF n < Wrap(l.start + l.offset) THEN ToInt(Wrap(n - l.offset)) ELSE ToInt(l.start)
  BY <1>1, <1>2, <1>3 DEF Top
<1>5. top \in Int /\ top <= n /\ top + l.offset >= 0
  BY <1>s DEF Top
<1>6. Wrap(top + l.height - l.offset) = top + l.height - l.offset
  <2>1. top + l.height - l.offset \in Nat /\ top + l.height - l.offset < Modulus
    BY <1>s, <1>5
  <2> QED BY <2>1, WrapSmall
<1>7. ToInt(Wrap(n - l.height + 1 + l.offset)) = n - l.height + 1 + l.offset
  BY <1>s, <1>w
<1>8. bottom = IF n >= Wrap(top + l.height - l.offset)
                 THEN ToInt(Wrap(n - l.height + 1 + l.offset)) ELSE top
  BY <1>6, <1>7 DEF Bottom
<1>9. bottom \in Int /\ bottom <= n + 1 + l.offset /\ bottom + l.height >= 0
  BY <1>s, <1>5 DEF Bottom
<1>10. Wrap(bottom + l.height) = bottom + l.height
  <2>1. bottom + l.height \in Nat /\ bottom + l.height < Modulus
    BY <1>s, <1>9
  <2> QED BY <2>1, WrapSmall
<1>11. ToInt(Wrap(l.length - l.height)) = l.length - l.height
  BY <1>s, <1>w
<1>12. NewStart(l, n) = IF Wrap(bottom + l.height) > l.length THEN ToInt(Wrap(l.length - l.height)) ELSE bottom
  BY <1>4, <1>8 DEF NewStart
<1> QED BY <1>10, <1>11, <1>12 DEF Placement

\* The origin that ScrollTo(n) sets.
NewOrigin(start, h, off, len, n) ==
    IF n = 0 \/ len = 0 \/ Placement(start, h, off, len, n) < 0 THEN 0
    ELSE Placement(start, h, off, len, n)

\* It shows item n with a margin of m lines above and below, and fills the window.
LEMMA OriginFollows ==
    ASSUME NEW s \in Nat, NEW h \in Nat, NEW o \in Nat, NEW len \in Nat, NEW n \in Nat,
           NEW m \in Nat, 2 * o <= h, m <= o, 2 * m < h, n < len \/ n = 0
    PROVE  LET t == NewOrigin(s, h, o, len, n)
           IN  /\ t \in Nat
               /\ t = 0 \/ t + h <= len
               /\ t = 0 \/ t + m <= n
               /\ len > 0 => t + h >= len \/ n + m < t + h
<1> DEFINE top == Top(s, o, n)
           bottom == Bottom(s, h, o, n)
           placed == Placement(s, h, o, len, n)
<1>1. top \in Int /\ top + o <= n
  BY DEF Top
<1>2. bottom \in Int /\ bottom + m <= n /\ n + m < bottom + h
  BY <1>1 DEF Bottom
<1> HIDE DEF bottom
<1>3. placed \in Int /\ placed + h <= len /\ placed + m <= n /\ (placed + h >= len \/ n + m < placed + h)
  BY <1>2 DEF Placement, bottom
<1> HIDE DEF placed
<1>4. NewOrigin(s, h, o, len, n) = IF n = 0 \/ len = 0 \/ placed < 0 THEN 0 ELSE placed
  BY DEF NewOrigin, placed
<1> QED BY <1>3, <1>4

\* It is where it was if item n has the lines around it already.
LEMMA OriginStays ==
    ASSUME NEW s \in Nat, NEW h \in Nat, NEW o \in Nat, NEW len \in Nat, NEW n \in Nat,
           h > 0, 2 * o <= h, n < len \/ n = 0, s = 0 \/ s + h <= len,
           s = 0 \/ s + o <= n \/ (2 * o = h /\ n + 1 = s + o),
           s + h >= len \/ n + o < s + h
    PROVE  NewOrigin(s, h, o, len, n) = s
<1> DEFINE placed == Placement(s, h, o, len, n)
<1>1. CASE s = 0
  <2>1. placed <= 0 /\ placed \in Int
    BY <1>1 DEF Placement, Bottom, Top
  <2> QED BY <2>1, <1>1 DEF NewOrigin
<1>2. CASE s > 0 /\ s + o <= n
  <2>1. Top(s, o, n) = s
    BY <1>2 DEF Top
  <2>2. placed = s
    BY <1>2, <2>1 DEF Placement, Bottom
  <2> QED BY <2>2, <1>2 DEF NewOrigin
<1>3. CASE s > 0 /\ 2 * o = h /\ n + 1 = s + o
  <2>1. Top(s, o, n) = s - 1
    BY <1>3 DEF Top
  <2>2. Bottom(s, h, o, n) = s
    BY <1>3, <2>1 DEF Bottom
  <2>3. placed = s
    BY <1>3, <2>2 DEF Placement
  <2>4. n > 0
    BY <1>3
  <2> QED BY <2>3, <2>4, <1>3 DEF NewOrigin
<1> QED BY <1>1, <1>2, <1>3

-----------------------------------------------------------------------------
(* What the methods keep of the view.                                      *)

OptionsTyped == options \in [scroll_offset : ScrollOffsets, list_wrap : BOOLEAN, page : Pages]

MarginOf(l) == Min({options.scroll_offset, (l.height - 1) \div 2})

Fits(l) == l.start = 0 \/ l.start + l.height <= l.length

Around(l) ==
    l.length > 0 =>
        /\ l.start = 0 \/ l.start + MarginOf(l) <= l.selected
        /\ l.start + l.height >= l.length \/ l.selected + MarginOf(l) < l.start + l.height

SameWindow(l, k) == k.height = l.height /\ k.offset = l.offset /\ k.show = l.show

\* What a method makes of a window: it follows the cursor whatever it was before, or it
\* keeps what there was.
Follows(l, k) == SameWindow(l, k) /\ InRange(k) /\ (InSize(l) => Fits(k) /\ Around(k))

Keeps(l, k) ==
    /\ SameWindow(l, k) /\ InRange(k)
    /\ InSize(l) /\ Fits(l) => Fits(k)
    /\ InSize(l) /\ Fits(l) /\ Around(l) => Around(k)

LEMMA FollowsKeeps == ASSUME NEW l, NEW k, Follows(l, k) PROVE Keeps(l, k)
  BY DEF Follows, Keeps

LEMMA Carried ==
    ASSUME NEW l, NEW m, NEW k, SameWindow(l, m), Follows(m, k)
    PROVE  Follows(l, k)
  BY DEF Follows, SameWindow, InSize

LEMMA MarginSmall ==
    ASSUME OptionsTyped, NEW l \in Loose, InSize(l)
    PROVE  MarginOf(l) \in Nat /\ MarginOf(l) <= l.offset /\ 2 * MarginOf(l) < l.height
<1>1. /\ l.height \in Nat /\ l.height > 0 /\ l.offset \in Nat
      /\ l.offset \in {options.scroll_offset, l.height \div 2}
  BY Sizes DEF OptionsTyped
<1>2. options.scroll_offset \in Nat
  BY ConstantsAssumption DEF OptionsTyped
<1>3. (l.height - 1) \div 2 \in Nat
  BY <1>1
<1>4. MarginOf(l) \in Nat /\ MarginOf(l) <= (l.height - 1) \div 2 /\ MarginOf(l) <= options.scroll_offset
  BY <1>2, <1>3, MinType DEF MarginOf
<1> QED BY <1>1, <1>4

LEMMA NewStartInRange ==
    ASSUME NEW l, InRange(l), NEW n \in Nat
    PROVE  NewStart(l, n) \in Int /\ NewStart(l, n) < Modulus \div 2
  <1>0. Modulus \in Nat /\ Modulus > 0
    BY ConstantsAssumption
  <1>1. \A x \in Int : Wrap(x) \in Nat /\ Wrap(x) < Modulus
    BY <1>0 DEF Wrap
  <1>2. \A x \in Nat : x < Modulus => ToInt(x) \in Int /\ ToInt(x) < Modulus \div 2
    BY <1>0 DEF ToInt
  <1>3. l.start \in Nat /\ l.height \in Int /\ l.offset \in Int /\ l.length \in Int
    BY ConstantsAssumption DEF InRange, Loose
  <1>4. ToInt(l.start) \in Int /\ ToInt(l.start) < Modulus \div 2
    BY <1>3, <1>0 DEF InRange, ToInt
  <1> DEFINE top == IF n < Wrap(l.start + l.offset) THEN ToInt(Wrap(n - l.offset))
                    ELSE ToInt(l.start)
             bottom == IF n >= Wrap(top + l.height - l.offset)
                         THEN ToInt(Wrap(n - l.height + 1 + l.offset)) ELSE top
  <1>5. \A x \in Int : ToInt(Wrap(x)) \in Int /\ ToInt(Wrap(x)) < Modulus \div 2
    BY <1>1, <1>2
  <1>6. top \in Int /\ top < Modulus \div 2
    BY <1>3, <1>4, <1>5
  <1>7. bottom \in Int /\ bottom < Modulus \div 2
    BY <1>3, <1>5, <1>6
  <1>8. NewStart(l, n) = IF Wrap(bottom + l.height) > l.length
                           THEN ToInt(Wrap(l.length - l.height)) ELSE bottom
    BY DEF NewStart
  <1> HIDE DEF top, bottom
  <1> QED
    BY <1>3, <1>5, <1>7, <1>8

LEMMA ScrollToIs ==
    ASSUME OptionsTyped, NEW l, InRange(l), NEW n \in Nat
    PROVE  LET k == ScrollTo(l, n)
           IN  /\ SameWindow(l, k) /\ InRange(k)
               /\ k.selected = l.selected /\ k.base = l.base /\ k.length = l.length
               /\ k.range = l.range
               /\ InSize(l) /\ n <= MaxLength =>
                     k.start = NewOrigin(l.start, l.height, l.offset, l.length, n)
  <1> DEFINE s == IF n = 0 \/ l.length = 0 \/ NewStart(l, n) < 0 THEN 0 ELSE NewStart(l, n)
             k == [l EXCEPT !.highlight = FALSE, !.start = s]
  <1>0. Modulus \in Nat /\ MaxLength \in Nat /\ 0 < Modulus \div 2
    BY ConstantsAssumption
  <1>1. NewStart(l, n) \in Int /\ NewStart(l, n) < Modulus \div 2
    BY NewStartInRange
  <1>2. s \in Nat /\ s \in Int /\ s < Modulus \div 2
    BY <1>0, <1>1
  <1>3. ScrollTo(l, n) = k
    BY DEF ScrollTo
  <1>4. InSize(l) /\ n <= MaxLength => s = NewOrigin(l.start, l.height, l.offset, l.length, n)
    BY NewStartIs DEF NewOrigin, OptionsTyped
  <1> HIDE DEF s
  <1>5. l \in Loose
    BY DEF InRange
  <1>6. k \in Loose
    BY <1>2, <1>5 DEF Loose
  <1>7. /\ k.start = s /\ k.height = l.height /\ k.offset = l.offset /\ k.show = l.show
        /\ k.selected = l.selected /\ k.base = l.base /\ k.length = l.length
        /\ k.range = l.range
    BY <1>5 DEF Loose
  <1> HIDE DEF k
  <1>8. SameWindow(l, k) /\ InRange(k)
    BY <1>2, <1>6, <1>7 DEF SameWindow, InRange
  <1> QED
    BY <1>3, <1>4, <1>7, <1>8

\* ScrollTo() the cursor.
LEMMA ScrollToFollows ==
    ASSUME OptionsTyped, NEW l, InRange(l), IsItem(l.selected, l)
    PROVE  Follows(l, CheckOrigin(l))
  <1> DEFINE k == ScrollTo(l, l.selected)
  <1>1. l.selected \in Nat /\ l \in Loose
    BY DEF InRange, Loose
  <1>2. l.selected <= MaxLength
    BY <1>1, ConstantsAssumption DEF Loose, IsItem
  <1>3. /\ SameWindow(l, k) /\ InRange(k)
        /\ k.selected = l.selected /\ k.length = l.length
        /\ InSize(l) =>
              k.start = NewOrigin(l.start, l.height, l.offset, l.length, l.selected)
    BY <1>1, <1>2, ScrollToIs
  <1> HIDE DEF k
  <1>4. ASSUME InSize(l) PROVE Fits(k) /\ Around(k)
    <2>1. /\ l.height \in Nat /\ l.offset \in Nat /\ 2 * l.offset <= l.height /\ l.length \in Nat
          /\ l.start \in Nat
      BY <1>1, <1>4, Sizes DEF OptionsTyped, InRange
    <2>2. MarginOf(l) \in Nat /\ MarginOf(l) <= l.offset /\ 2 * MarginOf(l) < l.height
      BY <1>1, <1>4, MarginSmall
    <2>3. l.selected < l.length \/ l.selected = 0
      BY DEF IsItem
    <2>4. MarginOf(k) = MarginOf(l) /\ k.height = l.height
      BY <1>3 DEF MarginOf, SameWindow
    <2> DEFINE t == NewOrigin(l.start, l.height, l.offset, l.length, l.selected)
    <2>5. /\ t \in Nat
          /\ t = 0 \/ t + l.height <= l.length
          /\ t = 0 \/ t + MarginOf(l) <= l.selected
          /\ l.length > 0 => t + l.height >= l.length \/ l.selected + MarginOf(l) < t + l.height
      <3> HIDE DEF MarginOf
      <3> QED BY <1>1, <2>1, <2>2, <2>3, OriginFollows
    <2> HIDE DEF t
    <2>6. k.start = t
      BY <1>3, <1>4 DEF t
    <2> QED
      BY <1>3, <2>4, <2>5, <2>6 DEF Fits, Around
  <1>5. CheckOrigin(l) = k
    BY DEF CheckOrigin, k
  <1> QED
    BY <1>3, <1>4, <1>5 DEF Follows

LEMMA CheckedFollows ==
    ASSUME OptionsTyped, NEW l, InRange(l)
    PROVE  Follows(l, CheckOrigin(CheckSelected(l)))
  <1> DEFINE s == ValidateIndex(l, l.selected)
             b == IF l.range THEN ValidateIndex(l, l.base) ELSE 0
             k == [l EXCEPT !.selected = s, !.base = b]
  <1>1. l \in Loose
    BY DEF InRange
  <1>2. s \in Nat /\ b \in Nat /\ IsItem(s, l)
    BY <1>1, ConstantsAssumption DEF Loose, ValidateIndex, IsItem
  <1>3. CheckSelected(l) = k
    BY DEF CheckSelected
  <1> HIDE DEF s, b
  <1>4. k \in Loose
    BY <1>1, <1>2 DEF Loose
  <1>5. /\ k.selected = s /\ k.length = l.length /\ k.start = l.start
        /\ k.height = l.height /\ k.offset = l.offset /\ k.show = l.show
    BY <1>1 DEF Loose
  <1> HIDE DEF k
  <1>6. InRange(k) /\ IsItem(k.selected, k) /\ SameWindow(l, k)
    BY <1>2, <1>4, <1>5 DEF InRange, IsItem, SameWindow
  <1>7. Follows(k, CheckOrigin(k))
    BY <1>6, ScrollToFollows
  <1> QED
    BY <1>3, <1>6, <1>7, Carried

LEMMA MoveCursorFollows ==
    ASSUME OptionsTyped, NEW l, InRange(l), NEW n \in Nat
    PROVE  Follows(l, MoveCursor(l, n))
  <1> DEFINE k == [l EXCEPT !.selected = n, !.highlight = FALSE]
  <1>1. k \in Loose
    BY DEF InRange, Loose
  <1>2. SameWindow(l, k) /\ k.start = l.start
    BY DEF InRange, Loose, SameWindow
  <1> HIDE DEF k
  <1>3. Follows(k, CheckOrigin(CheckSelected(k)))
    BY <1>1, <1>2, CheckedFollows DEF InRange
  <1> QED
    BY <1>2, <1>3, Carried DEF MoveCursor, k

LEMMA SetCursorFollows ==
    ASSUME OptionsTyped, NEW l, InRange(l), NEW i \in Nat
    PROVE  Follows(l, SetCursor(l, i))
  <1> DEFINE k == [l EXCEPT !.range = FALSE, !.selected = i]
  <1>1. k \in Loose
    BY DEF InRange, Loose
  <1>2. SameWindow(l, k) /\ k.start = l.start
    BY DEF InRange, Loose, SameWindow
  <1> HIDE DEF k
  <1>3. Follows(k, CheckOrigin(CheckSelected(k)))
    BY <1>1, <1>2, CheckedFollows DEF InRange
  <1> QED
    BY <1>2, <1>3, Carried DEF SetCursor, k

LEMMA SetCursorIs ==
    ASSUME OptionsTyped, NEW l, InRange(l), NEW i \in Nat, i < l.length
    PROVE  SetCursor(l, i).selected = i /\ SetCursor(l, i).length = l.length
  <1> DEFINE k == [l EXCEPT !.range = FALSE, !.selected = i]
             s == ValidateIndex(k, k.selected)
             b == IF k.range THEN ValidateIndex(k, k.base) ELSE 0
             m == [k EXCEPT !.selected = s, !.base = b]
  <1>1. k \in Loose
    BY DEF InRange, Loose
  <1>2. k.selected = i /\ k.length = l.length /\ SameWindow(l, k) /\ k.start = l.start
    BY DEF InRange, Loose, SameWindow
  <1>3. SetCursor(l, i) = ScrollTo(m, m.selected)
    BY DEF SetCursor, CheckOrigin, CheckSelected
  <1> HIDE DEF k
  <1>4. l.length \in Nat
    BY ConstantsAssumption DEF InRange, Loose
  <1>5. s = i
    BY <1>2, <1>4 DEF ValidateIndex
  <1>6. b \in Nat
    BY <1>1, <1>2, <1>4 DEF Loose, ValidateIndex
  <1> HIDE DEF s, b
  <1>7. m \in Loose /\ m.selected = i /\ m.length = l.length /\ m.start = l.start
    BY <1>1, <1>2, <1>5, <1>6 DEF Loose
  <1> HIDE DEF m
  <1>8. InRange(m)
    BY <1>7 DEF InRange
  <1> QED
    BY <1>3, <1>7, <1>8, ScrollToIs

LEMMA SetLengthKeeps ==
    ASSUME OptionsTyped, NEW l, InRange(l), NEW n \in 0..MaxLength
    PROVE  Keeps(l, SetLength(l, n))
  <1> DEFINE k == [l EXCEPT !.length = n]
  <1>1. k \in Loose
    BY DEF InRange, Loose
  <1>2. SameWindow(l, k) /\ k.start = l.start
    BY DEF InRange, Loose, SameWindow
  <1> HIDE DEF k
  <1>3. Follows(k, CheckOrigin(CheckSelected(k)))
    BY <1>1, <1>2, CheckedFollows DEF InRange
  <1>4. Keeps(l, l)
    BY DEF Keeps, SameWindow
  <1>5. Keeps(l, CheckOrigin(CheckSelected(k)))
    BY <1>2, <1>3, Carried, FollowsKeeps
  <1> QED
    BY <1>4, <1>5 DEF SetLength, k

LEMMA SetHeightFollows ==
    ASSUME OptionsTyped, NEW l, InRange(l), IsItem(l.selected, l), NEW h \in Heights
    PROVE  LET k == SetHeight(l, h)
           IN  InRange(k) /\ k.show = l.show /\ InSize(k) /\ k.height = h /\ Fits(k) /\ Around(k)
  <1> DEFINE o == Min({options.scroll_offset, h \div 2})
             k == [l EXCEPT !.height = h, !.offset = o]
  <1>0. h \in Nat
    BY ConstantsAssumption
  <1>1. o \in Nat
    <2>1. h \div 2 \in Nat
      BY <1>0
    <2>2. options.scroll_offset \in Nat
      BY ConstantsAssumption DEF OptionsTyped
    <2> QED
      BY <2>1, <2>2, MinType
  <1> HIDE DEF o
  <1>2. k \in Loose
    BY <1>0, <1>1 DEF InRange, Loose
  <1>3. /\ k.height = h /\ k.offset = o /\ k.start = l.start /\ k.selected = l.selected
        /\ k.length = l.length /\ k.show = l.show
    BY DEF InRange, Loose
  <1>4. SetHeight(l, h) = CheckOrigin(k)
    BY DEF SetHeight, o
  <1> HIDE DEF k
  <1>5. InRange(k) /\ IsItem(k.selected, k) /\ InSize(k)
    BY <1>2, <1>3 DEF InRange, IsItem, InSize, o
  <1>6. Follows(k, CheckOrigin(k))
    BY <1>5, ScrollToFollows
  <1> QED
    BY <1>3, <1>4, <1>5, <1>6 DEF Follows, SameWindow, InSize

LEMMA ResetFollows ==
    ASSUME OptionsTyped, NEW l, InRange(l)
    PROVE  Follows(l, Reset(l)) /\ Reset(l).length = l.length
  <1> PICK z \in Nat : z = 0
    OBVIOUS
  <1> z \in Int
    OBVIOUS
  <1> DEFINE k == [l EXCEPT !.selected = z, !.range = FALSE, !.highlight = FALSE,
                            !.base = z, !.start = z]
  <1>1. k \in Loose
    BY DEF InRange, Loose
  <1>2. /\ k.start = z /\ k.selected = z /\ k.height = l.height /\ k.offset = l.offset
        /\ k.show = l.show /\ k.length = l.length
    BY DEF InRange, Loose
  <1>3. Reset(l) = k
    BY DEF Reset
  <1> HIDE DEF k
  <1>4. InRange(k) /\ SameWindow(l, k)
    BY <1>1, <1>2, ConstantsAssumption DEF InRange, SameWindow
  <1>5. ASSUME InSize(l) PROVE Fits(k) /\ Around(k)
    <2>1. MarginOf(l) \in Nat /\ 2 * MarginOf(l) < l.height /\ l.height \in Nat
      BY <1>5, MarginSmall, Sizes DEF InRange, OptionsTyped
    <2>2. MarginOf(k) = MarginOf(l)
      BY <1>2 DEF MarginOf
    <2> QED
      BY <1>2, <2>1, <2>2 DEF Fits, Around
  <1> QED
    BY <1>2, <1>3, <1>4, <1>5 DEF Follows

\* The window that FetchCursor() is called for need not be filled.
LEMMA FetchCursorFollows ==
    ASSUME OptionsTyped, NEW l, InRange(l)
    PROVE  Follows(l, FetchCursor(l))
  <1>1. \A x \in Int : Wrap(x) \in Nat
    BY WrapType
  <1>2. l.start \in Int /\ l.height \in Int /\ l.offset \in Int /\ l.selected \in Nat
    BY DEF InRange, Loose
  <1>3. End(l) \in Nat
    BY <1>1, <1>2 DEF End
  <1> DEFINE above == IF l.start > 0 /\ l.selected < Wrap(l.start + l.offset)
                        THEN Wrap(l.start + l.offset) ELSE l.selected
             last == Wrap(End(l) - 1 - l.offset)
             target == IF End(l) < l.length /\ above > last THEN last ELSE above
  <1>4. target \in Nat
    BY <1>1, <1>2, <1>3
  <1>5. FetchCursor(l) = MoveCursor(l, target)
    BY DEF FetchCursor
  <1> HIDE DEF target
  <1> QED
    BY <1>4, <1>5, MoveCursorFollows

\* A window with another origin and perhaps without highlight.
Moved(l, k, s) ==
    /\ SameWindow(l, k) /\ k \in Loose /\ k.start = s
    /\ k.selected = l.selected /\ k.length = l.length

LEMMA OriginSet ==
    ASSUME NEW l \in Loose, NEW s \in Int
    PROVE  Moved(l, [l EXCEPT !.start = s], s) /\ Moved(l, [l EXCEPT !.highlight = FALSE, !.start = s], s)
  BY DEF Moved, SameWindow, Loose

LEMMA OnlyHighlight ==
    ASSUME NEW l, InRange(l), NEW b \in BOOLEAN
    PROVE  Keeps(l, [l EXCEPT !.highlight = b])
  <1> DEFINE k == [l EXCEPT !.highlight = b]
  <1>1. k \in Loose
    BY DEF InRange, Loose
  <1>2. /\ k.start = l.start /\ k.selected = l.selected /\ k.height = l.height
        /\ k.offset = l.offset /\ k.show = l.show /\ k.length = l.length
    BY DEF InRange, Loose
  <1> HIDE DEF k
  <1>3. MarginOf(k) = MarginOf(l)
    BY <1>2 DEF MarginOf
  <1> HIDE DEF MarginOf
  <1>4. InRange(k) /\ SameWindow(l, k)
    BY <1>1, <1>2 DEF InRange, SameWindow
  <1>5. (Fits(l) => Fits(k)) /\ (Around(l) => Around(k))
    BY <1>2, <1>3 DEF Fits, Around
  <1> QED
    BY <1>4, <1>5 DEF Keeps, k

\* FetchCursor() after the origin has been moved.
LEMMA FetchedFollows ==
    ASSUME OptionsTyped, NEW l, InRange(l), NEW s \in Nat, s < Modulus \div 2
    PROVE  Follows(l, FetchCursor([l EXCEPT !.start = s]))
  <1> s \in Int
    OBVIOUS
  <1> DEFINE k == [l EXCEPT !.start = s]
  <1>1. Moved(l, k, s)
    BY OriginSet DEF InRange
  <1> HIDE DEF k
  <1>2. InRange(k) /\ SameWindow(l, k)
    BY <1>1 DEF Moved, InRange
  <1>3. Follows(k, FetchCursor(k))
    BY <1>2, FetchCursorFollows
  <1> QED
    BY <1>2, <1>3, Carried DEF k

LEMMA EndIs ==
    ASSUME OptionsTyped, NEW l, InRange(l), InSize(l)
    PROVE  End(l) = l.start + l.height
  <1> DEFINE M == Modulus \div 2
  <1>1. /\ l.start \in Nat /\ l.start < M /\ l.height \in Nat /\ 2 * (l.height + l.offset + MaxLength) <= M
        /\ 2 * M <= Modulus /\ M \in Nat /\ MaxLength \in Nat /\ l.offset \in Nat /\ Modulus \in Nat
    BY Sizes DEF OptionsTyped, InRange
  <1> HIDE DEF M
  <1>2. l.start + l.height \in Nat /\ l.start + l.height < Modulus
    BY <1>1
  <1> QED
    BY <1>2, WrapSmall DEF End

LEMMA ScrollUpKeeps ==
    ASSUME OptionsTyped, NEW l, InRange(l), NEW n \in Nat
    PROVE  Keeps(l, ScrollUp(l, n))
  <1> DEFINE s == IF n > l.start THEN 0 ELSE l.start - n
  <1>1. s \in Nat /\ s < Modulus \div 2
    BY ConstantsAssumption DEF InRange
  <1> HIDE DEF s
  <1>2. Keeps(l, FetchCursor([l EXCEPT !.start = s]))
    BY <1>1, FetchedFollows, FollowsKeeps
  <1>3. Keeps(l, [l EXCEPT !.highlight = FALSE])
    BY OnlyHighlight
  <1>4. ScrollUp(l, n) = IF l.start > 0 THEN FetchCursor([l EXCEPT !.start = s])
                         ELSE [l EXCEPT !.highlight = FALSE]
    BY DEF ScrollUp, s
  <1> QED
    BY <1>2, <1>3, <1>4

LEMMA ScrollDownKeeps ==
    ASSUME OptionsTyped, NEW l, InRange(l), InSize(l), NEW n \in Nat
    PROVE  Keeps(l, ScrollDown(l, n))
  <1> DEFINE s == IF End(l) + n > l.length - 1 THEN l.length - l.height ELSE l.start + n
  <1>1. ASSUME End(l) < l.length PROVE s \in Nat /\ s < Modulus \div 2
    <2>1. End(l) = l.start + l.height /\ l.start \in Nat /\ l.height \in Nat
      BY EndIs, Sizes DEF OptionsTyped, InRange
    <2>2. l.length \in Nat /\ l.length < Modulus \div 2 /\ Modulus \div 2 \in Nat
      BY ConstantsAssumption DEF InRange, Loose
    <2> QED
      BY <1>1, <2>1, <2>2
  <1> HIDE DEF s
  <1>2. End(l) < l.length => Keeps(l, FetchCursor([l EXCEPT !.start = s]))
    BY <1>1, FetchedFollows, FollowsKeeps
  <1>3. Keeps(l, [l EXCEPT !.highlight = FALSE])
    BY OnlyHighlight
  <1>4. ScrollDown(l, n) = IF End(l) < l.length THEN FetchCursor([l EXCEPT !.start = s])
                           ELSE [l EXCEPT !.highlight = FALSE]
    BY DEF ScrollDown, s
  <1> QED
    BY <1>2, <1>3, <1>4

LEMMA HalfIs ==
    ASSUME OptionsTyped, NEW l \in Loose, InSize(l)
    PROVE  Half(l) = (l.height - 1) \div 2 /\ Half(l) \in Nat /\ 2 * Half(l) < l.height
           /\ l.height <= 2 * Half(l) + 2
  <1> DEFINE M == Modulus \div 2
  <1>1. /\ l.height \in Nat /\ l.height > 0 /\ 2 * (l.height + l.offset + MaxLength) <= M
        /\ 2 * M <= Modulus /\ M \in Nat /\ MaxLength \in Nat /\ l.offset \in Nat /\ Modulus \in Nat
    BY Sizes DEF OptionsTyped
  <1> HIDE DEF M
  <1>2. l.height - 1 \in Nat /\ l.height - 1 < Modulus
    BY <1>1
  <1>3. Half(l) = (l.height - 1) \div 2
    BY <1>2, WrapSmall DEF Half
  <1> QED
    BY <1>1, <1>3

\* ClampOrigin() leaves no blank lines, wherever the origin was.
LEMMA ClampOriginFits ==
    ASSUME OptionsTyped, NEW l, InRange(l)
    PROVE  LET k == ClampOrigin(l)
               last == IF l.length > l.height THEN l.length - l.height ELSE 0
           IN  /\ SameWindow(l, k) /\ InRange(k)
               /\ k.selected = l.selected /\ k.length = l.length
               /\ k.start = IF End(l) > l.length THEN last ELSE l.start
  <1> DEFINE s == IF l.length > l.height THEN l.length - l.height ELSE 0
  <1>1. s \in Nat /\ s \in Int /\ s < Modulus \div 2
    BY ConstantsAssumption DEF InRange, Loose
  <1> HIDE DEF s
  <1> DEFINE k == [l EXCEPT !.start = s]
  <1>2. Moved(l, k, s)
    BY <1>1, OriginSet DEF InRange
  <1>3. ClampOrigin(l) = IF End(l) > l.length THEN k ELSE l
    BY DEF ClampOrigin, ScrollToBottom, SetOrigin, s
  <1> HIDE DEF k
  <1>4. SameWindow(l, l)
    BY DEF SameWindow
  <1> QED
    BY <1>1, <1>2, <1>3, <1>4 DEF Moved, InRange, s

LEMMA CenterFollows ==
    ASSUME OptionsTyped, NEW l, InRange(l), NEW n \in 0..MaxLength
    PROVE  /\ SameWindow(l, Center(l, n)) /\ InRange(Center(l, n))
           /\ n = l.selected /\ IsItem(n, l) => Follows(l, Center(l, n))
  <1> DEFINE s == IF n > Half(l) THEN n - Half(l) ELSE 0
  <1>0. n \in Nat /\ n <= MaxLength /\ MaxLength \in Nat
    BY ConstantsAssumption
  <1>1. s \in Nat /\ s \in Int /\ s <= n
    BY <1>0, HalfType DEF InRange
  <1>2. s < Modulus \div 2
    BY <1>0, <1>1, ConstantsAssumption
  <1> DEFINE m == [l EXCEPT !.highlight = FALSE, !.start = s]
             k == ClampOrigin(m)
  <1>3. Center(l, n) = k
    BY DEF Center
  <1>4. Moved(l, m, s)
    <2> HIDE DEF s
    <2> QED BY <1>1, OriginSet DEF InRange
  <1> HIDE DEF s, m
  <1>5. InRange(m)
    BY <1>1, <1>2, <1>4 DEF Moved, InRange
  <1>6. /\ SameWindow(m, k) /\ InRange(k)
        /\ k.selected = m.selected /\ k.length = m.length
        /\ k.start = IF End(m) > m.length THEN IF m.length > m.height THEN m.length - m.height ELSE 0
                     ELSE m.start
    BY <1>5, ClampOriginFits
  <1> HIDE DEF k
  <1>7. SameWindow(l, k)
    BY <1>4, <1>6 DEF SameWindow, Moved
  <1>8. ASSUME n = l.selected, IsItem(n, l), InSize(l) PROVE Fits(k) /\ Around(k)
    <2>1. InSize(m)
      BY <1>4, <1>8 DEF Moved, SameWindow, InSize
    <2>2. End(m) = m.start + m.height
      BY <1>5, <2>1, EndIs
    <2>3. Half(l) \in Nat /\ 2 * Half(l) < l.height
      BY <1>8, HalfIs DEF InRange
    <2>4. MarginOf(l) \in Nat /\ 2 * MarginOf(l) < l.height /\ MarginOf(l) <= Half(l)
      <3>1. (l.height - 1) \div 2 \in Nat /\ options.scroll_offset \in Nat
        BY <1>8, <2>3, HalfIs, ConstantsAssumption DEF InRange, OptionsTyped
      <3>2. MarginOf(l) \in Nat /\ MarginOf(l) <= (l.height - 1) \div 2
        BY <3>1, MinType DEF MarginOf
      <3>3. Half(l) = (l.height - 1) \div 2
        BY <1>8, HalfIs DEF InRange
      <3>4. MarginOf(l) \in Nat /\ 2 * MarginOf(l) < l.height
        BY <1>8, MarginSmall DEF InRange
      <3> HIDE DEF MarginOf
      <3> QED BY <3>2, <3>3, <3>4
    <2>5. MarginOf(k) = MarginOf(l)
      BY <1>7 DEF MarginOf, SameWindow
    <2> HIDE DEF MarginOf
    <2>6. /\ l.height \in Nat /\ l.height > 0 /\ l.length \in Nat
      BY <1>8, Sizes DEF OptionsTyped, InRange
    <2>7. /\ k.start = IF s + l.height > l.length THEN IF l.length > l.height THEN l.length - l.height ELSE 0
                       ELSE s
          /\ k.selected = n /\ k.length = l.length /\ k.height = l.height
      BY <1>4, <1>6, <1>8, <2>2, <1>7 DEF Moved, SameWindow
    <2>8. Fits(k)
      BY <1>0, <1>1, <2>6, <2>7 DEF Fits
    <2>9. s = IF n > Half(l) THEN n - Half(l) ELSE 0
      BY DEF s
    <2>10. n < l.length \/ n = 0
      BY <1>8 DEF IsItem
    <2>11. k.start = 0 \/ k.start + MarginOf(l) <= n
      BY <1>0, <1>1, <2>3, <2>4, <2>6, <2>7, <2>9, <2>10
    <2>12. k.start + l.height >= l.length \/ n + MarginOf(l) < k.start + l.height
      BY <1>0, <1>1, <2>3, <2>4, <2>6, <2>7, <2>9, <2>10
    <2> QED
      BY <2>5, <2>7, <2>8, <2>11, <2>12 DEF Around
  <1> QED
    BY <1>3, <1>6, <1>7, <1>8 DEF Follows

\* A page without a cursor is scrolled: the window is filled.
Scrolls(l, k) == SameWindow(l, k) /\ InRange(k) /\ (InSize(l) /\ Fits(l) => Fits(k))

LEMMA ScrollPageFits ==
    ASSUME OptionsTyped, NEW l, InRange(l), InSize(l), Fits(l), NEW n \in Nat, n <= l.height
    PROVE  Scrolls(l, ScrollForward(l, n)) /\ Scrolls(l, ScrollBackward(l, n))
  <1> DEFINE M == Modulus \div 2
  <1>1. /\ l.start \in Nat /\ l.height \in Nat /\ l.height > 0
        /\ l.length \in Nat /\ l.length <= MaxLength /\ l.offset \in Nat
        /\ 2 * (l.height + l.offset + MaxLength) <= M
        /\ 2 * M <= Modulus /\ M \in Nat /\ MaxLength \in Nat /\ Modulus \in Nat
        /\ l.start < M
    BY Sizes DEF OptionsTyped, InRange
  <1> HIDE DEF M
  <1>2. l.start + n < M /\ l.start + n \in Nat /\ l.start + n + l.height < Modulus
    BY <1>1 DEF Fits
  <1>3. Wrap(l.start + n) = l.start + n
    BY <1>1, <1>2, WrapSmall
  <1>4. Scrolls(l, ScrollForward(l, n))
    <2> DEFINE s == Wrap(l.start + n)
               m == [l EXCEPT !.highlight = FALSE, !.start = s]
               k == ClampOrigin(m)
    <2>1. s \in Nat /\ s \in Int /\ s < M /\ s = l.start + n
      BY <1>2, <1>3
    <2> HIDE DEF s
    <2>2. Moved(l, m, s)
      BY <2>1, OriginSet DEF InRange
    <2> HIDE DEF m
    <2>3. InRange(m) /\ InSize(m) /\ m.height = l.height /\ m.length = l.length /\ m.start = s
      BY <2>1, <2>2 DEF Moved, InRange, SameWindow, InSize, M
    <2>4. /\ SameWindow(m, k) /\ InRange(k) /\ k.length = m.length
          /\ k.start = IF End(m) > m.length THEN IF m.length > m.height THEN m.length - m.height ELSE 0
                       ELSE m.start
      BY <2>3, ClampOriginFits
    <2>5. End(m) = m.start + m.height
      BY <2>3, EndIs
    <2> HIDE DEF k
    <2>6. SameWindow(l, k) /\ k.height = l.height
      BY <2>2, <2>4 DEF Moved, SameWindow
    <2>7. Fits(k)
      BY <1>1, <2>1, <2>3, <2>4, <2>5, <2>6 DEF Fits
    <2>8. ScrollForward(l, n) = k
      BY DEF ScrollForward, k, m, s
    <2> QED
      BY <2>4, <2>6, <2>7, <2>8 DEF Scrolls
  <1>5. Scrolls(l, ScrollBackward(l, n))
    <2> DEFINE s == IF l.start > n THEN l.start - n ELSE 0
               k == [l EXCEPT !.highlight = FALSE, !.start = s]
    <2>1. s \in Nat /\ s \in Int /\ s < M /\ (s = 0 \/ s <= l.start)
      BY <1>1
    <2>0. ScrollBackward(l, n) = k
      BY DEF ScrollBackward
    <2> HIDE DEF s
    <2>2. Moved(l, k, s)
      BY <2>1, OriginSet DEF InRange
    <2> HIDE DEF k
    <2>3. InRange(k) /\ SameWindow(l, k) /\ k.height = l.height /\ k.length = l.length /\ k.start = s
      BY <2>1, <2>2 DEF Moved, InRange, SameWindow, M
    <2>4. Fits(k)
      BY <1>1, <2>1, <2>3 DEF Fits
    <2> QED
      BY <2>0, <2>3, <2>4 DEF Scrolls
  <1> QED
    BY <1>4, <1>5

LEMMA OriginFits ==
    ASSUME OptionsTyped, NEW l, InRange(l), InSize(l), Fits(l)
    PROVE  Scrolls(l, SetOrigin(l, 0)) /\ Scrolls(l, ScrollToBottom(l))
  <1> DEFINE M == Modulus \div 2
  <1>0. l.length < M /\ M \in Nat
    BY ConstantsAssumption DEF InRange, Loose
  <1> HIDE DEF M
  <1>1. l.length \in Nat /\ l.height \in Nat /\ l.length < M /\ 0 < M /\ M \in Nat
    BY <1>0, ConstantsAssumption, Sizes DEF OptionsTyped, InRange, Loose
  <1>2. ASSUME NEW s \in Nat, s = 0 \/ (l.length > l.height /\ s = l.length - l.height)
        PROVE  Scrolls(l, SetOrigin(l, s))
    <2> DEFINE k == [l EXCEPT !.start = s]
    <2> s \in Int
      OBVIOUS
    <2>1. Moved(l, k, s)
      BY OriginSet DEF InRange
    <2> HIDE DEF k
    <2>2. s < M
      BY <1>1, <1>2
    <2>3. InRange(k) /\ SameWindow(l, k) /\ k.height = l.height /\ k.length = l.length /\ k.start = s
      BY <2>1, <2>2 DEF Moved, InRange, SameWindow, M
    <2>4. Fits(k)
      BY <1>1, <1>2, <2>3 DEF Fits
    <2> QED
      BY <2>3, <2>4 DEF Scrolls, SetOrigin, k
  <1>3. 0 \in Nat /\ (l.length > l.height => l.length - l.height \in Nat)
    BY <1>1
  <1> QED
    BY <1>2, <1>3 DEF ScrollToBottom

LEMMA SelectionMovedFollows ==
    ASSUME OptionsTyped, NEW l, Valid(l), InRange(l), NEW by \in {-1, 1},
           0 <= l.selected + by, l.selected + by < l.length
    PROVE  Follows(l, SelectionMoved(l, by))
  <1> DEFINE s == Wrap(l.selected + by)
             b == IF l.range THEN Wrap(l.base + by) ELSE 0
             k == [l EXCEPT !.selected = s, !.base = b]
  <1>1. l \in Loose
    BY DEF Valid
  <1>2. /\ l.selected \in Nat /\ l.base \in Nat
        /\ l.length \in Nat /\ l.length <= MaxLength /\ MaxLength < Modulus
        /\ Modulus \in Nat /\ MaxLength \in Nat
    BY <1>1, ConstantsAssumption DEF Loose
  <1>3. s = l.selected + by
    BY <1>2, WrapSmall
  <1>4. b \in Nat
    BY <1>2, WrapType
  <1>5. s \in Nat /\ s < l.length
    BY <1>2, <1>3
  <1> HIDE DEF s, b
  <1>6. k \in Loose
    BY <1>1, <1>4, <1>5 DEF Loose
  <1>7. /\ k.selected = s /\ k.base = b /\ k.length = l.length /\ k.range = l.range
        /\ k.start = l.start /\ SameWindow(l, k)
    BY <1>1 DEF Loose, SameWindow
  <1>8. SelectionMoved(l, by) = IF l.range THEN ScrollTo(ScrollTo(k, k.base), k.selected)
                                ELSE ScrollTo(k, k.selected)
    BY DEF SelectionMoved, k, s, b
  <1> HIDE DEF k
  <1>9. InRange(k) /\ IsItem(k.selected, k)
    BY <1>5, <1>6, <1>7 DEF InRange, IsItem
  <1>10. Follows(l, ScrollTo(k, k.selected))
    BY <1>7, <1>9, ScrollToFollows, Carried DEF CheckOrigin
  <1>11. Follows(l, ScrollTo(ScrollTo(k, k.base), k.selected))
    <2> DEFINE m == ScrollTo(k, k.base)
    <2>1. /\ SameWindow(k, m) /\ InRange(m) /\ m.selected = k.selected /\ m.length = k.length
      BY <1>4, <1>7, <1>9, ScrollToIs
    <2> HIDE DEF m
    <2>2. IsItem(m.selected, m) /\ SameWindow(l, m)
      BY <1>7, <1>9, <2>1 DEF IsItem, SameWindow
    <2>3. Follows(l, ScrollTo(m, m.selected))
      BY <2>1, <2>2, ScrollToFollows, Carried DEF CheckOrigin
    <2> QED
      BY <2>1, <2>3 DEF m
  <1> QED
    BY <1>8, <1>10, <1>11

-----------------------------------------------------------------------------
(* The commands.                                                           *)

LEMMA MovesKeep ==
    ASSUME OptionsTyped, NEW l, InRange(l)
    PROVE  /\ Keeps(l, MoveCursorNext(l)) /\ Keeps(l, MoveCursorPrevious(l))
           /\ Keeps(l, MoveCursorTop(l)) /\ Keeps(l, MoveCursorMiddle(l))
           /\ Keeps(l, MoveCursorBottom(l)) /\ Keeps(l, MoveCursorLast(l))
           /\ Keeps(l, MoveCursorNextPage(l)) /\ Keeps(l, MoveCursorPreviousPage(l))
  <1>1. l \in Loose
    BY DEF InRange
  <1>2. /\ l.start \in Nat /\ l.height \in Nat /\ l.length \in Nat /\ l.selected \in Nat
        /\ l.offset \in Nat
    BY <1>1, ConstantsAssumption DEF InRange, Loose
  <1>3. \A x \in Int : Wrap(x) \in Nat
    BY WrapType
  <1>4. LastRow(l) \in Nat /\ End(l) \in Nat
    BY <1>2, <1>3 DEF LastRow, End
  <1>5. \A n \in Nat : Keeps(l, MoveCursor(l, n))
    BY MoveCursorFollows, FollowsKeeps
  <1>0. Keeps(l, l)
    BY DEF Keeps, SameWindow
  <1>6. Keeps(l, MoveCursorNext(l))
    BY <1>0, <1>2, <1>5 DEF MoveCursorNext
  <1>7. Keeps(l, MoveCursorPrevious(l))
    BY <1>0, <1>2, <1>3, <1>5 DEF MoveCursorPrevious
  <1>8. Keeps(l, MoveCursorTop(l))
    <2>1. Wrap(l.start + l.offset) \in Nat
      BY <1>2, <1>3
    <2>2. Min({Wrap(l.start + l.offset), LastRow(l)}) \in Nat
      BY <2>1, <1>4, MinType
    <2> QED
      BY <2>2, <1>5 DEF MoveCursorTop
  <1>9. Keeps(l, MoveCursorMiddle(l))
    <2>1. l.start + Half(l) \in Nat /\ l.length \div 2 \in Nat
      BY <1>1, <1>2, HalfType
    <2> QED
      BY <2>1, <1>5 DEF MoveCursorMiddle
  <1>10. Keeps(l, MoveCursorBottom(l))
    BY <1>2, <1>3, <1>4, <1>5 DEF MoveCursorBottom
  <1>11. Keeps(l, MoveCursorLast(l))
    BY <1>2, <1>5 DEF MoveCursorLast
  <1>12. Keeps(l, [l EXCEPT !.highlight = FALSE])
    BY OnlyHighlight
  <1>13. Keeps(l, MoveCursorNextPage(l))
    BY <1>2, <1>5, <1>11, <1>12 DEF MoveCursorNextPage
  <1>14. Keeps(l, MoveCursorPreviousPage(l))
    BY <1>2, <1>5, <1>12 DEF MoveCursorPreviousPage
  <1> QED
    BY <1>6, <1>7, <1>8, <1>9, <1>10, <1>11, <1>13, <1>14

LEMMA RangeSelectKeeps ==
    ASSUME OptionsTyped, NEW l, InRange(l)
    PROVE  Keeps(l, RangeSelect(l))
  <1>1. l \in Loose
    BY DEF InRange
  <1>2. l.selected \in Nat
    BY <1>1 DEF Loose
  <1> DEFINE k == [l EXCEPT !.base = l.selected, !.range = TRUE]
  <1>3. k \in Loose
    BY <1>1, <1>2 DEF Loose
  <1>4. /\ k.start = l.start /\ k.selected = l.selected /\ k.length = l.length
        /\ k.height = l.height /\ k.offset = l.offset /\ k.show = l.show
    BY <1>1 DEF Loose
  <1>5. RangeSelect(l) = IF l.range THEN SetCursor(l, l.selected) ELSE k
    BY DEF RangeSelect
  <1> HIDE DEF k
  <1>6. MarginOf(k) = MarginOf(l)
    BY <1>4 DEF MarginOf
  <1>7. SameWindow(l, k) /\ InRange(k)
    BY <1>3, <1>4 DEF SameWindow, InRange
  <1> HIDE DEF MarginOf
  <1>8. (Fits(l) => Fits(k)) /\ (Around(l) => Around(k))
    BY <1>4, <1>6 DEF Fits, Around
  <1>9. Keeps(l, k)
    BY <1>7, <1>8 DEF Keeps
  <1>10. Keeps(l, SetCursor(l, l.selected))
    BY <1>2, SetCursorFollows, FollowsKeeps
  <1> QED
    BY <1>5, <1>9, <1>10

LEMMA HandleCommandKeeps ==
    ASSUME OptionsTyped, NEW l, InRange(l), InSize(l), NEW cmd \in ListCommand
    PROVE  Keeps(l, HandleCommand(l, cmd))
  <1>1. Keeps(l, MoveCursor(l, 0))
    BY MoveCursorFollows, FollowsKeeps
  <1>2. \A n \in {1, Half(l)} : Keeps(l, ScrollUp(l, n)) /\ Keeps(l, ScrollDown(l, n))
    BY ScrollUpKeeps, ScrollDownKeeps, HalfType DEF InRange
  <1> QED
    BY <1>1, <1>2, MovesKeep, RangeSelectKeeps DEF HandleCommand, ListCommand, ScrollCommand

LEMMA HandleScrollCommandFits ==
    ASSUME OptionsTyped, NEW l, InRange(l), InSize(l), Fits(l), NEW cmd \in ScrollCommand
    PROVE  Scrolls(l, HandleScrollCommand(l, cmd))
  <1>1. Half(l) \in Nat /\ l.height \in Nat /\ Half(l) <= l.height
    <2>1. Half(l) \in Nat /\ 2 * Half(l) < l.height
      BY HalfIs DEF InRange
    <2>2. l.height \in Nat
      BY DEF InRange, Loose
    <2> QED BY <2>1, <2>2
  <1>2. Keeps(l, ScrollUp(l, 1)) /\ Keeps(l, ScrollDown(l, 1))
    BY ScrollUpKeeps, ScrollDownKeeps
  <1>3. Scrolls(l, ScrollUp(l, 1)) /\ Scrolls(l, ScrollDown(l, 1))
    BY <1>2 DEF Keeps, Scrolls
  <1>4. \A n \in {Half(l), l.height} : Scrolls(l, ScrollForward(l, n)) /\ Scrolls(l, ScrollBackward(l, n))
    BY <1>1, ScrollPageFits
  <1>5. Scrolls(l, SetOrigin(l, 0)) /\ Scrolls(l, ScrollToBottom(l))
    BY OriginFits
  <1> QED
    BY <1>3, <1>4, <1>5 DEF HandleScrollCommand, ScrollCommand

-----------------------------------------------------------------------------
(* Where the commands leave the window alone.                              *)

LEMMA LeastOf == ASSUME NEW x \in Int, NEW y \in Int PROVE Min({x, y}) = IF x <= y THEN x ELSE y
  <1>1. \A m \in {x, y} : (\A n \in {x, y} : m <= n) <=> m = IF x <= y THEN x ELSE y
    OBVIOUS
  <1> QED
    BY <1>1 DEF Min

LEMMA GreatestOf == ASSUME NEW x \in Int, NEW y \in Int PROVE Max({x, y}) = IF x >= y THEN x ELSE y
  <1>1. \A m \in {x, y} : (\A n \in {x, y} : m >= n) <=> m = IF x >= y THEN x ELSE y
    OBVIOUS
  <1> QED
    BY <1>1 DEF Max

LEMMA MoveCursorIs ==
    ASSUME OptionsTyped, NEW l, InRange(l), InSize(l), NEW n \in Nat, n < l.length \/ n = 0
    PROVE  MoveCursor(l, n).start = NewOrigin(l.start, l.height, l.offset, l.length, n)
  <1> DEFINE k == [l EXCEPT !.selected = n, !.highlight = FALSE]
             s == ValidateIndex(k, k.selected)
             b == IF k.range THEN ValidateIndex(k, k.base) ELSE 0
             m == [k EXCEPT !.selected = s, !.base = b]
  <1>1. k \in Loose
    BY DEF InRange, Loose
  <1>2. k.selected = n /\ k.length = l.length /\ SameWindow(l, k) /\ k.start = l.start
    BY DEF InRange, Loose, SameWindow
  <1>3. MoveCursor(l, n) = ScrollTo(m, m.selected)
    BY DEF MoveCursor, CheckOrigin, CheckSelected
  <1> HIDE DEF k
  <1>4. l.length \in Nat /\ l.length <= MaxLength /\ MaxLength \in Nat
    BY ConstantsAssumption DEF InRange, Loose
  <1>5. s = n
    BY <1>2, <1>4 DEF ValidateIndex
  <1>6. b \in Nat
    BY <1>1, <1>2, <1>4 DEF Loose, ValidateIndex
  <1> HIDE DEF s, b
  <1>7. m \in Loose /\ m.selected = n /\ m.length = l.length /\ m.start = l.start /\ SameWindow(l, m)
    BY <1>1, <1>2, <1>5, <1>6 DEF Loose, SameWindow
  <1> HIDE DEF m
  <1>8. InRange(m) /\ InSize(m)
    BY <1>7 DEF InRange, InSize, SameWindow
  <1>9. n <= MaxLength
    BY <1>4
  <1>10. ScrollTo(m, n).start = NewOrigin(m.start, m.height, m.offset, m.length, n)
    BY <1>8, <1>9, ScrollToIs
  <1> QED
    BY <1>3, <1>7, <1>10 DEF SameWindow

\* The cursor is moved within the window.
LEMMA MoveCursorStays ==
    ASSUME OptionsTyped, NEW l, InRange(l), InSize(l), Fits(l), NEW n \in Nat,
           n < l.length \/ n = 0,
           l.start = 0 \/ l.start + l.offset <= n \/ (2 * l.offset = l.height /\ n + 1 = l.start + l.offset),
           l.start + l.height >= l.length \/ n + l.offset < l.start + l.height
    PROVE  MoveCursor(l, n).start = l.start
  <1>1. /\ l.start \in Nat /\ l.height \in Nat /\ l.height > 0 /\ l.offset \in Nat
        /\ 2 * l.offset <= l.height /\ l.length \in Nat
    BY Sizes DEF OptionsTyped, InRange
  <1>2. NewOrigin(l.start, l.height, l.offset, l.length, n) = l.start
    <2>1. l.start = 0 \/ l.start + l.height <= l.length
      BY DEF Fits
    <2> DEFINE s == l.start
               h == l.height
               o == l.offset
               len == l.length
    <2>2. s \in Nat /\ h \in Nat /\ o \in Nat /\ len \in Nat /\ h > 0 /\ 2 * o <= h
      BY <1>1
    <2>3. /\ n < len \/ n = 0
          /\ s = 0 \/ s + h <= len
          /\ s = 0 \/ s + o <= n \/ (2 * o = h /\ n + 1 = s + o)
          /\ s + h >= len \/ n + o < s + h
      BY <2>1
    <2> HIDE DEF s, h, o, len
    <2>4. NewOrigin(s, h, o, len, n) = s
      BY <2>2, <2>3, OriginStays
    <2> QED
      BY <2>4 DEF s, h, o, len
  <1> QED
    BY <1>2, MoveCursorIs

LEMMA WindowSizes ==
    ASSUME OptionsTyped, NEW l, InRange(l), InSize(l)
    PROVE  /\ l.start \in Nat /\ l.height \in Nat /\ l.height > 0 /\ l.offset \in Nat
           /\ 2 * l.offset <= l.height /\ l.length \in Nat /\ l.selected \in Nat
           /\ End(l) = l.start + l.height
           /\ Wrap(l.start + l.offset) = l.start + l.offset
           /\ LastRow(l) = l.start + l.height - 1 - l.offset
           /\ l.start + l.height - 1 - l.offset \in Nat
  <1> DEFINE M == Modulus \div 2
  <1>1. /\ l.start \in Nat /\ l.start < M /\ l.height \in Nat /\ l.height > 0
        /\ 2 * l.offset <= l.height /\ l.length \in Nat
        /\ 2 * (l.height + l.offset + MaxLength) <= M
        /\ 2 * M <= Modulus /\ M \in Nat /\ MaxLength \in Nat /\ l.offset \in Nat /\ Modulus \in Nat
    BY Sizes DEF OptionsTyped, InRange
  <1> HIDE DEF M
  <1>2. End(l) = l.start + l.height
    BY EndIs
  <1>3. Wrap(l.start + l.offset) = l.start + l.offset
    BY <1>1, WrapSmall
  <1>4. l.start + l.height - 1 - l.offset \in Nat /\ l.start + l.height - 1 - l.offset < Modulus
    BY <1>1
  <1>5. LastRow(l) = l.start + l.height - 1 - l.offset
    <2>1. Wrap(l.start + l.height - 1 - l.offset) = l.start + l.height - 1 - l.offset
      BY <1>4, WrapSmall
    <2> QED
      BY <1>1, <1>2, <2>1 DEF LastRow
  <1>6. l.selected \in Nat
    BY DEF InRange, Loose
  <1> QED
    BY <1>1, <1>2, <1>3, <1>4, <1>5, <1>6

LEMMA FetchCursorStays ==
    ASSUME OptionsTyped, NEW l, InRange(l), InSize(l), Fits(l), IsItem(l.selected, l)
    PROVE  FetchCursor(l).start = l.start
  <1>1. /\ l.start \in Nat /\ l.height \in Nat /\ l.height > 0 /\ l.offset \in Nat
        /\ 2 * l.offset <= l.height /\ l.length \in Nat /\ l.selected \in Nat
        /\ End(l) = l.start + l.height
        /\ Wrap(l.start + l.offset) = l.start + l.offset
        /\ LastRow(l) = l.start + l.height - 1 - l.offset
        /\ l.start + l.height - 1 - l.offset \in Nat
    BY WindowSizes
  <1> DEFINE above == IF l.start > 0 /\ l.selected < l.start + l.offset
                        THEN l.start + l.offset ELSE l.selected
             last == l.start + l.height - 1 - l.offset
             target == IF l.start + l.height < l.length /\ above > last THEN last ELSE above
  <1>2. FetchCursor(l) = MoveCursor(l, target)
    BY <1>1 DEF FetchCursor, LastRow
  <1>3. l.start = 0 \/ l.start + l.height <= l.length
    BY DEF Fits
  <1>4. l.selected < l.length \/ l.selected = 0
    BY DEF IsItem
  <1>5. above \in Nat /\ (above < l.length \/ above = 0) /\ (l.start = 0 \/ l.start + l.offset <= above)
    BY <1>1, <1>3, <1>4
  <1> HIDE DEF above
  <1>6. target \in Nat /\ (target < l.length \/ target = 0)
    BY <1>1, <1>5
  <1>7. l.start = 0 \/ l.start + l.offset <= target
          \/ (2 * l.offset = l.height /\ target + 1 = l.start + l.offset)
    BY <1>1, <1>5
  <1>8. l.start + l.height >= l.length \/ target + l.offset < l.start + l.height
    BY <1>1, <1>5
  <1> HIDE DEF target
  <1> QED
    BY <1>2, <1>6, <1>7, <1>8, MoveCursorStays

\* The window after the origin has been moved to where it fits.
LEMMA FetchedStays ==
    ASSUME OptionsTyped, NEW l, InRange(l), InSize(l), IsItem(l.selected, l),
           NEW s \in Nat, s < Modulus \div 2, s = 0 \/ s + l.height <= l.length
    PROVE  FetchCursor([l EXCEPT !.start = s]).start = s
  <1> s \in Int
    OBVIOUS
  <1> DEFINE k == [l EXCEPT !.start = s]
  <1>1. Moved(l, k, s)
    BY OriginSet DEF InRange
  <1> HIDE DEF k
  <1>2. InRange(k) /\ InSize(k) /\ Fits(k) /\ IsItem(k.selected, k) /\ k.start = s
    BY <1>1 DEF Moved, InRange, SameWindow, InSize, Fits, IsItem
  <1> QED
    BY <1>2, FetchCursorStays DEF k

LEMMA LineUp ==
    ASSUME OptionsTyped, NEW l, InRange(l), InSize(l), Fits(l), IsItem(l.selected, l)
    PROVE  ScrollUp(l, 1).start = Max({0, l.start - 1})
  <1>1. l.start \in Nat /\ l.height \in Nat /\ l.length \in Nat
    BY WindowSizes
  <1>2. CASE l.start > 0
    <2> DEFINE M == Modulus \div 2
    <2>0. l.start < M /\ M \in Nat
      BY ConstantsAssumption DEF InRange
    <2> HIDE DEF M
    <2>1. /\ l.start - 1 \in Nat /\ l.start - 1 < M
          /\ l.start - 1 = 0 \/ l.start - 1 + l.height <= l.length
      BY <1>1, <1>2, <2>0 DEF Fits
    <2>2. FetchCursor([l EXCEPT !.start = l.start - 1]).start = l.start - 1
      BY <2>1, FetchedStays DEF M
    <2>3. ScrollUp(l, 1) = FetchCursor([l EXCEPT !.start = l.start - 1])
      BY <1>1, <1>2 DEF ScrollUp
    <2>4. Max({0, l.start - 1}) = l.start - 1
      BY <1>1, <1>2, GreatestOf
    <2> QED
      BY <2>2, <2>3, <2>4
  <1>3. CASE l.start = 0
    <2>1. ScrollUp(l, 1) = [l EXCEPT !.highlight = FALSE]
      BY <1>3 DEF ScrollUp
    <2>2. ScrollUp(l, 1).start = l.start
      BY <2>1 DEF InRange, Loose
    <2>3. Max({0, l.start - 1}) = 0
      BY <1>3, GreatestOf
    <2> QED
      BY <1>3, <2>2, <2>3
  <1> QED
    BY <1>1, <1>2, <1>3

LEMMA LineDown ==
    ASSUME OptionsTyped, NEW l, InRange(l), InSize(l), Fits(l), IsItem(l.selected, l)
    PROVE  ScrollDown(l, 1).start = Max({l.start, Min({l.start + 1, l.length - l.height})})
  <1>1. /\ l.start \in Nat /\ l.height \in Nat /\ l.height > 0 /\ l.length \in Nat
        /\ End(l) = l.start + l.height
    BY WindowSizes
  <1> DEFINE least == IF l.start + 1 <= l.length - l.height THEN l.start + 1 ELSE l.length - l.height
  <1>2. /\ Min({l.start + 1, l.length - l.height}) = least
        /\ least \in Int
    BY <1>1, LeastOf
  <1>3. Max({l.start, least}) = IF l.start >= least THEN l.start ELSE least
    <2> HIDE DEF least
    <2> QED BY <1>1, <1>2, GreatestOf
  <1>4. CASE End(l) < l.length
    <2>1. l.start + 1 <= l.length - l.height
      BY <1>1, <1>4
    <2> DEFINE s == l.start + 1
    <2>2. (IF End(l) + 1 > l.length - 1 THEN l.length - l.height ELSE l.start + 1) = s
      BY <1>1, <1>4
    <2>3. ScrollDown(l, 1) = FetchCursor([l EXCEPT !.start = s])
      BY <1>4, <2>2 DEF ScrollDown
    <2>4. s < Modulus \div 2
      <3>1. l.length < Modulus \div 2 /\ Modulus \div 2 \in Nat
        BY ConstantsAssumption DEF InRange, Loose
      <3> DEFINE M == Modulus \div 2
      <3> HIDE DEF M
      <3>2. l.length < M /\ M \in Nat
        BY <3>1 DEF M
      <3>3. s < M
        BY <1>1, <2>1, <3>2
      <3> QED BY <3>3 DEF M
    <2>5. s \in Nat /\ s + l.height <= l.length
      BY <1>1, <2>1
    <2> HIDE DEF s
    <2>6. FetchCursor([l EXCEPT !.start = s]).start = s
      BY <2>4, <2>5, FetchedStays
    <2>7. s = IF l.start >= least THEN l.start ELSE least
      BY <1>1, <2>1 DEF s
    <2> HIDE DEF least
    <2> QED
      BY <1>2, <1>3, <2>3, <2>6, <2>7
  <1>5. CASE End(l) >= l.length
    <2>1. ScrollDown(l, 1) = [l EXCEPT !.highlight = FALSE]
      BY <1>1, <1>5 DEF ScrollDown
    <2>2. ScrollDown(l, 1).start = l.start
      BY <2>1 DEF InRange, Loose
    <2>3. least <= l.start
      BY <1>1, <1>5
    <2> HIDE DEF least
    <2> QED
      BY <1>1, <1>2, <1>3, <2>2, <2>3
  <1> QED
    BY <1>1, <1>4, <1>5

LEMMA TopStays ==
    ASSUME OptionsTyped, NEW l, InRange(l), InSize(l), Fits(l)
    PROVE  MoveCursorTop(l).start = l.start
  <1>1. /\ l.start \in Nat /\ l.height \in Nat /\ l.height > 0 /\ l.offset \in Nat
        /\ 2 * l.offset <= l.height /\ l.length \in Nat
        /\ Wrap(l.start + l.offset) = l.start + l.offset
        /\ LastRow(l) = l.start + l.height - 1 - l.offset
        /\ l.start + l.height - 1 - l.offset \in Nat
    BY WindowSizes
  <1> DEFINE a == l.start + l.offset
             b == l.start + l.height - 1 - l.offset
             least == IF a <= b THEN a ELSE b
             n == IF l.start = 0 THEN 0 ELSE least
  <1>2. Min({a, b}) = least
    BY <1>1, LeastOf
  <1>3. MoveCursorTop(l) = MoveCursor(l, n)
    <2> HIDE DEF least
    <2> QED BY <1>1, <1>2 DEF MoveCursorTop
  <1>4. l.start = 0 \/ l.start + l.height <= l.length
    BY DEF Fits
  <1>5. n \in Nat /\ (n < l.length \/ n = 0)
    BY <1>1, <1>4
  <1>6. l.start = 0 \/ l.start + l.offset <= n \/ (2 * l.offset = l.height /\ n + 1 = l.start + l.offset)
    BY <1>1, <1>4
  <1>7. l.start + l.height >= l.length \/ n + l.offset < l.start + l.height
    BY <1>1, <1>4
  <1> HIDE DEF n
  <1> QED
    BY <1>3, <1>5, <1>6, <1>7, MoveCursorStays

LEMMA MiddleStays ==
    ASSUME OptionsTyped, NEW l, InRange(l), InSize(l), Fits(l)
    PROVE  MoveCursorMiddle(l).start = l.start
  <1>1. /\ l.start \in Nat /\ l.height \in Nat /\ l.height > 0 /\ l.offset \in Nat
        /\ 2 * l.offset <= l.height /\ l.length \in Nat
    BY WindowSizes
  <1>2. Half(l) \in Nat /\ 2 * Half(l) < l.height /\ l.height <= 2 * Half(l) + 2
    BY HalfIs DEF InRange
  <1> DEFINE n == IF l.length >= l.height THEN l.start + Half(l) ELSE l.length \div 2
  <1>3. MoveCursorMiddle(l) = MoveCursor(l, n)
    BY DEF MoveCursorMiddle
  <1>4. l.start = 0 \/ l.start + l.height <= l.length
    BY DEF Fits
  <1>5. n \in Nat /\ (n < l.length \/ n = 0)
    BY <1>1, <1>2, <1>4
  <1>6. l.start = 0 \/ l.start + l.offset <= n \/ (2 * l.offset = l.height /\ n + 1 = l.start + l.offset)
    <2>1. l.start > 0 => n = l.start + Half(l)
      BY <1>1, <1>4
    <2>2. l.offset <= Half(l) \/ (2 * l.offset = l.height /\ Half(l) + 1 = l.offset)
      BY <1>1, <1>2
    <2> HIDE DEF n
    <2> QED
      BY <1>1, <1>2, <1>5, <2>1, <2>2
  <1>7. l.start + l.height >= l.length \/ n + l.offset < l.start + l.height
    BY <1>1, <1>2, <1>4
  <1> HIDE DEF n
  <1> QED
    BY <1>3, <1>5, <1>6, <1>7, MoveCursorStays

LEMMA BottomStays ==
    ASSUME OptionsTyped, NEW l, InRange(l), InSize(l), Fits(l)
    PROVE  MoveCursorBottom(l).start = l.start
  <1>1. /\ l.start \in Nat /\ l.height \in Nat /\ l.height > 0 /\ l.offset \in Nat
        /\ 2 * l.offset <= l.height /\ l.length \in Nat
        /\ End(l) = l.start + l.height
        /\ LastRow(l) = l.start + l.height - 1 - l.offset
        /\ l.start + l.height - 1 - l.offset \in Nat
    BY WindowSizes
  <1>2. l.start = 0 \/ l.start + l.height <= l.length
    BY DEF Fits
  <1>3. CASE l.length = 0
    <2>1. Wrap(l.length - 1) \in Nat /\ l.start = 0
      BY <1>1, <1>2, <1>3, WrapType
    <2>2. MoveCursorBottom(l) = MoveCursor(l, Wrap(l.length - 1))
      BY <1>1, <1>3 DEF MoveCursorBottom
    <2>3. Follows(l, MoveCursor(l, Wrap(l.length - 1)))
      BY <2>1, MoveCursorFollows
    <2>4. MoveCursor(l, Wrap(l.length - 1)).length = l.length
      BY <2>1, MoveCursorValid DEF InRange
    <2> DEFINE k == MoveCursor(l, Wrap(l.length - 1))
    <2> HIDE DEF k
    <2>5. Fits(k) /\ k.length = 0 /\ k.height = l.height /\ k.start \in Nat
      BY <1>3, <2>3, <2>4 DEF Follows, SameWindow, InRange, k
    <2>6. k.start = 0
      BY <1>1, <2>5 DEF Fits
    <2> QED
      BY <2>1, <2>2, <2>6 DEF k
  <1>4. CASE l.length > 0
    <2>0. Wrap(l.length - 1) = l.length - 1
      <3>1. l.length <= MaxLength /\ MaxLength \in Nat /\ Modulus \in Nat /\ MaxLength < Modulus
        BY ConstantsAssumption DEF InRange, Loose
      <3>2. l.length - 1 \in Nat /\ l.length - 1 < Modulus
        BY <1>1, <1>4, <3>1
      <3> QED BY <3>2, WrapSmall
    <2> DEFINE n == IF l.length >= l.height /\ l.start + l.height # l.length
                      THEN l.start + l.height - 1 - l.offset ELSE l.length - 1
    <2>1. MoveCursorBottom(l) = MoveCursor(l, n)
      BY <1>1, <2>0 DEF MoveCursorBottom
    <2>2. n \in Nat /\ (n < l.length \/ n = 0)
      BY <1>1, <1>2, <1>4
    <2>3. l.start = 0 \/ l.start + l.offset <= n \/ (2 * l.offset = l.height /\ n + 1 = l.start + l.offset)
      BY <1>1, <1>2, <1>4
    <2>4. l.start + l.height >= l.length \/ n + l.offset < l.start + l.height
      BY <1>1, <1>2, <1>4
    <2> HIDE DEF n
    <2> QED
      BY <2>1, <2>2, <2>3, <2>4, MoveCursorStays
  <1> QED
    BY <1>1, <1>3, <1>4

-----------------------------------------------------------------------------
(* The actions.                                                            *)

\* The window while the pages and the user act on it.
WInv ==
    /\ OptionsTyped /\ sized \in BOOLEAN
    /\ InRange(lw)
    /\ lw.show => Is("list")
    /\ ~sized => lw.height \in Unsigned /\ lw.offset = 0
    /\ sized => InSize(lw) /\ Fits(lw)
    /\ sized /\ Is("list") => Around(lw)

LEMMA KeptSteps ==
    ASSUME WInv, NEW k, Keeps(lw, k), Do(k)
    PROVE  WInv'
  <1>1. lw' = k /\ options' = options /\ sized' = sized
    BY DEF Do
  <1>2. k.height = lw.height /\ k.offset = lw.offset /\ k.show = lw.show /\ InRange(k)
    BY DEF Keeps, SameWindow
  <1>3. OptionsTyped' /\ (sized \in BOOLEAN)' /\ InRange(lw)' /\ (Is("list")' <=> Is("list"))
    BY <1>1, <1>2 DEF WInv, OptionsTyped, InRange, Is
  <1>4. (lw.show => Is("list"))' /\ (~sized => lw.height \in Unsigned /\ lw.offset = 0)'
    BY <1>1, <1>2, <1>3 DEF WInv
  <1>5. InSize(k) <=> InSize(lw)
    BY <1>2 DEF InSize
  <1>6. InSize(lw)' <=> InSize(k)
    BY <1>1 DEF InSize
  <1>7. (Fits(lw)' <=> Fits(k)) /\ (Around(lw)' <=> Around(k))
    <2>1. MarginOf(lw)' = MarginOf(k)
      BY <1>1 DEF MarginOf
    <2> QED
      BY <1>1, <2>1 DEF Fits, Around
  <1>8. sized => InSize(k) /\ Fits(k)
    BY <1>5 DEF WInv, Keeps
  <1>9. sized /\ Is("list") => Around(k)
    BY DEF WInv, Keeps
  <1> QED
    BY <1>1, <1>3, <1>4, <1>6, <1>7, <1>8, <1>9 DEF WInv

LEMMA ScrolledSteps ==
    ASSUME WInv, Is("text"), NEW k, Scrolls(lw, k), Do(k)
    PROVE  WInv'
  <1>0. ~Is("list")
    BY DEF Is
  <1>1. lw' = k /\ options' = options /\ sized' = sized
    BY DEF Do
  <1>2. k.height = lw.height /\ k.offset = lw.offset /\ k.show = lw.show /\ InRange(k)
    BY DEF Scrolls, SameWindow
  <1>3. OptionsTyped' /\ (sized \in BOOLEAN)' /\ InRange(lw)' /\ (Is("list")' <=> Is("list"))
    BY <1>1, <1>2 DEF WInv, OptionsTyped, InRange, Is
  <1>4. (lw.show => Is("list"))' /\ (~sized => lw.height \in Unsigned /\ lw.offset = 0)'
    BY <1>1, <1>2, <1>3 DEF WInv
  <1>5. InSize(k) <=> InSize(lw)
    BY <1>2 DEF InSize
  <1>6. (InSize(lw)' <=> InSize(k)) /\ (Fits(lw)' <=> Fits(k))
    BY <1>1 DEF InSize, Fits
  <1>7. sized => InSize(k) /\ Fits(k)
    BY <1>5 DEF WInv, Scrolls
  <1> QED
    BY <1>0, <1>1, <1>3, <1>4, <1>6, <1>7 DEF WInv

\* The cursor is shown or hidden.
LEMMA Shown ==
    ASSUME NEW l, InRange(l), NEW b \in BOOLEAN
    PROVE  LET k == [l EXCEPT !.show = b]
           IN  /\ InRange(k) /\ k.show = b /\ k.height = l.height /\ k.offset = l.offset
               /\ k.start = l.start /\ k.length = l.length /\ k.selected = l.selected
               /\ (InSize(k) <=> InSize(l)) /\ (Fits(k) <=> Fits(l)) /\ (Around(k) <=> Around(l))
  <1> DEFINE k == [l EXCEPT !.show = b]
  <1>1. k \in Loose
    BY DEF InRange, Loose
  <1>2. /\ k.show = b /\ k.height = l.height /\ k.offset = l.offset
        /\ k.start = l.start /\ k.length = l.length /\ k.selected = l.selected
    BY DEF InRange, Loose
  <1> HIDE DEF k
  <1>3. InRange(k)
    BY <1>1, <1>2 DEF InRange
  <1>4. MarginOf(k) = MarginOf(l)
    BY <1>2 DEF MarginOf
  <1>5. (InSize(k) <=> InSize(l)) /\ (Fits(k) <=> Fits(l)) /\ (Around(k) <=> Around(l))
    BY <1>2, <1>4 DEF InSize, Fits, Around
  <1> QED
    BY <1>2, <1>3, <1>5 DEF k

\* A step that begins with the cursor shown, and one that only hides or shows it.
LEMMA ShownSteps ==
    ASSUME WInv, Is("list"), NEW b \in BOOLEAN, NEW k, Keeps([lw EXCEPT !.show = b], k), Do(k)
    PROVE  WInv'
  <1> DEFINE m == [lw EXCEPT !.show = b]
  <1>0. InRange(lw)
    BY DEF WInv
  <1>1. /\ InRange(m) /\ m.show = b /\ m.height = lw.height /\ m.offset = lw.offset
        /\ (InSize(m) <=> InSize(lw)) /\ (Fits(m) <=> Fits(lw)) /\ (Around(m) <=> Around(lw))
    BY <1>0, Shown
  <1> HIDE DEF m
  <1>2. lw' = k /\ options' = options /\ sized' = sized
    BY DEF Do
  <1>3. k.height = lw.height /\ k.offset = lw.offset /\ InRange(k)
    BY <1>1 DEF Keeps, SameWindow, m
  <1>4. OptionsTyped' /\ (sized \in BOOLEAN)' /\ InRange(lw)' /\ Is("list")'
    BY <1>2, <1>3 DEF WInv, OptionsTyped, InRange, Is
  <1>5. (~sized => lw.height \in Unsigned /\ lw.offset = 0)'
    BY <1>2, <1>3 DEF WInv
  <1>6. InSize(k) <=> InSize(lw)
    BY <1>3 DEF InSize
  <1>7. InSize(lw)' <=> InSize(k)
    BY <1>2 DEF InSize
  <1>8. (Fits(lw)' <=> Fits(k)) /\ (Around(lw)' <=> Around(k))
    <2>1. MarginOf(lw)' = MarginOf(k)
      BY <1>2 DEF MarginOf
    <2> QED
      BY <1>2, <2>1 DEF Fits, Around
  <1>9. sized => InSize(k) /\ Fits(k) /\ Around(k)
    BY <1>1, <1>6 DEF WInv, Keeps, m
  <1> QED
    BY <1>2, <1>4, <1>5, <1>7, <1>8, <1>9 DEF WInv

LEMMA InRangeFollows ==
    ASSUME NEW l, NEW k, Follows(l, k) \/ Keeps(l, k)
    PROVE  InRange(k) /\ SameWindow(l, k)
  BY DEF Follows, Keeps

LEMMA CommandKeeps ==
    ASSUME WInv, NEW cmd \in ListCommand, Command(cmd)
    PROVE  WInv'
  <1>1. sized /\ OptionsTyped /\ InRange(lw) /\ InSize(lw) /\ Fits(lw)
    BY DEF WInv, Command
  <1>2. CASE lw.show /\ Do(HandleCommand(lw, cmd))
    BY <1>1, <1>2, HandleCommandKeeps, KeptSteps
  <1>3. CASE ~lw.show /\ Is("list") /\ Do(HandleCommand([lw EXCEPT !.show = TRUE], cmd))
    <2> DEFINE m == [lw EXCEPT !.show = TRUE]
    <2>1. InRange(m) /\ InSize(m)
      BY <1>1, Shown
    <2> HIDE DEF m
    <2>2. Keeps(m, HandleCommand(m, cmd))
      BY <1>1, <2>1, HandleCommandKeeps
    <2> QED
      BY <1>3, <2>2, ShownSteps DEF m
  <1>4. CASE ~lw.show /\ Is("text") /\ cmd \in ScrollCommand /\ Do(HandleScrollCommand(lw, cmd))
    BY <1>1, <1>4, HandleScrollCommandFits, ScrolledSteps
  <1> QED
    BY <1>2, <1>3, <1>4 DEF Command

LEMMA ChangeDirectoryKeeps ==
    ASSUME WInv, Valid(lw), NEW n \in 0..MaxLength, ChangeDirectory(n)
    PROVE  WInv'
  <1>0. OptionsTyped /\ InRange(lw) /\ n \in Nat /\ n <= MaxLength
    BY ConstantsAssumption DEF WInv
  <1> DEFINE set == SetLength(lw, n)
             loaded == Reset(set)
  <1>1. set.length = n /\ InRange(set) /\ SameWindow(lw, set)
    BY <1>0, SetLengthValid, SetLengthKeeps, InRangeFollows
  <1> HIDE DEF set
  <1>2. Follows(lw, loaded) /\ InRange(loaded) /\ SameWindow(lw, loaded) /\ loaded.length = n
    BY <1>0, <1>1, ResetFollows, Carried, InRangeFollows
  <1>3. Do(loaded) => WInv'
    BY <1>2, FollowsKeeps, KeptSteps
  <1> HIDE DEF loaded
  <1>4. ASSUME NEW i \in 0..(n - 1), LET s == SetCursor(loaded, i) IN Do(s) \/ Do(Center(s, i))
        PROVE  WInv'
    <2> DEFINE s == SetCursor(loaded, i)
    <2>1. i \in Nat /\ i < n /\ i \in 0..MaxLength
      BY <1>0, ConstantsAssumption
    <2>2. Follows(loaded, s) /\ InRange(s)
      BY <1>0, <1>2, <2>1, SetCursorFollows, InRangeFollows
    <2>3. Follows(lw, s) /\ SameWindow(lw, s)
      BY <1>2, <2>2, Carried, InRangeFollows
    <2>4. s.selected = i /\ s.length = n
      BY <1>0, <1>2, <2>1, SetCursorIs
    <2> HIDE DEF s
    <2>5. IsItem(i, s)
      BY <2>1, <2>4 DEF IsItem
    <2>6. Follows(s, Center(s, i))
      BY <1>0, <2>1, <2>2, <2>4, <2>5, CenterFollows
    <2>7. Follows(lw, Center(s, i))
      BY <2>3, <2>6, Carried
    <2>8. Do(s) \/ Do(Center(s, i))
      BY <1>4 DEF s
    <2> QED
      BY <2>3, <2>7, <2>8, FollowsKeeps, KeptSteps
  <1> QED
    BY <1>3, <1>4 DEF ChangeDirectory, loaded, set

LEMMA SetTextKeeps ==
    ASSUME WInv, Valid(lw), NEW n \in 0..MaxLength, SetText(n)
    PROVE  WInv'
  <1>0. OptionsTyped /\ InRange(lw) /\ 0 \in 0..MaxLength
    BY ConstantsAssumption DEF WInv
  <1> DEFINE reset == Reset(lw)
             cleared == SetLength(reset, 0)
             text == SetLength(cleared, n)
  <1>1. Follows(lw, reset) /\ InRange(reset)
    BY <1>0, ResetFollows, InRangeFollows
  <1> HIDE DEF reset
  <1>2. Keeps(reset, cleared) /\ InRange(cleared)
    BY <1>0, <1>1, SetLengthKeeps, InRangeFollows
  <1> HIDE DEF cleared
  <1>3. Keeps(cleared, text) /\ InRange(text)
    BY <1>0, <1>2, SetLengthKeeps, InRangeFollows
  <1> HIDE DEF text
  <1>4. Keeps(lw, text) /\ SameWindow(lw, text)
    BY <1>1, <1>2, <1>3 DEF Follows, Keeps, SameWindow, InSize
  <1>5. Follows(lw, FetchCursor(SetOrigin(text, lw.start)))
    <2>1. lw.start \in Nat /\ lw.start < Modulus \div 2
      BY <1>0 DEF InRange
    <2>2. Follows(text, FetchCursor([text EXCEPT !.start = lw.start]))
      BY <1>0, <1>3, <2>1, FetchedFollows
    <2> QED
      BY <1>4, <2>2, Carried DEF SetOrigin
  <1> QED
    BY <1>4, <1>5, FollowsKeeps, KeptSteps DEF SetText, text, cleared, reset

LEMMA CenterPlayingItemKeeps ==
    ASSUME WInv, NEW i \in 0..MaxLength, CenterPlayingItem(i)
    PROVE  WInv'
  <1>0. OptionsTyped /\ InRange(lw) /\ i \in Nat
    BY ConstantsAssumption DEF WInv
  <1> DEFINE k == Center(lw, i)
  <1>1. InRange(k) /\ SameWindow(lw, k)
    BY <1>0, CenterFollows
  <1> HIDE DEF k
  <1>2. Follows(lw, SetCursor(k, i)) /\ Follows(lw, FetchCursor(k))
    BY <1>0, <1>1, SetCursorFollows, FetchCursorFollows, Carried
  <1> QED
    BY <1>2, FollowsKeeps, KeptSteps DEF CenterPlayingItem, k

LEMMA ClickKeeps ==
    ASSUME WInv, NEW y \in Nat, Click(y)
    PROVE  WInv'
  <1>0. OptionsTyped /\ InRange(lw) /\ lw.start + y \in Nat
    BY DEF WInv, InRange
  <1>1. Keeps(lw, SetCursor(lw, lw.start + y))
    BY <1>0, SetCursorFollows, FollowsKeeps
  <1>2. Keeps(lw, MoveCursorLast(lw)) /\ Keeps(lw, MoveCursorNextPage(lw))
    BY <1>0, MovesKeep
  <1> QED
    BY <1>1, <1>2, KeptSteps DEF Click

LEMMA FoundKeeps ==
    ASSUME WInv, NEW i \in Nat, Found(i)
    PROVE  WInv'
  <1>0. OptionsTyped /\ InRange(lw)
    BY DEF WInv
  <1> DEFINE m == MoveCursor(lw, i)
             k == [m EXCEPT !.highlight = TRUE]
  <1>1. Follows(lw, m) /\ InRange(m)
    BY <1>0, MoveCursorFollows, InRangeFollows
  <1> HIDE DEF m
  <1>2. Keeps(m, k)
    BY <1>1, OnlyHighlight
  <1> HIDE DEF k
  <1>3. Keeps(lw, k)
    BY <1>1, <1>2 DEF Follows, Keeps, SameWindow, InSize
  <1> QED
    BY <1>3, KeptSteps DEF Found, k, m

LEMMA DeleteKeeps ==
    ASSUME WInv, NEW n \in 0..MaxLength, Delete(n)
    PROVE  WInv'
  <1>0. OptionsTyped /\ InRange(lw)
    BY DEF WInv
  <1>1. First(lw) \in Nat
    <2>1. lw.base \in Nat /\ lw.selected \in Nat
      BY <1>0 DEF InRange, Loose
    <2> QED
      BY <2>1, MinType DEF First
  <1> DEFINE m == SetLength(lw, n)
  <1>2. InRange(m) /\ SameWindow(lw, m)
    BY <1>0, SetLengthKeeps, InRangeFollows
  <1> HIDE DEF m
  <1>3. Keeps(lw, SetCursor(m, First(lw)))
    BY <1>0, <1>1, <1>2, SetCursorFollows, Carried, FollowsKeeps
  <1> QED
    BY <1>3, KeptSteps DEF Delete, m

LEMMA MovedKeeps ==
    ASSUME WInv, Valid(lw), ~OthersEdit, MovedUp \/ MovedDown
    PROVE  WInv'
  <1>0. OptionsTyped /\ InRange(lw)
    BY DEF WInv
  <1>1. /\ lw.base \in Nat /\ lw.selected \in Nat /\ lw.length \in Nat
        /\ IsItem(lw.base, lw) /\ IsItem(lw.selected, lw)
    BY ConstantsAssumption DEF Valid, Loose
  <1>2. First(lw) <= lw.selected /\ lw.selected <= Last(lw) /\ First(lw) \in Nat /\ Last(lw) \in Nat
    BY <1>1, MinType, MaxType DEF First, Last
  <1> \A n : Updated(n) = {lw}
    BY DEF Updated
  <1>3. CASE MovedUp
    <2>1. 0 <= lw.selected + (-1) /\ lw.selected + (-1) < lw.length
      BY <1>1, <1>2, <1>3 DEF MovedUp, IsItem
    <2>2. Keeps(lw, SelectionMoved(lw, -1))
      BY <1>0, <2>1, SelectionMovedFollows, FollowsKeeps
    <2> QED
      BY <1>3, <2>2, KeptSteps DEF MovedUp
  <1>4. CASE MovedDown
    <2>1. 0 <= lw.selected + 1 /\ lw.selected + 1 < lw.length
      BY <1>1, <1>2, <1>4 DEF MovedDown
    <2>2. Keeps(lw, SelectionMoved(lw, 1))
      BY <1>0, <2>1, SelectionMovedFollows, FollowsKeeps
    <2> QED
      BY <1>4, <2>2, KeptSteps DEF MovedDown
  <1> QED
    BY <1>3, <1>4

LEMMA ResizeKeeps ==
    ASSUME WInv, Valid(lw), NEW h \in Heights, Resize(h)
    PROVE  WInv'
  <1>0. OptionsTyped /\ InRange(lw) /\ IsItem(lw.selected, lw)
    BY DEF WInv, Valid
  <1> DEFINE k == SetHeight(lw, h)
  <1>1. InRange(k) /\ k.show = lw.show /\ InSize(k) /\ Fits(k) /\ Around(k)
    BY <1>0, SetHeightFollows
  <1>2. lw' = k /\ sized' = TRUE /\ options' = options
    BY DEF Resize
  <1> HIDE DEF k
  <1>3. OptionsTyped' /\ (sized \in BOOLEAN)' /\ InRange(lw)' /\ (lw.show => Is("list"))'
    BY <1>0, <1>1, <1>2 DEF WInv, OptionsTyped, InRange, Is
  <1>4. InSize(lw)' /\ Fits(lw)'
    BY <1>1, <1>2 DEF InSize, Fits
  <1>5. Around(lw)'
    <2>1. MarginOf(lw)' = MarginOf(k)
      BY <1>2 DEF MarginOf
    <2> QED
      BY <1>1, <1>2, <2>1 DEF Around
  <1> QED
    BY <1>2, <1>3, <1>4, <1>5 DEF WInv

LEMMA InitKeeps == Init => WInv
  <1> SUFFICES ASSUME Init PROVE WInv
    OBVIOUS
  <1>1. PICK garbage \in Garbage :
           lw = [height |-> garbage, offset |-> 0, length |-> 0, start |-> 0, selected |-> 0,
                 base |-> 0, range |-> FALSE, show |-> Is("list"), highlight |-> FALSE]
    BY DEF Init
  <1>2. garbage \in Nat /\ garbage \in Unsigned /\ 0 \in 0..MaxLength /\ Is("list") \in BOOLEAN
    BY ConstantsAssumption DEF Unsigned, Is
  <1>3. lw \in Loose
    BY <1>1, <1>2 DEF Loose
  <1>4. 0 < Modulus \div 2
    BY ConstantsAssumption
  <1>5. OptionsTyped /\ sized = FALSE
    BY DEF Init, OptionsTyped
  <1> QED
    BY <1>1, <1>2, <1>3, <1>4, <1>5 DEF WInv, InRange

LEMMA NextKeeps ==
    ASSUME ~OthersEdit, Valid(lw), WInv, [Next]_vars
    PROVE  WInv'
  <1>0. OptionsTyped /\ InRange(lw)
    BY DEF WInv
  <1>1. \A i \in 0..MaxLength : i \in Nat
    BY ConstantsAssumption
  <1>2. ASSUME NEW h \in Heights, Resize(h) PROVE WInv'
    BY <1>2, ResizeKeeps
  <1>3. ASSUME NEW n \in 0..MaxLength, Load(n) PROVE WInv'
    BY <1>0, <1>3, SetLengthKeeps, KeptSteps DEF Load
  <1>4. ASSUME NEW n \in 0..MaxLength, ChangeDirectory(n) PROVE WInv'
    BY <1>4, ChangeDirectoryKeeps
  <1>5. ASSUME NEW n \in 0..MaxLength, SetText(n) PROVE WInv'
    BY <1>5, SetTextKeeps
  <1>6. ASSUME NEW n \in 0..MaxLength, Delete(n) PROVE WInv'
    BY <1>6, DeleteKeeps
  <1>7. ASSUME NEW i \in 0..MaxLength, Select(i) PROVE WInv'
    BY <1>0, <1>1, <1>7, SetCursorFollows, FollowsKeeps, KeptSteps DEF Select
  <1>8. ASSUME NEW i \in 0..MaxLength, CenterPlayingItem(i) PROVE WInv'
    BY <1>8, CenterPlayingItemKeeps
  <1>9. ASSUME NEW i \in 0..MaxLength, Click(i) PROVE WInv'
    BY <1>1, <1>9, ClickKeeps
  <1>10. ASSUME NEW i \in 0..MaxLength, Found(i) PROVE WInv'
    BY <1>1, <1>10, FoundKeeps
  <1>11. ASSUME NEW cmd \in ListCommand, Command(cmd) PROVE WInv'
    BY <1>11, CommandKeeps
  <1>12. CASE HideCursor \/ ShowCursor
    <2>1. \A l : InRange(l) => Keeps(l, l)
      BY DEF Keeps, SameWindow
    <2>2. \A b \in BOOLEAN : InRange([lw EXCEPT !.show = b])
      BY <1>0, Shown
    <2> QED
      BY <1>12, <2>1, <2>2, ShownSteps DEF HideCursor, ShowCursor
  <1>13. CASE Wheel
    <2>1. InSize(lw)
      BY <1>13 DEF Wheel, WInv
    <2> QED
      BY <1>0, <1>13, <2>1, ScrollUpKeeps, ScrollDownKeeps, KeptSteps DEF Wheel
  <1>14. CASE MovedUp \/ MovedDown
    BY <1>14, MovedKeeps
  <1>15. CASE OtherCommand
    <2>1. lw.start \in Nat
      BY <1>0 DEF InRange
    <2> QED
      BY <1>0, <1>15, <2>1, SetCursorFollows, FollowsKeeps, KeptSteps DEF OtherCommand
  <1>16. CASE UNCHANGED vars
    <2>1. Do(lw)
      BY <1>16 DEF vars, Do
    <2>2. Keeps(lw, lw)
      BY <1>0 DEF Keeps, SameWindow
    <2> QED
      BY <2>1, <2>2, KeptSteps
  <1> QED
    BY <1>2, <1>3, <1>4, <1>5, <1>6, <1>7, <1>8, <1>9, <1>10, <1>11, <1>12, <1>13, <1>14,
       <1>15, <1>16 DEF Next

-----------------------------------------------------------------------------
(* What the user sees.                                                     *)

LEMMA WInvKept ==
    ASSUME WInv, Valid(lw)
    PROVE  TypeOK /\ WindowFilled /\ CursorVisible /\ MarginsKept
  <1>1. /\ lw \in Loose /\ lw.start \in Nat /\ lw.length \in Nat /\ lw.length <= MaxLength
        /\ lw.selected \in Nat /\ lw.base \in Nat /\ MaxLength \in Nat /\ lw.height \in Nat
        /\ lw.selected < lw.length \/ lw.selected = 0
        /\ lw.base < lw.length \/ lw.base = 0
    BY ConstantsAssumption DEF Valid, Loose, IsItem
  <1>2. OptionsTyped /\ InRange(lw)
    BY DEF WInv
  <1>3. sized => /\ lw.height \in Unsigned /\ lw.offset \in Unsigned
    <2> SUFFICES ASSUME sized PROVE lw.height \in Unsigned /\ lw.offset \in Unsigned
      OBVIOUS
    <2> DEFINE M == Modulus \div 2
    <2>1. /\ lw.height \in Nat /\ lw.offset \in Nat
          /\ 2 * (lw.height + lw.offset + MaxLength) <= M /\ 2 * M <= Modulus /\ M \in Nat
          /\ lw.height > 0 /\ Modulus \in Nat
      BY <1>1, <1>2, Sizes DEF WInv, OptionsTyped
    <2> HIDE DEF M
    <2> QED
      BY <1>1, <2>1 DEF Unsigned
  <1>4. ~sized => lw.height \in Unsigned /\ lw.offset \in Unsigned
    BY ConstantsAssumption DEF WInv, Unsigned
  <1>5. lw.start \in Unsigned
    <2>1. lw.start < Modulus \div 2 /\ Modulus \in Nat
      BY <1>2, ConstantsAssumption DEF InRange
    <2> QED
      BY <1>1, <2>1 DEF Unsigned
  <1>6. lw.selected \in 0..MaxLength /\ lw.base \in 0..MaxLength
    BY <1>1
  <1>7. sized => lw.height \in Heights /\ lw.start <= MaxLength
    <2>1. sized => lw.height \in Heights /\ (lw.start = 0 \/ lw.start + lw.height <= lw.length)
      BY DEF WInv, InSize, Fits
    <2> QED
      BY <1>1, <2>1
  <1>8. sized \in BOOLEAN
    BY DEF WInv
  <1>9. lw \in [height : Unsigned, offset : Unsigned, length : 0..MaxLength, start : Unsigned,
                selected : 0..MaxLength, base : 0..MaxLength, range : BOOLEAN,
                show : BOOLEAN, highlight : BOOLEAN]
    <2>1. lw.height \in Unsigned /\ lw.offset \in Unsigned
      BY <1>3, <1>4, <1>8
    <2> QED
      BY <1>1, <1>5, <1>6, <2>1 DEF Loose
  <1>10. TypeOK
    BY <1>2, <1>7, <1>8, <1>9 DEF TypeOK, OptionsTyped
  <1>11. WindowFilled
    BY DEF WInv, WindowFilled, Fits
  <1>12. MarginsKept
    BY DEF WInv, MarginsKept, Around, MarginOf, Margin
  <1>13. CursorVisible
    <2> SUFFICES ASSUME sized, lw.show, lw.length > 0
                 PROVE  lw.start <= lw.selected /\ lw.selected < lw.start + lw.height
      BY DEF CursorVisible, OnScreen
    <2>1. MarginOf(lw) \in Nat
      BY <1>1, <1>2, MarginSmall DEF WInv
    <2>2. /\ lw.start = 0 \/ lw.start + MarginOf(lw) <= lw.selected
          /\ lw.start + lw.height >= lw.length \/ lw.selected + MarginOf(lw) < lw.start + lw.height
      BY DEF WInv, Around
    <2> HIDE DEF MarginOf
    <2> QED
      BY <1>1, <2>1, <2>2
  <1> QED
    BY <1>10, <1>11, <1>12, <1>13

\* In a window that is given the cursor first, if need be.
LEMMA CommandOn ==
    ASSUME WInv, Valid(lw), NEW cmd \in {"SCROLL_UP_LINE", "SCROLL_DOWN_LINE", "TOP", "MIDDLE", "BOTTOM"},
           Command(cmd)
    PROVE  \E l : /\ InRange(l) /\ InSize(l) /\ Fits(l) /\ IsItem(l.selected, l)
                  /\ l.start = lw.start /\ l.length = lw.length /\ l.height = lw.height
                  /\ lw' = CASE cmd = "SCROLL_UP_LINE" -> ScrollUp(l, 1)
                             [] cmd = "SCROLL_DOWN_LINE" -> ScrollDown(l, 1)
                             [] cmd = "TOP" -> MoveCursorTop(l)
                             [] cmd = "MIDDLE" -> MoveCursorMiddle(l)
                             [] cmd = "BOTTOM" -> MoveCursorBottom(l)
  <1>1. sized /\ InRange(lw) /\ InSize(lw) /\ Fits(lw) /\ IsItem(lw.selected, lw)
    BY DEF WInv, Command, Valid
  <1> DEFINE m == [lw EXCEPT !.show = TRUE]
  <1>2. /\ InRange(m) /\ InSize(m) /\ Fits(m)
        /\ m.start = lw.start /\ m.length = lw.length /\ m.height = lw.height
        /\ m.selected = lw.selected
    BY <1>1, Shown
  <1> HIDE DEF m
  <1>3. IsItem(m.selected, m)
    BY <1>1, <1>2 DEF IsItem
  <1>4. CASE lw' = HandleCommand(lw, cmd)
    BY <1>1, <1>4 DEF HandleCommand
  <1>5. CASE lw' = HandleCommand(m, cmd)
    BY <1>2, <1>3, <1>5 DEF HandleCommand
  <1>6. CASE cmd \in ScrollCommand /\ lw' = HandleScrollCommand(lw, cmd)
    <2>1. \/ cmd = "SCROLL_UP_LINE" /\ lw' = ScrollUp(lw, 1)
          \/ cmd = "SCROLL_DOWN_LINE" /\ lw' = ScrollDown(lw, 1)
      BY <1>6 DEF HandleScrollCommand, ScrollCommand
    <2> QED
      BY <1>1, <2>1
  <1> QED
    BY <1>4, <1>5, <1>6 DEF Command, Do, m

LEMMA LinesScrolled ==
    ASSUME WInv, Valid(lw)
    PROVE  /\ Command("SCROLL_UP_LINE") => lw'.start = Max({0, lw.start - 1})
           /\ Command("SCROLL_DOWN_LINE") =>
                 lw'.start = Max({lw.start, Min({lw.start + 1, lw.length - lw.height})})
  <1>0. OptionsTyped
    BY DEF WInv
  <1>1. ASSUME Command("SCROLL_UP_LINE") PROVE lw'.start = Max({0, lw.start - 1})
    <2>1. PICK l : /\ InRange(l) /\ InSize(l) /\ Fits(l) /\ IsItem(l.selected, l)
                   /\ l.start = lw.start /\ lw' = ScrollUp(l, 1)
      BY <1>1, CommandOn
    <2> QED
      BY <1>0, <2>1, LineUp
  <1>2. ASSUME Command("SCROLL_DOWN_LINE")
        PROVE  lw'.start = Max({lw.start, Min({lw.start + 1, lw.length - lw.height})})
    <2>1. PICK l : /\ InRange(l) /\ InSize(l) /\ Fits(l) /\ IsItem(l.selected, l)
                   /\ l.start = lw.start /\ l.length = lw.length /\ l.height = lw.height
                   /\ lw' = ScrollDown(l, 1)
      BY <1>2, CommandOn
    <2> QED
      BY <1>0, <2>1, LineDown
  <1> QED
    BY <1>1, <1>2

LEMMA WindowStays ==
    ASSUME WInv, Valid(lw), NEW cmd \in {"TOP", "MIDDLE", "BOTTOM"}, Command(cmd)
    PROVE  lw'.start = lw.start
  <1>1. PICK l : /\ InRange(l) /\ InSize(l) /\ Fits(l) /\ l.start = lw.start
                 /\ lw' \in {MoveCursorTop(l), MoveCursorMiddle(l), MoveCursorBottom(l)}
    BY CommandOn
  <1> QED
    BY <1>1, TopStays, MiddleStays, BottomStays DEF WInv

\* The window has no blank lines while items are hidden, the cursor is on the screen with
\* scroll-offset lines around it where there are as many, a line scrolled is a line, and
\* going to the top, middle or bottom leaves the window alone: for every height, option,
\* length and uninitialized height, and whatever the pages do (WindowKept).
THEOREM ViewFollowsCursor ==
    ASSUME ~OthersEdit
    PROVE  Spec => WindowKept
  <1>1. Init => Inv /\ WInv
    BY InitValid, InitKeeps
  <1>2. Inv /\ WInv /\ [Next]_vars => (Inv /\ WInv)'
    BY NextValid, NextKeeps DEF Inv
  <1>3. Inv /\ WInv => TypeOK /\ WindowFilled /\ CursorVisible /\ MarginsKept
    BY WInvKept DEF Inv
  <1>4. Inv /\ WInv /\ [Next]_vars =>
           [/\ Command("SCROLL_UP_LINE") => lw'.start = Max({0, lw.start - 1})
            /\ Command("SCROLL_DOWN_LINE") =>
                  lw'.start = Max({lw.start, Min({lw.start + 1, lw.length - lw.height})})]_vars
    BY LinesScrolled DEF Inv
  <1>5. Inv /\ WInv /\ [Next]_vars =>
           [\A cmd \in {"TOP", "MIDDLE", "BOTTOM"} : Command(cmd) => lw'.start = lw.start]_vars
    BY WindowStays DEF Inv
  <1> QED
    BY <1>1, <1>2, <1>3, <1>4, <1>5, PTL DEF Spec, WindowKept, ScrollsByLine, StaysInWindow
=============================================================================
